---------------------------- MODULE GroundProgram ----------------------------
(***************************************************************************)
(* The immutable input of the ground evaluator: a finite set of atoms,     *)
(* conjunctive rules over them and three base sets, as GroundRule and      *)
(* GroundProgram of ground/model.py hold them.  Atom and rule references   *)
(* are opaque here, as they are in the code: only equality is used.        *)
(*                                                                         *)
(* The code keeps rules in a tuple sorted by id; nothing in the evaluator  *)
(* depends on the order, so a program holds a set of rule records.         *)
(*                                                                         *)
(* In this and the other modules, a definition that comes just before the  *)
(* one it resembles and is used nowhere is that definition with a slip in  *)
(* it; PROJECT.json names the property each slip breaks.                   *)
(***************************************************************************)

CONSTANTS
  Atom,    \* the atom references a program may mention
  RuleId   \* the rule references a program may mention

Rule ==
  [id : RuleId, head : Atom, positive : SUBSET Atom, negative : SUBSET Atom]

ProgramInput ==
  [atoms : SUBSET Atom,
   rules : SUBSET Rule,
   base_live : SUBSET Atom,
   base_excluded : SUBSET Atom,
   protected_open : SUBSET Atom]

-----------------------------------------------------------------------------
(* What the constructor of GroundProgram looks for, in its order.          *)

DuplicateRuleIds(p) ==
  {i \in RuleId : \E r, s \in p.rules : r # s /\ r.id = i /\ s.id = i}

Referenced(p) ==
  p.base_live \cup p.base_excluded \cup p.protected_open
    \cup UNION {{r.head} \cup r.positive \cup r.negative : r \in p.rules}

UnknownAtoms(p) == Referenced(p) \ p.atoms

BaseCollision(p) == p.base_live \cap p.base_excluded

OpenCollision(p) == p.protected_open \cap (p.base_live \cup p.base_excluded)

WellFormedUpToUnknownAtoms(p) ==
  /\ DuplicateRuleIds(p) = {}
  /\ BaseCollision(p) = {}
  /\ OpenCollision(p) = {}

WellFormed(p) ==
  /\ DuplicateRuleIds(p) = {}
  /\ UnknownAtoms(p) = {}
  /\ BaseCollision(p) = {}
  /\ OpenCollision(p) = {}

-----------------------------------------------------------------------------
(* What one rule says under a partial partition.                           *)

EnabledUnlessNegativeLive(r, live, excluded) ==
  r.positive \subseteq live /\ r.negative \cap live = {}

DefinitelyEnabled(r, live, excluded) ==
  r.positive \subseteq live /\ r.negative \subseteq excluded

EnabledRules(p, live, excluded) ==
  {r \in p.rules : DefinitelyEnabled(r, live, excluded)}

EnabledHeads(p, live, excluded) ==
  {r.head : r \in EnabledRules(p, live, excluded)}

BlockedWhileNegativeUnsettled(r, live, excluded) ==
  \/ r.positive \cap excluded # {}
  \/ ~ r.negative \subseteq excluded

\* A rule that no later status can enable.
Blocked(r, live, excluded) ==
  \/ r.positive \cap excluded # {}
  \/ r.negative \cap live # {}

SupportsDespiteLoop(r, candidates, live, excluded) ==
  ~ Blocked(r, live, excluded)

\* A rule that can still support its head without the candidates' help.
SupportsFromOutside(r, candidates, live, excluded) ==
  /\ ~ Blocked(r, live, excluded)
  /\ r.positive \cap candidates = {}

ExternallySupported(p, candidates, live, excluded) ==
  {a \in candidates :
     \E r \in p.rules :
        r.head = a /\ SupportsFromOutside(r, candidates, live, excluded)}
=============================================================================
