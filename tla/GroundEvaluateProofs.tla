------------------------ MODULE GroundEvaluateProofs ------------------------
(***************************************************************************)
(* For every finite or infinite set of atoms and every set of candidate    *)
(* programs: the statuses a call of evaluate assigns stay justified, its   *)
(* collision check can only blame the base, what it returns is the well-   *)
(* founded partition, and it implements the open-ended iteration.          *)
(***************************************************************************)
EXTENDS GroundEvaluate, WellFoundedModelProofs, TLAPS

Evaluating == pc \in {"round", "shrink", "done"}

(* What one round of the loop knows about its two intermediate sets.       *)
RoundInv ==
  pc = "shrink" =>
    /\ Collision = {}
    /\ next_live = live \cup EnabledHeads(program, live, excluded)
    /\ unfounded \cap program.protected_open = {}
    /\ unfounded \cap next_live = {}

AcceptedInv == Evaluating => WellFormed(program)

ErrorInv == pc # "raised" => error = NoError

NewInv == pc = "construct" => live = {} /\ excluded = {}

(* No unfounded set is ever lost by a shrinking pass.                      *)
GreatestInv ==
  pc = "shrink" =>
    \A u \in SUBSET ((program.atoms \ program.protected_open) \ next_live) :
      ExternallySupported(program, u, next_live, excluded) = {} =>
        u \subseteq unfounded

(* Only atoms of the program are given statuses.                           *)
AtomsInv ==
  live \cup excluded \cup next_live \cup unfounded \cup suspended \subseteq program.atoms

(* Every live atom is live in the base or the head of an enabled rule, and *)
(* the base keeps its statuses.                                            *)
SupportInv ==
  Evaluating =>
    /\ program.base_live \subseteq live /\ program.base_excluded \subseteq excluded
    /\ live \subseteq program.base_live \cup EnabledHeads(program, live, excluded)

(* What is returned can be inferred no further.                            *)
SettledInv ==
  pc = "done" =>
    /\ suspended = program.atoms \ (live \cup excluded)
    /\ EnabledHeads(program, live, excluded) \subseteq live
    /\ \A u \in SUBSET (program.atoms \ (program.protected_open \cup live)) :
         ExternallySupported(program, u, live, excluded) = {} => u \subseteq excluded

(* What the two sets mean, round by round.                                 *)
GroundedInv == Evaluating => Grounded(program, live, excluded)

(* What a step preserves whatever the program's references are: the        *)
(* strengthening of ExclusionsStayJustified and EvaluationIsWellFounded.   *)
Core ==
  /\ AtomsInv
  /\ AcceptedInv
  /\ NewInv
  /\ RoundInv
  /\ GreatestInv
  /\ SupportInv
  /\ SettledInv
  /\ GroundedInv
  /\ ExclusionsStayJustified

Inv ==
  /\ Core
  /\ TypeOK
  /\ ErrorInv
  /\ CollisionOnlyFromBase

-----------------------------------------------------------------------------
(* A rule stays blocked while both sets grow.                              *)
LEMMA BlockedGrows ==
  ASSUME NEW r, NEW l1, NEW l2, NEW e1, NEW e2,
         l1 \subseteq l2, e1 \subseteq e2, Blocked(r, l1, e1)
  PROVE  Blocked(r, l2, e2)
  BY DEF Blocked

(* A blocked rule is not enabled by a consistent partial partition.        *)
LEMMA BlockedNotEnabled ==
  ASSUME NEW r, NEW l, NEW e, l \cap e = {}, Blocked(r, l, e)
  PROVE  ~ DefinitelyEnabled(r, l, e)
  BY DEF Blocked, DefinitelyEnabled

(* When no candidate is supported from outside, excluding all of them      *)
(* blocks every rule for every one of them.                                *)
LEMMA UnfoundedBlocked ==
  ASSUME NEW p, NEW u, NEW l, NEW e,
         ExternallySupported(p, u, l, e) = {},
         NEW a \in u, NEW r \in p.rules, r.head = a
  PROVE  Blocked(r, l, e \cup u)
  BY DEF ExternallySupported, SupportsFromOutside, Blocked

(* The heads a program derives are among its atoms.                        *)
LEMMA HeadsAreAtoms ==
  ASSUME NEW p, WellFormed(p), NEW l, NEW e
  PROVE  EnabledHeads(p, l, e) \subseteq p.atoms
  BY DEF WellFormed, UnknownAtoms, Referenced, EnabledHeads, EnabledRules

LEMMA InitInv == Init => Inv
  BY ProgramsAssumption
  DEF Init, Inv, Core, AtomsInv, TypeOK, AcceptedInv, Evaluating, ErrorInv, NewInv, RoundInv,
      GreatestInv, SupportInv, SettledInv, GroundedInv, ExclusionsStayJustified,
      CollisionOnlyFromBase, NoError

(* Rules stay enabled while both sets grow.                                *)
LEMMA EnabledGrows ==
  ASSUME NEW p, NEW l1, NEW l2, NEW e1, NEW e2, l1 \subseteq l2, e1 \subseteq e2
  PROVE  EnabledHeads(p, l1, e1) \subseteq EnabledHeads(p, l2, e2)
  BY DEF EnabledHeads, EnabledRules, DefinitelyEnabled

(* An atom the evaluator excluded itself is not the head of an enabled     *)
(* rule, so a collision blames the base.                                   *)
LEMMA CollisionInBase ==
  ASSUME Core, pc = "round"
  PROVE  Collision \subseteq program.base_excluded
<1> SUFFICES ASSUME NEW a \in Collision, a \notin program.base_excluded
             PROVE  FALSE
  OBVIOUS
<1>1. PICK r \in program.rules : r.head = a /\ DefinitelyEnabled(r, live, excluded)
  BY DEF Collision, EnabledHeads, EnabledRules
<1>2. Blocked(r, live, excluded) /\ live \cap excluded = {}
  BY <1>1 DEF Core, ExclusionsStayJustified, Collision
<1> QED
  BY <1>1, <1>2, BlockedNotEnabled

LEMMA NextCore ==
  ASSUME Core, [Next]_vars
  PROVE  Core'
<1> USE DEF Core, AcceptedInv, Evaluating, NewInv
<1>1. CASE Reject
  BY <1>1 DEF Reject, AtomsInv, RoundInv, GreatestInv, SupportInv, SettledInv, GroundedInv,
     ExclusionsStayJustified
<1>2. CASE Start
  <2>1. AtomsInv'
    BY <1>2 DEF Start, AtomsInv, WellFormed, UnknownAtoms, Referenced
  <2>2. ExclusionsStayJustified'
    BY <1>2 DEF Start, ExclusionsStayJustified, WellFormed, BaseCollision,
       OpenCollision
  <2>3. GroundedInv'
    BY <1>2, BaseGrounded DEF Start, GroundedInv
  <2> QED
    BY <1>2, <2>1, <2>2, <2>3 DEF Start, RoundInv, GreatestInv, SupportInv, SettledInv
<1>3. CASE Derive
  <2>1. AtomsInv'
    <3>1. EnabledHeads(program, live, excluded) \subseteq program.atoms
      BY <1>3, HeadsAreAtoms DEF Derive
    <3> QED
      BY <1>3, <3>1 DEF AtomsInv, Derive
  <2>2. RoundInv'
    BY <1>3 DEF Derive, RoundInv, Collision
  <2>3. GreatestInv'
    BY <1>3 DEF Derive, GreatestInv
  <2> QED
    BY <1>3, <2>1, <2>2, <2>3
    DEF Derive, SupportInv, SettledInv, GroundedInv, ExclusionsStayJustified
<1>4. CASE RaiseCollision
  BY <1>4 DEF RaiseCollision, AtomsInv, RoundInv, GreatestInv, SupportInv, SettledInv,
     GroundedInv, ExclusionsStayJustified
<1>5. CASE Shrink
  <2>1. GreatestInv'
    <3> SUFFICES
          ASSUME NEW u \in SUBSET ((program.atoms \ program.protected_open)
                                     \ next_live),
                 ExternallySupported(program, u, next_live, excluded) = {},
                 u \subseteq unfounded
          PROVE  u \cap Supported = {}
      BY <1>5 DEF GreatestInv, Shrink
    <3> QED
      BY DEF Supported, ExternallySupported, SupportsFromOutside
  <2>2. RoundInv'
    BY <1>5 DEF Shrink, RoundInv, Collision
  <2> QED
    BY <1>5, <2>1, <2>2
    DEF Shrink, AtomsInv, SupportInv, SettledInv, GroundedInv, ExclusionsStayJustified
<1>6. CASE Commit
  <2>1. live \cap excluded = {} /\ next_live \cap excluded = {}
    BY <1>6 DEF RoundInv, Commit, ExclusionsStayJustified, Collision
  <2>2. /\ live \subseteq live' /\ excluded \subseteq excluded'
        /\ live' \cap excluded' = {}
        /\ program.protected_open \cap excluded' = {}
    BY <1>6, <2>1 DEF RoundInv, Commit, ExclusionsStayJustified
  <2>3. ASSUME NEW a \in excluded' \ program.base_excluded,
               NEW r \in program.rules, r.head = a
        PROVE  Blocked(r, live', excluded')
    <3>1. CASE a \in excluded
      <4>1. Blocked(r, live, excluded)
        BY <1>6, <2>3, <3>1 DEF ExclusionsStayJustified, Commit
      <4> QED
        BY <2>2, <4>1, BlockedGrows
    <3>2. CASE a \in unfounded
      BY <1>6, <2>3, <3>2, UnfoundedBlocked DEF Commit, Supported
    <3> QED
      BY <1>6, <2>3, <3>1, <3>2 DEF Commit
  <2>4. ExclusionsStayJustified'
    BY <1>6, <2>2, <2>3 DEF Commit, ExclusionsStayJustified
  <2>5. SupportInv'
    <3>1. EnabledHeads(program, live, excluded) \subseteq EnabledHeads(program, live', excluded')
      BY <2>2, EnabledGrows
    <3> QED
      BY <1>6, <2>2, <3>1 DEF Commit, SupportInv, RoundInv
  <2>6. GroundedInv'
    <3> DEFINE h == EnabledHeads(program, live, excluded)
    <3>1. /\ WellFormed(program)
          /\ h \cap excluded = {}
          /\ unfounded \in SUBSET program.atoms
          /\ unfounded \cap (program.protected_open \cup live \cup h) = {}
          /\ ExternallySupported(program, unfounded, live \cup h, excluded) = {}
          /\ next_live = live \cup h
      BY <1>6 DEF AtomsInv, RoundInv, Commit, Collision, Supported
    <3>2. Grounded(program, live, excluded)
      BY <1>6 DEF Commit, GroundedInv
    <3>3. Grounded(program, live \cup h, excluded \cup unfounded)
      BY <3>1, <3>2, InferenceGrounded
    <3> QED
      BY <1>6, <3>1, <3>3 DEF Commit, GroundedInv
  <2> QED
    BY <1>6, <2>4, <2>5, <2>6 DEF Commit, AtomsInv, RoundInv, GreatestInv, SettledInv
<1>7. CASE Finish
  <2>1. SettledInv'
    BY <1>7 DEF Finish, SettledInv, RoundInv, GreatestInv, RoundIsStable
  <2> QED
    BY <1>7, <2>1
    DEF Finish, AtomsInv, RoundInv, GreatestInv, SupportInv, GroundedInv, ExclusionsStayJustified
<1>8. CASE UNCHANGED vars
  BY <1>8 DEF vars, AtomsInv, RoundInv, GreatestInv, Collision, SupportInv, SettledInv,
     GroundedInv, ExclusionsStayJustified
<1> QED
  BY <1>1, <1>2, <1>3, <1>4, <1>5, <1>6, <1>7, <1>8 DEF Next, Returned

(* What is returned is the well-founded partition.                         *)
LEMMA SettledIsWellFounded ==
  ASSUME Core, pc = "done"
  PROVE  /\ live = WellFoundedLive(program)
         /\ excluded = WellFoundedExcluded(program)
         /\ Contradicted(program) = {}
<1>1. WellFormed(program) /\ Grounded(program, live, excluded)
  BY DEF Core, AcceptedInv, GroundedInv, Evaluating
<1>2. /\ EnabledHeads(program, live, excluded) \subseteq live
      /\ \A u \in SUBSET (program.atoms \ (program.protected_open \cup live)) :
           ExternallySupported(program, u, live, excluded) = {} => u \subseteq excluded
  BY DEF Core, SettledInv
<1> QED
  BY <1>1, <1>2, StuckIsComplete

LEMMA NextInv ==
  ASSUME Inv, [Next]_vars
  PROVE  Inv'
<1> DEFINE Typed == /\ program \in ProgramInput
                    /\ pc \in {"construct", "round", "shrink", "done", "raised"}
                    /\ error.code \in {"NONE", "DUPLICATE_RULE_ID", "UNKNOWN_ATOM_REFERENCE",
                                        "BASE_STATUS_COLLISION", "PROTECTED_OPEN_COLLISION",
                                        "DERIVED_STATUS_COLLISION"}
                    /\ error.atoms \subseteq Atom
                    /\ error.rules \subseteq RuleId
                    /\ ErrorInv /\ CollisionOnlyFromBase
<1>1. Core'
  BY NextCore DEF Inv
<1>2. Typed'
  <2> USE DEF Inv, TypeOK
  <2>1. CASE Reject
    <3>1. error'.code \in {"DUPLICATE_RULE_ID", "UNKNOWN_ATOM_REFERENCE",
                           "BASE_STATUS_COLLISION", "PROTECTED_OPEN_COLLISION"}
      BY <2>1 DEF Reject, ErrorOf
    <3>2. error'.atoms \subseteq Atom /\ error'.rules \subseteq RuleId
      BY <2>1 DEF Reject, ErrorOf, DuplicateRuleIds, UnknownAtoms, BaseCollision,
         OpenCollision, Referenced, ProgramInput, Rule
    <3> QED
      BY <2>1, <3>1, <3>2 DEF Reject, ErrorInv, CollisionOnlyFromBase
  <2>2. CASE RaiseCollision
    <3>1. Collision \subseteq program.base_excluded
      BY <2>2, CollisionInBase DEF RaiseCollision
    <3> QED
      BY <2>2, <3>1
      DEF RaiseCollision, ErrorOf, Collision, EnabledRules, ProgramInput, Rule, ErrorInv,
          CollisionOnlyFromBase
  <2>3. CASE Start \/ Derive \/ Shrink \/ Commit \/ Finish \/ UNCHANGED vars
    BY <2>3
    DEF Start, Derive, Shrink, Commit, Finish, vars, ErrorInv, CollisionOnlyFromBase, NoError
  <2> QED
    BY <2>1, <2>2, <2>3 DEF Next, Returned
<1> QED
  BY <1>1, <1>2 DEF Inv, Core, AtomsInv, TypeOK

(* The inductive invariant holds in every call of evaluate.                *)
THEOREM Invariance == Spec => []Inv
<1>1. Inv /\ [Next]_vars => Inv'
  BY NextInv
<1> QED
  BY <1>1, InitInv, PTL DEF Spec

(* TypeOK: every set the evaluator keeps holds atoms of its program.       *)
THEOREM TypeCorrect == Spec => []TypeOK
<1>1. Inv => TypeOK
  BY DEF Inv
<1> QED
  BY <1>1, Invariance, PTL

(* CollisionOnlyFromBase: DERIVED_STATUS_COLLISION never names an atom the *)
(* evaluator excluded on its own.                                          *)
THEOREM CollisionBlamesBase == Spec => []CollisionOnlyFromBase
<1>1. Inv => CollisionOnlyFromBase
  BY DEF Inv
<1> QED
  BY <1>1, Invariance, PTL

(* ExclusionsStayJustified: exclusions have no possible support left, open *)
(* atoms stay open, and the parts are disjoint.                            *)
THEOREM ExclusionsJustified == Spec => []ExclusionsStayJustified
<1>1. Inv => ExclusionsStayJustified
  BY DEF Inv, Core
<1> QED
  BY <1>1, Invariance, PTL

(* RoundsOnlyAdvance: no status is withdrawn, and every round but the last *)
(* settles an atom.                                                        *)
THEOREM StatusesAdvance == Spec => RoundsOnlyAdvance
<1>1. Inv /\ [Next]_vars =>
        [/\ live \subseteq live'
         /\ excluded \subseteq excluded'
         /\ (pc = "shrink" /\ pc' = "round") =>
              live \cup excluded # (live \cup excluded)']_vars
  <2> SUFFICES ASSUME Inv, Next
               PROVE  /\ live \subseteq live'
                      /\ excluded \subseteq excluded'
                      /\ (pc = "shrink" /\ pc' = "round") =>
                           live \cup excluded # (live \cup excluded)'
    OBVIOUS
  <2>1. CASE Start
    BY <2>1 DEF Inv, Core, Start, NewInv
  <2>2. CASE Commit
    <3>1. /\ live \subseteq next_live
          /\ next_live \cap excluded = {}
          /\ unfounded \cap next_live = {}
      BY <2>2 DEF Inv, Core, Commit, RoundInv, ExclusionsStayJustified, Collision
    <3> QED
      BY <2>2, <3>1 DEF Commit, RoundIsStable
  <2> QED
    BY <2>1, <2>2
    DEF Next, Returned, Reject, Derive, RaiseCollision, Shrink, Finish, vars
<1> QED
  BY <1>1, Invariance, PTL DEF Spec, RoundsOnlyAdvance

(* GreatestUnfoundedFound: the shrinking loop returns the union of all     *)
(* unfounded sets, not merely one of them.                                 *)
THEOREM GreatestUnfounded == Spec => []GreatestUnfoundedFound
<1>1. Inv => GreatestUnfoundedFound
  <2> SUFFICES ASSUME Inv, pc = "shrink", Supported = {}
               PROVE  unfounded = UNION {u \in SUBSET ((program.atoms
                        \ program.protected_open) \ next_live) :
                          ExternallySupported(program, u, next_live, excluded) = {}}
    BY DEF GreatestUnfoundedFound
  <2>1. unfounded \in SUBSET ((program.atoms \ program.protected_open) \ next_live)
    BY DEF Inv, Core, TypeOK, RoundInv
  <2> QED
    BY <2>1 DEF Inv, Core, GreatestInv, Supported
<1> QED
  BY <1>1, Invariance, PTL

-----------------------------------------------------------------------------
(* What the result and the errors mean.                                    *)
LEMMA ReturnsWellFounded == Inv => EvaluationIsWellFounded
  BY SettledIsWellFounded DEF Inv, Core, SettledInv, EvaluationIsWellFounded

LEMMA NextRaises ==
  ASSUME Inv, RaisesExactlyWhenContradicted, [Next]_vars
  PROVE  RaisesExactlyWhenContradicted'
<1>1. CASE RaiseCollision
  <2>1. /\ live \subseteq WellFoundedLive(program)
        /\ excluded \subseteq WellFoundedExcluded(program)
    BY <1>1, GroundedSound
    DEF RaiseCollision, Inv, Core, AcceptedInv, GroundedInv, Evaluating
  <2>2. Collision \subseteq Contradicted(program)
    BY <1>1, <2>1, CollisionInBase
    DEF Inv, RaiseCollision, Collision, EnabledHeads, EnabledRules, DefinitelyEnabled,
        Contradicted
  <2> QED
    BY <1>1, <2>2 DEF RaiseCollision, ErrorOf, RaisesExactlyWhenContradicted
<1>2. CASE Finish
  <2>1. Core' /\ pc' = "done" /\ program' = program
    BY <1>2, NextCore DEF Inv, Next, Finish
  <2>2. (Core /\ pc = "done" => Contradicted(program) = {})'
    BY SettledIsWellFounded, PTL
  <2> QED
    BY <1>2, <2>1, <2>2 DEF Finish, RaisesExactlyWhenContradicted
<1>3. CASE Reject \/ Start \/ Derive \/ Shrink \/ Commit \/ UNCHANGED vars
  BY <1>3
  DEF Reject, Start, Derive, Shrink, Commit, vars, ErrorOf, Inv, ErrorInv, NoError,
      RaisesExactlyWhenContradicted
<1> QED
  BY <1>1, <1>2, <1>3 DEF Next, Returned

(* EvaluationIsWellFounded: for every program, what evaluate returns is    *)
(* the well-founded partition.                                             *)
THEOREM EvaluationCorrect == Spec => []EvaluationIsWellFounded
  BY ReturnsWellFounded, Invariance, PTL

(* RaisesExactlyWhenContradicted: evaluate never returns for a program     *)
(* whose meaning contradicts its base, and never raises for another.       *)
THEOREM RaisesCorrectly == Spec => []RaisesExactlyWhenContradicted
<1>1. Init => RaisesExactlyWhenContradicted
  BY DEF Init, RaisesExactlyWhenContradicted, NoError
<1>2. Inv /\ RaisesExactlyWhenContradicted /\ [Next]_vars => RaisesExactlyWhenContradicted'
  BY NextRaises
<1> QED
  BY <1>1, <1>2, Invariance, PTL DEF Spec

(* ResolvingOpenNeverFlips: however a caller later resolves open atoms, no *)
(* status evaluate has given is taken back.                                *)
THEOREM OpenNeverFlips == Spec => []ResolvingOpenNeverFlips
<1>1. Inv => ResolvingOpenNeverFlips
  <2> SUFFICES ASSUME Inv, pc = "done",
                      NEW q \in Resolutions(program), WellFormed(q),
                      Contradicted(q) = {}
               PROVE  /\ live \subseteq WellFoundedLive(q)
                      /\ excluded \subseteq WellFoundedExcluded(q)
    BY DEF ResolvingOpenNeverFlips
  <2> QED
    BY SettledIsWellFounded, ResolutionExtends DEF Inv, Core, AcceptedInv, Evaluating
<1> QED
  BY <1>1, Invariance, PTL

-----------------------------------------------------------------------------
(* The operators of the iteration are those of this module.                *)
LEMMA SameOperators ==
  ASSUME NEW p, NEW u, NEW l, NEW e
  PROVE  /\ Iteration!WellFormed(p) <=> WellFormed(p)
         /\ Iteration!EnabledHeads(p, l, e) = EnabledHeads(p, l, e)
         /\ Iteration!ExternallySupported(p, u, l, e) = ExternallySupported(p, u, l, e)
  <1>1. Iteration!WellFormed(p) <=> WellFormed(p)
    BY DEF Iteration!WellFormed, WellFormed, Iteration!DuplicateRuleIds,
       DuplicateRuleIds, Iteration!UnknownAtoms, UnknownAtoms,
       Iteration!Referenced, Referenced, Iteration!BaseCollision, BaseCollision,
       Iteration!OpenCollision, OpenCollision
  <1>2. Iteration!EnabledHeads(p, l, e) = EnabledHeads(p, l, e)
    BY DEF Iteration!EnabledHeads, EnabledHeads, Iteration!EnabledRules,
       EnabledRules, Iteration!DefinitelyEnabled, DefinitelyEnabled
  <1>3. Iteration!ExternallySupported(p, u, l, e) = ExternallySupported(p, u, l, e)
    BY DEF Iteration!ExternallySupported, ExternallySupported,
       Iteration!SupportsFromOutside, SupportsFromOutside, Iteration!Blocked,
       Blocked
  <1> QED
    BY <1>1, <1>2, <1>3

(* ImplementsIteration: every step of the evaluator is an inference, a     *)
(* start or an end the open-ended iteration allows, or invisible to it.    *)
THEOREM Refinement == Spec => ImplementsIteration
<1>1. Init => Iteration!Init
  BY DEF Init, Iteration!Init, AbstractStatus
<1>2. Inv /\ [Next]_vars => [Iteration!Next]_(Iteration!vars)
  <2> SUFFICES ASSUME Inv, [Next]_vars
               PROVE  Iteration!Next \/ UNCHANGED Iteration!vars
    OBVIOUS
  <2>1. CASE Reject
    BY <2>1, SameOperators
    DEF Reject, Iteration!Next, Iteration!Refuse, AbstractStatus, WellFormed
  <2>2. CASE Start
    BY <2>2, SameOperators
    DEF Start, Iteration!Next, Iteration!Start, AbstractStatus
  <2>3. CASE Derive
    BY <2>3 DEF Derive, Iteration!vars, AbstractStatus
  <2>4. CASE RaiseCollision
    <3>1. Collision \subseteq program.base_excluded
      BY <2>4, CollisionInBase DEF Inv, RaiseCollision
    <3> QED
      BY <2>4, <3>1, SameOperators
      DEF RaiseCollision, Collision, Iteration!Next, Iteration!Contradict,
          AbstractStatus
  <2>5. CASE Shrink
    BY <2>5 DEF Shrink, Iteration!vars, AbstractStatus
  <2>6. CASE Commit
    <3> DEFINE h == EnabledHeads(program, live, excluded)
    <3>1. /\ next_live = live \cup h
          /\ h \cap excluded = {}
          /\ unfounded \cap (program.protected_open \cup live \cup h) = {}
          /\ ExternallySupported(program, unfounded, live \cup h, excluded) = {}
      BY <2>6 DEF Inv, Core, RoundInv, Commit, Collision, Supported
    <3>2. ~ (h \subseteq live /\ unfounded \subseteq excluded)
      BY <2>6, <3>1 DEF Commit, RoundIsStable
    <3>3. Iteration!Inferable(h, unfounded)
      BY <3>1, <3>2, SameOperators DEF Iteration!Inferable, Iteration!Unfounded
    <3>4. h \in SUBSET program.atoms /\ unfounded \in SUBSET program.atoms
      BY <2>6, HeadsAreAtoms
      DEF Inv, Core, TypeOK, AcceptedInv, Evaluating, Commit
    <3>5. Iteration!Infer(h, unfounded)
      BY <2>6, <3>1, <3>3 DEF Commit, Iteration!Infer, AbstractStatus
    <3> QED
      BY <3>4, <3>5 DEF Iteration!Next
  <2>7. CASE Finish
    <3>1. EnabledHeads(program, live, excluded) \subseteq live
      BY <2>7 DEF Inv, Core, RoundInv, Finish, RoundIsStable
    <3>2. ASSUME NEW u \in SUBSET (program.atoms \ (program.protected_open \cup live)),
                 ExternallySupported(program, u, live, excluded) = {}
          PROVE  u \subseteq excluded
      BY <2>7, <3>2 DEF Inv, Core, GreatestInv, Finish, RoundIsStable
    <3> QED
      BY <2>7, <3>1, <3>2, SameOperators
      DEF Finish, Iteration!Next, Iteration!Stop, Iteration!Unfounded,
          AbstractStatus
  <2>8. CASE UNCHANGED vars
    BY <2>8 DEF vars, Iteration!vars, AbstractStatus
  <2> QED
    BY <2>1, <2>2, <2>3, <2>4, <2>5, <2>6, <2>7, <2>8 DEF Next, Returned
<1> QED
  BY <1>1, <1>2, Invariance, PTL
  DEF Spec, ImplementsIteration, Iteration!Spec
=============================================================================
