-------------------------- MODULE MCGroundPrograms --------------------------
(***************************************************************************)
(* Every program of a bounded size over a few atoms, and the malformed     *)
(* programs that show each fault of the constructor, as inputs for TLC.    *)
(***************************************************************************)
EXTENDS GroundProgram, FiniteSets, Naturals

CONSTANTS
  MaxRules,   \* rules in a program
  MaxBody,    \* literals in a rule's body
  MaxBase     \* atoms with a base status

Bodies ==
  {b \in (SUBSET Atom) \X (SUBSET Atom) :
     Cardinality(b[1]) + Cardinality(b[2]) <= MaxBody}

MCRuleId == Atom \X Bodies

MCRules ==
  {[id |-> i, head |-> i[1], positive |-> i[2][1], negative |-> i[2][2]] :
     i \in MCRuleId}

\* At most MaxRules rules: the images of the choices of that many.
RuleSets ==
  {{}} \cup {{f[i] : i \in 1 .. MaxRules} : f \in [1 .. MaxRules -> MCRules]}

Bases ==
  {b \in [Atom -> {"live", "excluded", "open", "derived"}] :
     Cardinality({a \in Atom : b[a] # "derived"}) <= MaxBase}

WithBase(atoms, rules, b) ==
  [atoms |-> atoms,
   rules |-> rules,
   base_live |-> {a \in Atom : b[a] = "live"},
   base_excluded |-> {a \in Atom : b[a] = "excluded"},
   protected_open |-> {a \in Atom : b[a] = "open"}]

WellFormedPrograms ==
  {WithBase(Atom, rules, b) : rules \in RuleSets, b \in Bases}

\* Rule sets in which two different rules carry the same id.
ClashingRules(a) ==
  LET i == <<a, <<{}, {}>>>>
  IN  {[id |-> i, head |-> a, positive |-> {}, negative |-> {a}],
       [id |-> i, head |-> a, positive |-> {a}, negative |-> {}]}

\* One program for every combination of the four faults, and of none.
FaultyPrograms ==
  LET some == CHOOSE a \in Atom : TRUE
  IN  [atoms : {Atom, Atom \ {some}},
       rules : {{}, ClashingRules(some)},
       base_live : {{}, {some}},
       base_excluded : {{}, {some}},
       protected_open : {{}, {some}}]

MCPrograms == WellFormedPrograms \cup FaultyPrograms
=============================================================================
