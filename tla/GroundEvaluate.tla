--------------------------- MODULE GroundEvaluate ---------------------------
(***************************************************************************)
(* evaluate and greatest_unfounded of ground/evaluate.py, one action per   *)
(* step of their loops, preceded by the construction of the program.       *)
(*                                                                         *)
(* A call goes through                                                     *)
(*   "construct"  GroundProgram.__post_init__ has not run yet              *)
(*   "round"      at the top of evaluate's loop                            *)
(*   "shrink"     inside greatest_unfounded's loop                         *)
(*   "done"       the Evaluation is returned                               *)
(*   "raised"     a GroundProgramError left the call                       *)
(***************************************************************************)
EXTENDS WellFoundedModel

CONSTANT Programs   \* the candidate inputs

ASSUME ProgramsAssumption == Programs \subseteq ProgramInput

VARIABLES
  program,     \* the argument of evaluate, fixed for the call
  pc,          \* where the call is
  live,        \* evaluate's live
  excluded,    \* evaluate's excluded
  next_live,   \* evaluate's next_live, once a round has derived it
  unfounded,   \* greatest_unfounded's unfounded
  suspended,   \* the third part of the Evaluation
  error        \* the error raised, or NoError

vars ==
  <<program, pc, live, excluded, next_live, unfounded, suspended, error>>

NoError == [code |-> "NONE", atoms |-> {}, rules |-> {}]

ErrorOf(code, atoms, rules) == [code |-> code, atoms |-> atoms, rules |-> rules]

-----------------------------------------------------------------------------
Init ==
  /\ program \in Programs
  /\ pc = "construct"
  /\ live = {}
  /\ excluded = {}
  /\ next_live = {}
  /\ unfounded = {}
  /\ suspended = {}
  /\ error = NoError

(* GroundProgram.__post_init__ raises the first fault it finds.            *)
Reject ==
  /\ pc = "construct"
  /\ \/ /\ DuplicateRuleIds(program) # {}
        /\ error' = ErrorOf("DUPLICATE_RULE_ID", {}, DuplicateRuleIds(program))
     \/ /\ DuplicateRuleIds(program) = {}
        /\ UnknownAtoms(program) # {}
        /\ error' = ErrorOf("UNKNOWN_ATOM_REFERENCE", UnknownAtoms(program), {})
     \/ /\ DuplicateRuleIds(program) = {}
        /\ UnknownAtoms(program) = {}
        /\ BaseCollision(program) # {}
        /\ error' = ErrorOf("BASE_STATUS_COLLISION", BaseCollision(program), {})
     \/ /\ DuplicateRuleIds(program) = {}
        /\ UnknownAtoms(program) = {}
        /\ BaseCollision(program) = {}
        /\ OpenCollision(program) # {}
        /\ error' = ErrorOf("PROTECTED_OPEN_COLLISION", OpenCollision(program), {})
  /\ pc' = "raised"
  /\ UNCHANGED <<program, live, excluded, next_live, unfounded, suspended>>

StartFromLiveOnly ==
  /\ pc = "construct"
  /\ WellFormed(program)
  /\ pc' = "round"
  /\ live' = program.base_live
  /\ excluded' = {}
  /\ UNCHANGED <<program, next_live, unfounded, suspended, error>>

(* The program is accepted and evaluate seeds its two sets from the base.  *)
Start ==
  /\ pc = "construct"
  /\ WellFormed(program)
  /\ pc' = "round"
  /\ live' = program.base_live
  /\ excluded' = program.base_excluded
  /\ UNCHANGED <<program, next_live, unfounded, suspended, error>>

Collision == EnabledHeads(program, live, excluded) \cap excluded

DeriveCandidatesIncludeOpen ==
  /\ pc = "round"
  /\ Collision = {}
  /\ next_live' = live \cup EnabledHeads(program, live, excluded)
  /\ unfounded' = program.atoms \ next_live'
  /\ pc' = "shrink"
  /\ UNCHANGED <<program, live, excluded, suspended, error>>

(* A round derives the heads of the enabled rules and hands the enlarged   *)
(* live set, with the excluded set as it was, to greatest_unfounded.       *)
Derive ==
  /\ pc = "round"
  /\ Collision = {}
  /\ next_live' = live \cup EnabledHeads(program, live, excluded)
  /\ unfounded' = (program.atoms \ program.protected_open) \ next_live'
  /\ pc' = "shrink"
  /\ UNCHANGED <<program, live, excluded, suspended, error>>

RaiseCollision ==
  /\ pc = "round"
  /\ Collision # {}
  /\ error' = ErrorOf("DERIVED_STATUS_COLLISION", Collision,
                      {r.id : r \in {x \in EnabledRules(program, live, excluded) :
                                       x.head \in Collision}})
  /\ pc' = "raised"
  /\ UNCHANGED <<program, live, excluded, next_live, unfounded, suspended>>

SupportedByDefinitelyEnabled ==
  unfounded \cap EnabledHeads(program, next_live, excluded)

Supported == ExternallySupported(program, unfounded, next_live, excluded)

(* One pass of greatest_unfounded that still finds supported members.      *)
Shrink ==
  /\ pc = "shrink"
  /\ Supported # {}
  /\ unfounded' = unfounded \ Supported
  /\ UNCHANGED <<program, pc, live, excluded, next_live, suspended, error>>

LiveIsStable == next_live = live

UnfoundedRepeats == next_live = live /\ unfounded = excluded

RoundIsStable == next_live = live /\ excluded \cup unfounded = excluded

CommitForgetsEarlierExclusions ==
  /\ pc = "shrink"
  /\ Supported = {}
  /\ ~ RoundIsStable
  /\ live' = next_live
  /\ excluded' = unfounded
  /\ pc' = "round"
  /\ UNCHANGED <<program, next_live, unfounded, suspended, error>>

(* A pass that finds none ends the round; both sets advance together.      *)
Commit ==
  /\ pc = "shrink"
  /\ Supported = {}
  /\ ~ RoundIsStable
  /\ live' = next_live
  /\ excluded' = excluded \cup unfounded
  /\ pc' = "round"
  /\ UNCHANGED <<program, next_live, unfounded, suspended, error>>

(* A round that changes nothing is the last; the rest is suspended.        *)
Finish ==
  /\ pc = "shrink"
  /\ Supported = {}
  /\ RoundIsStable
  /\ suspended' = (program.atoms \ live) \ excluded
  /\ pc' = "done"
  /\ UNCHANGED <<program, live, excluded, next_live, unfounded, error>>

Terminated == pc \in {"done", "raised"}

(* The call has returned: only the caller goes on.                         *)
Returned == Terminated /\ UNCHANGED vars

Next ==
  \/ Reject
  \/ Start
  \/ Derive
  \/ RaiseCollision
  \/ Shrink
  \/ Commit
  \/ Finish
  \/ Returned

Spec == Init /\ [][Next]_vars

(* evaluate is a plain call in one thread: while it can step, it steps.    *)
FairSpec == Spec /\ WF_vars(Next)

-----------------------------------------------------------------------------
(* Types; from the constructor's checks on, only atoms of the program.      *)
TypeOK ==
  /\ program \in ProgramInput
  /\ pc \in {"construct", "round", "shrink", "done", "raised"}
  /\ live \cup excluded \cup next_live \cup unfounded \cup suspended
       \subseteq program.atoms
  /\ error.code \in {"NONE", "DUPLICATE_RULE_ID", "UNKNOWN_ATOM_REFERENCE",
                     "BASE_STATUS_COLLISION", "PROTECTED_OPEN_COLLISION",
                     "DERIVED_STATUS_COLLISION"}
  /\ error.atoms \subseteq Atom
  /\ error.rules \subseteq RuleId

(* The check for a derived status collision at the top of a round can only *)
(* ever catch the base contradicting the rules: an atom that the evaluator *)
(* itself excluded is never derived in a later round, although exclusions  *)
(* are computed from next_live and the excluded set of the round before.   *)
CollisionOnlyFromBase ==
  error.code = "DERIVED_STATUS_COLLISION" =>
    error.atoms # {} /\ error.atoms \subseteq program.base_excluded

(* Every exclusion the evaluator adds stays justified for the rest of the  *)
(* call: each rule for the atom has an excluded premise or a live negative *)
(* target; a protected-open atom is never excluded; no atom is in two      *)
(* parts (what Evaluation.__post_init__ would refuse).                     *)
ExclusionsStayJustified ==
  pc \in {"round", "shrink", "done"} =>
    /\ \A a \in excluded \ program.base_excluded :
         \A r \in program.rules : r.head = a => Blocked(r, live, excluded)
    /\ program.protected_open \cap excluded = {}
    /\ live \cap excluded = {}

(* When the shrinking loop stops, what it returns is the greatest          *)
(* unfounded set: the union of all sets of non-live, unprotected atoms     *)
(* that no rule supports from outside.                                     *)
GreatestUnfoundedFound ==
  (pc = "shrink" /\ Supported = {}) =>
    unfounded =
      UNION {u \in SUBSET ((program.atoms \ program.protected_open) \ next_live) :
               ExternallySupported(program, u, next_live, excluded) = {}}

(* The evaluation returned is the well-founded partition of the program,   *)
(* defined by alternating least models and not by rounds.                  *)
EvaluationIsWellFounded ==
  pc = "done" =>
    /\ live = WellFoundedLive(program)
    /\ excluded = WellFoundedExcluded(program)
    /\ suspended = program.atoms \ (live \cup excluded)

(* evaluate raises exactly when the meaning of the program contradicts its *)
(* base exclusions, whichever round notices it, and names only atoms that  *)
(* are contradicted.                                                       *)
RaisesExactlyWhenContradicted ==
  /\ pc = "done" => Contradicted(program) = {}
  /\ error.code = "DERIVED_STATUS_COLLISION" =>
       error.atoms \subseteq Contradicted(program)

(* Uncertainty is preserved, never collapsed: however open atoms are later *)
(* resolved, no atom already live or excluded changes its status, unless   *)
(* the resolution contradicts the rules.                                   *)
ResolvingOpenNeverFlips ==
  pc = "done" =>
    \A q \in Resolutions(program) :
      (WellFormed(q) /\ Contradicted(q) = {}) =>
        /\ live \subseteq WellFoundedLive(q)
        /\ excluded \subseteq WellFoundedExcluded(q)

(* A later round never withdraws a status an earlier one gave, and a round *)
(* that does not end the call settles at least one more atom.              *)
RoundsOnlyAdvance ==
  [][/\ live \subseteq live'
     /\ excluded \subseteq excluded'
     /\ (pc = "shrink" /\ pc' = "round") =>
          live \cup excluded # (live \cup excluded)']_vars

(* evaluate returns or raises for every program.                           *)
Terminates == <>Terminated

AbstractStatus ==
  [construct |-> "new", round |-> "running", shrink |-> "running",
   done |-> "done", raised |-> "raised"][pc]

Iteration == INSTANCE WellFoundedIteration WITH status <- AbstractStatus

(* The evaluator is one schedule of the open-ended iteration: each round   *)
(* is an inference the iteration allows, and it stops only when nothing    *)
(* more can be inferred.                                                   *)
ImplementsIteration == Iteration!Spec
=============================================================================
