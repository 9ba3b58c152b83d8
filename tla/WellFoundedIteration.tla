------------------------ MODULE WellFoundedIteration ------------------------
(***************************************************************************)
(* What evaluation of a ground program promises, with the schedule left    *)
(* open: any heads of enabled rules may become live and any unfounded set  *)
(* may become excluded, in any order and any batch, until nothing more can *)
(* be inferred or an excluded atom is derived.                             *)
(***************************************************************************)
EXTENDS WellFoundedModel

CONSTANT Programs   \* the candidate inputs

VARIABLES
  program,   \* the input
  live,      \* atoms known to be live
  excluded,  \* atoms known to be excluded
  status     \* "new", "running", "done" or "raised"

vars == <<program, live, excluded, status>>

\* Nothing outside the set can still support a member of it.
Unfounded(p, u, l, e) == ExternallySupported(p, u, l, e) = {}

Init ==
  /\ program \in Programs
  /\ live = {}
  /\ excluded = {}
  /\ status = "new"

Start ==
  /\ status = "new"
  /\ WellFormed(program)
  /\ live' = program.base_live
  /\ excluded' = program.base_excluded
  /\ status' = "running"
  /\ UNCHANGED program

Refuse ==
  /\ status = "new"
  /\ ~ WellFormed(program)
  /\ status' = "raised"
  /\ UNCHANGED <<program, live, excluded>>

Inferable(h, u) ==
  /\ h \subseteq EnabledHeads(program, live, excluded)
  /\ h \cap excluded = {}
  /\ u \cap (program.protected_open \cup live \cup h) = {}
  /\ Unfounded(program, u, live \cup h, excluded)
  /\ ~ (h \subseteq live /\ u \subseteq excluded)

Infer(h, u) ==
  /\ status = "running"
  /\ Inferable(h, u)
  /\ live' = live \cup h
  /\ excluded' = excluded \cup u
  /\ UNCHANGED <<program, status>>

\* Only a head that the base itself excludes can make evaluation fail.
Contradict ==
  /\ status = "running"
  /\ EnabledHeads(program, live, excluded) \cap program.base_excluded # {}
  /\ status' = "raised"
  /\ UNCHANGED <<program, live, excluded>>

Stop ==
  /\ status = "running"
  /\ EnabledHeads(program, live, excluded) \subseteq live
  /\ \A u \in SUBSET (program.atoms \ (program.protected_open \cup live)) :
        Unfounded(program, u, live, excluded) => u \subseteq excluded
  /\ status' = "done"
  /\ UNCHANGED <<program, live, excluded>>

Returned == status \in {"done", "raised"} /\ UNCHANGED vars

Next ==
  \/ Start
  \/ Refuse
  \/ \E h, u \in SUBSET program.atoms : Infer(h, u)
  \/ Contradict
  \/ Stop
  \/ Returned

Spec == Init /\ [][Next]_vars

-----------------------------------------------------------------------------
(* Whatever the schedule, evaluation ends with the same partition, the     *)
(* well-founded one, so the rounds of evaluate (ground/evaluate.py) are a   *)
(* matter of cost and never of meaning.                                     *)
ScheduleIndependent ==
  status = "done" =>
    /\ live = WellFoundedLive(program)
    /\ excluded = WellFoundedExcluded(program)

(* Whatever the schedule, no atom is ever both live and excluded, and what *)
(* has been inferred so far belongs to the well-founded partition.         *)
PartialResultSound ==
  status \in {"running", "done"} =>
    /\ live \cap excluded = {}
    /\ live \subseteq WellFoundedLive(program)
    /\ excluded \subseteq WellFoundedExcluded(program)
=============================================================================
