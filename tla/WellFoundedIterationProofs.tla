--------------------- MODULE WellFoundedIterationProofs ---------------------
(***************************************************************************)
(* The open-ended iteration reaches the same partition by every schedule,  *)
(* for every program.                                                      *)
(***************************************************************************)
EXTENDS WellFoundedIteration, WellFoundedModelProofs, TLAPS

Inv ==
  /\ status \in {"running", "done"} =>
       WellFormed(program) /\ Grounded(program, live, excluded)
  /\ ScheduleIndependent

LEMMA NextInv == Inv /\ [Next]_vars => Inv'
<1> SUFFICES ASSUME Inv, [Next]_vars
             PROVE  Inv'
  OBVIOUS
<1> USE DEF Inv
<1>1. CASE Start
  BY <1>1, BaseGrounded DEF Start, ScheduleIndependent
<1>2. CASE Refuse
  BY <1>2 DEF Refuse, ScheduleIndependent
<1>3. ASSUME NEW h \in SUBSET program.atoms, NEW u \in SUBSET program.atoms,
             Infer(h, u)
      PROVE  Inv'
  <2>1. Grounded(program, live \cup h, excluded \cup u)
    BY <1>3, InferenceGrounded DEF Infer, Inferable, Unfounded
  <2> QED
    BY <1>3, <2>1 DEF Infer, ScheduleIndependent
<1>4. CASE Contradict
  BY <1>4 DEF Contradict, ScheduleIndependent
<1>5. CASE Stop
  <2>1. /\ live = WellFoundedLive(program)
        /\ excluded = WellFoundedExcluded(program)
    BY <1>5, StuckIsComplete DEF Stop, Unfounded
  <2> QED
    BY <1>5, <2>1 DEF Stop, ScheduleIndependent
<1>6. CASE UNCHANGED vars
  BY <1>6 DEF vars, ScheduleIndependent
<1> QED
  BY <1>1, <1>2, <1>3, <1>4, <1>5, <1>6 DEF Next, Returned

LEMMA Invariance == Spec => []Inv
<1>1. Init => Inv
  BY DEF Init, Inv, ScheduleIndependent
<1> QED
  BY <1>1, NextInv, PTL DEF Spec

(* ScheduleIndependent: whichever inferences are drawn in whichever order, *)
(* a run that stops stops at the well-founded partition.                   *)
THEOREM EverySchedule == Spec => []ScheduleIndependent
<1>1. Inv => ScheduleIndependent
  BY DEF Inv
<1> QED
  BY <1>1, Invariance, PTL

(* PartialResultSound: stopped early, every schedule has drawn only        *)
(* conclusions of the well-founded partition.                              *)
THEOREM EveryPrefixSound == Spec => []PartialResultSound
<1>1. Inv => PartialResultSound
  BY GroundedSound DEF Inv, PartialResultSound, Grounded
<1> QED
  BY <1>1, Invariance, PTL
=============================================================================
