-------------------------- MODULE GenerationAttempt --------------------------
(***************************************************************************)
(* What a generation attempt promises: one question is asked at most once, *)
(* and either the attempt fails, or what it captures is that question with *)
(* the answer given to it.                                                 *)
(***************************************************************************)
EXTENDS Naturals, Sequences

CONSTANTS Question, Answer

VARIABLES
  asked,     \* the question asked, if any: a sequence of at most one
  answered,  \* the answer given, if any
  outcome

vars == <<asked, answered, outcome>>

Pending == <<"pending">>
Failed == <<"failed">>
CapturedAs(q, a) == <<"captured", q, a>>

Init == asked = <<>> /\ answered = <<>> /\ outcome = Pending

Ask ==
  /\ outcome = Pending /\ asked = <<>>
  /\ \E q \in Question : asked' = <<q>>
  /\ UNCHANGED <<answered, outcome>>

\* An answer may come when the asker has already given up.
Reply ==
  /\ asked # <<>> /\ answered = <<>>
  /\ \E a \in Answer : answered' = <<a>>
  /\ UNCHANGED <<asked, outcome>>

Capture ==
  /\ outcome = Pending /\ asked # <<>> /\ answered # <<>>
  /\ outcome' = CapturedAs(asked[1], answered[1])
  /\ UNCHANGED <<asked, answered>>

\* A failed question may have been asked or not.
Fail ==
  /\ outcome = Pending
  /\ outcome' = Failed
  /\ UNCHANGED <<asked, answered>>

Next == Ask \/ Reply \/ Capture \/ Fail

Spec == Init /\ [][Next]_vars

=============================================================================
