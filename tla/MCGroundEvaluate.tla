-------------------------- MODULE MCGroundEvaluate --------------------------
(* GroundEvaluate on the bounded programs of MCGroundPrograms. *)
EXTENDS GroundEvaluate, MCGroundPrograms
=============================================================================
