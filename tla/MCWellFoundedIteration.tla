----------------------- MODULE MCWellFoundedIteration -----------------------
(* WellFoundedIteration on the bounded programs of MCGroundPrograms. *)
EXTENDS WellFoundedIteration, MCGroundPrograms
=============================================================================
