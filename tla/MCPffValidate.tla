---------------------------- MODULE MCPffValidate ----------------------------
(* PffValidate on packages with up to MaxDeviations faults. *)
EXTENDS PffValidate, MCPffPackages
=============================================================================
