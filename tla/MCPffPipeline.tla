---------------------------- MODULE MCPffPipeline ----------------------------
(* PffPipeline on packages that differ in what they mean. *)
EXTENDS PffPipeline, MCPffPackages
=============================================================================
