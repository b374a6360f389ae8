----------------------------- MODULE MCPipeline -----------------------------
(* Bounds for Pipeline; the constants are given in the configurations.     *)
EXTENDS Pipeline
=============================================================================
