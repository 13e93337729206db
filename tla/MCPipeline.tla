----------------------------- MODULE MCPipeline -----------------------------
(* Pipeline has no sets to instantiate: its bounds are in the .cfg files.   *)
EXTENDS Pipeline
=============================================================================
