----------------------------- MODULE MCPipeline -----------------------------
(* Three runs with one or two partitions.                                  *)
EXTENDS Pipeline

MCPs == 1 .. 2
=============================================================================
