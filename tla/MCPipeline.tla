----------------------------- MODULE MCPipeline ------------------------------
(* Instances of Pipeline for TLC. *)
EXTENDS Pipeline

CONSTANTS s1, s2
=============================================================================
