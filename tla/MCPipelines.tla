---------------------------- MODULE MCPipelines ----------------------------
(* The pipeline handlers with two titles, and one retry of the compute     *)
(* half: every handler on every path it has.                               *)
EXTENDS Pipelines
=============================================================================
