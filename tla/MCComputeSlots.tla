---------------------------- MODULE MCComputeSlots ----------------------------
(* Three workers for three jobs, under each initial limit, and a request   *)
(* that changes the setting, perhaps to a value out of range.              *)
EXTENDS ComputeSlots
=============================================================================
