---------------------------- MODULE MCStepEvents ---------------------------
(* A job of two steps with two reports in all, and a browser that connects   *)
(* twice through a channel of two events.                                  *)
EXTENDS StepEvents
MCJobSteps == <<"rip", "move">>
=============================================================================
