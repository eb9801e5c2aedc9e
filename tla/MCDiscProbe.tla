---------------------------- MODULE MCDiscProbe ----------------------------
(* The classifier as main.go builds it: no Saturn and no Dreamcast probe.  *)
EXTENDS DiscProbe
=============================================================================
