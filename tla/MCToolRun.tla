----------------------------- MODULE MCToolRun -----------------------------
(* One run of every tool: three lines in any order over both pipes, which  *)
(* hold one line each.                                                     *)
EXTENDS ToolRun
=============================================================================
