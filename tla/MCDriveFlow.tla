----------------------------- MODULE MCDriveFlow -----------------------------
(* Small instances of DriveFlow for TLC. *)
EXTENDS DriveFlow, TLC

(* An Xbox 360 disc has a hash of its file listing and a title id, either of *)
(* which may fail to be read; a PlayStation disc has only its boot code.     *)
Xbox360 == {[toc |-> "listing", id |-> "title"]}
PSX     == {[toc |-> None, id |-> "code"]}

Interchangeable == Permutations(Flows)
=============================================================================
