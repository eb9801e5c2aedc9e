----------------------------- MODULE MCJobEngine -----------------------------
(***************************************************************************)
(* Small instances of JobEngine for TLC: what the jobs are, the disc they  *)
(* work on and the drive it is in.                                         *)
(***************************************************************************)
EXTENDS JobEngine, TLC

OneJob == <<"split">>
MonoAndSplit == <<"mono", "split">>
SplitAndScan == <<"split", "scan">>
TwoSplits == <<"split", "split">>

SameDisc == [r \in Rips |-> 1]
OwnDisc == [r \in Rips |-> r]
OneDrive == [x \in Discs |-> "d1"]
OwnDrive == <<"d1", "d2">>

(* Requests differ in nothing but their name, and so do the pool's workers. *)
Interchangeable == Permutations(Users) \cup Permutations(Workers)
=============================================================================
