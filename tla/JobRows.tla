------------------------------- MODULE JobRows -------------------------------
(***************************************************************************)
(* The rows of the jobs table and the statements the daemon runs on them.  *)
(*                                                                         *)
(* A rip (or scan) row and the transcode row it gives birth to are two     *)
(* functions over the same ids: rip[r] is the state of job r, enc[r] the   *)
(* state of its transcode child.  A rip row has at most one child for its  *)
(* whole life (orchestrator.go:592), because a rip row is never retried.   *)
(* "none" is a row not created yet and "deleted" one that is gone for good *)
(* (ids are UUIDs and never reused).                                       *)
(*                                                                         *)
(* The states `identifying' and `paused' are declared by the code but no   *)
(* statement ever writes them, so they are left out.                       *)
(***************************************************************************)
EXTENDS Integers

Active    == {"queued", "running"}
Terminal  == {"done", "failed", "cancelled", "interrupted"}
Retryable == {"failed", "interrupted"}
Stored    == Active \cup Terminal
RowState  == Stored \cup {"none", "deleted"}

(***************************************************************************)
(* UpdateJobState: an UPDATE by id with no condition on the old state.  A  *)
(* row that does not exist matches nothing.                                *)
(***************************************************************************)
UpdateJobState(rows, r, s) ==
  [rows EXCEPT ![r] = IF @ \in Stored THEN s ELSE @]

(* A late Stop that overwrites what the worker has just written.  [mutant] *)
CancelJobUnguarded(rows, r) == UpdateJobState(rows, r, "cancelled")

(***************************************************************************)
(* CancelJobIfActive: the Stop of last resort, for a job no worker has     *)
(* registered.  It leaves every terminal row, and a missing one, alone.    *)
(***************************************************************************)
CancelJobIfActive(rows, r) ==
  [rows EXCEPT ![r] = IF @ \in Active THEN "cancelled" ELSE @]

(* Recovery that forgets the rows that were still queued.         [mutant] *)
InterruptRunningOnly(rows) ==
  [r \in DOMAIN rows |-> IF rows[r] = "running" THEN "interrupted" ELSE rows[r]]

(***************************************************************************)
(* MarkInterruptedJobs: at start-up nothing can be running.                *)
(***************************************************************************)
MarkInterruptedJobs(rows) ==
  [r \in DOMAIN rows |->
     IF rows[r] \in Active THEN "interrupted" ELSE rows[r]]

(***************************************************************************)
(* DELETE FROM jobs for the ids in S.                                      *)
(***************************************************************************)
DeleteJobs(rows, S) ==
  [r \in DOMAIN rows |->
     IF r \in S /\ rows[r] \in Stored THEN "deleted" ELSE rows[r]]


(* Only active jobs hold a directory.                             [mutant] *)
ActiveOnlyReferences(rip, enc, rips) ==
  {r \in DOMAIN enc : (r \in rips /\ rip[r] \in Active) \/ enc[r] \in Active}

(***************************************************************************)
(* ActiveSpoolReferences: the spool directories the store vouches for.  A  *)
(* rip holds its own directory while it is active; a transcode holds the   *)
(* directory of its parent while it is active or may be retried.           *)
(***************************************************************************)
ActiveSpoolReferences(rip, enc, rips) ==
  {r \in DOMAIN enc : \/ r \in rips /\ rip[r] \in Active
                      \/ enc[r] \in Active \cup Retryable}

(***************************************************************************)
(* DeriveLifecycleState for a disc whose newest rip row is in state rip    *)
(* and that rip's transcode child in state enc.  A disc without a rip row  *)
(* ("none" or "deleted") still awaits a decision.                          *)
(***************************************************************************)
DeriveLifecycleState(hasTranscodeHalf, rip, enc) ==
  CASE rip \notin Stored                              -> "awaiting_decision"
    [] rip \in Active                                 -> "ripping"
    [] rip \in Terminal \ {"done"}                    -> rip
    [] rip = "done" /\ ~hasTranscodeHalf              -> "done"
    [] rip = "done" /\ hasTranscodeHalf /\ enc \notin Stored -> "awaiting_encode"
    [] rip = "done" /\ hasTranscodeHalf /\ enc \in Active    -> "encoding"
    [] OTHER                                          -> enc

Lifecycles == {"awaiting_decision", "ripping", "awaiting_encode", "encoding"} \cup Terminal

(***************************************************************************)
(* ClearableDiscOnDrive's list: the lifecycles an eject may wipe.          *)
(***************************************************************************)
Clearable == {"awaiting_decision", "failed", "cancelled", "interrupted"}
=============================================================================
