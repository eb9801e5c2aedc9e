------------------------------ MODULE JobLedger ------------------------------
(***************************************************************************)
(* What the job engine promises its users, without workers, queues or      *)
(* requests: the two rows of a job, the directory the rip leaves for the   *)
(* transcode, and the only ways in which the three may change.             *)
(*                                                                         *)
(* Every change but Forget and Reboot is about one job.  The promise is in *)
(* the guards: a job that has ended stays ended (but for a transcode that  *)
(* failed or was interrupted, and is retried), a transcode is only ever    *)
(* queued or running with its input in place, and a directory goes away    *)
(* only before its transcode exists or after it is done or deleted.        *)
(***************************************************************************)
EXTENDS JobRows

CONSTANTS Rips, SplitRips

VARIABLES rip, enc, spool
ledger == <<rip, enc, spool>>

(* A Stop may overtake the worker and leave a row `cancelled' that goes on. *)
Open == {"queued", "running", "cancelled"}

LInit ==
  /\ rip = [r \in Rips |-> "none"]
  /\ enc = [r \in Rips |-> "none"]
  /\ spool = {}

Accept(r) ==
  /\ rip[r] = "none" /\ enc[r] = "none"
  /\ rip' = [rip EXCEPT ![r] = "queued"]
  /\ UNCHANGED <<enc, spool>>

BeginRip(r) ==
  /\ rip[r] \in Open /\ enc[r] = "none"
  /\ rip' = [rip EXCEPT ![r] = "running"]
  /\ spool' = spool \cup ({r} \cap SplitRips)
  /\ UNCHANGED enc

(* The rip failed and takes its directory along; no transcode was born. *)
Abandon(r) ==
  /\ enc[r] = "none"
  /\ spool' = spool \ {r}
  /\ UNCHANGED <<rip, enc>>

Spawn(r) ==
  /\ enc[r] = "none" /\ r \in spool
  /\ enc' = [enc EXCEPT ![r] = "queued"]
  /\ UNCHANGED <<rip, spool>>

EndRip(r, out) ==
  /\ rip[r] \in Open
  /\ rip' = [rip EXCEPT ![r] = out]
  /\ UNCHANGED <<enc, spool>>

BeginEnc(r) ==
  /\ enc[r] \in Open /\ r \in spool
  /\ enc' = [enc EXCEPT ![r] = "running"]
  /\ UNCHANGED <<rip, spool>>

EndEnc(r, out) ==
  /\ enc[r] \in Open /\ r \in spool
  /\ enc' = [enc EXCEPT ![r] = out]
  /\ UNCHANGED <<rip, spool>>

Retry(r) ==
  /\ enc[r] \in Retryable /\ r \in spool
  /\ enc' = [enc EXCEPT ![r] = "queued"]
  /\ UNCHANGED <<rip, spool>>

Release(r) ==
  /\ enc[r] \in {"done", "deleted"}
  /\ spool' = spool \ {r}
  /\ UNCHANGED <<rip, enc>>

Forget(rips, encs) ==
  /\ rips \subseteq encs
  /\ rip' = DeleteJobs(rip, rips)
  /\ enc' = DeleteJobs(enc, encs)
  /\ UNCHANGED spool

Reboot ==
  /\ rip' = MarkInterruptedJobs(rip)
  /\ enc' = MarkInterruptedJobs(enc)
  /\ spool' \subseteq spool
  /\ \A r \in spool : enc'[r] \in Retryable => r \in spool'

LNext ==
  \/ \E r \in Rips :
       \/ Accept(r) \/ BeginRip(r) \/ Abandon(r) \/ Spawn(r)
       \/ BeginEnc(r) \/ Retry(r) \/ Release(r)
       \/ \E out \in {"done", "failed", "cancelled"} : EndRip(r, out) \/ EndEnc(r, out)
  \/ \E rips, encs \in SUBSET Rips : Forget(rips, encs)
  \/ Reboot

LedgerSpec == LInit /\ [][LNext]_ledger
=============================================================================
