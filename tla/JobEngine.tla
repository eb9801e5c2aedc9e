------------------------------ MODULE JobEngine ------------------------------
(***************************************************************************)
(* The job engine of the DiscEcho daemon: the jobs table, the Orchestrator *)
(* with one worker goroutine per drive, the Compute pool that encodes what *)
(* was ripped, the spool directories that carry a rip from the one to the  *)
(* other, the API handlers that start, stop, retry and delete jobs, and    *)
(* the daemon's shutdown, crash and restart.                               *)
(*                                                                         *)
(* A step of this module is one access to something goroutines share: a    *)
(* statement on the store, a critical section of Orchestrator.mu or        *)
(* Compute.mu, a channel operation, a change in the spool directory.  What *)
(* a goroutine does between two of them is local and part of the step.     *)
(*                                                                         *)
(* Workers and handlers have a program counter (dpc, wpc, upc).  A worker  *)
(* whose counter is a member of Outcomes is back from the handler with     *)
(* that result and has not written it yet.                                 *)
(***************************************************************************)
EXTENDS JobRows, Sequences, FiniteSets

CONSTANTS
  Rips,         \* ids of rip and scan jobs; a larger id was created later
  Discs,        \* disc rows; a larger one was inserted later
  Drives,       \* optical drives, each with a queue and a worker
  Workers,      \* goroutines of the Compute pool
  Users,        \* API requests that may be in flight at the same time
  KindOf,       \* KindOf[r]: "split" (rip then encode), "mono" or "scan"
  DiscOf,       \* DiscOf[r]: the disc job r works on
  DriveOf,      \* DriveOf[x]: the drive disc x is bound to
  VideoDiscs,   \* the discs whose type HasTranscodeHalf (DVD, BDMV, UHD)
  EncodeLimit,  \* compute.concurrent_encodes
  SpoolCap,     \* spool.cap_bytes counted in directories; 0: no cap
  QueueCap,     \* buffer of the queues (64 in the code)
  MaxCrashes,   \* bound on crashes and shutdowns
  MaxRetries,   \* bound on retries of one transcode
  NoWorker      \* no entry in Compute.cancels

NoRip == 0
Kinds == {"split", "mono", "scan"}

ASSUME IdsAssumption == /\ Rips \subseteq Nat \ {0}
                        /\ Discs \subseteq Nat
                        /\ NoWorker \notin Workers
ASSUME TopologyAssumption == /\ KindOf \in [Rips -> Kinds]
                             /\ DiscOf \in [Rips -> Discs]
                             /\ DriveOf \in [Discs -> Drives]
                             /\ VideoDiscs \subseteq Discs
ASSUME BoundsAssumption == /\ EncodeLimit \in Nat \ {0}
                           /\ SpoolCap \in Nat
                           /\ QueueCap \in Nat \ {0}
                           /\ MaxCrashes \in Nat
                           /\ MaxRetries \in Nat

VARIABLES
  discRow,   \* the discs table
  rip, enc,  \* the jobs table: rip and scan rows, transcode rows
  spool,     \* directories under <data>/spool, named after their rip job
  ripping,   \* drives whose row says `ripping'
  driveQ,    \* Orchestrator.queues
  dpc, djob, \* the worker of each drive: where it is, the job it holds
  dcancel,   \* workers whose per-job context is cancelled
  ripReg,    \* keys of Orchestrator.cancels
  encQ,      \* Compute.queue
  wpc, wjob, \* the workers of the pool
  wcancel,   \* workers whose per-job context is cancelled
  encReg,    \* Compute.cancels: the worker whose context an entry cancels
  upc, ujob, \* the API requests in flight
  phase,     \* the life of the daemon process
  crashes,   \* how often it has gone down
  retries    \* how often each transcode was retried

rowVars   == <<discRow, rip, enc>>
driveVars == <<driveQ, dpc, djob, dcancel, ripReg>>
poolVars  == <<encQ, wpc, wjob, wcancel, encReg>>
userVars  == <<upc, ujob>>
sysVars   == <<phase, crashes, retries>>
vars == <<rowVars, spool, ripping, driveVars, poolVars, userVars, sysVars>>

Outcomes == {"done", "failed", "cancelled"}

DrivePc == {"idle", "gate", "load", "ready", "rip", "spawn", "enqueue",
            "unregister", "exit"} \cup Outcomes
PoolPc  == {"idle", "acquire", "load", "ready", "encode", "cleanup",
            "unregister", "exit"} \cup Outcomes
UserPc  == {"idle", "create", "enqueueRip", "stopRip", "stopEnc", "reset",
            "enqueueEnc", "deleteRip", "deleteEnc", "cleanSpool", "dropDisc",
            "ejectDrop"}
Phases  == {"up", "closing", "poolClosing", "down"}

(* Where a worker has an entry in its cancels map. *)
Registered == {"load", "ready", "rip", "spawn", "enqueue", "unregister"} \cup Outcomes
(* Where a pool worker holds a concurrency slot. *)
HoldsSlot  == {"load", "ready", "encode", "cleanup", "unregister"} \cup Outcomes

TypeOK ==
  /\ discRow \in [Discs -> {"none", "present", "deleted"}]
  /\ rip \in [Rips -> RowState]
  /\ enc \in [Rips -> RowState]
  /\ spool \subseteq Rips
  /\ ripping \subseteq Drives
  /\ driveQ \in [Drives -> Seq(Rips)]
  /\ dpc \in [Drives -> DrivePc]
  /\ djob \in [Drives -> Rips \cup {NoRip}]
  /\ dcancel \subseteq Drives
  /\ ripReg \subseteq Rips
  /\ encQ \in Seq(Rips)
  /\ wpc \in [Workers -> PoolPc]
  /\ wjob \in [Workers -> Rips \cup {NoRip}]
  /\ wcancel \subseteq Workers
  /\ encReg \in [Rips -> Workers \cup {NoWorker}]
  /\ upc \in [Users -> UserPc]
  /\ ujob \in [Users -> Rips \cup {NoRip}]
  /\ phase \in Phases
  /\ crashes \in Nat
  /\ retries \in [Rips -> Nat]
  /\ \A d \in Drives : dpc[d] \notin {"idle", "exit"} => djob[d] \in Rips
  /\ \A w \in Workers : wpc[w] \notin {"idle", "exit"} => wjob[w] \in Rips
  /\ \A u \in Users : upc[u] # "idle" => ujob[u] \in Rips

Init ==
  /\ discRow = [x \in Discs |-> "none"]
  /\ rip = [r \in Rips |-> "none"]
  /\ enc = [r \in Rips |-> "none"]
  /\ spool = {}
  /\ ripping = {}
  /\ driveQ = [d \in Drives |-> <<>>]
  /\ dpc = [d \in Drives |-> "idle"]
  /\ djob = [d \in Drives |-> NoRip]
  /\ dcancel = {}
  /\ ripReg = {}
  /\ encQ = <<>>
  /\ wpc = [w \in Workers |-> "idle"]
  /\ wjob = [w \in Workers |-> NoRip]
  /\ wcancel = {}
  /\ encReg = [r \in Rips |-> NoWorker]
  /\ upc = [u \in Users |-> "idle"]
  /\ ujob = [u \in Users |-> NoRip]
  /\ phase = "up"
  /\ crashes = 0
  /\ retries = [r \in Rips |-> 0]

-----------------------------------------------------------------------------
(* Reading the store. *)

JobsOf(x) == {r \in Rips : DiscOf[r] = x}
SplitRips == {r \in Rips : KindOf[r] = "split"}
RipKind   == {r \in Rips : KindOf[r] # "scan"}

(* DiscHasActiveJob: any kind of job, the transcode child included. *)
DiscHasActiveJob(x) == \E r \in JobsOf(x) : rip[r] \in Active \/ enc[r] \in Active

(* HasActiveJobOnDrive: transcode rows carry no drive_id. *)
HasActiveJobOnDrive(d) == \E r \in Rips : DriveOf[DiscOf[r]] = d /\ rip[r] \in Active

(* The disc a drive most recently took in, the proxy for `still inserted'. *)
NewestOnDrive(x) ==
  /\ discRow[x] = "present"
  /\ \A y \in Discs : discRow[y] = "present" /\ DriveOf[y] = DriveOf[x] => y <= x

HasStoredJob(rows1, rows2, x) ==
  \E r \in JobsOf(x) : rows1[r] \in Stored \/ rows2[r] \in Stored

(* LifecycleStates: the newest rip row of the disc, and its child. *)
Lifecycle(x) ==
  LET rows == {r \in JobsOf(x) \cap RipKind : rip[r] \in Stored}
  IN  IF rows = {} THEN "awaiting_decision"
      ELSE LET last == CHOOSE r \in rows : \A q \in rows : q <= r
           IN  DeriveLifecycleState(x \in VideoDiscs, rip[last], enc[last])

(* A transcode that outlives its parent: no ON DELETE CASCADE.    [mutant] *)
DeleteRowsAlone(gone, rips, encs) ==
  LET dead == rips \cup {r \in Rips : DiscOf[r] \in gone}
  IN  /\ discRow' = [x \in Discs |-> IF x \in gone THEN "deleted" ELSE discRow[x]]
      /\ rip' = DeleteJobs(rip, dead)
      /\ enc' = DeleteJobs(enc, encs)

(* Writing it: a deleted disc takes its jobs along, a deleted rip its child. *)
DeleteRows(gone, rips, encs) ==
  LET dead == rips \cup {r \in Rips : DiscOf[r] \in gone}
  IN  /\ discRow' = [x \in Discs |-> IF x \in gone THEN "deleted" ELSE discRow[x]]
      /\ rip' = DeleteJobs(rip, dead)
      /\ enc' = DeleteJobs(enc, dead \cup encs)

Idle(u) == upc[u] = "idle"
GoTo(u, pc, r) == /\ upc' = [upc EXCEPT ![u] = pc]
                  /\ ujob' = [ujob EXCEPT ![u] = r]
Return(u) == GoTo(u, "idle", NoRip)
Receive(u) == phase = "up" /\ Idle(u)
-----------------------------------------------------------------------------
(* The API handlers. *)

(* discFlow.persistDisc: the row of a disc nobody has seen.  handle looks   *)
(* for an active job on the drive long before it identifies the disc, so    *)
(* the row may appear while a job that was started since then is active.    *)
InsertDisc(x) ==
  /\ phase = "up"
  /\ discRow[x] = "none"
  /\ \A y \in Discs : DriveOf[y] = DriveOf[x] /\ y < x => discRow[y] # "none"
  /\ discRow' = [discRow EXCEPT ![x] = "present"]
  /\ UNCHANGED <<rip, enc, spool, ripping, driveVars, poolVars, userVars, sysVars>>

(* StartDisc without its mutex.                                   [mutant] *)
StartMuLess == TRUE

(* Handlers.startMu: held by StartDisc from its check to the end of Submit. *)
StartMuFree ==
  \A u \in Users : upc[u] \in {"create", "enqueueRip"} => KindOf[ujob[u]] = "scan"

(* The rips of a disc take their ids in order.  Two requests may hold one   *)
(* each before either row exists; startMu then keeps the rows in order too. *)
NextId(r) ==
  /\ rip[r] = "none"
  /\ \A u \in Users : ujob[u] # r
  /\ \A q \in RipKind : q < r /\ DiscOf[q] = DiscOf[r] =>
       rip[q] # "none" \/ \E u \in Users : ujob[u] = q

(* StartDisc and ScanDisc up to the check that precedes Submit. *)
CheckStart(u, r) ==
  /\ Receive(u)
  /\ NextId(r)
  /\ discRow[DiscOf[r]] = "present"
  /\ ~DiscHasActiveJob(DiscOf[r])
  /\ KindOf[r] # "scan" => StartMuFree
  /\ GoTo(u, "create", r)
  /\ UNCHANGED <<rowVars, spool, ripping, driveVars, poolVars, sysVars>>

(* Submit, SubmitScan: the row; it needs the disc (foreign key). *)
CreateRip(u) ==
  /\ upc[u] = "create"
  /\ LET r == ujob[u] IN
       IF discRow[DiscOf[r]] = "present"
       THEN /\ rip' = [rip EXCEPT ![r] = "queued"]
            /\ GoTo(u, "enqueueRip", r)
       ELSE /\ rip' = rip
            /\ Return(u)
  /\ UNCHANGED <<discRow, enc, spool, ripping, driveVars, poolVars, sysVars>>

(* Orchestrator.enqueue: blocks while the drive's queue is full. *)
EnqueueRip(u) ==
  /\ upc[u] = "enqueueRip"
  /\ LET d == DriveOf[DiscOf[ujob[u]]] IN
       /\ Len(driveQ[d]) < QueueCap
       /\ driveQ' = [driveQ EXCEPT ![d] = Append(@, ujob[u])]
  /\ Return(u)
  /\ UNCHANGED <<rowVars, spool, ripping, dpc, djob, dcancel, ripReg, poolVars, sysVars>>

(* Orchestrator.Cancel on a rip: signal the worker that registered the job, *)
(* or else remember to flip the row.                                        *)
StopRip(u, r) ==
  /\ Receive(u)
  /\ rip[r] # "none"
  /\ IF r \in ripReg
     THEN /\ dcancel' = dcancel \cup {d \in Drives : djob[d] = r /\ dpc[d] \in Registered}
          /\ UNCHANGED userVars
     ELSE /\ dcancel' = dcancel
          /\ GoTo(u, "stopRip", r)
  /\ UNCHANGED <<rowVars, spool, ripping, driveQ, dpc, djob, ripReg, poolVars, sysVars>>

(* The same for a transcode, by way of Compute.Owns and Compute.Cancel. *)
StopEnc(u, r) ==
  /\ Receive(u)
  /\ enc[r] # "none"
  /\ IF encReg[r] # NoWorker
     THEN /\ wcancel' = wcancel \cup {encReg[r]}
          /\ UNCHANGED userVars
     ELSE /\ wcancel' = wcancel
          /\ GoTo(u, "stopEnc", r)
  /\ UNCHANGED <<rowVars, spool, ripping, driveVars, encQ, wpc, wjob, encReg, sysVars>>

StopRipRow(u) ==
  /\ upc[u] = "stopRip"
  /\ rip' = CancelJobIfActive(rip, ujob[u])
  /\ Return(u)
  /\ UNCHANGED <<discRow, enc, spool, ripping, driveVars, poolVars, sysVars>>

StopEncRow(u) ==
  /\ upc[u] = "stopEnc"
  /\ enc' = CancelJobIfActive(enc, ujob[u])
  /\ Return(u)
  /\ UNCHANGED <<discRow, rip, spool, ripping, driveVars, poolVars, sysVars>>

(* A reset that trusts the handler's check of the state.          [mutant] *)
ResetUnchecked(u) ==
  /\ upc[u] = "reset"
  /\ LET r == ujob[u] IN
       /\ enc' = UpdateJobState(enc, r, "queued")
       /\ retries' = [retries EXCEPT ![r] = @ + 1]
       /\ GoTo(u, "enqueueEnc", r)
  /\ UNCHANGED <<discRow, rip, spool, ripping, driveVars, poolVars, phase, crashes>>

(* RetryTranscode: its checks, the reset in one transaction that checks the *)
(* state again, and the way back onto the pool's queue.                     *)
CheckRetry(u, r) ==
  /\ Receive(u)
  /\ enc[r] \in Retryable
  /\ r \in spool
  /\ retries[r] < MaxRetries
  /\ GoTo(u, "reset", r)
  /\ UNCHANGED <<rowVars, spool, ripping, driveVars, poolVars, sysVars>>

ResetTranscodeJob(u) ==
  /\ upc[u] = "reset"
  /\ LET r == ujob[u] IN
       IF enc[r] \in Retryable
       THEN /\ enc' = [enc EXCEPT ![r] = "queued"]
            /\ retries' = [retries EXCEPT ![r] = @ + 1]
            /\ GoTo(u, "enqueueEnc", r)
       ELSE /\ Return(u)
            /\ UNCHANGED <<enc, retries>>
  /\ UNCHANGED <<discRow, rip, spool, ripping, driveVars, poolVars, phase, crashes>>

EnqueueEnc(u) ==
  /\ upc[u] = "enqueueEnc"
  /\ Len(encQ) < QueueCap
  /\ encQ' = Append(encQ, ujob[u])
  /\ Return(u)
  /\ UNCHANGED <<rowVars, spool, ripping, driveVars, wpc, wjob, wcancel, encReg, sysVars>>

(* DeleteJob: the terminal check, then the row. *)
CheckDeleteRip(u, r) ==
  /\ Receive(u)
  /\ rip[r] \in Terminal
  /\ GoTo(u, "deleteRip", r)
  /\ UNCHANGED <<rowVars, spool, ripping, driveVars, poolVars, sysVars>>

CheckDeleteEnc(u, r) ==
  /\ Receive(u)
  /\ enc[r] \in Terminal
  /\ GoTo(u, "deleteEnc", r)
  /\ UNCHANGED <<rowVars, spool, ripping, driveVars, poolVars, sysVars>>

(* The disc of a deleted job goes too when no job is left on it and a newer *)
(* disc has taken its place in the drive.                                   *)
Orphaned(rips, encs) ==
  {x \in Discs : /\ discRow[x] = "present"
                 /\ ~NewestOnDrive(x)
                 /\ ~HasStoredJob(DeleteJobs(rip, rips), DeleteJobs(enc, rips \cup encs), x)}

DeleteRipJob(u) ==
  /\ upc[u] = "deleteRip"
  /\ LET r == ujob[u] IN
       DeleteRows({x \in Orphaned({r}, {}) : x = DiscOf[r] /\ rip[r] \in Stored}, {r}, {})
  /\ Return(u)
  /\ UNCHANGED <<spool, ripping, driveVars, poolVars, sysVars>>

(* The directory goes before the row does.                        [mutant] *)
DeleteEncSpoolFirst(u) ==
  /\ upc[u] = "deleteEnc"
  /\ spool' = spool \ {ujob[u]}
  /\ GoTo(u, "cleanSpool", ujob[u])
  /\ UNCHANGED <<rowVars, ripping, driveVars, poolVars, sysVars>>

DeleteEncJob(u) ==
  /\ upc[u] = "deleteEnc"
  /\ LET r == ujob[u] IN
       IF enc[r] \in Stored
       THEN /\ DeleteRows({x \in Orphaned({}, {r}) : x = DiscOf[r]}, {}, {r})
            /\ GoTo(u, "cleanSpool", r)
       ELSE /\ Return(u)
            /\ UNCHANGED rowVars
  /\ UNCHANGED <<spool, ripping, driveVars, poolVars, sysVars>>

CleanSpool(u) ==
  /\ upc[u] = "cleanSpool"
  /\ spool' = spool \ {ujob[u]}
  /\ Return(u)
  /\ UNCHANGED <<rowVars, ripping, driveVars, poolVars, sysVars>>

(* DeleteDisc: refuses while a job is active, then deletes. *)
CheckDropDisc(u, r) ==
  /\ Receive(u)
  /\ discRow[DiscOf[r]] = "present"
  /\ ~DiscHasActiveJob(DiscOf[r])
  /\ GoTo(u, "dropDisc", r)
  /\ UNCHANGED <<rowVars, spool, ripping, driveVars, poolVars, sysVars>>

(* EjectDrive and discFlow.handle without media: ClearableDiscOnDrive. *)
CheckEject(u, r) ==
  /\ Receive(u)
  /\ NewestOnDrive(DiscOf[r])
  /\ ~HasActiveJobOnDrive(DriveOf[DiscOf[r]])
  /\ ~DiscHasActiveJob(DiscOf[r])
  /\ Lifecycle(DiscOf[r]) \in Clearable
  /\ GoTo(u, "ejectDrop", r)
  /\ UNCHANGED <<rowVars, spool, ripping, driveVars, poolVars, sysVars>>

DropDisc(u) ==
  /\ upc[u] \in {"dropDisc", "ejectDrop"}
  /\ DeleteRows({x \in Discs : x = DiscOf[ujob[u]] /\ discRow[x] = "present"}, {}, {})
  /\ Return(u)
  /\ UNCHANGED <<spool, ripping, driveVars, poolVars, sysVars>>

(* ClearHistory: the discs that only have finished jobs and are not in a    *)
(* drive any more, then every finished job.                                 *)
ClearHistory ==
  /\ phase = "up"
  /\ LET gone == {x \in Discs : /\ discRow[x] = "present"
                                /\ HasStoredJob(rip, enc, x)
                                /\ ~DiscHasActiveJob(x)
                                /\ ~NewestOnDrive(x)}
     IN  DeleteRows(gone, {r \in Rips : rip[r] \in Terminal},
                          {r \in Rips : enc[r] \in Terminal})
  /\ rip' # rip \/ enc' # enc
  /\ UNCHANGED <<spool, ripping, driveVars, poolVars, userVars, sysVars>>

(* PruneHistory, run by the sweeper: whatever terminal rows the limits on   *)
(* age and number select, then every disc without a job.                    *)
PruneHistory(rips, encs) ==
  /\ phase = "up"
  /\ \A r \in rips : rip[r] \in Terminal
  /\ \A r \in encs : enc[r] \in Terminal
  /\ rips \cup encs # {}
  /\ DeleteRows(Orphaned(rips, encs), rips, encs)
  /\ UNCHANGED <<spool, ripping, driveVars, poolVars, userVars, sysVars>>

NewRequest(u) ==
  \E r \in Rips :
     \/ CheckStart(u, r) \/ CheckRetry(u, r)
     \/ StopRip(u, r) \/ StopEnc(u, r)
     \/ CheckDeleteRip(u, r) \/ CheckDeleteEnc(u, r)
     \/ CheckDropDisc(u, r) \/ CheckEject(u, r)

Respond(u) ==
  \/ CreateRip(u) \/ EnqueueRip(u)
  \/ StopRipRow(u) \/ StopEncRow(u)
  \/ ResetTranscodeJob(u) \/ EnqueueEnc(u)
  \/ DeleteRipJob(u) \/ DeleteEncJob(u) \/ CleanSpool(u)
  \/ DropDisc(u)

-----------------------------------------------------------------------------
(* The worker of drive d (Orchestrator.worker, waitForSpoolCapacity,        *)
(* runJob, runScan, runSplittable).                                         *)

DriveGoTo(d, pc) == dpc' = [dpc EXCEPT ![d] = pc]

(* The select of the worker.  It goes on offering both channels while the   *)
(* orchestrator closes, and Go picks either when both are ready.            *)
Dequeue(d) ==
  /\ phase \in {"up", "closing"}
  /\ dpc[d] = "idle"
  /\ driveQ[d] # <<>>
  /\ driveQ' = [driveQ EXCEPT ![d] = Tail(@)]
  /\ djob' = [djob EXCEPT ![d] = Head(driveQ[d])]
  /\ DriveGoTo(d, "gate")
  /\ UNCHANGED <<rowVars, spool, ripping, dcancel, ripReg, poolVars, userVars, sysVars>>

(* waitForSpoolCapacity lets the job through; runJob registers its context. *)
PassGate(d) ==
  /\ dpc[d] = "gate"
  /\ SpoolCap = 0 \/ Cardinality(spool) < SpoolCap
  /\ ripReg' = ripReg \cup {djob[d]}
  /\ DriveGoTo(d, "load")
  /\ UNCHANGED <<rowVars, spool, ripping, driveQ, djob, dcancel, poolVars, userVars, sysVars>>

(* stopped is closed: the worker leaves, from the select or from the wait.  *)
(* The job it waited with stays queued until the next start.                *)
LeaveDrive(d) ==
  /\ phase = "closing"
  /\ \/ dpc[d] = "idle"
     \/ dpc[d] = "gate" /\ SpoolCap # 0 /\ Cardinality(spool) >= SpoolCap
  /\ djob' = [djob EXCEPT ![d] = NoRip]
  /\ DriveGoTo(d, "exit")
  /\ UNCHANGED <<rowVars, spool, ripping, driveQ, dcancel, ripReg, poolVars, userVars, sysVars>>

(* An early return that leaves the row as it is.                  [mutant] *)
LoadRipSilent(d) ==
  /\ dpc[d] = "load"
  /\ DriveGoTo(d, IF d \in dcancel \/ rip[djob[d]] \notin Stored \ {"cancelled"}
                  THEN "unregister" ELSE "ready")
  /\ UNCHANGED <<rowVars, spool, ripping, driveQ, djob, dcancel, ripReg,
                 poolVars, userVars, sysVars>>

(* runJob reads the rows under the job's context; failEarly when it cannot. *)
LoadRip(d) ==
  /\ dpc[d] = "load"
  /\ IF d \in dcancel \/ rip[djob[d]] \notin Stored
     THEN /\ rip' = UpdateJobState(rip, djob[d], "failed")
          /\ DriveGoTo(d, "unregister")
     ELSE /\ rip' = rip
          /\ DriveGoTo(d, IF rip[djob[d]] = "cancelled" THEN "unregister" ELSE "ready")
  /\ UNCHANGED <<discRow, enc, spool, ripping, driveQ, djob, dcancel, ripReg,
                 poolVars, userVars, sysVars>>

(* queued -> running, the drive row, and the spool directory of a split rip. *)
StartRip(d) ==
  /\ dpc[d] = "ready"
  /\ LET r == djob[d] IN
       IF d \in dcancel \/ rip[r] \notin Stored
       THEN /\ rip' = UpdateJobState(rip, r, "failed")
            /\ DriveGoTo(d, "unregister")
            /\ UNCHANGED <<spool, ripping>>
       ELSE /\ rip' = UpdateJobState(rip, r, "running")
            /\ DriveGoTo(d, "rip")
            /\ ripping' = ripping \cup {d}
            /\ spool' = spool \cup ({r} \cap SplitRips)
  /\ UNCHANGED <<discRow, enc, driveQ, djob, dcancel, ripReg, poolVars, userVars, sysVars>>

(* ScanTitles, Run or RunRip is back.  A cancelled context surfaces as      *)
(* `cancelled', as the failure of a killed tool, or too late to matter.     *)
EndRip(d, out) ==
  /\ dpc[d] = "rip"
  /\ out = "cancelled" => d \in dcancel
  /\ LET split == djob[d] \in SplitRips IN
       /\ DriveGoTo(d, IF split /\ out = "done" THEN "spawn" ELSE out)
       /\ spool' = IF split /\ out # "done" THEN spool \ {djob[d]} ELSE spool
  /\ UNCHANGED <<rowVars, ripping, driveQ, djob, dcancel, ripReg, poolVars, userVars, sysVars>>

(* CreateJob of the transcode child; it needs its parent and its disc       *)
(* (foreign keys) and a live context.                                       *)
SpawnEncode(d) ==
  /\ dpc[d] = "spawn"
  /\ d \notin dcancel
  /\ rip[djob[d]] \in Stored
  /\ enc' = [enc EXCEPT ![djob[d]] = "queued"]
  /\ DriveGoTo(d, "enqueue")
  /\ UNCHANGED <<discRow, rip, spool, ripping, driveQ, djob, dcancel, ripReg,
                 poolVars, userVars, sysVars>>

(* CreateJob fails, as any statement may: the directory stays behind. *)
SpawnFails(d) ==
  /\ dpc[d] = "spawn"
  /\ DriveGoTo(d, IF d \in dcancel THEN "cancelled" ELSE "failed")
  /\ UNCHANGED <<rowVars, spool, ripping, driveQ, djob, dcancel, ripReg,
                 poolVars, userVars, sysVars>>

(* Compute.Enqueue.  The pool is closed after the orchestrator (main.go     *)
(* defers the two in that order), so errStopped does not arise here.        *)
EnqueueEncode(d) ==
  /\ dpc[d] = "enqueue"
  /\ Len(encQ) < QueueCap
  /\ encQ' = Append(encQ, djob[d])
  /\ DriveGoTo(d, "done")
  /\ UNCHANGED <<rowVars, spool, ripping, driveQ, djob, dcancel, ripReg,
                 wpc, wjob, wcancel, encReg, userVars, sysVars>>

(* The drive row is put back to idle on success only.             [mutant] *)
FinishRipDriveBusy(d) ==
  /\ dpc[d] \in Outcomes
  /\ rip' = UpdateJobState(rip, djob[d], dpc[d])
  /\ ripping' = IF dpc[d] = "done" THEN ripping \ {d} ELSE ripping
  /\ DriveGoTo(d, "unregister")
  /\ UNCHANGED <<discRow, enc, spool, driveQ, djob, dcancel, ripReg,
                 poolVars, userVars, sysVars>>

(* The final state of the row, and the drive row back to idle. *)
FinishRip(d) ==
  /\ dpc[d] \in Outcomes
  /\ rip' = UpdateJobState(rip, djob[d], dpc[d])
  /\ ripping' = ripping \ {d}
  /\ DriveGoTo(d, "unregister")
  /\ UNCHANGED <<discRow, enc, spool, driveQ, djob, dcancel, ripReg,
                 poolVars, userVars, sysVars>>

(* The notification is out; runJob's deferred delete. *)
UnregisterRip(d) ==
  /\ dpc[d] = "unregister"
  /\ ripReg' = ripReg \ {djob[d]}
  /\ dcancel' = dcancel \ {d}
  /\ djob' = [djob EXCEPT ![d] = NoRip]
  /\ DriveGoTo(d, "idle")
  /\ UNCHANGED <<rowVars, spool, ripping, driveQ, poolVars, userVars, sysVars>>

DriveStep(d) ==
  \/ Dequeue(d) \/ PassGate(d) \/ LeaveDrive(d)
  \/ LoadRip(d) \/ StartRip(d)
  \/ \E out \in Outcomes : EndRip(d, out)
  \/ SpawnEncode(d) \/ SpawnFails(d) \/ EnqueueEncode(d)
  \/ FinishRip(d) \/ UnregisterRip(d)

-----------------------------------------------------------------------------
(* A worker of the Compute pool (worker, runOne, finalise).                 *)

PoolGoTo(w, pc) == wpc' = [wpc EXCEPT ![w] = pc]

InFlight == Cardinality({w \in Workers : wpc[w] \in HoldsSlot})

DequeueEnc(w) ==
  /\ phase # "down"
  /\ wpc[w] = "idle"
  /\ encQ # <<>>
  /\ encQ' = Tail(encQ)
  /\ wjob' = [wjob EXCEPT ![w] = Head(encQ)]
  /\ PoolGoTo(w, "acquire")
  /\ UNCHANGED <<rowVars, spool, ripping, driveVars, wcancel, encReg, userVars, sysVars>>

(* One slot too few.                                              [mutant] *)
AcquireOffByOne(w) ==
  /\ wpc[w] = "acquire"
  /\ InFlight + 1 < EncodeLimit
  /\ encReg' = [encReg EXCEPT ![wjob[w]] = w]
  /\ PoolGoTo(w, "load")
  /\ UNCHANGED <<rowVars, spool, ripping, driveVars, encQ, wjob, wcancel, userVars, sysVars>>

(* acquire gets a slot; the job's context is registered. *)
Acquire(w) ==
  /\ wpc[w] = "acquire"
  /\ InFlight < EncodeLimit
  /\ encReg' = [encReg EXCEPT ![wjob[w]] = w]
  /\ PoolGoTo(w, "load")
  /\ UNCHANGED <<rowVars, spool, ripping, driveVars, encQ, wjob, wcancel, userVars, sysVars>>

(* The worker goes on after acquire's error.                      [mutant] *)
AbandonIgnored(w) ==
  /\ phase = "poolClosing"
  /\ wpc[w] = "acquire"
  /\ wjob' = [wjob EXCEPT ![w] = NoRip]
  /\ PoolGoTo(w, "load")
  /\ UNCHANGED <<rowVars, spool, ripping, driveVars, encQ, wcancel, encReg, userVars, sysVars>>

(* stopped is closed: acquire gives up and the item is lost; an idle worker *)
(* leaves.                                                                  *)
AbandonAcquire(w) ==
  /\ phase = "poolClosing"
  /\ wpc[w] = "acquire"
  /\ wjob' = [wjob EXCEPT ![w] = NoRip]
  /\ PoolGoTo(w, "idle")
  /\ UNCHANGED <<rowVars, spool, ripping, driveVars, encQ, wcancel, encReg, userVars, sysVars>>

LeavePool(w) ==
  /\ phase = "poolClosing"
  /\ wpc[w] = "idle"
  /\ PoolGoTo(w, "exit")
  /\ UNCHANGED <<rowVars, spool, ripping, driveVars, encQ, wjob, wcancel, encReg, userVars, sysVars>>

LoadEnc(w) ==
  /\ wpc[w] = "load"
  /\ IF w \in wcancel \/ enc[wjob[w]] \notin Stored
     THEN /\ enc' = UpdateJobState(enc, wjob[w], "failed")
          /\ PoolGoTo(w, "unregister")
     ELSE /\ enc' = enc
          /\ PoolGoTo(w, IF enc[wjob[w]] = "cancelled" THEN "unregister" ELSE "ready")
  /\ UNCHANGED <<discRow, rip, spool, ripping, driveVars, encQ, wjob, wcancel, encReg,
                 userVars, sysVars>>

StartEncode(w) ==
  /\ wpc[w] = "ready"
  /\ IF w \in wcancel \/ enc[wjob[w]] \notin Stored
     THEN /\ enc' = UpdateJobState(enc, wjob[w], "failed")
          /\ PoolGoTo(w, "unregister")
     ELSE /\ enc' = UpdateJobState(enc, wjob[w], "running")
          /\ PoolGoTo(w, "encode")
  /\ UNCHANGED <<discRow, rip, spool, ripping, driveVars, encQ, wjob, wcancel, encReg,
                 userVars, sysVars>>

(* RunTranscode is back; it cannot succeed without what it reads. *)
EndEncode(w, out) ==
  /\ wpc[w] = "encode"
  /\ out = "cancelled" => w \in wcancel
  /\ out = "done" => wjob[w] \in spool
  /\ PoolGoTo(w, out)
  /\ UNCHANGED <<rowVars, spool, ripping, driveVars, encQ, wjob, wcancel, encReg,
                 userVars, sysVars>>

(* The directory is cleaned up however the encode ended.          [mutant] *)
FinishAndClean(w) ==
  /\ wpc[w] \in Outcomes
  /\ enc' = UpdateJobState(enc, wjob[w], wpc[w])
  /\ PoolGoTo(w, "cleanup")
  /\ UNCHANGED <<discRow, rip, spool, ripping, driveVars, encQ, wjob, wcancel, encReg,
                 userVars, sysVars>>

(* finalise: the row first, and after `done' the spool directory. *)
FinishEncode(w) ==
  /\ wpc[w] \in Outcomes
  /\ enc' = UpdateJobState(enc, wjob[w], wpc[w])
  /\ PoolGoTo(w, IF wpc[w] = "done" THEN "cleanup" ELSE "unregister")
  /\ UNCHANGED <<discRow, rip, spool, ripping, driveVars, encQ, wjob, wcancel, encReg,
                 userVars, sysVars>>

CleanupSpool(w) ==
  /\ wpc[w] = "cleanup"
  /\ spool' = spool \ {wjob[w]}
  /\ PoolGoTo(w, "unregister")
  /\ UNCHANGED <<rowVars, ripping, driveVars, encQ, wjob, wcancel, encReg, userVars, sysVars>>

(* The notification is out; runOne's deferred delete goes by the job id,    *)
(* whoever registered under it.  The slot is released.                      *)
UnregisterEnc(w) ==
  /\ wpc[w] = "unregister"
  /\ encReg' = [encReg EXCEPT ![wjob[w]] = NoWorker]
  /\ wcancel' = wcancel \ {w}
  /\ wjob' = [wjob EXCEPT ![w] = NoRip]
  /\ PoolGoTo(w, "idle")
  /\ UNCHANGED <<rowVars, spool, ripping, driveVars, encQ, userVars, sysVars>>

PoolStep(w) ==
  \/ DequeueEnc(w) \/ Acquire(w) \/ AbandonAcquire(w) \/ LeavePool(w)
  \/ LoadEnc(w) \/ StartEncode(w)
  \/ \E out \in Outcomes : EndEncode(w, out)
  \/ FinishEncode(w) \/ CleanupSpool(w) \/ UnregisterEnc(w)

-----------------------------------------------------------------------------
(* The life of the process (main). *)

(* What is in memory is gone; the store and the spool stay. *)
LoseMemory ==
  /\ driveQ' = [d \in Drives |-> <<>>]
  /\ dpc' = [d \in Drives |-> "idle"]
  /\ djob' = [d \in Drives |-> NoRip]
  /\ dcancel' = {}
  /\ ripReg' = {}
  /\ encQ' = <<>>
  /\ wpc' = [w \in Workers |-> "idle"]
  /\ wjob' = [w \in Workers |-> NoRip]
  /\ wcancel' = {}
  /\ encReg' = [r \in Rips |-> NoWorker]
  /\ upc' = [u \in Users |-> "idle"]
  /\ ujob' = [u \in Users |-> NoRip]
  /\ phase' = "down"
  /\ UNCHANGED <<rowVars, spool, ripping, retries>>

Crash ==
  /\ phase # "down"
  /\ crashes < MaxCrashes
  /\ crashes' = crashes + 1
  /\ LoseMemory

(* SIGTERM: server.Shutdown lets the requests in flight end, then           *)
(* Orchestrator.Close cancels the registered jobs and closes stopped.       *)
Close ==
  /\ phase = "up"
  /\ \A u \in Users : Idle(u)
  /\ crashes < MaxCrashes
  /\ crashes' = crashes + 1
  /\ phase' = "closing"
  /\ dcancel' = dcancel \cup {d \in Drives : dpc[d] \in Registered}
  /\ UNCHANGED <<rowVars, spool, ripping, driveQ, dpc, djob, ripReg, poolVars, userVars, retries>>

(* Its wg.Wait is over; Compute.Close does the same to the pool. *)
ClosePool ==
  /\ phase = "closing"
  /\ \A d \in Drives : dpc[d] = "exit"
  /\ phase' = "poolClosing"
  /\ wcancel' = wcancel \cup ({encReg[r] : r \in Rips} \ {NoWorker})
  /\ UNCHANGED <<rowVars, spool, ripping, driveVars, encQ, wpc, wjob, encReg, userVars,
                 crashes, retries>>

Exit ==
  /\ phase = "poolClosing"
  /\ \A w \in Workers : wpc[w] = "exit"
  /\ UNCHANGED crashes
  /\ LoseMemory

(* Start-up: NewOrchestrator marks what was active as interrupted, the      *)
(* spool is collected against the rows that leaves, and every drive that    *)
(* is present is scanned as idle.                                           *)
Restart ==
  /\ phase = "down"
  /\ rip' = MarkInterruptedJobs(rip)
  /\ enc' = MarkInterruptedJobs(enc)
  /\ spool' = spool \cap ActiveSpoolReferences(rip', enc', RipKind)
  /\ ripping' = {}
  /\ phase' = "up"
  /\ UNCHANGED <<discRow, driveVars, poolVars, userVars, crashes, retries>>

Next ==
  \/ \E x \in Discs : InsertDisc(x)
  \/ \E u \in Users : NewRequest(u) \/ Respond(u)
  \/ ClearHistory
  \/ \E rips, encs \in SUBSET Rips : PruneHistory(rips, encs)
  \/ \E d \in Drives : DriveStep(d)
  \/ \E w \in Workers : PoolStep(w)
  \/ Crash \/ Close \/ ClosePool \/ Exit \/ Restart

(* Goroutines that can run do run, the tools they wait for end, and the     *)
(* container is restarted (restart: unless-stopped).  No request and no     *)
(* crash is owed.                                                           *)
Fairness ==
  /\ \A u \in Users : WF_vars(Respond(u))
  /\ \A d \in Drives : WF_vars(DriveStep(d))
  /\ \A w \in Workers : WF_vars(PoolStep(w))
  /\ WF_vars(ClosePool) /\ WF_vars(Exit) /\ WF_vars(Restart)

Spec == Init /\ [][Next]_vars
FairSpec == Spec /\ Fairness

-----------------------------------------------------------------------------
(* Properties. *)

(* A transcode that is queued, running or may be retried still has its      *)
(* spool directory: neither the clean-up after a failed rip, nor finalise,  *)
(* nor DeleteJob, nor the collection at start-up takes it away (finalise:   *)
(* failure leaves the spool so that a retry needs no new rip).              *)
SpoolHeld ==
  \A r \in Rips : enc[r] \in Active \cup Retryable => r \in spool

(* A pool worker that is encoding a job still on record finds its input.    *)
EncoderHasInput ==
  \A w \in Workers :
     wpc[w] = "encode" /\ enc[wjob[w]] \in Stored => wjob[w] \in spool

(* Where a transcode waits for its turn. *)
EncInTransit(r) ==
  \/ \E i \in 1..Len(encQ) : encQ[i] = r
  \/ \E w \in Workers : wjob[w] = r /\ wpc[w] \in {"acquire", "load", "ready"}
  \/ \E d \in Drives : djob[d] = r /\ dpc[d] = "enqueue"
  \/ \E u \in Users : ujob[u] = r /\ upc[u] = "enqueueEnc"

EncAtWork(r) ==
  \E w \in Workers : wjob[w] = r /\ wpc[w] \in {"encode"} \cup Outcomes

RipInTransit(r) ==
  \/ \E d \in Drives : \E i \in 1..Len(driveQ[d]) : driveQ[d][i] = r
  \/ \E d \in Drives : djob[d] = r /\ dpc[d] \in {"gate", "load", "ready"}
  \/ \E u \in Users : ujob[u] = r /\ upc[u] = "enqueueRip"

RipAtWork(r) ==
  \E d \in Drives : djob[d] = r /\ dpc[d] \in {"rip", "spawn", "enqueue"} \cup Outcomes

(* While the daemon is up no row is stranded: a queued job is in a queue,   *)
(* with a worker or on its way to a queue, a running one has a worker that  *)
(* will write its end (failEarly: otherwise the row stays queued forever    *)
(* and blocks its drive until the next restart).                            *)
NoStrandedJob ==
  phase = "up" =>
    \A r \in Rips : /\ rip[r] = "queued"  => RipInTransit(r)
                    /\ rip[r] = "running" => RipAtWork(r)
                    /\ enc[r] = "queued"  => EncInTransit(r)
                    /\ enc[r] = "running" => EncAtWork(r)

(* No two workers encode the same job into the same output, however often   *)
(* it fails, is retried, stopped or interrupted.                            *)
SoleEncoder ==
  \A v, w \in Workers :
     /\ wpc[v] \in {"encode", "cleanup"} \cup Outcomes
     /\ wpc[w] \in {"encode", "cleanup"} \cup Outcomes
     /\ wjob[v] = wjob[w]
     => v = w

(* startMu: however many start requests race, a disc is never queued twice  *)
(* (handlers.go: the mutex fully closes the race).  A rip that is already   *)
(* running is another matter: see StopSticks.                               *)
QueuedOnce ==
  \A q, r \in RipKind :
     DiscOf[q] = DiscOf[r] /\ rip[q] = "queued" /\ rip[r] = "queued" => q = r

(* A drive shown as ripping has a worker at it, in every life of the daemon.*)
RippingIsReal ==
  phase = "up" =>
    \A d \in ripping : dpc[d] \in {"rip", "spawn", "enqueue"} \cup Outcomes

(* What a worker has written last is the last word: no late Stop and no     *)
(* second worker changes it (CancelJobIfActive), only a retry reopens a     *)
(* transcode, and only one that failed or was interrupted.                  *)
OutcomesLast ==
  [][\A r \in Rips :
       /\ rip[r] \in {"done", "failed", "interrupted"} => rip'[r] \in {rip[r], "deleted"}
       /\ enc[r] = "done" => enc'[r] \in {"done", "deleted"}
       /\ enc[r] \in Retryable => enc'[r] \in {enc[r], "queued", "deleted"}]_vars

(* Directories nobody is filling or reading, and as many as the cap allows: *)
(* those of failed and cancelled transcodes, kept until a retry, a deletion *)
(* or the next start, hold every drive at its gate.                         *)
SpoolStuck ==
  /\ SpoolCap # 0
  /\ SpoolCap <= Cardinality({r \in spool : rip[r] # "running" /\ enc[r] \notin Active})

(* Every job that was accepted comes to an end, whatever is stopped,        *)
(* deleted, retried or crashes in between, unless the spool is stuck.       *)
RipsSettle ==
  \A r \in Rips : rip[r] \in Active ~> (rip[r] \notin Active \/ SpoolStuck)

(* Every transcode that was accepted comes to an end, too: the pool is      *)
(* never out of slots for good, and its queue always drains.                *)
EncsSettle == \A r \in Rips : enc[r] \in Active ~> enc[r] \notin Active

-----------------------------------------------------------------------------
(* Custody: why the properties above hold.  A job is in one place at a time *)
(* (a queue, a worker's hands, a request's hands), its row says so, and the *)
(* one who has it is the only one who may touch its directory.              *)

HoldsRip(d) ==
  dpc[d] \in {"gate", "load", "ready", "rip", "spawn", "enqueue"} \cup Outcomes
HoldsEnc(w) ==
  wpc[w] \in {"acquire", "load", "ready", "encode", "cleanup"} \cup Outcomes
Starting(u)  == upc[u] \in {"create", "enqueueRip"}
Retrying(u)  == upc[u] = "enqueueEnc"
Spawning(d)  == dpc[d] = "enqueue"
Fills(d)     == dpc[d] = "spawn" \/ (dpc[d] = "rip" /\ djob[d] \in SplitRips)
InHand       == {"queued", "running", "cancelled", "deleted"}

RipInOnePlace ==
  /\ \A d \in Drives : \A i \in 1..Len(driveQ[d]) :
       /\ DriveOf[DiscOf[driveQ[d][i]]] = d
       /\ \A j \in 1..Len(driveQ[d]) : driveQ[d][i] = driveQ[d][j] => i = j
       /\ HoldsRip(d) => driveQ[d][i] # djob[d]
       /\ \A u \in Users : Starting(u) => driveQ[d][i] # ujob[u]
  /\ \A d \in Drives : HoldsRip(d) =>
       /\ DriveOf[DiscOf[djob[d]]] = d
       /\ \A u \in Users : Starting(u) => djob[d] # ujob[u]
  /\ \A u, v \in Users : Starting(u) /\ Starting(v) /\ ujob[u] = ujob[v] => u = v

EncInOnePlace ==
  /\ \A i \in 1..Len(encQ) :
       /\ \A j \in 1..Len(encQ) : encQ[i] = encQ[j] => i = j
       /\ \A w \in Workers : HoldsEnc(w) => encQ[i] # wjob[w]
       /\ \A d \in Drives : Spawning(d) => encQ[i] # djob[d]
       /\ \A u \in Users : Retrying(u) => encQ[i] # ujob[u]
  /\ \A w \in Workers : HoldsEnc(w) =>
       /\ \A v \in Workers : HoldsEnc(v) /\ wjob[v] = wjob[w] => v = w
       /\ \A d \in Drives : Spawning(d) => wjob[w] # djob[d]
       /\ \A u \in Users : Retrying(u) => wjob[w] # ujob[u]
  /\ \A u \in Users : Retrying(u) =>
       /\ \A d \in Drives : Spawning(d) => ujob[u] # djob[d]
       /\ \A v \in Users : Retrying(v) /\ ujob[v] = ujob[u] => v = u

(* A rip in someone's hands has not ended, and until its handler is back    *)
(* it has no transcode yet.                                                 *)
RipRows ==
  /\ \A d \in Drives :
       /\ \A i \in 1..Len(driveQ[d]) : rip[driveQ[d][i]] \in InHand /\ enc[driveQ[d][i]] = "none"
       /\ HoldsRip(d) => rip[djob[d]] \in InHand
       /\ dpc[d] \in {"gate", "load", "ready", "rip", "spawn"} => enc[djob[d]] = "none"
       /\ Fills(d) => djob[d] \in spool
  /\ \A u \in Users :
       /\ upc[u] = "create" => rip[ujob[u]] = "none"
       /\ upc[u] = "enqueueRip" => rip[ujob[u]] \in InHand
       /\ Starting(u) => enc[ujob[u]] = "none"
  /\ \A r \in Rips : rip[r] = "none" => enc[r] = "none"

(* A transcode in someone's hands has not ended and its directory is there, *)
(* unless the row has been deleted under it; who removes a directory does   *)
(* so after the row is done or gone.                                        *)
Backed(r) == enc[r] \in InHand /\ (enc[r] # "deleted" => r \in spool)

EncRows ==
  /\ \A i \in 1..Len(encQ) : Backed(encQ[i])
  /\ \A w \in Workers :
       /\ HoldsEnc(w) /\ wpc[w] # "cleanup" => Backed(wjob[w])
       /\ wpc[w] = "cleanup" => enc[wjob[w]] \in {"done", "deleted"}
  /\ \A d \in Drives : Spawning(d) => Backed(djob[d])
  /\ \A u \in Users :
       /\ Retrying(u) => Backed(ujob[u])
       /\ upc[u] = "cleanSpool" => enc[ujob[u]] = "deleted"

Custody == RipInOnePlace /\ EncInOnePlace /\ RipRows /\ EncRows /\ SpoolHeld

-----------------------------------------------------------------------------
(* The engine keeps the ledger: whatever the queues, the workers, requests, *)
(* crashes and restarts do, rows and directories change only in the ways    *)
(* JobLedger lists.                                                         *)
Ledger == INSTANCE JobLedger
KeepsLedger == Ledger!LedgerSpec

-----------------------------------------------------------------------------
(* What the code says of itself and does not do. *)

(* Orchestrator.Cancel: a queued job is flipped to cancelled in the store   *)
(* so the worker skips it when it pops.                                     *)
StopSticks ==
  [][\A r \in Rips : rip[r] = "cancelled" => rip'[r] # "running"]_vars

(* Orchestrator.Close: pending items in the channels are dropped, the       *)
(* worker observes stopped first.                                           *)
PendingDropped ==
  [][phase = "closing" => \A d \in Drives : dpc[d] = "idle" => dpc'[d] # "gate"]_vars

(* Compute.Owns: reports whether a job is currently running on the pool.    *)
OwnsWhatItRuns ==
  \A w \in Workers : wpc[w] = "encode" => encReg[wjob[w]] = w

(* ClearHistory: in-progress jobs are untouched.                            *)
HistoryKeepsActive ==
  [][ClearHistory =>
       \A r \in Rips : rip[r] = "done" /\ enc[r] \in Active => enc'[r] = enc[r]]_vars
=============================================================================
