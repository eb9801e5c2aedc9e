--------------------------- MODULE JobEngine_proofs ---------------------------
(***************************************************************************)
(* Theorems about JobEngine, for every number of jobs, drives, workers and *)
(* requests in flight, every queue length and every number of crashes:     *)
(* that it is well typed, that Custody is an invariant, and what follows   *)
(* from it: a transcode that may still run has its directory, no two       *)
(* workers encode the same job, an outcome once written is the last word,  *)
(* and the engine keeps the ledger of JobLedger.  At the end, that nothing *)
(* is stranded.                                                            *)
(***************************************************************************)
EXTENDS JobEngine, TLAPS

----------------------------------------------------------------------------
(* Types.                                                                  *)

(* The sets the rows range over, expanded.                                  *)
LEMMA RowStates ==
  RowState = {"queued", "running", "done", "failed", "cancelled", "interrupted",
              "none", "deleted"}
PROOF BY DEF RowState, Stored, Active, Terminal

(* No statement on the store writes a state that is not one.                *)
LEMMA WriteTyped ==
  ASSUME NEW rows \in [Rips -> RowState], NEW r, NEW s \in RowState
  PROVE  UpdateJobState(rows, r, s) \in [Rips -> RowState]
PROOF BY DEF UpdateJobState

(* Nor does a Stop,                                                         *)
LEMMA StopTyped ==
  ASSUME NEW rows \in [Rips -> RowState], NEW r
  PROVE  CancelJobIfActive(rows, r) \in [Rips -> RowState]
PROOF BY RowStates DEF CancelJobIfActive

(* nor recovery at start-up,                                                *)
LEMMA InterruptTyped ==
  ASSUME NEW rows \in [Rips -> RowState]
  PROVE  MarkInterruptedJobs(rows) \in [Rips -> RowState]
PROOF BY RowStates DEF MarkInterruptedJobs

(* nor a deletion.                                                          *)
LEMMA DeleteTyped ==
  ASSUME NEW rows \in [Rips -> RowState], NEW S
  PROVE  DeleteJobs(rows, S) \in [Rips -> RowState]
PROOF BY RowStates DEF DeleteJobs

(* Deleting rows, whichever a handler or a cascade selects, keeps the types.*)
LEMMA DeleteRowsTyped ==
  ASSUME TypeOK, NEW gone, NEW rips, NEW encs, DeleteRows(gone, rips, encs)
  PROVE  /\ discRow' \in [Discs -> {"none", "present", "deleted"}]
         /\ rip' \in [Rips -> RowState]
         /\ enc' \in [Rips -> RowState]
<1> DEFINE dead == rips \cup {r \in Rips : DiscOf[r] \in gone}
<1>1. rip' = DeleteJobs(rip, dead) /\ enc' = DeleteJobs(enc, dead \cup encs)
  BY DEF DeleteRows
<1>2. discRow' \in [Discs -> {"none", "present", "deleted"}]
  BY DEF DeleteRows, TypeOK
<1>3. rip \in [Rips -> RowState] /\ enc \in [Rips -> RowState]
  BY DEF TypeOK
<1> HIDE DEF dead
<1> QED BY <1>1, <1>2, <1>3, DeleteTyped

(* The initial state is well typed.                                         *)
LEMMA TypeInit == Init => TypeOK
PROOF BY RowStates DEF Init, TypeOK, DrivePc, PoolPc, UserPc, Phases, NoRip

(* The part of TypeOK about requests, and what a GoTo does to it.           *)
UserTyped ==
  /\ upc \in [Users -> UserPc]
  /\ ujob \in [Users -> Rips \cup {NoRip}]
  /\ \A u \in Users : upc[u] # "idle" => ujob[u] \in Rips

(* A request that moves on carries a job, or is idle.                       *)
LEMMA GoToTyped ==
  ASSUME TypeOK, NEW u \in Users, NEW pc \in UserPc, NEW r \in Rips \cup {NoRip},
         pc # "idle" => r \in Rips, GoTo(u, pc, r)
  PROVE  UserTyped'
PROOF BY DEF GoTo, TypeOK, UserTyped

(* A request that is received keeps the types.                              *)
LEMMA TypeRequest ==
  ASSUME TypeOK, NEW u \in Users, NewRequest(u)
  PROVE  TypeOK'
<1> USE TopologyAssumption, BoundsAssumption, IdsAssumption
<1> PICK r \in Rips :
      \/ CheckStart(u, r) \/ CheckRetry(u, r)
      \/ StopRip(u, r) \/ StopEnc(u, r)
      \/ CheckDeleteRip(u, r) \/ CheckDeleteEnc(u, r)
      \/ CheckDropDisc(u, r) \/ CheckEject(u, r)
  BY DEF NewRequest
<1>1. CASE CheckStart(u, r)
  BY SMTT(30), <1>1 DEF CheckStart, GoTo, TypeOK, UserPc, rowVars, driveVars, poolVars, userVars, sysVars
<1>2. CASE CheckRetry(u, r)
  BY <1>2 DEF CheckRetry, GoTo, TypeOK, UserPc, rowVars, driveVars, poolVars, userVars, sysVars
<1>3. CASE StopRip(u, r)
  <2>1. dcancel' \subseteq Drives
    BY <1>3 DEF StopRip, TypeOK
  <2>2. UserTyped'
    <3>1. GoTo(u, "stopRip", r) \/ UNCHANGED <<upc, ujob>>
      BY <1>3 DEF StopRip, userVars
    <3>2. UserTyped
      BY DEF TypeOK, UserTyped
    <3> QED BY <3>1, <3>2, GoToTyped DEF UserPc, UserTyped
  <2>3. UNCHANGED <<rowVars, spool, ripping, driveQ, dpc, djob, ripReg, poolVars, sysVars>>
    BY <1>3 DEF StopRip
  <2> QED BY <2>1, <2>2, <2>3 DEF UserTyped, TypeOK, rowVars, poolVars, sysVars
<1>4. CASE StopEnc(u, r)
  <2>1. wcancel' \subseteq Workers
    BY <1>4 DEF StopEnc, TypeOK
  <2>2. UserTyped'
    <3>1. GoTo(u, "stopEnc", r) \/ UNCHANGED <<upc, ujob>>
      BY <1>4 DEF StopEnc, userVars
    <3>2. UserTyped
      BY DEF TypeOK, UserTyped
    <3> QED BY <3>1, <3>2, GoToTyped DEF UserPc, UserTyped
  <2>3. UNCHANGED <<rowVars, spool, ripping, driveVars, encQ, wpc, wjob, encReg, sysVars>>
    BY <1>4 DEF StopEnc
  <2> QED BY <2>1, <2>2, <2>3 DEF UserTyped, TypeOK, rowVars, driveVars, sysVars
<1>5. CASE CheckDeleteRip(u, r)
  BY <1>5 DEF CheckDeleteRip, GoTo, TypeOK, UserPc, rowVars, driveVars, poolVars, userVars, sysVars
<1>6. CASE CheckDeleteEnc(u, r)
  BY <1>6 DEF CheckDeleteEnc, GoTo, TypeOK, UserPc, rowVars, driveVars, poolVars, userVars, sysVars
<1>7. CASE CheckDropDisc(u, r)
  BY <1>7 DEF CheckDropDisc, GoTo, TypeOK, UserPc, rowVars, driveVars, poolVars, userVars, sysVars
<1>8. CASE CheckEject(u, r)
  BY <1>8 DEF CheckEject, GoTo, TypeOK, UserPc, rowVars, driveVars, poolVars, userVars, sysVars
<1> QED BY <1>1, <1>2, <1>3, <1>4, <1>5, <1>6, <1>7, <1>8

(* A request that is carried on keeps the types.                            *)
LEMMA TypeRespond ==
  ASSUME TypeOK, NEW u \in Users, Respond(u)
  PROVE  TypeOK'
<1> USE TopologyAssumption, BoundsAssumption, IdsAssumption
<1>1. CASE CreateRip(u)
  <2>1. ujob[u] \in Rips
    BY <1>1 DEF CreateRip, TypeOK
  <2>2. rip' \in [Rips -> RowState]
    BY SMTT(30), <1>1, RowStates DEF CreateRip, TypeOK
  <2>3. GoTo(u, "enqueueRip", ujob[u]) \/ GoTo(u, "idle", NoRip)
    BY <1>1 DEF CreateRip, Return
  <2>4. UserTyped'
    BY <2>1, <2>3, GoToTyped DEF UserPc
  <2> QED BY <1>1, <2>2, <2>4 DEF CreateRip, UserTyped, TypeOK, rowVars, driveVars, poolVars, userVars, sysVars
<1>2. CASE EnqueueRip(u)
  <2> DEFINE d == DriveOf[DiscOf[ujob[u]]]
  <2>1. ujob[u] \in Rips /\ d \in Drives
    BY <1>2 DEF EnqueueRip, TypeOK
  <2>2. driveQ' = [driveQ EXCEPT ![d] = Append(driveQ[d], ujob[u])]
    BY <1>2 DEF EnqueueRip
  <2>3. driveQ[d] \in Seq(Rips) /\ driveQ \in [Drives -> Seq(Rips)]
    BY <2>1 DEF TypeOK
  <2>4. Append(driveQ[d], ujob[u]) \in Seq(Rips)
    BY <2>1, <2>3
  <2>5. driveQ' \in [Drives -> Seq(Rips)]
    BY <2>1, <2>2, <2>3, <2>4
  <2> QED BY <1>2, <2>5 DEF EnqueueRip, GoTo, Return, TypeOK, UserPc, rowVars, driveVars, poolVars, userVars, sysVars
<1>3. CASE StopRipRow(u)
  BY <1>3, StopTyped, RowStates DEF StopRipRow, GoTo, Return, TypeOK, UserPc, rowVars, driveVars, poolVars, userVars, sysVars
<1>4. CASE StopEncRow(u)
  BY <1>4, StopTyped, RowStates DEF StopEncRow, GoTo, Return, TypeOK, UserPc, rowVars, driveVars, poolVars, userVars, sysVars
<1>5. CASE ResetTranscodeJob(u)
  <2>1. ujob[u] \in Rips
    BY <1>5 DEF ResetTranscodeJob, TypeOK
  <2>2. enc' \in [Rips -> RowState]
    BY <1>5, <2>1, RowStates DEF ResetTranscodeJob, TypeOK
  <2>3. retries' \in [Rips -> Nat]
    BY <1>5, <2>1 DEF ResetTranscodeJob, TypeOK
  <2>4. GoTo(u, "enqueueEnc", ujob[u]) \/ GoTo(u, "idle", NoRip)
    BY <1>5 DEF ResetTranscodeJob, Return
  <2>5. UserTyped'
    BY <2>1, <2>4, GoToTyped DEF UserPc
  <2> QED BY <1>5, <2>2, <2>3, <2>5 DEF ResetTranscodeJob, UserTyped, TypeOK, rowVars, driveVars, poolVars, userVars, sysVars
<1>6. CASE EnqueueEnc(u)
  BY SMTT(30), <1>6 DEF EnqueueEnc, GoTo, Return, TypeOK, UserPc, rowVars, driveVars, poolVars, userVars, sysVars
<1>7. CASE DeleteRipJob(u)
  BY <1>7, DeleteRowsTyped DEF DeleteRipJob, GoTo, Return, TypeOK, UserPc, rowVars, driveVars, poolVars, userVars, sysVars
<1>8. CASE DeleteEncJob(u)
  BY ZenonT(60), <1>8, DeleteRowsTyped DEF DeleteEncJob, GoTo, Return, TypeOK, UserPc, rowVars, driveVars, poolVars, userVars, sysVars
<1>9. CASE CleanSpool(u)
  BY <1>9 DEF CleanSpool, GoTo, Return, TypeOK, UserPc, rowVars, driveVars, poolVars, userVars, sysVars
<1>10. CASE DropDisc(u)
  BY <1>10, DeleteRowsTyped DEF DropDisc, GoTo, Return, TypeOK, UserPc, rowVars, driveVars, poolVars, userVars, sysVars
<1> QED BY <1>1, <1>2, <1>3, <1>4, <1>5, <1>6, <1>7, <1>8, <1>9, <1>10 DEF Respond

(* A step of a drive's worker keeps the types.                              *)
LEMMA TypeDrive ==
  ASSUME TypeOK, NEW d \in Drives, DriveStep(d)
  PROVE  TypeOK'
<1> USE TopologyAssumption, BoundsAssumption, IdsAssumption
<1>1. CASE Dequeue(d)
  BY SMTT(30), <1>1 DEF Dequeue, DriveGoTo, TypeOK, DrivePc, Outcomes, rowVars, driveVars, poolVars, userVars, sysVars
<1>2. CASE PassGate(d)
  BY ZenonT(60), <1>2 DEF PassGate, DriveGoTo, TypeOK, DrivePc, Outcomes, rowVars, driveVars, poolVars, userVars, sysVars
<1>3. CASE LeaveDrive(d)
  BY <1>3 DEF LeaveDrive, DriveGoTo, TypeOK, DrivePc, Outcomes, rowVars, driveVars, poolVars, userVars, sysVars
<1>4. CASE LoadRip(d)
  <2>1. rip' \in [Rips -> RowState]
    <3>1. rip \in [Rips -> RowState] /\ "failed" \in RowState /\ "running" \in RowState
      BY RowStates DEF TypeOK
    <3> QED BY <1>4, <3>1, WriteTyped DEF LoadRip
  <2>2. dpc' \in [Drives -> DrivePc] /\ dpc[d] \notin {"idle", "exit"}
    <3>1. dpc[d] \in {"load", "ready"} /\ \E pc \in {"unregister", "ready"} : dpc' = [dpc EXCEPT ![d] = pc]
      BY <1>4 DEF LoadRip, DriveGoTo
    <3>2. dpc \in [Drives -> DrivePc]
      BY DEF TypeOK
    <3> QED BY <3>1, <3>2 DEF DrivePc
  <2>3. \A x \in Drives : dpc'[x] \notin {"idle", "exit"} => dpc[x] \notin {"idle", "exit"}
    BY <1>4, <2>2 DEF LoadRip, DriveGoTo, TypeOK
  <2>4. UNCHANGED <<discRow, enc, spool, ripping, driveQ, djob, dcancel, ripReg,
                    poolVars, userVars, sysVars>>
    BY <1>4 DEF LoadRip
  <2> QED BY <2>1, <2>2, <2>3, <2>4 DEF TypeOK, poolVars, userVars, sysVars
<1>5. CASE StartRip(d)
  <2>1. rip' \in [Rips -> RowState]
    <3>1. rip \in [Rips -> RowState] /\ "failed" \in RowState /\ "running" \in RowState
      BY RowStates DEF TypeOK
    <3> QED BY <1>5, <3>1, WriteTyped DEF StartRip
  <2>2. dpc' \in [Drives -> DrivePc] /\ dpc[d] \notin {"idle", "exit"}
    <3>1. dpc[d] \in {"load", "ready"} /\ \E pc \in {"unregister", "rip"} : dpc' = [dpc EXCEPT ![d] = pc]
      BY <1>5 DEF StartRip, DriveGoTo
    <3>2. dpc \in [Drives -> DrivePc]
      BY DEF TypeOK
    <3> QED BY <3>1, <3>2 DEF DrivePc
  <2>3. \A x \in Drives : dpc'[x] \notin {"idle", "exit"} => dpc[x] \notin {"idle", "exit"}
    BY <1>5, <2>2 DEF StartRip, DriveGoTo, TypeOK
  <2>4. spool' \subseteq Rips /\ ripping' \subseteq Drives
    <3>1. djob[d] \in Rips /\ spool \subseteq Rips /\ ripping \subseteq Drives
      BY <2>2 DEF TypeOK
    <3>2. spool' \in {spool, spool \cup ({djob[d]} \cap SplitRips)} /\ ripping' \in {ripping, ripping \cup {d}}
      BY <1>5 DEF StartRip
    <3> QED BY <3>1, <3>2
  <2>5. UNCHANGED <<discRow, enc, driveQ, djob, dcancel, ripReg, poolVars, userVars, sysVars>>
    BY <1>5 DEF StartRip
  <2> QED BY <2>1, <2>2, <2>3, <2>4, <2>5 DEF TypeOK, poolVars, userVars, sysVars
<1>6. ASSUME NEW out \in Outcomes, EndRip(d, out) PROVE TypeOK'
  BY <1>6 DEF EndRip, DriveGoTo, TypeOK, DrivePc, Outcomes, rowVars, driveVars, poolVars, userVars, sysVars
<1>7. CASE SpawnEncode(d)
  BY <1>7, RowStates DEF SpawnEncode, DriveGoTo, TypeOK, DrivePc, Outcomes, rowVars, driveVars, poolVars, userVars, sysVars
<1>8. CASE SpawnFails(d)
  BY <1>8 DEF SpawnFails, DriveGoTo, TypeOK, DrivePc, Outcomes, rowVars, driveVars, poolVars, userVars, sysVars
<1>9. CASE EnqueueEncode(d)
  BY SMTT(30), <1>9 DEF EnqueueEncode, DriveGoTo, TypeOK, DrivePc, Outcomes, rowVars, driveVars, poolVars, userVars, sysVars
<1>10. CASE FinishRip(d)
  BY ZenonT(60), <1>10, WriteTyped, RowStates DEF FinishRip, DriveGoTo, TypeOK, DrivePc, Outcomes, rowVars, driveVars, poolVars, userVars, sysVars
<1>11. CASE UnregisterRip(d)
  BY <1>11 DEF UnregisterRip, DriveGoTo, TypeOK, DrivePc, Outcomes, rowVars, driveVars, poolVars, userVars, sysVars
<1> QED BY <1>1, <1>2, <1>3, <1>4, <1>5, <1>6, <1>7, <1>8, <1>9, <1>10, <1>11 DEF DriveStep

(* A step of a worker of the pool keeps the types.                          *)
LEMMA TypePool ==
  ASSUME TypeOK, NEW w \in Workers, PoolStep(w)
  PROVE  TypeOK'
<1> USE TopologyAssumption, BoundsAssumption, IdsAssumption
<1>1. CASE DequeueEnc(w)
  BY SMTT(30), <1>1 DEF DequeueEnc, PoolGoTo, TypeOK, PoolPc, Outcomes, rowVars, driveVars, poolVars, userVars, sysVars
<1>2. CASE Acquire(w)
  BY <1>2 DEF Acquire, PoolGoTo, TypeOK, PoolPc, Outcomes, rowVars, driveVars, poolVars, userVars, sysVars
<1>3. CASE AbandonAcquire(w)
  BY SMTT(30), <1>3 DEF AbandonAcquire, PoolGoTo, TypeOK, PoolPc, Outcomes, rowVars, driveVars, poolVars, userVars, sysVars
<1>4. CASE LeavePool(w)
  BY <1>4 DEF LeavePool, PoolGoTo, TypeOK, PoolPc, Outcomes, rowVars, driveVars, poolVars, userVars, sysVars
<1>5. CASE LoadEnc(w)
  <2>1. enc' \in [Rips -> RowState]
    <3>1. enc \in [Rips -> RowState] /\ "failed" \in RowState /\ "running" \in RowState
      BY RowStates DEF TypeOK
    <3> QED BY <1>5, <3>1, WriteTyped DEF LoadEnc
  <2>2. wpc' \in [Workers -> PoolPc] /\ wpc[w] \notin {"idle", "exit"}
    <3>1. wpc[w] \in {"load", "ready"} /\ \E pc \in {"unregister", "ready"} : wpc' = [wpc EXCEPT ![w] = pc]
      BY <1>5 DEF LoadEnc, PoolGoTo
    <3>2. wpc \in [Workers -> PoolPc]
      BY DEF TypeOK
    <3> QED BY <3>1, <3>2 DEF PoolPc
  <2>3. \A x \in Workers : wpc'[x] \notin {"idle", "exit"} => wpc[x] \notin {"idle", "exit"}
    BY <1>5, <2>2 DEF LoadEnc, PoolGoTo, TypeOK
  <2>4. UNCHANGED <<discRow, rip, spool, ripping, driveVars, encQ, wjob, wcancel, encReg,
                    userVars, sysVars>>
    BY <1>5 DEF LoadEnc
  <2> QED BY <2>1, <2>2, <2>3, <2>4 DEF TypeOK, driveVars, userVars, sysVars
<1>6. CASE StartEncode(w)
  <2>1. enc' \in [Rips -> RowState]
    <3>1. enc \in [Rips -> RowState] /\ "failed" \in RowState /\ "running" \in RowState
      BY RowStates DEF TypeOK
    <3> QED BY <1>6, <3>1, WriteTyped DEF StartEncode
  <2>2. wpc' \in [Workers -> PoolPc] /\ wpc[w] \notin {"idle", "exit"}
    <3>1. wpc[w] \in {"load", "ready"} /\ \E pc \in {"unregister", "encode"} : wpc' = [wpc EXCEPT ![w] = pc]
      BY <1>6 DEF StartEncode, PoolGoTo
    <3>2. wpc \in [Workers -> PoolPc]
      BY DEF TypeOK
    <3> QED BY <3>1, <3>2 DEF PoolPc
  <2>3. \A x \in Workers : wpc'[x] \notin {"idle", "exit"} => wpc[x] \notin {"idle", "exit"}
    BY <1>6, <2>2 DEF StartEncode, PoolGoTo, TypeOK
  <2>4. UNCHANGED <<discRow, rip, spool, ripping, driveVars, encQ, wjob, wcancel, encReg,
                    userVars, sysVars>>
    BY <1>6 DEF StartEncode
  <2> QED BY <2>1, <2>2, <2>3, <2>4 DEF TypeOK, driveVars, userVars, sysVars
<1>7. ASSUME NEW out \in Outcomes, EndEncode(w, out) PROVE TypeOK'
  BY <1>7 DEF EndEncode, PoolGoTo, TypeOK, PoolPc, Outcomes, rowVars, driveVars, poolVars, userVars, sysVars
<1>8. CASE FinishEncode(w)
  BY ZenonT(60), <1>8, WriteTyped, RowStates DEF FinishEncode, PoolGoTo, TypeOK, PoolPc, Outcomes, rowVars, driveVars, poolVars, userVars, sysVars
<1>9. CASE CleanupSpool(w)
  BY <1>9 DEF CleanupSpool, PoolGoTo, TypeOK, PoolPc, Outcomes, rowVars, driveVars, poolVars, userVars, sysVars
<1>10. CASE UnregisterEnc(w)
  BY <1>10 DEF UnregisterEnc, PoolGoTo, TypeOK, PoolPc, Outcomes, rowVars, driveVars, poolVars, userVars, sysVars
<1> QED BY <1>1, <1>2, <1>3, <1>4, <1>5, <1>6, <1>7, <1>8, <1>9, <1>10 DEF PoolStep

(* Coming up, going down and the sweeper keep the types.                    *)
LEMMA TypeProcess ==
  ASSUME TypeOK,
         \/ \E x \in Discs : InsertDisc(x)
         \/ ClearHistory
         \/ \E rips, encs \in SUBSET Rips : PruneHistory(rips, encs)
         \/ Crash \/ Close \/ ClosePool \/ Exit \/ Restart
  PROVE  TypeOK'
<1> USE TopologyAssumption, BoundsAssumption, IdsAssumption
<1>1. ASSUME NEW x \in Discs, InsertDisc(x) PROVE TypeOK'
  BY <1>1 DEF InsertDisc, TypeOK, rowVars, driveVars, poolVars, userVars, sysVars
<1>2. CASE ClearHistory
  BY <1>2, DeleteRowsTyped DEF ClearHistory, TypeOK, rowVars, driveVars, poolVars, userVars, sysVars
<1>3. ASSUME NEW rips \in SUBSET Rips, NEW encs \in SUBSET Rips, PruneHistory(rips, encs) PROVE TypeOK'
  BY <1>3, DeleteRowsTyped DEF PruneHistory, TypeOK, rowVars, driveVars, poolVars, userVars, sysVars
<1>4. CASE Crash
  BY <1>4 DEF Crash, LoseMemory, DrivePc, PoolPc, UserPc, Phases, NoRip, TypeOK, rowVars, driveVars, poolVars, userVars, sysVars
<1>5. CASE Close
  BY <1>5 DEF Close, Phases, TypeOK, rowVars, driveVars, poolVars, userVars, sysVars
<1>6. CASE ClosePool
  BY <1>6 DEF ClosePool, Phases, TypeOK, rowVars, driveVars, poolVars, userVars, sysVars
<1>7. CASE Exit
  BY <1>7 DEF Exit, LoseMemory, DrivePc, PoolPc, UserPc, Phases, NoRip, TypeOK, rowVars, driveVars, poolVars, userVars, sysVars
<1>8. CASE Restart
  BY <1>8, InterruptTyped DEF Restart, Phases, TypeOK, rowVars, driveVars, poolVars, userVars, sysVars
<1> QED BY <1>1, <1>2, <1>3, <1>4, <1>5, <1>6, <1>7, <1>8

(* Whoever takes the step, the types are kept.                              *)
LEMMA TypeStep ==
  ASSUME TypeOK, [Next]_vars
  PROVE  TypeOK'
<1>1. CASE Next
  BY <1>1, TypeRequest, TypeRespond, TypeDrive, TypePool, TypeProcess DEF Next
<1>2. CASE UNCHANGED vars
  BY <1>2 DEF TypeOK, vars, rowVars, driveVars, poolVars, userVars, sysVars
<1> QED BY <1>1, <1>2

(* Every variable keeps its type, and whoever is busy has a job.            *)
THEOREM TypeCorrect == Spec => []TypeOK
<1>1. TypeOK /\ [Next]_vars => TypeOK'
  BY TypeStep
<1> QED BY <1>1, TypeInit, PTL DEF Spec

----------------------------------------------------------------------------
(* Custody.                                                                *)

(* A step after which every job is where it was, or nowhere.                *)
PlacesShrink ==
  /\ driveQ' = driveQ /\ encQ' = encQ
  /\ \A d \in Drives : \/ dpc'[d] = dpc[d] /\ djob'[d] = djob[d]
                       \/ dpc'[d] \in {"idle", "exit", "unregister"}
  /\ \A w \in Workers : \/ wpc'[w] = wpc[w] /\ wjob'[w] = wjob[w]
                        \/ wpc'[w] \in {"idle", "exit", "unregister"}
  /\ \A u \in Users : \/ upc'[u] = upc[u] /\ ujob'[u] = ujob[u]
                      \/ upc'[u] \notin {"create", "enqueueRip", "enqueueEnc", "cleanSpool"}

(* A step that writes rows only the way a Stop or a deletion does.          *)
RowsStay ==
  /\ spool' = spool
  /\ \A r \in Rips :
       /\ rip[r] = "none" <=> rip'[r] = "none"
       /\ rip[r] \in InHand => rip'[r] \in InHand
       /\ enc[r] = "none" <=> enc'[r] = "none"
       /\ enc[r] \in InHand => enc'[r] \in InHand
       /\ enc[r] = "deleted" => enc'[r] = "deleted"
       /\ enc[r] \in {"done", "deleted"} => enc'[r] \in {"done", "deleted"}
       /\ enc'[r] \in Active \cup Retryable => enc[r] \in Active \cup Retryable

(* The pieces of TypeOK about the places a job can be in.                   *)
Placed ==
  /\ driveQ \in [Drives -> Seq(Rips)]
  /\ encQ \in Seq(Rips)
  /\ \A d \in Drives : dpc[d] \notin {"idle", "exit"} => djob[d] \in Rips
  /\ \A w \in Workers : wpc[w] \notin {"idle", "exit"} => wjob[w] \in Rips
  /\ \A u \in Users : upc[u] # "idle" => ujob[u] \in Rips

(* The part of the type invariant that says who has a job.                  *)
LEMMA TypePlaced == TypeOK => Placed
PROOF BY DEF TypeOK, Placed

(* What is in a queue is a job.                                             *)
LEMMA QueuePlaced ==
  ASSUME Placed
  PROVE  /\ \A d \in Drives : \A i \in 1..Len(driveQ[d]) : driveQ[d][i] \in Rips
         /\ \A i \in 1..Len(encQ) : encQ[i] \in Rips
PROOF BY DEF Placed

(* Such a step keeps custody.                                               *)
LEMMA GentleRipPlaces ==
  ASSUME RipInOnePlace, PlacesShrink
  PROVE  RipInOnePlace'
PROOF BY DEF RipInOnePlace, PlacesShrink, HoldsRip, Starting, Outcomes

(* A step after which nobody has more in hand keeps transcodes in one place. *)
LEMMA GentleEncPlaces ==
  ASSUME EncInOnePlace, PlacesShrink
  PROVE  EncInOnePlace'
PROOF BY DEF EncInOnePlace, PlacesShrink, HoldsEnc, Spawning, Retrying, Outcomes

(* Nor does it leave a rip in someone's hands that has ended.               *)
LEMMA GentleRipRows ==
  ASSUME Placed, RipRows, PlacesShrink, RowsStay
  PROVE  RipRows'
<1>1. ASSUME NEW d \in Drives
      PROVE  \A i \in 1..Len(driveQ'[d]) : rip'[driveQ'[d][i]] \in InHand /\ enc'[driveQ'[d][i]] = "none"
  BY QueuePlaced DEF Fills, RipRows, PlacesShrink, RowsStay
<1>2. ASSUME NEW d \in Drives
      PROVE  /\ HoldsRip(d)' => rip'[djob'[d]] \in InHand
             /\ dpc'[d] \in {"gate", "load", "ready", "rip", "spawn"} => enc'[djob'[d]] = "none"
             /\ Fills(d)' => djob'[d] \in spool'
  BY SMTT(30) DEF Fills, Placed, RipRows, PlacesShrink, RowsStay, HoldsRip, Outcomes
<1>3. ASSUME NEW u \in Users
      PROVE  /\ upc'[u] = "create" => rip'[ujob'[u]] = "none"
             /\ upc'[u] = "enqueueRip" => rip'[ujob'[u]] \in InHand
             /\ Starting(u)' => enc'[ujob'[u]] = "none"
  BY DEF Fills, Placed, RipRows, PlacesShrink, RowsStay, Starting
<1>4. \A r \in Rips : rip'[r] = "none" => enc'[r] = "none"
  BY DEF RipRows, RowsStay
<1> QED BY <1>1, <1>2, <1>3, <1>4 DEF RipRows

(* Nor a transcode that has ended, or lost its directory.                   *)
LEMMA GentleEncRows ==
  ASSUME Placed, EncRows, PlacesShrink, RowsStay
  PROVE  EncRows'
<1>0. ASSUME NEW r \in Rips, Backed(r) PROVE Backed(r)'
  BY <1>0 DEF Backed, RowsStay, InHand
<1>1. \A i \in 1..Len(encQ') : Backed(encQ[i])'
  BY <1>0, QueuePlaced DEF EncRows, PlacesShrink
<1>2. ASSUME NEW w \in Workers
      PROVE  /\ HoldsEnc(w)' /\ wpc'[w] # "cleanup" => Backed(wjob[w])'
             /\ wpc'[w] = "cleanup" => enc'[wjob'[w]] \in {"done", "deleted"}
  <2>1. CASE wpc'[w] \in {"idle", "exit", "unregister"}
    BY <2>1 DEF HoldsEnc, Outcomes
  <2>2. CASE wpc'[w] = wpc[w] /\ wjob'[w] = wjob[w]
    <3>1. HoldsEnc(w) => wjob[w] \in Rips
      BY DEF HoldsEnc, Placed, Outcomes
    <3>2. HoldsEnc(w)' <=> HoldsEnc(w)
      BY <2>2 DEF HoldsEnc
    <3>3. HoldsEnc(w) /\ wpc[w] # "cleanup" => Backed(wjob[w])
      BY DEF EncRows
    <3>4. Backed(wjob[w])' <=> enc'[wjob[w]] \in InHand /\ (enc'[wjob[w]] # "deleted" => wjob[w] \in spool')
      BY <2>2 DEF Backed
    <3>5. HoldsEnc(w) /\ wpc[w] # "cleanup" => Backed(wjob[w])'
      BY <3>1, <3>3, <3>4, <1>0 DEF Backed, RowsStay, InHand
    <3>6. wpc[w] = "cleanup" => enc'[wjob[w]] \in {"done", "deleted"}
      BY <3>1 DEF EncRows, RowsStay, HoldsEnc
    <3> QED BY <2>2, <3>2, <3>5, <3>6
  <2> QED BY <2>1, <2>2 DEF PlacesShrink
<1>3. \A d \in Drives : Spawning(d)' => Backed(djob[d])'
  <2> SUFFICES ASSUME NEW d \in Drives, Spawning(d)' PROVE Backed(djob[d])'
    OBVIOUS
  <2>1. dpc'[d] = dpc[d] /\ djob'[d] = djob[d]
    BY DEF PlacesShrink, Spawning
  <2>2. djob[d] \in Rips /\ Backed(djob[d])
    BY <2>1 DEF Spawning, Placed, EncRows
  <2> QED BY <2>1, <2>2, <1>0 DEF Backed, RowsStay, InHand
<1>4. ASSUME NEW u \in Users
      PROVE  /\ Retrying(u)' => Backed(ujob[u])'
             /\ upc'[u] = "cleanSpool" => enc'[ujob'[u]] = "deleted"
  <2>1. CASE upc'[u] \notin {"create", "enqueueRip", "enqueueEnc", "cleanSpool"}
    BY <2>1 DEF Retrying
  <2>2. CASE upc'[u] = upc[u] /\ ujob'[u] = ujob[u]
    <3>1. upc[u] \in {"enqueueEnc", "cleanSpool"} => ujob[u] \in Rips
      BY DEF Placed
    <3>2. upc[u] = "enqueueEnc" => Backed(ujob[u])
      BY DEF EncRows, Retrying
    <3>3. upc[u] = "cleanSpool" => enc[ujob[u]] = "deleted"
      BY DEF EncRows
    <3> QED BY <2>2, <3>1, <3>2, <3>3 DEF Backed, RowsStay, InHand, Retrying
  <2> QED BY <2>1, <2>2 DEF PlacesShrink
<1> QED BY <1>1, <1>2, <1>3, <1>4 DEF EncRows

(* Rows that stay put keep their directories.                               *)
LEMMA GentleSpool == SpoolHeld /\ RowsStay => SpoolHeld'
PROOF BY DEF SpoolHeld, RowsStay

(* The four together.                                                       *)
LEMMA Gentle ==
  ASSUME TypeOK, Custody, PlacesShrink, RowsStay
  PROVE  Custody'
PROOF BY TypePlaced, GentleRipPlaces, GentleEncPlaces, GentleRipRows, GentleEncRows,
         GentleSpool DEF Custody

-----------------------------------------------------------------------------
(* The statements that RowsStay allows.                                     *)
LEMMA SameRows == rip' = rip /\ enc' = enc /\ spool' = spool => RowsStay
PROOF BY DEF RowsStay

(* A Stop that flips a row.                                                 *)
LEMMA StopStays ==
  ASSUME TypeOK, NEW r \in Rips, spool' = spool,
         \/ rip' = CancelJobIfActive(rip, r) /\ enc' = enc
         \/ enc' = CancelJobIfActive(enc, r) /\ rip' = rip
  PROVE  RowsStay
PROOF BY DEF TypeOK, RowsStay, CancelJobIfActive, InHand, Active, Retryable

(* A deletion, with what it cascades to.                                    *)
LEMMA DeleteStays ==
  ASSUME TypeOK, spool' = spool, NEW gone, NEW rips, NEW encs, DeleteRows(gone, rips, encs)
  PROVE  RowsStay
<1>1. \A r \in Rips : rip'[r] = rip[r] \/ (rip[r] \in Stored /\ rip'[r] = "deleted")
  BY DEF DeleteRows, DeleteJobs, TypeOK
<1>2. \A r \in Rips : enc'[r] = enc[r] \/ (enc[r] \in Stored /\ enc'[r] = "deleted")
  BY DEF DeleteRows, DeleteJobs, TypeOK
<1> QED BY <1>1, <1>2 DEF RowsStay, InHand, Active, Retryable, Stored, Terminal

(* A request that goes to a place where it holds nothing.                   *)
LEMMA UserShrinks ==
  ASSUME TypeOK, NEW u \in Users, NEW r, GoTo(u, upc'[u], r),
         upc'[u] \notin {"create", "enqueueRip", "enqueueEnc", "cleanSpool"},
         driveQ' = driveQ, dpc' = dpc, djob' = djob, encQ' = encQ, wpc' = wpc, wjob' = wjob
  PROVE  PlacesShrink
PROOF BY DEF TypeOK, PlacesShrink, GoTo

-----------------------------------------------------------------------------
(* Requests.                                                                *)
LEMMA CustodyRequest ==
  ASSUME TypeOK, Custody, NEW u \in Users, NEW r \in Rips,
         \/ CheckRetry(u, r) \/ StopRip(u, r) \/ StopEnc(u, r)
         \/ CheckDeleteRip(u, r) \/ CheckDeleteEnc(u, r)
         \/ CheckDropDisc(u, r) \/ CheckEject(u, r)
  PROVE  Custody'
<1>1. RowsStay
  BY SameRows DEF CheckRetry, StopRip, StopEnc, CheckDeleteRip, CheckDeleteEnc,
                  CheckDropDisc, CheckEject, rowVars
<1>2. driveQ' = driveQ /\ dpc' = dpc /\ djob' = djob /\ encQ' = encQ /\ wpc' = wpc /\ wjob' = wjob
  BY DEF CheckRetry, StopRip, StopEnc, CheckDeleteRip, CheckDeleteEnc,
         CheckDropDisc, CheckEject, driveVars, poolVars
<1>3. \/ UNCHANGED userVars
      \/ \E pc \in {"reset", "stopRip", "stopEnc", "deleteRip", "deleteEnc", "dropDisc", "ejectDrop"} :
            GoTo(u, pc, r)
  BY DEF CheckRetry, StopRip, StopEnc, CheckDeleteRip, CheckDeleteEnc, CheckDropDisc, CheckEject
<1>4. PlacesShrink
  BY <1>2, <1>3 DEF PlacesShrink, userVars, GoTo, TypeOK
<1> QED BY <1>1, <1>4, Gentle

(* StartDisc hands out an id nobody has.                                    *)
LEMMA CustodyStart ==
  ASSUME TypeOK, Custody, NEW u \in Users, NEW r \in Rips, CheckStart(u, r)
  PROVE  Custody'
<1>1. /\ rip[r] = "none" /\ enc[r] = "none"
      /\ \A v \in Users : ujob[v] # r
  BY DEF CheckStart, NextId, Custody, RipRows
<1>2. /\ upc' = [upc EXCEPT ![u] = "create"] /\ ujob' = [ujob EXCEPT ![u] = r]
      /\ UNCHANGED <<rip, enc, spool, driveQ, dpc, djob, encQ, wpc, wjob>>
  BY DEF CheckStart, GoTo, rowVars, driveVars, poolVars
<1>3. RipInOnePlace'
  <2>1. \A d \in Drives : \A i \in 1..Len(driveQ[d]) : driveQ[d][i] # r
    BY <1>1 DEF Fills, Custody, RipRows, InHand
  <2>2. \A d \in Drives : HoldsRip(d) => djob[d] # r
    BY <1>1 DEF Fills, Custody, RipRows, InHand
  <2>3. \A v \in Users : Starting(v)' => v = u \/ Starting(v)
    BY <1>2 DEF Starting, TypeOK
  <2>4. ujob'[u] = r /\ \A v \in Users \ {u} : ujob'[v] = ujob[v]
    BY <1>2 DEF TypeOK
  <2>5. \A d \in Drives : HoldsRip(d)' <=> HoldsRip(d)
    BY <1>2 DEF HoldsRip
  <2> QED BY <1>1, <1>2, <2>1, <2>2, <2>3, <2>4, <2>5 DEF Custody, RipInOnePlace
<1>4. EncInOnePlace'
  BY <1>1, <1>2 DEF Custody, EncInOnePlace, HoldsEnc, Retrying, Spawning, TypeOK
<1>5. RipRows'
  BY <1>1, <1>2 DEF Fills, Custody, RipRows, HoldsRip, Starting, InHand, TypeOK
<1>6. EncRows'
  BY <1>1, <1>2 DEF Custody, EncRows, HoldsEnc, Retrying, Spawning, Backed, TypeOK
<1>7. SpoolHeld'
  BY <1>2 DEF Custody, SpoolHeld
<1> QED BY <1>3, <1>4, <1>5, <1>6, <1>7 DEF Custody

(* The row is created by the request that holds the id.                     *)
LEMMA CustodyCreate ==
  ASSUME TypeOK, Custody, NEW u \in Users, CreateRip(u)
  PROVE  Custody'
<1> DEFINE r == ujob[u]
<1>1. /\ r \in Rips /\ rip[r] = "none" /\ enc[r] = "none"
      /\ UNCHANGED <<enc, spool, driveQ, dpc, djob, encQ, wpc, wjob>>
  BY DEF CreateRip, TypeOK, Custody, RipRows, driveVars, poolVars
<1>2. CASE discRow[DiscOf[r]] # "present"
  <2>1. RowsStay
    BY <1>1, <1>2, SameRows DEF CreateRip
  <2>2. PlacesShrink
    BY <1>1, <1>2 DEF CreateRip, Return, GoTo, PlacesShrink, TypeOK
  <2> QED BY <2>1, <2>2, Gentle
<1>3. CASE discRow[DiscOf[r]] = "present"
  <2>1. /\ rip' = [rip EXCEPT ![r] = "queued"]
        /\ upc' = [upc EXCEPT ![u] = "enqueueRip"]
        /\ ujob' = [ujob EXCEPT ![u] = r]
    BY <1>3 DEF CreateRip, GoTo
  <2>2. ujob' = ujob
    BY <2>1 DEF TypeOK
  <2>3. \A v \in Users : Starting(v)' <=> Starting(v)
    BY <2>1 DEF Starting, TypeOK, CreateRip
  <2>4. RipInOnePlace'
    BY <1>1, <2>2, <2>3 DEF Custody, RipInOnePlace, HoldsRip
  <2>5. EncInOnePlace'
    BY <1>1, <2>1, <2>2 DEF Custody, EncInOnePlace, HoldsEnc, Retrying, Spawning, TypeOK
  <2>6. RipRows'
    <3>1. \A q \in Rips : rip[q] \in InHand => rip'[q] \in InHand
      BY <2>1 DEF TypeOK, InHand
    <3>2. \A v \in Users : upc[v] = "create" /\ ujob[v] = r => v = u
      BY DEF Custody, RipInOnePlace, Starting, CreateRip
    <3>3. \A v \in Users : upc'[v] = "create" => upc[v] = "create" /\ v # u
      BY <2>1 DEF TypeOK
    <3>4. rip'[r] = "queued" /\ \A q \in Rips \ {r} : rip'[q] = rip[q]
      BY <1>1, <2>1 DEF TypeOK
    <3>5. \A d \in Drives :
            /\ \A i \in 1..Len(driveQ'[d]) : rip'[driveQ'[d][i]] \in InHand /\ enc'[driveQ'[d][i]] = "none"
            /\ HoldsRip(d)' => rip'[djob'[d]] \in InHand
            /\ dpc'[d] \in {"gate", "load", "ready", "rip", "spawn"} => enc'[djob'[d]] = "none"
            /\ Fills(d)' => djob'[d] \in spool'
      <4>1. \A d \in Drives : HoldsRip(d) => djob[d] \in Rips
        BY DEF HoldsRip, TypeOK, Outcomes
      <4> QED BY <1>1, <3>1, <4>1, TypePlaced, QueuePlaced DEF Fills, Custody, RipRows, HoldsRip
    <3>6. \A v \in Users :
            /\ upc'[v] = "create" => rip'[ujob'[v]] = "none"
            /\ upc'[v] = "enqueueRip" => rip'[ujob'[v]] \in InHand
            /\ Starting(v)' => enc'[ujob'[v]] = "none"
      <4> SUFFICES ASSUME NEW v \in Users
                   PROVE  /\ upc'[v] = "create" => rip'[ujob[v]] = "none"
                          /\ upc'[v] = "enqueueRip" => rip'[ujob[v]] \in InHand
                          /\ Starting(v) => enc[ujob[v]] = "none"
        BY <1>1, <2>2, <2>3
      <4>1. Starting(v) => ujob[v] \in Rips /\ enc[ujob[v]] = "none"
        BY DEF Starting, TypeOK, Custody, RipRows
      <4>2. CASE v = u
        BY <1>1, <2>1, <3>4, <4>1, <4>2 DEF TypeOK, InHand
      <4>3. CASE v # u
        BY <2>1, <3>1, <3>2, <3>4, <4>1, <4>3 DEF TypeOK, Starting, Custody, RipRows
      <4> QED BY <4>2, <4>3
    <3>7. \A q \in Rips : rip'[q] = "none" => enc'[q] = "none"
      BY <1>1, <3>4 DEF Fills, Custody, RipRows
    <3> QED BY <3>5, <3>6, <3>7 DEF RipRows
  <2>7. EncRows'
    BY <1>1, <2>1, <2>2 DEF Custody, EncRows, HoldsEnc, Retrying, Spawning, Backed, TypeOK
  <2>8. SpoolHeld'
    BY <1>1 DEF Custody, SpoolHeld
  <2> QED BY <2>4, <2>5, <2>6, <2>7, <2>8 DEF Custody
<1> QED BY <1>2, <1>3

(* From the request's hands to the end of the drive's queue.                *)
LEMMA CustodyEnqueueRip ==
  ASSUME TypeOK, Custody, NEW u \in Users, EnqueueRip(u)
  PROVE  Custody'
<1> USE TopologyAssumption
<1>0. PICK r \in Rips, e \in Drives : r = ujob[u] /\ e = DriveOf[DiscOf[r]]
  BY DEF EnqueueRip, TypeOK
<1>1. rip[r] \in InHand /\ enc[r] = "none"
  BY <1>0 DEF EnqueueRip, Custody, RipRows, Starting
<1>2. /\ driveQ' = [driveQ EXCEPT ![e] = Append(driveQ[e], r)]
      /\ upc' = [upc EXCEPT ![u] = "idle"] /\ ujob' = [ujob EXCEPT ![u] = NoRip]
      /\ UNCHANGED <<rip, enc, spool, dpc, djob, encQ, wpc, wjob>>
  BY SMTT(30), <1>0 DEF EnqueueRip, GoTo, Return, rowVars, poolVars
<1>3. \A v \in Users : Starting(v)' => Starting(v) /\ v # u /\ ujob'[v] = ujob[v] /\ ujob[v] # r
  BY <1>0, <1>2 DEF Starting, TypeOK, EnqueueRip, Custody, RipInOnePlace
<1>4. \A d \in Drives : driveQ[d] \in Seq(Rips)
  BY DEF TypeOK
<1>5. /\ \A d \in Drives \ {e} : driveQ'[d] = driveQ[d]
      /\ Len(driveQ'[e]) = Len(driveQ[e]) + 1
      /\ \A i \in 1..Len(driveQ[e]) : driveQ'[e][i] = driveQ[e][i] /\ driveQ[e][i] # r
      /\ driveQ'[e][Len(driveQ[e]) + 1] = r
  <2>1. driveQ'[e] = Append(driveQ[e], r) /\ \A d \in Drives \ {e} : driveQ'[d] = driveQ[d]
    BY <1>1, <1>2 DEF TypeOK
  <2>2. \A i \in 1..Len(driveQ[e]) : driveQ[e][i] # r
    BY <1>0 DEF Custody, RipInOnePlace, EnqueueRip, Starting
  <2> QED BY <1>1, <1>4, <2>1, <2>2
<1>6. RipInOnePlace'
  <2>1. \A d \in Drives : HoldsRip(d)' <=> HoldsRip(d)
    BY <1>2 DEF HoldsRip
  <2>2. \A d \in Drives : HoldsRip(d) => djob[d] # r
    BY <1>0 DEF Custody, RipInOnePlace, EnqueueRip, Starting
  <2>3. ASSUME NEW d \in Drives, NEW i \in 1..Len(driveQ'[d])
        PROVE  /\ DriveOf[DiscOf[driveQ'[d][i]]] = d
               /\ \A j \in 1..Len(driveQ'[d]) : driveQ'[d][i] = driveQ'[d][j] => i = j
               /\ HoldsRip(d)' => driveQ'[d][i] # djob'[d]
               /\ \A v \in Users : Starting(v)' => driveQ'[d][i] # ujob'[v]
    <3>1. CASE d # e
      BY <1>2, <1>3, <1>5, <2>1, <3>1 DEF Custody, RipInOnePlace
    <3>2. CASE d = e
      <4> DEFINE n == Len(driveQ[e])
      <4>1. n \in Nat /\ Len(driveQ'[e]) = n + 1
        BY <1>1, <1>4, <1>5
      <4>2. \A k \in 1..Len(driveQ'[e]) : k \in 1..n \/ k = n + 1
        BY <4>1
      <4>3. DriveOf[DiscOf[driveQ'[e][i]]] = e
        <5>1. \A k \in 1..n : DriveOf[DiscOf[driveQ[e][k]]] = e
          BY DEF Custody, RipInOnePlace
        <5>2. i \in 1..n \/ i = n + 1
          BY <3>2, <4>2
        <5>3. CASE i \in 1..n
          BY SMTT(30), <1>5, <5>1, <5>3
        <5>4. CASE i = n + 1
          BY <1>0, <1>5, <5>4
        <5> QED BY <5>2, <5>3, <5>4
      <4>4. \A j \in 1..Len(driveQ'[e]) : driveQ'[e][i] = driveQ'[e][j] => i = j
        <5> SUFFICES ASSUME NEW j \in 1..Len(driveQ'[e]), driveQ'[e][i] = driveQ'[e][j]
                     PROVE  i = j
          OBVIOUS
        <5>1. CASE i \in 1..n /\ j \in 1..n
          <6>1. driveQ[e][i] = driveQ[e][j]
            BY <1>5, <5>1
          <6> QED BY <5>1, <6>1 DEF Custody, RipInOnePlace
        <5>2. CASE i = n + 1 \/ j = n + 1
          BY <1>5, <3>2, <4>2, <5>2
        <5> QED BY <3>2, <4>2, <5>1, <5>2
      <4>5. HoldsRip(e)' => driveQ'[e][i] # djob'[e]
        BY <1>1, <1>2, <1>5, <2>1, <2>2, <3>2, <4>2 DEF Custody, RipInOnePlace
      <4>6. \A v \in Users : Starting(v)' => driveQ'[e][i] # ujob'[v]
        BY SMTT(30), <1>1, <1>3, <1>5, <3>2, <4>2 DEF Custody, RipInOnePlace
      <4> QED BY <3>2, <4>3, <4>4, <4>5, <4>6
    <3> QED BY <3>1, <3>2
  <2>4. \A d \in Drives : HoldsRip(d)' =>
          /\ DriveOf[DiscOf[djob'[d]]] = d
          /\ \A v \in Users : Starting(v)' => djob'[d] # ujob'[v]
    BY <1>2, <1>3, <2>1 DEF Custody, RipInOnePlace
  <2>5. \A v, w \in Users : Starting(v)' /\ Starting(w)' /\ ujob'[v] = ujob'[w] => v = w
    BY <1>3 DEF Custody, RipInOnePlace
  <2> QED BY <2>3, <2>4, <2>5 DEF RipInOnePlace
<1>7. EncInOnePlace'
  <2>1. \A v \in Users : Retrying(v)' => Retrying(v) /\ ujob'[v] = ujob[v]
    BY <1>2 DEF Retrying, TypeOK
  <2>2. EncInOnePlace
    BY DEF Custody
  <2> QED BY <1>2, <2>1, <2>2 DEF EncInOnePlace, HoldsEnc, Spawning
<1>8. RipRows'
  <2>1. ASSUME NEW d \in Drives, NEW i \in 1..Len(driveQ'[d])
        PROVE  rip'[driveQ'[d][i]] \in InHand /\ enc'[driveQ'[d][i]] = "none"
    <3>1. Len(driveQ[e]) \in Nat
      BY <1>1, <1>4
    <3> QED BY <1>1, <1>2, <1>5, <3>1 DEF Fills, Custody, RipRows
  <2>2. \A d \in Drives :
          /\ HoldsRip(d)' => rip'[djob'[d]] \in InHand
          /\ dpc'[d] \in {"gate", "load", "ready", "rip", "spawn"} => enc'[djob'[d]] = "none"
          /\ Fills(d)' => djob'[d] \in spool'
    BY <1>2 DEF Fills, Custody, RipRows, HoldsRip
  <2>3. \A v \in Users :
          /\ upc'[v] = "create" => rip'[ujob'[v]] = "none"
          /\ upc'[v] = "enqueueRip" => rip'[ujob'[v]] \in InHand
          /\ Starting(v)' => enc'[ujob'[v]] = "none"
    BY <1>2, <1>3 DEF Fills, Custody, RipRows, Starting, TypeOK
  <2> QED BY <1>2, <2>1, <2>2, <2>3 DEF Fills, Custody, RipRows
<1>9. EncRows' /\ SpoolHeld'
  BY <1>2 DEF Custody, EncRows, HoldsEnc, Retrying, Spawning, Backed, TypeOK, SpoolHeld
<1> QED BY <1>6, <1>7, <1>8, <1>9 DEF Custody
(* A Stop that only writes the row, and the deletions that leave the spool. *)
LEMMA CustodyRowOnly ==
  ASSUME TypeOK, Custody, NEW u \in Users,
         StopRipRow(u) \/ StopEncRow(u) \/ DeleteRipJob(u) \/ DropDisc(u)
  PROVE  Custody'
<1>0. PICK r \in Rips : r = ujob[u]
  BY DEF StopRipRow, StopEncRow, DeleteRipJob, DropDisc, TypeOK
<1>1. RowsStay
  <2>1. CASE StopRipRow(u)
    BY <1>0, <2>1, StopStays DEF StopRipRow
  <2>2. CASE StopEncRow(u)
    BY <1>0, <2>2, StopStays DEF StopEncRow
  <2>3. CASE DeleteRipJob(u)
    BY <2>3, DeleteStays DEF DeleteRipJob
  <2>4. CASE DropDisc(u)
    BY <2>4, DeleteStays DEF DropDisc
  <2> QED BY <2>1, <2>2, <2>3, <2>4
<1>2. driveQ' = driveQ /\ dpc' = dpc /\ djob' = djob /\ encQ' = encQ /\ wpc' = wpc /\ wjob' = wjob
  BY DEF StopRipRow, StopEncRow, DeleteRipJob, DropDisc, driveVars, poolVars
<1>3. GoTo(u, "idle", NoRip)
  BY DEF StopRipRow, StopEncRow, DeleteRipJob, DropDisc, Return
<1>4. PlacesShrink
  BY <1>2, <1>3 DEF PlacesShrink, GoTo, TypeOK
<1> QED BY <1>1, <1>4, Gentle

(* A retry takes a transcode that nobody holds, since its row says failed   *)
(* or interrupted, and whose directory is held.                             *)
LEMMA CustodyReset ==
  ASSUME TypeOK, Custody, NEW u \in Users, ResetTranscodeJob(u)
  PROVE  Custody'
<1>0. PICK r \in Rips : r = ujob[u]
  BY DEF ResetTranscodeJob, TypeOK
<1>1. UNCHANGED <<rip, spool, driveQ, dpc, djob, encQ, wpc, wjob>>
  BY DEF ResetTranscodeJob, driveVars, poolVars
<1>2. CASE enc[r] \notin Retryable
  <2>1. RowsStay
    BY <1>0, <1>1, <1>2, SameRows DEF ResetTranscodeJob
  <2>2. PlacesShrink
    BY <1>0, <1>1, <1>2 DEF ResetTranscodeJob, Return, GoTo, PlacesShrink, TypeOK
  <2> QED BY <2>1, <2>2, Gentle
<1>3. CASE enc[r] \in Retryable
  <2>1. /\ enc' = [enc EXCEPT ![r] = "queued"]
        /\ upc' = [upc EXCEPT ![u] = "enqueueEnc"] /\ ujob' = ujob
    BY <1>0, <1>3 DEF ResetTranscodeJob, GoTo, TypeOK
  <2>2. /\ enc'[r] = "queued" /\ \A q \in Rips \ {r} : enc'[q] = enc[q]
        /\ enc[r] \notin {"none", "done", "deleted"} /\ enc[r] \notin InHand /\ r \in spool
    BY <1>3, <2>1 DEF TypeOK, Custody, SpoolHeld, Retryable, InHand
  <2>3. /\ \A i \in 1..Len(encQ) : encQ[i] \in Rips \ {r}
        /\ \A w \in Workers : HoldsEnc(w) => wjob[w] \in Rips \ {r}
        /\ \A d \in Drives : Spawning(d) => djob[d] \in Rips \ {r}
        /\ \A v \in Users : Retrying(v) => ujob[v] \in Rips \ {r}
    <3>1. \A i \in 1..Len(encQ) : encQ[i] \in Rips \ {r}
      BY <2>2, TypePlaced, QueuePlaced DEF Custody, EncRows, Backed
    <3>2. \A w \in Workers : HoldsEnc(w) => wjob[w] \in Rips \ {r}
      BY ZenonT(60), <2>2 DEF Custody, EncRows, Backed, TypeOK, HoldsEnc, Outcomes
    <3>3. \A d \in Drives : Spawning(d) => djob[d] \in Rips \ {r}
      BY <2>2 DEF Custody, EncRows, Backed, TypeOK, Spawning
    <3>4. \A v \in Users : Retrying(v) => ujob[v] \in Rips \ {r}
      BY <2>2 DEF Custody, EncRows, Backed, TypeOK, Retrying
    <3> QED BY <3>1, <3>2, <3>3, <3>4
  <2>4. \A v \in Users : Retrying(v)' <=> v = u \/ Retrying(v)
    BY <2>1 DEF Retrying, TypeOK
  <2>5. \A v \in Users : Starting(v)' <=> Starting(v)
    BY <2>1 DEF Starting, TypeOK, ResetTranscodeJob
  <2>6. RipInOnePlace'
    BY <1>1, <2>1, <2>5 DEF Custody, RipInOnePlace, HoldsRip
  <2>7. EncInOnePlace'
    <3>1. /\ \A w \in Workers : HoldsEnc(w)' <=> HoldsEnc(w)
          /\ \A d \in Drives : Spawning(d)' <=> Spawning(d)
      BY <1>1 DEF HoldsEnc, Spawning
    <3> QED BY <1>0, <1>1, <2>1, <2>3, <2>4, <3>1 DEF Custody, EncInOnePlace
  <2>8. RipRows'
    <3>1. \A q \in Rips : enc[q] = "none" => enc'[q] = "none"
      BY <2>2
    <3>2. \A d \in Drives :
            /\ \A i \in 1..Len(driveQ'[d]) : rip'[driveQ'[d][i]] \in InHand /\ enc'[driveQ'[d][i]] = "none"
            /\ HoldsRip(d)' => rip'[djob'[d]] \in InHand
            /\ dpc'[d] \in {"gate", "load", "ready", "rip", "spawn"} => enc'[djob'[d]] = "none"
            /\ Fills(d)' => djob'[d] \in spool'
      BY ZenonT(60), <1>1, <3>1, TypePlaced, QueuePlaced DEF Fills, Custody, RipRows, HoldsRip, TypeOK
    <3>3. \A v \in Users :
            /\ upc'[v] = "create" => upc[v] = "create"
            /\ upc'[v] = "enqueueRip" => upc[v] = "enqueueRip"
      BY <2>1 DEF TypeOK
    <3>4. \A v \in Users : Starting(v) => ujob[v] \in Rips
      BY DEF Starting, TypeOK
    <3> QED BY <1>1, <2>1, <2>5, <3>1, <3>2, <3>3, <3>4 DEF Fills, Custody, RipRows
  <2>9. EncRows'
    <3>1. \A q \in Rips \ {r} : enc'[q] = enc[q] /\ (Backed(q) => enc'[q] \in InHand /\ (enc'[q] # "deleted" => q \in spool'))
      BY <1>1, <2>2 DEF Backed
    <3>2. \A i \in 1..Len(encQ') : Backed(encQ[i])'
      BY <1>1, <2>3, <3>1 DEF Custody, EncRows, Backed
    <3>3. \A w \in Workers :
            /\ HoldsEnc(w)' /\ wpc'[w] # "cleanup" => Backed(wjob[w])'
            /\ wpc'[w] = "cleanup" => enc'[wjob'[w]] \in {"done", "deleted"}
      BY <1>1, <2>3, <3>1 DEF Custody, EncRows, Backed, HoldsEnc
    <3>4. \A d \in Drives : Spawning(d)' => Backed(djob[d])'
      BY <1>1, <2>3, <3>1 DEF Custody, EncRows, Backed, Spawning
    <3>5. \A v \in Users :
            /\ Retrying(v)' => Backed(ujob[v])'
            /\ upc'[v] = "cleanSpool" => enc'[ujob'[v]] = "deleted"
      <4>1. enc'[r] \in InHand /\ r \in spool'
        BY <1>1, <2>2 DEF InHand
      <4>2. \A v \in Users : Retrying(v)' => Backed(ujob[v])'
        BY <1>0, <1>1, <2>1, <2>3, <2>4, <3>1, <4>1 DEF Custody, EncRows, Backed
      <4>3. \A v \in Users : upc'[v] = "cleanSpool" => ujob[v] \in Rips \ {r} /\ enc[ujob[v]] = "deleted"
        BY <2>1, <2>2 DEF TypeOK, Custody, EncRows
      <4> QED BY <2>1, <2>2, <4>2, <4>3
    <3> QED BY <3>2, <3>3, <3>4, <3>5 DEF EncRows
  <2>10. SpoolHeld'
    BY <1>1, <2>2 DEF Custody, SpoolHeld
  <2> QED BY <2>6, <2>7, <2>8, <2>9, <2>10 DEF Custody
<1> QED BY <1>2, <1>3
(* The ends of a queue.                                                     *)
LEMMA AppendAt ==
  ASSUME NEW S, NEW q \in Seq(S), NEW x \in S
  PROVE  /\ Len(q) \in Nat /\ Len(Append(q, x)) = Len(q) + 1
         /\ \A i \in 1..Len(q) : Append(q, x)[i] = q[i]
         /\ Append(q, x)[Len(q) + 1] = x
         /\ \A i \in 1..Len(Append(q, x)) : i \in 1..Len(q) \/ i = Len(q) + 1
<1>1. Len(q) \in Nat /\ Len(Append(q, x)) = Len(q) + 1
  OBVIOUS
<1> QED BY <1>1

(* What is left in a queue has moved up by one.                             *)
LEMMA TailAt ==
  ASSUME NEW S, NEW q \in Seq(S), q # <<>>
  PROVE  /\ 1 \in 1..Len(q) /\ Head(q) = q[1]
         /\ \A i \in 1..Len(Tail(q)) : i + 1 \in 1..Len(q) /\ i + 1 # 1 /\ Tail(q)[i] = q[i + 1]
<1>1. Len(q) \in Nat /\ Len(q) # 0 /\ Len(Tail(q)) = Len(q) - 1
  OBVIOUS
<1>2. \A i \in 1..Len(Tail(q)) : i + 1 \in 1..Len(q) /\ i + 1 # 1
  BY <1>1
<1> QED BY <1>1, <1>2

(* A transcode is appended by the one that had it, and is let go of.        *)
LEMMA CustodyAppend ==
  ASSUME TypeOK, Custody, NEW r \in Rips, encQ' = Append(encQ, r), Backed(r),
         enc' = enc, spool' = spool, wpc' = wpc, wjob' = wjob,
         \A i \in 1..Len(encQ) : encQ[i] # r,
         \A w \in Workers : HoldsEnc(w) => wjob[w] # r,
         \A d \in Drives : Spawning(d)' => Spawning(d) /\ djob'[d] = djob[d] /\ djob[d] # r,
         \A u \in Users : Retrying(u)' => Retrying(u) /\ ujob'[u] = ujob[u] /\ ujob[u] # r,
         \A u \in Users : upc'[u] = "cleanSpool" => upc[u] = "cleanSpool" /\ ujob'[u] = ujob[u]
  PROVE  EncInOnePlace' /\ EncRows'
<1> DEFINE n == Len(encQ)
           m == Len(encQ')
<1>1. /\ n \in Nat /\ m = n + 1
      /\ \A i \in 1..n : encQ'[i] = encQ[i]
      /\ encQ'[n + 1] = r
      /\ \A i \in 1..m : i \in 1..n \/ i = n + 1
  BY AppendAt DEF TypeOK
<1>2. \A w \in Workers : HoldsEnc(w)' <=> HoldsEnc(w)
  BY DEF HoldsEnc
<1>3. \A q \in Rips : Backed(q) => enc'[q] \in InHand /\ (enc'[q] # "deleted" => q \in spool')
  BY DEF Backed
<1>4. \A i \in 1..m :
       /\ \A j \in 1..m : encQ'[i] = encQ'[j] => i = j
       /\ \A w \in Workers : HoldsEnc(w)' => encQ'[i] # wjob'[w]
       /\ \A d \in Drives : Spawning(d)' => encQ'[i] # djob'[d]
       /\ \A u \in Users : Retrying(u)' => encQ'[i] # ujob'[u]
  <2> SUFFICES ASSUME NEW i \in 1..m
               PROVE  /\ \A j \in 1..m : encQ'[i] = encQ'[j] => i = j
                      /\ \A w \in Workers : HoldsEnc(w) => encQ'[i] # wjob[w]
                      /\ \A d \in Drives : Spawning(d)' => encQ'[i] # djob[d]
                      /\ \A u \in Users : Retrying(u)' => encQ'[i] # ujob[u]
    BY <1>2
  <2>1. CASE i \in 1..n
    BY <1>1, <2>1 DEF Custody, EncInOnePlace
  <2>2. CASE i = n + 1
    BY <1>1, <2>2 DEF Custody, EncInOnePlace
  <2> QED BY <1>1, <2>1, <2>2
<1>5. EncInOnePlace'
  BY <1>2, <1>4 DEF Custody, EncInOnePlace
<1>6. \A i \in 1..m : Backed(encQ[i])'
  <2>1. \A i \in 1..n : Backed(encQ[i])
    BY DEF Custody, EncRows
  <2> QED BY <1>1, <2>1 DEF Backed
<1>7. EncRows'
  BY <1>2, <1>6 DEF Custody, EncRows, Backed
<1> QED BY <1>5, <1>7

(* A retry reaches the pool's queue.                                        *)
LEMMA CustodyEnqueueEnc ==
  ASSUME TypeOK, Custody, NEW u \in Users, EnqueueEnc(u)
  PROVE  Custody'
<1>0. PICK r \in Rips : r = ujob[u]
  BY DEF EnqueueEnc, TypeOK
<1>1. /\ encQ' = Append(encQ, r) /\ upc' = [upc EXCEPT ![u] = "idle"] /\ ujob' = [ujob EXCEPT ![u] = NoRip]
      /\ UNCHANGED <<rip, enc, spool, driveQ, dpc, djob, wpc, wjob>>
  BY <1>0 DEF EnqueueEnc, Return, GoTo, rowVars, driveVars
<1>2. Retrying(u) /\ \A v \in Users \ {u} : upc'[v] = upc[v] /\ ujob'[v] = ujob[v]
  BY <1>1 DEF EnqueueEnc, Retrying, TypeOK
<1>3. upc'[u] = "idle"
  BY <1>1 DEF TypeOK
<1>4. EncInOnePlace' /\ EncRows'
  <2>1. Backed(r) /\ \A i \in 1..Len(encQ) : encQ[i] # r
    BY <1>0, <1>2 DEF Custody, EncRows, EncInOnePlace
  <2>2. \A w \in Workers : HoldsEnc(w) => wjob[w] # r
    BY <1>0, <1>2 DEF Custody, EncInOnePlace
  <2>3. \A d \in Drives : Spawning(d)' => Spawning(d) /\ djob'[d] = djob[d] /\ djob[d] # r
    BY <1>0, <1>1, <1>2 DEF Custody, EncInOnePlace, Spawning
  <2>4. \A v \in Users : Retrying(v)' => Retrying(v) /\ ujob'[v] = ujob[v] /\ ujob[v] # r
    BY <1>0, <1>2, <1>3 DEF Custody, EncInOnePlace, Retrying
  <2>5. \A v \in Users : upc'[v] = "cleanSpool" => upc[v] = "cleanSpool" /\ ujob'[v] = ujob[v]
    BY <1>2, <1>3
  <2> QED BY <1>1, <2>1, <2>2, <2>3, <2>4, <2>5, CustodyAppend
<1>5. RipInOnePlace' /\ RipRows'
  <2>1. \A v \in Users : Starting(v)' => Starting(v) /\ upc'[v] = upc[v] /\ ujob'[v] = ujob[v]
    BY <1>2, <1>3 DEF Starting
  <2>2. RipInOnePlace'
    BY <1>1, <2>1 DEF Custody, RipInOnePlace, HoldsRip
  <2>3. RipRows'
    BY <1>1, <2>1 DEF Fills, Custody, RipRows, HoldsRip, Starting
  <2> QED BY <2>2, <2>3
<1>6. SpoolHeld'
  BY <1>1 DEF Custody, SpoolHeld
<1> QED BY <1>4, <1>5, <1>6 DEF Custody

(* DeleteJob of a transcode: the row first, so that the directory is        *)
(* nobody's any more when CleanSpool removes it.                            *)
LEMMA CustodyDeleteEnc ==
  ASSUME TypeOK, Custody, NEW u \in Users, DeleteEncJob(u)
  PROVE  Custody'
<1>0. PICK r \in Rips : r = ujob[u]
  BY DEF DeleteEncJob, TypeOK
<1>1. UNCHANGED <<spool, driveQ, dpc, djob, encQ, wpc, wjob>>
  BY DEF DeleteEncJob, driveVars, poolVars
<1>2. CASE enc[r] \notin Stored
  <2>1. RowsStay
    BY <1>0, <1>1, <1>2, SameRows DEF DeleteEncJob, rowVars
  <2>2. PlacesShrink
    BY <1>0, <1>1, <1>2 DEF DeleteEncJob, Return, GoTo, PlacesShrink, TypeOK
  <2> QED BY <2>1, <2>2, Gentle
<1>3. CASE enc[r] \in Stored
  <2>1. DeleteRows({x \in Orphaned({}, {r}) : x = DiscOf[r]}, {}, {r})
    BY <1>0, <1>3 DEF DeleteEncJob
  <2>2. RowsStay
    BY <1>1, <2>1, DeleteStays
  <2>3. enc'[r] = "deleted"
    BY <1>3, <2>1 DEF DeleteRows, DeleteJobs, TypeOK
  <2>4. upc' = [upc EXCEPT ![u] = "cleanSpool"] /\ ujob' = ujob
    BY <1>0, <1>3 DEF DeleteEncJob, GoTo, TypeOK
  <2>5. RipInOnePlace' /\ EncInOnePlace'
    BY <1>1, <2>4 DEF Custody, RipInOnePlace, EncInOnePlace, HoldsRip, HoldsEnc, Starting,
                      Retrying, Spawning, TypeOK
  <2>6. \A v \in Users \ {u} : upc'[v] = upc[v]
    BY <2>4 DEF TypeOK
  <2>7. upc'[u] = "cleanSpool"
    BY <2>4 DEF TypeOK
  <2>8. RipRows'
    <3>1. \A q \in Rips : /\ rip[q] = "none" <=> rip'[q] = "none"
                          /\ rip[q] \in InHand => rip'[q] \in InHand
                          /\ enc[q] = "none" <=> enc'[q] = "none"
      BY <2>2 DEF RowsStay
    <3>2. \A d \in Drives : /\ HoldsRip(d)' <=> HoldsRip(d)
                            /\ HoldsRip(d) => djob[d] \in Rips
                            /\ dpc[d] \in {"gate", "load", "ready", "rip", "spawn"} => djob[d] \in Rips
      BY <1>1 DEF HoldsRip, TypeOK, Outcomes
    <3>3. \A d \in Drives :
            /\ \A i \in 1..Len(driveQ'[d]) : rip'[driveQ'[d][i]] \in InHand /\ enc'[driveQ'[d][i]] = "none"
            /\ HoldsRip(d)' => rip'[djob'[d]] \in InHand
            /\ dpc'[d] \in {"gate", "load", "ready", "rip", "spawn"} => enc'[djob'[d]] = "none"
            /\ Fills(d)' => djob'[d] \in spool'
      BY <1>1, <3>1, <3>2, TypePlaced, QueuePlaced DEF Fills, Custody, RipRows
    <3>4. \A v \in Users : Starting(v)' => Starting(v) /\ upc'[v] = upc[v] /\ ujob[v] \in Rips
      BY <2>6, <2>7 DEF Starting, TypeOK
    <3>5. \A v \in Users :
            /\ upc'[v] = "create" => rip'[ujob'[v]] = "none"
            /\ upc'[v] = "enqueueRip" => rip'[ujob'[v]] \in InHand
            /\ Starting(v)' => enc'[ujob'[v]] = "none"
      BY <2>4, <3>1, <3>4 DEF Fills, Custody, RipRows, Starting
    <3> QED BY <3>1, <3>3, <3>5 DEF Fills, Custody, RipRows
  <2>9. EncRows'
    <3>1. \A q \in Rips : Backed(q) => enc'[q] \in InHand /\ (enc'[q] # "deleted" => q \in spool')
      BY <1>1, <2>2 DEF Backed, RowsStay
    <3>2. \A i \in 1..Len(encQ') : Backed(encQ[i])'
      BY <1>1, <3>1, TypePlaced, QueuePlaced DEF Custody, EncRows, Backed
    <3>3. \A w \in Workers :
            /\ HoldsEnc(w)' /\ wpc'[w] # "cleanup" => Backed(wjob[w])'
            /\ wpc'[w] = "cleanup" => enc'[wjob'[w]] \in {"done", "deleted"}
      <4>1. \A w \in Workers : HoldsEnc(w) => wjob[w] \in Rips
        BY DEF HoldsEnc, TypeOK, Outcomes
      <4>2. \A w \in Workers : (HoldsEnc(w)' <=> HoldsEnc(w)) /\ (wpc[w] = "cleanup" => HoldsEnc(w))
        BY <1>1 DEF HoldsEnc
      <4> QED BY <1>1, <2>2, <3>1, <4>1, <4>2 DEF Custody, EncRows, Backed, RowsStay
    <3>4. \A d \in Drives : Spawning(d)' => Backed(djob[d])'
      BY <1>1, <3>1 DEF Custody, EncRows, Backed, Spawning, TypeOK
    <3>5. \A v \in Users :
            /\ Retrying(v)' => Backed(ujob[v])'
            /\ upc'[v] = "cleanSpool" => enc'[ujob'[v]] = "deleted"
      <4>1. \A v \in Users \ {u} : upc[v] = "cleanSpool" => enc'[ujob[v]] = "deleted"
        BY <2>2 DEF Custody, EncRows, RowsStay, TypeOK
      <4>2. \A v \in Users : Retrying(v)' => Backed(ujob[v])'
        BY <2>4, <2>6, <2>7, <3>1 DEF Custody, EncRows, Backed, Retrying, TypeOK
      <4> QED BY <1>0, <2>3, <2>4, <2>6, <4>1, <4>2
    <3> QED BY <3>2, <3>3, <3>4, <3>5 DEF EncRows
  <2>10. SpoolHeld'
    BY <2>2, GentleSpool DEF Custody
  <2> QED BY <2>5, <2>8, <2>9, <2>10 DEF Custody
<1> QED BY <1>2, <1>3

(* Taking away the directory of a transcode that is done or deleted, or of  *)
(* a rip that has left no transcode and is not about to.                    *)
LEMMA RemovalKeeps ==
  ASSUME Custody, NEW r \in Rips, spool' = spool \ {r}, rip' = rip, enc' = enc,
         enc[r] \in {"none", "done", "deleted"}
  PROVE  /\ SpoolHeld'
         /\ \A q \in Rips : Backed(q) => enc'[q] \in InHand /\ (enc'[q] # "deleted" => q \in spool')
<1>1. SpoolHeld'
  BY DEF Custody, SpoolHeld, Active, Retryable
<1>2. \A q \in Rips : Backed(q) => enc'[q] \in InHand /\ (enc'[q] # "deleted" => q \in spool')
  BY DEF Backed, InHand
<1> QED BY <1>1, <1>2
(* DeleteJob's clean-up: the row is gone, nobody needs the directory.       *)
LEMMA CustodyCleanSpool ==
  ASSUME TypeOK, Custody, NEW u \in Users, CleanSpool(u)
  PROVE  Custody'
<1>0. PICK r \in Rips : r = ujob[u]
  BY DEF CleanSpool, TypeOK
<1>1. /\ spool' = spool \ {r} /\ upc' = [upc EXCEPT ![u] = "idle"] /\ ujob' = [ujob EXCEPT ![u] = NoRip]
      /\ UNCHANGED <<rip, enc, driveQ, dpc, djob, encQ, wpc, wjob>>
  BY <1>0 DEF CleanSpool, Return, GoTo, rowVars, driveVars, poolVars
<1>2. enc[r] = "deleted"
  BY <1>0 DEF CleanSpool, Custody, EncRows
<1>3. PlacesShrink
  BY <1>1 DEF PlacesShrink, TypeOK
<1>4. RipInOnePlace' /\ EncInOnePlace'
  BY <1>3, GentleRipPlaces, GentleEncPlaces DEF Custody
<1>5. /\ SpoolHeld'
      /\ \A q \in Rips : Backed(q) => enc'[q] \in InHand /\ (enc'[q] # "deleted" => q \in spool')
  BY <1>1, <1>2, RemovalKeeps
<1>6. \A v \in Users : \/ upc'[v] = upc[v] /\ ujob'[v] = ujob[v]
                       \/ upc'[v] = "idle"
  BY <1>1 DEF TypeOK
<1>7. RipRows'
  <2>1. \A d \in Drives : Fills(d) => djob[d] # r
    BY <1>2 DEF Fills, Custody, RipRows
  <2> QED BY <1>1, <1>6, <2>1 DEF Fills, Custody, RipRows, HoldsRip, Starting
<1>8. EncRows'
  <2>1. \A i \in 1..Len(encQ) : Backed(encQ[i])'
    BY <1>1, <1>5, TypePlaced, QueuePlaced DEF Custody, EncRows, Backed
  <2>2. \A w \in Workers :
          /\ HoldsEnc(w)' /\ wpc'[w] # "cleanup" => Backed(wjob[w])'
          /\ wpc'[w] = "cleanup" => enc'[wjob'[w]] \in {"done", "deleted"}
    BY <1>1, <1>5 DEF Custody, EncRows, Backed, HoldsEnc, TypeOK, Outcomes
  <2>3. \A d \in Drives : Spawning(d)' => Backed(djob[d])'
    BY <1>1, <1>5 DEF Custody, EncRows, Backed, Spawning, TypeOK
  <2>4. \A v \in Users :
          /\ Retrying(v)' => Backed(ujob[v])'
          /\ upc'[v] = "cleanSpool" => enc'[ujob'[v]] = "deleted"
    BY <1>1, <1>5, <1>6 DEF Custody, EncRows, Backed, Retrying, TypeOK
  <2> QED BY <1>1, <2>1, <2>2, <2>3, <2>4 DEF EncRows
<1> QED BY <1>4, <1>5, <1>7, <1>8 DEF Custody

-----------------------------------------------------------------------------
(* Workers of drives.                                                       *)

(* A worker that stays with its job, or is through with it.                 *)
LEMMA DrivePlaces ==
  ASSUME TypeOK, Custody, NEW d \in Drives, NEW pc, HoldsRip(d),
         dpc' = [dpc EXCEPT ![d] = pc], djob' = djob, driveQ' = driveQ,
         upc' = upc, ujob' = ujob
  PROVE  RipInOnePlace'
<1>1. \A e \in Drives : HoldsRip(e)' => HoldsRip(e)
  BY DEF HoldsRip, TypeOK
<1> QED BY <1>1 DEF Custody, RipInOnePlace, Starting

(* A drive that moves on, other than to the pool's queue, takes no transcode. *)
LEMMA DriveEncPlaces ==
  ASSUME TypeOK, Custody, NEW d \in Drives, NEW pc, pc # "enqueue",
         dpc' = [dpc EXCEPT ![d] = pc], djob' = djob, encQ' = encQ, wpc' = wpc, wjob' = wjob,
         upc' = upc, ujob' = ujob
  PROVE  EncInOnePlace'
<1>1. \A e \in Drives : Spawning(e)' => Spawning(e)
  BY DEF Spawning, TypeOK
<1> QED BY <1>1 DEF Custody, EncInOnePlace, HoldsEnc, Retrying

(* It touches the rows and the directory of its own job only, and no one    *)
(* else has that job.                                                       *)
LEMMA DriveRipRows ==
  ASSUME TypeOK, Custody, NEW d \in Drives, NEW r \in Rips, r = djob[d], HoldsRip(d), NEW pc,
         dpc' = [dpc EXCEPT ![d] = pc], djob' = djob, driveQ' = driveQ,
         upc' = upc, ujob' = ujob,
         \A q \in Rips \ {r} : rip'[q] = rip[q] /\ enc'[q] = enc[q] /\ (q \in spool => q \in spool'),
         HoldsRip(d)' => rip'[r] \in InHand,
         pc \in {"gate", "load", "ready", "rip", "spawn"} => enc'[r] = "none",
         pc = "spawn" \/ (pc = "rip" /\ r \in SplitRips) => r \in spool',
         rip'[r] # "none"
  PROVE  RipRows'
<1>1. \A e \in Drives : \A i \in 1..Len(driveQ[e]) : driveQ[e][i] \in Rips \ {r}
  BY TypePlaced, QueuePlaced DEF Custody, RipInOnePlace
<1>2. \A e \in Drives \ {d} :
        /\ dpc'[e] = dpc[e] /\ (HoldsRip(e)' <=> HoldsRip(e))
        /\ HoldsRip(e) => djob[e] \in Rips \ {r}
  <2>1. \A e \in Drives \ {d} : dpc'[e] = dpc[e]
    BY DEF TypeOK
  <2>2. \A e \in Drives \ {d} : HoldsRip(e)' <=> HoldsRip(e)
    BY <2>1 DEF HoldsRip
  <2>3. \A e \in Drives : HoldsRip(e) => djob[e] \in Rips
    BY DEF HoldsRip, TypeOK, Outcomes
  <2>4. \A e \in Drives \ {d} : HoldsRip(e) => djob[e] # r
    BY DEF Custody, RipInOnePlace
  <2> QED BY <2>1, <2>2, <2>3, <2>4
<1>3. \A u \in Users : Starting(u) => ujob[u] \in Rips \ {r}
  BY DEF Custody, RipInOnePlace, Starting, TypeOK
<1>4. dpc'[d] = pc
  BY DEF TypeOK
<1>5. \A e \in Drives :
        /\ HoldsRip(e)' => rip'[djob'[e]] \in InHand
        /\ dpc'[e] \in {"gate", "load", "ready", "rip", "spawn"} => enc'[djob'[e]] = "none"
        /\ Fills(e)' => djob'[e] \in spool'
  <2> SUFFICES ASSUME NEW e \in Drives
               PROVE  /\ HoldsRip(e)' => rip'[djob'[e]] \in InHand
                      /\ dpc'[e] \in {"gate", "load", "ready", "rip", "spawn"} => enc'[djob'[e]] = "none"
                      /\ Fills(e)' => djob'[e] \in spool'
    OBVIOUS
  <2>1. CASE e = d
    <3>1. Fills(d)' => pc = "spawn" \/ (pc = "rip" /\ r \in SplitRips)
      BY <1>4 DEF Fills
    <3> QED BY <1>4, <2>1, <3>1
  <2>2. CASE e # d
    <3>1. dpc[e] \in {"gate", "load", "ready", "rip", "spawn"} => HoldsRip(e)
      BY DEF HoldsRip
    <3>2. Fills(e)' => Fills(e) /\ HoldsRip(e)
      BY <1>2, <2>2 DEF Fills, HoldsRip
    <3> QED BY <1>2, <2>2, <3>1, <3>2 DEF Custody, RipRows
  <2> QED BY <2>1, <2>2
<1>6. \A e \in Drives : \A i \in 1..Len(driveQ'[e]) :
        rip'[driveQ'[e][i]] \in InHand /\ enc'[driveQ'[e][i]] = "none"
  BY <1>1 DEF Fills, Custody, RipRows
<1>7. \A u \in Users :
        /\ upc'[u] = "create" => rip'[ujob'[u]] = "none"
        /\ upc'[u] = "enqueueRip" => rip'[ujob'[u]] \in InHand
        /\ Starting(u)' => enc'[ujob'[u]] = "none"
  BY <1>3 DEF Fills, Custody, RipRows, Starting
<1>8. \A q \in Rips : rip'[q] = "none" => enc'[q] = "none"
  BY DEF Fills, Custody, RipRows
<1> QED BY <1>5, <1>6, <1>7, <1>8 DEF RipRows

(* No transcode is written and none loses its directory.                    *)
LEMMA DriveEncRows ==
  ASSUME TypeOK, Custody, NEW d \in Drives, NEW pc, pc # "enqueue",
         dpc' = [dpc EXCEPT ![d] = pc], djob' = djob, encQ' = encQ, wpc' = wpc, wjob' = wjob,
         upc' = upc, ujob' = ujob, enc' = enc,
         \A q \in Rips : Backed(q) /\ enc[q] # "deleted" => q \in spool'
  PROVE  EncRows'
<1>1. \A e \in Drives : Spawning(e)' => Spawning(e)
  BY DEF Spawning, TypeOK
<1>2. \A q \in Rips : Backed(q) => enc'[q] \in InHand /\ (enc'[q] # "deleted" => q \in spool')
  BY DEF Backed
<1>3. \A i \in 1..Len(encQ) : Backed(encQ[i])'
  BY <1>2, TypePlaced, QueuePlaced DEF Custody, EncRows, Backed
<1>4. \A w \in Workers :
        /\ HoldsEnc(w)' /\ wpc'[w] # "cleanup" => Backed(wjob[w])'
        /\ wpc'[w] = "cleanup" => enc'[wjob'[w]] \in {"done", "deleted"}
  BY <1>2 DEF Custody, EncRows, Backed, HoldsEnc, TypeOK, Outcomes
<1>5. \A e \in Drives : Spawning(e)' => Backed(djob[e])'
  BY <1>1, <1>2 DEF Custody, EncRows, Backed, Spawning, TypeOK
<1>6. \A u \in Users :
        /\ Retrying(u)' => Backed(ujob[u])'
        /\ upc'[u] = "cleanSpool" => enc'[ujob'[u]] = "deleted"
  BY <1>2 DEF Custody, EncRows, Backed, Retrying, TypeOK
<1> QED BY <1>3, <1>4, <1>5, <1>6 DEF EncRows

(* The worker takes the head of its queue.                                  *)
LEMMA CustodyDequeue ==
  ASSUME TypeOK, Custody, NEW d \in Drives, Dequeue(d)
  PROVE  Custody'
<1>0. PICK r \in Rips : r = Head(driveQ[d])
  BY DEF Dequeue, TypeOK
<1>1. /\ driveQ' = [driveQ EXCEPT ![d] = Tail(driveQ[d])]
      /\ djob' = [djob EXCEPT ![d] = r] /\ dpc' = [dpc EXCEPT ![d] = "gate"]
      /\ UNCHANGED <<rip, enc, spool, encQ, wpc, wjob, upc, ujob>>
      /\ dpc[d] = "idle" /\ driveQ[d] # <<>>
  BY <1>0 DEF Dequeue, DriveGoTo, rowVars, poolVars, userVars
<1>2. /\ 1 \in 1..Len(driveQ[d]) /\ r = driveQ[d][1]
      /\ \A i \in 1..Len(driveQ'[d]) : /\ i + 1 \in 1..Len(driveQ[d]) /\ i + 1 # 1
                                       /\ driveQ'[d][i] = driveQ[d][i + 1]
  <2>1. driveQ[d] \in Seq(Rips) /\ driveQ'[d] = Tail(driveQ[d])
    BY <1>1 DEF TypeOK
  <2> QED BY ZenonT(60), <1>0, <1>1, <2>1, TailAt
<1>3. \A e \in Drives \ {d} : driveQ'[e] = driveQ[e] /\ djob'[e] = djob[e] /\ dpc'[e] = dpc[e]
  BY <1>1 DEF TypeOK
<1>4. djob'[d] = r /\ dpc'[d] = "gate"
  BY <1>1 DEF TypeOK
<1>5. \A e \in Drives \ {d} : HoldsRip(e)' <=> HoldsRip(e)
  BY <1>3 DEF HoldsRip
<1>6. RipInOnePlace'
  <2>1. ASSUME NEW e \in Drives, NEW i \in 1..Len(driveQ'[e])
        PROVE  /\ DriveOf[DiscOf[driveQ'[e][i]]] = e
               /\ \A j \in 1..Len(driveQ'[e]) : driveQ'[e][i] = driveQ'[e][j] => i = j
               /\ HoldsRip(e)' => driveQ'[e][i] # djob'[e]
               /\ \A u \in Users : Starting(u)' => driveQ'[e][i] # ujob'[u]
    <3>1. CASE e # d
      BY <1>1, <1>3, <1>5, <3>1 DEF Custody, RipInOnePlace, Starting
    <3>2. CASE e = d
      <4>1. \A u \in Users : Starting(u)' <=> Starting(u)
        BY <1>1 DEF Starting
      <4>2. DriveOf[DiscOf[driveQ'[d][i]]] = d
        BY <1>2, <3>2 DEF Custody, RipInOnePlace
      <4>3. ASSUME NEW j \in 1..Len(driveQ'[d]), driveQ'[d][i] = driveQ'[d][j]
            PROVE  i = j
        <5>1. i + 1 = j + 1
          BY <1>2, <3>2, <4>3 DEF Custody, RipInOnePlace
        <5> QED BY <5>1
      <4>4. driveQ'[d][i] # r
        BY <1>2, <3>2 DEF Custody, RipInOnePlace
      <4>5. \A u \in Users : Starting(u)' => driveQ'[d][i] # ujob'[u]
        <5>1. \A k \in 1..Len(driveQ[d]) : \A u \in Users : Starting(u) => driveQ[d][k] # ujob[u]
          BY DEF Custody, RipInOnePlace
        <5> QED BY <1>1, <1>2, <3>2, <4>1, <5>1
      <4> QED BY <1>4, <3>2, <4>2, <4>3, <4>4, <4>5
    <3> QED BY <3>1, <3>2
  <2>2. \A e \in Drives : HoldsRip(e)' =>
          /\ DriveOf[DiscOf[djob'[e]]] = e
          /\ \A u \in Users : Starting(u)' => djob'[e] # ujob'[u]
    BY <1>1, <1>2, <1>3, <1>4, <1>5 DEF Custody, RipInOnePlace, Starting
  <2>3. \A u, v \in Users : Starting(u)' /\ Starting(v)' /\ ujob'[u] = ujob'[v] => u = v
    BY <1>1 DEF Custody, RipInOnePlace, Starting
  <2> QED BY <2>1, <2>2, <2>3 DEF RipInOnePlace
<1>7. EncInOnePlace'
  <2>1. \A e \in Drives : Spawning(e)' => Spawning(e) /\ djob'[e] = djob[e]
    BY <1>3, <1>4 DEF Spawning
  <2> QED BY <1>1, <2>1 DEF Custody, EncInOnePlace, HoldsEnc, Retrying
<1>8. RipRows'
  <2>1. rip[r] \in InHand /\ enc[r] = "none"
    BY <1>2 DEF Fills, Custody, RipRows
  <2>2. \A e \in Drives : \A i \in 1..Len(driveQ'[e]) :
          rip'[driveQ'[e][i]] \in InHand /\ enc'[driveQ'[e][i]] = "none"
    BY <1>1, <1>2, <1>3 DEF Fills, Custody, RipRows
  <2>3. \A e \in Drives :
          /\ HoldsRip(e)' => rip'[djob'[e]] \in InHand
          /\ dpc'[e] \in {"gate", "load", "ready", "rip", "spawn"} => enc'[djob'[e]] = "none"
          /\ Fills(e)' => djob'[e] \in spool'
    BY <1>1, <1>3, <1>4, <1>5, <2>1 DEF Fills, Custody, RipRows
  <2> QED BY <1>1, <2>2, <2>3 DEF Fills, Custody, RipRows, Starting
<1>9. EncRows'
  <2>1. \A e \in Drives : Spawning(e)' => Spawning(e) /\ djob'[e] = djob[e]
    BY <1>3, <1>4 DEF Spawning
  <2> QED BY <1>1, <2>1 DEF Custody, EncRows, HoldsEnc, Retrying, Backed
<1>10. SpoolHeld'
  BY <1>1 DEF Custody, SpoolHeld
<1> QED BY <1>6, <1>7, <1>8, <1>9, <1>10 DEF Custody
(* Leaving and unregistering give up a job whose row is final, or queued    *)
(* for the next start to interrupt.                                         *)
LEMMA CustodyDriveLeaves ==
  ASSUME TypeOK, Custody, NEW d \in Drives, LeaveDrive(d) \/ UnregisterRip(d)
  PROVE  Custody'
<1>1. RowsStay
  BY SameRows DEF LeaveDrive, UnregisterRip, rowVars
<1>2. PlacesShrink
  BY DEF LeaveDrive, UnregisterRip, DriveGoTo, PlacesShrink, poolVars, userVars, TypeOK
<1> QED BY <1>1, <1>2, Gentle

(* What the worker does with the job in its hands, its transcode unborn.    *)
LEMMA CustodyDriveWorks ==
  ASSUME TypeOK, Custody, NEW d \in Drives,
         \/ PassGate(d) \/ LoadRip(d) \/ StartRip(d)
         \/ \E out \in Outcomes : EndRip(d, out)
         \/ SpawnFails(d) \/ FinishRip(d)
  PROVE  Custody'
<1>0. PICK r \in Rips : r = djob[d]
  BY DEF PassGate, LoadRip, StartRip, EndRip, SpawnFails, FinishRip, TypeOK, Outcomes
<1>1. HoldsRip(d) /\ rip[r] \in InHand
  BY <1>0 DEF PassGate, LoadRip, StartRip, EndRip, SpawnFails, FinishRip, HoldsRip, Custody, RipRows
<1>2. UNCHANGED <<enc, driveQ, djob, encQ, wpc, wjob, upc, ujob>>
  BY DEF PassGate, LoadRip, StartRip, EndRip, SpawnFails, FinishRip, rowVars, poolVars, userVars
<1>3. PICK pc \in {"load", "ready", "rip", "spawn", "unregister"} \cup Outcomes :
        dpc' = [dpc EXCEPT ![d] = pc]
  <2>1. CASE PassGate(d)
    BY <2>1 DEF PassGate, DriveGoTo
  <2>2. CASE LoadRip(d)
    BY <2>2 DEF LoadRip, DriveGoTo
  <2>3. CASE StartRip(d)
    BY <2>3 DEF StartRip, DriveGoTo
  <2>4. CASE \E out \in Outcomes : EndRip(d, out)
    BY <2>4 DEF EndRip, DriveGoTo
  <2>5. CASE SpawnFails(d)
    BY <2>5 DEF SpawnFails, DriveGoTo, Outcomes
  <2>6. CASE FinishRip(d)
    BY <2>6 DEF FinishRip, DriveGoTo
  <2> QED BY <2>1, <2>2, <2>3, <2>4, <2>5, <2>6
<1>4. pc # "enqueue"
  BY DEF Outcomes
<1>5. /\ \A q \in Rips \ {r} : rip'[q] = rip[q]
      /\ \A q \in Rips \ {r} : q \in spool => q \in spool'
      /\ rip'[r] # "none"
      /\ HoldsRip(d)' => rip'[r] \in InHand
      /\ r \in spool /\ r \notin spool' => enc[r] = "none"
      /\ pc \in {"gate", "load", "ready", "rip", "spawn"} => enc[r] = "none"
      /\ pc = "spawn" \/ (pc = "rip" /\ r \in SplitRips) => r \in spool'
  <2>1. CASE PassGate(d)
    BY <1>0, <1>1, <1>3, <2>1 DEF PassGate, rowVars, Custody, RipRows, InHand, TypeOK, DriveGoTo
  <2>2. CASE LoadRip(d)
    BY <1>0, <1>1, <1>3, <2>2 DEF LoadRip, UpdateJobState, Custody, RipRows, InHand, TypeOK,
                                  DriveGoTo, HoldsRip, Outcomes, Stored, Active, Terminal
  <2>3. CASE StartRip(d)
    BY <1>0, <1>1, <1>3, <2>3 DEF StartRip, UpdateJobState, Custody, RipRows, InHand, TypeOK,
                                  DriveGoTo, HoldsRip, Outcomes, Stored, Active, Terminal
  <2>4. ASSUME NEW out \in Outcomes, EndRip(d, out)
        PROVE  /\ rip' = rip /\ enc[r] = "none"
               /\ \A q \in Rips \ {r} : q \in spool => q \in spool'
               /\ rip'[r] # "none" /\ rip'[r] \in InHand
               /\ pc \in {"spawn"} \cup Outcomes
               /\ pc = "spawn" => r \in spool'
    <3>1. rip' = rip /\ enc[r] = "none" /\ (r \in SplitRips => r \in spool)
      BY <1>0, <2>4 DEF EndRip, rowVars, Fills, Custody, RipRows
    <3>2. /\ r \in SplitRips /\ out = "done" => pc = "spawn" /\ spool' = spool
          /\ ~(r \in SplitRips /\ out = "done") => pc = out
          /\ \A q \in Rips \ {r} : q \in spool => q \in spool'
      BY <1>0, <1>3, <2>4 DEF EndRip, DriveGoTo, TypeOK
    <3> QED BY <1>1, <2>4, <3>1, <3>2 DEF InHand, Outcomes
  <2>5. CASE SpawnFails(d)
    BY <1>0, <1>1, <1>3, <2>5 DEF SpawnFails, rowVars, Custody, RipRows, InHand, TypeOK, DriveGoTo, Outcomes
  <2>6. CASE FinishRip(d)
    BY <1>0, <1>1, <1>3, <2>6 DEF FinishRip, UpdateJobState, Custody, RipRows, InHand, TypeOK,
                                  DriveGoTo, HoldsRip, Outcomes, Stored, Active, Terminal
  <2>7. CASE \E out \in Outcomes : EndRip(d, out)
    BY <2>4, <2>7 DEF Outcomes
  <2> QED BY <2>1, <2>2, <2>3, <2>5, <2>6, <2>7
<1>6. RipInOnePlace'
  BY <1>1, <1>2, <1>3, DrivePlaces
<1>7. EncInOnePlace'
  BY <1>2, <1>3, <1>4, DriveEncPlaces
<1>8. RipRows'
  BY <1>0, <1>1, <1>2, <1>3, <1>5, DriveRipRows
<1>9. EncRows'
  <2>1. \A q \in Rips : Backed(q) /\ enc[q] # "deleted" => q \in spool'
    BY <1>5 DEF Backed, InHand
  <2> QED BY <1>2, <1>3, <1>4, <2>1, DriveEncRows
<1>10. SpoolHeld'
  BY <1>2, <1>5 DEF Custody, SpoolHeld, Active, Retryable
<1> QED BY <1>6, <1>7, <1>8, <1>9, <1>10 DEF Custody

(* The transcode is born into its worker's hands.                           *)
LEMMA CustodySpawn ==
  ASSUME TypeOK, Custody, NEW d \in Drives, SpawnEncode(d)
  PROVE  Custody'
<1>0. PICK r \in Rips : r = djob[d]
  BY DEF SpawnEncode, TypeOK
<1>1. /\ HoldsRip(d) /\ enc[r] = "none" /\ r \in spool /\ rip[r] \in InHand /\ rip[r] # "none"
      /\ dpc[d] = "spawn"
  BY <1>0 DEF SpawnEncode, HoldsRip, Fills, Custody, RipRows, InHand
<1>2. /\ enc' = [enc EXCEPT ![r] = "queued"] /\ dpc' = [dpc EXCEPT ![d] = "enqueue"]
      /\ UNCHANGED <<rip, spool, driveQ, djob, encQ, wpc, wjob, upc, ujob>>
  BY <1>0 DEF SpawnEncode, DriveGoTo, poolVars, userVars
<1>3. enc'[r] = "queued" /\ \A q \in Rips \ {r} : enc'[q] = enc[q]
  BY <1>2 DEF TypeOK
<1>4. \A e \in Drives : Spawning(e)' <=> e = d \/ Spawning(e)
  BY <1>2 DEF Spawning, TypeOK
<1>5. /\ \A i \in 1..Len(encQ) : encQ[i] \in Rips \ {r}
      /\ \A w \in Workers : HoldsEnc(w) => wjob[w] \in Rips \ {r}
      /\ \A e \in Drives \ {d} : Spawning(e) => djob[e] \in Rips \ {r}
      /\ \A u \in Users : Retrying(u) => ujob[u] \in Rips \ {r}
  <2>1. \A i \in 1..Len(encQ) : encQ[i] \in Rips \ {r}
    BY <1>1, TypePlaced, QueuePlaced DEF Custody, EncRows, Backed, InHand
  <2>2. \A w \in Workers : HoldsEnc(w) => wjob[w] \in Rips \ {r}
    BY <1>1 DEF Custody, EncRows, Backed, InHand, TypeOK, HoldsEnc, Outcomes
  <2>3. \A e \in Drives \ {d} : Spawning(e) => djob[e] \in Rips \ {r}
    BY <1>1 DEF Custody, EncRows, Backed, InHand, TypeOK, Spawning
  <2>4. \A u \in Users : Retrying(u) => ujob[u] \in Rips \ {r}
    BY <1>1 DEF Custody, EncRows, Backed, InHand, TypeOK, Retrying
  <2> QED BY <2>1, <2>2, <2>3, <2>4
<1>6. RipInOnePlace'
  BY <1>1, <1>2, DrivePlaces
<1>7. EncInOnePlace'
  <2>1. \A w \in Workers : HoldsEnc(w)' <=> HoldsEnc(w)
    BY <1>2 DEF HoldsEnc
  <2>2. \A u \in Users : Retrying(u)' <=> Retrying(u)
    BY <1>2 DEF Retrying
  <2> QED BY <1>0, <1>2, <1>4, <1>5, <2>1, <2>2 DEF Custody, EncInOnePlace
<1>8. RipRows'
  <2>1. HoldsRip(d)' => rip'[r] \in InHand
    BY <1>1, <1>2
  <2> QED BY <1>0, <1>1, <1>2, <1>3, <2>1, DriveRipRows
<1>9. EncRows'
  <2>1. \A q \in Rips \ {r} : Backed(q) => enc'[q] \in InHand /\ (enc'[q] # "deleted" => q \in spool')
    BY <1>2, <1>3 DEF Backed
  <2>2. \A i \in 1..Len(encQ') : Backed(encQ[i])'
    BY <1>2, <1>5, <2>1 DEF Custody, EncRows, Backed
  <2>3. \A w \in Workers :
          /\ HoldsEnc(w)' /\ wpc'[w] # "cleanup" => Backed(wjob[w])'
          /\ wpc'[w] = "cleanup" => enc'[wjob'[w]] \in {"done", "deleted"}
    BY <1>2, <1>3, <1>5, <2>1 DEF Custody, EncRows, Backed, HoldsEnc
  <2>4. \A e \in Drives : Spawning(e)' => Backed(djob[e])'
    BY <1>0, <1>1, <1>2, <1>3, <1>4, <1>5, <2>1 DEF Custody, EncRows, Backed, InHand
  <2>5. \A u \in Users :
          /\ Retrying(u)' => Backed(ujob[u])'
          /\ upc'[u] = "cleanSpool" => enc'[ujob'[u]] = "deleted"
    BY <1>1, <1>2, <1>3, <1>5, <2>1 DEF Custody, EncRows, Backed, Retrying, TypeOK
  <2> QED BY <2>2, <2>3, <2>4, <2>5 DEF EncRows
<1>10. SpoolHeld'
  BY <1>1, <1>2, <1>3 DEF Custody, SpoolHeld
<1> QED BY <1>6, <1>7, <1>8, <1>9, <1>10 DEF Custody

(* And passes on to the pool's queue.                                       *)
LEMMA CustodyEnqueueEncode ==
  ASSUME TypeOK, Custody, NEW d \in Drives, EnqueueEncode(d)
  PROVE  Custody'
<1>0. PICK r \in Rips : r = djob[d]
  BY DEF EnqueueEncode, TypeOK
<1>1. /\ Spawning(d) /\ HoldsRip(d) /\ Backed(r) /\ rip[r] \in InHand /\ rip[r] # "none"
  BY <1>0 DEF EnqueueEncode, Spawning, HoldsRip, Custody, RipRows, EncRows, InHand
<1>2. /\ encQ' = Append(encQ, r) /\ dpc' = [dpc EXCEPT ![d] = "done"]
      /\ UNCHANGED <<rip, enc, spool, driveQ, djob, wpc, wjob, upc, ujob>>
  BY <1>0 DEF EnqueueEncode, DriveGoTo, rowVars, userVars
<1>3. EncInOnePlace' /\ EncRows'
  <2>1. \A i \in 1..Len(encQ) : encQ[i] # r
    BY <1>0, <1>1 DEF Custody, EncInOnePlace
  <2>2. \A w \in Workers : HoldsEnc(w) => wjob[w] # r
    BY <1>0, <1>1 DEF Custody, EncInOnePlace
  <2>3. \A e \in Drives : Spawning(e)' => Spawning(e) /\ djob'[e] = djob[e] /\ djob[e] # r
    <3>1. \A e \in Drives : Spawning(e)' => Spawning(e) /\ e # d
      BY <1>2 DEF Spawning, TypeOK
    <3>2. \A e \in Drives : Spawning(e) => DriveOf[DiscOf[djob[e]]] = e
      BY DEF Custody, RipInOnePlace, Spawning, HoldsRip
    <3> QED BY <1>0, <1>1, <1>2, <3>1, <3>2
  <2>4. \A u \in Users : Retrying(u)' => Retrying(u) /\ ujob'[u] = ujob[u] /\ ujob[u] # r
    BY <1>0, <1>1, <1>2 DEF Custody, EncInOnePlace, Retrying
  <2>5. \A u \in Users : upc'[u] = "cleanSpool" => upc[u] = "cleanSpool" /\ ujob'[u] = ujob[u]
    BY <1>2
  <2> QED BY <1>1, <1>2, <2>1, <2>2, <2>3, <2>4, <2>5, CustodyAppend
<1>4. RipInOnePlace'
  BY <1>1, <1>2, DrivePlaces
<1>5. RipRows'
  <2>1. HoldsRip(d)' => rip'[r] \in InHand
    BY <1>1, <1>2
  <2> QED BY <1>0, <1>1, <1>2, <2>1, DriveRipRows
<1>6. SpoolHeld'
  BY <1>2 DEF Custody, SpoolHeld
<1> QED BY <1>3, <1>4, <1>5, <1>6 DEF Custody
-----------------------------------------------------------------------------
(* Workers of the pool.                                                     *)
LEMMA CustodyPoolLeaves ==
  ASSUME TypeOK, Custody, NEW w \in Workers, AbandonAcquire(w) \/ LeavePool(w) \/ UnregisterEnc(w)
  PROVE  Custody'
<1>1. RowsStay
  BY SameRows DEF AbandonAcquire, LeavePool, UnregisterEnc, rowVars
<1>2. PlacesShrink
  BY DEF AbandonAcquire, LeavePool, UnregisterEnc, PoolGoTo, PlacesShrink, driveVars, userVars, TypeOK
<1> QED BY <1>1, <1>2, Gentle

(* A worker takes the head of the pool's queue.                             *)
LEMMA CustodyDequeueEnc ==
  ASSUME TypeOK, Custody, NEW w \in Workers, DequeueEnc(w)
  PROVE  Custody'
<1>0. PICK r \in Rips : r = Head(encQ)
  BY DEF DequeueEnc, TypeOK
<1>1. /\ encQ' = Tail(encQ) /\ wjob' = [wjob EXCEPT ![w] = r] /\ wpc' = [wpc EXCEPT ![w] = "acquire"]
      /\ UNCHANGED <<rip, enc, spool, driveQ, dpc, djob, upc, ujob>>
      /\ wpc[w] = "idle" /\ encQ # <<>>
  BY <1>0 DEF DequeueEnc, PoolGoTo, rowVars, driveVars, userVars
<1>2. /\ 1 \in 1..Len(encQ) /\ r = encQ[1]
      /\ \A i \in 1..Len(encQ') : i + 1 \in 1..Len(encQ) /\ i + 1 # 1 /\ encQ'[i] = encQ[i + 1]
  BY <1>0, <1>1, TailAt DEF TypeOK
<1>3. \A v \in Workers \ {w} : wpc'[v] = wpc[v] /\ wjob'[v] = wjob[v] /\ (HoldsEnc(v)' <=> HoldsEnc(v))
  BY <1>1 DEF TypeOK, HoldsEnc
<1>4. wpc'[w] = "acquire" /\ wjob'[w] = r
  BY <1>1 DEF TypeOK
<1>5. RipInOnePlace' /\ RipRows'
  BY <1>1 DEF Fills, Custody, RipInOnePlace, RipRows, HoldsRip, Starting
<1>6. EncInOnePlace'
  <2>1. /\ \A d \in Drives : Spawning(d)' <=> Spawning(d)
        /\ \A u \in Users : Retrying(u)' <=> Retrying(u)
    BY <1>1 DEF Spawning, Retrying
  <2>2. ASSUME NEW i \in 1..Len(encQ')
        PROVE  /\ \A j \in 1..Len(encQ') : encQ'[i] = encQ'[j] => i = j
               /\ \A v \in Workers : HoldsEnc(v)' => encQ'[i] # wjob'[v]
               /\ \A d \in Drives : Spawning(d)' => encQ'[i] # djob'[d]
               /\ \A u \in Users : Retrying(u)' => encQ'[i] # ujob'[u]
    <3>1. ASSUME NEW j \in 1..Len(encQ'), encQ'[i] = encQ'[j] PROVE i = j
      <4>1. i + 1 = j + 1
        BY <1>2, <3>1 DEF Custody, EncInOnePlace
      <4> QED BY <4>1
    <3>2. encQ'[i] # r
      BY <1>2 DEF Custody, EncInOnePlace
    <3>3. \A k \in 1..Len(encQ) : \A v \in Workers : HoldsEnc(v) => encQ[k] # wjob[v]
      BY DEF Custody, EncInOnePlace
    <3>4. \A v \in Workers : HoldsEnc(v)' => encQ'[i] # wjob'[v]
      BY <1>2, <1>3, <1>4, <3>2, <3>3
    <3>5. \A k \in 1..Len(encQ) : \A d \in Drives : Spawning(d) => encQ[k] # djob[d]
      BY DEF Custody, EncInOnePlace
    <3>6. \A k \in 1..Len(encQ) : \A u \in Users : Retrying(u) => encQ[k] # ujob[u]
      BY DEF Custody, EncInOnePlace
    <3> QED BY <1>1, <1>2, <2>1, <3>1, <3>4, <3>5, <3>6
  <2>3. ASSUME NEW x \in Workers, HoldsEnc(x)'
        PROVE  /\ \A v \in Workers : HoldsEnc(v)' /\ wjob'[v] = wjob'[x] => v = x
               /\ \A d \in Drives : Spawning(d)' => wjob'[x] # djob'[d]
               /\ \A u \in Users : Retrying(u)' => wjob'[x] # ujob'[u]
    <3>1. \A v \in Workers : HoldsEnc(v) => wjob[v] # r
      BY <1>2 DEF Custody, EncInOnePlace
    <3>2. \A v \in Workers : HoldsEnc(v)' /\ wjob'[v] = wjob'[x] => v = x
      BY <1>3, <1>4, <2>3, <3>1 DEF Custody, EncInOnePlace
    <3>3. \A d \in Drives : Spawning(d) => r # djob[d]
      BY <1>2 DEF Custody, EncInOnePlace
    <3>4. \A u \in Users : Retrying(u) => r # ujob[u]
      BY <1>2 DEF Custody, EncInOnePlace
    <3> QED BY <1>1, <1>3, <1>4, <2>1, <2>3, <3>2, <3>3, <3>4 DEF Custody, EncInOnePlace
  <2> QED BY <1>1, <2>1, <2>2, <2>3 DEF Custody, EncInOnePlace
<1>7. EncRows'
  <2>1. \A q : Backed(q) => enc'[q] \in InHand /\ (enc'[q] # "deleted" => q \in spool')
    BY <1>1 DEF Backed
  <2>2. \A i \in 1..Len(encQ') : Backed(encQ[i])'
    BY <1>2, <2>1 DEF Custody, EncRows, Backed
  <2>3. ASSUME NEW v \in Workers
        PROVE  /\ HoldsEnc(v)' /\ wpc'[v] # "cleanup" => Backed(wjob[v])'
               /\ wpc'[v] = "cleanup" => enc'[wjob'[v]] \in {"done", "deleted"}
    <3>1. Backed(r)
      BY <1>2 DEF Custody, EncRows
    <3>2. CASE v = w
      BY <1>4, <2>1, <3>1, <3>2 DEF Backed
    <3>3. CASE v # w
      BY <1>1, <1>3, <2>1, <3>3 DEF Custody, EncRows, Backed
    <3> QED BY <3>2, <3>3
  <2>4. \A d \in Drives : Spawning(d)' => Backed(djob[d])'
    BY <1>1, <2>1 DEF Custody, EncRows, Backed, Spawning
  <2>5. \A u \in Users :
          /\ Retrying(u)' => Backed(ujob[u])'
          /\ upc'[u] = "cleanSpool" => enc'[ujob'[u]] = "deleted"
    BY <1>1, <2>1 DEF Custody, EncRows, Backed, Retrying
  <2> QED BY <2>2, <2>3, <2>4, <2>5 DEF EncRows
<1>8. SpoolHeld'
  BY <1>1 DEF Custody, SpoolHeld
<1> QED BY <1>5, <1>6, <1>7, <1>8 DEF Custody

(* What a worker of the pool does with the transcode in its hands: it is    *)
(* the only one to touch the row and the directory, and takes the directory *)
(* away only when the row says done or is gone.                             *)
LEMMA CustodyPoolWorks ==
  ASSUME TypeOK, Custody, NEW w \in Workers,
         \/ Acquire(w) \/ LoadEnc(w) \/ StartEncode(w)
         \/ \E out \in Outcomes : EndEncode(w, out)
         \/ FinishEncode(w) \/ CleanupSpool(w)
  PROVE  Custody'
<1>0. PICK r \in Rips : r = wjob[w]
  BY DEF Acquire, LoadEnc, StartEncode, EndEncode, FinishEncode, CleanupSpool, TypeOK, Outcomes
<1>1. HoldsEnc(w)
  BY DEF Acquire, LoadEnc, StartEncode, EndEncode, FinishEncode, CleanupSpool, HoldsEnc
<1>2. UNCHANGED <<rip, driveQ, dpc, djob, encQ, wjob, upc, ujob>>
  BY DEF Acquire, LoadEnc, StartEncode, EndEncode, FinishEncode, CleanupSpool, rowVars, driveVars, userVars
<1>3. PICK pc \in {"load", "ready", "encode", "cleanup", "unregister"} \cup Outcomes :
        wpc' = [wpc EXCEPT ![w] = pc]
  <2>1. CASE Acquire(w)
    BY <2>1 DEF Acquire, PoolGoTo
  <2>2. CASE LoadEnc(w)
    BY <2>2 DEF LoadEnc, PoolGoTo
  <2>3. CASE StartEncode(w)
    BY <2>3 DEF StartEncode, PoolGoTo
  <2>4. CASE \E out \in Outcomes : EndEncode(w, out)
    BY <2>4 DEF EndEncode, PoolGoTo
  <2>5. CASE FinishEncode(w)
    BY <2>5 DEF FinishEncode, PoolGoTo
  <2>6. CASE CleanupSpool(w)
    BY <2>6 DEF CleanupSpool, PoolGoTo
  <2> QED BY <2>1, <2>2, <2>3, <2>4, <2>5, <2>6
<1>4. wpc'[w] = pc /\ \A v \in Workers \ {w} : wpc'[v] = wpc[v] /\ (HoldsEnc(v)' <=> HoldsEnc(v))
  BY <1>2, <1>3 DEF HoldsEnc, TypeOK
<1>5. /\ enc[r] \in InHand \cup {"done"}
      /\ enc[r] \notin {"deleted", "done"} => r \in spool
      /\ enc[r] # "none"
  BY <1>0, <1>1 DEF Custody, EncRows, Backed, InHand
<1>6. /\ \A q \in Rips \ {r} : enc'[q] = enc[q] /\ (q \in spool => q \in spool')
      /\ enc'[r] # "none"
      /\ pc \in {"load", "ready", "encode"} \cup Outcomes =>
           enc'[r] \in InHand /\ (enc'[r] # "deleted" => r \in spool')
      /\ pc = "cleanup" => enc'[r] \in {"done", "deleted"}
      /\ enc'[r] \in Active \cup Retryable => r \in spool'
  <2>1. \A rows \in [Rips -> RowState] : \A t \in RowState :
          /\ \A q \in Rips \ {r} : UpdateJobState(rows, r, t)[q] = rows[q]
          /\ UpdateJobState(rows, r, t)[r] = IF rows[r] \in Stored THEN t ELSE rows[r]
    BY DEF UpdateJobState
  <2>2. enc \in [Rips -> RowState] /\ {"failed", "running", "done", "cancelled"} \subseteq RowState
    BY RowStates DEF TypeOK
  <2>3. CASE Acquire(w)
    <3>1. Backed(r) /\ pc = "load" /\ enc' = enc /\ spool' = spool
      BY <1>0, <1>1, <1>4, <2>3 DEF Acquire, PoolGoTo, rowVars, Custody, EncRows, TypeOK
    <3> QED BY <1>5, <3>1 DEF Backed, Custody, SpoolHeld, Outcomes
  <2>4. CASE LoadEnc(w)
    <3>1. Backed(r) /\ pc \in {"ready", "unregister"} /\ spool' = spool
      BY <1>0, <1>1, <1>3, <1>4, <2>4 DEF LoadEnc, PoolGoTo, Custody, EncRows, TypeOK
    <3>2. \/ enc' = enc
          \/ enc' = UpdateJobState(enc, r, "failed") /\ pc = "unregister"
      BY <1>0, <1>4, <2>4 DEF LoadEnc, PoolGoTo, TypeOK
    <3> QED BY <1>5, <2>1, <2>2, <3>1, <3>2
            DEF Backed, Outcomes, Stored, Active, Terminal, Retryable, InHand
  <2>5. CASE StartEncode(w)
    <3>1. Backed(r) /\ pc \in {"encode", "unregister"} /\ spool' = spool
      BY <1>0, <1>1, <1>3, <1>4, <2>5 DEF StartEncode, PoolGoTo, Custody, EncRows, TypeOK
    <3>2. \/ enc' = UpdateJobState(enc, r, "failed") /\ pc = "unregister"
          \/ enc' = UpdateJobState(enc, r, "running") /\ pc = "encode"
      BY <1>0, <1>4, <2>5 DEF StartEncode, PoolGoTo, TypeOK
    <3> QED BY <1>5, <2>1, <2>2, <3>1, <3>2
            DEF Backed, Outcomes, Stored, Active, Terminal, Retryable, InHand
  <2>6. CASE \E out \in Outcomes : EndEncode(w, out)
    <3>1. Backed(r) /\ pc \in Outcomes /\ enc' = enc /\ spool' = spool
      BY <1>0, <1>1, <1>4, <2>6 DEF EndEncode, PoolGoTo, rowVars, Custody, EncRows, TypeOK
    <3> QED BY <1>5, <3>1 DEF Backed, Custody, SpoolHeld, Outcomes
  <2>7. CASE FinishEncode(w)
    <3>1. Backed(r) /\ spool' = spool
      BY <1>0, <1>1, <2>7 DEF FinishEncode, Custody, EncRows, Outcomes
    <3>2. /\ enc' = UpdateJobState(enc, r, wpc[w]) /\ wpc[w] \in Outcomes
          /\ pc = IF wpc[w] = "done" THEN "cleanup" ELSE "unregister"
      BY <1>0, <1>4, <2>7 DEF FinishEncode, PoolGoTo, TypeOK
    <3> QED BY <1>5, <2>1, <2>2, <3>1, <3>2
            DEF Backed, Outcomes, Stored, Active, Terminal, Retryable, InHand
  <2>8. CASE CleanupSpool(w)
    <3>1. enc[r] \in {"done", "deleted"} /\ enc' = enc /\ spool' = spool \ {r} /\ pc = "unregister"
      BY <1>0, <1>4, <2>8 DEF CleanupSpool, PoolGoTo, rowVars, Custody, EncRows, TypeOK
    <3> QED BY <3>1 DEF Outcomes, Active, Retryable
  <2> QED BY <2>3, <2>4, <2>5, <2>6, <2>7, <2>8
<1>7. /\ \A i \in 1..Len(encQ) : encQ[i] \in Rips \ {r}
      /\ \A v \in Workers \ {w} : HoldsEnc(v) => wjob[v] \in Rips \ {r}
      /\ \A d \in Drives : Spawning(d) => djob[d] \in Rips \ {r}
      /\ \A u \in Users : Retrying(u) => ujob[u] \in Rips \ {r}
  <2>1. \A i \in 1..Len(encQ) : encQ[i] \in Rips \ {r}
    BY <1>0, <1>1, TypePlaced, QueuePlaced DEF Custody, EncInOnePlace
  <2>2. \A v \in Workers \ {w} : HoldsEnc(v) => wjob[v] \in Rips \ {r}
    <3>1. \A v \in Workers : HoldsEnc(v) => wjob[v] \in Rips
      BY DEF HoldsEnc, TypeOK, Outcomes
    <3> QED BY <1>0, <1>1, <3>1 DEF Custody, EncInOnePlace
  <2>3. \A d \in Drives : Spawning(d) => djob[d] \in Rips \ {r}
    BY <1>0, <1>1 DEF Custody, EncInOnePlace, Spawning, TypeOK
  <2>4. \A u \in Users : Retrying(u) => ujob[u] \in Rips \ {r}
    BY <1>0, <1>1 DEF Custody, EncInOnePlace, Retrying, TypeOK
  <2> QED BY <2>1, <2>2, <2>3, <2>4
<1>8. RipInOnePlace'
  BY <1>2 DEF Custody, RipInOnePlace, HoldsRip, Starting
<1>9. EncInOnePlace'
  <2>1. \A v \in Workers : HoldsEnc(v)' => HoldsEnc(v)
    BY <1>1, <1>4
  <2> QED BY <1>2, <2>1 DEF Custody, EncInOnePlace, Spawning, Retrying
<1>10. RipRows'
  <2>1. \A q \in Rips : enc[q] = "none" => enc'[q] = "none" /\ (q \in spool => q \in spool')
    BY <1>5, <1>6
  <2>2. \A d \in Drives :
          /\ \A i \in 1..Len(driveQ'[d]) : rip'[driveQ'[d][i]] \in InHand /\ enc'[driveQ'[d][i]] = "none"
          /\ HoldsRip(d)' => rip'[djob'[d]] \in InHand
          /\ dpc'[d] \in {"gate", "load", "ready", "rip", "spawn"} => enc'[djob'[d]] = "none"
          /\ Fills(d)' => djob'[d] \in spool'
    <3>1. \A d \in Drives : dpc[d] \in {"gate", "load", "ready", "rip", "spawn"} => djob[d] \in Rips
      BY DEF TypeOK
    <3>2. \A d \in Drives : /\ Fills(d)' <=> Fills(d)
                            /\ Fills(d) => dpc[d] \in {"rip", "spawn"}
                            /\ HoldsRip(d)' <=> HoldsRip(d)
      BY <1>2 DEF Fills, HoldsRip
    <3> QED BY <1>2, <2>1, <3>1, <3>2, TypePlaced, QueuePlaced DEF Custody, RipRows
  <2>3. \A u \in Users :
          /\ upc'[u] = "create" => rip'[ujob'[u]] = "none"
          /\ upc'[u] = "enqueueRip" => rip'[ujob'[u]] \in InHand
          /\ Starting(u)' => enc'[ujob'[u]] = "none"
    BY <1>2, <2>1 DEF Custody, RipRows, Starting, TypeOK
  <2> QED BY <1>2, <2>1, <2>2, <2>3 DEF Custody, RipRows
<1>11. EncRows'
  <2>1. \A q \in Rips \ {r} : Backed(q) => enc'[q] \in InHand /\ (enc'[q] # "deleted" => q \in spool')
    BY <1>6 DEF Backed
  <2>2. \A i \in 1..Len(encQ') : Backed(encQ[i])'
    BY <1>2, <1>7, <2>1 DEF Custody, EncRows, Backed
  <2>3. ASSUME NEW v \in Workers
        PROVE  /\ HoldsEnc(v)' /\ wpc'[v] # "cleanup" => Backed(wjob[v])'
               /\ wpc'[v] = "cleanup" => enc'[wjob'[v]] \in {"done", "deleted"}
    <3>1. CASE v = w
      <4>1. HoldsEnc(w)' /\ wpc'[w] # "cleanup" => pc \in {"load", "ready", "encode"} \cup Outcomes
        BY <1>3, <1>4 DEF HoldsEnc, Outcomes
      <4> QED BY <1>0, <1>2, <1>4, <1>6, <3>1, <4>1 DEF Backed
    <3>2. CASE v # w
      <4>1. wpc[v] = "cleanup" => HoldsEnc(v)
        BY DEF HoldsEnc
      <4> QED BY <1>2, <1>4, <1>6, <1>7, <2>1, <3>2, <4>1 DEF Custody, EncRows, Backed
    <3> QED BY <3>1, <3>2
  <2>4. \A d \in Drives : Spawning(d)' => Backed(djob[d])'
    BY <1>2, <1>7, <2>1 DEF Custody, EncRows, Backed, Spawning
  <2>5. \A u \in Users :
          /\ Retrying(u)' => Backed(ujob[u])'
          /\ upc'[u] = "cleanSpool" => enc'[ujob'[u]] = "deleted"
    <3>1. \A q \in Rips : enc[q] = "deleted" => enc'[q] = "deleted"
      BY <1>0, <1>2, <1>6, RowStates
         DEF Acquire, LoadEnc, StartEncode, EndEncode, FinishEncode, CleanupSpool, UpdateJobState,
             rowVars, TypeOK, Stored, Active, Terminal
    <3> QED BY <1>2, <1>7, <2>1, <3>1 DEF Custody, EncRows, Backed, Retrying, TypeOK
  <2> QED BY <2>2, <2>3, <2>4, <2>5 DEF EncRows
<1>12. SpoolHeld'
  BY <1>6 DEF Custody, SpoolHeld
<1> QED BY <1>8, <1>9, <1>10, <1>11, <1>12 DEF Custody
-----------------------------------------------------------------------------
(* The process.                                                             *)
LEMMA CustodyInit == Init => Custody
<1> SUFFICES ASSUME Init PROVE Custody
  OBVIOUS
<1>1. RipInOnePlace /\ EncInOnePlace
  BY DEF Init, RipInOnePlace, EncInOnePlace, HoldsRip, HoldsEnc, Starting, Retrying, Spawning, Outcomes
<1>2. RipRows /\ EncRows
  BY DEF Init, RipRows, EncRows, HoldsRip, HoldsEnc, Starting, Retrying, Spawning, Fills, Outcomes
<1>3. SpoolHeld
  BY DEF Init, SpoolHeld, Active, Retryable
<1> QED BY <1>1, <1>2, <1>3 DEF Custody

(* Discs come, finished jobs are forgotten, a shutdown begins.              *)
LEMMA CustodyHousekeeping ==
  ASSUME TypeOK, Custody,
         \/ \E x \in Discs : InsertDisc(x)
         \/ ClearHistory
         \/ \E rips, encs \in SUBSET Rips : PruneHistory(rips, encs)
         \/ Close \/ ClosePool
  PROVE  Custody'
<1>1. RowsStay
  <2>1. CASE \E x \in Discs : InsertDisc(x)
    BY <2>1, SameRows DEF InsertDisc
  <2>2. CASE ClearHistory
    BY <2>2, DeleteStays DEF ClearHistory
  <2>3. CASE \E rips, encs \in SUBSET Rips : PruneHistory(rips, encs)
    BY <2>3, DeleteStays DEF PruneHistory
  <2>4. CASE Close \/ ClosePool
    BY <2>4, SameRows DEF Close, ClosePool, rowVars
  <2> QED BY <2>1, <2>2, <2>3, <2>4
<1>2. UNCHANGED <<driveQ, dpc, djob, encQ, wpc, wjob, upc, ujob>>
  BY DEF InsertDisc, ClearHistory, PruneHistory, Close, ClosePool, driveVars, poolVars, userVars
<1>3. PlacesShrink
  BY <1>2 DEF PlacesShrink
<1> QED BY <1>1, <1>3, Gentle

(* Going down empties every place and leaves rows and directories.          *)
LEMMA CustodyDown ==
  ASSUME TypeOK, Custody, Crash \/ Exit
  PROVE  Custody'
<1>1. LoseMemory
  BY DEF Crash, Exit
<1>2. RipInOnePlace' /\ EncInOnePlace'
  BY <1>1 DEF LoseMemory, RipInOnePlace, EncInOnePlace, HoldsRip, HoldsEnc, Starting, Retrying,
              Spawning, Outcomes
<1>3. EncRows'
  BY <1>1 DEF LoseMemory, EncRows, HoldsEnc, Retrying, Spawning, Outcomes
<1>4. RipRows'
  BY <1>1 DEF LoseMemory, rowVars, Custody, RipRows, HoldsRip, Starting, Fills, Outcomes
<1>5. SpoolHeld'
  BY <1>1 DEF LoseMemory, rowVars, Custody, SpoolHeld
<1> QED BY <1>2, <1>3, <1>4, <1>5 DEF Custody

(* While the process is down no place holds anything.                       *)
DownIsEmpty ==
  phase = "down" =>
    /\ \A d \in Drives : driveQ[d] = <<>> /\ dpc[d] = "idle"
    /\ encQ = <<>>
    /\ \A w \in Workers : wpc[w] = "idle"
    /\ \A u \in Users : upc[u] = "idle"
(* A process that is down has nothing in memory.                            *)
LEMMA DownStep ==
  ASSUME DownIsEmpty, [Next]_vars
  PROVE  DownIsEmpty'
<1>1. CASE phase # "down" /\ phase' # "down"
  BY <1>1 DEF DownIsEmpty
<1>2. CASE Crash \/ Exit
  BY <1>2 DEF Crash, Exit, LoseMemory, DownIsEmpty
<1>3. CASE Restart
  BY <1>3 DEF Restart, DownIsEmpty
<1>4. CASE UNCHANGED vars
  BY <1>4 DEF DownIsEmpty, vars, driveVars, poolVars, userVars, sysVars
<1>5. ASSUME NEW x \in Discs, InsertDisc(x) PROVE phase # "down" /\ phase' # "down"
  BY <1>5 DEF InsertDisc, sysVars
<1>6. ASSUME NEW u \in Users, NewRequest(u) PROVE phase # "down" /\ phase' # "down"
  <2> PICK r \in Rips :
        \/ CheckStart(u, r) \/ CheckRetry(u, r)
        \/ StopRip(u, r) \/ StopEnc(u, r)
        \/ CheckDeleteRip(u, r) \/ CheckDeleteEnc(u, r)
        \/ CheckDropDisc(u, r) \/ CheckEject(u, r)
    BY SMTT(30), <1>6 DEF NewRequest
  <2> QED
    BY DEF CheckStart, CheckRetry, StopRip, StopEnc, CheckDeleteRip, CheckDeleteEnc,
           CheckDropDisc, CheckEject, Receive, sysVars
<1>7. ASSUME NEW u \in Users, Respond(u) PROVE upc[u] # "idle" /\ phase' = phase
  BY <1>7 DEF Respond, CreateRip, EnqueueRip, StopRipRow, StopEncRow, ResetTranscodeJob, EnqueueEnc,
              DeleteRipJob, DeleteEncJob, CleanSpool, DropDisc, sysVars
<1>8. CASE ClearHistory \/ \E rips, encs \in SUBSET Rips : PruneHistory(rips, encs)
  BY <1>1, <1>8 DEF ClearHistory, PruneHistory, sysVars
<1>9. ASSUME NEW d \in Drives, DriveStep(d)
      PROVE  (phase # "down" \/ dpc[d] # "idle") /\ phase' = phase
  BY <1>9 DEF DriveStep, Dequeue, PassGate, LeaveDrive, LoadRip, StartRip, EndRip, SpawnEncode,
              SpawnFails, EnqueueEncode, FinishRip, UnregisterRip, Outcomes, sysVars
<1>10. ASSUME NEW w \in Workers, PoolStep(w)
       PROVE  (phase # "down" \/ wpc[w] # "idle") /\ phase' = phase
  BY <1>10 DEF PoolStep, DequeueEnc, Acquire, AbandonAcquire, LeavePool, LoadEnc, StartEncode,
               EndEncode, FinishEncode, CleanupSpool, UnregisterEnc, Outcomes, sysVars
<1>11. CASE Close \/ ClosePool
  BY <1>1, <1>11 DEF Close, ClosePool
<1>12. CASE \E x \in Discs : InsertDisc(x)
  BY <1>1, <1>5, <1>12
<1>13. CASE \E u \in Users : NewRequest(u) \/ Respond(u)
  BY <1>1, <1>6, <1>7, <1>13 DEF DownIsEmpty
<1>14. CASE \E d \in Drives : DriveStep(d)
  BY <1>1, <1>9, <1>14 DEF DownIsEmpty
<1>15. CASE \E w \in Workers : PoolStep(w)
  BY <1>1, <1>10, <1>15 DEF DownIsEmpty
<1> QED BY <1>2, <1>3, <1>4, <1>8, <1>11, <1>12, <1>13, <1>14, <1>15 DEF Next

(* Start-up interrupts what was active and keeps what may be retried.       *)
LEMMA CustodyRestart ==
  ASSUME TypeOK, Custody, DownIsEmpty, Restart
  PROVE  Custody'
<1>1. /\ \A d \in Drives : driveQ'[d] = <<>> /\ dpc'[d] = "idle"
      /\ encQ' = <<>>
      /\ \A w \in Workers : wpc'[w] = "idle"
      /\ \A u \in Users : upc'[u] = "idle"
  BY DEF DownIsEmpty, Restart, driveVars, poolVars, userVars
<1>2. RipInOnePlace' /\ EncInOnePlace'
  BY <1>1 DEF RipInOnePlace, EncInOnePlace, HoldsRip, HoldsEnc, Starting, Retrying, Spawning, Outcomes
<1>3. /\ \A r \in Rips : rip'[r] = IF rip[r] \in Active THEN "interrupted" ELSE rip[r]
      /\ \A r \in Rips : enc'[r] = IF enc[r] \in Active THEN "interrupted" ELSE enc[r]
  BY DEF Restart, MarkInterruptedJobs, TypeOK
<1>4. RipRows'
  <2>1. \A r \in Rips : rip'[r] = "none" => enc'[r] = "none"
    BY <1>3 DEF Custody, RipRows, Active
  <2> QED BY <1>1, <2>1 DEF RipRows, HoldsRip, Starting, Fills, Outcomes
<1>5. EncRows'
  BY <1>1 DEF EncRows, HoldsEnc, Retrying, Spawning, Outcomes
<1>6. SpoolHeld'
  <2>1. DOMAIN enc' = Rips /\ spool' = spool \cap ActiveSpoolReferences(rip', enc', RipKind)
    BY DEF Restart, MarkInterruptedJobs, TypeOK
  <2>2. \A r \in Rips : enc'[r] \in Active \cup Retryable =>
          r \in spool /\ r \in ActiveSpoolReferences(rip', enc', RipKind)
    BY <1>3, <2>1 DEF Custody, SpoolHeld, Active, Retryable, ActiveSpoolReferences
  <2> QED BY <2>1, <2>2 DEF SpoolHeld
<1> QED BY <1>2, <1>4, <1>5, <1>6 DEF Custody

-----------------------------------------------------------------------------
(* The inductive invariant, and what it gives.                              *)
IInv == TypeOK /\ Custody /\ DownIsEmpty

(* One case for each family of actions.                                     *)
LEMMA CustodyNext ==
  ASSUME TypeOK, Custody, DownIsEmpty, Next
  PROVE  Custody'
<1>1. ASSUME NEW u \in Users, NewRequest(u) PROVE Custody'
  BY <1>1, CustodyRequest, CustodyStart DEF NewRequest
<1>2. ASSUME NEW u \in Users, Respond(u) PROVE Custody'
  BY <1>2, CustodyCreate, CustodyEnqueueRip, CustodyRowOnly, CustodyReset, CustodyEnqueueEnc,
     CustodyDeleteEnc, CustodyCleanSpool DEF Respond
<1>3. ASSUME NEW d \in Drives, DriveStep(d) PROVE Custody'
  BY <1>3, CustodyDequeue, CustodyDriveLeaves, CustodyDriveWorks, CustodySpawn,
     CustodyEnqueueEncode DEF DriveStep
<1>4. ASSUME NEW w \in Workers, PoolStep(w) PROVE Custody'
  BY <1>4, CustodyDequeueEnc, CustodyPoolLeaves, CustodyPoolWorks DEF PoolStep
<1> QED BY <1>1, <1>2, <1>3, <1>4, CustodyHousekeeping, CustodyDown, CustodyRestart DEF Next

(* Custody is about the variables alone.                                    *)
LEMMA CustodyStutter ==
  ASSUME Custody, UNCHANGED vars
  PROVE  Custody'
<1>1. UNCHANGED <<rip, enc, spool, driveQ, dpc, djob, encQ, wpc, wjob, upc, ujob>>
  BY DEF vars, rowVars, driveVars, poolVars, userVars
<1> QED BY <1>1 DEF Custody, RipInOnePlace, EncInOnePlace, RipRows, EncRows, SpoolHeld, Backed,
                    HoldsRip, HoldsEnc, Starting, Retrying, Spawning, Fills

(* The invariant is inductive.                                              *)
LEMMA Inductive == IInv /\ [Next]_vars => IInv'
<1> SUFFICES ASSUME IInv, [Next]_vars PROVE IInv'
  OBVIOUS
<1>1. TypeOK'
  BY TypeStep DEF IInv
<1>2. Custody'
  BY CustodyNext, CustodyStutter DEF IInv
<1>3. DownIsEmpty'
  BY DownStep DEF IInv
<1> QED BY <1>1, <1>2, <1>3 DEF IInv

(* Every job is in one place, with a row that says so, and what may still   *)
(* run or be retried has its directory.                                     *)
THEOREM CustodyKept == Spec => []IInv
<1>1. Init => IInv
  BY TypeInit, CustodyInit DEF IInv, Init, DownIsEmpty
<1> QED BY <1>1, Inductive, PTL DEF Spec

(* A job is in one place at a time: in a queue, with a worker or with a     *)
(* request, and its row and its directory are as that place needs them.     *)
THEOREM CustodyAlways == Spec => []Custody
<1>1. IInv => Custody
  BY DEF IInv
<1> QED BY <1>1, CustodyKept, PTL

(* No clean-up takes a directory away from a transcode that is queued,      *)
(* running or may be retried.                                               *)
THEOREM SpoolIsHeld == Spec => []SpoolHeld
<1>1. IInv => SpoolHeld
  BY DEF IInv, Custody
<1> QED BY <1>1, CustodyKept, PTL

(* A worker that encodes a job still on record finds its input.             *)
THEOREM EncoderFindsInput == Spec => []EncoderHasInput
<1>1. IInv => EncoderHasInput
  BY DEF IInv, Custody, EncRows, Backed, EncoderHasInput, HoldsEnc, Stored, Active, Terminal
<1> QED BY <1>1, CustodyKept, PTL

(* No two workers encode the same job.                                      *)
THEOREM EncoderIsAlone == Spec => []SoleEncoder
<1>1. IInv => SoleEncoder
  BY DEF IInv, Custody, EncInOnePlace, SoleEncoder, HoldsEnc, Outcomes
<1> QED BY <1>1, CustodyKept, PTL

-----------------------------------------------------------------------------
(***************************************************************************)
(* The job engine implements the ledger: every step of its queues, workers *)
(* and requests is a step of JobLedger or changes none of its variables.   *)
(***************************************************************************)

(* Either nothing the ledger sees has changed, or it is one of its steps.   *)
LedgerStep == Ledger!LNext \/ UNCHANGED <<rip, enc, spool>>

(* The ledger and the engine mean the same by a transcode to be retried.    *)
LEMMA SameRetryable == Ledger!Retryable = Retryable
BY DEF Ledger!Retryable, Retryable

(* Deleting rows is the same statement in both.                             *)
LEMMA SameDeletion ==
  ASSUME NEW rows, NEW S
  PROVE  Ledger!DeleteJobs(rows, S) = DeleteJobs(rows, S)
<1>1. Ledger!Stored = Stored
  BY DEF Ledger!Stored, Stored, Ledger!Active, Active, Ledger!Terminal, Terminal
<1> QED BY <1>1 DEF Ledger!DeleteJobs, DeleteJobs

(* So is the recovery at start-up.                                          *)
LEMMA SameRecovery ==
  ASSUME NEW rows
  PROVE  Ledger!MarkInterruptedJobs(rows) = MarkInterruptedJobs(rows)
<1>1. Ledger!Active = Active
  BY DEF Ledger!Active, Active
<1> QED BY <1>1 DEF Ledger!MarkInterruptedJobs, MarkInterruptedJobs

(* What a write to a row by its id does.                                    *)
LEMMA WriteOne ==
  ASSUME NEW rows \in [Rips -> RowState], NEW r \in Rips, NEW s
  PROVE  UpdateJobState(rows, r, s) = IF rows[r] \in Stored THEN [rows EXCEPT ![r] = s] ELSE rows
<1>1. CASE rows[r] \in Stored
  BY <1>1 DEF UpdateJobState
<1>2. CASE rows[r] \notin Stored
  BY <1>2 DEF UpdateJobState
<1> QED BY <1>1, <1>2

(* What a Stop writes to a row.                                             *)
LEMMA StopOne ==
  ASSUME NEW rows \in [Rips -> RowState], NEW r \in Rips
  PROVE  CancelJobIfActive(rows, r) =
           IF rows[r] \in Active THEN [rows EXCEPT ![r] = "cancelled"] ELSE rows
<1>1. CASE rows[r] \in Active
  BY <1>1 DEF CancelJobIfActive
<1>2. CASE rows[r] \notin Active
  BY <1>2 DEF CancelJobIfActive
<1> QED BY <1>1, <1>2

(* A deletion, with everything it cascades to, is one Forget.               *)
LEMMA LedgerForget ==
  ASSUME TypeOK, NEW gone, NEW rips \in SUBSET Rips, NEW encs \in SUBSET Rips,
         DeleteRows(gone, rips, encs), spool' = spool
  PROVE  LedgerStep
<1> DEFINE dead == rips \cup {r \in Rips : DiscOf[r] \in gone}
<1>1. rip' = DeleteJobs(rip, dead) /\ enc' = DeleteJobs(enc, dead \cup encs)
  BY DEF DeleteRows
<1>2. dead \in SUBSET Rips /\ (dead \cup encs) \in SUBSET Rips
  OBVIOUS
<1> HIDE DEF dead
<1>3. Ledger!Forget(dead, dead \cup encs)
  BY <1>1, SameDeletion DEF Ledger!Forget
<1>4. \E rips2, encs2 \in SUBSET Rips : Ledger!Forget(rips2, encs2)
  BY <1>2, <1>3
<1> QED BY <1>4 DEF LedgerStep, Ledger!LNext

(* Requests.                                                                *)
LEMMA LedgerUser ==
  ASSUME TypeOK, Custody, NEW u \in Users, NewRequest(u) \/ Respond(u)
  PROVE  LedgerStep
<1>1. CASE NewRequest(u)
  BY <1>1 DEF NewRequest, CheckStart, CheckRetry, StopRip, StopEnc, CheckDeleteRip, CheckDeleteEnc,
              CheckDropDisc, CheckEject, rowVars, LedgerStep
<1>2. CASE EnqueueRip(u) \/ EnqueueEnc(u)
  BY <1>2 DEF EnqueueRip, EnqueueEnc, rowVars, LedgerStep
<1>3. ASSUME Respond(u), ~(EnqueueRip(u) \/ EnqueueEnc(u)) PROVE LedgerStep
  <2>0. PICK r \in Rips : r = ujob[u]
    BY <1>3 DEF Respond, CreateRip, StopRipRow, StopEncRow, ResetTranscodeJob, DeleteRipJob,
                DeleteEncJob, CleanSpool, DropDisc, TypeOK
  <2>1. CASE CreateRip(u)
    <3>1. rip[r] = "none" /\ enc[r] = "none"
      BY <2>0, <2>1 DEF CreateRip, Custody, RipRows
    <3>2. UNCHANGED <<enc, spool>> /\ (rip' = rip \/ rip' = [rip EXCEPT ![r] = "queued"])
      BY <2>0, <2>1 DEF CreateRip
    <3>3. rip' = [rip EXCEPT ![r] = "queued"] => Ledger!Accept(r)
      BY <3>1, <3>2 DEF Ledger!Accept
    <3> QED BY <3>2, <3>3 DEF LedgerStep, Ledger!LNext
  <2>2. CASE StopRipRow(u)
    <3>1. UNCHANGED <<enc, spool>> /\ rip' = IF rip[r] \in Active THEN [rip EXCEPT ![r] = "cancelled"] ELSE rip
      BY <2>0, <2>2, StopOne DEF StopRipRow, TypeOK
    <3>2. rip[r] \in Active => Ledger!EndRip(r, "cancelled")
      BY <3>1 DEF Ledger!EndRip, Ledger!Open, Active
    <3> QED BY <3>1, <3>2 DEF LedgerStep, Ledger!LNext
  <2>3. CASE StopEncRow(u)
    <3>1. UNCHANGED <<rip, spool>> /\ enc' = IF enc[r] \in Active THEN [enc EXCEPT ![r] = "cancelled"] ELSE enc
      BY <2>0, <2>3, StopOne DEF StopEncRow, TypeOK
    <3>2. enc[r] \in Active => Ledger!EndEnc(r, "cancelled")
      BY <3>1 DEF Ledger!EndEnc, Ledger!Open, Active, Custody, SpoolHeld
    <3> QED BY <3>1, <3>2 DEF LedgerStep, Ledger!LNext
  <2>4. CASE ResetTranscodeJob(u)
    <3>1. /\ UNCHANGED <<rip, spool>>
          /\ enc' = IF enc[r] \in Retryable THEN [enc EXCEPT ![r] = "queued"] ELSE enc
      BY <2>0, <2>4 DEF ResetTranscodeJob
    <3>2. enc[r] \in Retryable => Ledger!Retry(r)
      BY <3>1, SameRetryable DEF Ledger!Retry, Custody, SpoolHeld
    <3> QED BY <3>1, <3>2 DEF LedgerStep, Ledger!LNext
  <2>5. CASE DeleteRipJob(u)
    BY <2>0, <2>5, LedgerForget DEF DeleteRipJob
  <2>6. CASE DeleteEncJob(u)
    <3>1. CASE enc[r] \in Stored
      BY <2>0, <2>6, <3>1, LedgerForget DEF DeleteEncJob
    <3>2. CASE enc[r] \notin Stored
      BY <2>0, <2>6, <3>2 DEF DeleteEncJob, rowVars, LedgerStep
    <3> QED BY <3>1, <3>2
  <2>7. CASE CleanSpool(u)
    <3>1. Ledger!Release(r)
      BY <2>0, <2>7 DEF CleanSpool, rowVars, Ledger!Release, Custody, EncRows
    <3> QED BY <3>1 DEF LedgerStep, Ledger!LNext
  <2>8. CASE DropDisc(u)
    BY <2>8, LedgerForget DEF DropDisc
  <2> QED BY <1>3, <2>1, <2>2, <2>3, <2>4, <2>5, <2>6, <2>7, <2>8 DEF Respond
<1> QED BY <1>1, <1>2, <1>3

(* Workers of drives.                                                       *)
LEMMA LedgerDrive ==
  ASSUME TypeOK, Custody, NEW d \in Drives, DriveStep(d)
  PROVE  LedgerStep
<1>1. CASE Dequeue(d) \/ PassGate(d) \/ LeaveDrive(d) \/ SpawnFails(d) \/ EnqueueEncode(d)
           \/ UnregisterRip(d)
  BY <1>1 DEF Dequeue, PassGate, LeaveDrive, SpawnFails, EnqueueEncode, UnregisterRip, rowVars, LedgerStep
<1>2. ASSUME \/ LoadRip(d) \/ StartRip(d) \/ \E out \in Outcomes : EndRip(d, out)
             \/ SpawnEncode(d) \/ FinishRip(d)
      PROVE  LedgerStep
  <2>0. PICK r \in Rips : r = djob[d]
    BY <1>2 DEF LoadRip, StartRip, EndRip, SpawnEncode, FinishRip, TypeOK, Outcomes
  <2>1. rip[r] \in InHand
    BY <1>2, <2>0 DEF LoadRip, StartRip, EndRip, SpawnEncode, FinishRip, HoldsRip, Custody, RipRows
  <2>2. dpc[d] \in {"load", "ready", "rip", "spawn"} => enc[r] = "none"
    BY <2>0 DEF Custody, RipRows
  <2>3. \A s \in Outcomes : UpdateJobState(rip, r, s) = rip \/
          (rip[r] \in Ledger!Open /\ UpdateJobState(rip, r, s) = [rip EXCEPT ![r] = s])
    BY <2>1, WriteOne DEF TypeOK, Ledger!Open, InHand, Stored, Active, Terminal
  <2>4. ASSUME NEW s \in Outcomes, rip' = UpdateJobState(rip, r, s), UNCHANGED <<enc, spool>>
        PROVE  LedgerStep
    <3>1. rip' = rip \/ Ledger!EndRip(r, s)
      BY <2>3, <2>4 DEF Ledger!EndRip
    <3> QED BY <2>4, <3>1 DEF LedgerStep, Ledger!LNext, Outcomes
  <2>5. CASE LoadRip(d)
    BY <2>0, <2>4, <2>5 DEF LoadRip, Outcomes, LedgerStep
  <2>6. CASE StartRip(d)
    <3>1. CASE d \in dcancel \/ rip[r] \notin Stored
      BY <2>0, <2>4, <2>6, <3>1 DEF StartRip, Outcomes
    <3>2. CASE ~(d \in dcancel \/ rip[r] \notin Stored)
      <4>1. /\ rip' = [rip EXCEPT ![r] = "running"] /\ enc' = enc /\ enc[r] = "none"
            /\ spool' = spool \cup ({r} \cap SplitRips)
        BY <2>0, <2>2, <2>6, <3>2, WriteOne DEF StartRip, TypeOK
      <4>2. Ledger!BeginRip(r)
        BY <2>1, <3>2, <4>1 DEF Ledger!BeginRip, Ledger!Open, InHand, Stored, Active, Terminal
      <4> QED BY <4>2 DEF LedgerStep, Ledger!LNext
    <3> QED BY <3>1, <3>2
  <2>7. CASE \E out \in Outcomes : EndRip(d, out)
    <3>1. /\ UNCHANGED <<rip, enc>> /\ enc[r] = "none"
          /\ spool' = spool \/ spool' = spool \ {r}
      BY <2>0, <2>2, <2>7 DEF EndRip, rowVars
    <3>2. spool' = spool \ {r} => Ledger!Abandon(r)
      BY <3>1 DEF Ledger!Abandon
    <3> QED BY <3>1, <3>2 DEF LedgerStep, Ledger!LNext
  <2>8. CASE SpawnEncode(d)
    <3>1. Ledger!Spawn(r)
      BY <2>0, <2>2, <2>8 DEF SpawnEncode, Ledger!Spawn, Custody, RipRows, Fills
    <3> QED BY <3>1 DEF LedgerStep, Ledger!LNext
  <2>9. CASE FinishRip(d)
    BY <2>0, <2>4, <2>9 DEF FinishRip
  <2> QED BY <1>2, <2>5, <2>6, <2>7, <2>8, <2>9
<1> QED BY <1>1, <1>2 DEF DriveStep

(* Workers of the pool.                                                     *)
LEMMA LedgerPool ==
  ASSUME TypeOK, Custody, NEW w \in Workers, PoolStep(w)
  PROVE  LedgerStep
<1>1. CASE DequeueEnc(w) \/ Acquire(w) \/ AbandonAcquire(w) \/ LeavePool(w)
           \/ (\E out \in Outcomes : EndEncode(w, out)) \/ UnregisterEnc(w)
  BY <1>1 DEF DequeueEnc, Acquire, AbandonAcquire, LeavePool, EndEncode, UnregisterEnc, rowVars, LedgerStep
<1>2. ASSUME LoadEnc(w) \/ StartEncode(w) \/ FinishEncode(w) \/ CleanupSpool(w)
      PROVE  LedgerStep
  <2>0. PICK r \in Rips : r = wjob[w]
    BY <1>2 DEF LoadEnc, StartEncode, FinishEncode, CleanupSpool, TypeOK, Outcomes
  <2>1. ASSUME NEW s \in Outcomes \cup {"running"}, Backed(r),
               enc' = UpdateJobState(enc, r, s), UNCHANGED <<rip, spool>>
        PROVE  LedgerStep
    <3>1. CASE enc[r] \notin Stored
      BY <2>1, <3>1, WriteOne DEF LedgerStep, TypeOK
    <3>2. CASE enc[r] \in Stored
      <4>1. enc' = [enc EXCEPT ![r] = s] /\ enc[r] \in Ledger!Open /\ r \in spool
        BY <2>1, <3>2, WriteOne DEF TypeOK, Backed, Ledger!Open, InHand, Stored, Active, Terminal
      <4>2. CASE s = "running"
        <5>1. Ledger!BeginEnc(r)
          BY <2>1, <4>1, <4>2 DEF Ledger!BeginEnc
        <5> QED BY <5>1 DEF LedgerStep, Ledger!LNext
      <4>3. CASE s \in Outcomes
        <5>1. Ledger!EndEnc(r, s)
          BY <2>1, <4>1 DEF Ledger!EndEnc
        <5> QED BY <4>3, <5>1 DEF LedgerStep, Ledger!LNext, Outcomes
      <4> QED BY <4>2, <4>3
    <3> QED BY <3>1, <3>2
  <2>2. wpc[w] \in {"load", "ready"} \cup Outcomes => Backed(r)
    BY <2>0 DEF Custody, EncRows, HoldsEnc, Outcomes
  <2>3. CASE LoadEnc(w)
    BY <2>0, <2>1, <2>2, <2>3 DEF LoadEnc, Outcomes, LedgerStep
  <2>4. CASE StartEncode(w)
    BY <2>0, <2>1, <2>2, <2>4 DEF StartEncode, Outcomes
  <2>5. CASE FinishEncode(w)
    BY <2>0, <2>1, <2>2, <2>5 DEF FinishEncode
  <2>6. CASE CleanupSpool(w)
    <3>1. Ledger!Release(r)
      BY <2>0, <2>6 DEF CleanupSpool, rowVars, Ledger!Release, Custody, EncRows
    <3> QED BY <3>1 DEF LedgerStep, Ledger!LNext
  <2> QED BY <1>2, <2>3, <2>4, <2>5, <2>6
<1> QED BY <1>1, <1>2 DEF PoolStep

(* The process, and who else deletes rows.                                  *)
LEMMA LedgerProcess ==
  ASSUME TypeOK, Custody,
         \/ \E x \in Discs : InsertDisc(x)
         \/ ClearHistory
         \/ \E rips, encs \in SUBSET Rips : PruneHistory(rips, encs)
         \/ Crash \/ Close \/ ClosePool \/ Exit \/ Restart
  PROVE  LedgerStep
<1>1. CASE (\E x \in Discs : InsertDisc(x)) \/ Crash \/ Close \/ ClosePool \/ Exit
  BY <1>1 DEF InsertDisc, Crash, Close, ClosePool, Exit, LoseMemory, rowVars, LedgerStep
<1>2. CASE ClearHistory
  <2>1. /\ {r \in Rips : rip[r] \in Terminal} \in SUBSET Rips
        /\ {r \in Rips : enc[r] \in Terminal} \in SUBSET Rips
    OBVIOUS
  <2> QED BY <1>2, <2>1, LedgerForget DEF ClearHistory
<1>3. CASE \E rips, encs \in SUBSET Rips : PruneHistory(rips, encs)
  BY <1>3, LedgerForget DEF PruneHistory
<1>4. CASE Restart
  <2>1. spool' = spool \cap ActiveSpoolReferences(rip', enc', RipKind)
    BY <1>4 DEF Restart
  <2>2. DOMAIN enc' = Rips /\ spool \subseteq Rips
    BY <1>4 DEF Restart, MarkInterruptedJobs, TypeOK
  <2>3. \A r \in spool : enc'[r] \in Retryable => r \in spool'
    BY <2>1, <2>2 DEF ActiveSpoolReferences
  <2>4. Ledger!Reboot
    BY <1>4, <2>1, <2>3, SameRetryable, SameRecovery DEF Restart, Ledger!Reboot
  <2> QED BY <2>4 DEF LedgerStep, Ledger!LNext
<1> QED BY <1>1, <1>2, <1>3, <1>4

(* Every step of the engine is a step of the ledger or none of its business.*)
LEMMA LedgerNext ==
  ASSUME IInv, [Next]_vars
  PROVE  [Ledger!LNext]_(Ledger!ledger)
<1>1. LedgerStep
  BY LedgerUser, LedgerDrive, LedgerPool, LedgerProcess
     DEF IInv, Next, vars, rowVars, LedgerStep
<1> QED BY <1>1 DEF LedgerStep, Ledger!ledger

(* The engine implements JobLedger.                                         *)
THEOREM LedgerKept == Spec => KeepsLedger
<1>1. Init => Ledger!LInit
  BY DEF Init, Ledger!LInit
<1> QED BY <1>1, LedgerNext, CustodyKept, PTL DEF Spec, KeepsLedger, Ledger!LedgerSpec

(* A step of the ledger respects what has been written: a rip that ended    *)
(* stays as it ended, a transcode is reopened only after a failure or an    *)
(* interruption.                                                            *)
LEMMA LedgerOutcomes ==
  ASSUME TypeOK, [Ledger!LNext]_(Ledger!ledger), NEW r \in Rips
  PROVE  /\ rip[r] \in {"done", "failed", "interrupted"} => rip'[r] \in {rip[r], "deleted"}
         /\ enc[r] = "done" => enc'[r] \in {"done", "deleted"}
         /\ enc[r] \in Retryable => enc'[r] \in {enc[r], "queued", "deleted"}
<1> DEFINE Kept ==
      /\ rip[r] \in {"done", "failed", "interrupted"} => rip'[r] \in {rip[r], "deleted"}
      /\ enc[r] = "done" => enc'[r] \in {"done", "deleted"}
      /\ enc[r] \in Retryable => enc'[r] \in {enc[r], "queued", "deleted"}
<1>1. CASE UNCHANGED Ledger!ledger
  BY <1>1 DEF Ledger!ledger
<1>2. ASSUME NEW q \in Rips,
             \/ Ledger!Accept(q) \/ Ledger!BeginRip(q) \/ Ledger!Abandon(q) \/ Ledger!Spawn(q)
             \/ Ledger!BeginEnc(q) \/ Ledger!Retry(q) \/ Ledger!Release(q)
      PROVE  Kept
  BY <1>2 DEF Ledger!Accept, Ledger!BeginRip, Ledger!Abandon, Ledger!Spawn, Ledger!BeginEnc,
              Ledger!Retry, Ledger!Release, Ledger!Open, Ledger!Retryable, Retryable, TypeOK
<1>3. ASSUME NEW q \in Rips, NEW out \in {"done", "failed", "cancelled"},
             Ledger!EndRip(q, out) \/ Ledger!EndEnc(q, out)
      PROVE  Kept
  BY <1>3 DEF Ledger!EndRip, Ledger!EndEnc, Ledger!Open, Retryable, TypeOK
<1>4. ASSUME NEW rips \in SUBSET Rips, NEW encs \in SUBSET Rips, Ledger!Forget(rips, encs)
      PROVE  Kept
  <2>1. rip' = DeleteJobs(rip, rips) /\ enc' = DeleteJobs(enc, encs)
    BY <1>4, SameDeletion DEF Ledger!Forget
  <2>2. rip'[r] \in {rip[r], "deleted"} /\ enc'[r] \in {enc[r], "deleted"}
    BY <2>1 DEF DeleteJobs, TypeOK
  <2> QED BY <2>2
<1>5. CASE Ledger!Reboot
  <2>1. rip' = MarkInterruptedJobs(rip) /\ enc' = MarkInterruptedJobs(enc)
    BY <1>5, SameRecovery DEF Ledger!Reboot
  <2>2. /\ rip[r] \notin Active => rip'[r] = rip[r]
        /\ enc[r] \notin Active => enc'[r] = enc[r]
    BY <2>1 DEF MarkInterruptedJobs, TypeOK
  <2> QED BY <2>2 DEF Active, Retryable
<1> QED BY <1>1, <1>2, <1>3, <1>4, <1>5 DEF Ledger!LNext

(* Outcomes are the last word.                                              *)
THEOREM OutcomesAreLast == Spec => OutcomesLast
<1>1. IInv /\ [Next]_vars =>
        \A r \in Rips :
          /\ rip[r] \in {"done", "failed", "interrupted"} => rip'[r] \in {rip[r], "deleted"}
          /\ enc[r] = "done" => enc'[r] \in {"done", "deleted"}
          /\ enc[r] \in Retryable => enc'[r] \in {enc[r], "queued", "deleted"}
  BY LedgerNext, LedgerOutcomes DEF IInv
<1> QED BY <1>1, CustodyKept, PTL DEF Spec, OutcomesLast
(***************************************************************************)
(* Nothing is stranded while the daemon is up: a queued row is in a queue  *)
(* or on its way to or from one, a running row has a worker that will      *)
(* write its end, a drive shown as ripping has a worker at it; and a disc  *)
(* is never queued twice.  None of it needs Custody, only the types.       *)
(***************************************************************************)

(* The two halves of NoStrandedJob.                                         *)
RipsPlaced ==
  \A r \in Rips : /\ rip[r] = "queued"  => RipInTransit(r)
                  /\ rip[r] = "running" => RipAtWork(r)

EncsPlaced ==
  \A r \in Rips : /\ enc[r] = "queued"  => EncInTransit(r)
                  /\ enc[r] = "running" => EncAtWork(r)

(* Where the drive worker is while the drive's row says `ripping'.          *)
AtTheDrive == {"rip", "spawn", "enqueue"} \cup Outcomes

(* RippingIsReal also while the daemon closes.                              *)
RippingBusy == phase # "down" => \A d \in ripping : dpc[d] \in AtTheDrive

(* A request that holds startMu.                                            *)
HoldsStartMu(u) == upc[u] \in {"create", "enqueueRip"} /\ KindOf[ujob[u]] # "scan"

(* startMu is a mutex, and what its holder has checked stays true until it  *)
(* creates the row.                                                         *)
StartLock ==
  /\ \A u, v \in Users : HoldsStartMu(u) /\ HoldsStartMu(v) => u = v
  /\ \A u \in Users : HoldsStartMu(u) /\ upc[u] = "create" =>
       \A q \in RipKind : DiscOf[q] = DiscOf[ujob[u]] => rip[q] # "queued"

(* The inductive invariant.                                                 *)
Progress ==
  /\ phase = "up" => RipsPlaced /\ EncsPlaced
  /\ RippingBusy
  /\ StartLock
  /\ QueuedOnce

-----------------------------------------------------------------------------
(* What the statements on the store can do to an active row.                *)

(* No row becomes active, or another active state.                          *)
RowsFade(rows) == \A r \in Rips : rows'[r] \in Active => rows'[r] = rows[r]

(* An unconditional write of a terminal state.                              *)
LEMMA WriteFades ==
  ASSUME NEW rows \in [Rips -> RowState], NEW r \in Rips, NEW s \in Terminal,
         NEW new, new = UpdateJobState(rows, r, s)
  PROVE  \A q \in Rips : new[q] \in Active => new[q] = rows[q] /\ q # r
PROOF BY DEF UpdateJobState, Active, Terminal, Stored

(* A Stop of last resort.                                                   *)
LEMMA StopFades ==
  ASSUME NEW rows \in [Rips -> RowState], NEW r \in Rips,
         NEW new, new = CancelJobIfActive(rows, r)
  PROVE  \A q \in Rips : new[q] \in Active => new[q] = rows[q]
PROOF BY DEF CancelJobIfActive, Active

(* A deletion.                                                              *)
LEMMA DeleteFades ==
  ASSUME TypeOK, NEW gone, NEW rips, NEW encs, DeleteRows(gone, rips, encs)
  PROVE  RowsFade(rip) /\ RowsFade(enc)
<1>1. DOMAIN rip = Rips /\ DOMAIN enc = Rips
  BY DEF TypeOK
<1> QED BY <1>1 DEF DeleteRows, DeleteJobs, RowsFade, Active

(* The recovery at start-up leaves no active row.                           *)
LEMMA RestartFades ==
  ASSUME TypeOK, Restart
  PROVE  \A r \in Rips : rip'[r] \notin Active /\ enc'[r] \notin Active
PROOF BY DEF TypeOK, Restart, MarkInterruptedJobs, Active

-----------------------------------------------------------------------------
(* Steps that move no job.                                                  *)

(* Drives, their queues and requests with a rip to enqueue stay.            *)
RipsQuiet ==
  /\ driveQ' = driveQ /\ dpc' = dpc /\ djob' = djob
  /\ \A u \in Users : upc[u] = "enqueueRip" => upc'[u] = upc[u] /\ ujob'[u] = ujob[u]
  /\ RowsFade(rip)

(* The pool, its queue and whoever has a transcode to enqueue stay.         *)
EncsQuiet ==
  /\ encQ' = encQ /\ wpc' = wpc /\ wjob' = wjob
  /\ \A d \in Drives : dpc[d] = "enqueue" => dpc'[d] = dpc[d] /\ djob'[d] = djob[d]
  /\ \A u \in Users : upc[u] = "enqueueEnc" => upc'[u] = upc[u] /\ ujob'[u] = ujob[u]
  /\ RowsFade(enc)

(* Such a step strands no rip.                                              *)
LEMMA QuietRips == RipsPlaced /\ RipsQuiet => RipsPlaced'
PROOF BY DEF RipsPlaced, RipsQuiet, RowsFade, RipInTransit, RipAtWork, Active

(* Nor a transcode.                                                         *)
LEMMA QuietEncs == EncsPlaced /\ EncsQuiet => EncsPlaced'
PROOF BY DEF EncsPlaced, EncsQuiet, RowsFade, EncInTransit, EncAtWork, Active, Outcomes

(* A step that touches no row makes none active.                            *)
LEMMA SameFades == /\ rip' = rip => RowsFade(rip)
                   /\ enc' = enc => RowsFade(enc)
PROOF BY DEF RowsFade

(* The requests that do not create or enqueue a rip.                        *)
LEMMA RequestQuietRips ==
  ASSUME TypeOK, NEW u \in Users,
         \/ NewRequest(u)
         \/ StopRipRow(u) \/ StopEncRow(u) \/ ResetTranscodeJob(u) \/ EnqueueEnc(u)
         \/ DeleteRipJob(u) \/ DeleteEncJob(u) \/ CleanSpool(u) \/ DropDisc(u)
  PROVE  RipsQuiet
<1>1. driveQ' = driveQ /\ dpc' = dpc /\ djob' = djob
  BY DEF NewRequest, CheckStart, CheckRetry, StopRip, StopEnc, CheckDeleteRip,
         CheckDeleteEnc, CheckDropDisc, CheckEject, StopRipRow, StopEncRow,
         ResetTranscodeJob, EnqueueEnc, DeleteRipJob, DeleteEncJob, CleanSpool,
         DropDisc, driveVars
<1>2. /\ upc[u] # "enqueueRip"
      /\ UNCHANGED userVars \/ \E pc \in UserPc, r \in Rips \cup {NoRip} : GoTo(u, pc, r)
  <2>1. CASE NewRequest(u)
    BY <2>1 DEF NewRequest, CheckStart, CheckRetry, StopRip, StopEnc, CheckDeleteRip,
           CheckDeleteEnc, CheckDropDisc, CheckEject, Receive, Idle, UserPc
  <2>2. CASE ~NewRequest(u)
    BY <2>2 DEF StopRipRow, StopEncRow, ResetTranscodeJob, EnqueueEnc, DeleteRipJob,
           DeleteEncJob, CleanSpool, DropDisc, Return, UserPc, TypeOK
  <2> QED BY <2>1, <2>2
<1>3. \A v \in Users : upc[v] = "enqueueRip" => upc'[v] = upc[v] /\ ujob'[v] = ujob[v]
  BY <1>2 DEF GoTo, userVars, TypeOK
<1>4. RowsFade(rip)
  <2>1. CASE NewRequest(u) \/ StopEncRow(u) \/ ResetTranscodeJob(u) \/ EnqueueEnc(u) \/ CleanSpool(u)
    BY <2>1, SameFades DEF NewRequest, CheckStart, CheckRetry, StopRip, StopEnc,
           CheckDeleteRip, CheckDeleteEnc, CheckDropDisc, CheckEject, StopEncRow,
           ResetTranscodeJob, EnqueueEnc, CleanSpool, rowVars
  <2>2. CASE StopRipRow(u)
    <3>1. ujob[u] \in Rips /\ rip \in [Rips -> RowState]
      BY <2>2 DEF StopRipRow, TypeOK
    <3> QED BY <2>2, <3>1, StopFades DEF StopRipRow, RowsFade
  <2>3. CASE DeleteRipJob(u) \/ DeleteEncJob(u) \/ DropDisc(u)
    BY <2>3, DeleteFades, SameFades DEF DeleteRipJob, DeleteEncJob, DropDisc, rowVars
  <2> QED BY <2>1, <2>2, <2>3
<1> QED BY <1>1, <1>3, <1>4 DEF RipsQuiet

(* The requests that do not reset or enqueue a transcode.                   *)
LEMMA RequestQuietEncs ==
  ASSUME TypeOK, NEW u \in Users,
         \/ NewRequest(u)
         \/ CreateRip(u) \/ EnqueueRip(u) \/ StopRipRow(u) \/ StopEncRow(u)
         \/ DeleteRipJob(u) \/ DeleteEncJob(u) \/ CleanSpool(u) \/ DropDisc(u)
  PROVE  EncsQuiet
<1>1. encQ' = encQ /\ wpc' = wpc /\ wjob' = wjob /\ dpc' = dpc /\ djob' = djob
  BY DEF NewRequest, CheckStart, CheckRetry, StopRip, StopEnc, CheckDeleteRip,
         CheckDeleteEnc, CheckDropDisc, CheckEject, CreateRip, EnqueueRip, StopRipRow,
         StopEncRow, DeleteRipJob, DeleteEncJob, CleanSpool, DropDisc, driveVars, poolVars
<1>2. /\ upc[u] # "enqueueEnc"
      /\ UNCHANGED userVars \/ \E pc \in UserPc, r \in Rips \cup {NoRip} : GoTo(u, pc, r)
  <2>1. CASE NewRequest(u)
    BY <2>1 DEF NewRequest, CheckStart, CheckRetry, StopRip, StopEnc, CheckDeleteRip,
           CheckDeleteEnc, CheckDropDisc, CheckEject, Receive, Idle, UserPc
  <2>2. CASE ~NewRequest(u)
    BY <2>2 DEF CreateRip, EnqueueRip, StopRipRow, StopEncRow, DeleteRipJob,
           DeleteEncJob, CleanSpool, DropDisc, Return, UserPc, TypeOK
  <2> QED BY <2>1, <2>2
<1>3. \A v \in Users : upc[v] = "enqueueEnc" => upc'[v] = upc[v] /\ ujob'[v] = ujob[v]
  BY <1>2 DEF GoTo, userVars, TypeOK
<1>4. RowsFade(enc)
  <2>1. CASE NewRequest(u) \/ CreateRip(u) \/ EnqueueRip(u) \/ StopRipRow(u) \/ CleanSpool(u)
    BY <2>1, SameFades DEF NewRequest, CheckStart, CheckRetry, StopRip, StopEnc,
           CheckDeleteRip, CheckDeleteEnc, CheckDropDisc, CheckEject, CreateRip,
           EnqueueRip, StopRipRow, CleanSpool, rowVars
  <2>2. CASE StopEncRow(u)
    <3>1. ujob[u] \in Rips /\ enc \in [Rips -> RowState]
      BY <2>2 DEF StopEncRow, TypeOK
    <3> QED BY <2>2, <3>1, StopFades DEF StopEncRow, RowsFade
  <2>3. CASE DeleteRipJob(u) \/ DeleteEncJob(u) \/ DropDisc(u)
    BY <2>3, DeleteFades, SameFades DEF DeleteRipJob, DeleteEncJob, DropDisc, rowVars
  <2> QED BY SMTT(30), <2>1, <2>2, <2>3
<1> QED BY <1>1, <1>3, <1>4 DEF EncsQuiet

(* The sweeper, a new disc and the start of a shutdown.                     *)
LEMMA HouseQuiet ==
  ASSUME TypeOK,
         \/ \E x \in Discs : InsertDisc(x)
         \/ ClearHistory
         \/ \E rips, encs \in SUBSET Rips : PruneHistory(rips, encs)
         \/ Close \/ ClosePool
  PROVE  RipsQuiet /\ EncsQuiet /\ ripping' = ripping /\ UNCHANGED <<upc, ujob>>
<1>1. CASE (\E x \in Discs : InsertDisc(x)) \/ Close \/ ClosePool
  BY <1>1, SameFades DEF InsertDisc, Close, ClosePool, RipsQuiet, EncsQuiet, driveVars,
         poolVars, userVars, rowVars
<1>2. CASE ClearHistory
  BY <1>2, DeleteFades DEF ClearHistory, RipsQuiet, EncsQuiet, driveVars, poolVars, userVars
<1>3. ASSUME NEW rips \in SUBSET Rips, NEW encs \in SUBSET Rips, PruneHistory(rips, encs)
      PROVE  RipsQuiet /\ EncsQuiet /\ ripping' = ripping /\ UNCHANGED <<upc, ujob>>
  BY <1>3, DeleteFades DEF PruneHistory, RipsQuiet, EncsQuiet, driveVars, poolVars, userVars
<1> QED BY <1>1, <1>2, <1>3

-----------------------------------------------------------------------------
(* Queues.                                                                  *)

(* What a longer queue holds.                                               *)
LEMMA AppendHolds ==
  ASSUME NEW S, NEW q \in Seq(S), NEW x \in S
  PROVE  /\ \E i \in 1..Len(Append(q, x)) : Append(q, x)[i] = x
         /\ \A i \in 1..Len(q) :
              i \in 1..Len(Append(q, x)) /\ Append(q, x)[i] = q[i]
<1>1. Len(Append(q, x)) = Len(q) + 1 /\ Len(q) \in Nat
  OBVIOUS
<1>2. Append(q, x)[Len(q) + 1] = x
  OBVIOUS
<1>3. \A i \in 1..Len(q) : Append(q, x)[i] = q[i]
  OBVIOUS
<1> QED BY <1>1, <1>2, <1>3

(* What is left of a queue when its head is taken.                          *)
LEMMA TailHolds ==
  ASSUME NEW S, NEW q \in Seq(S), q # <<>>
  PROVE  \A i \in 1..Len(q) :
            q[i] = Head(q) \/ \E j \in 1..Len(Tail(q)) : Tail(q)[j] = q[i]
<1> SUFFICES ASSUME NEW i \in 1..Len(q), i # 1
             PROVE  \E j \in 1..Len(Tail(q)) : Tail(q)[j] = q[i]
  OBVIOUS
<1>1. Len(Tail(q)) = Len(q) - 1 /\ Len(q) \in Nat
  OBVIOUS
<1>2. i - 1 \in 1..Len(Tail(q))
  BY <1>1
<1>3. Tail(q)[i - 1] = q[i]
  BY <1>1, <1>2
<1> QED BY <1>2, <1>3

-----------------------------------------------------------------------------
(* Steps that move a rip.                                                   *)

(* The row is queued by the request that then has to enqueue it.            *)
LEMMA CreatePlaces ==
  ASSUME TypeOK, RipsPlaced, NEW u \in Users, CreateRip(u)
  PROVE  RipsPlaced'
<1>1. driveQ' = driveQ /\ dpc' = dpc /\ djob' = djob
  BY DEF CreateRip, driveVars
<1>2. CASE discRow[DiscOf[ujob[u]]] # "present"
  <2>1. rip' = rip /\ upc' = [upc EXCEPT ![u] = "idle"] /\ ujob' = [ujob EXCEPT ![u] = NoRip]
    BY <1>2 DEF CreateRip, Return, GoTo
  <2>2. \A v \in Users : upc[v] = "enqueueRip" => upc'[v] = upc[v] /\ ujob'[v] = ujob[v]
    BY <2>1 DEF CreateRip, TypeOK
  <2> QED BY <1>1, <2>1, <2>2, SameFades, QuietRips DEF RipsQuiet
<1>3. CASE discRow[DiscOf[ujob[u]]] = "present"
  <2>1. /\ rip' = [rip EXCEPT ![ujob[u]] = "queued"]
        /\ upc' = [upc EXCEPT ![u] = "enqueueRip"] /\ ujob' = [ujob EXCEPT ![u] = ujob[u]]
    BY <1>3 DEF CreateRip, GoTo
  <2>2. /\ ujob[u] \in Rips /\ upc'[u] = "enqueueRip" /\ ujob' = ujob
        /\ \A v \in Users : upc[v] = "enqueueRip" => upc'[v] = upc[v]
        /\ rip'[ujob[u]] = "queued"
        /\ \A q \in Rips : q # ujob[u] => rip'[q] = rip[q]
    BY <2>1 DEF CreateRip, TypeOK
  <2> QED BY <1>1, <2>2 DEF RipsPlaced, RipInTransit, RipAtWork
<1> QED BY <1>2, <1>3

(* From the request's hands to the end of the drive's queue.                *)
LEMMA EnqueuePlaces ==
  ASSUME TypeOK, RipsPlaced, NEW u \in Users, EnqueueRip(u)
  PROVE  RipsPlaced'
<1> USE TopologyAssumption
<1>0. PICK r \in Rips, e \in Drives : r = ujob[u] /\ e = DriveOf[DiscOf[r]]
  BY DEF EnqueueRip, TypeOK
<1>1. /\ driveQ' = [driveQ EXCEPT ![e] = Append(driveQ[e], r)]
      /\ upc' = [upc EXCEPT ![u] = "idle"] /\ ujob' = [ujob EXCEPT ![u] = NoRip]
      /\ rip' = rip /\ dpc' = dpc /\ djob' = djob
  BY <1>0 DEF EnqueueRip, GoTo, Return, rowVars
<1>2. driveQ[e] \in Seq(Rips) /\ driveQ'[e] = Append(driveQ[e], r)
  BY <1>1 DEF TypeOK
<1>3. /\ \E i \in 1..Len(driveQ'[e]) : driveQ'[e][i] = r
      /\ \A i \in 1..Len(driveQ[e]) : i \in 1..Len(driveQ'[e]) /\ driveQ'[e][i] = driveQ[e][i]
  <2> DEFINE q == Append(driveQ[e], r)
  <2>1. \E i \in 1..Len(q) : q[i] = r
    BY <1>2, AppendHolds
  <2>2. \A i \in 1..Len(driveQ[e]) : i \in 1..Len(q) /\ q[i] = driveQ[e][i]
    BY <1>2, AppendHolds
  <2>3. driveQ'[e] = q
    BY <1>2
  <2> HIDE DEF q
  <2> QED BY <2>1, <2>2, <2>3
<1>4. \A d \in Drives : d # e => driveQ'[d] = driveQ[d]
  BY <1>1 DEF TypeOK
<1>5. \A v \in Users : upc[v] = "enqueueRip" /\ ujob[v] # r => upc'[v] = upc[v] /\ ujob'[v] = ujob[v]
  BY <1>0, <1>1 DEF TypeOK
<1>6. ASSUME NEW q \in Rips, RipInTransit(q) PROVE RipInTransit(q)'
  <2>1. CASE q = r
    BY <1>3, <2>1 DEF RipInTransit
  <2>2. CASE q # r /\ \E v \in Users : ujob[v] = q /\ upc[v] = "enqueueRip"
    BY <1>5, <2>2 DEF RipInTransit
  <2>3. CASE \E d \in Drives : djob[d] = q /\ dpc[d] \in {"gate", "load", "ready"}
    BY <1>1, <2>3 DEF RipInTransit
  <2>4. ASSUME NEW d \in Drives, NEW i \in 1..Len(driveQ[d]), driveQ[d][i] = q
        PROVE  RipInTransit(q)'
    <3>1. CASE d = e
      BY <1>3, <2>4, <3>1 DEF RipInTransit
    <3>2. CASE d # e
      BY <1>4, <2>4, <3>2 DEF RipInTransit
    <3> QED BY <3>1, <3>2
  <2> QED BY <1>6, <2>1, <2>2, <2>3, <2>4 DEF RipInTransit
<1>7. \A q \in Rips : RipAtWork(q)' <=> RipAtWork(q)
  BY <1>1 DEF RipAtWork
<1> QED BY <1>1, <1>6, <1>7 DEF RipsPlaced

(* From the queue into the worker's hands.                                  *)
LEMMA DequeuePlaces ==
  ASSUME TypeOK, RipsPlaced, NEW e \in Drives, Dequeue(e)
  PROVE  RipsPlaced'
<1>1. /\ driveQ' = [driveQ EXCEPT ![e] = Tail(driveQ[e])]
      /\ djob' = [djob EXCEPT ![e] = Head(driveQ[e])]
      /\ dpc' = [dpc EXCEPT ![e] = "gate"] /\ dpc[e] = "idle"
      /\ rip' = rip /\ upc' = upc /\ ujob' = ujob
  BY DEF Dequeue, DriveGoTo, rowVars, userVars
<1>2. driveQ[e] \in Seq(Rips) /\ driveQ[e] # <<>> /\ driveQ'[e] = Tail(driveQ[e])
  BY <1>1 DEF TypeOK, Dequeue
<1>3. \A i \in 1..Len(driveQ[e]) :
         \/ driveQ[e][i] = Head(driveQ[e])
         \/ \E j \in 1..Len(driveQ'[e]) : driveQ'[e][j] = driveQ[e][i]
  BY <1>2, TailHolds
<1>4. /\ djob'[e] = Head(driveQ[e]) /\ dpc'[e] = "gate"
      /\ \A d \in Drives : d # e => driveQ'[d] = driveQ[d] /\ djob'[d] = djob[d] /\ dpc'[d] = dpc[d]
  BY <1>1 DEF TypeOK
<1>5. ASSUME NEW q \in Rips, RipInTransit(q) PROVE RipInTransit(q)'
  <2>1. CASE \E v \in Users : ujob[v] = q /\ upc[v] = "enqueueRip"
    BY <1>1, <2>1 DEF RipInTransit
  <2>2. CASE \E d \in Drives : djob[d] = q /\ dpc[d] \in {"gate", "load", "ready"}
    BY <1>1, <1>4, <2>2 DEF RipInTransit
  <2>3. ASSUME NEW d \in Drives, NEW i \in 1..Len(driveQ[d]), driveQ[d][i] = q
        PROVE  RipInTransit(q)'
    <3>1. CASE d = e
      BY <1>3, <1>4, <2>3, <3>1 DEF RipInTransit
    <3>2. CASE d # e
      BY <1>4, <2>3, <3>2 DEF RipInTransit
    <3> QED BY <3>1, <3>2
  <2> QED BY <1>5, <2>1, <2>2, <2>3 DEF RipInTransit
<1>6. \A q \in Rips : RipAtWork(q) => RipAtWork(q)'
  BY <1>1, <1>4 DEF RipAtWork, Outcomes
<1> QED BY <1>1, <1>5, <1>6 DEF RipsPlaced

(* What the worker does with it: the row follows the worker.                *)
LEMMA WorkerPlaces ==
  ASSUME TypeOK, RipsPlaced, NEW d \in Drives, phase = "up",
         \/ PassGate(d) \/ LeaveDrive(d) \/ LoadRip(d) \/ StartRip(d)
         \/ \E out \in Outcomes : EndRip(d, out)
         \/ SpawnEncode(d) \/ SpawnFails(d) \/ EnqueueEncode(d)
         \/ FinishRip(d) \/ UnregisterRip(d)
  PROVE  RipsPlaced'
<1>1. UNCHANGED <<driveQ, upc, ujob>>
  BY DEF PassGate, LeaveDrive, LoadRip, StartRip, EndRip, SpawnEncode, SpawnFails,
         EnqueueEncode, FinishRip, UnregisterRip, userVars
<1>2. /\ dpc[d] # "idle"
      /\ djob' = djob \/ (dpc[d] = "unregister" /\ djob' = [djob EXCEPT ![d] = NoRip])
      /\ \E pc \in DrivePc : dpc' = [dpc EXCEPT ![d] = pc]
  BY DEF PassGate, LeaveDrive, LoadRip, StartRip, EndRip, SpawnEncode, SpawnFails,
         EnqueueEncode, FinishRip, UnregisterRip, DriveGoTo, DrivePc, Outcomes
<1>3. \A e \in Drives : e # d => dpc'[e] = dpc[e] /\ djob'[e] = djob[e]
  BY <1>2 DEF TypeOK
<1>4. ASSUME NEW q \in Rips, q # djob[d]
      PROVE  /\ RipInTransit(q) => RipInTransit(q)'
             /\ RipAtWork(q) => RipAtWork(q)'
  BY <1>1, <1>3, <1>4 DEF RipInTransit, RipAtWork
<1>5. CASE PassGate(d)
  <2>1. rip' = rip /\ djob' = djob /\ dpc[d] = "gate" /\ dpc'[d] = "load"
    BY <1>5 DEF PassGate, DriveGoTo, rowVars, TypeOK
  <2> QED BY <1>1, <1>3, <2>1 DEF RipsPlaced, RipInTransit, RipAtWork, Outcomes
<1>6. CASE LeaveDrive(d)
  BY <1>6 DEF LeaveDrive
<1>7. CASE LoadRip(d)
  <2>0. djob[d] \in Rips /\ djob' = djob /\ dpc[d] = "load"
    BY <1>7 DEF LoadRip, TypeOK
  <2>1. CASE d \in dcancel \/ rip[djob[d]] \notin Stored
    <3>1. \A q \in Rips : rip'[q] \in Active => rip'[q] = rip[q] /\ q # djob[d]
      BY SMTT(30), <1>7, <2>0, <2>1, WriteFades DEF LoadRip, TypeOK, Terminal
    <3> QED BY <1>4, <3>1 DEF RipsPlaced, Active
  <2>2. CASE ~(d \in dcancel \/ rip[djob[d]] \notin Stored)
    <3>1. rip' = rip /\ dpc'[d] = IF rip[djob[d]] = "cancelled" THEN "unregister" ELSE "ready"
      BY <1>7, <2>2 DEF LoadRip, DriveGoTo, TypeOK
    <3>2. rip[djob[d]] = "queued" => RipInTransit(djob[d])'
      BY <2>0, <3>1 DEF RipInTransit
    <3>3. rip[djob[d]] = "running" => RipAtWork(djob[d])'
      BY <1>3, <2>0 DEF RipsPlaced, RipAtWork, Outcomes
    <3> QED BY <1>4, <2>0, <3>1, <3>2, <3>3 DEF RipsPlaced
  <2> QED BY <2>1, <2>2
<1>8. CASE StartRip(d)
  <2>0. djob[d] \in Rips /\ djob' = djob /\ dpc[d] = "ready" /\ rip \in [Rips -> RowState]
    BY <1>8 DEF StartRip, TypeOK
  <2>1. CASE d \in dcancel \/ rip[djob[d]] \notin Stored
    <3>1. \A q \in Rips : rip'[q] \in Active => rip'[q] = rip[q] /\ q # djob[d]
      BY <1>8, <2>0, <2>1, WriteFades DEF StartRip, Terminal
    <3> QED BY <1>4, <3>1 DEF RipsPlaced, Active
  <2>2. CASE ~(d \in dcancel \/ rip[djob[d]] \notin Stored)
    <3>1. rip' = UpdateJobState(rip, djob[d], "running") /\ dpc'[d] = "rip"
      BY <1>8, <2>2 DEF StartRip, DriveGoTo, TypeOK
    <3>2. rip'[djob[d]] = "running" /\ \A q \in Rips : q # djob[d] => rip'[q] = rip[q]
      BY <2>0, <2>2, <3>1 DEF UpdateJobState
    <3>3. RipAtWork(djob[d])'
      BY <2>0, <3>1 DEF RipAtWork
    <3>4. ASSUME NEW q \in Rips
          PROVE  /\ rip'[q] = "queued"  => RipInTransit(q)'
                 /\ rip'[q] = "running" => RipAtWork(q)'
      <4>1. CASE q = djob[d]
        BY <2>0, <3>2, <3>3, <4>1 DEF RipAtWork
      <4>2. CASE q # djob[d]
        BY <1>4, <3>2, <4>2 DEF RipsPlaced
      <4> QED BY <4>1, <4>2
    <3> QED BY <3>4 DEF RipsPlaced
  <2> QED BY <2>1, <2>2
<1>9. CASE \/ \E out \in Outcomes : EndRip(d, out)
           \/ SpawnEncode(d) \/ SpawnFails(d) \/ EnqueueEncode(d)
  <2>1. rip' = rip /\ djob' = djob /\ dpc[d] \in {"rip", "spawn", "enqueue"}
    BY <1>9 DEF EndRip, SpawnEncode, SpawnFails, EnqueueEncode, rowVars
  <2>2. dpc'[d] \in {"spawn", "enqueue"} \cup Outcomes
    BY <1>9 DEF EndRip, SpawnEncode, SpawnFails, EnqueueEncode, DriveGoTo, TypeOK, Outcomes
  <2>3. \A q \in Rips : RipInTransit(q) => RipInTransit(q)'
    BY <1>1, <1>3, <2>1 DEF RipInTransit
  <2>4. \A q \in Rips : RipAtWork(q) => RipAtWork(q)'
    BY <1>3, <2>1, <2>2 DEF RipAtWork
  <2> QED BY <2>1, <2>3, <2>4 DEF RipsPlaced
<1>10. CASE FinishRip(d)
  <2>1. djob[d] \in Rips /\ djob' = djob /\ dpc[d] \in Terminal
    BY <1>10 DEF FinishRip, TypeOK, Outcomes, Terminal
  <2>2. \A q \in Rips : rip'[q] \in Active => rip'[q] = rip[q] /\ q # djob[d]
    <3>1. rip \in [Rips -> RowState] /\ rip' = UpdateJobState(rip, djob[d], dpc[d])
      BY <1>10 DEF FinishRip, TypeOK
    <3> QED BY <2>1, <3>1, WriteFades
  <2> QED BY <1>4, <2>2 DEF RipsPlaced, Active
<1>11. CASE UnregisterRip(d)
  <2>1. rip' = rip /\ dpc[d] = "unregister"
    BY <1>11 DEF UnregisterRip, rowVars
  <2> QED BY <1>1, <1>3, <2>1 DEF RipsPlaced, RipInTransit, RipAtWork, Outcomes
<1> QED BY <1>5, <1>6, <1>7, <1>8, <1>9, <1>10, <1>11

-----------------------------------------------------------------------------
(* Steps that move a transcode.                                             *)

(* The reset of a retry: queued again, in the hands of its request.         *)
LEMMA ResetPlaces ==
  ASSUME TypeOK, EncsPlaced, NEW u \in Users, ResetTranscodeJob(u)
  PROVE  EncsPlaced'
<1>1. encQ' = encQ /\ wpc' = wpc /\ wjob' = wjob /\ dpc' = dpc /\ djob' = djob
  BY DEF ResetTranscodeJob, driveVars, poolVars
<1>2. ujob[u] \in Rips /\ upc[u] = "reset"
  BY DEF ResetTranscodeJob, TypeOK
<1>3. CASE enc[ujob[u]] \notin Retryable
  <2>1. enc' = enc /\ upc' = [upc EXCEPT ![u] = "idle"] /\ ujob' = [ujob EXCEPT ![u] = NoRip]
    BY <1>3 DEF ResetTranscodeJob, Return, GoTo
  <2>2. \A v \in Users : upc[v] = "enqueueEnc" => upc'[v] = upc[v] /\ ujob'[v] = ujob[v]
    BY <1>2, <2>1 DEF TypeOK
  <2> QED BY <1>1, <2>1, <2>2, SameFades, QuietEncs DEF EncsQuiet
<1>4. CASE enc[ujob[u]] \in Retryable
  <2>1. /\ enc' = [enc EXCEPT ![ujob[u]] = "queued"]
        /\ upc' = [upc EXCEPT ![u] = "enqueueEnc"] /\ ujob' = [ujob EXCEPT ![u] = ujob[u]]
    BY <1>4 DEF ResetTranscodeJob, GoTo
  <2>2. /\ upc'[u] = "enqueueEnc" /\ ujob' = ujob
        /\ \A v \in Users : upc[v] = "enqueueEnc" => upc'[v] = upc[v]
        /\ enc'[ujob[u]] = "queued"
        /\ \A q \in Rips : q # ujob[u] => enc'[q] = enc[q]
    BY <1>2, <2>1 DEF TypeOK
  <2> QED BY <1>1, <2>2 DEF EncsPlaced, EncInTransit, EncAtWork
<1> QED BY <1>3, <1>4

(* Back onto the pool's queue, or onto it for the first time.               *)
LEMMA EnqueueEncPlaces ==
  ASSUME TypeOK, EncsPlaced,
         \/ \E u \in Users : EnqueueEnc(u)
         \/ \E d \in Drives : EnqueueEncode(d)
  PROVE  EncsPlaced'
<1>1. PICK r \in Rips :
        /\ encQ' = Append(encQ, r) /\ enc' = enc /\ wpc' = wpc /\ wjob' = wjob
        /\ \A d \in Drives : dpc[d] = "enqueue" /\ djob[d] # r =>
              dpc'[d] = dpc[d] /\ djob'[d] = djob[d]
        /\ \A u \in Users : upc[u] = "enqueueEnc" /\ ujob[u] # r =>
              upc'[u] = upc[u] /\ ujob'[u] = ujob[u]
  <2>1. ASSUME NEW u \in Users, EnqueueEnc(u)
        PROVE  \E r \in Rips :
        /\ encQ' = Append(encQ, r) /\ enc' = enc /\ wpc' = wpc /\ wjob' = wjob
        /\ \A d \in Drives : dpc[d] = "enqueue" /\ djob[d] # r =>
              dpc'[d] = dpc[d] /\ djob'[d] = djob[d]
        /\ \A v \in Users : upc[v] = "enqueueEnc" /\ ujob[v] # r =>
              upc'[v] = upc[v] /\ ujob'[v] = ujob[v]
    <3>1. ujob[u] \in Rips
      BY <2>1 DEF EnqueueEnc, TypeOK
    <3>2. /\ encQ' = Append(encQ, ujob[u])
          /\ upc' = [upc EXCEPT ![u] = "idle"] /\ ujob' = [ujob EXCEPT ![u] = NoRip]
          /\ UNCHANGED <<enc, wpc, wjob, dpc, djob>>
      BY <2>1 DEF EnqueueEnc, Return, GoTo, rowVars, driveVars
    <3>3. \A v \in Users : ujob[v] # ujob[u] => upc'[v] = upc[v] /\ ujob'[v] = ujob[v]
      BY <3>2 DEF TypeOK
    <3> QED BY <3>1, <3>2, <3>3
  <2>2. ASSUME NEW d \in Drives, EnqueueEncode(d)
        PROVE  \E r \in Rips :
        /\ encQ' = Append(encQ, r) /\ enc' = enc /\ wpc' = wpc /\ wjob' = wjob
        /\ \A e \in Drives : dpc[e] = "enqueue" /\ djob[e] # r =>
              dpc'[e] = dpc[e] /\ djob'[e] = djob[e]
        /\ \A v \in Users : upc[v] = "enqueueEnc" /\ ujob[v] # r =>
              upc'[v] = upc[v] /\ ujob'[v] = ujob[v]
    <3>1. djob[d] \in Rips
      BY <2>2 DEF EnqueueEncode, TypeOK
    <3>2. /\ encQ' = Append(encQ, djob[d]) /\ dpc' = [dpc EXCEPT ![d] = "done"]
          /\ UNCHANGED <<enc, wpc, wjob, upc, ujob, djob>>
      BY <2>2 DEF EnqueueEncode, DriveGoTo, rowVars, userVars
    <3>3. \A e \in Drives : djob[e] # djob[d] => dpc'[e] = dpc[e] /\ djob'[e] = djob[e]
      BY <3>2 DEF TypeOK
    <3> QED BY <3>1, <3>2, <3>3
  <2> QED BY <2>1, <2>2
<1>2. /\ \E i \in 1..Len(encQ') : encQ'[i] = r
      /\ \A i \in 1..Len(encQ) : i \in 1..Len(encQ') /\ encQ'[i] = encQ[i]
  <2>1. encQ \in Seq(Rips)
    BY DEF TypeOK
  <2> QED BY <1>1, <2>1, AppendHolds
<1>3. ASSUME NEW q \in Rips, EncInTransit(q) PROVE EncInTransit(q)'
  <2>1. CASE q = r
    BY <1>2, <2>1 DEF EncInTransit
  <2>2. CASE q # r
    BY <1>1, <1>2, <1>3, <2>2 DEF EncInTransit
  <2> QED BY <2>1, <2>2
<1>4. \A q \in Rips : EncAtWork(q)' <=> EncAtWork(q)
  BY <1>1 DEF EncAtWork
<1> QED BY <1>1, <1>3, <1>4 DEF EncsPlaced

(* A transcode row appears with the drive worker that has to enqueue it.    *)
LEMMA SpawnPlaces ==
  ASSUME TypeOK, EncsPlaced, NEW d \in Drives, SpawnEncode(d)
  PROVE  EncsPlaced'
<1>1. /\ djob[d] \in Rips /\ dpc[d] = "spawn" /\ djob' = djob
      /\ enc' = [enc EXCEPT ![djob[d]] = "queued"] /\ dpc' = [dpc EXCEPT ![d] = "enqueue"]
      /\ UNCHANGED <<encQ, wpc, wjob, upc, ujob>>
  BY DEF SpawnEncode, DriveGoTo, TypeOK, poolVars, userVars
<1>2. /\ dpc'[d] = "enqueue" /\ \A e \in Drives : dpc[e] = "enqueue" => dpc'[e] = dpc[e]
      /\ enc'[djob[d]] = "queued" /\ \A q \in Rips : q # djob[d] => enc'[q] = enc[q]
  BY <1>1 DEF TypeOK
<1> QED BY <1>1, <1>2 DEF EncsPlaced, EncInTransit, EncAtWork

(* The other steps of a drive worker.                                       *)
LEMMA DriveQuietEncs ==
  ASSUME TypeOK, NEW d \in Drives,
         \/ Dequeue(d) \/ PassGate(d) \/ LeaveDrive(d) \/ LoadRip(d) \/ StartRip(d)
         \/ \E out \in Outcomes : EndRip(d, out)
         \/ SpawnFails(d) \/ FinishRip(d) \/ UnregisterRip(d)
  PROVE  EncsQuiet
<1>1. UNCHANGED <<enc, encQ, wpc, wjob, upc, ujob>>
  BY DEF Dequeue, PassGate, LeaveDrive, LoadRip, StartRip, EndRip, SpawnFails,
         FinishRip, UnregisterRip, rowVars, poolVars, userVars
<1>2. /\ dpc[d] # "enqueue"
      /\ \E r \in Rips \cup {NoRip} : djob' = [djob EXCEPT ![d] = r]
      /\ \E pc \in DrivePc : dpc' = [dpc EXCEPT ![d] = pc]
  <2>1. \E pc \in DrivePc : dpc' = [dpc EXCEPT ![d] = pc]
    BY DEF Dequeue, PassGate, LeaveDrive, LoadRip, StartRip, EndRip, SpawnFails,
           FinishRip, UnregisterRip, DriveGoTo, DrivePc, Outcomes
  <2>2. dpc[d] # "enqueue"
    BY DEF Dequeue, PassGate, LeaveDrive, LoadRip, StartRip, EndRip, SpawnFails,
           FinishRip, UnregisterRip, Outcomes
  <2>3. CASE Dequeue(d)
    <3>1. driveQ[d] \in Seq(Rips) /\ driveQ[d] # <<>>
      BY <2>3 DEF Dequeue, TypeOK
    <3>2. Head(driveQ[d]) \in Rips
      BY <3>1
    <3> QED BY <2>1, <2>2, <2>3, <3>2 DEF Dequeue
  <2>4. CASE LeaveDrive(d) \/ UnregisterRip(d)
    BY <2>1, <2>2, <2>4 DEF LeaveDrive, UnregisterRip
  <2>5. CASE ~(Dequeue(d) \/ LeaveDrive(d) \/ UnregisterRip(d))
    <3>1. djob' = djob /\ djob[d] \in Rips \cup {NoRip} /\ djob = [djob EXCEPT ![d] = djob[d]]
      BY <2>5 DEF PassGate, LoadRip, StartRip, EndRip, SpawnFails, FinishRip, TypeOK
    <3> QED BY <2>1, <2>2, <3>1
  <2> QED BY <2>3, <2>4, <2>5
<1>3. \A e \in Drives : dpc[e] = "enqueue" => dpc'[e] = dpc[e] /\ djob'[e] = djob[e]
  BY <1>2 DEF TypeOK
<1> QED BY <1>1, <1>3, SameFades DEF EncsQuiet

(* From the pool's queue into a worker's hands.                             *)
LEMMA DequeueEncPlaces ==
  ASSUME TypeOK, EncsPlaced, NEW w \in Workers, DequeueEnc(w)
  PROVE  EncsPlaced'
<1>1. /\ encQ \in Seq(Rips) /\ encQ # <<>> /\ encQ' = Tail(encQ)
      /\ UNCHANGED <<enc, dpc, djob, upc, ujob>>
  BY DEF DequeueEnc, TypeOK, rowVars, driveVars, userVars
<1>2. \A i \in 1..Len(encQ) :
         encQ[i] = Head(encQ) \/ \E j \in 1..Len(encQ') : encQ'[j] = encQ[i]
  BY <1>1, TailHolds
<1>3. /\ wpc[w] = "idle" /\ wjob'[w] = Head(encQ) /\ wpc'[w] = "acquire"
      /\ \A x \in Workers : x # w => wjob'[x] = wjob[x] /\ wpc'[x] = wpc[x]
  BY DEF DequeueEnc, PoolGoTo, TypeOK
<1>4. ASSUME NEW q \in Rips, EncInTransit(q) PROVE EncInTransit(q)'
  <2>1. CASE \E x \in Workers : wjob[x] = q /\ wpc[x] \in {"acquire", "load", "ready"}
    BY <1>3, <2>1 DEF EncInTransit
  <2>2. CASE \E i \in 1..Len(encQ) : encQ[i] = q
    BY <1>2, <1>3, <2>2 DEF EncInTransit
  <2> QED BY <1>1, <1>4, <2>1, <2>2 DEF EncInTransit
<1>5. \A q \in Rips : EncAtWork(q) => EncAtWork(q)'
  BY <1>3 DEF EncAtWork, Outcomes
<1> QED BY <1>1, <1>4, <1>5 DEF EncsPlaced

(* What the worker does with it: the row follows the worker.                *)
LEMMA PoolPlaces ==
  ASSUME TypeOK, EncsPlaced, NEW w \in Workers, phase = "up",
         \/ Acquire(w) \/ AbandonAcquire(w) \/ LeavePool(w)
         \/ LoadEnc(w) \/ StartEncode(w)
         \/ \E out \in Outcomes : EndEncode(w, out)
         \/ FinishEncode(w) \/ CleanupSpool(w) \/ UnregisterEnc(w)
  PROVE  EncsPlaced'
<1>1. UNCHANGED <<encQ, dpc, djob, upc, ujob>>
  BY DEF Acquire, AbandonAcquire, LeavePool, LoadEnc, StartEncode, EndEncode,
         FinishEncode, CleanupSpool, UnregisterEnc, driveVars, userVars
<1>2. /\ wpc[w] \notin {"idle", "exit"}
      /\ wjob' = wjob \/ (wpc[w] = "unregister" /\ wjob' = [wjob EXCEPT ![w] = NoRip])
      /\ \E pc \in PoolPc : wpc' = [wpc EXCEPT ![w] = pc]
  BY DEF Acquire, AbandonAcquire, LeavePool, LoadEnc, StartEncode, EndEncode,
         FinishEncode, CleanupSpool, UnregisterEnc, PoolGoTo, PoolPc, Outcomes
<1>3. \A x \in Workers : x # w => wpc'[x] = wpc[x] /\ wjob'[x] = wjob[x]
  BY <1>2 DEF TypeOK
<1>4. ASSUME NEW q \in Rips, q # wjob[w]
      PROVE  /\ EncInTransit(q) => EncInTransit(q)'
             /\ EncAtWork(q) => EncAtWork(q)'
  BY <1>1, <1>3, <1>4 DEF EncInTransit, EncAtWork
<1>5. wjob[w] \in Rips /\ enc \in [Rips -> RowState]
  BY <1>2 DEF TypeOK
<1>6. CASE Acquire(w)
  <2>1. enc' = enc /\ wjob' = wjob /\ wpc[w] = "acquire" /\ wpc'[w] = "load"
    BY <1>6 DEF Acquire, PoolGoTo, rowVars, TypeOK
  <2> QED BY <1>1, <1>3, <2>1 DEF EncsPlaced, EncInTransit, EncAtWork, Outcomes
<1>7. CASE AbandonAcquire(w) \/ LeavePool(w)
  BY <1>7 DEF AbandonAcquire, LeavePool
<1>8. CASE LoadEnc(w) \/ StartEncode(w)
  <2>0. wjob' = wjob /\ wpc[w] \in {"load", "ready"}
    BY <1>8 DEF LoadEnc, StartEncode
  <2>1. CASE w \in wcancel \/ enc[wjob[w]] \notin Stored
    <3>1. enc' = UpdateJobState(enc, wjob[w], "failed")
      BY <1>8, <2>1 DEF LoadEnc, StartEncode
    <3>2. \A q \in Rips : enc'[q] \in Active => enc'[q] = enc[q] /\ q # wjob[w]
      BY <1>5, <3>1, WriteFades DEF Terminal
    <3> QED BY <1>4, <3>2 DEF EncsPlaced, Active
  <2>2. CASE ~(w \in wcancel \/ enc[wjob[w]] \notin Stored) /\ LoadEnc(w)
    <3>1. /\ enc' = enc /\ wpc[w] = "load"
          /\ wpc'[w] = IF enc[wjob[w]] = "cancelled" THEN "unregister" ELSE "ready"
      BY <2>2 DEF LoadEnc, PoolGoTo, TypeOK
    <3>2. enc[wjob[w]] = "queued" => EncInTransit(wjob[w])'
      BY <2>0, <3>1 DEF EncInTransit
    <3>3. enc[wjob[w]] = "running" => EncAtWork(wjob[w])'
      BY <1>3, <1>5, <2>0, <3>1 DEF EncsPlaced, EncAtWork, Outcomes
    <3>4. ASSUME NEW q \in Rips
          PROVE  /\ enc'[q] = "queued"  => EncInTransit(q)'
                 /\ enc'[q] = "running" => EncAtWork(q)'
      <4>1. CASE q = wjob[w]
        BY <2>0, <3>1, <3>2, <3>3, <4>1 DEF EncInTransit, EncAtWork
      <4>2. CASE q # wjob[w]
        BY <1>4, <3>1, <4>2 DEF EncsPlaced
      <4> QED BY <4>1, <4>2
    <3> QED BY <3>4 DEF EncsPlaced
  <2>3. CASE ~(w \in wcancel \/ enc[wjob[w]] \notin Stored) /\ StartEncode(w)
    <3>1. enc' = UpdateJobState(enc, wjob[w], "running") /\ wpc'[w] = "encode"
      BY <2>3 DEF StartEncode, PoolGoTo, TypeOK
    <3>2. enc'[wjob[w]] = "running" /\ \A q \in Rips : q # wjob[w] => enc'[q] = enc[q]
      BY <1>5, <2>3, <3>1 DEF UpdateJobState
    <3>3. EncAtWork(wjob[w])'
      BY <2>0, <3>1 DEF EncAtWork
    <3>4. ASSUME NEW q \in Rips
          PROVE  /\ enc'[q] = "queued"  => EncInTransit(q)'
                 /\ enc'[q] = "running" => EncAtWork(q)'
      <4>1. CASE q = wjob[w]
        BY <2>0, <3>2, <3>3, <4>1 DEF EncAtWork
      <4>2. CASE q # wjob[w]
        BY <1>4, <3>2, <4>2 DEF EncsPlaced
      <4> QED BY <4>1, <4>2
    <3> QED BY <3>4 DEF EncsPlaced
  <2> QED BY <1>8, <2>1, <2>2, <2>3
<1>9. CASE \E out \in Outcomes : EndEncode(w, out)
  <2>1. enc' = enc /\ wjob' = wjob /\ wpc[w] = "encode" /\ wpc'[w] \in Outcomes
    BY <1>9 DEF EndEncode, PoolGoTo, rowVars, TypeOK
  <2>2. \A q \in Rips : EncInTransit(q) => EncInTransit(q)'
    BY <1>1, <1>3, <2>1 DEF EncInTransit
  <2>3. \A q \in Rips : EncAtWork(q) => EncAtWork(q)'
    BY <1>3, <2>1 DEF EncAtWork
  <2> QED BY <2>1, <2>2, <2>3 DEF EncsPlaced
<1>10. CASE FinishEncode(w)
  <2>1. enc' = UpdateJobState(enc, wjob[w], wpc[w]) /\ wpc[w] \in Terminal
    BY <1>10 DEF FinishEncode, Outcomes, Terminal
  <2>2. \A q \in Rips : enc'[q] \in Active => enc'[q] = enc[q] /\ q # wjob[w]
    BY <1>5, <2>1, WriteFades
  <2> QED BY <1>4, <2>2 DEF EncsPlaced, Active
<1>11. CASE CleanupSpool(w) \/ UnregisterEnc(w)
  <2>1. enc' = enc /\ wpc[w] \in {"cleanup", "unregister"}
    BY <1>11 DEF CleanupSpool, UnregisterEnc, rowVars
  <2> QED BY <1>1, <1>3, <2>1 DEF EncsPlaced, EncInTransit, EncAtWork, Outcomes
<1> QED BY <1>6, <1>7, <1>8, <1>9, <1>10, <1>11

-----------------------------------------------------------------------------
(* Nothing is stranded.                                                     *)

(* The process is up, or was down and starts over with idle workers.        *)
LEMMA PhaseStep ==
  ASSUME Next, phase' = "up"
  PROVE  phase = "up" \/ Restart
<1>1. CASE \E x \in Discs : InsertDisc(x)
  BY <1>1 DEF InsertDisc
<1>2. CASE \E u \in Users : NewRequest(u) \/ Respond(u)
  BY <1>2 DEF NewRequest, Respond, CheckStart, CheckRetry, StopRip, StopEnc,
         CheckDeleteRip, CheckDeleteEnc, CheckDropDisc, CheckEject, CreateRip, EnqueueRip,
         StopRipRow, StopEncRow, ResetTranscodeJob, EnqueueEnc, DeleteRipJob,
         DeleteEncJob, CleanSpool, DropDisc, sysVars
<1>3. CASE ClearHistory \/ \E rips, encs \in SUBSET Rips : PruneHistory(rips, encs)
  BY <1>3 DEF ClearHistory, PruneHistory
<1>4. CASE \E d \in Drives : DriveStep(d)
  BY <1>4 DEF DriveStep, Dequeue, PassGate, LeaveDrive, LoadRip, StartRip, EndRip,
         SpawnEncode, SpawnFails, EnqueueEncode, FinishRip, UnregisterRip, sysVars
<1>5. CASE \E w \in Workers : PoolStep(w)
  BY <1>5 DEF PoolStep, DequeueEnc, Acquire, AbandonAcquire, LeavePool, LoadEnc,
         StartEncode, EndEncode, FinishEncode, CleanupSpool, UnregisterEnc, sysVars
<1>6. CASE Crash \/ Close \/ ClosePool \/ Exit \/ Restart
  BY <1>6 DEF Crash, Close, ClosePool, Exit, LoseMemory
<1> QED BY <1>1, <1>2, <1>3, <1>4, <1>5, <1>6 DEF Next

(* Every rip keeps its place.                                               *)
LEMMA RipsPlacedStep ==
  ASSUME TypeOK, phase = "up" => RipsPlaced, Next, phase' = "up"
  PROVE  RipsPlaced'
<1>1. CASE Restart
  BY <1>1, RestartFades DEF RipsPlaced, Active
<1>2. CASE phase = "up" /\ ~Restart
  <2>1. RipsPlaced
    BY <1>2
  <2>2. ASSUME NEW u \in Users, NewRequest(u) \/ Respond(u) PROVE RipsPlaced'
    BY <2>1, <2>2, CreatePlaces, EnqueuePlaces, RequestQuietRips, QuietRips DEF Respond
  <2>3. ASSUME NEW d \in Drives, DriveStep(d) PROVE RipsPlaced'
    BY <1>2, <2>1, <2>3, DequeuePlaces, WorkerPlaces DEF DriveStep
  <2>4. ASSUME NEW w \in Workers, PoolStep(w) PROVE RipsPlaced'
    <3>1. RipsQuiet
      BY <2>4, SameFades DEF PoolStep, DequeueEnc, Acquire, AbandonAcquire, LeavePool,
             LoadEnc, StartEncode, EndEncode, FinishEncode, CleanupSpool, UnregisterEnc,
             RipsQuiet, rowVars, driveVars, userVars
    <3> QED BY <2>1, <3>1, QuietRips
  <2>5. CASE \/ \E x \in Discs : InsertDisc(x)
             \/ ClearHistory
             \/ \E rips, encs \in SUBSET Rips : PruneHistory(rips, encs)
             \/ Close \/ ClosePool
    BY <2>1, <2>5, HouseQuiet, QuietRips
  <2>6. CASE Crash \/ Exit
    BY <2>6 DEF Crash, Exit, LoseMemory
  <2> QED BY <1>2, <2>2, <2>3, <2>4, <2>5, <2>6 DEF Next
<1> QED BY <1>1, <1>2, PhaseStep

(* Every transcode keeps its place.                                         *)
LEMMA EncsPlacedStep ==
  ASSUME TypeOK, phase = "up" => EncsPlaced, Next, phase' = "up"
  PROVE  EncsPlaced'
<1>1. CASE Restart
  BY <1>1, RestartFades DEF EncsPlaced, Active
<1>2. CASE phase = "up" /\ ~Restart
  <2>1. EncsPlaced
    BY <1>2
  <2>2. ASSUME NEW u \in Users, NewRequest(u) \/ Respond(u) PROVE EncsPlaced'
    BY <2>1, <2>2, ResetPlaces, EnqueueEncPlaces, RequestQuietEncs, QuietEncs DEF Respond
  <2>3. ASSUME NEW d \in Drives, DriveStep(d) PROVE EncsPlaced'
    BY <2>1, <2>3, SpawnPlaces, EnqueueEncPlaces, DriveQuietEncs, QuietEncs DEF DriveStep
  <2>4. ASSUME NEW w \in Workers, PoolStep(w) PROVE EncsPlaced'
    BY <1>2, <2>1, <2>4, DequeueEncPlaces, PoolPlaces DEF PoolStep
  <2>5. CASE \/ \E x \in Discs : InsertDisc(x)
             \/ ClearHistory
             \/ \E rips, encs \in SUBSET Rips : PruneHistory(rips, encs)
             \/ Close \/ ClosePool
    BY <2>1, <2>5, HouseQuiet, QuietEncs
  <2>6. CASE Crash \/ Exit
    BY <2>6 DEF Crash, Exit, LoseMemory
  <2> QED BY <1>2, <2>2, <2>3, <2>4, <2>5, <2>6 DEF Next
<1> QED BY <1>1, <1>2, PhaseStep

-----------------------------------------------------------------------------
(* A drive shown as ripping.                                                *)

(* Its row is taken with the worker at it and given back before it leaves.  *)
LEMMA RippingStep ==
  ASSUME TypeOK, RippingBusy, Next
  PROVE  RippingBusy'
<1>1. ASSUME phase # "down", ripping' = ripping, dpc' = dpc PROVE RippingBusy'
  BY <1>1 DEF RippingBusy, AtTheDrive
<1>2. CASE \E x \in Discs : InsertDisc(x)
  BY <1>1, <1>2 DEF InsertDisc, driveVars
<1>3. ASSUME NEW u \in Users, NewRequest(u) \/ Respond(u) PROVE RippingBusy'
  <2>1. ripping' = ripping /\ dpc' = dpc /\ phase' = phase
    BY <1>3 DEF NewRequest, Respond, CheckStart, CheckRetry, StopRip, StopEnc,
         CheckDeleteRip, CheckDeleteEnc, CheckDropDisc, CheckEject, CreateRip, EnqueueRip,
         StopRipRow, StopEncRow, ResetTranscodeJob, EnqueueEnc, DeleteRipJob,
         DeleteEncJob, CleanSpool, DropDisc, driveVars, sysVars
  <2> QED BY <2>1 DEF RippingBusy, AtTheDrive
<1>4. CASE \/ ClearHistory \/ Close \/ ClosePool
           \/ \E rips, encs \in SUBSET Rips : PruneHistory(rips, encs)
  BY <1>1, <1>4 DEF ClearHistory, PruneHistory, Close, ClosePool, driveVars
<1>5. ASSUME NEW d \in Drives, DriveStep(d) PROVE RippingBusy'
  <2>1. \E pc \in DrivePc : dpc' = [dpc EXCEPT ![d] = pc]
    BY <1>5 DEF DriveStep, Dequeue, PassGate, LeaveDrive, LoadRip, StartRip, EndRip,
         SpawnEncode, SpawnFails, EnqueueEncode, FinishRip, UnregisterRip, DriveGoTo,
         DrivePc, Outcomes
  <2>2. ripping \subseteq Drives /\ \A e \in Drives : e # d => dpc'[e] = dpc[e]
    BY <2>1 DEF TypeOK
  <2>3. phase' = phase
    BY <1>5 DEF DriveStep, Dequeue, PassGate, LeaveDrive, LoadRip, StartRip, EndRip,
         SpawnEncode, SpawnFails, EnqueueEncode, FinishRip, UnregisterRip, sysVars
  <2>4. CASE StartRip(d)
    <3>1. \/ ripping' = ripping /\ dpc[d] = "ready"
          \/ ripping' = ripping \cup {d} /\ dpc'[d] = "rip"
      BY <2>4 DEF StartRip, DriveGoTo, TypeOK
    <3> QED BY <2>2, <2>3, <3>1 DEF RippingBusy, AtTheDrive, Outcomes
  <2>5. CASE FinishRip(d)
    BY <2>2, <2>3, <2>5 DEF FinishRip, RippingBusy
  <2>6. CASE \/ \E out \in Outcomes : EndRip(d, out)
             \/ SpawnEncode(d) \/ SpawnFails(d) \/ EnqueueEncode(d)
    <3>1. dpc'[d] \in AtTheDrive /\ ripping' = ripping
      BY <2>6 DEF EndRip, SpawnEncode, SpawnFails, EnqueueEncode, DriveGoTo, TypeOK,
                  AtTheDrive, Outcomes
    <3> QED BY <2>2, <2>3, <3>1 DEF RippingBusy
  <2>7. CASE \/ Dequeue(d) \/ PassGate(d) \/ LeaveDrive(d) \/ LoadRip(d) \/ UnregisterRip(d)
    <3>1. dpc[d] \notin AtTheDrive /\ ripping' = ripping
      BY <2>7 DEF Dequeue, PassGate, LeaveDrive, LoadRip, UnregisterRip, AtTheDrive, Outcomes
    <3> QED BY <2>2, <2>3, <3>1 DEF RippingBusy
  <2> QED BY <1>5, <2>4, <2>5, <2>6, <2>7 DEF DriveStep
<1>6. ASSUME NEW w \in Workers, PoolStep(w) PROVE RippingBusy'
  <2>1. ripping' = ripping /\ dpc' = dpc /\ phase' = phase
    BY <1>6 DEF PoolStep, DequeueEnc, Acquire, AbandonAcquire, LeavePool, LoadEnc,
         StartEncode, EndEncode, FinishEncode, CleanupSpool, UnregisterEnc, driveVars, sysVars
  <2> QED BY <2>1 DEF RippingBusy, AtTheDrive
<1>7. CASE Crash \/ Exit
  BY <1>7 DEF Crash, Exit, LoseMemory, RippingBusy
<1>8. CASE Restart
  BY <1>8 DEF Restart, RippingBusy
<1> QED BY <1>2, <1>3, <1>4, <1>5, <1>6, <1>7, <1>8 DEF Next

-----------------------------------------------------------------------------
(* startMu.                                                                 *)

(* A step that queues no rip and gives nobody the mutex.                    *)
StartQuiet ==
  /\ \A u \in Users : HoldsStartMu(u)' =>
        HoldsStartMu(u) /\ ujob'[u] = ujob[u] /\ (upc'[u] = "create" => upc[u] = "create")
  /\ \A r \in Rips : rip'[r] = "queued" => rip[r] = "queued"

(* Such a step keeps the mutex and queues no disc twice.                    *)
LEMMA QuietStart == StartLock /\ QueuedOnce /\ StartQuiet => StartLock' /\ QueuedOnce'
<1> SUFFICES ASSUME StartLock, QueuedOnce, StartQuiet PROVE StartLock' /\ QueuedOnce'
  OBVIOUS
<1>1. \A u, v \in Users : HoldsStartMu(u)' /\ HoldsStartMu(v)' => u = v
  BY DEF StartLock, StartQuiet
<1>2. ASSUME NEW u \in Users, HoldsStartMu(u)', upc'[u] = "create",
             NEW q \in RipKind, DiscOf[q] = DiscOf[ujob'[u]]
      PROVE  rip'[q] # "queued"
  BY <1>2 DEF StartLock, StartQuiet, RipKind
<1>3. QueuedOnce'
  BY DEF QueuedOnce, StartQuiet, RipKind
<1> QED BY <1>1, <1>2, <1>3 DEF StartLock

(* A request that neither starts nor creates leaves both alone.             *)
LEMMA UserKeepsStart ==
  ASSUME TypeOK, NEW u \in Users, NEW pc \in UserPc \ {"create", "enqueueRip"},
         NEW r, UNCHANGED userVars \/ GoTo(u, pc, r),
         \A q \in Rips : rip'[q] = "queued" => rip[q] = "queued"
  PROVE  StartQuiet
<1>1. CASE UNCHANGED userVars
  BY <1>1 DEF StartQuiet, HoldsStartMu, userVars
<1>2. CASE GoTo(u, pc, r)
  <2>1. upc'[u] = pc /\ \A v \in Users : v # u => upc'[v] = upc[v] /\ ujob'[v] = ujob[v]
    BY <1>2 DEF GoTo, TypeOK
  <2> QED BY <2>1 DEF StartQuiet, HoldsStartMu
<1> QED BY <1>1, <1>2

(* The check of StartDisc is made with the mutex free, and the disc idle.   *)
LEMMA CheckStartLocks ==
  ASSUME TypeOK, StartLock, QueuedOnce, NEW u \in Users, NEW r \in Rips, CheckStart(u, r)
  PROVE  StartLock' /\ QueuedOnce'
<1>1. /\ rip' = rip /\ upc'[u] = "create" /\ ujob'[u] = r
      /\ \A v \in Users : v # u => upc'[v] = upc[v] /\ ujob'[v] = ujob[v]
  BY DEF CheckStart, GoTo, rowVars, TypeOK
<1>2. QueuedOnce'
  BY <1>1 DEF QueuedOnce
<1>3. ASSUME NEW v \in Users, v # u PROVE HoldsStartMu(v)' <=> HoldsStartMu(v)
  BY <1>1, <1>3 DEF HoldsStartMu
<1>4. HoldsStartMu(u)' => KindOf[r] # "scan" /\ \A v \in Users : ~HoldsStartMu(v)
  <2>1. HoldsStartMu(u)' <=> KindOf[r] # "scan"
    BY <1>1 DEF HoldsStartMu
  <2>2. KindOf[r] # "scan" => StartMuFree
    BY DEF CheckStart
  <2> QED BY <2>1, <2>2 DEF StartMuFree, HoldsStartMu
<1>5. \A v, x \in Users : HoldsStartMu(v)' /\ HoldsStartMu(x)' => v = x
  BY <1>3, <1>4 DEF StartLock
<1>6. \A q \in RipKind : DiscOf[q] = DiscOf[r] => rip[q] # "queued"
  BY DEF CheckStart, DiscHasActiveJob, JobsOf, RipKind, Active
<1>7. ASSUME NEW v \in Users, HoldsStartMu(v)', upc'[v] = "create",
             NEW q \in RipKind, DiscOf[q] = DiscOf[ujob'[v]]
      PROVE  rip'[q] # "queued"
  <2>1. CASE v = u
    BY <1>1, <1>6, <1>7, <2>1
  <2>2. CASE v # u
    BY <1>1, <1>3, <1>7, <2>2 DEF StartLock
  <2> QED BY <2>1, <2>2
<1> QED BY <1>2, <1>5, <1>7 DEF StartLock

(* The row its holder then creates is the only queued one of its disc.      *)
LEMMA CreateLocks ==
  ASSUME TypeOK, StartLock, QueuedOnce, NEW u \in Users, CreateRip(u)
  PROVE  StartLock' /\ QueuedOnce'
<1> DEFINE r == ujob[u]
<1>0. r \in Rips /\ upc[u] = "create"
  BY DEF CreateRip, TypeOK
<1>1. CASE discRow[DiscOf[r]] # "present"
  <2>1. rip' = rip /\ GoTo(u, "idle", NoRip)
    BY <1>1 DEF CreateRip, Return
  <2> QED BY <2>1, UserKeepsStart, QuietStart DEF UserPc
<1>2. CASE discRow[DiscOf[r]] = "present"
  <2>1. /\ rip' = [rip EXCEPT ![r] = "queued"]
        /\ upc' = [upc EXCEPT ![u] = "enqueueRip"] /\ ujob' = [ujob EXCEPT ![u] = ujob[u]]
    BY <1>2 DEF CreateRip, GoTo
  <2>2. /\ upc'[u] = "enqueueRip" /\ ujob' = ujob
        /\ \A v \in Users : v # u => upc'[v] = upc[v]
        /\ \A q \in Rips : q # r => rip'[q] = rip[q]
    BY <1>0, <2>1 DEF TypeOK
  <2>3. \A v \in Users : HoldsStartMu(v)' <=> HoldsStartMu(v)
    BY <1>0, <2>2 DEF HoldsStartMu
  <2>4. KindOf[r] # "scan" => HoldsStartMu(u)
    BY <1>0 DEF HoldsStartMu
  <2>5. ASSUME NEW v \in Users, HoldsStartMu(v)', upc'[v] = "create",
               NEW q \in RipKind, DiscOf[q] = DiscOf[ujob'[v]]
        PROVE  rip'[q] # "queued"
    <3>1. v # u /\ HoldsStartMu(v) /\ upc[v] = "create"
      BY <2>2, <2>3, <2>5
    <3>2. KindOf[r] = "scan"
      BY <2>4, <3>1 DEF StartLock
    <3>3. q # r /\ q \in Rips
      BY <3>2 DEF RipKind
    <3> QED BY <2>2, <2>5, <3>1, <3>3 DEF StartLock
  <2>6. QueuedOnce'
    <3>1. r \in RipKind => \A q \in RipKind : DiscOf[q] = DiscOf[r] => rip[q] # "queued"
      BY <1>0, <2>4 DEF StartLock, RipKind
    <3>2. ASSUME NEW p \in RipKind, NEW q \in RipKind, DiscOf[p] = DiscOf[q],
                 rip'[p] = "queued", rip'[q] = "queued"
          PROVE  p = q
      BY <2>2, <3>1, <3>2 DEF QueuedOnce, RipKind
    <3> QED BY <3>2 DEF QueuedOnce
  <2>7. \A v, x \in Users : HoldsStartMu(v)' /\ HoldsStartMu(x)' => v = x
    BY <2>3 DEF StartLock
  <2> QED BY <2>5, <2>6, <2>7 DEF StartLock
<1> QED BY <1>1, <1>2

(* Every other step queues no rip.                                          *)
LEMMA StartLockStep ==
  ASSUME TypeOK, StartLock, QueuedOnce, Next
  PROVE  StartLock' /\ QueuedOnce'
<1>0. ASSUME RowsFade(rip) PROVE \A q \in Rips : rip'[q] = "queued" => rip[q] = "queued"
  BY <1>0 DEF RowsFade, Active
<1>1. ASSUME UNCHANGED userVars, \A q \in Rips : rip'[q] = "queued" => rip[q] = "queued"
      PROVE  StartLock' /\ QueuedOnce'
  <2>1. StartQuiet
    BY <1>1 DEF StartQuiet, HoldsStartMu, userVars
  <2> QED BY <2>1, QuietStart
<1>2. ASSUME NEW u \in Users, NewRequest(u) PROVE StartLock' /\ QueuedOnce'
  <2>1. ASSUME NEW r \in Rips,
               \/ CheckRetry(u, r) \/ StopRip(u, r) \/ StopEnc(u, r)
               \/ CheckDeleteRip(u, r) \/ CheckDeleteEnc(u, r)
               \/ CheckDropDisc(u, r) \/ CheckEject(u, r)
        PROVE  StartLock' /\ QueuedOnce'
    <3>1. rip' = rip
      BY <2>1 DEF CheckRetry, StopRip, StopEnc, CheckDeleteRip, CheckDeleteEnc,
             CheckDropDisc, CheckEject, rowVars
    <3>2. UNCHANGED userVars \/ \E pc \in UserPc \ {"create", "enqueueRip"} : GoTo(u, pc, r)
      BY <2>1 DEF CheckRetry, StopRip, StopEnc, CheckDeleteRip, CheckDeleteEnc,
             CheckDropDisc, CheckEject, UserPc
    <3>3. "idle" \in UserPc \ {"create", "enqueueRip"}
      BY DEF UserPc
    <3> QED BY <3>1, <3>2, <3>3, UserKeepsStart, QuietStart
  <2> QED BY <1>2, <2>1, CheckStartLocks DEF NewRequest
<1>3. ASSUME NEW u \in Users, Respond(u) PROVE StartLock' /\ QueuedOnce'
  <2>1. CASE EnqueueRip(u)
    <3>1. rip' = rip /\ GoTo(u, "idle", NoRip)
      BY <2>1 DEF EnqueueRip, Return, rowVars
    <3> QED BY <3>1, UserKeepsStart, QuietStart DEF UserPc
  <2>2. CASE \/ StopRipRow(u) \/ StopEncRow(u) \/ ResetTranscodeJob(u) \/ EnqueueEnc(u)
             \/ DeleteRipJob(u) \/ DeleteEncJob(u) \/ CleanSpool(u) \/ DropDisc(u)
    <3>1. RowsFade(rip)
      BY <2>2, RequestQuietRips DEF RipsQuiet
    <3>2. \E pc \in UserPc \ {"create", "enqueueRip"}, r \in Rips \cup {NoRip} : GoTo(u, pc, r)
      BY <2>2 DEF StopRipRow, StopEncRow, ResetTranscodeJob, EnqueueEnc, DeleteRipJob,
             DeleteEncJob, CleanSpool, DropDisc, Return, UserPc, TypeOK
    <3> QED BY <1>0, <3>1, <3>2, UserKeepsStart, QuietStart
  <2> QED BY <1>3, <2>1, <2>2, CreateLocks DEF Respond
<1>4. ASSUME NEW d \in Drives, DriveStep(d) PROVE StartLock' /\ QueuedOnce'
  <2>1. UNCHANGED userVars
    BY <1>4 DEF DriveStep, Dequeue, PassGate, LeaveDrive, LoadRip, StartRip, EndRip,
         SpawnEncode, SpawnFails, EnqueueEncode, FinishRip, UnregisterRip
  <2>2. \/ rip' = rip
        \/ /\ djob[d] \in Rips
           /\ \E s \in {"failed", "running"} \cup Outcomes : rip' = UpdateJobState(rip, djob[d], s)
    BY <1>4 DEF DriveStep, Dequeue, PassGate, LeaveDrive, LoadRip, StartRip, EndRip,
         SpawnEncode, SpawnFails, EnqueueEncode, FinishRip, UnregisterRip, Outcomes,
         TypeOK, rowVars
  <2>3. \A q \in Rips : rip'[q] = "queued" => rip[q] = "queued"
    BY <2>2 DEF UpdateJobState, Outcomes, TypeOK
  <2> QED BY <1>1, <2>1, <2>3
<1>5. ASSUME NEW w \in Workers, PoolStep(w) PROVE StartLock' /\ QueuedOnce'
  <2>1. UNCHANGED userVars /\ rip' = rip
    BY <1>5 DEF PoolStep, DequeueEnc, Acquire, AbandonAcquire, LeavePool, LoadEnc,
         StartEncode, EndEncode, FinishEncode, CleanupSpool, UnregisterEnc, rowVars
  <2> QED BY <1>1, <2>1
<1>6. CASE \/ \E x \in Discs : InsertDisc(x)
           \/ ClearHistory
           \/ \E rips, encs \in SUBSET Rips : PruneHistory(rips, encs)
           \/ Close \/ ClosePool
  BY <1>0, <1>1, <1>6, HouseQuiet DEF RipsQuiet, userVars
<1>7. CASE Crash \/ Exit
  <2>1. rip' = rip /\ \A u \in Users : upc'[u] = "idle"
    BY <1>7 DEF Crash, Exit, LoseMemory, rowVars
  <2> QED BY <2>1, QuietStart DEF StartQuiet, HoldsStartMu
<1>8. CASE Restart
  <2>1. UNCHANGED userVars /\ \A q \in Rips : rip'[q] # "queued"
    BY <1>8, RestartFades DEF Restart, Active
  <2> QED BY <1>1, <2>1
<1> QED BY <1>2, <1>3, <1>4, <1>5, <1>6, <1>7, <1>8 DEF Next

-----------------------------------------------------------------------------
(* The invariant, and what it gives.                                        *)

(* Nothing is queued, running or ripping when the daemon starts for the     *)
(* first time.                                                              *)
LEMMA ProgressInit == Init => Progress
<1> SUFFICES ASSUME Init PROVE Progress
  OBVIOUS
<1>1. /\ \A r \in Rips : rip[r] = "none" /\ enc[r] = "none"
      /\ \A u \in Users : upc[u] = "idle"
      /\ ripping = {}
  BY DEF Init
<1> QED BY <1>1 DEF Progress, RipsPlaced, EncsPlaced, RippingBusy, StartLock, HoldsStartMu,
                    QueuedOnce, RipKind

(* Every step keeps it.                                                     *)
LEMMA ProgressStep ==
  ASSUME TypeOK, Progress, [Next]_vars
  PROVE  Progress'
<1>1. CASE Next
  BY <1>1, RipsPlacedStep, EncsPlacedStep, RippingStep, StartLockStep DEF Progress
<1>2. CASE UNCHANGED vars
  <2>1. UNCHANGED <<rip, enc, ripping, driveQ, dpc, djob, encQ, wpc, wjob, upc, ujob, phase>>
    BY <1>2 DEF vars, rowVars, driveVars, poolVars, userVars, sysVars
  <2> QED BY <2>1 DEF Progress, RipsPlaced, EncsPlaced, RipInTransit, RipAtWork,
         EncInTransit, EncAtWork, RippingBusy, StartLock, HoldsStartMu, QueuedOnce
<1> QED BY <1>1, <1>2

(* The inductive invariant holds in every life of the daemon.               *)
THEOREM ProgressKept == Spec => [](TypeOK /\ Progress)
<1>1. Init => TypeOK /\ Progress
  BY TypeInit, ProgressInit
<1>2. TypeOK /\ Progress /\ [Next]_vars => (TypeOK /\ Progress)'
  BY TypeStep, ProgressStep
<1> QED BY <1>1, <1>2, PTL DEF Spec

(* While the daemon is up every queued row is in a queue or on its way, and *)
(* every running row has a worker that will write its end.                  *)
THEOREM NothingStranded == Spec => []NoStrandedJob
<1>1. Progress => NoStrandedJob
  BY DEF Progress, RipsPlaced, EncsPlaced, NoStrandedJob
<1> QED BY <1>1, ProgressKept, PTL

(* A drive shown as ripping has a worker at it.                             *)
THEOREM DriveIsRipping == Spec => []RippingIsReal
<1>1. Progress => RippingIsReal
  BY DEF Progress, RippingBusy, RippingIsReal, AtTheDrive
<1> QED BY <1>1, ProgressKept, PTL

(* However many start requests race, no disc is queued twice.               *)
THEOREM DiscQueuedOnce == Spec => []QueuedOnce
<1>1. Progress => QueuedOnce
  BY DEF Progress
<1> QED BY <1>1, ProgressKept, PTL
=============================================================================
