--------------------------- MODULE DriveFlow_proofs ---------------------------
(***************************************************************************)
(* Theorems about DriveFlow, for every number of goroutines, rows and      *)
(* discs, and every bound.                                                 *)
(*                                                                         *)
(* The inductive invariant is IInv.  One lemma per conjunct shows that a   *)
(* step keeps it, from the conjuncts it rests on.                          *)
(***************************************************************************)
EXTENDS DriveFlow, TLAPS

(* What is known of a disc is a hash and an id, either of which may be      *)
(* none.                                                                    *)
LEMMA KnownTypes ==
  /\ Nothing \in Known
  /\ \A d \in Known : d.toc \in Tocs \cup {None} /\ d.id \in Ids \cup {None}
  /\ \A t \in Tocs \cup {None}, i \in Ids \cup {None} : [toc |-> t, id |-> i] \in Known
BY DEF Nothing, Known

(* What a claim may do: without an overlap, whoever got the slot found      *)
(* nobody else identifying.                                                 *)
LEMMA ClaimFacts ==
  ASSUME NEW f \in Flows, ClaimDriveForIdentify(f), FlowTypes
  PROVE  /\ ~overlap' => ~overlap
         /\ ~overlap' => pc'[f] \notin Identifying \/ \A g \in Flows : pc[g] \notin Identifying
         /\ \A g \in Flows \ {f} : pc'[g] = pc[g] /\ kind'[g] = kind[g] /\ found'[g] = found[g]
         /\ pc'[f] # "create"
         /\ UNCHANGED <<row, toc, id, recent, picked>>
<1> USE DEF FlowTypes, GoTo, Leave, discVars
<1>1. UNCHANGED <<row, toc, id, recent, picked>>
  BY DEF ClaimDriveForIdentify
<1>2. CASE drive \in Claimable
  <2>1. /\ overlap' = (overlap \/ \E g \in Flows : pc[g] \in Identifying)
        /\ GoTo(f, IF kind[f] = "settype" THEN "identify" ELSE "classify")
    BY <1>2 DEF ClaimDriveForIdentify
  <2>2. ~overlap' => ~overlap /\ \A g \in Flows : pc[g] \notin Identifying
    <3> HIDE DEF GoTo, Leave, FlowTypes
    <3> QED BY <2>1, Zenon
  <2> QED BY <1>1, <2>1, <2>2
<1>3. CASE drive \notin Claimable
  <2>1. (GoTo(f, "typeOnly") \/ Leave(f)) /\ overlap' = overlap
    BY <1>3 DEF ClaimDriveForIdentify, GiveUp
  <2> QED BY <1>1, <2>1 DEF Identifying
<1> QED BY <1>2, <1>3

(* A row without a hash that is not a user's choice keeps its id when a     *)
(* flow saves metadata and when a job is started.                           *)
LEMMA IdsKept ==
  ASSUME StoreTypes, FlowTypes, Errands, KnownTarget,
         \/ \E f \in Flows : Refresh(f) \/ SaveTypeOnly(f)
         \/ \E r \in Rows : StartDisc(r)
  PROVE  /\ picked \subseteq picked'
         /\ \A r \in Rows \ picked' : toc[r] = None => id'[r] = id[r]
         /\ row' = row /\ toc' = toc /\ recent' = recent
<1> USE DriveAssumption DEF StoreTypes, FlowTypes, discVars
<1>1. ASSUME NEW f \in Flows, target[f] \in Rows, SaveMetadata(f),
             kind[f] = "insert" => pc[f] = "refresh"
      PROVE  /\ picked \subseteq picked'
             /\ \A r \in Rows \ picked' : toc[r] = None => id'[r] = id[r]
  BY <1>1 DEF SaveMetadata, KnownTarget
<1>2. ASSUME NEW f \in Flows, Refresh(f)
      PROVE  /\ target[f] \in Rows /\ pc[f] = "refresh"
             /\ row' = row /\ toc' = toc /\ recent' = recent
             /\ SaveMetadata(f) \/ UNCHANGED <<id, picked>>
  BY <1>2 DEF Refresh
<1>3. ASSUME NEW f \in Flows, SaveTypeOnly(f)
      PROVE  /\ target[f] \in Rows /\ kind[f] = "settype"
             /\ row' = row /\ toc' = toc /\ recent' = recent
             /\ SaveMetadata(f) \/ UNCHANGED <<id, picked>>
  BY <1>3 DEF SaveTypeOnly, Errands
<1>4. ASSUME NEW r \in Rows, StartDisc(r)
      PROVE  /\ picked \subseteq picked' /\ \A q \in Rows \ picked' : id'[q] = id[q]
             /\ row' = row /\ toc' = toc /\ recent' = recent
  BY <1>4 DEF StartDisc
<1> QED BY <1>1, <1>2, <1>3, <1>4

(* KnownTarget holds on through every step that sends no event to refresh a *)
(* row and takes away neither a row, nor its hash, nor its id.              *)
LEMMA TargetKept ==
  ASSUME FlowTypes, KnownTarget,
         \A r \in Rows : row[r] # "none" => row'[r] # "none",
         picked \subseteq picked',
         \A r \in Rows : row[r] # "none" => toc'[r] = toc[r],
         \A r \in Rows \ picked' : row[r] # "none" /\ toc[r] = None => id'[r] = id[r],
         \A f \in Flows : pc'[f] = "refresh" /\ kind'[f] = "insert" =>
           /\ pc[f] = "refresh" /\ kind[f] = "insert"
           /\ target'[f] = target[f] /\ found'[f] = found[f]
  PROVE  KnownTarget'
BY DEF FlowTypes, KnownTarget

(* What there is to know when persistDisc finds no row of a disc.           *)
LEMMA NoSuchDisc ==
  ASSUME NEW d, SameDisc(d) = {}, NEW r \in Present
  PROVE  /\ toc[r] = d.toc => d.toc = None
         /\ r \in recent /\ id[r] = d.id => d.id = None
<1>1. CASE \E q \in Present : toc[q] = d.toc /\ d.toc # None
  BY <1>1 DEF SameDisc
<1>2. CASE \A q \in Present : ~(toc[q] = d.toc /\ d.toc # None)
  <2>1. {q \in Present : toc[q] = d.toc /\ d.toc # None} = {}
    BY <1>2
  <2>2. {q \in Present \cap recent : id[q] = d.id /\ d.id # None} = {}
    BY <2>1 DEF SameDisc
  <2> QED BY <1>2, <2>2
<1> QED BY <1>1, <1>2

(* NoTwin holds on through every step that adds no row, no recent one, and  *)
(* changes no hash, and the id of none without a hash but of those a user   *)
(* picks.                                                                   *)
LEMMA TwinKept ==
  ASSUME NoTwin, ~overlap' => ~overlap,
         Present' \subseteq Present, recent' \subseteq recent, picked \subseteq picked',
         toc' = toc, \A r \in Present \ picked' : toc[r] = None => id'[r] = id[r],
         \A f \in Flows : pc'[f] = "create" => pc[f] = "create" /\ found'[f] = found[f]
  PROVE  NoTwin'
BY DEF NoTwin

(* NoTwin also holds when an event goes on to create a row after it has     *)
(* found none.                                                              *)
LEMMA TwinFound ==
  ASSUME NoTwin, NEW f \in Flows, SameDisc(found[f]) = {},
         UNCHANGED <<row, toc, id, recent, picked, overlap, found>>,
         \A g \in Flows \ {f} : pc'[g] = pc[g]
  PROVE  NoTwin'
<1>1. Present' = Present
  BY DEF Present
<1>2. \A r \in Present : /\ toc[r] = found[f].toc => found[f].toc = None
                         /\ r \in recent /\ id[r] = found[f].id => found[f].id = None
  BY NoSuchDisc
<1>3. ~overlap' => ~overlap
  OBVIOUS
<1> SUFFICES ASSUME ~overlap, NEW g \in Flows, pc'[g] = "create", NEW r \in Present,
                    toc[r] = found[g].toc
             PROVE  /\ toc[r] = None
                    /\ r \in recent \ picked => id[r] # found[g].id \/ id[r] = None
  BY <1>1, <1>3 DEF NoTwin
<1>4. CASE g = f
  BY <1>2, <1>4
<1>5. CASE g # f
  BY <1>5 DEF NoTwin
<1> QED BY <1>4, <1>5

(* OneRowPerDisc holds on through the same steps as NoTwin in TwinKept.     *)
LEMMA RowKept ==
  ASSUME OneRowPerDisc, ~overlap' => ~overlap,
         Present' \subseteq Present, recent' \subseteq recent, picked \subseteq picked',
         toc' = toc, \A r \in Present \ picked' : toc[r] = None => id'[r] = id[r]
  PROVE  OneRowPerDisc'
BY DEF OneRowPerDisc

(* No step writes a value into the store that is not one.                   *)
LEMMA StoreTypesNext ==
  ASSUME StoreTypes, FlowTypes, WorkTypes, Next
  PROVE  StoreTypes'
<1> USE DriveAssumption, KnownTypes DEF StoreTypes, FlowTypes, WorkTypes, DriveState,
                                        Active, diskVars, discVars, flowVars, workVars,
                                        countVars, auxVars, GoTo, Leave
<1>1. ASSUME NEW f \in Flows, Arrive(f)
      PROVE  StoreTypes'
  BY ZenonT(60), <1>1 DEF Arrive, MediaEvent, HandleManual, EjectDrive, Reidentify, SetDiscType, Begin
<1>2. ASSUME NEW f \in Flows, Advance(f)
      PROVE  StoreTypes'
  <2>1. CASE CheckBusy(f) \/ CheckCooldown(f)
    BY <2>1 DEF CheckBusy, CheckCooldown, GiveUp, AfterCheck
  <2>2. CASE ClaimDriveForIdentify(f)
    BY <2>2 DEF ClaimDriveForIdentify, GiveUp, Claimable
  <2>3. CASE ClassifyFails(f) \/ Classify(f) \/ ClassifyRejects(f)
    BY <2>3 DEF ClassifyFails, Classify, ClassifyRejects, MayOpenTray
  <2>4. CASE IdentifyFails(f) \/ Identify(f) \/ IdentifyNothing(f)
    BY <2>4 DEF IdentifyFails, Identify, IdentifyNothing, AfterFailure
  <2>5. CASE Lookup(f)
    BY <2>5 DEF Lookup, Newest, SameDisc, Present
  <2>6. CASE Refresh(f)
    BY <2>6 DEF Refresh, SaveMetadata, Present
  <2>7. CASE CreateDisc(f)
    <3>1. UNCHANGED <<drive, job, picked>>
      BY <2>7 DEF CreateDisc
    <3>2. CASE \E r \in Unused : /\ row' = [row EXCEPT ![r] = "present"]
                                 /\ toc' = [toc EXCEPT ![r] = found[f].toc]
                                 /\ id' = [id EXCEPT ![r] = found[f].id]
                                 /\ recent' = recent \cup {r}
      BY <3>1, <3>2 DEF Unused
    <3>3. CASE UNCHANGED <<row, toc, id, recent>>
      BY <3>1, <3>3
    <3> QED BY <2>7, <3>2, <3>3 DEF CreateDisc
  <2>8. CASE Release(f)
    BY <2>8 DEF Release, ReleaseDriveFromIdentify
  <2>9. CASE SaveTypeOnly(f)
    <3>1. target[f] \in Rows /\ UNCHANGED <<drive, row, toc, recent, job>>
      BY <2>9 DEF SaveTypeOnly
    <3>2. id' \in [Rows -> Ids \cup {None}] /\ picked' \subseteq Rows
      BY ZenonT(60), <2>9, <3>1 DEF SaveTypeOnly, SaveMetadata
    <3> QED BY <3>1, <3>2
  <2>10. CASE SetEjecting(f) \/ RunEjectTool(f) \/ SettleIdle(f)
    BY <2>10 DEF SetEjecting, RunEjectTool, SettleIdle, UpdateDriveState
  <2>11. CASE FindClearable(f)
    BY <2>11 DEF FindClearable, ClearableDiscOnDrive, Newest, Present
  <2>12. CASE DeleteDisc(f)
    <3>1. target[f] \in Rows /\ UNCHANGED <<drive, toc, id, picked>>
      BY <2>12 DEF DeleteDisc
    <3>2. row' \in [Rows -> {"none", "present", "deleted"}] /\ recent' \subseteq Rows
      BY <2>12, <3>1 DEF DeleteDisc
    <3>3. job' \in [Rows -> Active \cup {"none", "done", "failed"}]
      BY <2>12, <3>1 DEF DeleteDisc
    <3> QED BY <3>1, <3>2, <3>3
  <2> QED BY <1>2, <2>1, <2>2, <2>3, <2>4, <2>5, <2>6, <2>7, <2>8, <2>9, <2>10, <2>11, <2>12
     DEF Advance
<1>3. CASE Work
  <2>1. ASSUME NEW r \in Rows, TakeJob(r)
        PROVE  StoreTypes'
    BY <2>1 DEF TakeJob
  <2>2. CASE ShowRipping \/ StopBeforeShown \/ ShowIdle
    BY <2>2 DEF ShowRipping, StopBeforeShown, ShowIdle
  <2>3. CASE EndRip
    <3>1. wrow \in Rows /\ UNCHANGED <<drive, row, toc, id, recent, picked>>
      BY <2>3 DEF EndRip
    <3>2. job' = job \/ \E s \in {"done", "failed"} : job' = [job EXCEPT ![wrow] = s]
      BY <2>3 DEF EndRip
    <3> QED BY <3>1, <3>2
  <2> QED BY <1>3, <2>1, <2>2, <2>3 DEF Work
<1>4. CASE \E scanned \in BOOLEAN : Reboot(scanned)
  BY <1>4 DEF Reboot, HasActiveJobOnDrive
<1>5. CASE \E d \in Discs : Insert(d)
  BY <1>5 DEF Insert
<1>6. CASE Remove \/ CoolDown
  BY <1>6 DEF Remove, CoolDown
<1>7. CASE \E r \in Rows : StartDisc(r) \/ CancelQueued(r) \/ Age(r)
  <2>1. ASSUME NEW r \in Rows, StartDisc(r)
        PROVE  StoreTypes'
    <3>1. UNCHANGED <<drive, row, toc, recent>> /\ job' = [job EXCEPT ![r] = "queued"]
      BY <2>1 DEF StartDisc
    <3>2. \/ UNCHANGED <<id, picked>>
          \/ (\E i \in Ids : id' = [id EXCEPT ![r] = i]) /\ picked' = picked \cup {r}
      BY <2>1 DEF StartDisc
    <3>3. id' \in [Rows -> Ids \cup {None}] /\ picked' \subseteq Rows
      <4>1. CASE UNCHANGED <<id, picked>>
        BY <4>1
      <4>2. CASE (\E i \in Ids : id' = [id EXCEPT ![r] = i]) /\ picked' = picked \cup {r}
        BY <4>2
      <4> QED BY <3>2, <4>1, <4>2
    <3> QED BY <3>1, <3>3
  <2>2. ASSUME NEW r \in Rows, CancelQueued(r)
        PROVE  StoreTypes'
    BY <2>2 DEF CancelQueued
  <2>3. ASSUME NEW r \in Rows, Age(r)
        PROVE  StoreTypes'
    BY <2>3 DEF Age
  <2> QED BY <1>7, <2>1, <2>2, <2>3
<1>8. ASSUME NEW f \in Flows, ContextEnds(f)
      PROVE  StoreTypes'
  BY <1>8 DEF ContextEnds, MayOpenTray
<1>9. ASSUME NEW f \in Flows, LookupFails(f)
      PROVE  StoreTypes'
  BY SMTT(30), <1>9 DEF LookupFails, AfterCheck
<1> QED BY <1>1, <1>2, <1>3, <1>4, <1>5, <1>6, <1>7, <1>8, <1>9 DEF Next

(* A flow keeps to its program, and where it works on a row it has one.     *)
LEMMA FlowTypesNext ==
  ASSUME StoreTypes, FlowTypes, Errands, Next
  PROVE  FlowTypes'
<1> USE DriveAssumption, KnownTypes DEF StoreTypes, FlowTypes, Errands, FlowPc, Checked,
                                        Identifying, Kinds, diskVars, discVars, flowVars,
                                        workVars, countVars, auxVars, GoTo, Leave
<1>1. ASSUME NEW f \in Flows, Arrive(f)
      PROVE  FlowTypes'
  BY SMTT(30), <1>1 DEF Arrive, MediaEvent, HandleManual, EjectDrive, Reidentify, SetDiscType, Begin
<1>2. ASSUME NEW f \in Flows, Advance(f)
      PROVE  FlowTypes'
  <2>1. CASE CheckBusy(f) \/ CheckCooldown(f)
    BY SMTT(30), <2>1 DEF CheckBusy, CheckCooldown, GiveUp, AfterCheck
  <2>2. CASE ClaimDriveForIdentify(f)
    BY SMTT(30), <2>2 DEF ClaimDriveForIdentify, GiveUp, Claimable
  <2>3. CASE ClassifyFails(f) \/ Classify(f) \/ ClassifyRejects(f)
    BY <2>3 DEF ClassifyFails, Classify, ClassifyRejects, MayOpenTray
  <2>4. CASE IdentifyFails(f) \/ Identify(f) \/ IdentifyNothing(f)
    BY SMTT(30), <2>4 DEF IdentifyFails, Identify, IdentifyNothing, AfterFailure
  <2>5. CASE Lookup(f)
    BY <2>5 DEF Lookup, Newest, SameDisc, Present
  <2>6. CASE Refresh(f)
    BY SMTT(30), <2>6 DEF Refresh, SaveMetadata, Present
  <2>7. CASE CreateDisc(f)
    BY SMTT(30), <2>7 DEF CreateDisc, Unused
  <2>8. CASE Release(f)
    BY <2>8 DEF Release, ReleaseDriveFromIdentify
  <2>9. CASE SaveTypeOnly(f)
    BY <2>9 DEF SaveTypeOnly, SaveMetadata, Present
  <2>10. CASE SetEjecting(f) \/ RunEjectTool(f) \/ SettleIdle(f)
    BY SMTT(30), <2>10 DEF SetEjecting, RunEjectTool, SettleIdle, UpdateDriveState
  <2>11. CASE FindClearable(f)
    BY SMTT(30), <2>11 DEF FindClearable, ClearableDiscOnDrive, Newest, Present
  <2>12. CASE DeleteDisc(f)
    BY <2>12 DEF DeleteDisc, Present
  <2> QED BY <1>2, <2>1, <2>2, <2>3, <2>4, <2>5, <2>6, <2>7, <2>8, <2>9, <2>10, <2>11, <2>12
     DEF Advance
<1>3. CASE Work
  BY <1>3 DEF Work, TakeJob, ShowRipping, StopBeforeShown, EndRip, ShowIdle, MayOpenTray
<1>4. CASE \E scanned \in BOOLEAN : Reboot(scanned)
  BY <1>4 DEF Reboot, HasActiveJobOnDrive
<1>5. CASE \E d \in Discs : Insert(d)
  BY <1>5 DEF Insert
<1>6. CASE Remove \/ CoolDown
  BY <1>6 DEF Remove, CoolDown
<1>7. CASE \E r \in Rows : StartDisc(r) \/ CancelQueued(r) \/ Age(r)
  BY <1>7 DEF StartDisc, CancelQueued, Age, Present
<1>8. ASSUME NEW f \in Flows, ContextEnds(f)
      PROVE  FlowTypes'
  BY SMTT(30), <1>8 DEF ContextEnds, MayOpenTray
<1>9. ASSUME NEW f \in Flows, LookupFails(f)
      PROVE  FlowTypes'
  BY SMTT(30), <1>9 DEF LookupFails, AfterCheck
<1> QED BY <1>1, <1>2, <1>3, <1>4, <1>5, <1>6, <1>7, <1>8, <1>9 DEF Next

(* The worker has a row whenever it is at work.                             *)
LEMMA WorkTypesNext ==
  ASSUME StoreTypes, WorkTypes, Next
  PROVE  WorkTypes'
<1> USE DriveAssumption DEF StoreTypes, WorkTypes, diskVars, discVars, flowVars, workVars,
                            countVars, auxVars, GoTo, Leave
<1>1. ASSUME NEW f \in Flows, Arrive(f)
      PROVE  WorkTypes'
  BY <1>1 DEF Arrive, MediaEvent, HandleManual, EjectDrive, Reidentify, SetDiscType, Begin
<1>2. ASSUME NEW f \in Flows, Advance(f)
      PROVE  WorkTypes'
  BY <1>2 DEF Advance, CheckBusy, CheckCooldown, GiveUp, AfterCheck, ClaimDriveForIdentify,
              Claimable, ClassifyFails, Classify, ClassifyRejects, MayOpenTray,
              IdentifyFails, Identify, IdentifyNothing, AfterFailure, Lookup, Newest,
              SameDisc, Present, Refresh, SaveMetadata, CreateDisc, Unused, Release,
              ReleaseDriveFromIdentify, SaveTypeOnly, SetEjecting, RunEjectTool, SettleIdle,
              UpdateDriveState, FindClearable, ClearableDiscOnDrive, DeleteDisc
<1>3. CASE Work
  BY <1>3 DEF Work, TakeJob, ShowRipping, StopBeforeShown, EndRip, ShowIdle, MayOpenTray
<1>4. CASE \E scanned \in BOOLEAN : Reboot(scanned)
  BY <1>4 DEF Reboot, HasActiveJobOnDrive
<1>5. CASE \E d \in Discs : Insert(d)
  BY <1>5 DEF Insert
<1>6. CASE Remove \/ CoolDown
  BY <1>6 DEF Remove, CoolDown
<1>7. CASE \E r \in Rows : StartDisc(r) \/ CancelQueued(r) \/ Age(r)
  BY <1>7 DEF StartDisc, CancelQueued, Age, Present
<1>8. ASSUME NEW f \in Flows, ContextEnds(f)
      PROVE  WorkTypes'
  BY <1>8 DEF ContextEnds, MayOpenTray
<1>9. ASSUME NEW f \in Flows, LookupFails(f)
      PROVE  WorkTypes'
  BY SMTT(30), <1>9 DEF LookupFails, AfterCheck
<1> QED BY <1>1, <1>2, <1>3, <1>4, <1>5, <1>6, <1>7, <1>8, <1>9 DEF Next

(* The counters only count.                                                 *)
LEMMA CountTypesNext ==
  ASSUME CountTypes, Next
  PROVE  CountTypes'
<1> USE DriveAssumption DEF CountTypes, diskVars, discVars, flowVars, workVars, countVars,
                            auxVars, GoTo, Leave
<1>1. ASSUME NEW f \in Flows, Arrive(f)
      PROVE  CountTypes'
  BY SMTT(30), <1>1 DEF Arrive, MediaEvent, HandleManual, EjectDrive, Reidentify, SetDiscType, Begin
<1>2. ASSUME NEW f \in Flows, Advance(f)
      PROVE  CountTypes'
  BY <1>2 DEF Advance, CheckBusy, CheckCooldown, GiveUp, AfterCheck, ClaimDriveForIdentify,
              Claimable, ClassifyFails, Classify, ClassifyRejects, MayOpenTray,
              IdentifyFails, Identify, IdentifyNothing, AfterFailure, Lookup, Newest,
              SameDisc, Present, Refresh, SaveMetadata, CreateDisc, Unused, Release,
              ReleaseDriveFromIdentify, SaveTypeOnly, SetEjecting, RunEjectTool, SettleIdle,
              UpdateDriveState, FindClearable, ClearableDiscOnDrive, DeleteDisc
<1>3. CASE Work
  BY <1>3 DEF Work, TakeJob, ShowRipping, StopBeforeShown, EndRip, ShowIdle, MayOpenTray
<1>4. CASE \E scanned \in BOOLEAN : Reboot(scanned)
  BY <1>4 DEF Reboot, HasActiveJobOnDrive
<1>5. CASE \E d \in Discs : Insert(d)
  BY <1>5 DEF Insert
<1>6. CASE Remove \/ CoolDown
  BY <1>6 DEF Remove, CoolDown
<1>7. CASE \E r \in Rows : StartDisc(r) \/ CancelQueued(r) \/ Age(r)
  BY <1>7 DEF StartDisc, CancelQueued, Age, Present
<1>8. ASSUME NEW f \in Flows, ContextEnds(f)
      PROVE  CountTypes'
  BY <1>8 DEF ContextEnds, MayOpenTray
<1>9. ASSUME NEW f \in Flows, LookupFails(f)
      PROVE  CountTypes'
  BY SMTT(30), <1>9 DEF LookupFails, AfterCheck
<1> QED BY <1>1, <1>2, <1>3, <1>4, <1>5, <1>6, <1>7, <1>8, <1>9 DEF Next

(* Nothing else leaves its type.                                            *)
LEMMA OtherTypesNext ==
  ASSUME OtherTypes, Next
  PROVE  OtherTypes'
<1> USE DriveAssumption DEF OtherTypes, diskVars, discVars, flowVars, workVars, countVars,
                            auxVars, GoTo, Leave
<1>1. ASSUME NEW f \in Flows, Arrive(f)
      PROVE  OtherTypes'
  BY ZenonT(60), <1>1 DEF Arrive, MediaEvent, HandleManual, EjectDrive, Reidentify, SetDiscType, Begin
<1>2. ASSUME NEW f \in Flows, Advance(f)
      PROVE  OtherTypes'
  BY ZenonT(60), <1>2 DEF Advance, CheckBusy, CheckCooldown, GiveUp, AfterCheck, ClaimDriveForIdentify,
              Claimable, ClassifyFails, Classify, ClassifyRejects, MayOpenTray,
              IdentifyFails, Identify, IdentifyNothing, AfterFailure, Lookup, Newest,
              SameDisc, Present, Refresh, SaveMetadata, CreateDisc, Unused, Release,
              ReleaseDriveFromIdentify, SaveTypeOnly, SetEjecting, RunEjectTool, SettleIdle,
              UpdateDriveState, FindClearable, ClearableDiscOnDrive, DeleteDisc
<1>3. CASE Work
  BY <1>3 DEF Work, TakeJob, ShowRipping, StopBeforeShown, EndRip, ShowIdle, MayOpenTray
<1>4. CASE \E scanned \in BOOLEAN : Reboot(scanned)
  <2>1. leftover' \in BOOLEAN /\ cooling' \in BOOLEAN
    BY <1>4 DEF Reboot, HasActiveJobOnDrive
  <2>2. UNCHANGED <<media, overlap>> /\ unseen' = FALSE /\ stomped' = FALSE
    BY <1>4 DEF Reboot
  <2> QED BY <2>1, <2>2
<1>5. CASE \E d \in Discs : Insert(d)
  BY <1>5 DEF Insert
<1>6. CASE Remove \/ CoolDown
  BY <1>6 DEF Remove, CoolDown
<1>7. CASE \E r \in Rows : StartDisc(r) \/ CancelQueued(r) \/ Age(r)
  BY <1>7 DEF StartDisc, CancelQueued, Age, Present
<1>8. ASSUME NEW f \in Flows, ContextEnds(f)
      PROVE  OtherTypes'
  BY <1>8 DEF ContextEnds, MayOpenTray
<1>9. ASSUME NEW f \in Flows, LookupFails(f)
      PROVE  OtherTypes'
  BY SMTT(30), <1>9 DEF LookupFails, AfterCheck
<1> QED BY <1>1, <1>2, <1>3, <1>4, <1>5, <1>6, <1>7, <1>8, <1>9 DEF Next

(* A flow works at what it was begun for, with what it has found so far.    *)
LEMMA ErrandsNext ==
  ASSUME FlowTypes, Errands, Next
  PROVE  Errands'
<1> USE DriveAssumption DEF FlowTypes, Errands, Identifying, Kinds, diskVars, discVars,
                            flowVars, workVars, countVars, auxVars, GoTo, Leave
<1>1. ASSUME NEW f \in Flows, Arrive(f)
      PROVE  Errands'
  BY <1>1 DEF Arrive, MediaEvent, HandleManual, EjectDrive, Reidentify, SetDiscType, Begin
<1>2. ASSUME NEW f \in Flows, Advance(f)
      PROVE  Errands'
  <2>1. CASE CheckBusy(f) \/ CheckCooldown(f)
    BY <2>1 DEF CheckBusy, CheckCooldown, GiveUp, AfterCheck
  <2>2. CASE ClaimDriveForIdentify(f)
    BY <2>2 DEF ClaimDriveForIdentify, GiveUp, Claimable
  <2>3. CASE ClassifyFails(f) \/ Classify(f) \/ ClassifyRejects(f)
    BY <2>3 DEF ClassifyFails, Classify, ClassifyRejects, MayOpenTray
  <2>4. CASE IdentifyFails(f) \/ Identify(f) \/ IdentifyNothing(f)
    BY <2>4 DEF IdentifyFails, Identify, IdentifyNothing, AfterFailure
  <2>5. CASE Lookup(f)
    BY <2>5 DEF Lookup, Newest, SameDisc, Present
  <2>6. CASE Refresh(f)
    BY <2>6 DEF Refresh, SaveMetadata, Present
  <2>7. CASE CreateDisc(f)
    BY <2>7 DEF CreateDisc, Unused
  <2>8. CASE Release(f)
    BY <2>8 DEF Release, ReleaseDriveFromIdentify
  <2>9. CASE SaveTypeOnly(f)
    BY <2>9 DEF SaveTypeOnly, SaveMetadata, Present
  <2>10. CASE SetEjecting(f) \/ RunEjectTool(f) \/ SettleIdle(f)
    BY <2>10 DEF SetEjecting, RunEjectTool, SettleIdle, UpdateDriveState
  <2>11. CASE FindClearable(f)
    BY <2>11 DEF FindClearable, ClearableDiscOnDrive, Newest, Present
  <2>12. CASE DeleteDisc(f)
    BY <2>12 DEF DeleteDisc, Present
  <2> QED BY <1>2, <2>1, <2>2, <2>3, <2>4, <2>5, <2>6, <2>7, <2>8, <2>9, <2>10, <2>11, <2>12
     DEF Advance
<1>3. CASE Work
  BY <1>3 DEF Work, TakeJob, ShowRipping, StopBeforeShown, EndRip, ShowIdle, MayOpenTray
<1>4. CASE \E scanned \in BOOLEAN : Reboot(scanned)
  BY <1>4 DEF Reboot, HasActiveJobOnDrive
<1>5. CASE \E d \in Discs : Insert(d)
  BY <1>5 DEF Insert
<1>6. CASE Remove \/ CoolDown
  BY <1>6 DEF Remove, CoolDown
<1>7. CASE \E r \in Rows : StartDisc(r) \/ CancelQueued(r) \/ Age(r)
  BY <1>7 DEF StartDisc, CancelQueued, Age, Present
<1>8. ASSUME NEW f \in Flows, ContextEnds(f)
      PROVE  Errands'
  BY <1>8 DEF ContextEnds, MayOpenTray
<1>9. ASSUME NEW f \in Flows, LookupFails(f)
      PROVE  Errands'
  BY SMTT(30), <1>9 DEF LookupFails, AfterCheck
<1> QED BY <1>1, <1>2, <1>3, <1>4, <1>5, <1>6, <1>7, <1>8, <1>9 DEF Next

(* Whoever makes the drive busy is there until it is not: an identification *)
(* holds its place until Release, an eject until SettleIdle, the worker     *)
(* until ShowIdle; and each writes the drive in the step that takes it      *)
(* there.                                                                   *)
LEMMA BusyNext ==
  ASSUME FlowTypes, WorkTypes, Errands, BusyIsReal, Next
  PROVE  BusyIsReal'
<1> USE DriveAssumption DEF FlowTypes, WorkTypes, Errands, BusyIsReal, Identifying,
                            diskVars, discVars, flowVars, workVars, countVars, auxVars,
                            GoTo, Leave
<1>1. ASSUME NEW f \in Flows, Arrive(f)
      PROVE  BusyIsReal'
  BY <1>1 DEF Arrive, MediaEvent, HandleManual, EjectDrive, Reidentify, SetDiscType, Begin
<1>2. ASSUME NEW f \in Flows, Advance(f)
      PROVE  BusyIsReal'
  <2>1. CASE CheckBusy(f) \/ CheckCooldown(f)
    BY <2>1 DEF CheckBusy, CheckCooldown, GiveUp, AfterCheck
  <2>2. CASE ClaimDriveForIdentify(f)
    BY <2>2 DEF ClaimDriveForIdentify, GiveUp, Claimable
  <2>3. CASE ClassifyFails(f) \/ Classify(f) \/ ClassifyRejects(f)
    BY <2>3 DEF ClassifyFails, Classify, ClassifyRejects, MayOpenTray
  <2>4. CASE IdentifyFails(f) \/ Identify(f) \/ IdentifyNothing(f)
    BY <2>4 DEF IdentifyFails, Identify, IdentifyNothing, AfterFailure
  <2>5. CASE Lookup(f)
    BY <2>5 DEF Lookup, Newest, SameDisc, Present
  <2>6. CASE Refresh(f)
    BY <2>6 DEF Refresh, SaveMetadata, Present
  <2>7. CASE CreateDisc(f)
    BY <2>7 DEF CreateDisc, Unused
  <2>8. CASE Release(f)
    BY <2>8 DEF Release, ReleaseDriveFromIdentify
  <2>9. CASE SaveTypeOnly(f)
    BY <2>9 DEF SaveTypeOnly, SaveMetadata, Present
  <2>10. CASE SetEjecting(f) \/ RunEjectTool(f) \/ SettleIdle(f)
    BY <2>10 DEF SetEjecting, RunEjectTool, SettleIdle, UpdateDriveState
  <2>11. CASE FindClearable(f)
    BY <2>11 DEF FindClearable, ClearableDiscOnDrive, Newest, Present
  <2>12. CASE DeleteDisc(f)
    BY <2>12 DEF DeleteDisc, Present
  <2> QED BY <1>2, <2>1, <2>2, <2>3, <2>4, <2>5, <2>6, <2>7, <2>8, <2>9, <2>10, <2>11, <2>12
     DEF Advance
<1>3. CASE Work
  BY <1>3 DEF Work, TakeJob, ShowRipping, StopBeforeShown, EndRip, ShowIdle, MayOpenTray
<1>4. CASE \E scanned \in BOOLEAN : Reboot(scanned)
  BY <1>4 DEF Reboot, HasActiveJobOnDrive
<1>5. CASE \E d \in Discs : Insert(d)
  BY <1>5 DEF Insert
<1>6. CASE Remove \/ CoolDown
  BY <1>6 DEF Remove, CoolDown
<1>7. CASE \E r \in Rows : StartDisc(r) \/ CancelQueued(r) \/ Age(r)
  BY <1>7 DEF StartDisc, CancelQueued, Age, Present
<1>8. ASSUME NEW f \in Flows, ContextEnds(f)
      PROVE  BusyIsReal'
  <2>1. /\ pc[f] \in Identifying => pc'[f] \in Identifying
        /\ \A g \in Flows \ {f} : pc'[g] = pc[g] /\ kind'[g] = kind[g]
        /\ UNCHANGED <<drive, wpc>>
    BY <1>8 DEF ContextEnds
  <2>2. drive' = "ejecting" /\ ~leftover' =>
          ~leftover /\ ~(kind[f] = "eject" /\ pc[f] \in {"tool", "settle", "restore"})
    BY <1>8 DEF ContextEnds
  <2>3. leftover => leftover'
    BY <1>8 DEF ContextEnds
  <2> QED BY <2>1, <2>2, <2>3
<1>9. ASSUME NEW f \in Flows, LookupFails(f)
      PROVE  BusyIsReal'
  BY SMTT(30), <1>9 DEF LookupFails, AfterCheck
<1> QED BY <1>1, <1>2, <1>3, <1>4, <1>5, <1>6, <1>7, <1>8, <1>9 DEF Next

(* Only ShowRipping starts a rip, and while it runs a release leaves the    *)
(* drive alone: what else writes the row is a flow, which UpdateDriveState  *)
(* records.                                                                 *)
LEMMA RippingNext ==
  ASSUME WorkTypes, RippingShown, Next
  PROVE  RippingShown'
<1> USE DriveAssumption DEF WorkTypes, RippingShown, diskVars, discVars, flowVars, workVars,
                            countVars, auxVars, GoTo, Leave
<1>1. ASSUME NEW f \in Flows, Arrive(f)
      PROVE  RippingShown'
  BY SMTT(30), <1>1 DEF Arrive, MediaEvent, HandleManual, EjectDrive, Reidentify, SetDiscType, Begin
<1>2. ASSUME NEW f \in Flows, Advance(f)
      PROVE  RippingShown'
  BY <1>2 DEF Advance, CheckBusy, CheckCooldown, GiveUp, AfterCheck, ClaimDriveForIdentify,
              Claimable, ClassifyFails, Classify, ClassifyRejects, MayOpenTray,
              IdentifyFails, Identify, IdentifyNothing, AfterFailure, Lookup, Newest,
              SameDisc, Present, Refresh, SaveMetadata, CreateDisc, Unused, Release,
              ReleaseDriveFromIdentify, SaveTypeOnly, SetEjecting, RunEjectTool, SettleIdle,
              UpdateDriveState, FindClearable, ClearableDiscOnDrive, DeleteDisc
<1>3. CASE Work
  BY <1>3 DEF Work, TakeJob, ShowRipping, StopBeforeShown, EndRip, ShowIdle, MayOpenTray
<1>4. CASE \E scanned \in BOOLEAN : Reboot(scanned)
  BY <1>4 DEF Reboot, HasActiveJobOnDrive
<1>5. CASE \E d \in Discs : Insert(d)
  BY <1>5 DEF Insert
<1>6. CASE Remove \/ CoolDown
  BY <1>6 DEF Remove, CoolDown
<1>7. CASE \E r \in Rows : StartDisc(r) \/ CancelQueued(r) \/ Age(r)
  BY <1>7 DEF StartDisc, CancelQueued, Age, Present
<1>8. ASSUME NEW f \in Flows, ContextEnds(f)
      PROVE  RippingShown'
  BY <1>8 DEF ContextEnds, MayOpenTray
<1>9. ASSUME NEW f \in Flows, LookupFails(f)
      PROVE  RippingShown'
  BY SMTT(30), <1>9 DEF LookupFails, AfterCheck
<1> QED BY <1>1, <1>2, <1>3, <1>4, <1>5, <1>6, <1>7, <1>8, <1>9 DEF Next

(* The step that gives the drive its first active job puts every flow past  *)
(* its check among the overtaken.                                           *)
LEMMA ChecksNext ==
  ASSUME StoreTypes, FlowTypes, WorkTypes, Errands, ChecksHold, Next
  PROVE  ChecksHold'
<1> USE DriveAssumption DEF StoreTypes, FlowTypes, WorkTypes, Errands, ChecksHold,
                            HasActiveJobOnDrive, Active, Identifying, Checked, diskVars,
                            discVars, flowVars, workVars, countVars, auxVars, GoTo, Leave
<1>1. ASSUME NEW f \in Flows, Arrive(f)
      PROVE  ChecksHold'
  BY <1>1 DEF Arrive, MediaEvent, HandleManual, EjectDrive, Reidentify, SetDiscType, Begin
<1>2. ASSUME NEW f \in Flows, Advance(f)
      PROVE  ChecksHold'
  <2>1. CASE CheckBusy(f) \/ CheckCooldown(f)
    BY <2>1 DEF CheckBusy, CheckCooldown, GiveUp, AfterCheck
  <2>2. CASE ClaimDriveForIdentify(f)
    <3>1. /\ job' = job
          /\ \A g \in Flows \ overtaken' : pc'[g] \in Checked =>
               g \notin overtaken /\ pc[g] \in Checked
      BY <2>2 DEF ClaimDriveForIdentify, GiveUp
    <3> QED BY <3>1
  <2>3. CASE ClassifyFails(f) \/ Classify(f) \/ ClassifyRejects(f)
    BY <2>3 DEF ClassifyFails, Classify, ClassifyRejects, MayOpenTray
  <2>4. CASE IdentifyFails(f) \/ Identify(f) \/ IdentifyNothing(f)
    BY <2>4 DEF IdentifyFails, Identify, IdentifyNothing, AfterFailure
  <2>5. CASE Lookup(f)
    BY <2>5 DEF Lookup, Newest, SameDisc, Present
  <2>6. CASE Refresh(f)
    BY <2>6 DEF Refresh, SaveMetadata, Present
  <2>7. CASE CreateDisc(f)
    BY <2>7 DEF CreateDisc, Unused
  <2>8. CASE Release(f)
    BY <2>8 DEF Release, ReleaseDriveFromIdentify
  <2>9. CASE SaveTypeOnly(f)
    BY <2>9 DEF SaveTypeOnly, SaveMetadata, Present
  <2>10. CASE SetEjecting(f) \/ RunEjectTool(f) \/ SettleIdle(f)
    BY <2>10 DEF SetEjecting, RunEjectTool, SettleIdle, UpdateDriveState
  <2>11. CASE FindClearable(f)
    BY <2>11 DEF FindClearable, ClearableDiscOnDrive, Newest, Present
  <2>12. CASE DeleteDisc(f)
    BY <2>12 DEF DeleteDisc, Present
  <2> QED BY <1>2, <2>1, <2>2, <2>3, <2>4, <2>5, <2>6, <2>7, <2>8, <2>9, <2>10, <2>11, <2>12
     DEF Advance
<1>3. CASE Work
  BY <1>3 DEF Work, TakeJob, ShowRipping, StopBeforeShown, EndRip, ShowIdle, MayOpenTray
<1>4. CASE \E scanned \in BOOLEAN : Reboot(scanned)
  BY <1>4 DEF Reboot, HasActiveJobOnDrive
<1>5. CASE \E d \in Discs : Insert(d)
  BY <1>5 DEF Insert
<1>6. CASE Remove \/ CoolDown
  BY <1>6 DEF Remove, CoolDown
<1>7. CASE \E r \in Rows : StartDisc(r) \/ CancelQueued(r) \/ Age(r)
  BY <1>7 DEF StartDisc, CancelQueued, Age, Present
<1>8. ASSUME NEW f \in Flows, ContextEnds(f)
      PROVE  ChecksHold'
  BY <1>8 DEF ContextEnds, MayOpenTray
<1>9. ASSUME NEW f \in Flows, LookupFails(f)
      PROVE  ChecksHold'
  BY SMTT(30), <1>9 DEF LookupFails, AfterCheck
<1> QED BY <1>1, <1>2, <1>3, <1>4, <1>5, <1>6, <1>7, <1>8, <1>9 DEF Next

(* Only a claim lets a flow in, and a claim that finds another one inside   *)
(* is an overlap.                                                           *)
LEMMA HolderNext ==
  ASSUME FlowTypes, Errands, OneHolder, Next
  PROVE  OneHolder'
<1> USE DriveAssumption DEF FlowTypes, Errands, OneHolder, Identifying, Kinds, diskVars,
                            discVars, flowVars, workVars, countVars, auxVars, GoTo, Leave
<1>1. ASSUME NEW f \in Flows, Arrive(f)
      PROVE  OneHolder'
  BY <1>1 DEF Arrive, MediaEvent, HandleManual, EjectDrive, Reidentify, SetDiscType, Begin
<1>2. ASSUME NEW f \in Flows, Advance(f)
      PROVE  OneHolder'
  <2>1. CASE CheckBusy(f) \/ CheckCooldown(f)
    BY <2>1 DEF CheckBusy, CheckCooldown, GiveUp, AfterCheck
  <2>2. CASE ClaimDriveForIdentify(f)
    BY <2>2, ClaimFacts
  <2>3. CASE ClassifyFails(f) \/ Classify(f) \/ ClassifyRejects(f)
    BY <2>3 DEF ClassifyFails, Classify, ClassifyRejects, MayOpenTray
  <2>4. CASE IdentifyFails(f) \/ Identify(f) \/ IdentifyNothing(f)
    BY <2>4 DEF IdentifyFails, Identify, IdentifyNothing, AfterFailure
  <2>5. CASE Lookup(f)
    BY <2>5 DEF Lookup, Newest, SameDisc, Present
  <2>6. CASE Refresh(f)
    BY <2>6 DEF Refresh, SaveMetadata, Present
  <2>7. CASE CreateDisc(f)
    BY <2>7 DEF CreateDisc, Unused
  <2>8. CASE Release(f)
    BY <2>8 DEF Release, ReleaseDriveFromIdentify
  <2>9. CASE SaveTypeOnly(f)
    BY <2>9 DEF SaveTypeOnly, SaveMetadata, Present
  <2>10. CASE SetEjecting(f) \/ RunEjectTool(f) \/ SettleIdle(f)
    BY <2>10 DEF SetEjecting, RunEjectTool, SettleIdle, UpdateDriveState
  <2>11. CASE FindClearable(f)
    BY <2>11 DEF FindClearable, ClearableDiscOnDrive, Newest, Present
  <2>12. CASE DeleteDisc(f)
    BY <2>12 DEF DeleteDisc, Present
  <2> QED BY <1>2, <2>1, <2>2, <2>3, <2>4, <2>5, <2>6, <2>7, <2>8, <2>9, <2>10, <2>11, <2>12
     DEF Advance
<1>3. CASE Work
  BY <1>3 DEF Work, TakeJob, ShowRipping, StopBeforeShown, EndRip, ShowIdle, MayOpenTray
<1>4. CASE \E scanned \in BOOLEAN : Reboot(scanned)
  BY <1>4 DEF Reboot, HasActiveJobOnDrive
<1>5. CASE \E d \in Discs : Insert(d)
  BY <1>5 DEF Insert
<1>6. CASE Remove \/ CoolDown
  BY <1>6 DEF Remove, CoolDown
<1>7. CASE \E r \in Rows : StartDisc(r) \/ CancelQueued(r) \/ Age(r)
  BY <1>7 DEF StartDisc, CancelQueued, Age, Present
<1>8. ASSUME NEW f \in Flows, ContextEnds(f)
      PROVE  OneHolder'
  BY <1>8 DEF ContextEnds, MayOpenTray
<1>9. ASSUME NEW f \in Flows, LookupFails(f)
      PROVE  OneHolder'
  BY SMTT(30), <1>9 DEF LookupFails, AfterCheck
<1> QED BY <1>1, <1>2, <1>3, <1>4, <1>5, <1>6, <1>7, <1>8, <1>9 DEF Next

(* Only Lookup sends an event to refresh a row, which then has the hash of  *)
(* what the event has found or its id; and no step takes an id from a row   *)
(* without a hash but a user's.                                             *)
LEMMA TargetNext ==
  ASSUME StoreTypes, FlowTypes, Errands, KnownTarget, Next
  PROVE  KnownTarget'
<1> USE DriveAssumption, KnownTypes DEF StoreTypes, FlowTypes, Errands, KnownTarget,
                                        diskVars, discVars, flowVars, workVars, countVars,
                                        auxVars, GoTo, Leave
<1>1. ASSUME NEW f \in Flows, Arrive(f)
      PROVE  KnownTarget'
  BY <1>1 DEF Arrive, MediaEvent, HandleManual, EjectDrive, Reidentify, SetDiscType, Begin
<1>2. ASSUME NEW f \in Flows, Advance(f)
      PROVE  KnownTarget'
  <2>1. CASE CheckBusy(f) \/ CheckCooldown(f)
    BY <2>1 DEF CheckBusy, CheckCooldown, GiveUp, AfterCheck
  <2>2. CASE ClaimDriveForIdentify(f)
    BY <2>2 DEF ClaimDriveForIdentify, GiveUp, Claimable
  <2>3. CASE ClassifyFails(f) \/ Classify(f) \/ ClassifyRejects(f)
    BY <2>3 DEF ClassifyFails, Classify, ClassifyRejects, MayOpenTray
  <2>4. CASE IdentifyFails(f) \/ Identify(f) \/ IdentifyNothing(f)
    BY <2>4 DEF IdentifyFails, Identify, IdentifyNothing, AfterFailure
  <2>5. CASE Lookup(f)
    BY <2>5 DEF Lookup, Newest, SameDisc, Present
  <2>6. CASE Refresh(f)
    <3>1. /\ picked \subseteq picked'
          /\ \A q \in Rows \ picked' : toc[q] = None => id'[q] = id[q]
          /\ row' = row /\ toc' = toc /\ recent' = recent
      BY <2>6, IdsKept
    <3>2. \A g \in Flows : pc'[g] = "refresh" /\ kind'[g] = "insert" =>
            /\ pc[g] = "refresh" /\ kind[g] = "insert"
            /\ target'[g] = target[g] /\ found'[g] = found[g]
      BY <2>6 DEF Refresh
    <3> QED BY <3>1, <3>2, TargetKept
  <2>7. CASE CreateDisc(f)
    <3>1. /\ \A r \in Rows : row[r] # "none" =>
               row'[r] # "none" /\ toc'[r] = toc[r] /\ id'[r] = id[r]
          /\ picked' = picked
      BY <2>7 DEF CreateDisc, Unused
    <3>2. \A g \in Flows : pc'[g] = "refresh" /\ kind'[g] = "insert" =>
            /\ pc[g] = "refresh" /\ kind[g] = "insert"
            /\ target'[g] = target[g] /\ found'[g] = found[g]
      BY <2>7 DEF CreateDisc
    <3> QED BY <3>1, <3>2, TargetKept
  <2>8. CASE Release(f)
    BY <2>8 DEF Release, ReleaseDriveFromIdentify
  <2>9. CASE SaveTypeOnly(f)
    <3>1. /\ picked \subseteq picked'
          /\ \A q \in Rows \ picked' : toc[q] = None => id'[q] = id[q]
          /\ row' = row /\ toc' = toc /\ recent' = recent
      BY <2>9, IdsKept
    <3>2. \A g \in Flows : pc'[g] = "refresh" /\ kind'[g] = "insert" =>
            /\ pc[g] = "refresh" /\ kind[g] = "insert"
            /\ target'[g] = target[g] /\ found'[g] = found[g]
      BY <2>9 DEF SaveTypeOnly
    <3> QED BY <3>1, <3>2, TargetKept
  <2>10. CASE SetEjecting(f) \/ RunEjectTool(f) \/ SettleIdle(f)
    BY <2>10 DEF SetEjecting, RunEjectTool, SettleIdle, UpdateDriveState
  <2>11. CASE FindClearable(f)
    BY <2>11 DEF FindClearable, ClearableDiscOnDrive, Newest, Present
  <2>12. CASE DeleteDisc(f)
    <3>1. /\ \A r \in Rows : row[r] # "none" => row'[r] # "none"
          /\ picked' = picked /\ toc' = toc /\ id' = id
      BY <2>12 DEF DeleteDisc
    <3>2. \A g \in Flows : pc'[g] = "refresh" /\ kind'[g] = "insert" =>
            /\ pc[g] = "refresh" /\ kind[g] = "insert"
            /\ target'[g] = target[g] /\ found'[g] = found[g]
      BY <2>12 DEF DeleteDisc
    <3> QED BY <3>1, <3>2, TargetKept
  <2> QED BY <1>2, <2>1, <2>2, <2>3, <2>4, <2>5, <2>6, <2>7, <2>8, <2>9, <2>10, <2>11, <2>12
     DEF Advance
<1>3. CASE Work
  BY <1>3 DEF Work, TakeJob, ShowRipping, StopBeforeShown, EndRip, ShowIdle, MayOpenTray
<1>4. CASE \E scanned \in BOOLEAN : Reboot(scanned)
  BY <1>4 DEF Reboot, HasActiveJobOnDrive
<1>5. CASE \E d \in Discs : Insert(d)
  BY <1>5 DEF Insert
<1>6. CASE Remove \/ CoolDown
  BY <1>6 DEF Remove, CoolDown
<1>7. CASE \E r \in Rows : StartDisc(r) \/ CancelQueued(r) \/ Age(r)
  <2>1. ASSUME NEW r \in Rows, StartDisc(r)
        PROVE  KnownTarget'
    <3>1. /\ picked \subseteq picked'
          /\ \A q \in Rows \ picked' : toc[q] = None => id'[q] = id[q]
          /\ row' = row /\ toc' = toc /\ recent' = recent
      BY <2>1, IdsKept
    <3>2. \A g \in Flows : pc'[g] = "refresh" /\ kind'[g] = "insert" =>
            /\ pc[g] = "refresh" /\ kind[g] = "insert"
            /\ target'[g] = target[g] /\ found'[g] = found[g]
      BY <2>1 DEF StartDisc
    <3> QED BY <3>1, <3>2, TargetKept
  <2>2. ASSUME NEW r \in Rows, CancelQueued(r) \/ Age(r)
        PROVE  KnownTarget'
    BY <2>2 DEF CancelQueued, Age
  <2> QED BY <1>7, <2>1, <2>2
<1>8. ASSUME NEW f \in Flows, ContextEnds(f)
      PROVE  KnownTarget'
  BY <1>8 DEF ContextEnds, MayOpenTray
<1>9. ASSUME NEW f \in Flows, LookupFails(f)
      PROVE  KnownTarget'
  BY SMTT(30), <1>9 DEF LookupFails, AfterCheck
<1> QED BY <1>1, <1>2, <1>3, <1>4, <1>5, <1>6, <1>7, <1>8, <1>9 DEF Next

(* Lookup sends an event to create a row when no row is of its disc. Until  *)
(* it has, none becomes so: only CreateDisc makes one, and only the event   *)
(* itself is there to do so.                                                *)
LEMMA TwinNext ==
  ASSUME StoreTypes, FlowTypes, Errands, OneHolder, KnownTarget, NoTwin, Next
  PROVE  NoTwin'
<1> USE DriveAssumption, KnownTypes DEF StoreTypes, FlowTypes, Errands, OneHolder,
                                        KnownTarget, NoTwin, Present, Identifying, Kinds,
                                        diskVars, discVars, flowVars, workVars, countVars,
                                        auxVars, GoTo, Leave
<1>1. ASSUME NEW f \in Flows, Arrive(f)
      PROVE  NoTwin'
  BY <1>1 DEF Arrive, MediaEvent, HandleManual, EjectDrive, Reidentify, SetDiscType, Begin
<1>2. ASSUME NEW f \in Flows, Advance(f)
      PROVE  NoTwin'
  <2>1. CASE CheckBusy(f) \/ CheckCooldown(f)
    BY <2>1 DEF CheckBusy, CheckCooldown, GiveUp, AfterCheck
  <2>2. CASE ClaimDriveForIdentify(f)
    <3>1. /\ UNCHANGED <<row, toc, id, recent, picked>> /\ (~overlap' => ~overlap)
          /\ \A g \in Flows : pc'[g] = "create" => pc[g] = "create" /\ found'[g] = found[g]
      BY <2>2, ClaimFacts
    <3> HIDE DEF NoTwin
    <3> QED BY <3>1, TwinKept
  <2>3. CASE ClassifyFails(f) \/ Classify(f) \/ ClassifyRejects(f)
    <3>1. UNCHANGED <<row, toc, id, recent, picked, overlap>>
      BY <2>3 DEF ClassifyFails, Classify, ClassifyRejects
    <3>2. /\ \A g \in Flows : found'[g] = found[g] /\ (g # f => pc'[g] = pc[g])
          /\ pc[f] = "classify" /\ kind[f] # "settype"
      BY <2>3 DEF ClassifyFails, Classify, ClassifyRejects
    <3>3. CASE pc'[f] # "create"
      BY <3>1, <3>2, <3>3, TwinKept
    <3>4. CASE pc'[f] = "create"
      <4>1. kind[f] = "insert" /\ found[f] = Nothing
        BY <2>3, <3>4 DEF ClassifyFails, Classify, ClassifyRejects
      <4> QED BY <3>1, <3>2, <4>1 DEF Nothing
    <3> QED BY <3>3, <3>4
  <2>4. CASE IdentifyFails(f) \/ Identify(f) \/ IdentifyNothing(f)
    BY <2>4 DEF IdentifyFails, Identify, IdentifyNothing, AfterFailure
  <2>5. CASE Lookup(f)
    <3>1. /\ UNCHANGED <<row, toc, id, recent, picked, overlap, found>>
          /\ \A g \in Flows \ {f} : pc'[g] = pc[g]
      BY <2>5 DEF Lookup
    <3>2. CASE pc'[f] # "create"
      BY <3>1, <3>2, TwinKept
    <3>3. CASE pc'[f] = "create"
      <4>1. SameDisc(found[f]) = {}
        BY <2>5, <3>3 DEF Lookup
      <4> HIDE DEF NoTwin
      <4> QED BY <3>1, <4>1, TwinFound
    <3> QED BY <3>2, <3>3
  <2>6. CASE Refresh(f)
    BY <2>6 DEF Refresh, SaveMetadata, Present
  <2>7. CASE CreateDisc(f)
    BY <2>7 DEF CreateDisc, Unused
  <2>8. CASE Release(f)
    BY <2>8 DEF Release, ReleaseDriveFromIdentify
  <2>9. CASE SaveTypeOnly(f)
    BY <2>9 DEF SaveTypeOnly, SaveMetadata, Present
  <2>10. CASE SetEjecting(f) \/ RunEjectTool(f) \/ SettleIdle(f)
    BY <2>10 DEF SetEjecting, RunEjectTool, SettleIdle, UpdateDriveState
  <2>11. CASE FindClearable(f)
    BY <2>11 DEF FindClearable, ClearableDiscOnDrive, Newest, Present
  <2>12. CASE DeleteDisc(f)
    BY <2>12 DEF DeleteDisc, Present
  <2> QED BY <1>2, <2>1, <2>2, <2>3, <2>4, <2>5, <2>6, <2>7, <2>8, <2>9, <2>10, <2>11, <2>12
     DEF Advance
<1>3. CASE Work
  BY <1>3 DEF Work, TakeJob, ShowRipping, StopBeforeShown, EndRip, ShowIdle, MayOpenTray
<1>4. CASE \E scanned \in BOOLEAN : Reboot(scanned)
  BY <1>4 DEF Reboot, HasActiveJobOnDrive
<1>5. CASE \E d \in Discs : Insert(d)
  BY <1>5 DEF Insert
<1>6. CASE Remove \/ CoolDown
  BY <1>6 DEF Remove, CoolDown
<1>7. CASE \E r \in Rows : StartDisc(r) \/ CancelQueued(r) \/ Age(r)
  <2>1. ASSUME NEW r \in Rows, StartDisc(r)
        PROVE  NoTwin'
    <3>1. /\ picked \subseteq picked'
          /\ \A q \in Rows \ picked' : toc[q] = None => id'[q] = id[q]
          /\ row' = row /\ toc' = toc /\ recent' = recent
      BY <2>1, IdsKept
    <3>2. UNCHANGED <<pc, found, overlap>>
      BY <2>1 DEF StartDisc
    <3> QED BY <3>1, <3>2, TwinKept
  <2>2. ASSUME NEW r \in Rows, CancelQueued(r) \/ Age(r)
        PROVE  NoTwin'
    BY <2>2 DEF CancelQueued, Age
  <2> QED BY <1>7, <2>1, <2>2
<1>8. ASSUME NEW f \in Flows, ContextEnds(f)
      PROVE  NoTwin'
  BY <1>8 DEF ContextEnds, MayOpenTray
<1>9. ASSUME NEW f \in Flows, LookupFails(f)
      PROVE  NoTwin'
  BY SMTT(30), <1>9 DEF LookupFails, AfterCheck
<1> QED BY <1>1, <1>2, <1>3, <1>4, <1>5, <1>6, <1>7, <1>8, <1>9 DEF Next

(* So the row an event creates is the only one of its disc, and the row it  *)
(* refreshes stays what it is.                                              *)
LEMMA RowNext ==
  ASSUME StoreTypes, FlowTypes, Errands, KnownTarget, NoTwin, OneRowPerDisc, Next
  PROVE  OneRowPerDisc'
<1> USE DriveAssumption DEF StoreTypes, FlowTypes, Errands, KnownTarget, NoTwin,
                            OneRowPerDisc, Present, diskVars, discVars, flowVars, workVars,
                            countVars, auxVars, GoTo, Leave
<1>1. ASSUME NEW f \in Flows, Arrive(f)
      PROVE  OneRowPerDisc'
  <2>1. UNCHANGED <<row, toc, id, recent, picked, overlap>>
    BY <1>1 DEF Arrive, MediaEvent, HandleManual, EjectDrive, Reidentify, SetDiscType, Begin
  <2> QED BY <2>1, RowKept
<1>2. ASSUME NEW f \in Flows, Advance(f)
      PROVE  OneRowPerDisc'
  <2>1. CASE CheckBusy(f) \/ CheckCooldown(f)
    <3>1. UNCHANGED <<row, toc, id, recent, picked, overlap>>
      BY <2>1 DEF CheckBusy, CheckCooldown
    <3> QED BY <3>1
  <2>2. CASE ClaimDriveForIdentify(f)
    <3>1. UNCHANGED <<row, toc, id, recent, picked>> /\ (~overlap' => ~overlap)
      BY <2>2, ClaimFacts
    <3> QED BY <3>1
  <2>3. CASE ClassifyFails(f) \/ Classify(f) \/ ClassifyRejects(f)
    <3>1. UNCHANGED <<row, toc, id, recent, picked, overlap>>
      BY <2>3 DEF ClassifyFails, Classify, ClassifyRejects
    <3> QED BY <3>1
  <2>4. CASE IdentifyFails(f) \/ Identify(f) \/ IdentifyNothing(f)
    <3>1. UNCHANGED <<row, toc, id, recent, picked, overlap>>
      BY <2>4 DEF IdentifyFails, Identify, IdentifyNothing
    <3> QED BY <3>1
  <2>5. CASE Lookup(f)
    BY <2>5 DEF Lookup, Newest, SameDisc, Present
  <2>6. CASE Refresh(f)
    <3>1. /\ picked \subseteq picked'
          /\ \A q \in Rows \ picked' : toc[q] = None => id'[q] = id[q]
          /\ row' = row /\ toc' = toc /\ recent' = recent
      BY <2>6, IdsKept
    <3>2. overlap' = overlap
      BY <2>6 DEF Refresh
    <3> QED BY <3>1, <3>2, RowKept
  <2>7. CASE CreateDisc(f)
    BY <2>7 DEF CreateDisc, Unused
  <2>8. CASE Release(f)
    BY ZenonT(60), <2>8 DEF Release, ReleaseDriveFromIdentify
  <2>9. CASE SaveTypeOnly(f)
    BY <2>9 DEF SaveTypeOnly, SaveMetadata, Present
  <2>10. CASE SetEjecting(f) \/ RunEjectTool(f) \/ SettleIdle(f)
    BY <2>10 DEF SetEjecting, RunEjectTool, SettleIdle, UpdateDriveState
  <2>11. CASE FindClearable(f)
    BY <2>11 DEF FindClearable, ClearableDiscOnDrive, Newest, Present
  <2>12. CASE DeleteDisc(f)
    BY <2>12 DEF DeleteDisc, Present
  <2> QED BY <1>2, <2>1, <2>2, <2>3, <2>4, <2>5, <2>6, <2>7, <2>8, <2>9, <2>10, <2>11, <2>12
     DEF Advance
<1>3. CASE Work
  BY <1>3 DEF Work, TakeJob, ShowRipping, StopBeforeShown, EndRip, ShowIdle, MayOpenTray
<1>4. CASE \E scanned \in BOOLEAN : Reboot(scanned)
  <2>1. UNCHANGED <<row, toc, id, recent, picked, overlap>>
    BY <1>4 DEF Reboot
  <2> QED BY <2>1, RowKept
<1>5. CASE \E d \in Discs : Insert(d)
  BY <1>5 DEF Insert
<1>6. CASE Remove \/ CoolDown
  BY <1>6 DEF Remove, CoolDown
<1>7. CASE \E r \in Rows : StartDisc(r) \/ CancelQueued(r) \/ Age(r)
  <2>1. ASSUME NEW r \in Rows, StartDisc(r)
        PROVE  OneRowPerDisc'
    <3>1. /\ picked \subseteq picked'
          /\ \A q \in Rows \ picked' : toc[q] = None => id'[q] = id[q]
          /\ row' = row /\ toc' = toc /\ recent' = recent
      BY <2>1, IdsKept
    <3>2. overlap' = overlap
      BY <2>1 DEF StartDisc
    <3> QED BY <3>1, <3>2, RowKept
  <2>2. ASSUME NEW r \in Rows, CancelQueued(r) \/ Age(r)
        PROVE  OneRowPerDisc'
    BY <2>2 DEF CancelQueued, Age
  <2> QED BY <1>7, <2>1, <2>2
<1>8. ASSUME NEW f \in Flows, ContextEnds(f)
      PROVE  OneRowPerDisc'
  BY <1>8 DEF ContextEnds, MayOpenTray
<1>9. ASSUME NEW f \in Flows, LookupFails(f)
      PROVE  OneRowPerDisc'
  BY SMTT(30), <1>9 DEF LookupFails, AfterCheck
<1> QED BY <1>1, <1>2, <1>3, <1>4, <1>5, <1>6, <1>7, <1>8, <1>9 DEF Next

(* The invariant holds to begin with.                                       *)
LEMMA IInvInit == Init => IInv
<1> USE DriveAssumption DEF Init
<1>1. ASSUME Init
      PROVE  StoreTypes /\ FlowTypes /\ WorkTypes /\ CountTypes /\ OtherTypes
  BY <1>1 DEF StoreTypes, FlowTypes, WorkTypes, CountTypes, OtherTypes, DriveState,
              Active, FlowPc, Checked, Identifying, Kinds, Known, Nothing
<1>2. ASSUME Init
      PROVE  Errands /\ BusyIsReal /\ RippingShown /\ ChecksHold
  BY <1>2 DEF Errands, BusyIsReal, RippingShown, ChecksHold, Checked, Identifying
<1>3. ASSUME Init
      PROVE  OneHolder /\ KnownTarget /\ NoTwin /\ OneRowPerDisc
  BY <1>3 DEF OneHolder, KnownTarget, NoTwin, OneRowPerDisc, Present, Identifying
<1> QED BY <1>1, <1>2, <1>3 DEF IInv, TypeOK

(* A step keeps it.                                                         *)
LEMMA IInvNext == ASSUME IInv, Next PROVE IInv'
<1>1. /\ StoreTypes /\ FlowTypes /\ WorkTypes /\ CountTypes /\ OtherTypes
      /\ Errands /\ BusyIsReal /\ RippingShown /\ ChecksHold
      /\ OneHolder /\ KnownTarget /\ NoTwin /\ OneRowPerDisc
  BY DEF IInv, TypeOK
<1>2. StoreTypes' /\ FlowTypes' /\ WorkTypes' /\ CountTypes' /\ OtherTypes'
  BY <1>1, StoreTypesNext, FlowTypesNext, WorkTypesNext, CountTypesNext, OtherTypesNext
<1>3. Errands' /\ BusyIsReal' /\ RippingShown' /\ ChecksHold'
  BY <1>1, ErrandsNext, BusyNext, RippingNext, ChecksNext
<1>4. OneHolder' /\ KnownTarget' /\ NoTwin' /\ OneRowPerDisc'
  BY <1>1, HolderNext, TargetNext, TwinNext, RowNext
<1> QED BY <1>2, <1>3, <1>4 DEF IInv, TypeOK

(* So does a step that changes nothing.                                     *)
LEMMA IInvStutter == ASSUME IInv, UNCHANGED vars PROVE IInv'
<1> USE DEF vars, diskVars, discVars, flowVars, workVars, countVars, auxVars
<1>1. TypeOK'
  BY DEF IInv, TypeOK, StoreTypes, FlowTypes, WorkTypes, CountTypes, OtherTypes
<1>2. Errands' /\ BusyIsReal' /\ RippingShown' /\ ChecksHold'
  BY DEF IInv, Errands, BusyIsReal, RippingShown, ChecksHold, HasActiveJobOnDrive
<1>3. OneHolder' /\ KnownTarget' /\ NoTwin' /\ OneRowPerDisc'
  BY DEF IInv, OneHolder, KnownTarget, NoTwin, OneRowPerDisc, Present
<1> QED BY <1>1, <1>2, <1>3 DEF IInv

(* The invariant holds in every state that is reached.                      *)
THEOREM Invariance == Spec => []IInv
<1>1. IInv /\ [Next]_vars => IInv'
  BY IInvNext, IInvStutter
<1> QED BY <1>1, IInvInit, PTL DEF Spec

(* Every variable keeps its type, and a flow that works on a row has one.   *)
THEOREM TypeCorrect == Spec => []TypeOK
<1>1. IInv => TypeOK
  BY DEF IInv
<1> QED BY <1>1, Invariance, PTL

(* A drive that says it is busy has somebody at work who will say otherwise *)
(* (discflow.go's releases, EjectDrive, the worker).                        *)
THEOREM DriveStateIsReal == Spec => []BusyIsReal
<1>1. IInv => BusyIsReal
  BY DEF IInv
<1> QED BY <1>1, Invariance, PTL

(* A rip is shown for as long as it runs: no identification that ends in    *)
(* the meantime takes the drive from it (ReleaseDriveFromIdentify), and     *)
(* only a flow overtaken by the start of the rip can.                       *)
THEOREM RipKeepsDrive == Spec => []RippingShown
<1>1. IInv => RippingShown
  BY DEF IInv
<1> QED BY <1>1, Invariance, PTL

(* What HasActiveJobOnDrive has told a flow stays true until a job is       *)
(* started behind its back.                                                 *)
THEOREM BusyCheckHolds == Spec => []ChecksHold
<1>1. IInv => ChecksHold
  BY DEF IInv
<1> QED BY <1>1, Invariance, PTL

(* However many events an insertion gives rise to, and in whatever order    *)
(* they and the removals run, persistDisc leaves one row for the disc.      *)
THEOREM DedupHolds == Spec => []OneRowPerDisc
<1>1. IInv => OneRowPerDisc
  BY DEF IInv
<1> QED BY <1>1, Invariance, PTL
=============================================================================
