------------------------------ MODULE DriveFlow ------------------------------
(***************************************************************************)
(* One optical drive and everybody who writes its row.                     *)
(*                                                                         *)
(* A media-change event, an API request and the worker of the drive all    *)
(* read and write `drives.state', each in a goroutine of its own, with one *)
(* statement per step and no common lock.  An identification takes the     *)
(* drive with a compare-and-set (ClaimDriveForIdentify) and gives it back  *)
(* with another; the worker, an eject and a removal write unconditionally. *)
(* Along the way the flows create, refresh and delete the disc rows of the *)
(* drive.                                                                  *)
(*                                                                         *)
(* Every statement of the code is keyed by the id of one drive, so that    *)
(* several drives are several copies of this module.  The jobs are cut     *)
(* down to what these flows read of them; JobEngine has them in full.      *)
(***************************************************************************)
EXTENDS Integers, FiniteSets

CONSTANTS
  Flows,      \* goroutines: a media-change event or an API request each
  Rows,       \* disc rows the drive may ever get; a larger id is a later row
  Tocs,       \* content hashes
  Ids,        \* metadata ids: boot codes, TMDB and MusicBrainz ids
  Discs,      \* discs, as what can be known of each: a hash, an id, or None
  BDConsole,  \* DriveRoleForModel(model) = DriveRoleBDConsole
  MaxSwaps,   \* bound on insertions and removals by hand
  MaxReboots, \* bound on crashes and restarts
  MaxFlows,   \* bound on the events and requests that ever come
  MaxStarts,  \* bound on the jobs that are ever started
  MaxEnds,    \* bound on requests given up, contexts that expire and look-ups
              \* that fail
  None        \* no disc, no hash, no id, no row

ASSUME DriveAssumption == /\ Rows \subseteq Nat
                          /\ Discs \subseteq [toc : Tocs \cup {None}, id : Ids \cup {None}]
                          /\ None \notin Tocs /\ None \notin Ids
                          /\ None \notin Rows /\ None \notin Discs
                          /\ BDConsole \in BOOLEAN
                          /\ MaxSwaps \in Nat /\ MaxReboots \in Nat
                          /\ MaxFlows \in Nat /\ MaxStarts \in Nat
                          /\ MaxEnds \in Nat

VARIABLES
  drive,     \* drives.state
  media,     \* the disc in the drive
  unseen,    \* a media change the daemon has not been told of yet
  row,       \* the discs table
  toc, id,   \* toc_hash and metadata_id of a row
  recent,    \* rows created within discDedupWindow
  job,       \* the newest rip job of each row
  cooling,   \* a job on the drive ended within discFlowCooldown
  pc, kind,  \* each flow: where it is and what it is
  target,    \* the row a flow works on
  found,     \* what a flow has identified
  wpc, wrow, \* the worker of the drive
  swaps, reboots, flows, starts, ends, \* what has been used of the bounds
  \* What the code does not keep, but its comments speak of:
  overlap,   \* the drive was claimed while another flow was identifying
  overtaken, \* flows since whose busy check a job was started, or that went
             \* on without an answer to it
  stomped,   \* an overtaken flow wrote the drive row during this rip
  picked,    \* rows whose id was written by a user's choice
  leftover   \* the drive row is the word of somebody who is gone

flowVars == <<pc, kind, target, found, overtaken>>
diskVars == <<media, unseen, swaps>>
discVars == <<row, toc, id, recent, picked>>
workVars == <<wpc, wrow>>
countVars == <<reboots, flows, starts, ends>>
auxVars  == <<overlap, stomped, leftover>>
vars == <<drive, diskVars, discVars, job, cooling, flowVars, workVars, countVars, auxVars>>

DriveState == {"idle", "identifying", "ripping", "ejecting", "error"}
Claimable  == {"idle", "error"}
Active     == {"queued", "running"}
Kinds      == {"insert", "removal", "reidentify", "settype", "eject"}

(* What is known of a disc. *)
Known == [toc : Tocs \cup {None}, id : Ids \cup {None}]
Nothing == [toc |-> None, id |-> None]

(* Where a flow holds the identify slot. *)
Identifying == {"classify", "identify", "lookup", "refresh", "create",
                "toIdle", "toError"}
(* Where it has found the drive free of jobs and may still act on that. *)
Checked == Identifying \cup {"cooldown", "claim", "eject", "tool", "settle",
                             "restore", "drop"}
FlowPc == Checked \cup {"idle", "check", "delete", "typeOnly"}

StoreTypes ==
  /\ drive \in DriveState
  /\ row \in [Rows -> {"none", "present", "deleted"}]
  /\ toc \in [Rows -> Tocs \cup {None}]
  /\ id \in [Rows -> Ids \cup {None}]
  /\ job \in [Rows -> Active \cup {"none", "done", "failed"}]
  /\ recent \subseteq Rows /\ picked \subseteq Rows
FlowTypes ==
  /\ pc \in [Flows -> FlowPc]
  /\ kind \in [Flows -> Kinds]
  /\ target \in [Flows -> Rows \cup {None}]
  /\ found \in [Flows -> Known]
  /\ overtaken \subseteq Flows
  /\ \A f \in Flows : pc[f] \in {"refresh", "delete", "typeOnly"} => target[f] \in Rows
WorkTypes ==
  /\ wpc \in {"idle", "begin", "rip", "stopped", "settle"}
  /\ wrow \in Rows \cup {None}
  /\ wpc # "idle" => wrow \in Rows
OtherTypes ==
  /\ media \in Discs \cup {None}
  /\ unseen \in BOOLEAN /\ cooling \in BOOLEAN
  /\ overlap \in BOOLEAN /\ stomped \in BOOLEAN /\ leftover \in BOOLEAN
CountTypes == /\ swaps \in Nat /\ reboots \in Nat /\ flows \in Nat
              /\ starts \in Nat /\ ends \in Nat
TypeOK == StoreTypes /\ FlowTypes /\ WorkTypes /\ OtherTypes /\ CountTypes

Init ==
  /\ drive = "idle"
  /\ media = None /\ unseen = FALSE
  /\ row = [r \in Rows |-> "none"]
  /\ toc = [r \in Rows |-> None] /\ id = [r \in Rows |-> None]
  /\ recent = {} /\ picked = {}
  /\ job = [r \in Rows |-> "none"]
  /\ cooling = FALSE
  /\ pc = [f \in Flows |-> "idle"]
  /\ kind = [f \in Flows |-> "insert"]
  /\ target = [f \in Flows |-> None]
  /\ found = [f \in Flows |-> Nothing]
  /\ wpc = "idle" /\ wrow = None
  /\ swaps = 0 /\ reboots = 0 /\ flows = 0 /\ starts = 0 /\ ends = 0
  /\ overlap = FALSE /\ stomped = FALSE /\ leftover = FALSE
  /\ overtaken = {}

-----------------------------------------------------------------------------
(* Reading the store. *)

Present == {r \in Rows : row[r] = "present"}

HasActiveJobOnDrive == \E r \in Rows : job[r] \in Active

(* The newest of a set of rows: ORDER BY created_at DESC LIMIT 1. *)
Newest(S) == {r \in S : \A q \in S : q <= r}

(* ClearableDiscOnDrive: the newest row, unless its rip is active or done. *)
ClearableDiscOnDrive == {r \in Newest(Present) : job[r] \in {"none", "failed"}}

(* Only the content hash is looked up.                            [mutant] *)
SameDiscByTOC(d) == {r \in Present : toc[r] = d.toc /\ d.toc # None}

(* persistDisc's two lookups: the hash for good, then the id within the     *)
(* window.                                                                  *)
SameDisc(d) ==
  LET byTOC == {r \in Present : toc[r] = d.toc /\ d.toc # None}
      byId  == {r \in Present \cap recent : id[r] = d.id /\ d.id # None}
  IN  IF byTOC # {} THEN byTOC ELSE byId

-----------------------------------------------------------------------------
(* Writing the drive row. *)

(* The next step of a flow, and its return. *)
GoTo(f, l) ==
  /\ pc' = [pc EXCEPT ![f] = l]
  /\ UNCHANGED <<kind, target, found, overtaken>>
Leave(f) ==
  /\ pc' = [pc EXCEPT ![f] = "idle"]
  /\ kind' = [kind EXCEPT ![f] = "insert"]
  /\ target' = [target EXCEPT ![f] = None]
  /\ found' = [found EXCEPT ![f] = Nothing]
  /\ overtaken' = overtaken \ {f}

(* The release before it was made a compare-and-set.              [mutant] *)
ReleaseAlways(to) == drive' = to

(* ReleaseDriveFromIdentify *)
ReleaseDriveFromIdentify(to) ==
  drive' = IF drive = "identifying" THEN to ELSE drive

(* UpdateDriveState by a flow: unconditional. *)
UpdateDriveState(to) ==
  /\ drive' = to
  /\ stomped' = (stomped \/ wpc = "rip")
  /\ leftover' = FALSE

-----------------------------------------------------------------------------
(* What happens to the drive itself. *)

Insert(d) ==
  /\ media = None /\ swaps < MaxSwaps
  /\ media' = d /\ unseen' = TRUE /\ swaps' = swaps + 1
  /\ UNCHANGED <<drive, discVars, job, cooling, flowVars, workVars, countVars, auxVars>>

(* The button of the drive works at any time, even during a rip. *)
Remove ==
  /\ media # None /\ swaps < MaxSwaps
  /\ media' = None /\ unseen' = TRUE /\ swaps' = swaps + 1
  /\ UNCHANGED <<drive, discVars, job, cooling, flowVars, workVars, countVars, auxVars>>

(* A program or a failing tool opens the tray, or does not. *)
MayOpenTray ==
  \/ UNCHANGED diskVars
  \/ media # None /\ media' = None /\ unseen' = TRUE /\ UNCHANGED swaps

-----------------------------------------------------------------------------
(* How a flow begins. *)

Begin(f, k, r) ==
  /\ pc[f] = "idle"
  /\ flows < MaxFlows /\ flows' = flows + 1
  /\ pc' = [pc EXCEPT ![f] = "check"]
  /\ kind' = [kind EXCEPT ![f] = k]
  /\ target' = [target EXCEPT ![f] = r]
  /\ found' = [found EXCEPT ![f] = IF r = None THEN Nothing
                                     ELSE [toc |-> toc[r], id |-> id[r]]]
  /\ UNCHANGED <<drive, discVars, job, cooling, workVars, reboots, starts, ends, auxVars, overtaken>>

(* The watcher starts a goroutine per uevent.  A slow drive sends several   *)
(* for one insertion, and a busy one sends them for no reason.              *)
MediaEvent(f) ==
  /\ Begin(f, IF media = None THEN "removal" ELSE "insert", None)
  /\ unseen' = FALSE
  /\ UNCHANGED <<media, swaps>>

(* ReclassifyDrive: an insertion event made up by the API. *)
HandleManual(f) ==
  /\ ~HasActiveJobOnDrive
  /\ Begin(f, "insert", None)
  /\ UNCHANGED diskVars

EjectDrive(f) == Begin(f, "eject", None) /\ UNCHANGED diskVars

(* forceReidentify and SetDiscType read the row first and carry it along. *)
Reidentify(f, r) == r \in Present /\ Begin(f, "reidentify", r) /\ UNCHANGED diskVars
SetDiscType(f, r) == r \in Present /\ Begin(f, "settype", r) /\ UNCHANGED diskVars

(* Where a flow goes when the drive has no active job. *)
AfterCheck == [insert |-> "cooldown", removal |-> "settle", eject |-> "eject",
               reidentify |-> "claim", settype |-> "claim"]

(* Where it goes when it may not have the drive: SetDiscType still saves. *)
GiveUp(f) == IF kind[f] = "settype" THEN GoTo(f, "typeOnly") ELSE Leave(f)

(* EjectDrive without its check.                                  [mutant] *)
CheckBusyUnlessEject(f) ==
  /\ pc[f] = "check"
  /\ \/ HasActiveJobOnDrive /\ kind[f] # "eject" /\ GiveUp(f)
     \/ /\ ~HasActiveJobOnDrive \/ kind[f] = "eject"
        /\ GoTo(f, AfterCheck[kind[f]])
  /\ UNCHANGED <<drive, diskVars, discVars, job, cooling, workVars, countVars, auxVars>>

(* HasActiveJobOnDrive, asked first by all of them. *)
CheckBusy(f) ==
  /\ pc[f] = "check"
  /\ \/ HasActiveJobOnDrive /\ GiveUp(f)
     \/ ~HasActiveJobOnDrive /\ GoTo(f, AfterCheck[kind[f]])
  /\ UNCHANGED <<drive, diskVars, discVars, job, cooling, workVars, countVars, auxVars>>

(* HasRecentJobOnDrive *)
CheckCooldown(f) ==
  /\ pc[f] = "cooldown"
  /\ \/ cooling /\ Leave(f)
     \/ ~cooling /\ GoTo(f, "claim")
  /\ UNCHANGED <<drive, diskVars, discVars, job, cooling, workVars, countVars, auxVars>>

(* Either look-up may fail.  An event then goes on as if the answer had     *)
(* been no; a request gives up, like one whose context has ended.           *)
LookupFails(f) ==
  /\ pc[f] \in {"check", "cooldown"} /\ kind[f] \in {"insert", "removal"}
  /\ ends < MaxEnds /\ ends' = ends + 1
  /\ pc' = [pc EXCEPT ![f] = IF @ = "check" THEN AfterCheck[kind[f]] ELSE "claim"]
  /\ overtaken' = IF pc[f] = "check" THEN overtaken \cup {f} ELSE overtaken
  /\ UNCHANGED <<kind, target, found, drive, diskVars, discVars, job, cooling, workVars,
                 reboots, flows, starts, auxVars>>

-----------------------------------------------------------------------------
(* Identification. *)

(* ClaimDriveForIdentify.  SetDiscType knows the type already. *)
ClaimDriveForIdentify(f) ==
  /\ pc[f] = "claim"
  /\ \/ /\ drive \in Claimable
        /\ drive' = "identifying"
        /\ overlap' = (overlap \/ \E g \in Flows : pc[g] \in Identifying)
        /\ GoTo(f, IF kind[f] = "settype" THEN "identify" ELSE "classify")
     \/ /\ drive \notin Claimable
        /\ GiveUp(f)
        /\ UNCHANGED <<drive, overlap>>
  /\ UNCHANGED <<diskVars, discVars, job, cooling, workVars, countVars, stomped, leftover>>

(* Classify may fail on any disc and must fail without one.  Of an event on *)
(* a BD drive that leaves a card to be filled in by hand.                   *)
ClassifyFails(f) ==
  /\ pc[f] = "classify"
  /\ GoTo(f, IF kind[f] = "reidentify" THEN "toIdle"
             ELSE IF BDConsole THEN "create" ELSE "toError")
  /\ UNCHANGED <<drive, diskVars, discVars, job, cooling, workVars, countVars, auxVars>>

Classify(f) ==
  /\ pc[f] = "classify"
  /\ media # None
  /\ GoTo(f, "identify")
  /\ UNCHANGED <<drive, diskVars, discVars, job, cooling, workVars, countVars, auxVars>>

(* Nobody handles the type.  An event may also find the disc in the wrong   *)
(* drive and throw it out.                                                  *)
ClassifyRejects(f) ==
  /\ pc[f] = "classify"
  /\ media # None
  /\ GoTo(f, "toIdle")
  /\ UNCHANGED diskVars \/ (kind[f] = "insert" /\ MayOpenTray)
  /\ UNCHANGED <<drive, discVars, job, cooling, workVars, countVars, auxVars>>

(* Where a flow goes when the disc cannot be identified. *)
AfterFailure == [insert |-> "toError", reidentify |-> "toIdle", settype |-> "refresh"]

(* handler.Identify fails: SetDiscType saves what it has read before. *)
IdentifyFails(f) ==
  /\ pc[f] = "identify"
  /\ GoTo(f, AfterFailure[kind[f]])
  /\ UNCHANGED <<drive, diskVars, discVars, job, cooling, workVars, countVars, auxVars>>

(* It returns a disc, of which a hash or an id may be missing.              *)
Identify(f) ==
  /\ pc[f] = "identify"
  /\ \E d \in {Nothing} \cup {k \in Known : media # None /\ k.toc \in {None, media.toc}
                                                        /\ k.id \in {None, media.id}} :
       found' = [found EXCEPT ![f] = d]
  /\ pc' = [pc EXCEPT ![f] = IF kind[f] = "insert" THEN "lookup" ELSE "refresh"]
  /\ UNCHANGED <<kind, target, overtaken, drive, diskVars, discVars, job, cooling,
                 workVars, countVars, auxVars>>

(* A missing disc taken for one whose row is known.               [mutant] *)
IdentifyNilDisc(f) ==
  /\ pc[f] = "identify"
  /\ GoTo(f, "refresh")
  /\ UNCHANGED <<drive, diskVars, discVars, job, cooling, workVars, countVars, auxVars>>

(* It returns no disc at all: re-identification writes back what it read. *)
IdentifyNothing(f) ==
  /\ pc[f] = "identify"
  /\ GoTo(f, IF kind[f] = "insert" THEN "toIdle" ELSE "refresh")
  /\ UNCHANGED <<drive, diskVars, discVars, job, cooling, workVars, countVars, auxVars>>

(* persistDisc: a row of the same disc, else a new one. *)
Lookup(f) ==
  /\ pc[f] = "lookup"
  /\ \/ \E r \in Newest(SameDisc(found[f])) :
          /\ target' = [target EXCEPT ![f] = r]
          /\ pc' = [pc EXCEPT ![f] = "refresh"]
          /\ UNCHANGED <<kind, found, overtaken>>
     \/ SameDisc(found[f]) = {} /\ GoTo(f, "create")
  /\ UNCHANGED <<drive, diskVars, discVars, job, cooling, workVars, countVars, auxVars>>

(* UpdateDiscMetadata of an existing row, which keeps its hash. *)
SaveMetadata(f) ==
  LET r == target[f] IN
    /\ id' = [id EXCEPT ![r] = found[f].id]
    /\ picked' = IF kind[f] = "insert" THEN picked ELSE picked \cup {r}

(* reuseDiscRow, or the end of a re-identification; the row may be gone. *)
Refresh(f) ==
  /\ pc[f] = "refresh"
  /\ \/ /\ target[f] \in Present
        /\ SaveMetadata(f)
        /\ GoTo(f, "toIdle")
     \/ /\ target[f] \notin Present
        /\ GoTo(f, IF kind[f] = "insert" THEN "toError" ELSE "toIdle")
        /\ UNCHANGED <<id, picked>>
  /\ UNCHANGED <<drive, diskVars, row, toc, recent, job, cooling, workVars, countVars, auxVars>>

(* CreateDisc, which may fail. *)
Unused == {r \in Rows : row[r] = "none"}
CreateDisc(f) ==
  /\ pc[f] = "create"
  /\ \/ \E r \in Unused :
          /\ \A q \in Unused : r <= q
          /\ row' = [row EXCEPT ![r] = "present"]
          /\ toc' = [toc EXCEPT ![r] = found[f].toc]
          /\ id' = [id EXCEPT ![r] = found[f].id]
          /\ recent' = recent \cup {r}
          /\ GoTo(f, "toIdle")
     \/ /\ GoTo(f, "toError")
        /\ UNCHANGED <<row, toc, id, recent>>
  /\ UNCHANGED <<drive, diskVars, picked, job, cooling, workVars, countVars, auxVars>>

(* A failure after which nobody gives the drive back.             [mutant] *)
ReleaseUnlessFailed(f) ==
  /\ pc[f] \in {"toIdle", "toError"}
  /\ IF pc[f] = "toIdle" THEN ReleaseDriveFromIdentify("idle") ELSE drive' = drive
  /\ Leave(f)
  /\ UNCHANGED <<diskVars, discVars, job, cooling, workVars, countVars, auxVars>>

(* releaseDriveState, the last thing an identification does. *)
Release(f) ==
  /\ pc[f] \in {"toIdle", "toError"}
  /\ ReleaseDriveFromIdentify(IF pc[f] = "toIdle" THEN "idle" ELSE "error")
  /\ Leave(f)
  /\ UNCHANGED <<diskVars, discVars, job, cooling, workVars, countVars, auxVars>>

(* finishTypeOverride for a drive that is busy. *)
SaveTypeOnly(f) ==
  /\ pc[f] = "typeOnly"
  /\ \/ target[f] \in Present /\ SaveMetadata(f)
     \/ target[f] \notin Present /\ UNCHANGED <<id, picked>>
  /\ Leave(f)
  /\ UNCHANGED <<drive, diskVars, row, toc, recent, job, cooling, workVars, countVars, auxVars>>

-----------------------------------------------------------------------------
(* Eject and removal. *)

SetEjecting(f) ==
  /\ pc[f] = "eject"
  /\ UpdateDriveState("ejecting")
  /\ GoTo(f, "tool")
  /\ UNCHANGED <<diskVars, discVars, job, cooling, workVars, countVars, overlap>>

RunEjectTool(f) ==
  /\ pc[f] = "tool"
  /\ \/ GoTo(f, "settle") /\ (media = None => UNCHANGED diskVars)
        /\ (media # None => media' = None /\ unseen' = TRUE /\ UNCHANGED swaps)
     \/ GoTo(f, "restore") /\ UNCHANGED diskVars
  /\ UNCHANGED <<drive, discVars, job, cooling, workVars, countVars, auxVars>>

(* An eject that failed only restores the state of the drive. *)
SettleIdle(f) ==
  /\ pc[f] \in {"settle", "restore"}
  /\ UpdateDriveState("idle")
  /\ IF pc[f] = "settle" THEN GoTo(f, "drop") ELSE Leave(f)
  /\ UNCHANGED <<diskVars, discVars, job, cooling, workVars, countVars, overlap>>

(* dropClearableDiscOnDrive: look, *)
FindClearable(f) ==
  /\ pc[f] = "drop"
  /\ \/ \E r \in ClearableDiscOnDrive :
          /\ target' = [target EXCEPT ![f] = r]
          /\ pc' = [pc EXCEPT ![f] = "delete"]
          /\ UNCHANGED <<kind, found, overtaken>>
     \/ ClearableDiscOnDrive = {} /\ Leave(f)
  /\ UNCHANGED <<drive, diskVars, discVars, job, cooling, workVars, countVars, auxVars>>

(* then delete; the jobs of the disc go with it. *)
DeleteDisc(f) ==
  /\ pc[f] = "delete"
  /\ \/ /\ target[f] \in Present
        /\ row' = [row EXCEPT ![target[f]] = "deleted"]
        /\ job' = [job EXCEPT ![target[f]] = "none"]
        /\ recent' = recent \ {target[f]}
     \/ target[f] \notin Present /\ UNCHANGED <<row, job, recent>>
  /\ Leave(f)
  /\ UNCHANGED <<drive, diskVars, toc, id, picked, cooling, workVars, countVars, auxVars>>

-----------------------------------------------------------------------------
(* The context of a request ends when its client goes away or after 30 or   *)
(* 180 s (router.go), that of an event after identifyDur.  The statement    *)
(* or the tool that is next then fails.  An identification still releases   *)
(* the drive, with a context of its own; an eject does not put it back.     *)
ContextEnds(f) ==
  /\ pc[f] \notin {"idle", "toIdle", "toError"}
  /\ ends < MaxEnds /\ ends' = ends + 1
  /\ IF pc[f] \in Identifying
     THEN GoTo(f, IF kind[f] = "insert" THEN "toError" ELSE "toIdle")
     ELSE Leave(f)
  /\ IF pc[f] = "tool" THEN MayOpenTray ELSE UNCHANGED diskVars
  /\ leftover' = (leftover \/ (/\ pc[f] \in {"tool", "settle", "restore"}
                              /\ kind[f] = "eject" /\ drive = "ejecting"))
  /\ UNCHANGED <<drive, discVars, job, cooling, workVars, reboots, flows, starts,
                 overlap, stomped>>

-----------------------------------------------------------------------------
(* Jobs, as far as these flows see them. *)

(* StartDisc for any row of the drive, with the candidate the user picked;  *)
(* the mutex it holds makes it one step for every other start.              *)
StartDisc(r) ==
  /\ r \in Present
  /\ job[r] \notin Active
  /\ starts < MaxStarts /\ starts' = starts + 1
  /\ job' = [job EXCEPT ![r] = "queued"]
  /\ \/ UNCHANGED <<id, picked>>
     \/ /\ \E i \in Ids : id' = [id EXCEPT ![r] = i]
        /\ picked' = picked \cup {r}
  /\ overtaken' = overtaken \cup {f \in Flows : pc[f] \in Checked}
  /\ UNCHANGED <<drive, diskVars, row, toc, recent, cooling, pc, kind, target, found,
                 workVars, reboots, flows, ends, auxVars>>

(* CancelJobIfActive of a job nobody has picked up. *)
CancelQueued(r) ==
  /\ job[r] = "queued"
  /\ job' = [job EXCEPT ![r] = "failed"]
  /\ cooling' = TRUE
  /\ UNCHANGED <<drive, diskVars, discVars, flowVars, workVars, countVars, auxVars>>

(* The worker of the drive: the row first, then the drive. *)
TakeJob(r) ==
  /\ wpc = "idle"
  /\ job[r] = "queued"
  /\ job' = [job EXCEPT ![r] = "running"]
  /\ wpc' = "begin" /\ wrow' = r
  /\ UNCHANGED <<drive, diskVars, discVars, cooling, flowVars, countVars, auxVars>>

ShowRipping ==
  /\ wpc = "begin"
  /\ drive' = "ripping"
  /\ stomped' = FALSE /\ leftover' = FALSE
  /\ wpc' = "rip"
  /\ UNCHANGED <<diskVars, discVars, job, cooling, flowVars, wrow, countVars, overlap>>

(* A Stop in between ends the context the drive row is written with; the    *)
(* handler is called all the same.                                          *)
StopBeforeShown ==
  /\ wpc = "begin"
  /\ wpc' = "stopped"
  /\ UNCHANGED <<drive, diskVars, discVars, job, cooling, flowVars, wrow, countVars, auxVars>>

(* A worker that gets nowhere without the row of its job.         [mutant] *)
EndRipOnRecord ==
  /\ wpc \in {"rip", "stopped"}
  /\ \E s \in {"done", "failed"} :
       /\ job[wrow] = "running"
       /\ job' = [job EXCEPT ![wrow] = s]
  /\ cooling' = TRUE
  /\ UNCHANGED diskVars
  /\ wpc' = "settle"
  /\ UNCHANGED <<drive, discVars, flowVars, wrow, countVars, auxVars>>

(* The handler ends, with the disc thrown out when all went well, and the   *)
(* worker writes the outcome if the row is still there.                     *)
EndRip ==
  /\ wpc \in {"rip", "stopped"}
  /\ \/ \E s \in {"done", "failed"} :
          /\ job[wrow] = "running"
          /\ job' = [job EXCEPT ![wrow] = s]
          /\ cooling' = TRUE
     \/ job[wrow] # "running" /\ UNCHANGED <<job, cooling>>
  /\ UNCHANGED diskVars \/ (job'[wrow] # "failed" /\ MayOpenTray)
  /\ wpc' = "settle"
  /\ UNCHANGED <<drive, discVars, flowVars, wrow, countVars, auxVars>>

ShowIdle ==
  /\ wpc = "settle"
  /\ drive' = "idle"
  /\ leftover' = FALSE
  /\ wpc' = "idle" /\ wrow' = None
  /\ UNCHANGED <<diskVars, discVars, job, cooling, flowVars, countVars, overlap, stomped>>

-----------------------------------------------------------------------------
(* Time and the process. *)

CoolDown ==
  /\ cooling
  /\ cooling' = FALSE
  /\ UNCHANGED <<drive, diskVars, discVars, job, flowVars, workVars, countVars, auxVars>>

(* Two minutes after its creation a row leaves the window. *)
Age(r) ==
  /\ r \in recent
  /\ recent' = recent \ {r}
  /\ UNCHANGED <<drive, diskVars, row, toc, id, picked, job, cooling, flowVars, workVars, countVars, auxVars>>

(* A crash and the restart after it.  InitialScan writes `idle' to every    *)
(* drive it finds; of the others ResetIdentifyingDrives frees those that    *)
(* were identifying.  MarkInterruptedJobs ends the jobs; events are lost.   *)
Reboot(scanned) ==
  /\ reboots < MaxReboots
  /\ reboots' = reboots + 1
  /\ drive' = IF scanned \/ drive = "identifying" THEN "idle" ELSE drive
  /\ leftover' = (drive' \in {"ripping", "ejecting"})
  /\ job' = [r \in Rows |-> IF job[r] \in Active THEN "failed" ELSE job[r]]
  /\ cooling' = (cooling \/ HasActiveJobOnDrive)
  /\ pc' = [f \in Flows |-> "idle"]
  /\ kind' = [f \in Flows |-> "insert"]
  /\ target' = [f \in Flows |-> None]
  /\ found' = [f \in Flows |-> Nothing]
  /\ wpc' = "idle" /\ wrow' = None
  /\ unseen' = FALSE
  /\ overtaken' = {} /\ stomped' = FALSE
  /\ UNCHANGED <<media, swaps, flows, starts, ends, discVars, overlap>>

Arrive(f) ==
  \/ MediaEvent(f) \/ HandleManual(f) \/ EjectDrive(f)
  \/ \E r \in Rows : Reidentify(f, r) \/ SetDiscType(f, r)

Advance(f) ==
  \/ CheckBusy(f) \/ CheckCooldown(f) \/ ClaimDriveForIdentify(f)
  \/ ClassifyFails(f) \/ Classify(f) \/ ClassifyRejects(f)
  \/ IdentifyFails(f) \/ Identify(f) \/ IdentifyNothing(f)
  \/ Lookup(f) \/ Refresh(f) \/ CreateDisc(f) \/ Release(f) \/ SaveTypeOnly(f)
  \/ SetEjecting(f) \/ RunEjectTool(f) \/ SettleIdle(f)
  \/ FindClearable(f) \/ DeleteDisc(f)

Work == (\E r \in Rows : TakeJob(r)) \/ ShowRipping \/ StopBeforeShown \/ EndRip \/ ShowIdle

Next ==
  \/ \E d \in Discs : Insert(d)
  \/ Remove
  \/ \E f \in Flows : Arrive(f) \/ Advance(f) \/ ContextEnds(f) \/ LookupFails(f)
  \/ \E r \in Rows : StartDisc(r) \/ CancelQueued(r) \/ Age(r)
  \/ Work
  \/ CoolDown
  \/ \E scanned \in BOOLEAN : Reboot(scanned)

Spec == Init /\ [][Next]_vars

(* A goroutine that can run runs, identification is bounded by identifyDur  *)
(* and the tools end.                                                       *)
FairSpec == Spec /\ (\A f \in Flows : WF_vars(Advance(f))) /\ WF_vars(Work)

-----------------------------------------------------------------------------
(* Properties. *)

(* A drive that says it is busy has somebody at work: an identification     *)
(* that will release it, an eject that will settle it, or the worker.  Two  *)
(* things leave the word of somebody behind who is gone: a restart that     *)
(* does not find the drive (InitialScan, ResetIdentifyingDrives), and an    *)
(* eject whose context has ended (EjectDrive).                              *)
BusyIsReal ==
  /\ drive = "identifying" => \E f \in Flows : pc[f] \in Identifying
  /\ drive = "ejecting" /\ ~leftover =>
       \E f \in Flows : kind[f] = "eject" /\ pc[f] \in {"tool", "settle", "restore"}
  /\ drive = "ripping" /\ ~leftover => wpc \in {"rip", "settle"}

(* While a rip runs the drive says so, whatever identifications end in the  *)
(* meantime (ReleaseDriveFromIdentify), unless an eject or a removal that   *)
(* had looked for jobs before the rip was started writes over it, or one    *)
(* that finds no job, because the row of the rip has been deleted or the    *)
(* look-up has failed.                                                      *)
RippingShown == wpc = "rip" /\ ~stomped => drive = "ripping"

(* A flow past its HasActiveJobOnDrive check acts on a drive without jobs,  *)
(* unless one was started since, or a media-change event got no answer: an  *)
(* eject never meets a rip that was there when it was asked for.            *)
ChecksHold ==
  \A f \in Flows \ overtaken : pc[f] \in Checked => ~HasActiveJobOnDrive

(* The events of one insertion yield one row (persistDisc): no two rows of  *)
(* the drive have one content hash, and within the window no two rows       *)
(* without one have the same id, unless a user's choice wrote it; as long   *)
(* as no two flows hold the identify slot together.                         *)
OneRowPerDisc ==
  ~overlap =>
    \A r, q \in Present :
      r # q /\ toc[r] = toc[q] =>
        /\ toc[r] = None
        /\ {r, q} \subseteq recent \ picked => id[r] # id[q] \/ id[r] = None

(* What keeps it that way.  A flow works at what it was begun for;          *)
Errands ==
  \A f \in Flows :
    /\ pc[f] \in Identifying \cup {"cooldown", "claim"} =>
         kind[f] \in {"insert", "reidentify", "settype"}
    /\ pc[f] \in {"lookup", "create"} => kind[f] = "insert"
    /\ pc[f] = "typeOnly" => kind[f] = "settype"
    /\ pc[f] \in {"eject", "tool", "restore"} => kind[f] = "eject"
    /\ pc[f] # "idle" /\ kind[f] \in {"reidentify", "settype"} => target[f] \in Rows
    /\ kind[f] = "insert" /\ pc[f] \in {"check", "cooldown", "claim", "classify"} =>
         found[f] = Nothing
    /\ pc[f] = "classify" => kind[f] # "settype"

(* one flow at a time holds the slot;                                       *)
OneHolder ==
  ~overlap => \A f, g \in Flows : {pc[f], pc[g]} \subseteq Identifying => f = g

(* an event gives no row without a hash another id than it has;             *)
KnownTarget ==
  \A f \in Flows : pc[f] = "refresh" /\ kind[f] = "insert" =>
    /\ row[target[f]] # "none"
    /\ toc[target[f]] = None /\ target[f] \notin picked => id[target[f]] = found[f].id

(* and it creates a row only where there is none.                           *)
NoTwin ==
  ~overlap =>
    \A f \in Flows : pc[f] = "create" =>
      \A r \in Present : toc[r] = found[f].toc =>
        /\ toc[r] = None
        /\ r \in recent \ picked => id[r] # found[f].id \/ id[r] = None

IInv == /\ TypeOK /\ Errands /\ BusyIsReal /\ RippingShown /\ ChecksHold
        /\ OneHolder /\ KnownTarget /\ NoTwin /\ OneRowPerDisc

(* Nobody claims the drive while another flow identifies: `the caller owns  *)
(* the identify slot' (ClaimDriveForIdentify).  The code breaks it.         *)
ClaimExclusive == ~overlap

(* With the disc gone, every event delivered and every flow done, no card   *)
(* still asks for a decision (handle's removal branch).  The code breaks it.*)
NoPhantomCard ==
  media = None /\ ~unseen /\ (\A f \in Flows : pc[f] = "idle") =>
    \A r \in Newest(Present) : job[r] # "none"

(* An eject leaves no drive behind that says `ejecting' with nobody there   *)
(* to say otherwise: "Restore idle so a failed eject doesn't leave the UI   *)
(* stuck" (EjectDrive).  The code breaks it.                                *)
EjectSettles ==
  drive = "ejecting" =>
    \E f \in Flows : kind[f] = "eject" /\ pc[f] \in {"tool", "settle", "restore"}

(* A busy drive comes back to where a new disc can claim it.                *)
DriveComesBack == (drive \notin Claimable) ~> (drive \in Claimable \/ leftover)
=============================================================================
