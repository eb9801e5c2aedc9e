----------------------------- MODULE Pipelines -----------------------------
(***************************************************************************)
(* The pipeline handlers (daemon/pipelines/<type>): what each of them does *)
(* to a disc, as the sequence of calls its functions make.  A handler is   *)
(* two scripts, the drive half RunRip and the compute half RunTranscode,   *)
(* or one script Run; an instruction is one call that can fail, one event  *)
(* sent to the step sink, or one loop over titles.  The interpreter below  *)
(* is the control flow they share: a failing call marks the running step   *)
(* failed and returns, the deferred calls run on every way out.            *)
(***************************************************************************)
EXTENDS Naturals, Sequences, FiniteSets

CONSTANTS MaxTitles,   \* titles picked on a video disc, tracks on a CD
          MaxRetries   \* retry-transcode requests

ASSUME BoundsAssumption == MaxTitles \in Nat \ {0} /\ MaxRetries \in Nat

(* The eight canonical steps, and those of the compute half. *)
Steps == {"detect", "identify", "rip", "transcode",
          "compress", "move", "notify", "eject"}
TranscodeSteps == {"transcode", "compress", "move", "notify"}
ScanSteps == {"identify"}

----------------------------------------------------------------------------
(* Instructions.  need: a call made while a step runs, its failure fails   *)
(* that step.  read: such a call that reads the disc.  early: a call made  *)
(* before the step it is reported on, which is started only to be failed.  *)
(* do: a call whose failure is logged and forgotten.                       *)

Ins(op, step, what) == [op |-> op, step |-> step, what |-> what]
Start(s)    == Ins("start", s, "-")
Done(s)     == Ins("done", s, "-")
Need(w)     == Ins("need", "-", w)
Read(w)     == Ins("read", "-", w)
Early(s, w) == Ins("early", s, w)
Do(w)       == Ins("do", "-", w)

(* What is done between the start and the end of a step.                   *)
Within(s, calls) == <<Start(s)>> \o calls \o <<Done(s)>>
Step(s) == Within(s, <<>>)

(* Moves of the raw rips or of the encoded files into the library.  named: *)
(* "listed" numbers the files of the listing and adds -titleNN to names    *)
(* that collide, "bare" numbers them and adds nothing, "own" keeps a name  *)
(* that the file brings with it.                                           *)
MoveFiles(from, named) == Ins("move", from, named)
MoveDir == Ins("movedir", "raw", "own")
MoveImageOrDir == Ins("move", "decrypted-or-raw", "own")

RunNotifyStep == Step("notify")
RunEjectStep  == Within("eject", <<Do("eject")>>)
Opening       == Step("detect") \o Step("identify")
Delivering    == Within("move", <<Need("render"), MoveFiles("raw", "own")>>)
Shelving(from, named) ==
    Within("move", <<MoveFiles(from, named)>>) \o <<Do("sidecars")>> \o
    RunNotifyStep

(* Run of a handler with two halves: a work directory, then both of them.  *)
Whole(rip, enc) == <<Early("rip", "workdir")>> \o rip \o enc

----------------------------------------------------------------------------
(* What a plan skips: plan of the one-job path, enc of the compute half.   *)
Skips(s) == [plan |-> s, enc |-> s]

(* Blu-ray and UHD: MakeMKV reads the titles one by one; a Blu-ray is then *)
(* encoded, the remux of a UHD disc is what goes into the library.         *)
BdmvSkips == Skips({"compress"})
BdmvRip ==
    Opening \o
    Within("rip", <<Need("probe"), Need("tools"), Read("scan"), Need("pick"),
                    Need("mkdir"), Need("space"), Read("titles"),
                    Need("files")>>) \o
    RunEjectStep
BdmvEnc ==
    <<Early("transcode", "files"), Early("transcode", "tools")>> \o
    Within("transcode", <<Need("encode")>>) \o Shelving("enc", "listed")
BdmvRun == Whole(BdmvRip, BdmvEnc)
BdmvScan == Within("identify", <<Need("tools"), Read("scan")>>)

UhdSkips == Skips({"transcode", "compress"})
UhdRip == BdmvRip
UhdEnc == <<Early("move", "files")>> \o Shelving("raw", "listed")
UhdRun == Whole(UhdRip, UhdEnc)
UhdScan == BdmvScan

(* DVD-Video: dvdbackup and HandBrake, MakeMKV alone, or MakeMKV and then  *)
(* HandBrake, as the engine of the profile says.                           *)
DvdSkips == Skips({"compress"})
DvdRip(engine) ==
    Opening \o
    Within("rip", <<Need("probe"), Need("mkdir")>> \o engine) \o
    RunEjectStep
DvdBackupRip == <<Need("tools"), Read("image")>>
DvdMakeMKVRip ==
    <<Need("tools"), Read("scan"), Need("pick"), Need("space"),
      Read("titles"), Need("files")>>
DvdHandBrakeEnc ==
    <<Early("transcode", "files")>> \o
    Within("transcode", <<Need("scan"), Do("metadata"), Need("tools"),
                          Need("pick"), Need("encode")>>) \o
    Shelving("enc", "bare")
DvdMakeMKVEnc(transcode, from) ==
    <<Early("transcode", "files")>> \o transcode \o Shelving(from, "listed")
TranscodeMakeMKVRips ==
    <<Early("transcode", "tools")>> \o
    Within("transcode", <<Need("encode")>>)
DvdRun(engine, enc) == Whole(DvdRip(engine), enc)
DvdScan == BdmvScan

----------------------------------------------------------------------------
(* Discs ripped in one job: audio CD, data, video CD.                      *)

AudioSkips == Skips({"transcode", "compress"})
AudioRun ==
    Opening \o
    Within("rip", <<Need("workdir"), Need("probe"), Need("tools"),
                    Read("tracks"), Do("extras")>>) \o
    Within("move", <<Need("files"), MoveFiles("raw", "own")>>) \o
    RunNotifyStep \o RunEjectStep

(* The move begins before the rip is over.                        [mutant] *)
DataRunOverlapping ==
    Opening \o
    <<Start("rip"), Need("workdir"), Need("probe"), Do("size"),
      Need("tools"), Read("image"), Need("hash"),
      Start("move"), Done("rip"), Need("render"), MoveFiles("raw", "own"),
      Done("move")>>
    \o RunNotifyStep \o RunEjectStep

DataSkips == Skips({"transcode", "compress"})
DataRun ==
    Opening \o
    Within("rip", <<Need("workdir"), Need("probe"), Do("size"),
                    Need("tools"), Read("image"), Need("hash")>>) \o
    Delivering \o RunNotifyStep \o RunEjectStep

(* The tray opens while the disc is still to be read.             [mutant] *)
CdGameRipLast ==
    Opening \o RunEjectStep \o
    Within("rip", <<Need("probe"), Need("tools"), Need("mkdir"),
                    Read("image")>>)

VcdSkips == Skips({"transcode", "compress"})
VcdRun ==
    Opening \o
    Within("rip", <<Need("workdir"), Need("probe"), Need("tools"),
                    Read("tracks"), Need("files")>>) \o
    Delivering \o RunNotifyStep \o RunEjectStep

----------------------------------------------------------------------------
(* Game discs: redumper writes an image, chdman compresses that of a CD    *)
(* game; the PS3 dumper copies a mounted disc into a directory.            *)

CdGameSkips == Skips({"transcode"})
CdGameRip ==
    Opening \o
    Within("rip", <<Need("probe"), Need("tools"), Need("mkdir"),
                    Read("image")>>) \o
    RunEjectStep
CdGameEnc ==
    Within("compress", <<Do("learn"), Need("encode")>>) \o
    Within("move", <<Need("render"), MoveFiles("enc", "own")>>) \o
    RunNotifyStep
CdGameRun == Whole(CdGameRip, CdGameEnc)

DreamcastSkips == Skips({"transcode"})
DreamcastRip == CdGameRip
DreamcastEnc == CdGameEnc
DreamcastRun == Whole(DreamcastRip, DreamcastEnc)

(* The notify step forgotten.                                     [mutant] *)
XboxEncSilent == <<Do("verify")>> \o Delivering

XboxSkips == Skips({"transcode", "compress"})
XboxRip == CdGameRip
XboxEnc == <<Do("verify")>> \o Delivering \o RunNotifyStep
XboxRun == Whole(XboxRip, XboxEnc)

Xbox360Skips == Skips({"transcode", "compress"})
Xbox360Rip == CdGameRip
Xbox360Enc == <<Do("learn")>> \o Delivering \o RunNotifyStep
Xbox360Run == Whole(Xbox360Rip, Xbox360Enc)

WiiSkips == Skips({"transcode", "compress"})
WiiRip == CdGameRip
WiiEnc == Xbox360Enc
WiiRun == Whole(WiiRip, WiiEnc)

(* A decrypted Wii U disc is delivered as a directory, any other as the    *)
(* image it was ripped to.                                                 *)
WiiUSkips == Skips({"transcode", "compress"})
WiiURip == CdGameRip
WiiUEnc ==
    <<Do("learn")>> \o
    Within("move", <<Need("render"), Do("decrypt"), MoveImageOrDir>>) \o
    RunNotifyStep
WiiURun == Whole(WiiURip, WiiUEnc)

Ps3Skips == Skips({"transcode", "compress"})
Ps3Rip ==
    Opening \o
    Within("rip", <<Need("probe"), Need("tools"), Need("mkdir"),
                    Need("keycache"), Need("mount"), Read("image"),
                    Do("learn")>>) \o
    RunEjectStep \o <<Do("umount")>>
Ps3Enc ==
    <<Early("move", "files")>> \o
    Within("move", <<Need("render"), MoveDir>>) \o
    RunNotifyStep
Ps3Run == Whole(Ps3Rip, Ps3Enc)

----------------------------------------------------------------------------
(* The registered handlers.                                                *)

Split(skips, rip, enc, run) ==
    [skips |-> skips, rip |-> rip, enc |-> enc, run |-> run, scan |-> <<>>]
Single(skips, run) == Split(skips, <<>>, <<>>, run)
Scanning(handler, scan) == [handler EXCEPT !.scan = scan]
Dvd(engine, enc) ==
    Scanning(Split(DvdSkips, DvdRip(engine), enc, DvdRun(engine, enc)),
             DvdScan)

Handlers ==
    [bdmv |-> Scanning(Split(BdmvSkips, BdmvRip, BdmvEnc, BdmvRun), BdmvScan),
     uhd  |-> Scanning(Split(UhdSkips, UhdRip, UhdEnc, UhdRun), UhdScan),
     dvd_handbrake |-> Dvd(DvdBackupRip, DvdHandBrakeEnc),
     dvd_makemkv   |-> Dvd(DvdMakeMKVRip,
                           DvdMakeMKVEnc(Step("transcode"), "raw")),
     dvd_both      |-> Dvd(DvdMakeMKVRip,
                           DvdMakeMKVEnc(TranscodeMakeMKVRips, "enc")),
     audiocd   |-> Single(AudioSkips, AudioRun),
     data      |-> Single(DataSkips, DataRun),
     vcd       |-> Single(VcdSkips, VcdRun),
     cdgame    |-> Split(CdGameSkips, CdGameRip, CdGameEnc, CdGameRun),
     dreamcast |-> Split(DreamcastSkips, DreamcastRip, DreamcastEnc,
                         DreamcastRun),
     xbox      |-> Split(XboxSkips, XboxRip, XboxEnc, XboxRun),
     xbox360   |-> Split(Xbox360Skips, Xbox360Rip, Xbox360Enc, Xbox360Run),
     wii       |-> Split(WiiSkips, WiiRip, WiiEnc, WiiRun),
     wiiu      |-> Split(WiiUSkips, WiiURip, WiiUEnc, WiiURun),
     ps3       |-> Split(Ps3Skips, Ps3Rip, Ps3Enc, Ps3Run)]

Video == {"bdmv", "uhd", "dvd_handbrake", "dvd_makemkv", "dvd_both"}
ManyTitles == Video \cup {"audiocd", "vcd"}

----------------------------------------------------------------------------
VARIABLES
    job,       \* handler, mode (split, whole or scan), titles and template
    half,      \* "drive" or "compute": whose rows the sink writes
    pc,        \* next instruction of the script
    todo,      \* what the loop under way has left, or NoLoop
    rows,      \* the job_steps rows of the two jobs
    result,    \* how the handler's function ended
    tray,      \* where the disc is
    work,      \* the work or spool directory exists
    mounted,   \* the disc is mounted
    raw, enc,  \* titles ripped and titles encoded, in that directory
    lib,       \* what the library holds under each name the job may use
    stored,    \* the disc row has a title
    seen,      \* the copy of the disc this half works on has one
    captured,  \* titles the rip wrote
    tries      \* retries used

files == <<raw, enc, lib, captured>>
names == <<stored, seen>>
place == <<tray, work, mounted>>
fixed == <<job, half, tries>>
vars  == <<job, half, pc, todo, rows, result, tray, work, mounted, raw, enc,
           lib, stored, seen, captured, tries>>

NoLoop == <<[title |-> 0, slot |-> 0]>>
Titles == 1..MaxTitles
Slots == 0..MaxTitles
Nothing == 0          \* no file of that name
Part == MaxTitles + 1 \* a copy that was cut short
RowStates == {"absent", "pending", "running", "done", "failed", "skipped"}
Results == {"none", "ok", "err", "crash"}

H == Handlers[job.handler]
Script ==
    IF half = "compute" THEN H.enc ELSE
    CASE job.mode = "split" -> H.rip
      [] job.mode = "whole" -> H.run
      [] job.mode = "scan"  -> H.scan
Running == result = "none" /\ pc <= Len(Script)
Now == Script[pc]
At(op, what) == Running /\ Now.op = op /\ Now.what = what
Calls == {"need", "read", "early", "do"}
Looping ==
    Now.what \in {"titles", "encode"} \/ Now.op \in {"move", "movedir"}
Advance == pc' = pc + 1

(* The rows a job is created with: the steps of its kind, those of its     *)
(* plan that are not run already skipped.                                  *)
CreateJob(steps, skip) ==
    [s \in Steps |-> IF s \notin steps THEN "absent"
                     ELSE IF s \in skip THEN "skipped" ELSE "pending"]

(* A step event for a row the job does not have finds nothing to write.    *)
UpdateJobStepState(s, st) ==
    rows' = [rows EXCEPT ![half][s] = IF @ = "absent" THEN @ ELSE st]

RunningSteps == {s \in Steps : rows[half][s] = "running"}

Init ==
    /\ \E h \in DOMAIN Handlers, m \in {"split", "whole", "scan"},
          n \in Titles, t \in {"episode", "movie"} :
          /\ m = "split" => Handlers[h].rip # <<>>
          /\ m = "scan" => Handlers[h].scan # <<>>
          /\ h \notin ManyTitles => n = 1
          /\ h \notin Video => t = "episode"
          /\ job = [handler |-> h, mode |-> m, n |-> n, template |-> t]
          /\ rows = [drive |-> CASE m = "split" ->
                                    CreateJob(Steps, TranscodeSteps)
                                 [] m = "whole" ->
                                    CreateJob(Steps, Handlers[h].skips.plan)
                                 [] m = "scan" -> CreateJob(ScanSteps, {}),
                     compute |-> CreateJob({}, {})]
          /\ work = (m = "split")
    /\ half = "drive" /\ pc = 1 /\ todo = NoLoop /\ result = "none"
    /\ tray = "in" /\ mounted = FALSE
    /\ raw = {} /\ enc = {} /\ captured = {}
    /\ lib = [s \in Slots |-> Nothing]
    /\ stored \in BOOLEAN /\ seen = stored
    /\ tries = 0

----------------------------------------------------------------------------
(* Step events.                                                            *)

StepStart ==
    /\ Running /\ Now.op = "start"
    /\ UpdateJobStepState(Now.step, "running")
    /\ Advance
    /\ UNCHANGED <<fixed, todo, result, place, files, names>>

StepDone ==
    /\ Running /\ Now.op = "done"
    /\ UpdateJobStepState(Now.step, "done")
    /\ Advance
    /\ UNCHANGED <<fixed, todo, result, place, files, names>>

(* A spool removed when the transcode fails.                      [mutant] *)
LeaveNothing(res) ==
    /\ result' = res
    /\ todo' = NoLoop
    /\ mounted' = FALSE
    /\ work' = FALSE /\ raw' = {} /\ enc' = {}

(* The ways out of a function: its deferred calls unmount the disc and     *)
(* remove the work directory; a rip that fails takes its spool along, a    *)
(* transcode that fails leaves it for a retry.                             *)
Leave(res) ==
    /\ result' = res
    /\ todo' = NoLoop
    /\ mounted' = FALSE
    /\ IF half = "compute" /\ res # "ok"
       THEN UNCHANGED <<work, raw, enc>>
       ELSE work' = FALSE /\ raw' = {} /\ enc' = {}

(* An early failure reported on a step that was never started.    [mutant] *)
FailUnseen ==
    /\ Running
    /\ Now.op \in {"need", "read", "early", "move", "movedir"}
    /\ rows' = [rows EXCEPT ![half] =
          [s \in Steps |-> IF s \in RunningSteps THEN "failed" ELSE @[s]]]
    /\ Leave("err")
    /\ UNCHANGED <<fixed, pc, tray, lib, captured, names>>

(* A call fails: the step it belongs to is marked failed, and the error    *)
(* returned.                                                               *)
Fail ==
    /\ Running
    /\ Now.op \in {"need", "read", "early", "move", "movedir"}
    /\ rows' = [rows EXCEPT ![half] =
          [s \in Steps |->
             IF s \in RunningSteps \/ (Now.op = "early" /\ s = Now.step)
             THEN "failed" ELSE @[s]]]
    /\ Leave("err")
    /\ UNCHANGED <<fixed, pc, tray, lib, captured, names>>

(* ScanTitles has deferred the event that ends its step: it comes after    *)
(* the one that failed it.                                                 *)
DeferredDone ==
    /\ job.mode = "scan" /\ result = "err"
    /\ rows["drive"]["identify"] = "failed"
    /\ UpdateJobStepState("identify", "done")
    /\ UNCHANGED <<fixed, pc, todo, result, place, files, names>>

----------------------------------------------------------------------------
(* Calls.                                                                  *)

(* A call that succeeds, or whose outcome nothing here depends on.         *)
Call ==
    /\ Running /\ Now.op \in Calls /\ ~Looping
    /\ Now.what \notin {"image", "tracks", "learn", "decrypt", "eject"}
    /\ Now.what = "files" => raw # {}
    /\ work' = (work \/ Now.what = "workdir")
    /\ mounted' = ((mounted \/ Now.what = "mount") /\ Now.what # "umount")
    /\ Advance
    /\ UNCHANGED <<fixed, todo, rows, result, tray, files, names>>

(* The disc is read in one go: an image or a directory, or the tracks the  *)
(* tool managed to write.                                                  *)
ReadWhole ==
    /\ Running /\ Now.what \in {"image", "tracks"}
    /\ raw' \in IF Now.what = "image" THEN {1..job.n} ELSE SUBSET (1..job.n)
    /\ captured' = raw'
    /\ Advance
    /\ UNCHANGED <<fixed, todo, rows, result, place, enc, lib, names>>

(* The checksum of the image or the dump of the disc may tell the title.   *)
Learn ==
    /\ At("do", "learn")
    /\ seen' \in {seen, TRUE}
    /\ Advance
    /\ UNCHANGED <<fixed, todo, rows, result, place, files, stored>>

(* Wii U: a decrypted copy beside the image, removed when it failed.       *)
TryDecrypt ==
    /\ At("do", "decrypt")
    /\ enc' \in {{}, raw}
    /\ Advance
    /\ UNCHANGED <<fixed, todo, rows, result, place, raw, lib, captured,
                   names>>

(* The tray opens, or is to stay closed, or the tool fails: the step is    *)
(* marked failed and the function goes on to its deferred end event.       *)
Eject ==
    /\ At("do", "eject")
    /\ \/ tray' \in {"in", "out"} /\ UNCHANGED rows
       \/ UpdateJobStepState("eject", "failed") /\ UNCHANGED tray
    /\ Advance
    /\ UNCHANGED <<fixed, todo, result, work, mounted, files, names>>

----------------------------------------------------------------------------
(* Loops over titles.                                                      *)

(* A Wii U disc that was decrypted moves as a directory; so does a dump.   *)
AsDir == Now.op = "movedir" \/ (Now.step = "decrypted-or-raw" /\ enc # {})
FromEnc == Now.step = "enc" \/ (Now.step = "decrypted-or-raw" /\ enc # {})

(* The k-th of len files moves to this name.                               *)
Slot(t, k, len) ==
    CASE Now.what = "listed" -> IF job.template = "movie" /\ len = 1
                                THEN 0 ELSE k
      [] Now.what = "bare"   -> IF job.template = "movie" THEN 0 ELSE k
      [] OTHER -> IF AsDir /\ FromEnc THEN 0 ELSE t

Sources ==
    CASE Now.what = "titles" -> 1..job.n
      [] Now.what = "encode" -> raw
      [] OTHER -> IF FromEnc THEN enc ELSE raw

(* The listing a loop works through is taken once, in lexical order.       *)
Listings(S) ==
    {list \in [1..Cardinality(S) -> S] :
       \A i, j \in DOMAIN list : i < j => list[i] < list[j]}

Begin ==
    /\ Running /\ Looping /\ todo = NoLoop
    /\ \E list \in Listings(Sources) :
          todo' = [k \in DOMAIN list |->
                     [title |-> list[k],
                      slot |-> Slot(list[k], k, Cardinality(Sources))]]
    /\ UNCHANGED <<fixed, pc, rows, result, place, files, names>>

InLoop == Running /\ Looping /\ todo # NoLoop /\ todo # <<>>

(* MakeMKV ends without an error whether or not it wrote the file.         *)
RipTitle ==
    /\ InLoop /\ Now.what = "titles"
    /\ raw' \in {raw, raw \cup {Head(todo).title}}
    /\ captured' = raw'
    /\ todo' = Tail(todo)
    /\ UNCHANGED <<fixed, pc, rows, result, place, enc, lib, names>>

EncodeTitle ==
    /\ InLoop /\ Now.what = "encode"
    /\ enc' = enc \cup {Head(todo).title}
    /\ todo' = Tail(todo)
    /\ UNCHANGED <<fixed, pc, rows, result, place, raw, lib, captured, names>>

(* AtomicMove and moveDir refuse a name that is taken.                     *)
Deliver(content) ==
    /\ lib[Head(todo).slot] = Nothing
    /\ lib' = [lib EXCEPT ![Head(todo).slot] = content]

Moving == InLoop /\ Now.op \in {"move", "movedir"}

(* Only the main feature is moved.                                [mutant] *)
MoveFirst ==
    /\ Moving
    /\ Deliver(Head(todo).title)
    /\ IF FromEnc
       THEN enc' = enc \ {Head(todo).title} /\ UNCHANGED raw
       ELSE raw' = raw \ {Head(todo).title} /\ UNCHANGED enc
    /\ todo' = <<>>
    /\ UNCHANGED <<fixed, pc, rows, result, place, captured, names>>

MoveOne ==
    /\ Moving
    /\ Deliver(Head(todo).title)
    /\ IF FromEnc
       THEN enc' = enc \ {Head(todo).title} /\ UNCHANGED raw
       ELSE raw' = raw \ {Head(todo).title} /\ UNCHANGED enc
    /\ todo' = Tail(todo)
    /\ UNCHANGED <<fixed, pc, rows, result, place, captured, names>>

(* Across filesystems a move is a copy and a removal.  The removal may     *)
(* fail, which is an error with the copy in place; a directory's copy may  *)
(* fail half way and is left there, a file's is removed.                   *)
MoveBreaks ==
    /\ Moving
    /\ Deliver(Head(todo).title) \/ (AsDir /\ Deliver(Part))
    /\ rows' = [rows EXCEPT ![half]["move"] = "failed"]
    /\ Leave("err")
    /\ UNCHANGED <<fixed, pc, tray, captured, names>>

End ==
    /\ Running /\ Looping /\ todo = <<>>
    /\ todo' = NoLoop
    /\ Advance
    /\ UNCHANGED <<fixed, rows, result, place, files, names>>

----------------------------------------------------------------------------
(* The two halves and their worker.                                        *)

(* RunRip returns: the transcode job is created, and its worker reads the  *)
(* disc from the store.                                                    *)
HandOver ==
    /\ result = "none" /\ pc > Len(Script)
    /\ half = "drive" /\ job.mode = "split"
    /\ half' = "compute" /\ pc' = 1
    /\ rows' = [rows EXCEPT !["compute"] =
                  CreateJob(TranscodeSteps, H.skips.enc)]
    /\ seen' = stored
    /\ UNCHANGED <<job, tries, todo, result, place, files, stored>>

(* The last function returns nil; the worker saves a title it learnt.      *)
Finish ==
    /\ result = "none" /\ pc > Len(Script)
    /\ half = "compute" \/ job.mode # "split"
    /\ Leave("ok")
    /\ stored' = (stored \/ (half = "compute" /\ seen))
    /\ UNCHANGED <<fixed, pc, rows, tray, lib, captured, seen>>

(* The daemon stops while the compute half runs; a copy it was making is   *)
(* cut short.                                                              *)
Crash ==
    /\ half = "compute" /\ result = "none"
    /\ result' = "crash"
    /\ todo' = NoLoop
    /\ \/ UNCHANGED lib
       \/ Moving /\ Deliver(Part)
    /\ UNCHANGED <<fixed, pc, rows, place, raw, enc, captured, names>>

(* retry-transcode: the rows that are not skipped start over, the spool is *)
(* what the rip left.                                                      *)
Retry ==
    /\ half = "compute" /\ result \in {"err", "crash"}
    /\ tries < MaxRetries
    /\ tries' = tries + 1
    /\ rows' = [rows EXCEPT !["compute"] =
          [s \in Steps |-> IF @[s] \in {"absent", "skipped"} THEN @[s]
                           ELSE "pending"]]
    /\ pc' = 1 /\ result' = "none" /\ seen' = stored
    /\ enc' = {}
    /\ UNCHANGED <<job, half, todo, place, raw, lib, captured, stored>>

Next ==
    \/ StepStart \/ StepDone \/ Fail \/ DeferredDone
    \/ Call \/ ReadWhole \/ Learn \/ TryDecrypt \/ Eject
    \/ Begin \/ RipTitle \/ EncodeTitle \/ MoveOne \/ MoveBreaks \/ End
    \/ HandOver \/ Finish \/ Crash \/ Retry

Spec == Init /\ [][Next]_vars

----------------------------------------------------------------------------
(* Properties.                                                             *)

(* Type invariant.                                                         *)
TypeOK ==
    /\ job.handler \in DOMAIN Handlers
    /\ job.mode \in {"split", "whole", "scan"}
    /\ job.n \in Titles /\ job.template \in {"episode", "movie"}
    /\ half \in {"drive", "compute"}
    /\ pc \in 1..Len(Script) + 1
    /\ todo = NoLoop \/ todo \in Seq([title : Titles, slot : Slots])
    /\ rows \in [{"drive", "compute"} -> [Steps -> RowStates]]
    /\ result \in Results
    /\ tray \in {"in", "out"} /\ work \in BOOLEAN /\ mounted \in BOOLEAN
    /\ raw \subseteq Titles /\ enc \subseteq Titles
    /\ captured \subseteq Titles
    /\ lib \in [Slots -> {Nothing, Part} \cup Titles]
    /\ {stored, seen} \subseteq BOOLEAN
    /\ tries \in 0..MaxRetries

(* A job that succeeds has run its plan: in every handler, every step the  *)
(* plan lists was done and every step it skips was left alone.  A step a   *)
(* handler forgets stays pending on a finished job, and one it runs        *)
(* although the plan skips it turns up as done.                            *)
PlanHonoured ==
    result = "ok" =>
       \A s \in Steps :
          /\ rows["drive"][s] =
               CASE job.mode = "scan"  -> IF s \in ScanSteps THEN "done"
                                          ELSE "absent"
                 [] job.mode = "split" -> IF s \in TranscodeSteps
                                          THEN "skipped" ELSE "done"
                 [] job.mode = "whole" -> IF s \in H.skips.plan
                                          THEN "skipped" ELSE "done"
          /\ half = "compute" =>
               rows["compute"][s] =
                  IF s \notin TranscodeSteps THEN "absent"
                  ELSE IF s \in H.skips.enc THEN "skipped" ELSE "done"

(* A rip or transcode that returns an error shows where: exactly one step  *)
(* of its job is failed and none is left running, whichever call failed    *)
(* and however early.                                                      *)
ErrorIsShown ==
    result = "err" /\ job.mode # "scan" =>
       /\ Cardinality({s \in Steps \ {"eject"} :
                         rows[half][s] = "failed"}) = 1
       /\ RunningSteps = {}

(* A step starts from pending and only when no other step of its job is    *)
(* running: the sink keeps one current step, to which log lines and        *)
(* progress are attributed.                                                *)
OneStepAtATime ==
    [][\A h \in {"drive", "compute"}, s \in Steps :
          rows'[h][s] = "running" /\ rows[h][s] # "running" =>
             /\ rows[h][s] = "pending"
             /\ \A o \in Steps : rows[h][o] # "running"]_vars

(* Once the tray may have opened nothing of the script reads the disc any  *)
(* more: the next disc can be in the drive.                                *)
NoReadAfterEject ==
    tray = "out" => \A k \in pc..Len(Script) :
                       half = "drive" => Script[k].op # "read"

(* What was ripped is never lost between the drive and the library: while  *)
(* the transcode job is not done, after any failed or interrupted attempt  *)
(* and any retry, each ripped title is in the spool or whole in the        *)
(* library.                                                                *)
InLibrary(t) == \E s \in Slots : lib[s] = t
NothingLost ==
    half = "compute" /\ result # "ok" =>
       \A t \in captured : t \in raw \cup enc \/ InLibrary(t)

(* However a function returns, the disc is not left mounted and a work     *)
(* directory stays only where a retry needs it; and a job that is done has *)
(* put every title it captured in the library, whole.                      *)
Settled ==
    result \in {"ok", "err"} =>
       /\ ~mounted
       /\ work <=> (half = "compute" /\ result = "err")
       /\ result = "ok" /\ job.mode # "scan" =>
             \A t \in captured : InLibrary(t)
=============================================================================
