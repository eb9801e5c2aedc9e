------------------------------ MODULE ToolRun ------------------------------
(***************************************************************************)
(* Running a tool (daemon/tools): a child process writes lines into the    *)
(* pipes of its standard output and error, one goroutine per pipe parses   *)
(* them into events for the step sink, and the caller joins the readers    *)
(* and waits for the process.  The tools differ in what their lines mean   *)
(* and in how the call is put together; a record per tool says how.        *)
(* Numbers are small: a percentage is a level, the end of a phase is Full. *)
(***************************************************************************)
EXTENDS Integers, Sequences, FiniteSets

CONSTANTS MaxLines,     \* lines a child writes in one run
          PipeCap,      \* lines a pipe holds before its writer blocks
          StallTicks,   \* redumperStallTimeout, in ticks of the watchdog
          ThrashLimit,  \* redumperMaxAudioBoundaryRetries
          LineCap       \* lines a capped parser forwards per stream

ASSUME ToolAssumption ==
    /\ MaxLines \in Nat /\ PipeCap \in Nat \ {0} /\ StallTicks \in Nat \ {0}
    /\ ThrashLimit \in Nat \ {0} /\ LineCap \in Nat

Streams == {"out", "err"}
Full == 3           \* 100 per cent
Capped == 2         \* 99 per cent
Levels == 0..Full

----------------------------------------------------------------------------
(* What each parser makes of a kind of line: an event for the sink, or a   *)
(* change of what the call returns.                                        *)

ParseRedumperProgress ==
    [phase |-> "substep", progress |-> "progress", thrash |-> "log",
     text |-> "log"]
ParseCHDManProgress == [progress |-> "progress", text |-> "log"]
ParseVCDXRipProgress == [progress |-> "file", text |-> "log"]
ParseMakeMKVProgressStream ==
    [progress |-> "progress", label |-> "log", message |-> "log",
     other |-> "drop"]
ScanConsume == [message |-> "log-keep", other |-> "keep"]
ParseHandBrakeEncodeStream ==
    [progress |-> "progress", json |-> "drop", activity |-> "drop",
     error |-> "log", text |-> "log"]
ParseDVDBackupStream ==
    [progress |-> "drop", trace |-> "drop", error |-> "log", text |-> "log"]
ScanDDRescueOutput ==
    [progress |-> "progress", banner |-> "log-once", other |-> "drop"]
ParseWhipperLines ==
    [start |-> "track", reading |-> "track-progress", ok |-> "confidence",
     matched |-> "confidence", mismatch |-> "confidence", debug |-> "drop",
     message |-> "log", other |-> "drop"]
DetectLines == [result |-> "result", text |-> "log"]
DumpLines == [progress |-> "progress", result |-> "result", text |-> "log"]

(* How a call is put together.  A tool whose readers do not drain stops    *)
(* reading at a line that does not fit the buffer of its scanner.          *)
Tool(lines) ==
    [lines |-> lines, merged |-> FALSE, drains |-> TRUE, capped |-> FALSE,
     order |-> "join-wait", watched |-> FALSE, needs |-> "exit"]

Redumper == [Tool(ParseRedumperProgress) EXCEPT !.watched = TRUE]
Whipper == Tool(ParseWhipperLines)
HandBrake == [Tool(ParseHandBrakeEncodeStream) EXCEPT !.capped = TRUE]
MakeMKVRip == Tool(ParseMakeMKVProgressStream)
MakeMKVScan == [Tool(ScanConsume) EXCEPT !.drains = FALSE,
                                         !.needs = "exit-result"]
CHDMan == Tool(ParseCHDManProgress)
VCDXRip == Tool(ParseVCDXRipProgress)
DVDBackup == [Tool(ParseDVDBackupStream) EXCEPT !.capped = TRUE,
                                                !.order = "wait-join"]
DDRescue == [Tool(ScanDDRescueOutput) EXCEPT !.order = "join-out-wait"]
PS3Detect == [Tool(DetectLines) EXCEPT !.merged = TRUE, !.drains = FALSE,
                                       !.needs = "result"]
PS3Dump == [PS3Detect EXCEPT !.lines = DumpLines]

Tools ==
    [redumper |-> Redumper, whipper |-> Whipper, handbrake |-> HandBrake,
     makemkv_rip |-> MakeMKVRip, makemkv_scan |-> MakeMKVScan,
     chdman |-> CHDMan, vcdxrip |-> VCDXRip, dvdbackup |-> DVDBackup,
     ddrescue |-> DDRescue, ps3_detect |-> PS3Detect, ps3_dump |-> PS3Dump]

(* ddrescue says nothing on its standard error but errors.                 *)
EffectOf(tool, s) ==
    IF tool = "ddrescue" /\ s = "err" THEN [error |-> "log"]
    ELSE Tools[tool].lines

Line(kind, n) == [kind |-> kind, n |-> n]
NoLine == Line("none", 0)
Long == Line("long", 0)     \* a token of more than a megabyte
LinesOf(tool, s) ==
    {Long} \cup
    UNION {{Line(k, n) : n \in CASE k = "progress" -> {1, Full}
                                 [] k = "ok"       -> {2}
                                 [] k = "matched"  -> {1}
                                 [] k = "result"   -> {0, 1}
                                 [] OTHER          -> {0}} :
             k \in DOMAIN EffectOf(tool, s)}

----------------------------------------------------------------------------
VARIABLES
    tool,    \* which tool runs
    child,   \* the process: running, hung, ended with a code, killed
    writing, \* the write it is in: a stream and a line
    pipe,    \* lines in each pipe
    said,    \* how many lines it has written to each pipe
    reader,  \* each reader: scanning, draining, done, or cut short
    hand,    \* the token each reader has scanned and not yet handled
    mem,     \* what each parser remembers: log lines, track, file, banner
    caller,  \* where the calling goroutine is
    result,  \* what the call returned
    parsed,  \* lines handled per stream
    told,    \* what the sink was told, and what the call will return
    sized,   \* dvdbackup: the size of the disc could be read
    watch    \* the watchdog and the figures it goes by

fixed     == <<tool, sized>>
childVars == <<child, writing, said>>
readVars  == <<reader, hand, mem, parsed, told>>
callVars  == <<caller, result>>
vars == <<tool, sized, child, writing, pipe, said, reader, hand, mem, caller,
          result, parsed, told, watch>>

T == Tools[tool]
Merged == T.merged
Alive == child \in {"running", "hung"}
NoWrite == [s |-> "out", line |-> NoLine]
Returned == caller = "returned"

Init ==
    /\ tool \in DOMAIN Tools
    /\ child = "running" /\ writing = NoWrite
    /\ pipe = [s \in Streams |-> <<>>]
    /\ said = [s \in Streams |-> 0]
    /\ reader = [s \in Streams |-> IF T.merged /\ s = "err" THEN "done"
                                   ELSE "scanning"]
    /\ hand = [s \in Streams |-> NoLine]
    /\ mem = [s \in Streams |-> 0]
    /\ caller = IF T.order = "wait-join" THEN "wait" ELSE "join"
    /\ result = "none"
    /\ parsed = [s \in Streams |-> 0]
    /\ told = [pct |-> 0, logs |-> [s \in Streams |-> 0], hints |-> 0,
               conf |-> -1, best |-> -1, result |-> FALSE, late |-> FALSE]
    /\ sized \in (IF tool = "dvdbackup" THEN BOOLEAN ELSE {FALSE})
    /\ watch = [dog |-> IF T.watched THEN "asleep" ELSE "none",
                reason |-> "none", retries |-> 0, last |-> 0, still |-> 0,
                phase |-> 0, idle |-> 0]

----------------------------------------------------------------------------
(* The child.                                                              *)

(* It goes to write a line, and blocks while the pipe is full.             *)
BeginWrite(s) ==
    /\ child = "running" /\ writing = NoWrite
    /\ said["out"] + said["err"] < MaxLines
    /\ s = "err" => ~Merged
    /\ \E line \in LinesOf(tool, s) : writing' = [s |-> s, line |-> line]
    /\ UNCHANGED <<fixed, child, said, pipe, readVars, callVars, watch>>

EndWrite ==
    /\ child = "running" /\ writing # NoWrite
    /\ Len(pipe[writing.s]) < PipeCap
    /\ pipe' = [pipe EXCEPT ![writing.s] = Append(@, writing.line)]
    /\ said' = [said EXCEPT ![writing.s] = @ + 1]
    /\ writing' = NoWrite
    /\ UNCHANGED <<fixed, child, readVars, callVars, watch>>

ExitChild ==
    /\ child = "running" /\ writing = NoWrite
    /\ child' \in {"ok", "failed"}
    /\ UNCHANGED <<fixed, writing, said, pipe, readVars, callVars, watch>>

(* A drive that spins down leaves the process waiting for it.              *)
Hang ==
    /\ child = "running" /\ writing = NoWrite
    /\ child' = "hung"
    /\ UNCHANGED <<fixed, writing, said, pipe, readVars, callVars, watch>>

(* exec.CommandContext kills the process when its context ends: the job is *)
(* stopped, or the watchdog has ended the context it derived.              *)
Kill ==
    /\ Alive
    /\ \/ child' = "killed"
       \/ watch.dog = "tripped" /\ child' = "aborted"
    /\ writing' = NoWrite
    /\ UNCHANGED <<fixed, said, pipe, readVars, callVars, watch>>

----------------------------------------------------------------------------
(* The readers.                                                            *)

(* The scanner gives up at a token that does not fit its buffer.           *)
Take(s) ==
    /\ reader[s] = "scanning" /\ hand[s] = NoLine /\ pipe[s] # <<>>
    /\ pipe' = [pipe EXCEPT ![s] = Tail(@)]
    /\ IF Head(pipe[s]) = Long
       THEN /\ reader' = [reader EXCEPT ![s] =
                            IF T.drains THEN "draining" ELSE "cut"]
            /\ UNCHANGED hand
       ELSE /\ hand' = [hand EXCEPT ![s] = Head(pipe[s])]
            /\ UNCHANGED reader
    /\ UNCHANGED <<fixed, childVars, mem, parsed, told, callVars, watch>>

(* The readers that stop at a long line.                          [mutant] *)
DrainNothing(s) ==
    /\ reader[s] = "draining"
    /\ reader' = [reader EXCEPT ![s] = "cut"]
    /\ UNCHANGED <<fixed, childVars, pipe, hand, mem, parsed, told, callVars,
                   watch>>

(* drainAfterScan copies what follows to nowhere, until the pipe ends.     *)
DrainAfterScan(s) ==
    /\ reader[s] = "draining"
    /\ \/ pipe[s] # <<>> /\ pipe' = [pipe EXCEPT ![s] = <<>>]
          /\ UNCHANGED reader
       \/ pipe[s] = <<>> /\ ~Alive
          /\ reader' = [reader EXCEPT ![s] = "cut"] /\ UNCHANGED pipe
    /\ UNCHANGED <<fixed, childVars, hand, mem, parsed, told, callVars,
                   watch>>

(* The end of the pipe: its writer is gone, or Wait has closed it.         *)
EndOfFile(s) ==
    /\ reader[s] = "scanning" /\ hand[s] = NoLine
    /\ pipe[s] = <<>> /\ ~Alive
    /\ reader' = [reader EXCEPT ![s] = "done"]
    /\ UNCHANGED <<fixed, childVars, pipe, hand, mem, parsed, told, callVars,
                   watch>>

(* noteProgress: only a percentage above every earlier one counts.         *)
NoteProgress(pct) ==
    [watch EXCEPT !.last  = IF pct > @ THEN pct ELSE @,
                  !.still = IF pct > watch.last THEN 0 ELSE @,
                  !.phase = IF pct > @ THEN pct ELSE @,
                  !.idle  = IF pct > watch.phase THEN 0 ELSE @]
(* noteLog counts the marker of a sector whose read type is misreported.   *)
NoteLog(kind) ==
    [watch EXCEPT !.retries = IF kind = "thrash" /\ @ < ThrashLimit
                              THEN @ + 1 ELSE @,
                  !.phase = IF kind = "phase" THEN 0 ELSE @]

(* The last word on a track wins.                                 [mutant] *)
RecordLast(conf) == conf

(* recordAR keeps the better of two verdicts on a track.                   *)
RecordAR(conf) == IF told.conf >= conf THEN told.conf ELSE conf

(* The compare-and-swap both whipper readers make on one flag.             *)
Announce(s) == told.hints = 0

(* A log line is forwarded until the stream has used up its cap; the next  *)
(* one becomes the line that says so.                                      *)
Forwarded(s) == T.capped => mem[s] <= LineCap

Handle(s) ==
    /\ hand[s] # NoLine
    /\ LET line   == hand[s]
           effect == EffectOf(tool, s)[line.kind]
           logs   == IF Forwarded(s) THEN [told.logs EXCEPT ![s] = @ + 1]
                     ELSE told.logs
           heard  == [told EXCEPT
                        !.late = @ \/ Returned,
                        !.hints = IF tool = "whipper" /\ Announce(s)
                                  THEN @ + 1 ELSE @,
                        !.best = IF effect = "confidence" /\ line.n > @
                                 THEN line.n ELSE @]
           quiet  == UNCHANGED <<mem, watch>>
       IN  \/ effect = "drop" /\ told' = [heard EXCEPT !.late = told.late]
              /\ quiet
           \/ effect = "progress" /\ told' = [heard EXCEPT !.pct = line.n]
              /\ watch' = (IF T.watched THEN NoteProgress(line.n) ELSE watch)
              /\ UNCHANGED mem
           \/ effect = "track-progress"
              /\ told' = (IF mem[s] > 0 THEN [heard EXCEPT !.pct = Capped]
                          ELSE heard)
              /\ quiet
           \/ effect = "track" /\ told' = [heard EXCEPT !.logs = logs]
              /\ mem' = [mem EXCEPT ![s] = 1] /\ UNCHANGED watch
           \/ effect = "file" /\ told' = [heard EXCEPT !.pct = line.n]
              /\ mem' = [mem EXCEPT ![s] = 1] /\ UNCHANGED watch
           \/ effect = "confidence"
              /\ told' = [heard EXCEPT !.logs = logs,
                                       !.conf = RecordAR(line.n)]
              /\ quiet
           \/ effect = "log-once"
              /\ told' = [heard EXCEPT !.logs = IF mem[s] = 0 THEN logs
                                                ELSE @]
              /\ mem' = [mem EXCEPT ![s] = 1] /\ UNCHANGED watch
           \/ effect \in {"log", "substep"}
              /\ told' = [heard EXCEPT !.logs = logs]
              /\ mem' = [mem EXCEPT ![s] = IF T.capped /\ Forwarded(s)
                                           THEN @ + 1 ELSE @]
              /\ watch' = (IF T.watched THEN NoteLog(line.kind) ELSE watch)
           \/ effect \in {"keep", "log-keep", "result"}
              /\ told' = [heard EXCEPT
                            !.result = effect = "result" => line.n = 1,
                            !.logs = IF effect = "log-keep" THEN logs
                                     ELSE @]
              /\ quiet
    /\ hand' = [hand EXCEPT ![s] = NoLine]
    /\ parsed' = [parsed EXCEPT ![s] = @ + 1]
    /\ UNCHANGED <<fixed, childVars, pipe, reader, callVars>>

(* dvdbackup: the bytes written so far against the size of the disc, held  *)
(* below 100, until the poller has been joined.                            *)
PollProgress ==
    /\ tool = "dvdbackup" /\ caller \in {"wait", "join"}
    /\ \E pct \in IF sized THEN 0..Capped ELSE {0} :
          told' = [told EXCEPT !.pct = pct]
    /\ UNCHANGED <<fixed, childVars, pipe, reader, hand, mem, parsed,
                   callVars, watch>>

----------------------------------------------------------------------------
(* The caller.                                                             *)

(* The reader of the standard error not waited for.               [mutant] *)
JoinedOut == {"out"}

Joined ==
    IF T.order = "join-out-wait" THEN {"out"} ELSE Streams

(* The process waited for beside the readers.                     [mutant] *)
JoinReadersLate ==
    /\ caller = "join"
    /\ caller' = IF T.order = "wait-join" THEN "return" ELSE "wait"
    /\ UNCHANGED <<fixed, childVars, pipe, readVars, result, watch>>

(* wg.Wait; then the watchdog is told to go (DogLeaves).                   *)
JoinReaders ==
    /\ caller = "join"
    /\ \A s \in Joined : reader[s] \in {"done", "cut"}
    /\ caller' = IF T.order = "wait-join" THEN "return" ELSE "wait"
    /\ UNCHANGED <<fixed, childVars, pipe, readVars, result, watch>>

(* cmd.Wait returns when the process has ended, and closes the pipes: what *)
(* is still in them is lost.                                               *)
WaitChild ==
    /\ caller = "wait" /\ ~Alive
    /\ pipe' = [s \in Streams |-> <<>>]
    /\ caller' = IF T.order = "wait-join" THEN "join" ELSE "return"
    /\ UNCHANGED <<fixed, childVars, readVars, result, watch>>

(* What the process, or the result line of the output, says; the PS3       *)
(* dumper goes by that line whatever the exit status.  Without the trip    *)
(* of the watchdog it is the verdict of a                        [mutant]. *)
ExitVerdict ==
    LET claimed == T.needs = "exit" \/ told.result
        exited  == T.needs = "result" \/ child = "ok"
    IN  IF claimed /\ exited THEN "ok" ELSE "error"

(* A trip of the watchdog wins over the exit status it caused.             *)
Verdict == IF watch.dog = "tripped" THEN "aborted" ELSE ExitVerdict

(* Mirror tells 100 per cent at the end, when the poller has left, and may *)
(* then find that no VIDEO_TS was written.                                 *)
Return ==
    /\ caller = "return"
    /\ caller' = "returned"
    /\ \/ result' = Verdict
       \/ tool = "dvdbackup" /\ Verdict = "ok" /\ result' = "error"
    /\ told' = IF sized /\ Verdict = "ok"
               THEN [told EXCEPT !.pct = Full] ELSE told
    /\ UNCHANGED <<fixed, childVars, pipe, reader, hand, mem, parsed, watch>>

----------------------------------------------------------------------------
(* The watchdog of redumper.                                               *)

Tick ==
    /\ T.watched /\ ~Returned
    /\ watch.still < StallTicks \/ watch.idle < StallTicks
    /\ watch' = [watch EXCEPT
                   !.still = IF @ < StallTicks THEN @ + 1 ELSE @,
                   !.idle  = IF @ < StallTicks THEN @ + 1 ELSE @]
    /\ UNCHANGED <<fixed, childVars, pipe, readVars, callVars>>

AbortReason ==
    IF watch.retries >= ThrashLimit THEN "boundary"
    ELSE IF watch.still >= StallTicks THEN "stalled" ELSE "none"

(* On a tick it decides under the lock, records the reason, and only then  *)
(* ends the context.                                                       *)
CheckWatch ==
    /\ watch.dog = "asleep" /\ AbortReason # "none"
    /\ watch' = [watch EXCEPT !.dog = "tripping", !.reason = AbortReason]
    /\ UNCHANGED <<fixed, childVars, pipe, readVars, callVars>>

Trip ==
    /\ watch.dog = "tripping"
    /\ watch' = [watch EXCEPT !.dog = "tripped"]
    /\ UNCHANGED <<fixed, childVars, pipe, readVars, callVars>>

(* The readers have been joined, and watchdogDone is closed.  The select   *)
(* may still take a tick that is there as well, and trip.                  *)
DogLeaves ==
    /\ watch.dog = "asleep" /\ caller # "join"
    /\ watch' = [watch EXCEPT !.dog = "done"]
    /\ UNCHANGED <<fixed, childVars, pipe, readVars, callVars>>

----------------------------------------------------------------------------
ReaderStep(s) == Take(s) \/ Handle(s) \/ DrainAfterScan(s) \/ EndOfFile(s)
ChildStep == EndWrite \/ ExitChild \/ (\E s \in Streams : BeginWrite(s))
CallerStep == JoinReaders \/ WaitChild \/ Return
DogStep == CheckWatch \/ Trip \/ DogLeaves

Next ==
    \/ \E s \in Streams : Take(s) \/ Handle(s) \/ DrainAfterScan(s)
                          \/ EndOfFile(s) \/ BeginWrite(s)
    \/ EndWrite \/ ExitChild \/ Hang \/ Kill
    \/ PollProgress \/ JoinReaders \/ WaitChild \/ Return
    \/ Tick \/ CheckWatch \/ Trip \/ DogLeaves

(* The kernel and the Go scheduler run what can run; nobody has to stop a  *)
(* job, and a process may hang.                                            *)
Fairness ==
    /\ \A s \in Streams : WF_vars(ReaderStep(s))
    /\ WF_vars(ChildStep) /\ WF_vars(CallerStep)
    /\ WF_vars(watch.dog = "tripped" /\ Kill)
    /\ WF_vars(Tick) /\ WF_vars(DogStep)

Spec == Init /\ [][Next]_vars /\ Fairness

----------------------------------------------------------------------------
(* Properties.                                                             *)

(* Type invariant.                                                         *)
TypeOK ==
    /\ tool \in DOMAIN Tools
    /\ child \in {"running", "hung", "ok", "failed", "killed", "aborted"}
    /\ writing = NoWrite \/ writing.line \in LinesOf(tool, writing.s)
    /\ \A s \in Streams :
          /\ pipe[s] \in Seq(LinesOf(tool, s)) /\ Len(pipe[s]) <= PipeCap
          /\ reader[s] \in {"scanning", "draining", "done", "cut"}
          /\ hand[s] \in LinesOf(tool, s) \cup {NoLine}
          /\ parsed[s] <= said[s] /\ said[s] \in 0..MaxLines
          /\ told.logs[s] \in 0..MaxLines /\ mem[s] \in 0..MaxLines
          /\ T.capped => told.logs[s] <= LineCap + 1
    /\ caller \in {"join", "wait", "return", "returned"}
    /\ sized \in BOOLEAN
    /\ result \in {"none", "ok", "error", "aborted"}
    /\ told.pct \in Levels /\ {told.conf, told.best} \subseteq -1..2
    /\ watch.dog \in {"none", "asleep", "tripping", "tripped", "done"}
    /\ watch.reason \in {"none", "boundary", "stalled"}
    /\ watch.still \in 0..StallTicks /\ watch.retries \in 0..ThrashLimit

(* Once a call returns, every line the process wrote has been handled: no  *)
(* verdict is given on half of the output.  Not so for dvdbackup, which    *)
(* waits for the process before its readers, nor for the standard error of *)
(* ddrescue, and what follows a token too long to scan is thrown away.     *)
OutputHeard ==
    Returned /\ tool # "dvdbackup" =>
       \A s \in Joined : parsed[s] = said[s] \/ reader[s] = "cut"

(* After the call returns no event of it reaches the sink any more, which  *)
(* by then has moved on to the next step.  The reader of ddrescue's        *)
(* standard error is the exception.                                        *)
QuietAfterReturn == told.late => tool = "ddrescue"

(* Whichever stream a verdict on a track comes by, and in whatever order,  *)
(* the summary keeps the best one, and the start is announced once.        *)
WhipperSummary ==
    tool = "whipper" =>
       /\ told.conf = told.best
       /\ told.hints = IF \E s \in Streams : parsed[s] > 0 THEN 1 ELSE 0

(* A rip the watchdog has killed is told as aborted, with the reason, and  *)
(* never as done or as a bare signal; a success is one the tool claims;    *)
(* and a mirror that ended well stands at 100, whatever the size poller    *)
(* was doing when the process ended.                                       *)
VerdictTold ==
    Returned =>
       /\ child = "aborted" => result = "aborted"
       /\ result = "ok" => child = "ok" \/ told.result
       /\ tool = "dvdbackup" /\ result = "ok" /\ sized => told.pct = Full

(* Every call ends: no process blocks for ever on a pipe nobody reads, and *)
(* a drive that hangs is given up.  Only redumper is watched; the rest of  *)
(* the excuse is a reader that stops at a long line without draining.      *)
Excused == (child = "hung" /\ ~T.watched) \/ (~T.drains /\ writing # NoWrite)
RunEnds == <>[](Returned \/ Excused)

(* Claimed at redumper.go:46: a slow pass that still advances is never     *)
(* killed.  idle is the time since the percentage of the current phase     *)
(* last rose.                                                              *)
AdvancingKept ==
    [][watch'.reason = "stalled" /\ watch.reason = "none" =>
          watch.idle >= StallTicks]_vars
=============================================================================
