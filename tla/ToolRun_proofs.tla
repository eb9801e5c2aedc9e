-------------------------- MODULE ToolRun_proofs --------------------------
(***************************************************************************)
(* The run of a tool, for every tool of the registry and every size of the *)
(* pipes and caps.  The inductive invariant counts lines: what the process *)
(* has said is handled, in a reader's hand or in the pipe, for as long as  *)
(* no reader drains and no pipe is closed over it; a call that joins its   *)
(* readers before it waits closes no pipe with a line in it.  The rest     *)
(* says who has ended: a reader that is done stays done, a process that    *)
(* was waited for has exited, and what the summary holds is the better of  *)
(* what the readers handled.                                               *)
(***************************************************************************)
EXTENDS ToolRun, SequenceTheorems, TLAPS

(* What a run works with.                                                   *)
Effects ==
    {"substep", "progress", "log", "file", "drop", "log-keep", "keep",
     "log-once", "track", "track-progress", "confidence", "result"}
Lines == LinesOf(tool, "out") \cup LinesOf(tool, "err")
Children == {"running", "hung", "ok", "failed", "killed", "aborted"}
ReaderStates == {"scanning", "draining", "done", "cut"}
Ended == {"done", "cut"}

ChildTyped ==
    /\ tool \in DOMAIN Tools /\ sized \in BOOLEAN /\ child \in Children
    /\ writing # NoWrite =>
          writing.s \in Streams /\ writing.line \in LinesOf(tool, writing.s)
    /\ said \in [Streams -> Nat]
ReadersTyped ==
    /\ pipe \in [Streams -> Seq(Lines)]
    /\ \A s \in Streams : /\ pipe[s] \in Seq(LinesOf(tool, s))
                          /\ Len(pipe[s]) <= PipeCap
    /\ reader \in [Streams -> ReaderStates]
    /\ hand \in [Streams -> Lines \cup {NoLine}]
    /\ \A s \in Streams :
          hand[s] # NoLine => hand[s] \in LinesOf(tool, s) \ {Long}
    /\ mem \in [Streams -> Nat] /\ parsed \in [Streams -> Nat]
Tidings == [pct : Levels, logs : [Streams -> Nat], hints : 0..1,
            conf : -1..2, best : -1..2, result : BOOLEAN, late : BOOLEAN]
ToldTyped == told \in Tidings
CallerTyped ==
    /\ caller \in {"join", "wait", "return", "returned"}
    /\ result \in {"none", "ok", "error", "aborted"}
Watches == [dog : {"none", "asleep", "tripping", "tripped", "done"},
            reason : {"none", "boundary", "stalled"},
            retries : 0..ThrashLimit, last : Levels,
            still : 0..StallTicks, phase : Levels, idle : 0..StallTicks]
WatchTyped == watch \in Watches
Typed == ChildTyped /\ ReadersTyped /\ ToldTyped /\ CallerTyped /\ WatchTyped

(* A line is in the pipe, in a reader's hand, or handled; only a reader     *)
(* that drains, or a pipe closed over it, loses one.                        *)
InHand(s) == IF hand[s] = NoLine THEN 0 ELSE 1
Accounted(s) == parsed[s] + Len(pipe[s]) + InHand(s)
Counts ==
    /\ \A s \in Streams : Accounted(s) <= said[s]
    /\ said["out"] + said["err"] + (IF writing = NoWrite THEN 0 ELSE 1)
          <= MaxLines
Heard ==
    T.order # "wait-join" =>
        \A s \in Joined :
            reader[s] \in {"scanning", "done"} => Accounted(s) = said[s]

(* A log line costs a line read, and a capped parser counts what it logs.   *)
Logged ==
    \A s \in Streams :
        /\ mem[s] <= parsed[s] /\ told.logs[s] <= parsed[s]
        /\ T.capped => told.logs[s] = mem[s] /\ mem[s] <= LineCap + 1

(* Whoever has ended does no more: a reader, the process.                   *)
Ends ==
    /\ \A s \in Streams : reader[s] # "scanning" => hand[s] = NoLine
    /\ \A s \in Streams : reader[s] = "done" =>
          pipe[s] = <<>> /\ (~Alive \/ (Merged /\ s = "err"))
    /\ child # "running" => writing = NoWrite
    /\ Merged => writing.s = "out" /\ reader["err"] = "done"

(* What the caller has waited for.                                          *)
Waited ==
    IF T.order = "wait-join"
    THEN /\ caller # "wait" => ~Alive
         /\ caller \in {"return", "returned"} =>
               \A s \in Joined : reader[s] \in Ended
    ELSE /\ caller # "join" => \A s \in Joined : reader[s] \in Ended
         /\ caller \in {"return", "returned"} => ~Alive

Aborted == child = "aborted" => watch.dog = "tripped"

(* What the call returned.                                                  *)
Settled ==
    Returned =>
       /\ child = "aborted" => result = "aborted"
       /\ result = "ok" =>
             child = "ok" \/ (told.result /\ tool # "ddrescue")
       /\ tool = "dvdbackup" /\ result = "ok" /\ sized => told.pct = Full

Inv ==
    /\ Typed /\ Counts /\ Heard /\ Logged /\ Ends /\ Waited /\ Aborted
    /\ QuietAfterReturn /\ WhipperSummary /\ Settled

----------------------------------------------------------------------------
(* The tools.                                                               *)

(* What the proofs use of how a call is put together.                       *)
LEMMA ToolFacts ==
    ASSUME NEW t \in DOMAIN Tools
    PROVE  /\ Tools[t].order \in {"join-wait", "wait-join", "join-out-wait"}
           /\ Tools[t].order = "wait-join" <=> t = "dvdbackup"
           /\ Tools[t].order = "join-out-wait" <=> t = "ddrescue"
           /\ Tools[t].needs \in {"exit", "result", "exit-result"}
           /\ t \in {"dvdbackup", "ddrescue"} => Tools[t].needs = "exit"
           /\ Tools[t].merged \in BOOLEAN /\ Tools[t].watched \in BOOLEAN
           /\ Tools[t].capped \in BOOLEAN /\ Tools[t].drains \in BOOLEAN
<1>1. CASE t = "redumper"
  BY <1>1 DEF Tools, Tool, Redumper
<1>2. CASE t = "whipper"
  BY <1>2 DEF Tools, Tool, Whipper
<1>3. CASE t = "handbrake"
  BY <1>3 DEF Tools, Tool, HandBrake
<1>4. CASE t = "makemkv_rip"
  BY <1>4 DEF Tools, Tool, MakeMKVRip
<1>5. CASE t = "makemkv_scan"
  BY <1>5 DEF Tools, Tool, MakeMKVScan
<1>6. CASE t = "chdman"
  BY <1>6 DEF Tools, Tool, CHDMan
<1>7. CASE t = "vcdxrip"
  BY <1>7 DEF Tools, Tool, VCDXRip
<1>8. CASE t = "dvdbackup"
  BY <1>8 DEF Tools, Tool, DVDBackup
<1>9. CASE t = "ddrescue"
  BY <1>9 DEF Tools, Tool, DDRescue
<1>10. CASE t = "ps3_detect"
  BY <1>10 DEF Tools, Tool, PS3Detect
<1>11. CASE t = "ps3_dump"
  BY <1>11 DEF Tools, Tool, PS3Dump, PS3Detect
<1> QED  BY <1>1, <1>2, <1>3, <1>4, <1>5, <1>6,
            <1>7, <1>8, <1>9, <1>10, <1>11 DEF Tools

(* What the proofs use of what a parser makes of a kind of line.            *)
LEMMA EffectFacts ==
    ASSUME NEW t \in DOMAIN Tools, NEW s \in Streams,
           NEW k \in DOMAIN EffectOf(t, s)
    PROVE  /\ k \notin {"none", "long"}
           /\ EffectOf(t, s)[k] \in Effects
           /\ Tools[t].capped =>
                 EffectOf(t, s)[k] \in {"progress", "drop", "log"}
           /\ EffectOf(t, s)[k] = "confidence" =>
                 k \in {"ok", "matched", "mismatch"}
<1>1. CASE t = "redumper"
  <2>1. Tools[t].lines = ParseRedumperProgress /\ ~Tools[t].capped
    BY <1>1 DEF Tools, Tool, Redumper
  <2>2. EffectOf(t, s) = ParseRedumperProgress
    BY <1>1, <2>1 DEF EffectOf
  <2> QED  BY <2>1, <2>2 DEF Effects, ParseRedumperProgress
<1>2. CASE t = "whipper"
  <2>1. Tools[t].lines = ParseWhipperLines /\ ~Tools[t].capped
    BY <1>2 DEF Tools, Tool, Whipper
  <2>2. EffectOf(t, s) = ParseWhipperLines
    BY <1>2, <2>1 DEF EffectOf
  <2> QED  BY <2>1, <2>2 DEF Effects, ParseWhipperLines
<1>3. CASE t = "handbrake"
  <2>1. Tools[t].lines = ParseHandBrakeEncodeStream /\ Tools[t].capped
    BY <1>3 DEF Tools, Tool, HandBrake
  <2>2. EffectOf(t, s) = ParseHandBrakeEncodeStream
    BY <1>3, <2>1 DEF EffectOf
  <2> QED  BY <2>1, <2>2 DEF Effects, ParseHandBrakeEncodeStream
<1>4. CASE t = "makemkv_rip"
  <2>1. Tools[t].lines = ParseMakeMKVProgressStream /\ ~Tools[t].capped
    BY <1>4 DEF Tools, Tool, MakeMKVRip
  <2>2. EffectOf(t, s) = ParseMakeMKVProgressStream
    BY <1>4, <2>1 DEF EffectOf
  <2> QED  BY <2>1, <2>2 DEF Effects, ParseMakeMKVProgressStream
<1>5. CASE t = "makemkv_scan"
  <2>1. Tools[t].lines = ScanConsume /\ ~Tools[t].capped
    BY <1>5 DEF Tools, Tool, MakeMKVScan
  <2>2. EffectOf(t, s) = ScanConsume
    BY <1>5, <2>1 DEF EffectOf
  <2> QED  BY <2>1, <2>2 DEF Effects, ScanConsume
<1>6. CASE t = "chdman"
  <2>1. Tools[t].lines = ParseCHDManProgress /\ ~Tools[t].capped
    BY <1>6 DEF Tools, Tool, CHDMan
  <2>2. EffectOf(t, s) = ParseCHDManProgress
    BY <1>6, <2>1 DEF EffectOf
  <2> QED  BY <2>1, <2>2 DEF Effects, ParseCHDManProgress
<1>7. CASE t = "vcdxrip"
  <2>1. Tools[t].lines = ParseVCDXRipProgress /\ ~Tools[t].capped
    BY <1>7 DEF Tools, Tool, VCDXRip
  <2>2. EffectOf(t, s) = ParseVCDXRipProgress
    BY <1>7, <2>1 DEF EffectOf
  <2> QED  BY <2>1, <2>2 DEF Effects, ParseVCDXRipProgress
<1>8. CASE t = "dvdbackup"
  <2>1. Tools[t].lines = ParseDVDBackupStream /\ Tools[t].capped
    BY <1>8 DEF Tools, Tool, DVDBackup
  <2>2. EffectOf(t, s) = ParseDVDBackupStream
    BY <1>8, <2>1 DEF EffectOf
  <2> QED  BY <2>1, <2>2 DEF Effects, ParseDVDBackupStream
<1>9. CASE t = "ddrescue"
  <2>1. Tools[t].lines = ScanDDRescueOutput /\ ~Tools[t].capped
    BY <1>9 DEF Tools, Tool, DDRescue
  <2>2. CASE s = "err"
    <3>1. EffectOf(t, s) = [error |-> "log"]
      BY <1>9, <2>2 DEF EffectOf
    <3> QED  BY <2>1, <3>1 DEF Effects
  <2>3. CASE s # "err"
    <3>1. EffectOf(t, s) = ScanDDRescueOutput
      BY <1>9, <2>1, <2>3 DEF EffectOf
    <3> QED  BY <2>1, <3>1 DEF Effects, ScanDDRescueOutput
  <2> QED  BY <2>2, <2>3
<1>10. CASE t = "ps3_detect"
  <2>1. Tools[t].lines = DetectLines /\ ~Tools[t].capped
    BY <1>10 DEF Tools, Tool, PS3Detect
  <2>2. EffectOf(t, s) = DetectLines
    BY <1>10, <2>1 DEF EffectOf
  <2> QED  BY <2>1, <2>2 DEF Effects, DetectLines
<1>11. CASE t = "ps3_dump"
  <2>1. Tools[t].lines = DumpLines /\ ~Tools[t].capped
    BY <1>11 DEF Tools, Tool, PS3Dump, PS3Detect
  <2>2. EffectOf(t, s) = DumpLines
    BY <1>11, <2>1 DEF EffectOf
  <2> QED  BY <2>1, <2>2 DEF Effects, DumpLines
<1> QED  BY <1>1, <1>2, <1>3, <1>4, <1>5, <1>6,
            <1>7, <1>8, <1>9, <1>10, <1>11 DEF Tools

(* The lines a process can write.                                           *)
LEMMA LineFacts ==
    ASSUME NEW t \in DOMAIN Tools, NEW s \in Streams,
           NEW line \in LinesOf(t, s)
    PROVE  /\ line # NoLine
           /\ line # Long => line.kind \in DOMAIN EffectOf(t, s)
           /\ line.n \in Levels
           /\ line # Long /\ line.kind \in {"ok", "matched", "mismatch"} =>
                 line.n \in 0..2
<1>1. CASE line = Long
  BY <1>1 DEF Long, NoLine, Line, Levels, Full
<1>2. CASE line # Long
  <2> DEFINE Of(k) == CASE k = "progress" -> {1, Full}
                        [] k = "ok"       -> {2}
                        [] k = "matched"  -> {1}
                        [] k = "result"   -> {0, 1}
                        [] OTHER          -> {0}
  <2>1. PICK k \in DOMAIN EffectOf(t, s) : \E n \in Of(k) : line = Line(k, n)
    BY <1>2 DEF LinesOf
  <2>2. PICK n \in Of(k) : line = Line(k, n)
    BY <2>1
  <2>3. line.kind = k /\ line.n = n
    BY <2>2 DEF Line
  <2>4. n \in Levels /\ (k \in {"ok", "matched", "mismatch"} => n \in 0..2)
    BY DEF Levels, Full
  <2>5. k \notin {"none", "long"}
    BY EffectFacts
  <2> QED  BY <2>3, <2>4, <2>5 DEF Line, NoLine
<1> QED  BY <1>1, <1>2

----------------------------------------------------------------------------
(* The child.                                                               *)

(* The parts of the invariant a step of the child leaves alone.             *)
ReadersStay ==
    UNCHANGED <<tool, sized, pipe, reader, hand, mem, parsed, told, caller,
                result, watch>>

(* What holds still when only the process moves.                            *)
LEMMA ReadersStayThere ==
    ASSUME Inv, ReadersStay
    PROVE  /\ ReadersTyped' /\ ToldTyped' /\ CallerTyped' /\ WatchTyped'
           /\ Logged' /\ QuietAfterReturn' /\ WhipperSummary'
           /\ \A s \in Streams : Accounted(s)' = Accounted(s)
           /\ T' = T /\ Joined' = Joined /\ Joined \subseteq Streams
<1>1. ReadersTyped'
  BY DEF Inv, Typed, ReadersStay, ReadersTyped, Lines, LinesOf, EffectOf
<1>2. ToldTyped' /\ CallerTyped' /\ WatchTyped'
  BY DEF Inv, Typed, ReadersStay, ToldTyped, CallerTyped, WatchTyped
<1>3. T' = T /\ Joined' = Joined /\ Joined \subseteq Streams
  BY DEF ReadersStay, T, Joined, Streams
<1>4. Logged'
  BY <1>3 DEF Inv, ReadersStay, Logged
<1>5. QuietAfterReturn' /\ WhipperSummary'
  BY DEF Inv, ReadersStay, QuietAfterReturn, WhipperSummary
<1>6. \A s \in Streams : Accounted(s)' = Accounted(s)
  BY DEF ReadersStay, Accounted, InHand
<1> QED  BY <1>1, <1>2, <1>3, <1>4, <1>5, <1>6

(* The process takes up a line to write.                                    *)
LEMMA BeginWriteKeeps ==
    ASSUME Inv, NEW s \in Streams, BeginWrite(s)
    PROVE  Inv'
<1>1. /\ ReadersStay /\ child = "running" /\ writing = NoWrite
      /\ said["out"] + said["err"] < MaxLines /\ (s = "err" => ~Merged)
      /\ UNCHANGED <<child, said>>
  BY DEF BeginWrite, ReadersStay, fixed, readVars, callVars
<1>2. PICK line \in LinesOf(tool, s) : writing' = [s |-> s, line |-> line]
  BY DEF BeginWrite
<1>3. /\ ReadersTyped' /\ ToldTyped' /\ CallerTyped' /\ WatchTyped'
      /\ Logged' /\ QuietAfterReturn' /\ WhipperSummary'
      /\ \A r \in Streams : Accounted(r)' = Accounted(r)
      /\ T' = T /\ Joined' = Joined /\ Joined \subseteq Streams
  BY <1>1, ReadersStayThere
<1>4. ChildTyped'
  BY <1>1, <1>2
     DEF Inv, Typed, ChildTyped, ReadersStay, LinesOf, EffectOf
<1>5. Counts'
  <2>1. said["out"] \in Nat /\ said["err"] \in Nat
    BY DEF Inv, Typed, ChildTyped, Streams
  <2> QED  BY <1>1, <1>3, <2>1, ToolAssumption
           DEF ToolAssumption, Inv, Counts
<1>6. Heard' /\ Waited' /\ Aborted'
  <2>1. Heard'
    BY <1>1, <1>3 DEF Inv, Heard, ReadersStay
  <2>2. Waited' /\ Aborted'
    BY <1>1, <1>3 DEF Inv, Waited, Aborted, ReadersStay, Alive
  <2> QED  BY <2>1, <2>2
<1>7. Ends'
  <2>1. writing'.s = s
    BY <1>2
  <2>2. s # "err" => s = "out"
    BY DEF Streams
  <2> QED  BY <1>1, <1>3, <2>1, <2>2
           DEF Inv, Ends, ReadersStay, Alive, Merged
<1>8. Settled'
  BY <1>1 DEF Inv, Settled, ReadersStay, Returned
<1> QED  BY <1>3, <1>4, <1>5, <1>6, <1>7, <1>8 DEF Inv, Typed

(* The line reaches the pipe.                                               *)
LEMMA EndWriteKeeps ==
    ASSUME Inv, EndWrite
    PROVE  Inv'
<1> DEFINE w == writing.s
<1>1. /\ child = "running" /\ writing # NoWrite /\ writing' = NoWrite
      /\ Len(pipe[w]) < PipeCap
      /\ pipe' = [pipe EXCEPT ![w] = Append(@, writing.line)]
      /\ said' = [said EXCEPT ![w] = @ + 1]
      /\ UNCHANGED <<tool, sized, child, reader, hand, mem, parsed, told>>
      /\ UNCHANGED <<caller, result, watch>>
  BY DEF EndWrite, fixed, readVars, callVars
<1>2. /\ w \in Streams /\ writing.line \in LinesOf(tool, w)
      /\ tool \in DOMAIN Tools /\ said \in [Streams -> Nat]
      /\ pipe \in [Streams -> Seq(Lines)]
      /\ \A s \in Streams : pipe[s] \in Seq(LinesOf(tool, s))
                            /\ Len(pipe[s]) <= PipeCap
  BY <1>1 DEF Inv, Typed, ChildTyped, ReadersTyped
<1>3. writing.line \in Lines
  BY <1>2 DEF Lines, Streams
<1>4. T' = T /\ Joined' = Joined /\ Merged' = Merged /\ Lines' = Lines
      /\ \A s \in Streams : LinesOf(tool, s)' = LinesOf(tool, s)
  BY <1>1 DEF T, Joined, Merged, Lines, LinesOf, EffectOf
<1>5. \A S : pipe[w] \in Seq(S) /\ writing.line \in S =>
         /\ pipe'[w] \in Seq(S) /\ Len(pipe'[w]) = Len(pipe[w]) + 1
         /\ Len(pipe[w]) \in Nat
  BY <1>1, <1>2, AppendProperties
<1>6. /\ pipe' \in [Streams -> Seq(Lines)]
      /\ \A s \in Streams : pipe'[s] \in Seq(LinesOf(tool, s))
                            /\ Len(pipe'[s]) <= PipeCap
  <2>1. /\ pipe'[w] \in Seq(Lines) /\ pipe'[w] \in Seq(LinesOf(tool, w))
        /\ Len(pipe'[w]) <= PipeCap
    <3>1. PipeCap \in Nat
      BY ToolAssumption DEF ToolAssumption
    <3>2. pipe'[w] \in Seq(Lines)
      BY <1>2, <1>3, <1>5
    <3>3. /\ pipe'[w] \in Seq(LinesOf(tool, w))
          /\ Len(pipe'[w]) = Len(pipe[w]) + 1 /\ Len(pipe[w]) \in Nat
      BY <1>2, <1>5
    <3> QED  BY <1>1, <3>1, <3>2, <3>3
  <2> QED  BY <1>1, <1>2, <2>1
<1>7. ChildTyped' /\ ReadersTyped'
  <2>1. ChildTyped'
    BY <1>1, <1>2 DEF Inv, Typed, ChildTyped
  <2>2. ReadersTyped'
    BY <1>1, <1>4, <1>6 DEF Inv, Typed, ReadersTyped
  <2> QED  BY <2>1, <2>2
<1>8. ToldTyped' /\ CallerTyped' /\ WatchTyped'
  BY <1>1 DEF Inv, Typed, ToldTyped, CallerTyped, WatchTyped
<1>9. \A s \in Streams :
         /\ s # w => Accounted(s)' = Accounted(s) /\ said'[s] = said[s]
         /\ s = w => /\ Accounted(s)' = Accounted(s) + 1
                     /\ said'[s] = said[s] + 1
         /\ Accounted(s) \in Nat /\ said[s] \in Nat
  <2> TAKE s \in Streams
  <2>1. parsed[s] \in Nat /\ Len(pipe[s]) \in Nat /\ said[s] \in Nat
        /\ InHand(s) \in Nat /\ InHand(s)' = InHand(s)
        /\ parsed'[s] = parsed[s]
    BY <1>1, <1>2 DEF Inv, Typed, ReadersTyped, InHand
  <2>2. s # w => pipe'[s] = pipe[s] /\ said'[s] = said[s]
    BY <1>1, <1>2
  <2>3. s = w => Len(pipe'[s]) = Len(pipe[s]) + 1 /\ said'[s] = said[s] + 1
    BY <1>1, <1>2, <1>5
  <2> QED  BY <2>1, <2>2, <2>3 DEF Accounted
<1>10. Counts'
  <2>1. \A s \in Streams : Accounted(s)' <= said'[s]
    BY <1>9 DEF Inv, Counts
  <2>2. said'["out"] + said'["err"] = said["out"] + said["err"] + 1
    <3>1. "out" \in Streams /\ "err" \in Streams
      BY DEF Streams
    <3>2. CASE w = "out"
      BY <1>9, <3>1, <3>2
    <3>3. CASE w = "err"
      BY <1>9, <3>1, <3>3
    <3> QED  BY <1>2, <3>2, <3>3 DEF Streams
  <2>3. said["out"] + said["err"] + 1 <= MaxLines
    BY <1>1 DEF Inv, Counts
  <2>4. said'["out"] + said'["err"] + 0 <= MaxLines
    BY <1>9, <2>2, <2>3 DEF Streams
  <2> QED  BY <1>1, <2>1, <2>4 DEF Counts
<1>11. Heard'
  BY <1>1, <1>4, <1>9 DEF Inv, Heard, Joined, Streams
<1>12. Logged' /\ QuietAfterReturn' /\ WhipperSummary' /\ Aborted'
  BY <1>1, <1>4
     DEF Inv, Logged, QuietAfterReturn, WhipperSummary, Aborted
<1>13. Waited' /\ Settled'
  BY <1>1, <1>4
     DEF Inv, Waited, Settled, Alive, Returned
<1>14. Ends'
  <2>1. \A s \in Streams : reader'[s] # "scanning" => hand'[s] = NoLine
    BY <1>1 DEF Inv, Ends
  <2>2. ASSUME NEW s \in Streams, reader'[s] = "done"
        PROVE  pipe'[s] = <<>> /\ Merged /\ s = "err"
    <3>1. pipe[s] = <<>> /\ Merged /\ s = "err"
      BY <1>1, <2>2 DEF Inv, Ends, Alive
    <3>2. s # w
      BY <3>1 DEF Inv, Ends
    <3> QED  BY <1>1, <1>2, <3>1, <3>2
  <2>3. NoWrite.s = "out"
    BY DEF NoWrite
  <2> QED  BY <1>1, <1>4, <2>1, <2>2, <2>3 DEF Inv, Ends
<1> QED  BY <1>7, <1>8, <1>10, <1>11, <1>12, <1>13, <1>14 DEF Inv, Typed

(* The end of the process, however it comes.                                *)
LEMMA ChildEnds ==
    ASSUME Inv, ReadersStay, said' = said, Alive, writing' = NoWrite,
           child' \in {"ok", "failed", "hung", "killed", "aborted"},
           child' = "aborted" => watch.dog = "tripped"
    PROVE  Inv'
<1>1. /\ ReadersTyped' /\ ToldTyped' /\ CallerTyped' /\ WatchTyped'
      /\ Logged' /\ QuietAfterReturn' /\ WhipperSummary'
      /\ \A s \in Streams : Accounted(s)' = Accounted(s)
      /\ T' = T /\ Joined' = Joined /\ Joined \subseteq Streams
  BY ReadersStayThere
<1>2. ChildTyped'
  BY DEF Inv, Typed, ChildTyped, ReadersStay, Children
<1>3. Counts'
  <2>1. said["out"] \in Nat /\ said["err"] \in Nat
    BY DEF Inv, Typed, ChildTyped, Streams
  <2> QED  BY <1>1, <2>1, ToolAssumption DEF ToolAssumption, Inv, Counts
<1>4. Heard' /\ Aborted'
  BY <1>1 DEF Inv, Heard, Aborted, ReadersStay
<1>5. Ends'
  <2>1. NoWrite.s = "out"
    BY DEF NoWrite
  <2> QED  BY <1>1, <2>1 DEF Inv, Ends, ReadersStay, Alive, Merged
<1>6. Waited' /\ Settled'
  BY <1>1 DEF Inv, Waited, Settled, ReadersStay, Alive, Returned
<1> QED  BY <1>1, <1>2, <1>3, <1>4, <1>5, <1>6 DEF Inv, Typed

(* The process exits.                                                       *)
LEMMA ExitChildKeeps ==
    ASSUME Inv, ExitChild
    PROVE  Inv'
<1>1. /\ ReadersStay /\ said' = said /\ Alive /\ writing' = NoWrite
      /\ child' \in {"ok", "failed"}
  BY DEF ExitChild, ReadersStay, fixed, readVars, callVars, Alive
<1> QED  BY <1>1, ChildEnds

(* The process waits for the drive.                                         *)
LEMMA HangKeeps ==
    ASSUME Inv, Hang
    PROVE  Inv'
<1>1. /\ ReadersStay /\ said' = said /\ Alive /\ writing' = NoWrite
      /\ child' = "hung"
  BY DEF Hang, ReadersStay, fixed, readVars, callVars, Alive
<1> QED  BY <1>1, ChildEnds

(* The context is cancelled and the process killed.                         *)
LEMMA KillKeeps ==
    ASSUME Inv, Kill
    PROVE  Inv'
<1>1. /\ ReadersStay /\ said' = said /\ Alive /\ writing' = NoWrite
      /\ \/ child' = "killed"
         \/ watch.dog = "tripped" /\ child' = "aborted"
  BY DEF Kill, ReadersStay, fixed, readVars, callVars
<1> QED  BY <1>1, ChildEnds

----------------------------------------------------------------------------
(* The readers.                                                             *)

(* The parts of the invariant a step that moves lines leaves alone.         *)
OthersStay ==
    UNCHANGED <<tool, sized, child, writing, said, mem, parsed, told, caller,
                result, watch>>

(* What holds still when only a reader moves.                               *)
LEMMA OthersStayThere ==
    ASSUME Inv, OthersStay
    PROVE  /\ ChildTyped' /\ ToldTyped' /\ CallerTyped' /\ WatchTyped'
           /\ Logged' /\ Aborted' /\ QuietAfterReturn' /\ WhipperSummary'
           /\ Settled'
           /\ T' = T /\ Joined' = Joined /\ Joined \subseteq Streams
           /\ Merged' = Merged /\ Lines' = Lines
           /\ \A s \in Streams : LinesOf(tool, s)' = LinesOf(tool, s)
<1>1. ChildTyped'
  BY DEF Inv, Typed, OthersStay, ChildTyped, LinesOf, EffectOf
<1>2. ToldTyped' /\ CallerTyped' /\ WatchTyped'
  BY DEF Inv, Typed, OthersStay, ToldTyped, CallerTyped, WatchTyped
<1>3. T' = T /\ Joined' = Joined /\ Joined \subseteq Streams
  BY DEF OthersStay, T, Joined, Streams
<1>4. Logged' /\ Aborted'
  BY <1>3 DEF Inv, OthersStay, Logged, Aborted
<1>5. QuietAfterReturn' /\ WhipperSummary' /\ Settled'
  BY DEF Inv, OthersStay, QuietAfterReturn, WhipperSummary, Settled, Returned
<1>6. /\ Merged' = Merged /\ Lines' = Lines
      /\ \A s \in Streams : LinesOf(tool, s)' = LinesOf(tool, s)
  BY <1>3 DEF OthersStay, Merged, Lines, LinesOf, EffectOf
<1> QED  BY <1>1, <1>2, <1>3, <1>4, <1>5, <1>6

(* A reader that has not ended is one the caller still waits for, if it     *)
(* waits for it at all.                                                     *)
LEMMA ReadersMove ==
    ASSUME Inv, OthersStay, NEW s \in Streams, reader[s] \notin Ended,
           \A r \in Streams \ {s} : /\ reader'[r] = reader[r]
                                    /\ hand'[r] = hand[r]
                                    /\ pipe'[r] = pipe[r],
           ReadersTyped', Accounted(s)' <= said[s],
           reader'[s] \in {"scanning", "done"} /\ T.order # "wait-join" =>
               Accounted(s)' = said[s] \/ s \notin Joined,
           reader'[s] # "scanning" => hand'[s] = NoLine,
           reader'[s] = "done" => pipe'[s] = <<>> /\ ~Alive
    PROVE  Inv'
<1>1. /\ ChildTyped' /\ ToldTyped' /\ CallerTyped' /\ WatchTyped'
      /\ Logged' /\ Aborted' /\ QuietAfterReturn' /\ WhipperSummary'
      /\ Settled'
      /\ T' = T /\ Joined' = Joined /\ Joined \subseteq Streams
      /\ Merged' = Merged
  BY OthersStayThere
<1>2. \A r \in Streams \ {s} : Accounted(r)' = Accounted(r)
  BY DEF OthersStay, Accounted, InHand
<1>3. Counts'
  <2>1. \A r \in Streams : Accounted(r)' <= said'[r]
    BY <1>2 DEF Inv, Counts, OthersStay
  <2> QED  BY <2>1 DEF Inv, Counts, OthersStay
<1>4. Heard'
  <2>1. ASSUME T.order # "wait-join", NEW r \in Joined,
               reader'[r] \in {"scanning", "done"}
        PROVE  Accounted(r)' = said[r]
    <3>1. CASE r = s
      BY <2>1, <3>1
    <3>2. CASE r # s
      BY <1>1, <1>2, <2>1, <3>2 DEF Inv, Heard
    <3> QED  BY <3>1, <3>2
  <2> QED  BY <1>1, <2>1 DEF Heard, OthersStay
<1>5. Ends'
  <2>1. \A r \in Streams : reader'[r] # "scanning" => hand'[r] = NoLine
    BY DEF Inv, Ends
  <2>2. \A r \in Streams : reader'[r] = "done" =>
           pipe'[r] = <<>> /\ (~Alive \/ (Merged /\ r = "err"))
    BY DEF Inv, Ends
  <2>3. Merged => reader'["err"] = "done"
    BY DEF Inv, Ends, Ended, Streams
  <2> QED  BY <1>1, <2>1, <2>2, <2>3
           DEF Inv, Ends, OthersStay, Alive
<1>6. Waited'
  <2>1. (\A r \in Joined : reader[r] \in Ended) =>
           \A r \in Joined : reader'[r] \in Ended
    BY <1>1
  <2> QED  BY <1>1, <2>1 DEF Inv, Waited, OthersStay, Alive
<1> QED  BY <1>1, <1>3, <1>4, <1>5, <1>6 DEF Inv, Typed

(* A reader takes a line out of its pipe.                                   *)
LEMMA TakeKeeps ==
    ASSUME Inv, NEW s \in Streams, Take(s)
    PROVE  Inv'
<1> DEFINE line == Head(pipe[s])
<1>1. /\ OthersStay /\ reader[s] = "scanning" /\ hand[s] = NoLine
      /\ pipe[s] # <<>> /\ pipe' = [pipe EXCEPT ![s] = Tail(@)]
      /\ \/ /\ line = Long /\ hand' = hand
            /\ reader' = [reader EXCEPT ![s] =
                            IF T.drains THEN "draining" ELSE "cut"]
         \/ /\ line # Long /\ reader' = reader
            /\ hand' = [hand EXCEPT ![s] = line]
  BY DEF Take, OthersStay, fixed, childVars, callVars
<1>2. /\ tool \in DOMAIN Tools
      /\ pipe \in [Streams -> Seq(Lines)]
      /\ reader \in [Streams -> ReaderStates]
      /\ hand \in [Streams -> Lines \cup {NoLine}]
      /\ \A r \in Streams : pipe[r] \in Seq(LinesOf(tool, r))
                            /\ Len(pipe[r]) <= PipeCap
      /\ \A r \in Streams :
            hand[r] # NoLine => hand[r] \in LinesOf(tool, r) \ {Long}
      /\ mem \in [Streams -> Nat] /\ parsed \in [Streams -> Nat]
      /\ said \in [Streams -> Nat]
  BY DEF Inv, Typed, ChildTyped, ReadersTyped
<1>3. /\ Tail(pipe[s]) \in Seq(Lines)
      /\ Tail(pipe[s]) \in Seq(LinesOf(tool, s))
      /\ Len(Tail(pipe[s])) = Len(pipe[s]) - 1 /\ Len(pipe[s]) \in Nat
      /\ line \in LinesOf(tool, s) /\ line \in Lines
  <2>1. \A S : pipe[s] \in Seq(S) =>
           /\ Tail(pipe[s]) \in Seq(S) /\ line \in S
           /\ Len(Tail(pipe[s])) = Len(pipe[s]) - 1 /\ Len(pipe[s]) \in Nat
    BY <1>1, HeadTailProperties
  <2> QED  BY <1>2, <2>1
<1>4. line # NoLine
  BY <1>2, <1>3, LineFacts
<1> HIDE DEF line
<1>5. /\ pipe' \in [Streams -> Seq(Lines)]
      /\ \A r \in Streams : pipe'[r] \in Seq(LinesOf(tool, r))
                            /\ Len(pipe'[r]) <= PipeCap
      /\ pipe'[s] = Tail(pipe[s])
      /\ \A r \in Streams \ {s} : pipe'[r] = pipe[r]
  <2>1. PipeCap \in Nat
    BY ToolAssumption DEF ToolAssumption
  <2> QED  BY SMTT(30), <1>1, <1>2, <1>3, <2>1
<1>6. /\ reader' \in [Streams -> ReaderStates]
      /\ hand' \in [Streams -> Lines \cup {NoLine}]
      /\ \A r \in Streams :
            hand'[r] # NoLine => hand'[r] \in LinesOf(tool, r) \ {Long}
      /\ \A r \in Streams \ {s} : reader'[r] = reader[r] /\ hand'[r] = hand[r]
  BY ZenonT(60), <1>1, <1>2, <1>3 DEF ReaderStates
<1>7. ReadersTyped'
  <2>1. /\ Lines' = Lines
        /\ \A r \in Streams : LinesOf(tool, r)' = LinesOf(tool, r)
    BY <1>1, OthersStayThere
  <2> QED  BY <1>1, <1>2, <1>5, <1>6, <2>1 DEF ReadersTyped, OthersStay
<1>8. /\ Accounted(s) <= said[s] /\ Accounted(s) = parsed[s] + Len(pipe[s])
      /\ T.order # "wait-join" /\ s \in Joined => Accounted(s) = said[s]
      /\ parsed[s] \in Nat /\ said[s] \in Nat /\ parsed'[s] = parsed[s]
  BY <1>1, <1>2, <1>3
     DEF Inv, Counts, Heard, Accounted, InHand, OthersStay
<1>9. CASE line = Long
  <2>1. /\ reader'[s] \in {"draining", "cut"} /\ hand'[s] = NoLine
        /\ InHand(s)' = 0
    BY <1>1, <1>2, <1>9 DEF InHand
  <2>2. Accounted(s)' = Accounted(s) - 1
    <3>1. Accounted(s)' = parsed'[s] + Len(pipe'[s]) + InHand(s)'
      BY DEF Accounted
    <3>2. Len(pipe'[s]) = Len(pipe[s]) - 1
      BY <1>3, <1>5
    <3> QED  BY <1>3, <1>8, <2>1, <3>1, <3>2
  <2>3. Accounted(s)' <= said[s]
    BY <1>3, <1>8, <2>2
  <2> QED  BY <1>1, <1>5, <1>6, <1>7, <2>1, <2>3, ReadersMove DEF Ended
<1>10. CASE line # Long
  <2>1. reader'[s] = "scanning" /\ hand'[s] = line /\ InHand(s)' = 1
    BY <1>1, <1>2, <1>4, <1>10 DEF InHand
  <2>2. Accounted(s)' = Accounted(s)
    <3>1. Accounted(s)' = parsed'[s] + Len(pipe'[s]) + InHand(s)'
      BY DEF Accounted
    <3>2. Len(pipe'[s]) = Len(pipe[s]) - 1
      BY <1>3, <1>5
    <3> QED  BY <1>3, <1>8, <2>1, <3>1, <3>2
  <2> QED  BY SMTT(30), <1>1, <1>5, <1>6, <1>7, <1>8, <2>1, <2>2, ReadersMove
           DEF Ended
<1> QED  BY <1>9, <1>10

(* A reader that has met a long token drains its pipe.                      *)
LEMMA DrainKeeps ==
    ASSUME Inv, NEW s \in Streams, DrainAfterScan(s)
    PROVE  Inv'
<1>1. /\ OthersStay /\ reader[s] = "draining" /\ hand' = hand
      /\ \/ /\ pipe' = [pipe EXCEPT ![s] = <<>>] /\ reader' = reader
         \/ /\ pipe' = pipe /\ reader' = [reader EXCEPT ![s] = "cut"]
  BY DEF DrainAfterScan, OthersStay, fixed, childVars, callVars
<1>2. /\ pipe \in [Streams -> Seq(Lines)]
      /\ reader \in [Streams -> ReaderStates]
      /\ \A r \in Streams : pipe[r] \in Seq(LinesOf(tool, r))
                            /\ Len(pipe[r]) <= PipeCap
      /\ parsed \in [Streams -> Nat] /\ said \in [Streams -> Nat]
      /\ hand[s] = NoLine
  BY <1>1 DEF Inv, Typed, ChildTyped, ReadersTyped, Ends
<1>3. \A S : <<>> \in Seq(S) /\ Len(<<>>) = 0
  OBVIOUS
<1>4. PipeCap \in Nat
  BY ToolAssumption DEF ToolAssumption
<1>5. /\ pipe' \in [Streams -> Seq(Lines)]
      /\ reader' \in [Streams -> ReaderStates]
      /\ \A r \in Streams : pipe'[r] \in Seq(LinesOf(tool, r))
                            /\ Len(pipe'[r]) <= PipeCap
      /\ \A r \in Streams \ {s} : reader'[r] = reader[r] /\ pipe'[r] = pipe[r]
      /\ reader'[s] \in {"draining", "cut"}
      /\ pipe'[s] \in {<<>>, pipe[s]}
  <2>1. CASE pipe' = [pipe EXCEPT ![s] = <<>>] /\ reader' = reader
    BY <1>1, <1>2, <1>3, <1>4, <2>1
  <2>2. CASE pipe' = pipe /\ reader' = [reader EXCEPT ![s] = "cut"]
    BY <1>2, <2>2 DEF ReaderStates
  <2> QED  BY <1>1, <2>1, <2>2
<1>6. ReadersTyped'
  <2>1. /\ Lines' = Lines
        /\ \A r \in Streams : LinesOf(tool, r)' = LinesOf(tool, r)
    BY <1>1, OthersStayThere
  <2> QED  BY <1>1, <1>5, <2>1
           DEF Inv, Typed, ReadersTyped, OthersStay
<1>7. Accounted(s)' <= said[s]
  <2>1. Len(pipe'[s]) <= Len(pipe[s]) /\ Len(pipe'[s]) \in Nat
        /\ Len(pipe[s]) \in Nat
    BY <1>2, <1>3, <1>5
  <2>2. Accounted(s) <= said[s] /\ Accounted(s) = parsed[s] + Len(pipe[s]) + 0
    BY <1>2 DEF Inv, Counts, Accounted, InHand
  <2>3. Accounted(s)' = parsed[s] + Len(pipe'[s]) + 0
    BY <1>1, <1>2 DEF Accounted, InHand, OthersStay
  <2> QED  BY <1>2, <2>1, <2>2, <2>3
<1> QED  BY <1>1, <1>2, <1>5, <1>6, <1>7, ReadersMove DEF Ended

(* A reader meets the end of its pipe.                                      *)
LEMMA EndOfFileKeeps ==
    ASSUME Inv, NEW s \in Streams, EndOfFile(s)
    PROVE  Inv'
<1>1. /\ OthersStay /\ reader[s] = "scanning" /\ hand[s] = NoLine
      /\ pipe[s] = <<>> /\ ~Alive /\ hand' = hand /\ pipe' = pipe
      /\ reader' = [reader EXCEPT ![s] = "done"]
  BY DEF EndOfFile, OthersStay, fixed, childVars, callVars
<1>2. /\ reader' \in [Streams -> ReaderStates] /\ reader'[s] = "done"
      /\ \A r \in Streams \ {s} : reader'[r] = reader[r]
  BY <1>1 DEF Inv, Typed, ReadersTyped, ReaderStates
<1>3. ReadersTyped'
  <2>1. /\ Lines' = Lines
        /\ \A r \in Streams : LinesOf(tool, r)' = LinesOf(tool, r)
    BY <1>1, OthersStayThere
  <2> QED  BY <1>1, <1>2, <2>1
           DEF Inv, Typed, ReadersTyped, OthersStay
<1>4. Accounted(s)' = Accounted(s)
  BY <1>1 DEF OthersStay, Accounted, InHand
<1>5. /\ Accounted(s)' <= said[s]
      /\ T.order # "wait-join" /\ s \in Joined => Accounted(s)' = said[s]
  BY <1>1, <1>4 DEF Inv, Counts, Heard
<1> QED  BY <1>1, <1>2, <1>3, <1>5, ReadersMove DEF Ended

(* The watchdog's figures stay in bounds, and a line read moves no watchdog.*)
LEMMA NotesTyped ==
    ASSUME WatchTyped, NEW pct \in Levels, NEW kind
    PROVE  /\ NoteProgress(pct) \in Watches /\ NoteLog(kind) \in Watches
           /\ NoteProgress(pct).dog = watch.dog
           /\ NoteLog(kind).dog = watch.dog
<1>1. /\ watch.retries \in 0..ThrashLimit /\ watch.last \in Levels
      /\ watch.still \in 0..StallTicks /\ watch.idle \in 0..StallTicks
      /\ watch.phase \in Levels /\ 0 \in Levels
      /\ ThrashLimit \in Nat /\ StallTicks \in Nat
      /\ 0 \in 0..StallTicks
  BY ToolAssumption DEF ToolAssumption, WatchTyped, Watches, Levels, Full
<1>2. NoteProgress(pct) \in Watches /\ NoteProgress(pct).dog = watch.dog
  BY <1>1 DEF NoteProgress, WatchTyped, Watches
<1>3. NoteLog(kind) \in Watches /\ NoteLog(kind).dog = watch.dog
  <2>1. (IF kind = "thrash" /\ watch.retries < ThrashLimit
         THEN watch.retries + 1 ELSE watch.retries) \in 0..ThrashLimit
    BY <1>1
  <2> QED  BY <1>1, <2>1 DEF NoteLog, WatchTyped, Watches
<1> QED  BY <1>2, <1>3

(* What becomes of a line whatever its kind is.                             *)
LEMMA HandleDoes ==
    ASSUME Inv, NEW s \in Streams, Handle(s)
    PROVE  /\ told' \in Tidings /\ watch' \in Watches
           /\ watch'.dog = watch.dog
           /\ told'.late => told.late \/ Returned
           /\ told'.hints = (IF tool = "whipper" /\ told.hints = 0
                             THEN told.hints + 1 ELSE told.hints)
           /\ told.conf = told.best => told'.conf = told'.best
           /\ mem' \in [Streams -> Nat]
           /\ \A r \in Streams \ {s} :
                 mem'[r] = mem[r] /\ told'.logs[r] = told.logs[r]
           /\ mem'[s] \in {mem[s], mem[s] + 1, 1}
           /\ told'.logs[s] \in {told.logs[s], told.logs[s] + 1}
           /\ T.capped =>
                 \/ mem'[s] = mem[s] /\ told'.logs[s] = told.logs[s]
                 \/ /\ mem'[s] = mem[s] + 1 /\ mem[s] <= LineCap
                    /\ told'.logs[s] = told.logs[s] + 1
<1> DEFINE line == hand[s]
           effect == EffectOf(tool, s)[line.kind]
           logs == IF Forwarded(s) THEN [told.logs EXCEPT ![s] = @ + 1]
                   ELSE told.logs
           heard == [told EXCEPT
                       !.late = @ \/ Returned,
                       !.hints = IF tool = "whipper" /\ Announce(s)
                                 THEN @ + 1 ELSE @,
                       !.best = IF effect = "confidence" /\ line.n > @
                                THEN line.n ELSE @]
<1>1. /\ tool \in DOMAIN Tools /\ told \in Tidings /\ watch \in Watches
      /\ mem \in [Streams -> Nat] /\ WatchTyped
      /\ line \in LinesOf(tool, s) /\ line # Long
  BY DEF Handle, Inv, Typed, ChildTyped, ReadersTyped, ToldTyped, WatchTyped
<1>2. /\ line.kind \in DOMAIN EffectOf(tool, s) /\ line.n \in Levels
      /\ line.kind \in {"ok", "matched", "mismatch"} => line.n \in 0..2
  BY <1>1, LineFacts
<1>3. /\ effect \in Effects
      /\ T.capped => effect \in {"progress", "drop", "log"}
      /\ effect = "confidence" => line.n \in 0..2
  BY <1>1, <1>2, EffectFacts DEF T
<1>4. /\ \/ effect = "drop" /\ told' = [heard EXCEPT !.late = told.late]
            /\ UNCHANGED <<mem, watch>>
         \/ effect = "progress" /\ told' = [heard EXCEPT !.pct = line.n]
            /\ watch' = (IF T.watched THEN NoteProgress(line.n) ELSE watch)
            /\ UNCHANGED mem
         \/ effect = "track-progress"
            /\ told' = (IF mem[s] > 0 THEN [heard EXCEPT !.pct = Capped]
                        ELSE heard)
            /\ UNCHANGED <<mem, watch>>
         \/ effect = "track" /\ told' = [heard EXCEPT !.logs = logs]
            /\ mem' = [mem EXCEPT ![s] = 1] /\ UNCHANGED watch
         \/ effect = "file" /\ told' = [heard EXCEPT !.pct = line.n]
            /\ mem' = [mem EXCEPT ![s] = 1] /\ UNCHANGED watch
         \/ effect = "confidence"
            /\ told' = [heard EXCEPT !.logs = logs,
                                     !.conf = RecordAR(line.n)]
            /\ UNCHANGED <<mem, watch>>
         \/ effect = "log-once"
            /\ told' = [heard EXCEPT !.logs = IF mem[s] = 0 THEN logs ELSE @]
            /\ mem' = [mem EXCEPT ![s] = 1] /\ UNCHANGED watch
         \/ effect \in {"log", "substep"}
            /\ told' = [heard EXCEPT !.logs = logs]
            /\ mem' = [mem EXCEPT ![s] = IF T.capped /\ Forwarded(s)
                                         THEN @ + 1 ELSE @]
            /\ watch' = (IF T.watched THEN NoteLog(line.kind) ELSE watch)
         \/ effect \in {"keep", "log-keep", "result"}
            /\ told' = [heard EXCEPT
                          !.result = effect = "result" => line.n = 1,
                          !.logs = IF effect = "log-keep" THEN logs ELSE @]
            /\ UNCHANGED <<mem, watch>>
  BY DEF Handle
<1>5. /\ told.hints \in 0..1 /\ told.conf \in -1..2 /\ told.best \in -1..2
      /\ told.late \in BOOLEAN /\ told.result \in BOOLEAN
      /\ told.pct \in Levels /\ told.logs \in [Streams -> Nat]
  BY <1>1 DEF Tidings
<1>6. /\ logs \in [Streams -> Nat]
      /\ \A r \in Streams \ {s} : logs[r] = told.logs[r]
      /\ Forwarded(s) => logs[s] = told.logs[s] + 1
      /\ ~Forwarded(s) => logs[s] = told.logs[s]
  BY <1>5
<1>7. (IF effect = "confidence" /\ line.n > told.best THEN line.n
       ELSE told.best) \in -1..2
  BY <1>3, <1>5
<1>8. (IF tool = "whipper" /\ Announce(s) THEN told.hints + 1
       ELSE told.hints) \in 0..1
  BY <1>5 DEF Announce
<1>9. /\ heard \in Tidings
      /\ heard.late = (told.late \/ Returned)
      /\ heard.hints = (IF tool = "whipper" /\ told.hints = 0
                        THEN told.hints + 1 ELSE told.hints)
      /\ heard.best = (IF effect = "confidence" /\ line.n > told.best
                       THEN line.n ELSE told.best)
      /\ heard.conf = told.conf /\ heard.logs = told.logs
      /\ heard.pct = told.pct /\ heard.result = told.result
  BY <1>1, <1>7, <1>8 DEF Tidings, Returned, Announce
<1>10. /\ NoteProgress(line.n) \in Watches
       /\ NoteProgress(line.n).dog = watch.dog
       /\ NoteLog(line.kind) \in Watches
       /\ NoteLog(line.kind).dog = watch.dog
  BY <1>1, <1>2, NotesTyped
<1> HIDE DEF line, effect, logs, heard
<1>11. /\ told' \in Tidings /\ told'.hints = heard.hints
       /\ told'.late => told.late \/ Returned
       /\ effect # "confidence" =>
             told'.conf = heard.conf /\ told'.best = heard.best
       /\ told'.logs \in {told.logs, logs}
  <2>1. CASE effect = "drop"
    BY <1>3, <1>4, <1>5, <1>9, <2>1 DEF Tidings
  <2>2. CASE effect \in {"progress", "file"}
    BY <1>2, <1>4, <1>9, <2>2 DEF Tidings
  <2>3. CASE effect = "track-progress"
    <3>1. Capped \in Levels
      BY DEF Capped, Levels, Full
    <3> QED  BY <1>4, <1>9, <2>3, <3>1 DEF Tidings
  <2>4. CASE effect \in {"track", "log-once", "log", "substep"}
    <3>1. \/ told' = [heard EXCEPT !.logs = logs]
          \/ told' = [heard EXCEPT !.logs = told.logs]
      BY <1>4, <1>9, <2>4
    <3> QED  BY <1>5, <1>6, <1>9, <2>4, <3>1 DEF Tidings
  <2>5. CASE effect = "confidence"
    <3>1. RecordAR(line.n) \in -1..2
      BY <1>3, <1>5, <2>5 DEF RecordAR
    <3>2. told' = [heard EXCEPT !.logs = logs, !.conf = RecordAR(line.n)]
      BY <1>4, <2>5
    <3> QED  BY <1>6, <1>9, <2>5, <3>1, <3>2 DEF Tidings
  <2>6. CASE effect \in {"keep", "log-keep", "result"}
    <3>1. PICK b \in BOOLEAN, l \in {told.logs, logs} :
             told' = [heard EXCEPT !.result = b, !.logs = l]
      BY <1>4, <1>9, <2>6
    <3> QED  BY <1>5, <1>6, <1>9, <2>6, <3>1 DEF Tidings
  <2> QED  BY <1>3, <2>1, <2>2, <2>3, <2>4, <2>5, <2>6 DEF Effects
<1>12. told.conf = told.best => told'.conf = told'.best
  <2>1. CASE effect = "confidence"
    <3>1. told' = [heard EXCEPT !.logs = logs, !.conf = RecordAR(line.n)]
      BY <1>4, <2>1
    <3>2. told'.conf = RecordAR(line.n) /\ told'.best = heard.best
      BY <1>9, <3>1 DEF Tidings
    <3> QED  BY <1>3, <1>5, <1>9, <2>1, <3>2 DEF RecordAR
  <2>2. CASE effect # "confidence"
    BY <1>9, <1>11, <2>2
  <2> QED  BY <2>1, <2>2
<1>13. /\ mem' \in [Streams -> Nat]
       /\ \A r \in Streams \ {s} : mem'[r] = mem[r]
       /\ mem'[s] \in {mem[s], mem[s] + 1, 1}
  BY <1>1, <1>3, <1>4 DEF Effects
<1>14. watch' \in Watches /\ watch'.dog = watch.dog
  BY <1>1, <1>3, <1>4, <1>10 DEF Effects
<1>15. ASSUME T.capped
       PROVE  \/ mem'[s] = mem[s] /\ told'.logs[s] = told.logs[s]
              \/ /\ mem'[s] = mem[s] + 1 /\ mem[s] <= LineCap
                 /\ told'.logs[s] = told.logs[s] + 1
  <2>1. CASE effect \in {"progress", "drop"}
    <3>1. mem' = mem /\ told'.logs = told.logs
      BY <1>4, <1>9, <2>1 DEF Tidings
    <3> QED  BY <3>1
  <2>2. CASE effect = "log"
    <3>1. /\ told' = [heard EXCEPT !.logs = logs]
          /\ mem' = [mem EXCEPT ![s] = IF Forwarded(s) THEN @ + 1 ELSE @]
      BY <1>4, <1>15, <2>2
    <3>2. told'.logs = logs
      BY <1>9, <3>1 DEF Tidings
    <3> QED  BY <1>1, <1>6, <1>15, <3>1, <3>2 DEF Forwarded
  <2> QED  BY <1>3, <1>15, <2>1, <2>2
<1>16. /\ \A r \in Streams \ {s} : told'.logs[r] = told.logs[r]
       /\ told'.logs[s] \in {told.logs[s], told.logs[s] + 1}
  BY <1>6, <1>11
<1> QED  BY <1>9, <1>11, <1>12, <1>13, <1>14, <1>15, <1>16

(* A reader handles the line in its hand, by every effect.                  *)
LEMMA HandleKeeps ==
    ASSUME Inv, NEW s \in Streams, Handle(s)
    PROVE  Inv'
<1>1. /\ hand[s] # NoLine /\ hand' = [hand EXCEPT ![s] = NoLine]
      /\ parsed' = [parsed EXCEPT ![s] = @ + 1]
      /\ UNCHANGED <<tool, sized, child, writing, said, pipe, reader, caller,
                     result>>
  BY DEF Handle, fixed, childVars, callVars
<1>2. /\ told' \in Tidings /\ watch' \in Watches
      /\ watch'.dog = watch.dog
      /\ told'.late => told.late \/ Returned
      /\ told'.hints = (IF tool = "whipper" /\ told.hints = 0
                        THEN told.hints + 1 ELSE told.hints)
      /\ told.conf = told.best => told'.conf = told'.best
      /\ mem' \in [Streams -> Nat]
      /\ \A r \in Streams \ {s} :
            mem'[r] = mem[r] /\ told'.logs[r] = told.logs[r]
      /\ mem'[s] \in {mem[s], mem[s] + 1, 1}
      /\ told'.logs[s] \in {told.logs[s], told.logs[s] + 1}
      /\ T.capped =>
            \/ mem'[s] = mem[s] /\ told'.logs[s] = told.logs[s]
            \/ /\ mem'[s] = mem[s] + 1 /\ mem[s] <= LineCap
               /\ told'.logs[s] = told.logs[s] + 1
  BY HandleDoes
<1>3. /\ tool \in DOMAIN Tools /\ hand \in [Streams -> Lines \cup {NoLine}]
      /\ pipe \in [Streams -> Seq(Lines)] /\ parsed \in [Streams -> Nat]
      /\ mem \in [Streams -> Nat] /\ told \in Tidings
      /\ said \in [Streams -> Nat]
  BY DEF Inv, Typed, ChildTyped, ReadersTyped, ToldTyped
<1>4. /\ T' = T /\ Joined' = Joined /\ Joined \subseteq Streams
      /\ Merged' = Merged /\ Lines' = Lines /\ Alive' = Alive
      /\ \A r \in Streams : LinesOf(tool, r)' = LinesOf(tool, r)
  BY <1>1 DEF T, Joined, Merged, Lines, LinesOf, EffectOf, Alive, Streams
<1>5. /\ hand'[s] = NoLine /\ parsed'[s] = parsed[s] + 1
      /\ \A r \in Streams \ {s} : hand'[r] = hand[r] /\ parsed'[r] = parsed[r]
      /\ hand' \in [Streams -> Lines \cup {NoLine}]
      /\ parsed' \in [Streams -> Nat]
  BY <1>1, <1>3
<1>6. reader[s] = "scanning"
  BY <1>1 DEF Inv, Ends
<1>7. Returned => tool = "ddrescue"
  <2>1. ASSUME Returned, tool # "ddrescue"  PROVE  FALSE
    <3>1. Joined = Streams
      BY <1>3, <2>1, ToolFacts DEF T, Joined
    <3>2. reader[s] \in Ended
      BY <2>1, <3>1 DEF Inv, Waited, Returned
    <3> QED  BY <1>6, <3>2 DEF Ended
  <2> QED  BY <2>1
<1>8. ChildTyped' /\ CallerTyped'
  BY <1>1, <1>4 DEF Inv, Typed, ChildTyped, CallerTyped
<1>9. ReadersTyped'
  BY SMTT(30), <1>1, <1>2, <1>4, <1>5 DEF Inv, Typed, ReadersTyped
<1>10. ToldTyped' /\ WatchTyped'
  BY <1>2 DEF ToldTyped, WatchTyped
<1>11. \A r \in Streams : Accounted(r)' = Accounted(r)
  <2>1. ASSUME NEW r \in Streams \ {s}  PROVE  Accounted(r)' = Accounted(r)
    BY <1>1, <1>5 DEF Accounted, InHand
  <2>2. Accounted(s)' = Accounted(s)
    <3>1. InHand(s)' = 0 /\ InHand(s) = 1
      BY <1>1, <1>5 DEF InHand
    <3>2. Len(pipe[s]) \in Nat /\ parsed[s] \in Nat /\ pipe'[s] = pipe[s]
      BY <1>1, <1>3
    <3> QED  BY <1>5, <3>1, <3>2 DEF Accounted
  <2> QED  BY <2>1, <2>2
<1>12. Counts' /\ Heard'
  <2>1. Counts'
    BY <1>1, <1>11 DEF Inv, Counts
  <2>2. Heard'
    BY <1>1, <1>4, <1>11 DEF Inv, Heard
  <2> QED  BY <2>1, <2>2
<1>13. Logged'
  <2>1. ASSUME NEW r \in Streams
        PROVE  /\ mem'[r] <= parsed'[r] /\ told'.logs[r] <= parsed'[r]
               /\ T.capped => told'.logs[r] = mem'[r]
                              /\ mem'[r] <= LineCap + 1
    <3>1. /\ mem[r] <= parsed[r] /\ told.logs[r] <= parsed[r]
          /\ T.capped => told.logs[r] = mem[r] /\ mem[r] <= LineCap + 1
          /\ mem[r] \in Nat /\ told.logs[r] \in Nat /\ parsed[r] \in Nat
          /\ LineCap \in Nat
      BY <1>3, ToolAssumption DEF ToolAssumption, Tidings, Inv, Logged
    <3>2. CASE r = s
      BY <1>2, <1>5, <3>1, <3>2
    <3>3. CASE r # s
      BY <1>2, <1>5, <3>1, <3>3
    <3> QED  BY <3>2, <3>3
  <2> QED  BY <1>4, <2>1 DEF Logged
<1>14. Ends'
  BY <1>1, <1>4, <1>5 DEF Inv, Ends
<1>15. Waited'
  BY <1>1, <1>4 DEF Inv, Waited
<1>16. Aborted' /\ QuietAfterReturn'
  BY <1>1, <1>2, <1>7 DEF Inv, Aborted, QuietAfterReturn
<1>17. WhipperSummary'
  <2>1. ASSUME tool = "whipper"
        PROVE  /\ told'.conf = told'.best /\ told'.hints = 1
               /\ \E r \in Streams : parsed'[r] > 0
    <3>1. told.conf = told.best /\ told.hints \in 0..1
      BY <1>3, <2>1 DEF Inv, WhipperSummary, Tidings
    <3>2. parsed'[s] > 0
      BY <1>3, <1>5
    <3> QED  BY <1>2, <2>1, <3>1, <3>2
  <2> QED  BY <1>1, <2>1 DEF WhipperSummary
<1>18. Settled'
  <2>1. ASSUME Returned, result = "ok", NEW t, t = tool, t = "ddrescue"
        PROVE  child = "ok"
    BY <2>1 DEF Inv, Settled
  <2> QED  BY <1>1, <1>7, <2>1 DEF Inv, Settled, Returned
<1> QED  BY <1>8, <1>9, <1>10, <1>12, <1>13, <1>14, <1>15, <1>16, <1>17,
            <1>18 DEF Inv, Typed

----------------------------------------------------------------------------
(* The caller, its poller and its watchdog.                                 *)

(* The process and the readers stay as they are.                            *)
RunStays ==
    UNCHANGED <<tool, sized, child, writing, said, pipe, reader, hand, mem,
                parsed>>

(* What holds still when only the watchdog or the caller moves.             *)
LEMMA RunStaysThere ==
    ASSUME Inv, RunStays
    PROVE  /\ ChildTyped' /\ ReadersTyped' /\ Counts' /\ Heard' /\ Ends'
           /\ T' = T /\ Joined' = Joined /\ Joined \subseteq Streams
           /\ Alive' = Alive
<1>1. /\ T' = T /\ Joined' = Joined /\ Joined \subseteq Streams
      /\ Merged' = Merged /\ Lines' = Lines /\ Alive' = Alive
      /\ \A r \in Streams : LinesOf(tool, r)' = LinesOf(tool, r)
  BY DEF RunStays, T, Joined, Merged, Lines, LinesOf, EffectOf, Alive,
         Streams
<1>2. ChildTyped' /\ ReadersTyped'
  BY <1>1 DEF Inv, Typed, RunStays, ChildTyped, ReadersTyped
<1>3. \A r \in Streams : Accounted(r)' = Accounted(r)
  BY DEF RunStays, Accounted, InHand
<1>4. Counts'
  BY <1>3 DEF Inv, RunStays, Counts
<1>5. Heard'
  BY <1>1, <1>3 DEF Inv, RunStays, Heard
<1>6. Ends'
  BY <1>1 DEF Inv, RunStays, Ends
<1> QED  BY <1>1, <1>2, <1>4, <1>5, <1>6

(* The mirror polls the size of what it has written.                        *)
LEMMA PollKeeps ==
    ASSUME Inv, PollProgress
    PROVE  Inv'
<1>1. /\ RunStays /\ caller \in {"wait", "join"} /\ tool = "dvdbackup"
      /\ UNCHANGED <<caller, result, watch>>
  BY DEF PollProgress, RunStays, fixed, childVars, callVars
<1>2. PICK pct \in Levels : told' = [told EXCEPT !.pct = pct]
  BY DEF PollProgress, Levels, Capped, Full
<1>3. /\ ChildTyped' /\ ReadersTyped' /\ Counts' /\ Heard' /\ Ends'
      /\ T' = T /\ Joined' = Joined /\ Alive' = Alive
  BY <1>1, RunStaysThere
<1>4. told \in Tidings
  BY DEF Inv, Typed, ToldTyped
<1>5. /\ told' \in Tidings /\ told'.logs = told.logs
      /\ told'.late = told.late /\ told'.conf = told.conf
      /\ told'.best = told.best /\ told'.hints = told.hints
  BY <1>2, <1>4 DEF Tidings
<1>6. ToldTyped' /\ CallerTyped' /\ WatchTyped'
  BY <1>1, <1>5
     DEF Inv, Typed, ToldTyped, CallerTyped, WatchTyped
<1>7. Logged' /\ Aborted' /\ QuietAfterReturn' /\ WhipperSummary'
  BY <1>1, <1>3, <1>5
     DEF Inv, RunStays, Logged, Aborted, QuietAfterReturn, WhipperSummary
<1>8. Waited' /\ Settled'
  BY <1>1, <1>3 DEF Inv, RunStays, Waited, Settled, Returned
<1> QED  BY <1>3, <1>6, <1>7, <1>8 DEF Inv, Typed

(* The caller joins its readers.                                            *)
LEMMA JoinReadersKeeps ==
    ASSUME Inv, JoinReaders
    PROVE  Inv'
<1>1. /\ RunStays /\ caller = "join" /\ UNCHANGED <<told, result>>
      /\ \A s \in Joined : reader[s] \in Ended
      /\ caller' = IF T.order = "wait-join" THEN "return" ELSE "wait"
      /\ watch' = watch
  BY DEF JoinReaders, RunStays, fixed, childVars, readVars, Ended
<1>2. /\ ChildTyped' /\ ReadersTyped' /\ Counts' /\ Heard' /\ Ends'
      /\ T' = T /\ Joined' = Joined /\ Alive' = Alive
  BY <1>1, RunStaysThere
<1>3. /\ watch' \in Watches
      /\ watch.dog = "tripped" => watch'.dog = "tripped"
  BY <1>1 DEF Inv, Typed, WatchTyped, Watches
<1>4. ToldTyped' /\ CallerTyped' /\ WatchTyped'
  BY <1>1, <1>3
     DEF Inv, Typed, ToldTyped, CallerTyped, WatchTyped
<1>5. Logged' /\ Aborted' /\ QuietAfterReturn' /\ WhipperSummary'
  BY <1>1, <1>2, <1>3
     DEF Inv, RunStays, Logged, Aborted, QuietAfterReturn, WhipperSummary
<1>6. Waited' /\ Settled'
  BY <1>1, <1>2 DEF Inv, RunStays, Waited, Settled, Returned
<1> QED  BY <1>2, <1>4, <1>5, <1>6 DEF Inv, Typed

(* The caller waits for the process, and closes its pipes.                  *)
LEMMA WaitChildKeeps ==
    ASSUME Inv, WaitChild
    PROVE  Inv'
<1>1. /\ caller = "wait" /\ ~Alive /\ pipe' = [s \in Streams |-> <<>>]
      /\ caller' = IF T.order = "wait-join" THEN "join" ELSE "return"
      /\ UNCHANGED <<tool, sized, child, writing, said, reader, hand, mem>>
      /\ UNCHANGED <<parsed, told, result, watch>>
  BY DEF WaitChild, fixed, childVars, readVars
<1>2. /\ T' = T /\ Joined' = Joined /\ Joined \subseteq Streams
      /\ Merged' = Merged /\ Lines' = Lines /\ Alive' = Alive
      /\ \A r \in Streams : LinesOf(tool, r)' = LinesOf(tool, r)
  BY <1>1 DEF T, Joined, Merged, Lines, LinesOf, EffectOf, Alive, Streams
<1>3. /\ \A S : <<>> \in Seq(S)
      /\ Len(<<>>) = 0 /\ PipeCap \in Nat
  BY ToolAssumption DEF ToolAssumption
<1>4. ChildTyped' /\ ToldTyped' /\ CallerTyped' /\ WatchTyped'
  BY <1>1, <1>2
     DEF Inv, Typed, ChildTyped, ToldTyped, CallerTyped, WatchTyped
<1>5. ReadersTyped'
  <2>1. /\ pipe' \in [Streams -> Seq(Lines)]
        /\ \A s \in Streams : pipe'[s] \in Seq(LinesOf(tool, s))
                              /\ Len(pipe'[s]) <= PipeCap
    BY <1>1, <1>3
  <2> QED  BY <1>1, <1>2, <2>1 DEF Inv, Typed, ReadersTyped
<1>6. \A s \in Streams : /\ Accounted(s)' <= Accounted(s)
                         /\ Accounted(s) <= said[s] => Accounted(s)' <= said[s]
                         /\ pipe[s] = <<>> => Accounted(s)' = Accounted(s)
  <2> TAKE s \in Streams
  <2>1. /\ parsed[s] \in Nat /\ Len(pipe[s]) \in Nat /\ said[s] \in Nat
        /\ InHand(s) \in Nat /\ InHand(s)' = InHand(s)
        /\ parsed'[s] = parsed[s]
    BY <1>1 DEF Inv, Typed, ChildTyped, ReadersTyped, InHand
  <2>2. Len(pipe'[s]) = 0 /\ (pipe[s] = <<>> => Len(pipe[s]) = 0)
    BY <1>1, <1>3
  <2>3. /\ Accounted(s)' = parsed[s] + 0 + InHand(s)
        /\ Accounted(s) = parsed[s] + Len(pipe[s]) + InHand(s)
    BY <2>1, <2>2 DEF Accounted
  <2> QED  BY SMTT(30), <2>1, <2>2, <2>3
<1>7. Counts'
  BY <1>1, <1>6 DEF Inv, Counts
<1>8. Heard'
  <2>1. ASSUME T.order # "wait-join", NEW s \in Joined,
               reader[s] \in {"scanning", "done"}
        PROVE  Accounted(s)' = said[s]
    <3>1. reader[s] \in Ended
      BY <1>1, <2>1 DEF Inv, Waited
    <3>2. reader[s] = "done"
      BY <2>1, <3>1 DEF Ended
    <3>3. pipe[s] = <<>> /\ s \in Streams
      BY <1>2, <3>2 DEF Inv, Ends
    <3> QED  BY <1>6, <2>1, <3>3 DEF Inv, Heard
  <2> QED  BY <1>1, <1>2, <2>1 DEF Heard
<1>9. Logged' /\ Aborted' /\ QuietAfterReturn' /\ WhipperSummary'
  BY <1>1, <1>2
     DEF Inv, Logged, Aborted, QuietAfterReturn, WhipperSummary
<1>10. Ends'
  BY <1>1, <1>2 DEF Inv, Ends
<1>11. Waited'
  BY <1>1, <1>2 DEF Inv, Waited
<1>12. Settled'
  BY <1>1 DEF Settled, Returned
<1> QED  BY <1>4, <1>5, <1>7, <1>8, <1>9, <1>10, <1>11, <1>12
         DEF Inv, Typed

(* The caller returns its verdict.                                          *)
LEMMA ReturnKeeps ==
    ASSUME Inv, Return
    PROVE  Inv'
<1>1. /\ RunStays /\ caller = "return" /\ caller' = "returned"
      /\ \/ result' = Verdict
         \/ Verdict = "ok" /\ result' = "error"
      /\ told' = IF sized /\ Verdict = "ok"
                 THEN [told EXCEPT !.pct = Full] ELSE told
      /\ watch' = watch
  BY DEF Return, RunStays, fixed, childVars
<1>2. /\ ChildTyped' /\ ReadersTyped' /\ Counts' /\ Heard' /\ Ends'
      /\ T' = T /\ Joined' = Joined /\ Alive' = Alive
  BY <1>1, RunStaysThere
<1>3. told \in Tidings /\ tool \in DOMAIN Tools
  BY DEF Inv, Typed, ToldTyped, ChildTyped
<1>4. /\ told' \in Tidings /\ told'.logs = told.logs
      /\ told'.late = told.late /\ told'.conf = told.conf
      /\ told'.best = told.best /\ told'.hints = told.hints
      /\ told'.result = told.result
      /\ sized /\ Verdict = "ok" => told'.pct = Full
  <2>1. Full \in Levels
    BY DEF Full, Levels
  <2> QED  BY <1>1, <1>3, <2>1 DEF Tidings
<1>5. /\ Verdict \in {"ok", "error", "aborted"}
      /\ watch.dog = "tripped" => Verdict = "aborted"
      /\ Verdict = "ok" =>
            child = "ok" \/ (told.result /\ T.needs = "result")
  <2>1. T.needs \in {"exit", "result", "exit-result"}
    BY <1>3, ToolFacts DEF T
  <2>2. CASE watch.dog = "tripped"
    BY <2>2 DEF Verdict
  <2>3. CASE watch.dog # "tripped"
    BY <2>1, <2>3 DEF Verdict, ExitVerdict
  <2> QED  BY <2>2, <2>3
<1>6. tool = "ddrescue" => T.needs = "exit"
  BY <1>3, ToolFacts DEF T
<1>7. ToldTyped' /\ CallerTyped' /\ WatchTyped'
  BY <1>1, <1>4, <1>5
     DEF Inv, Typed, ToldTyped, CallerTyped, WatchTyped
<1>8. Logged' /\ Aborted' /\ QuietAfterReturn' /\ WhipperSummary'
  BY <1>1, <1>2, <1>4
     DEF Inv, RunStays, Logged, Aborted, QuietAfterReturn, WhipperSummary
<1>9. Waited'
  BY <1>1, <1>2 DEF Inv, RunStays, Waited
<1>10. Settled'
  <2>1. ASSUME child = "aborted"  PROVE  result' = "aborted"
    BY <1>1, <1>5, <2>1 DEF Inv, Aborted
  <2>2. ASSUME result' = "ok"
        PROVE  /\ child = "ok" \/ (told'.result /\ tool # "ddrescue")
               /\ sized => told'.pct = Full
    BY <1>1, <1>4, <1>5, <1>6, <2>2
  <2> QED  BY <1>1, <2>1, <2>2 DEF RunStays, Settled
<1> QED  BY <1>2, <1>7, <1>8, <1>9, <1>10 DEF Inv, Typed

(* The watchdog counts, decides and trips; a trip is never taken back.      *)
LEMMA WatchKeeps ==
    ASSUME Inv, RunStays, UNCHANGED <<told, caller, result>>,
           watch' \in Watches,
           watch.dog = "tripped" => watch'.dog = "tripped"
    PROVE  Inv'
<1>1. /\ ChildTyped' /\ ReadersTyped' /\ Counts' /\ Heard' /\ Ends'
      /\ T' = T /\ Joined' = Joined /\ Alive' = Alive
  BY RunStaysThere
<1>2. ToldTyped' /\ CallerTyped' /\ WatchTyped'
  BY DEF Inv, Typed, ToldTyped, CallerTyped, WatchTyped
<1>3. Logged' /\ Aborted' /\ QuietAfterReturn' /\ WhipperSummary'
  BY <1>1
     DEF Inv, RunStays, Logged, Aborted, QuietAfterReturn, WhipperSummary
<1>4. Waited' /\ Settled'
  BY <1>1 DEF Inv, RunStays, Waited, Settled, Returned
<1> QED  BY <1>1, <1>2, <1>3, <1>4 DEF Inv, Typed

(* The watchdog ticks, trips, or goes.                                      *)
LEMMA DogKeeps ==
    ASSUME Inv, Tick \/ CheckWatch \/ Trip \/ DogLeaves
    PROVE  Inv'
<1>1. RunStays /\ UNCHANGED <<told, caller, result>>
  BY DEF Tick, CheckWatch, Trip, DogLeaves, RunStays, fixed, childVars,
         readVars, callVars
<1>2. watch \in Watches /\ StallTicks \in Nat
  BY ToolAssumption DEF ToolAssumption, Inv, Typed, WatchTyped
<1>3. /\ watch' \in Watches
      /\ watch.dog = "tripped" => watch'.dog = "tripped"
  <2>1. CASE Tick
    <3>1. /\ (IF watch.still < StallTicks THEN watch.still + 1
              ELSE watch.still) \in 0..StallTicks
          /\ (IF watch.idle < StallTicks THEN watch.idle + 1
              ELSE watch.idle) \in 0..StallTicks
      BY <1>2 DEF Watches
    <3> QED  BY <1>2, <2>1, <3>1 DEF Tick, Watches
  <2>2. CASE CheckWatch
    <3>1. AbortReason \in {"none", "boundary", "stalled"}
      BY DEF AbortReason
    <3> QED  BY <1>2, <2>2, <3>1 DEF CheckWatch, Watches
  <2>3. CASE Trip
    BY <1>2, <2>3 DEF Trip, Watches
  <2>4. CASE DogLeaves
    BY <1>2, <2>4 DEF DogLeaves, Watches
  <2> QED  BY <2>1, <2>2, <2>3, <2>4
<1> QED  BY <1>1, <1>3, WatchKeeps

----------------------------------------------------------------------------

(* The initial state satisfies the invariant.                               *)
LEMMA InitInv ==
    Init => Inv
<1> SUFFICES ASSUME Init  PROVE  Inv
  OBVIOUS
<1>1. /\ tool \in DOMAIN Tools /\ child = "running" /\ writing = NoWrite
      /\ pipe = [s \in Streams |-> <<>>]
      /\ said = [s \in Streams |-> 0]
      /\ reader = [s \in Streams |-> IF T.merged /\ s = "err" THEN "done"
                                     ELSE "scanning"]
      /\ hand = [s \in Streams |-> NoLine]
      /\ mem = [s \in Streams |-> 0]
      /\ caller = (IF T.order = "wait-join" THEN "wait" ELSE "join")
      /\ result = "none"
      /\ parsed = [s \in Streams |-> 0]
      /\ told = [pct |-> 0, logs |-> [s \in Streams |-> 0], hints |-> 0,
                 conf |-> -1, best |-> -1, result |-> FALSE, late |-> FALSE]
      /\ sized \in BOOLEAN
      /\ watch = [dog |-> IF T.watched THEN "asleep" ELSE "none",
                  reason |-> "none", retries |-> 0, last |-> 0, still |-> 0,
                  phase |-> 0, idle |-> 0]
  BY DEF Init
<1>2. /\ MaxLines \in Nat /\ PipeCap \in Nat /\ StallTicks \in Nat
      /\ ThrashLimit \in Nat /\ LineCap \in Nat
  BY ToolAssumption DEF ToolAssumption
<1>3. ChildTyped
  BY <1>1 DEF ChildTyped, Children
<1>4. ReadersTyped
  <2>1. (\A S : <<>> \in Seq(S)) /\ Len(<<>>) = 0
    OBVIOUS
  <2>2. reader \in [Streams -> ReaderStates]
    BY <1>1 DEF ReaderStates
  <2> QED  BY <1>1, <1>2, <2>1, <2>2 DEF ReadersTyped
<1>5. ToldTyped
  BY <1>1 DEF ToldTyped, Tidings, Levels, Full
<1>6. CallerTyped /\ WatchTyped
  BY <1>1, <1>2 DEF CallerTyped, WatchTyped, Watches, Levels, Full
<1>7. \A s \in Streams : Accounted(s) = 0 /\ said[s] = 0
  BY <1>1 DEF Accounted, InHand
<1>8. Counts /\ Heard
  <2>1. "out" \in Streams /\ "err" \in Streams /\ Joined \subseteq Streams
    BY DEF Streams, Joined
  <2> QED  BY <1>1, <1>2, <1>7, <2>1 DEF Counts, Heard
<1>9. Logged
  BY <1>1, <1>2 DEF Logged
<1>10. Ends
  BY <1>1 DEF Ends, Merged, NoWrite, Streams
<1>11. Waited /\ Aborted /\ Settled
  BY <1>1 DEF Waited, Aborted, Settled, Returned
<1>12. QuietAfterReturn /\ WhipperSummary
  BY <1>1 DEF QuietAfterReturn, WhipperSummary
<1> QED  BY <1>3, <1>4, <1>5, <1>6, <1>8, <1>9, <1>10, <1>11, <1>12
         DEF Inv, Typed

(* One step per action.                                                     *)
LEMMA NextKeeps ==
    ASSUME Inv, [Next]_vars
    PROVE  Inv'
<1>1. ASSUME NEW s \in Streams, Take(s)  PROVE  Inv'
  BY <1>1, TakeKeeps
<1>2. ASSUME NEW s \in Streams, Handle(s)  PROVE  Inv'
  BY <1>2, HandleKeeps
<1>3. ASSUME NEW s \in Streams, DrainAfterScan(s)  PROVE  Inv'
  BY <1>3, DrainKeeps
<1>4. ASSUME NEW s \in Streams, EndOfFile(s)  PROVE  Inv'
  BY <1>4, EndOfFileKeeps
<1>5. ASSUME NEW s \in Streams, BeginWrite(s)  PROVE  Inv'
  BY <1>5, BeginWriteKeeps
<1>6. CASE EndWrite
  BY <1>6, EndWriteKeeps
<1>7. CASE ExitChild
  BY <1>7, ExitChildKeeps
<1>8. CASE Hang
  BY <1>8, HangKeeps
<1>9. CASE Kill
  BY <1>9, KillKeeps
<1>10. CASE PollProgress
  BY <1>10, PollKeeps
<1>11. CASE JoinReaders
  BY <1>11, JoinReadersKeeps
<1>12. CASE WaitChild
  BY <1>12, WaitChildKeeps
<1>13. CASE Return
  BY <1>13, ReturnKeeps
<1>14. CASE Tick \/ CheckWatch \/ Trip \/ DogLeaves
  BY <1>14, DogKeeps
<1>15. CASE UNCHANGED vars
  <2>1. RunStays /\ UNCHANGED <<told, caller, result, watch>>
    BY <1>15 DEF vars, RunStays
  <2>2. watch \in Watches
    BY DEF Inv, Typed, WatchTyped
  <2> QED  BY <2>1, <2>2, WatchKeeps
<1> QED  BY <1>1, <1>2, <1>3, <1>4, <1>5, <1>6, <1>7, <1>8, <1>9, <1>10,
            <1>11, <1>12, <1>13, <1>14, <1>15 DEF Next

----------------------------------------------------------------------------
(* The invariant holds of the specification.                                *)
THEOREM ToolInvariant == Spec => []Inv
<1>1. Init => Inv
  BY InitInv
<1>2. Inv /\ [Next]_vars => Inv'
  BY NextKeeps
<1> QED  BY <1>1, <1>2, PTL DEF Spec

(* Type correctness; a capped parser logs at most one line more than its    *)
(* cap on a stream, the one that says so.                                   *)
THEOREM TypeCorrect == Spec => []TypeOK
<1>1. Inv => TypeOK
  <2> SUFFICES ASSUME Inv  PROVE  TypeOK
    OBVIOUS
  <2>1. ChildTyped /\ ReadersTyped /\ ToldTyped /\ CallerTyped /\ WatchTyped
    BY DEF Inv, Typed
  <2>2. \A s \in Streams : said[s] \in 0..MaxLines
    <3>1. said["out"] \in Nat /\ said["err"] \in Nat /\ MaxLines \in Nat
      BY <2>1, ToolAssumption DEF ToolAssumption, ChildTyped, Streams
    <3>2. said["out"] + said["err"] <= MaxLines
      BY <3>1 DEF Inv, Counts
    <3> QED  BY <3>1, <3>2 DEF Streams
  <2>3. ASSUME NEW s \in Streams
        PROVE  /\ parsed[s] <= said[s] /\ mem[s] \in 0..MaxLines
               /\ told.logs[s] \in 0..MaxLines
               /\ T.capped => told.logs[s] <= LineCap + 1
    <3>1. /\ parsed[s] \in Nat /\ Len(pipe[s]) \in Nat /\ InHand(s) \in Nat
          /\ mem[s] \in Nat /\ told.logs[s] \in Nat /\ said[s] \in 0..MaxLines
          /\ MaxLines \in Nat
      BY <2>1, <2>2, ToolAssumption
         DEF ToolAssumption, ReadersTyped, ToldTyped, Tidings, InHand
    <3>2. parsed[s] + Len(pipe[s]) + InHand(s) <= said[s]
      BY DEF Inv, Counts, Accounted
    <3>3. parsed[s] <= said[s]
      BY <3>1, <3>2
    <3>4. /\ mem[s] <= parsed[s] /\ told.logs[s] <= parsed[s]
          /\ T.capped => told.logs[s] <= LineCap + 1
      BY DEF Inv, Logged
    <3> QED  BY SMTT(30), <3>1, <3>3, <3>4
  <2>4. /\ told.pct \in Levels /\ {told.conf, told.best} \subseteq -1..2
    BY <2>1 DEF ToldTyped, Tidings
  <2>5. /\ watch.dog \in {"none", "asleep", "tripping", "tripped", "done"}
        /\ watch.reason \in {"none", "boundary", "stalled"}
        /\ watch.still \in 0..StallTicks /\ watch.retries \in 0..ThrashLimit
    BY <2>1 DEF WatchTyped, Watches
  <2>6. \A s \in Streams :
           /\ pipe[s] \in Seq(LinesOf(tool, s)) /\ Len(pipe[s]) <= PipeCap
           /\ reader[s] \in {"scanning", "draining", "done", "cut"}
           /\ hand[s] \in LinesOf(tool, s) \cup {NoLine}
    BY <2>1 DEF ReadersTyped, ReaderStates
  <2> QED  BY <2>1, <2>2, <2>3, <2>4, <2>5, <2>6
           DEF TypeOK, ChildTyped, CallerTyped, Children
<1> QED  BY <1>1, ToolInvariant, PTL

(* When a call returns, all the process wrote has been handled, but for     *)
(* what follows a token too long to scan: cmd.Wait, which closes the pipes, *)
(* is called after the readers are joined.                                  *)
THEOREM AllOutputHeard == Spec => []OutputHeard
<1>1. Inv => OutputHeard
  <2> SUFFICES ASSUME Inv, Returned, tool # "dvdbackup", NEW s \in Joined
               PROVE  parsed[s] = said[s] \/ reader[s] = "cut"
    BY DEF OutputHeard
  <2>1. s \in Streams /\ T.order # "wait-join"
    BY ToolFacts DEF Joined, Streams, T, Inv, Typed, ChildTyped
  <2>2. reader[s] \in Ended
    BY <2>1 DEF Inv, Waited, Returned
  <2>3. CASE reader[s] = "done"
    <3>1. pipe[s] = <<>> /\ hand[s] = NoLine
      BY <2>1, <2>3 DEF Inv, Ends
    <3>2. Accounted(s) = said[s]
      BY <2>1, <2>3 DEF Inv, Heard
    <3>3. Accounted(s) = parsed[s] + 0 + 0 /\ parsed[s] \in Nat
      BY <2>1, <3>1
         DEF Accounted, InHand, Inv, Typed, ReadersTyped
    <3> QED  BY <3>2, <3>3
  <2> QED  BY <2>2, <2>3 DEF Ended
<1> QED  BY <1>1, ToolInvariant, PTL

(* No event reaches the sink after the call has returned, unless by the     *)
(* reader of ddrescue's standard error, which nobody joins.                 *)
THEOREM NothingLate == Spec => []QuietAfterReturn
<1>1. Inv => QuietAfterReturn
  BY DEF Inv
<1> QED  BY <1>1, ToolInvariant, PTL

(* The better verdict on a track survives, by whichever reader and in       *)
(* whatever order it comes, and the start is announced once.                *)
THEOREM SummaryIsBest == Spec => []WhipperSummary
<1>1. Inv => WhipperSummary
  BY DEF Inv
<1> QED  BY <1>1, ToolInvariant, PTL

(* What the watchdog killed is told as aborted; a success is one that the   *)
(* process or its output claims; a mirror that ended well stands at 100.    *)
THEOREM VerdictIsTold == Spec => []VerdictTold
<1>1. Inv => VerdictTold
  BY DEF Inv, Settled, VerdictTold
<1> QED  BY <1>1, ToolInvariant, PTL
=============================================================================
