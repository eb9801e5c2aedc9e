------------------------- MODULE StepEvents_proofs -------------------------
(***************************************************************************)
(* What the step sink stores and what a browser shows agree once a job is  *)
(* over, for every list of steps, every number of reports, every size of   *)
(* the subscriber's channel and every number of connections.               *)
(*                                                                         *)
(* A call of the sink is a script; MainIsThere says at which operation of  *)
(* which script main stands and what it has written so far.  Shown then    *)
(* follows each piece of the row through the channel: either main still    *)
(* has an event of that kind to publish, or the last one in the channel    *)
(* says what the store says, or there is none and what has been read of    *)
(* the row, or is shown of it, says so already.                            *)
(***************************************************************************)
EXTENDS StepEvents, SequenceTheorems, TLAPS

(* What flows: rows, the browser's copies of them, operations and events.   *)
States == {"queued", "running", "done", "failed"}
StepStates == {"pending", "running", "done", "failed"}
Rows == [state : States, step : Steps \cup {NoStep}, pct : 0..Full,
         sub : {NoSubStep, "phase"}]
Copies == [state : States, step : Steps \cup {NoStep}, pct : 0..Full,
           sub : {NoSubStep, "phase"}, steps : [Steps -> StepStates]]

StepEvents(s) == {StepEvent(s, st) : st \in StepStates}
ProgressEvents == {ProgressEvent(s, p) : s \in Steps, p \in 0..Full}
FieldEvents == ProgressEvents \cup UNION {StepEvents(s) : s \in Steps}
SubEvents == {SubStepEvent("phase")} \cup {StepEvent(s, "done") : s \in Steps}
EndEvents == {EndEvent(st) : st \in Terminal}
Events == FieldEvents \cup {SubStepEvent("phase"), LogEvent} \cup EndEvents

Sections == {"begin", "leave", "flush", "report", "log"}
LockedOps == {Locked(w, s, p) : w \in Sections, s \in Steps, p \in 0..Full}
Ops == {StepRow(s, st) : s \in Steps, st \in StepStates}
       \cup {ActiveStep(s) : s \in Steps}
       \cup {Progress(s, p) : s \in Steps, p \in 0..Full}
       \cup {SubStep(n) : n \in {NoSubStep, "phase"}}
       \cup {JobState(st) : st \in States}
       \cup {Publish(ev) : ev \in Events}
       \cup LockedOps

JobTyped ==
    /\ row \in Rows /\ steps \in [Steps -> StepStates]
    /\ current \in Steps \cup {NoStep}
    /\ pending \in [step : Steps \cup {NoStep}, pct : 0..Full]
    /\ misfiled \in BOOLEAN
TodoTyped == todo \in [Actors -> Seq(Ops)]
MainTyped ==
    /\ at \in 1..Len(JobSteps) + 1 /\ reports \in 0..MaxReports
    /\ phase \in {"queued", "between", "reading", "joined", "leaving", "over"}
StreamTyped ==
    /\ chan \in Seq(Events) /\ Len(chan) <= Buffer
    /\ sub \in {"none", "open", "closed"} /\ closes \in 0..1
    /\ sub = "open" => closes = 0
WebTyped ==
    /\ link \in {"down", "subscribed", "active-read", "jobs-read",
                "streaming"}
    /\ snap \in Seq(Rows) /\ view \in Seq(Copies) /\ Len(view) <= 2
    /\ Len(snap) <= 2 /\ (link = "active-read" => Len(snap) <= 1)
    /\ link \in {"subscribed", "down", "streaming"} => snap = <<>>
    /\ dials \in 0..MaxConnections /\ blank \in BOOLEAN
Typed == JobTyped /\ TodoTyped /\ MainTyped /\ StreamTyped /\ WebTyped

(* What is left of a script from its k-th operation.                        *)
Rest(script, k) == SubSeq(script, k, Len(script))
Left == todo["main"]
Ended == JobSteps[at - 1]
OfStep(s) == pending = NoProgress \/ pending.step = s

(* Main is at the k-th operation of the call its phase has begun.           *)
AtQueued == Left = <<>> /\ row.state = "queued" /\ pending = NoProgress
AtStarted(k) ==
    /\ at = 1 /\ Left = Rest(<<JobState("running")>>, k)
    /\ pending = NoProgress /\ row.state \in {"queued", "running"}
AtStart(k) ==
    /\ Left = Rest(OnStepStart(Here), k)
    /\ IF k <= 4 THEN pending = NoProgress ELSE OfStep(Here) /\ current = Here
    /\ k >= 2 => steps[Here] = "running"
    /\ k >= 3 => row.step = Here
AtDone(k) ==
    /\ Left = Rest(OnStepDone(Ended), k)
    /\ IF k <= 2 THEN OfStep(Ended) ELSE pending = NoProgress
    /\ steps[Ended] = (IF k <= 6 THEN "running" ELSE "done")
    /\ row.step = Ended
    /\ k >= 2 => row.sub = NoSubStep
    /\ k >= 4 => row.pct = Full
AtFlush(k) ==
    /\ \E p \in 0..Full :
          Left =
             Rest(FlushProgress(Ended, p), k) \o Rest(OnStepDone(Ended), 3)
    /\ pending = NoProgress
    /\ steps[Ended] = "running" /\ row.step = Ended /\ row.sub = NoSubStep
AtFailed(k) ==
    /\ Left = Rest(OnStepFailed(Here), k)
    /\ steps[Here] = (IF k <= 2 THEN "running" ELSE "failed")
    /\ row.step = Here
AtEnd(st, k) ==
    /\ Left = Rest(Finish(st), k)
    /\ IF k = 1 THEN row.state \notin Terminal ELSE row.state = st
    /\ st = "done" => row.pct = Full /\ row.sub = NoSubStep

MainIsThere ==
    /\ phase = "queued" => at = 1 /\ AtQueued
    /\ phase = "between" =>
          \/ \E k \in 1..2 : AtStarted(k)
          \/ at > 1 /\ \E k \in 1..8 : AtDone(k)
          \/ at > 1 /\ \E k \in 1..2 : AtFlush(k)
    /\ phase = "reading" => at <= Len(JobSteps) /\ \E k \in 1..7 : AtStart(k)
    /\ phase = "joined" => at <= Len(JobSteps) /\ AtStart(7)
    /\ phase = "leaving" => at <= Len(JobSteps) /\ \E k \in 1..4 : AtFailed(k)
    /\ phase = "over" => \E st \in Terminal, k \in 1..3 : AtEnd(st, k)
    /\ row.state \in Terminal => phase = "over"

(* A reader calls for the step that runs, and only while main waits.        *)
ReaderCalls(s) ==
    {OnProgress(s, p) : p \in 0..Full}
    \cup {FlushProgress(s, p) : p \in 0..Full}
    \cup {<<Publish(ProgressEvent(s, p))>> : p \in 0..Full}
    \cup {OnSubStep("phase"), <<Publish(SubStepEvent("phase"))>>, OnLog(s),
          <<Publish(LogEvent)>>}
ReadersAreThere ==
    \A r \in Readers : todo[r] # <<>> =>
        phase = "reading" /\ Left = <<>> /\ todo[r] \in ReaderCalls(Here)

(* The last event of a kind in a channel is one of those wanted; there is   *)
(* no event of that kind.                                                   *)
LastOf(c, kind, wanted) ==
    \E i \in DOMAIN c : /\ c[i] \in wanted
                        /\ \A j \in DOMAIN c : j > i => c[j] \notin kind
NoneOf(c, kind) == \A i \in DOMAIN c : c[i] \notin kind

(* The copies of the row that have been read or are shown.                  *)
Copied ==
    IF link \in {"active-read", "jobs-read"}
    THEN {snap[k] : k \in DOMAIN snap}
    ELSE IF link = "streaming" THEN {view[k] : k \in DOMAIN view} ELSE {}

(* What the browser has, or will have with the channel's events, is what    *)
(* the store says: as soon as main has published what it last wrote.        *)
Shows(kind, wanted, good) ==
    LastOf(chan, kind, wanted) \/ (NoneOf(chan, kind) /\ good)

StepPending(s) ==
    \/ phase = "reading" /\ Len(Left) >= 2 /\ s = Here
    \/ phase = "between" /\ at > 1 /\ Len(Left) >= 1 /\ s = Ended
    \/ phase = "leaving" /\ Len(Left) >= 1 /\ s = Here
StepShown(s) ==
    Shows(StepEvents(s), {StepEvent(s, steps[s])},
          link = "streaming" =>
              \A k \in DOMAIN view : view[k].steps[s] = steps[s])

FieldPending ==
    /\ phase \in {"reading", "between", "leaving"} /\ Len(Left) >= 1
    /\ phase = "between" => at > 1
FieldShown ==
    Shows(FieldEvents, {e \in FieldEvents : e.step = row.step},
          \A c \in Copied : c.step = row.step)

Succeeds == phase = "over" /\ (row.state = "done" \/ Left = Finish("done"))
PctClaimed == Succeeds \/ (phase = "between" /\ at > 1 /\ Len(Left) <= 3)
PctShown ==
    Shows(ProgressEvents, {e \in ProgressEvents : e.pct = Full},
          \A c \in Copied : c.pct = Full)

SubClaimed == Succeeds \/ (phase = "between" /\ at > 1 /\ Left = <<>>)
SubShown ==
    Shows(SubEvents, {StepEvent(s, "done") : s \in Steps},
          \A c \in Copied : c.sub = NoSubStep)

StateShown ==
    Shows(EndEvents, {EndEvent(row.state)},
          \A c \in Copied : c.state = row.state)

Shown ==
    sub = "open" =>
        /\ \A s \in Steps : StepPending(s) \/ StepShown(s)
        /\ FieldPending \/ FieldShown
        /\ PctClaimed => PctShown
        /\ SubClaimed => SubShown
        /\ phase = "over" /\ Left = <<>> => StateShown

(* The job is in every snapshot that could be read.                         *)
Found ==
    /\ link = "active-read" => snap # <<>> \/ row.state \in Terminal
    /\ link = "jobs-read" => snap # <<>>
    /\ link = "streaming" /\ ~blank => view # <<>>

Core ==
    Typed /\ MainIsThere /\ ReadersAreThere /\ DoneIsFull /\ LogsAttributed
Inv == Core /\ Shown /\ Found

----------------------------------------------------------------------------
(* Sequences.                                                               *)
LEMMA RestStep ==
    ASSUME NEW T, NEW script \in Seq(T), NEW k \in 1..Len(script)
    PROVE  /\ Rest(script, k) \in Seq(T) /\ Rest(script, k) # <<>>
           /\ Len(Rest(script, k)) = Len(script) - k + 1
           /\ Head(Rest(script, k)) = script[k]
           /\ Tail(Rest(script, k)) = Rest(script, k + 1)
<1>1. Len(script) \in Nat /\ k \in Int /\ Len(script) \in Int
  OBVIOUS
<1>2. \A i \in k..Len(script) : script[i] \in T
  BY ElementOfSeq
<1>3. /\ Rest(script, k) \in Seq(T)
      /\ Len(Rest(script, k)) = Len(script) - k + 1
  BY <1>1, <1>2, SubSeqProperties DEF Rest
<1>4. Rest(script, k) # <<>>
  BY <1>1, <1>3, EmptySeq
<1>5. /\ Head(Rest(script, k)) = script[k]
      /\ Tail(Rest(script, k)) = Rest(script, k + 1)
  BY <1>1, HeadTailOfSubSeq DEF Rest
<1> QED  BY <1>3, <1>4, <1>5

(* Nothing is left after the last entry.                                    *)
LEMMA RestIsEmpty ==
    ASSUME NEW T, NEW script \in Seq(T)
    PROVE  Rest(script, Len(script) + 1) = <<>>
<1>1. Len(script) \in Int /\ Len(script) + 1 \in Int
  OBVIOUS
<1> QED  BY <1>1, SubSeqEmpty DEF Rest

(* All is left from the first entry on.                                     *)
LEMMA RestIsAll ==
    ASSUME NEW T, NEW script \in Seq(T)
    PROVE  Rest(script, 1) = script
BY SubSeqFull DEF Rest

(* What stands before a sequence is taken off first.                        *)
LEMMA TailOfTwo ==
    ASSUME NEW T, NEW a \in T, NEW b \in T, NEW t \in Seq(T)
    PROVE  /\ <<a, b>> \o t \in Seq(T) /\ <<a, b>> \o t # <<>>
           /\ Head(<<a, b>> \o t) = a
           /\ Tail(<<a, b>> \o t) = <<b>> \o t
           /\ Len(<<a, b>> \o t) = Len(t) + 2
<1>1. <<a, b>> \in Seq(T) /\ Len(<<a, b>>) = 2 /\ <<a, b>>[1] = a
      /\ <<a, b>>[2] = b
  OBVIOUS
<1>2. <<b>> \in Seq(T) /\ Len(<<b>>) = 1 /\ <<b>>[1] = b
  OBVIOUS
<1>3. /\ <<a, b>> \o t \in Seq(T) /\ Len(<<a, b>> \o t) = Len(t) + 2
      /\ \A i \in 1..Len(t) + 2 :
            (<<a, b>> \o t)[i] = IF i <= 2 THEN <<a, b>>[i] ELSE t[i - 2]
  BY <1>1, ConcatProperties
<1>4. /\ <<b>> \o t \in Seq(T) /\ Len(<<b>> \o t) = Len(t) + 1
      /\ \A i \in 1..Len(t) + 1 :
            (<<b>> \o t)[i] = IF i <= 1 THEN <<b>>[i] ELSE t[i - 1]
  BY <1>2, ConcatProperties
<1>5. <<a, b>> \o t # <<>> /\ Len(t) \in Nat
  BY <1>3, EmptySeq
<1>6. Head(<<a, b>> \o t) = a
  BY <1>1, <1>3, <1>5
<1>7. /\ Tail(<<a, b>> \o t) \in Seq(T)
      /\ Len(Tail(<<a, b>> \o t)) = Len(t) + 1
      /\ \A i \in 1..Len(t) + 1 :
            Tail(<<a, b>> \o t)[i] = (<<a, b>> \o t)[i + 1]
  BY <1>3, <1>5, HeadTailProperties
<1>8. \A i \in 1..Len(t) + 1 : Tail(<<a, b>> \o t)[i] = (<<b>> \o t)[i]
  BY <1>1, <1>2, <1>3, <1>4, <1>5, <1>7
<1>9. Tail(<<a, b>> \o t) = <<b>> \o t
  BY <1>4, <1>7, <1>8, SeqEqual
<1> QED  BY <1>3, <1>5, <1>6, <1>9

(* The head and the tail of what starts with one entry.                     *)
LEMMA TailOfOne ==
    ASSUME NEW T, NEW a \in T, NEW t \in Seq(T)
    PROVE  /\ <<a>> \o t \in Seq(T) /\ <<a>> \o t # <<>>
           /\ Head(<<a>> \o t) = a /\ Tail(<<a>> \o t) = t
           /\ Len(<<a>> \o t) = Len(t) + 1
<1>2. <<a>> \in Seq(T) /\ Len(<<a>>) = 1 /\ <<a>>[1] = a
  OBVIOUS
<1>4. /\ <<a>> \o t \in Seq(T) /\ Len(<<a>> \o t) = Len(t) + 1
      /\ \A i \in 1..Len(t) + 1 :
            (<<a>> \o t)[i] = IF i <= 1 THEN <<a>>[i] ELSE t[i - 1]
  BY <1>2, ConcatProperties
<1>5. <<a>> \o t # <<>> /\ Len(t) \in Nat
  BY <1>4, EmptySeq
<1>6. Head(<<a>> \o t) = a
  BY <1>2, <1>4, <1>5
<1>7. /\ Tail(<<a>> \o t) \in Seq(T)
      /\ Len(Tail(<<a>> \o t)) = Len(t)
      /\ \A i \in 1..Len(t) : Tail(<<a>> \o t)[i] = (<<a>> \o t)[i + 1]
  BY <1>4, <1>5, HeadTailProperties
<1>8. \A i \in 1..Len(t) : Tail(<<a>> \o t)[i] = t[i]
  BY <1>4, <1>5, <1>7
<1>9. Tail(<<a>> \o t) = t
  BY <1>7, <1>8, SeqEqual
<1> QED  BY <1>4, <1>5, <1>6, <1>9

(* Two sequences joined.                                                    *)
LEMMA Joined ==
    ASSUME NEW T, NEW c \in Seq(T), NEW d \in Seq(T)
    PROVE  c \o d \in Seq(T) /\ Len(c \o d) = Len(c) + Len(d)
BY ConcatProperties

(* The sequences a tuple writes.                                            *)
LEMMA OneOf ==
    ASSUME NEW T, NEW a \in T
    PROVE  <<a>> \in Seq(T) /\ Len(<<a>>) = 1 /\ <<a>>[1] = a
OBVIOUS

(* A pair.                                                                  *)
LEMMA TwoOf ==
    ASSUME NEW T, NEW a \in T, NEW b \in T
    PROVE  <<a, b>> \in Seq(T) /\ Len(<<a, b>>) = 2
           /\ <<a, b>>[1] = a /\ <<a, b>>[2] = b
OBVIOUS

(* A triple.                                                                *)
LEMMA ThreeOf ==
    ASSUME NEW T, NEW a \in T, NEW b \in T, NEW c \in T
    PROVE  <<a, b, c>> \in Seq(T) /\ Len(<<a, b, c>>) = 3
           /\ <<a, b, c>>[1] = a /\ <<a, b, c>>[2] = b /\ <<a, b, c>>[3] = c
OBVIOUS

(* Six entries.                                                             *)
LEMMA SixOf ==
    ASSUME NEW T, NEW a \in T, NEW b \in T, NEW c \in T, NEW d \in T,
           NEW e \in T, NEW f \in T, NEW q, q = <<a, b, c, d, e, f>>
    PROVE  q \in Seq(T) /\ Len(q) = 6 /\ q[1] = a /\ q[2] = b /\ q[3] = c
           /\ q[4] = d /\ q[5] = e /\ q[6] = f
OBVIOUS

(* Seven entries.                                                           *)
LEMMA SevenOf ==
    ASSUME NEW T, NEW a \in T, NEW b \in T, NEW c \in T, NEW d \in T,
           NEW e \in T, NEW f \in T, NEW g \in T,
           NEW q, q = <<a, b, c, d, e, f, g>>
    PROVE  q \in Seq(T) /\ Len(q) = 7 /\ q[1] = a /\ q[2] = b /\ q[3] = c
           /\ q[4] = d /\ q[5] = e /\ q[6] = f /\ q[7] = g
OBVIOUS

----------------------------------------------------------------------------
(* The events and the operations a job can give rise to.                    *)
LEMMA EventsThere ==
    /\ \A s \in Steps, st \in StepStates : StepEvent(s, st) \in Events
    /\ \A s \in Steps, p \in 0..Full : ProgressEvent(s, p) \in Events
    /\ SubStepEvent("phase") \in Events /\ LogEvent \in Events
    /\ \A st \in Terminal : EndEvent(st) \in Events
<1>1. ASSUME NEW s \in Steps, NEW st \in StepStates
      PROVE  StepEvent(s, st) \in Events
  BY <1>1 DEF Events, FieldEvents, StepEvents
<1>2. ASSUME NEW s \in Steps, NEW p \in 0..Full
      PROVE  ProgressEvent(s, p) \in Events
  BY <1>2 DEF Events, FieldEvents, ProgressEvents
<1>3. SubStepEvent("phase") \in Events /\ LogEvent \in Events
  BY DEF Events
<1>4. ASSUME NEW st \in Terminal  PROVE  EndEvent(st) \in Events
  BY <1>4 DEF Events, EndEvents
<1> QED  BY <1>1, <1>2, <1>3, <1>4

(* Every entry of a script is an operation.                                 *)
LEMMA OpsThere ==
    /\ \A s \in Steps, st \in StepStates : StepRow(s, st) \in Ops
    /\ \A s \in Steps : ActiveStep(s) \in Ops
    /\ \A s \in Steps, p \in 0..Full : Progress(s, p) \in Ops
    /\ \A n \in {NoSubStep, "phase"} : SubStep(n) \in Ops
    /\ \A st \in States : JobState(st) \in Ops
    /\ \A ev \in Events : Publish(ev) \in Ops
    /\ \A w \in Sections, s \in Steps, p \in 0..Full : Locked(w, s, p) \in Ops
<1>1. ASSUME NEW s \in Steps, NEW st \in StepStates
      PROVE  StepRow(s, st) \in Ops
  <2>1. StepRow(s, st) \in {StepRow(x, y) : x \in Steps, y \in StepStates}
    OBVIOUS
  <2> QED  BY <2>1 DEF Ops
<1>2. ASSUME NEW s \in Steps  PROVE  ActiveStep(s) \in Ops
  <2>1. ActiveStep(s) \in {ActiveStep(x) : x \in Steps}
    OBVIOUS
  <2> QED  BY <2>1 DEF Ops
<1>3. ASSUME NEW s \in Steps, NEW p \in 0..Full  PROVE  Progress(s, p) \in Ops
  <2>1. Progress(s, p) \in {Progress(x, y) : x \in Steps, y \in 0..Full}
    OBVIOUS
  <2> QED  BY <2>1 DEF Ops
<1>4. ASSUME NEW n \in {NoSubStep, "phase"}  PROVE  SubStep(n) \in Ops
  <2>1. SubStep(n) \in {SubStep(x) : x \in {NoSubStep, "phase"}}
    OBVIOUS
  <2> QED  BY <2>1 DEF Ops
<1>5. ASSUME NEW st \in States  PROVE  JobState(st) \in Ops
  <2>1. JobState(st) \in {JobState(x) : x \in States}
    OBVIOUS
  <2> QED  BY <2>1 DEF Ops
<1>6. ASSUME NEW ev \in Events  PROVE  Publish(ev) \in Ops
  <2>1. Publish(ev) \in {Publish(x) : x \in Events}
    OBVIOUS
  <2> QED  BY <2>1 DEF Ops
<1>7. ASSUME NEW w \in Sections, NEW s \in Steps, NEW p \in 0..Full
      PROVE  Locked(w, s, p) \in Ops
  <2>1. Locked(w, s, p) \in LockedOps
    BY DEF LockedOps
  <2> QED  BY <2>1 DEF Ops
<1> QED  BY <1>1, <1>2, <1>3, <1>4, <1>5, <1>6, <1>7

(* The calls of the sink, operation by operation.                           *)
LEMMA StartScript ==
    ASSUME NEW s \in Steps, NEW q, q = OnStepStart(s)
    PROVE  /\ q \in Seq(Ops) /\ Len(q) = 6
           /\ q[1] = StepRow(s, "running") /\ q[2] = ActiveStep(s)
           /\ q[3] = Progress(s, 0) /\ q[4] = Locked("begin", s, 0)
           /\ q[5] = Publish(StepEvent(s, "running"))
           /\ q[6] = Publish(ProgressEvent(s, 0))
<1>1. 0 \in 0..Full /\ "running" \in StepStates
  BY DEF Full, StepStates
<1>2. /\ StepRow(s, "running") \in Ops /\ ActiveStep(s) \in Ops
      /\ Progress(s, 0) \in Ops /\ Locked("begin", s, 0) \in Ops
      /\ Publish(StepEvent(s, "running")) \in Ops
      /\ Publish(ProgressEvent(s, 0)) \in Ops
  BY <1>1, OpsThere, EventsThere DEF Sections
<1> QED  BY <1>2, SixOf DEF OnStepStart

(* The script that ends a step well.                                        *)
LEMMA DoneScript ==
    ASSUME NEW s \in Steps, NEW q, q = OnStepDone(s)
    PROVE  /\ q \in Seq(Ops) /\ Len(q) = 7
           /\ q[1] = SubStep(NoSubStep) /\ q[2] = Locked("flush", s, 0)
           /\ q[3] = Progress(s, Full)
           /\ q[4] = Publish(ProgressEvent(s, Full))
           /\ q[5] = Locked("leave", s, 0) /\ q[6] = StepRow(s, "done")
           /\ q[7] = Publish(StepEvent(s, "done"))
<1>1. 0 \in 0..Full /\ Full \in 0..Full /\ "done" \in StepStates
      /\ NoSubStep \in {NoSubStep, "phase"}
  BY DEF Full, StepStates
<1>2. /\ SubStep(NoSubStep) \in Ops /\ Locked("flush", s, 0) \in Ops
      /\ Progress(s, Full) \in Ops /\ Publish(ProgressEvent(s, Full)) \in Ops
      /\ Locked("leave", s, 0) \in Ops /\ StepRow(s, "done") \in Ops
      /\ Publish(StepEvent(s, "done")) \in Ops
  BY <1>1, OpsThere, EventsThere DEF Sections
<1> QED  BY <1>2, SevenOf DEF OnStepDone

(* The script that ends a step badly.                                       *)
LEMMA FailedScript ==
    ASSUME NEW s \in Steps, NEW q, q = OnStepFailed(s)
    PROVE  /\ q \in Seq(Ops) /\ Len(q) = 3
           /\ q[1] = Locked("leave", s, 0) /\ q[2] = StepRow(s, "failed")
           /\ q[3] = Publish(StepEvent(s, "failed"))
<1>1. 0 \in 0..Full /\ "failed" \in StepStates
  BY DEF Full, StepStates
<1>2. /\ Locked("leave", s, 0) \in Ops /\ StepRow(s, "failed") \in Ops
      /\ Publish(StepEvent(s, "failed")) \in Ops
  BY <1>1, OpsThere, EventsThere DEF Sections
<1> QED  BY <1>2, ThreeOf DEF OnStepFailed

(* The script that ends the job.                                            *)
LEMMA EndScript ==
    ASSUME NEW st \in Terminal, NEW q, q = Finish(st)
    PROVE  /\ q \in Seq(Ops) /\ Len(q) = 2
           /\ q[1] = JobState(st) /\ q[2] = Publish(EndEvent(st))
<1>1. st \in States
  BY DEF Terminal, States
<1>2. JobState(st) \in Ops /\ Publish(EndEvent(st)) \in Ops
  BY <1>1, OpsThere, EventsThere
<1> QED  BY <1>2, TwoOf DEF Finish

(* The script that writes a pending percentage.                             *)
LEMMA FlushScript ==
    ASSUME NEW s \in Steps, NEW p \in 0..Full, NEW q, q = FlushProgress(s, p)
    PROVE  /\ q \in Seq(Ops) /\ Len(q) = 2
           /\ q[1] = Progress(s, p) /\ q[2] = Publish(ProgressEvent(s, p))
<1>2. Progress(s, p) \in Ops /\ Publish(ProgressEvent(s, p)) \in Ops
  BY OpsThere, EventsThere
<1> QED  BY <1>2, TwoOf DEF FlushProgress

(* The script that starts the job.                                          *)
LEMMA StartedScript ==
    ASSUME NEW q, q = <<JobState("running")>>
    PROVE  q \in Seq(Ops) /\ Len(q) = 1 /\ q[1] = JobState("running")
<1>1. "running" \in States
  BY DEF States
<1>2. JobState("running") \in Ops
  BY <1>1, OpsThere
<1> QED  BY <1>2, OneOf

----------------------------------------------------------------------------
(* What an operation does when an actor performs it.                        *)

(* The actor has one operation less to perform, the others what they had.   *)
Onward(a) ==
    /\ TodoTyped' /\ todo'[a] = Tail(todo[a])
    /\ \A b \in Actors \ {a} : todo'[b] = todo[b]
Elsewhere == UNCHANGED <<at, phase, reports, link, snap, view, blank, dials>>
SinkStays == UNCHANGED <<current, pending, misfiled>>
StreamStays == UNCHANGED <<chan, sub, closes>>

(* An entry done, and nothing put in its place.                             *)
LEMMA OneLess ==
    ASSUME TodoTyped, NEW a \in Actors, todo[a] # <<>>,
           todo' = [todo EXCEPT ![a] = <<>> \o Tail(@)]
    PROVE  Onward(a)
<1>1. todo[a] \in Seq(Ops) /\ Tail(todo[a]) \in Seq(Ops)
  BY HeadTailProperties DEF TodoTyped
<1>2. <<>> \o Tail(todo[a]) = Tail(todo[a])
  BY <1>1, ConcatEmptySeq
<1>3. todo' = [todo EXCEPT ![a] = Tail(todo[a])]
  BY <1>2
<1> QED  BY <1>1, <1>3 DEF Onward, TodoTyped

(* What writing a step's row does.                                          *)
LEMMA DoesStepRow ==
    ASSUME JobTyped, TodoTyped, NEW a \in Actors, Do(a), NEW s \in Steps,
           NEW st \in StepStates, Head(todo[a]) = StepRow(s, st)
    PROVE  /\ Onward(a) /\ JobTyped' /\ Elsewhere /\ SinkStays /\ StreamStays
           /\ row' = row /\ steps' = [steps EXCEPT ![s] = st]
<1> DEFINE op == Head(todo[a])
<1>1. op.op = "step-row" /\ op.step = s /\ op.state = st
  BY DEF StepRow
<1>2. /\ todo[a] # <<>> /\ todo' = [todo EXCEPT ![a] = <<>> \o Tail(@)]
      /\ Write(op) /\ UNCHANGED <<sinkVars, misfiled, streamVars>>
      /\ UNCHANGED <<mainVars, webVars>>
  BY <1>1 DEF Do, Writes
<1>3. row' = row /\ steps' = [steps EXCEPT ![s] = st]
  BY <1>1, <1>2 DEF Write
<1>4. JobTyped'
  BY <1>2, <1>3 DEF JobTyped, sinkVars
<1> QED  BY <1>2, <1>3, <1>4, OneLess
         DEF Elsewhere, SinkStays, StreamStays, sinkVars, streamVars,
             mainVars, webVars

(* What writing the active step does.                                       *)
LEMMA DoesActiveStep ==
    ASSUME JobTyped, TodoTyped, NEW a \in Actors, Do(a), NEW s \in Steps,
           Head(todo[a]) = ActiveStep(s)
    PROVE  /\ Onward(a) /\ JobTyped' /\ Elsewhere /\ SinkStays /\ StreamStays
           /\ row' = [row EXCEPT !.step = s] /\ steps' = steps
<1> DEFINE op == Head(todo[a])
<1>1. op.op = "active-step" /\ op.step = s
  BY DEF ActiveStep
<1>2. /\ todo[a] # <<>> /\ todo' = [todo EXCEPT ![a] = <<>> \o Tail(@)]
      /\ Write(op) /\ UNCHANGED <<sinkVars, misfiled, streamVars>>
      /\ UNCHANGED <<mainVars, webVars>>
  BY <1>1 DEF Do, Writes
<1>3. row' = [row EXCEPT !.step = s] /\ steps' = steps
  BY <1>1, <1>2 DEF Write
<1>4. JobTyped'
  BY <1>2, <1>3 DEF JobTyped, sinkVars, Rows
<1> QED  BY <1>2, <1>3, <1>4, OneLess
         DEF Elsewhere, SinkStays, StreamStays, sinkVars, streamVars,
             mainVars, webVars

(* What writing a percentage does.                                          *)
LEMMA DoesProgress ==
    ASSUME JobTyped, TodoTyped, NEW a \in Actors, Do(a), NEW s \in Steps,
           NEW p \in 0..Full, Head(todo[a]) = Progress(s, p)
    PROVE  /\ Onward(a) /\ JobTyped' /\ Elsewhere /\ SinkStays /\ StreamStays
           /\ row' = [row EXCEPT !.step = s, !.pct = p] /\ steps' = steps
<1> DEFINE op == Head(todo[a])
<1>1. op.op = "progress" /\ op.step = s /\ op.pct = p
  BY DEF Progress
<1>2. /\ todo[a] # <<>> /\ todo' = [todo EXCEPT ![a] = <<>> \o Tail(@)]
      /\ Write(op) /\ UNCHANGED <<sinkVars, misfiled, streamVars>>
      /\ UNCHANGED <<mainVars, webVars>>
  BY <1>1 DEF Do, Writes
<1>3. row' = [row EXCEPT !.step = s, !.pct = p] /\ steps' = steps
  BY <1>1, <1>2 DEF Write
<1>4. JobTyped'
  BY <1>2, <1>3 DEF JobTyped, sinkVars, Rows
<1> QED  BY <1>2, <1>3, <1>4, OneLess
         DEF Elsewhere, SinkStays, StreamStays, sinkVars, streamVars,
             mainVars, webVars

(* What writing the sub-step does.                                          *)
LEMMA DoesSubStep ==
    ASSUME JobTyped, TodoTyped, NEW a \in Actors, Do(a),
           NEW n \in {NoSubStep, "phase"}, Head(todo[a]) = SubStep(n)
    PROVE  /\ Onward(a) /\ JobTyped' /\ Elsewhere /\ SinkStays /\ StreamStays
           /\ row' = [row EXCEPT !.sub = n] /\ steps' = steps
<1> DEFINE op == Head(todo[a])
<1>1. op.op = "sub-step" /\ op.name = n
  BY DEF SubStep
<1>2. /\ todo[a] # <<>> /\ todo' = [todo EXCEPT ![a] = <<>> \o Tail(@)]
      /\ Write(op) /\ UNCHANGED <<sinkVars, misfiled, streamVars>>
      /\ UNCHANGED <<mainVars, webVars>>
  BY <1>1 DEF Do, Writes
<1>3. row' = [row EXCEPT !.sub = n] /\ steps' = steps
  BY <1>1, <1>2 DEF Write
<1>4. JobTyped'
  BY <1>2, <1>3 DEF JobTyped, sinkVars, Rows
<1> QED  BY <1>2, <1>3, <1>4, OneLess
         DEF Elsewhere, SinkStays, StreamStays, sinkVars, streamVars,
             mainVars, webVars

(* What writing the job's state does.                                       *)
LEMMA DoesJobState ==
    ASSUME JobTyped, TodoTyped, NEW a \in Actors, Do(a), NEW st \in States,
           Head(todo[a]) = JobState(st)
    PROVE  /\ Onward(a) /\ JobTyped' /\ Elsewhere /\ SinkStays /\ StreamStays
           /\ row' = [row EXCEPT !.state = st] /\ steps' = steps
<1> DEFINE op == Head(todo[a])
<1>1. op.op = "job-state" /\ op.state = st
  BY DEF JobState
<1>2. /\ todo[a] # <<>> /\ todo' = [todo EXCEPT ![a] = <<>> \o Tail(@)]
      /\ Write(op) /\ UNCHANGED <<sinkVars, misfiled, streamVars>>
      /\ UNCHANGED <<mainVars, webVars>>
  BY <1>1 DEF Do, Writes
<1>3. row' = [row EXCEPT !.state = st] /\ steps' = steps
  BY <1>1, <1>2 DEF Write
<1>4. JobTyped'
  BY <1>2, <1>3 DEF JobTyped, sinkVars, Rows
<1> QED  BY <1>2, <1>3, <1>4, OneLess
         DEF Elsewhere, SinkStays, StreamStays, sinkVars, streamVars,
             mainVars, webVars

(* A subscriber that is open gets the event or is closed.                   *)
Sent(ev) ==
    \/ /\ sub = "open" /\ Len(chan) < Buffer
       /\ chan' = Append(chan, ev) /\ UNCHANGED <<sub, closes>>
    \/ sub' # "open" /\ UNCHANGED chan

(* What publishing an event does.                                           *)
LEMMA DoesPublish ==
    ASSUME JobTyped, TodoTyped, StreamTyped, NEW a \in Actors, Do(a),
           NEW ev \in Events, Head(todo[a]) = Publish(ev)
    PROVE  /\ Onward(a) /\ JobTyped' /\ Elsewhere /\ SinkStays
           /\ row' = row /\ steps' = steps /\ Sent(ev) /\ StreamTyped'
<1> DEFINE op == Head(todo[a])
<1>1. op.op = "publish" /\ op.event = ev
  BY SMTT(30) DEF Publish
<1>2. /\ todo[a] # <<>> /\ todo' = [todo EXCEPT ![a] = <<>> \o Tail(@)]
      /\ Broadcast(ev) /\ UNCHANGED <<jobVars, sinkVars, misfiled>>
      /\ UNCHANGED <<mainVars, webVars>>
  BY <1>1 DEF Do, Writes
<1>3. Sent(ev)
  BY <1>2 DEF Broadcast, Sent, streamVars
<1>4. /\ Append(chan, ev) \in Seq(Events)
      /\ Len(Append(chan, ev)) = Len(chan) + 1
  BY AppendProperties DEF StreamTyped
<1>5. Buffer \in Nat /\ Len(chan) \in Nat
  BY EventsAssumption DEF EventsAssumption, StreamTyped
<1>6. StreamTyped'
  <2>1. CASE sub # "open"
    BY <1>2, <2>1 DEF Broadcast, StreamTyped, streamVars
  <2>2. CASE sub = "open" /\ Len(chan) < Buffer
    BY <1>2, <1>4, <1>5, <2>2 DEF Broadcast, StreamTyped
  <2>3. CASE sub = "open" /\ ~(Len(chan) < Buffer)
    BY <1>2, <1>5, <2>3 DEF Broadcast, StreamTyped
  <2> QED  BY <2>1, <2>2, <2>3
<1>7. row' = row /\ steps' = steps /\ JobTyped'
  BY <1>2 DEF jobVars, JobTyped, sinkVars
<1> QED  BY <1>2, <1>3, <1>6, <1>7, OneLess
         DEF Elsewhere, SinkStays, sinkVars, mainVars, webVars

(* What entering a step under the sink's lock does.                         *)
LEMMA DoesBegin ==
    ASSUME JobTyped, TodoTyped, NEW a \in Actors, Do(a), NEW s \in Steps,
           Head(todo[a]) = Locked("begin", s, 0)
    PROVE  /\ Onward(a) /\ JobTyped' /\ Elsewhere /\ StreamStays
           /\ row' = row /\ steps' = steps /\ misfiled' = misfiled
           /\ current' = s /\ pending' = NoProgress
<1> DEFINE op == Head(todo[a])
<1>1. op.op = "begin" /\ op.step = s
  BY SMTT(30) DEF Locked
<1>2. /\ todo[a] # <<>> /\ todo' = [todo EXCEPT ![a] = <<>> \o Tail(@)]
      /\ current' = CurrentAfter(op) /\ pending' = NoProgress
      /\ UNCHANGED <<jobVars, misfiled, streamVars>>
      /\ UNCHANGED <<mainVars, webVars>>
  BY <1>1 DEF Do, Writes
<1>3. current' = s
  BY <1>1, <1>2 DEF CurrentAfter
<1>4. row' = row /\ steps' = steps
  BY <1>2 DEF jobVars
<1>5. JobTyped'
  BY <1>2, <1>3, <1>4 DEF JobTyped, NoProgress, Full
<1> QED  BY <1>2, <1>3, <1>4, <1>5, OneLess
         DEF Elsewhere, StreamStays, streamVars, mainVars, webVars

(* What leaving a step under the sink's lock does.                          *)
LEMMA DoesLeave ==
    ASSUME JobTyped, TodoTyped, NEW a \in Actors, Do(a), NEW s \in Steps,
           Head(todo[a]) = Locked("leave", s, 0)
    PROVE  /\ Onward(a) /\ JobTyped' /\ Elsewhere /\ StreamStays
           /\ row' = row /\ steps' = steps /\ misfiled' = misfiled
           /\ pending' = pending
<1> DEFINE op == Head(todo[a])
<1>1. op.op = "leave" /\ op.step = s
  BY DEF Locked
<1>2. /\ todo[a] # <<>> /\ todo' = [todo EXCEPT ![a] = <<>> \o Tail(@)]
      /\ current' = CurrentAfter(op) /\ pending' = pending
      /\ UNCHANGED <<jobVars, misfiled, streamVars>>
      /\ UNCHANGED <<mainVars, webVars>>
  BY <1>1 DEF Do, Writes
<1>3. current' \in {NoStep, current}
  BY <1>1, <1>2 DEF CurrentAfter
<1>4. row' = row /\ steps' = steps
  BY <1>2 DEF jobVars
<1>5. JobTyped'
  BY <1>2, <1>3, <1>4 DEF JobTyped
<1> QED  BY <1>2, <1>3, <1>4, <1>5, OneLess
         DEF Elsewhere, StreamStays, streamVars, mainVars, webVars

(* The actor has two operations to perform before those it had left.        *)
Flushes(a, s, p) ==
    /\ TodoTyped' /\ todo'[a] = FlushProgress(s, p) \o Tail(todo[a])
    /\ \A b \in Actors \ {a} : todo'[b] = todo[b]

(* An entry done that leaves the two of a flush to do.                      *)
LEMMA TwoMore ==
    ASSUME TodoTyped, NEW a \in Actors, todo[a] # <<>>, NEW s \in Steps,
           NEW p \in 0..Full,
           todo' = [todo EXCEPT ![a] = FlushProgress(s, p) \o Tail(@)]
    PROVE  Flushes(a, s, p)
<1>1. todo[a] \in Seq(Ops) /\ Tail(todo[a]) \in Seq(Ops)
  BY HeadTailProperties DEF TodoTyped
<1>2. FlushProgress(s, p) \in Seq(Ops)
  BY FlushScript
<1>3. FlushProgress(s, p) \o Tail(todo[a]) \in Seq(Ops)
  BY <1>1, <1>2, ConcatProperties
<1> QED  BY <1>1, <1>3 DEF Flushes, TodoTyped

(* What noting a percentage under the sink's lock does.                     *)
LEMMA DoesReport ==
    ASSUME JobTyped, TodoTyped, NEW a \in Actors, Do(a), NEW s \in Steps,
           NEW p \in 0..Full, Head(todo[a]) = Locked("report", s, p)
    PROVE  /\ JobTyped' /\ Elsewhere /\ StreamStays
           /\ row' = row /\ steps' = steps /\ misfiled' = misfiled
           /\ current' = current
           /\ \/ Onward(a) /\ pending' = [step |-> s, pct |-> p]
              \/ Flushes(a, s, p) /\ pending' = NoProgress
<1> DEFINE op == Head(todo[a])
<1>1. op.op = "report" /\ op.step = s /\ op.pct = p
  BY SMTT(30) DEF Locked
<1>2. /\ todo[a] # <<>>
      /\ \/ /\ pending' = [step |-> s, pct |-> p]
            /\ todo' = [todo EXCEPT ![a] = <<>> \o Tail(@)]
         \/ /\ pending' = NoProgress
            /\ todo' = [todo EXCEPT ![a] = FlushProgress(s, p) \o Tail(@)]
      /\ UNCHANGED <<jobVars, current, misfiled, streamVars>>
      /\ UNCHANGED <<mainVars, webVars>>
  BY <1>1 DEF Do, Writes
<1>3. row' = row /\ steps' = steps
  BY <1>2 DEF jobVars
<1>4. JobTyped'
  BY <1>2, <1>3 DEF JobTyped, NoProgress, Full
<1>5. \/ Onward(a) /\ pending' = [step |-> s, pct |-> p]
      \/ Flushes(a, s, p) /\ pending' = NoProgress
  BY <1>2, OneLess, TwoMore
<1> QED  BY <1>2, <1>3, <1>4, <1>5
         DEF Elsewhere, StreamStays, streamVars, mainVars, webVars

(* What taking the pending percentage under the sink's lock does.           *)
LEMMA DoesFlush ==
    ASSUME JobTyped, TodoTyped, NEW a \in Actors, Do(a), NEW s \in Steps,
           Head(todo[a]) = Locked("flush", s, 0), OfStep(s)
    PROVE  /\ JobTyped' /\ Elsewhere /\ StreamStays
           /\ row' = row /\ steps' = steps /\ misfiled' = misfiled
           /\ current' = current /\ pending' = NoProgress
           /\ Onward(a) \/ \E p \in 0..Full : Flushes(a, s, p)
<1> DEFINE op == Head(todo[a])
<1>1. op.op = "flush"
  BY DEF Locked
<1>2. /\ todo[a] # <<>> /\ pending' = NoProgress
      /\ todo' = [todo EXCEPT ![a] =
                    (IF pending = NoProgress THEN <<>>
                     ELSE FlushProgress(pending.step, pending.pct))
                    \o Tail(@)]
      /\ UNCHANGED <<jobVars, current, misfiled, streamVars>>
      /\ UNCHANGED <<mainVars, webVars>>
  BY <1>1 DEF Do, Writes
<1>3. row' = row /\ steps' = steps
  BY <1>2 DEF jobVars
<1>4. JobTyped'
  BY <1>2, <1>3 DEF JobTyped, NoProgress, Full
<1>5. CASE pending = NoProgress
  <2>1. Onward(a)
    BY <1>2, <1>5, OneLess
  <2> QED  BY <1>2, <1>3, <1>4, <2>1
         DEF Elsewhere, StreamStays, streamVars, mainVars, webVars
<1>6. CASE pending # NoProgress
  <2>1. pending.step = s /\ pending.pct \in 0..Full
    BY <1>6 DEF OfStep, JobTyped
  <2>2. todo' = [todo EXCEPT ![a] =
                    FlushProgress(s, pending.pct) \o Tail(@)]
    BY <1>2, <1>6, <2>1
  <2>3. Flushes(a, s, pending.pct)
    BY <1>2, <2>1, <2>2, TwoMore
  <2> QED  BY <1>2, <1>3, <1>4, <2>1, <2>3
         DEF Elsewhere, StreamStays, streamVars, mainVars, webVars
<1> QED  BY <1>5, <1>6

(* What adding a line to the log does.                                      *)
LEMMA DoesLog ==
    ASSUME JobTyped, TodoTyped, NEW a \in Actors, Do(a), NEW s \in Steps,
           Head(todo[a]) = Locked("log", s, 0), LogsAttributed, current = s
    PROVE  /\ Onward(a) /\ JobTyped' /\ Elsewhere /\ SinkStays /\ StreamStays
           /\ row' = row /\ steps' = steps
<1> DEFINE op == Head(todo[a])
<1>1. op.op = "log" /\ op.step = s
  BY DEF Locked
<1>2. /\ todo[a] # <<>> /\ todo' = [todo EXCEPT ![a] = <<>> \o Tail(@)]
      /\ misfiled' = (misfiled \/ current # op.step)
      /\ UNCHANGED <<jobVars, sinkVars, streamVars>>
      /\ UNCHANGED <<mainVars, webVars>>
  BY <1>1 DEF Do, Writes
<1>3. row' = row /\ steps' = steps /\ current' = current /\ pending' = pending
  BY <1>2 DEF jobVars, sinkVars
<1>4. misfiled = FALSE
  BY DEF LogsAttributed, JobTyped
<1>5. misfiled' = FALSE
  BY <1>1, <1>2, <1>4
<1>6. JobTyped'
  BY <1>3, <1>4, <1>5 DEF JobTyped
<1> QED  BY <1>2, <1>3, <1>4, <1>5, <1>6, OneLess
         DEF Elsewhere, SinkStays, StreamStays, streamVars, mainVars, webVars

----------------------------------------------------------------------------
(* The channel.                                                             *)
LEMMA AppendedLast ==
    ASSUME NEW T, NEW c \in Seq(T), NEW e \in T, NEW kind, NEW wanted
    PROVE  /\ e \in wanted => LastOf(Append(c, e), kind, wanted)
           /\ e \notin kind /\ LastOf(c, kind, wanted) =>
                 LastOf(Append(c, e), kind, wanted)
           /\ e \notin kind /\ NoneOf(c, kind) => NoneOf(Append(c, e), kind)
<1> DEFINE d == Append(c, e)
           n == Len(c)
<1>1. /\ n \in Nat /\ DOMAIN c = 1..n /\ DOMAIN d = 1..n + 1
      /\ d[n + 1] = e /\ \A i \in 1..n : d[i] = c[i]
  BY AppendProperties
<1> HIDE DEF d, n
<1>2. ASSUME e \in wanted  PROVE  LastOf(d, kind, wanted)
  <2>1. n + 1 \in DOMAIN d /\ \A j \in DOMAIN d : ~(j > n + 1)
    BY <1>1
  <2> QED  BY <1>1, <1>2, <2>1 DEF LastOf
<1>3. ASSUME e \notin kind, LastOf(c, kind, wanted)
      PROVE  LastOf(d, kind, wanted)
  <2>1. PICK i \in 1..n : c[i] \in wanted
                          /\ \A j \in 1..n : j > i => c[j] \notin kind
    BY <1>1, <1>3 DEF LastOf
  <2>2. i \in DOMAIN d /\ d[i] \in wanted
    BY <1>1, <2>1
  <2>3. ASSUME NEW j \in DOMAIN d, j > i  PROVE  d[j] \notin kind
    BY <1>1, <1>3, <2>1, <2>3
  <2> QED  BY <2>2, <2>3 DEF LastOf
<1>4. ASSUME e \notin kind, NoneOf(c, kind)  PROVE  NoneOf(d, kind)
  BY <1>1, <1>4 DEF NoneOf
<1> QED  BY <1>2, <1>3, <1>4 DEF d

(* What a stream still tells once its first event is taken.                 *)
LEMMA TakenFirst ==
    ASSUME NEW T, NEW c \in Seq(T), c # <<>>, NEW kind, NEW wanted
    PROVE  /\ LastOf(c, kind, wanted) =>
                 \/ LastOf(Tail(c), kind, wanted)
                 \/ Head(c) \in wanted /\ NoneOf(Tail(c), kind)
           /\ NoneOf(c, kind) => Head(c) \notin kind /\ NoneOf(Tail(c), kind)
<1> DEFINE d == Tail(c)
           n == Len(d)
<1>1. /\ n \in Nat /\ DOMAIN d = 1..n /\ DOMAIN c = 1..n + 1
      /\ Head(c) = c[1] /\ \A i \in 1..n : d[i] = c[i + 1]
  BY HeadTailProperties
<1> HIDE DEF d, n
<1>2. ASSUME LastOf(c, kind, wanted)
      PROVE  \/ LastOf(d, kind, wanted)
             \/ Head(c) \in wanted /\ NoneOf(d, kind)
  <2>1. PICK i \in 1..n + 1 : c[i] \in wanted
                          /\ \A j \in 1..n + 1 : j > i => c[j] \notin kind
    BY <1>1, <1>2 DEF LastOf
  <2>2. \A j \in 1..n : j + 1 > i => d[j] \notin kind
    BY <1>1, <2>1
  <2>3. CASE i = 1
    BY <1>1, <2>1, <2>2, <2>3 DEF NoneOf
  <2>4. CASE i # 1
    <3>1. i - 1 \in 1..n /\ d[i - 1] \in wanted
      BY <1>1, <2>1, <2>4
    <3>2. \A j \in 1..n : j > i - 1 => d[j] \notin kind
      BY <2>2
    <3> QED  BY <1>1, <3>1, <3>2 DEF LastOf
  <2> QED  BY <2>3, <2>4
<1>3. ASSUME NoneOf(c, kind)
      PROVE  Head(c) \notin kind /\ NoneOf(d, kind)
  BY SMTT(30), <1>1, <1>3 DEF NoneOf
<1> QED  BY <1>2, <1>3 DEF d

(* An empty stream tells nothing.                                           *)
LEMMA NothingSent ==
    ASSUME NEW kind, NEW wanted
    PROVE  NoneOf(<<>>, kind) /\ ~LastOf(<<>>, kind, wanted)
BY DEF NoneOf, LastOf

(* Which kinds an event is of.                                              *)
LEMMA StepEventIs ==
    ASSUME NEW s \in Steps, NEW st \in StepStates, NEW e, e = StepEvent(s, st)
    PROVE  /\ e \in Events /\ e \in FieldEvents /\ e.step = s
           /\ e.name = "job.step" /\ e.state = st
           /\ e \in StepEvents(s)
           /\ \A t \in Steps \ {s} : e \notin StepEvents(t)
           /\ e \notin ProgressEvents /\ e \notin EndEvents
           /\ st # "done" => e \notin SubEvents
<1>1. e.name = "job.step" /\ e.step = s /\ e.state = st
  BY DEF StepEvent
<1>2. e \in StepEvents(s)
  BY DEF StepEvents
<1>3. \A t \in Steps \ {s} : e \notin StepEvents(t)
  BY <1>1 DEF StepEvents, StepEvent
<1>4. e \notin ProgressEvents
  BY <1>1 DEF ProgressEvents, ProgressEvent
<1>5. e \notin EndEvents
  BY <1>1 DEF EndEvents, EndEvent
<1>6. st # "done" => e \notin SubEvents
  BY <1>1 DEF SubEvents, SubStepEvent, StepEvent
<1>7. e \in FieldEvents
  BY <1>2 DEF FieldEvents
<1> QED  BY <1>1, <1>2, <1>3, <1>4, <1>5, <1>6, <1>7, EventsThere

(* Which kinds an event about a percentage is of.                           *)
LEMMA ProgressEventIs ==
    ASSUME NEW s \in Steps, NEW p \in 0..Full, NEW e, e = ProgressEvent(s, p)
    PROVE  /\ e \in Events /\ e \in FieldEvents /\ e.step = s
           /\ e.name = "job.progress" /\ e.pct = p
           /\ e \in ProgressEvents /\ \A t \in Steps : e \notin StepEvents(t)
           /\ e \notin SubEvents /\ e \notin EndEvents
<1>1. e.name = "job.progress" /\ e.step = s /\ e.pct = p
  BY DEF ProgressEvent
<1>2. e \in ProgressEvents
  BY DEF ProgressEvents
<1>3. \A t \in Steps : e \notin StepEvents(t)
  BY <1>1 DEF StepEvents, StepEvent
<1>4. e \notin SubEvents
  BY <1>1 DEF SubEvents, SubStepEvent, StepEvent
<1>5. e \notin EndEvents
  BY <1>1 DEF EndEvents, EndEvent
<1>6. e \in FieldEvents
  BY <1>2 DEF FieldEvents
<1> QED  BY <1>1, <1>2, <1>3, <1>4, <1>5, <1>6, EventsThere

(* Which kinds an event about the sub-step is of.                           *)
LEMMA SubStepEventIs ==
    ASSUME NEW e, e = SubStepEvent("phase")
    PROVE  /\ e \in Events /\ e.name = "job.substep" /\ e.sub = "phase"
           /\ \A t \in Steps : e \notin StepEvents(t)
           /\ e \notin ProgressEvents /\ e \notin FieldEvents
           /\ e \notin EndEvents /\ e \in SubEvents
<1>1. e.name = "job.substep" /\ e.sub = "phase"
  BY DEF SubStepEvent
<1>2. \A t \in Steps : e \notin StepEvents(t)
  BY <1>1 DEF StepEvents, StepEvent
<1>3. e \notin ProgressEvents
  BY <1>1 DEF ProgressEvents, ProgressEvent
<1>4. e \notin FieldEvents
  BY <1>2, <1>3 DEF FieldEvents
<1>5. e \notin EndEvents
  BY <1>1 DEF EndEvents, EndEvent
<1>6. e \in SubEvents
  BY DEF SubEvents
<1> QED  BY <1>1, <1>2, <1>3, <1>4, <1>5, <1>6, EventsThere

(* An event about a line of the log is of no kind.                          *)
LEMMA LogEventIs ==
    ASSUME NEW e, e = LogEvent
    PROVE  /\ e \in Events /\ e.name = "job.log"
           /\ \A t \in Steps : e \notin StepEvents(t)
           /\ e \notin ProgressEvents /\ e \notin FieldEvents
           /\ e \notin EndEvents /\ e \notin SubEvents
<1>1. e.name = "job.log"
  BY DEF LogEvent
<1>2. \A t \in Steps : e \notin StepEvents(t)
  BY <1>1 DEF StepEvents, StepEvent
<1>3. e \notin ProgressEvents
  BY <1>1 DEF ProgressEvents, ProgressEvent
<1>4. e \notin FieldEvents
  BY <1>2, <1>3 DEF FieldEvents
<1>5. e \notin EndEvents
  BY <1>1 DEF EndEvents, EndEvent
<1>6. e \notin SubEvents
  BY <1>1 DEF SubEvents, SubStepEvent, StepEvent
<1> QED  BY <1>1, <1>2, <1>3, <1>4, <1>5, <1>6, EventsThere

(* Which kinds an event about the end of the job is of.                     *)
LEMMA EndEventIs ==
    ASSUME NEW st \in Terminal, NEW e, e = EndEvent(st)
    PROVE  /\ e \in Events /\ e.name = "job.end" /\ e.state = st
           /\ \A t \in Steps : e \notin StepEvents(t)
           /\ e \notin ProgressEvents /\ e \notin FieldEvents
           /\ e \notin SubEvents /\ e \in EndEvents
<1>1. e.name = "job.end" /\ e.state = st
  BY DEF EndEvent
<1>2. \A t \in Steps : e \notin StepEvents(t)
  BY <1>1 DEF StepEvents, StepEvent
<1>3. e \notin ProgressEvents
  BY <1>1 DEF ProgressEvents, ProgressEvent
<1>4. e \notin FieldEvents
  BY <1>2, <1>3 DEF FieldEvents
<1>5. e \notin SubEvents
  BY <1>1 DEF SubEvents, SubStepEvent, StepEvent
<1>6. e \in EndEvents
  BY DEF EndEvents
<1> QED  BY <1>1, <1>2, <1>3, <1>4, <1>5, <1>6, EventsThere

----------------------------------------------------------------------------
(* What a step of the daemon may do to what the browser will have seen.     *)

(* A write to the store is covered by an event that is still to come.       *)
WriteCovered ==
    /\ \A s \in Steps :
          StepPending(s)' \/ (~StepPending(s) /\ steps'[s] = steps[s])
    /\ FieldPending' \/ (~FieldPending /\ row'.step = row.step)
    /\ PctClaimed' => PctClaimed
    /\ SubClaimed' => SubClaimed
    /\ ~(phase' = "over" /\ Left' = <<>>)

(* An event says what the store says, or is about something else.           *)
PublishCovered(ev) ==
    /\ \A s \in Steps :
          \/ ev = StepEvent(s, steps[s])
          \/ ev \notin StepEvents(s) /\ (StepPending(s)' \/ ~StepPending(s))
    /\ \/ ev \in FieldEvents /\ ev.step = row.step
       \/ ev \notin FieldEvents /\ (FieldPending' \/ ~FieldPending)
    /\ PctClaimed' => \/ ev \in ProgressEvents /\ ev.pct = Full
                      \/ ev \notin ProgressEvents /\ PctClaimed
    /\ SubClaimed' => \/ \E s \in Steps : ev = StepEvent(s, "done")
                      \/ ev \notin SubEvents /\ SubClaimed
    /\ phase' = "over" /\ Left' = <<>> => ev = EndEvent(row.state)

(* A write to the rows whose event is still to come.                        *)
LEMMA WriteKeepsShown ==
    ASSUME Shown, StreamStays, UNCHANGED <<link, snap, view>>, WriteCovered
    PROVE  Shown'
<1> SUFFICES ASSUME sub' = "open"
    PROVE  /\ \A s \in Steps : StepPending(s)' \/ StepShown(s)'
           /\ FieldPending' \/ FieldShown'
           /\ PctClaimed' => PctShown'
           /\ SubClaimed' => SubShown'
           /\ phase' = "over" /\ Left' = <<>> => StateShown'
  BY DEF Shown
<1>1. sub = "open" /\ chan' = chan /\ Copied' = Copied
  BY DEF StreamStays, Copied
<1>2. ASSUME NEW s \in Steps, ~StepPending(s)'  PROVE  StepShown(s)'
  <2>1. StepShown(s) /\ steps'[s] = steps[s]
    BY <1>1, <1>2 DEF WriteCovered, Shown
  <2> QED  BY <1>1, <2>1 DEF StepShown, Shows
<1>3. FieldPending' \/ FieldShown'
  <2>1. CASE ~FieldPending'
    <3>1. FieldShown /\ row'.step = row.step
      BY <1>1, <2>1 DEF WriteCovered, Shown
    <3> QED  BY <1>1, <3>1 DEF FieldShown, Shows
  <2> QED  BY <2>1
<1>4. PctClaimed' => PctShown'
  BY <1>1 DEF WriteCovered, Shown, PctShown, Shows
<1>5. SubClaimed' => SubShown'
  BY <1>1 DEF WriteCovered, Shown, SubShown, Shows
<1> QED  BY <1>2, <1>3, <1>4, <1>5 DEF WriteCovered

(* An event that says what the rows say.                                    *)
LEMMA PublishKeepsShown ==
    ASSUME Shown, StreamTyped, NEW ev \in Events, Sent(ev), row' = row,
           steps' = steps, UNCHANGED <<link, snap, view>>, PublishCovered(ev)
    PROVE  Shown'
<1> SUFFICES ASSUME sub' = "open"
    PROVE  /\ \A s \in Steps : StepPending(s)' \/ StepShown(s)'
           /\ FieldPending' \/ FieldShown'
           /\ PctClaimed' => PctShown'
           /\ SubClaimed' => SubShown'
           /\ phase' = "over" /\ Left' = <<>> => StateShown'
  BY DEF Shown
<1>1. sub = "open" /\ chan' = Append(chan, ev) /\ Copied' = Copied
  BY DEF Sent, Copied
<1>2. chan \in Seq(Events)
  BY DEF StreamTyped
<1>3. \A kind, wanted :
         /\ ev \in wanted => LastOf(chan', kind, wanted)
         /\ ev \notin kind /\ LastOf(chan, kind, wanted) =>
               LastOf(chan', kind, wanted)
         /\ ev \notin kind /\ NoneOf(chan, kind) => NoneOf(chan', kind)
  BY <1>1, <1>2, AppendedLast
<1>4. ASSUME NEW s \in Steps, ~StepPending(s)'  PROVE  StepShown(s)'
  <2>1. CASE ev = StepEvent(s, steps[s])
    BY <1>3, <2>1 DEF StepShown, Shows
  <2>2. CASE ev # StepEvent(s, steps[s])
    <3>1. ev \notin StepEvents(s) /\ StepShown(s)
      BY <1>1, <1>4, <2>2 DEF PublishCovered, Shown
    <3> QED  BY <1>3, <3>1 DEF StepShown, Shows
  <2> QED  BY <2>1, <2>2
<1>5. FieldPending' \/ FieldShown'
  <2>1. CASE ev \in FieldEvents /\ ev.step = row.step
    BY <1>3, <2>1 DEF FieldShown, Shows
  <2>2. CASE ev \notin FieldEvents /\ ~FieldPending
    <3>1. FieldShown
      BY <1>1, <2>2 DEF Shown
    <3> QED  BY <1>1, <1>3, <2>2, <3>1 DEF FieldShown, Shows
  <2> QED  BY <2>1, <2>2 DEF PublishCovered
<1>6. ASSUME PctClaimed'  PROVE  PctShown'
  <2>1. CASE ev \in ProgressEvents /\ ev.pct = Full
    BY <1>3, <2>1 DEF PctShown, Shows
  <2>2. CASE ev \notin ProgressEvents /\ PctClaimed
    <3>1. PctShown
      BY <1>1, <2>2 DEF Shown
    <3> QED  BY <1>1, <1>3, <2>2, <3>1 DEF PctShown, Shows
  <2> QED  BY <1>6, <2>1, <2>2 DEF PublishCovered
<1>7. ASSUME SubClaimed'  PROVE  SubShown'
  <2>1. CASE \E s \in Steps : ev = StepEvent(s, "done")
    <3>1. ev \in {StepEvent(s, "done") : s \in Steps}
      BY <2>1
    <3> QED  BY <1>3, <3>1 DEF SubShown, Shows
  <2>2. CASE ev \notin SubEvents /\ SubClaimed
    <3>1. SubShown
      BY <1>1, <2>2 DEF Shown
    <3> QED  BY <1>1, <1>3, <2>2, <3>1 DEF SubShown, Shows
  <2> QED  BY <1>7, <2>1, <2>2 DEF PublishCovered
<1>8. ASSUME phase' = "over", Left' = <<>>  PROVE  StateShown'
  <2>1. ev = EndEvent(row.state)
    BY <1>8 DEF PublishCovered
  <2> QED  BY <1>3, <2>1 DEF StateShown, Shows
<1> QED  BY <1>4, <1>5, <1>6, <1>7, <1>8

----------------------------------------------------------------------------
(* The operations of main, position by position.                            *)

(* What each of them leaves behind.                                         *)
Kept ==
    /\ JobTyped' /\ TodoTyped' /\ StreamTyped' /\ Elsewhere
    /\ MainIsThere' /\ ReadersAreThere' /\ DoneIsFull' /\ LogsAttributed'
    /\ row.state \in Terminal => row'.state \in Terminal
    /\ \/ StreamStays /\ WriteCovered
       \/ /\ row' = row /\ steps' = steps
          /\ \E ev \in Events : Sent(ev) /\ PublishCovered(ev)

(* While the handler is busy, no reader is.                                 *)
LEMMA ReadersIdle ==
    ASSUME ReadersAreThere, Left # <<>>,
           \A r \in Readers : todo'[r] = todo[r]
    PROVE  ReadersAreThere'
BY DEF ReadersAreThere

(* The handler at an entry of its script, and after it.                     *)
LEMMA AtRest ==
    ASSUME NEW script \in Seq(Ops), NEW k \in 1..Len(script),
           Left = Rest(script, k), Onward("main"), ReadersAreThere
    PROVE  /\ Left # <<>> /\ Head(Left) = script[k]
           /\ Len(Left) = Len(script) - k + 1 /\ Len(Left) \in Nat
           /\ Left' = Rest(script, k + 1) /\ ReadersAreThere'
           /\ Len(Left') = Len(script) - k /\ Len(Left') \in Nat
<1>1. /\ Left # <<>> /\ Head(Left) = script[k]
      /\ Len(Left) = Len(script) - k + 1
      /\ Left \in Seq(Ops) /\ Tail(Left) = Rest(script, k + 1)
  BY ZenonT(60), RestStep
<1>2. Left' = Rest(script, k + 1) /\ \A r \in Readers : todo'[r] = todo[r]
  BY <1>1 DEF Onward, Left, Actors, Readers
<1>3. ReadersAreThere'
  BY <1>1, <1>2, ReadersIdle
<1>4. Len(Tail(Left)) = Len(Left) - 1 /\ Len(Left) \in Nat
  BY <1>1, HeadTailProperties
<1> QED  BY <1>1, <1>2, <1>3, <1>4


(* The handler at an entry of the start of a step.                          *)
LEMMA StartAt ==
    ASSUME Core, Do("main"), phase = "reading", at <= Len(JobSteps),
           NEW k \in 1..7, AtStart(k)
    PROVE  Kept
<1> DEFINE script == OnStepStart(Here)
<1>1. /\ JobTyped /\ TodoTyped /\ StreamTyped /\ MainTyped
      /\ "main" \in Actors
      /\ ReadersAreThere /\ DoneIsFull /\ LogsAttributed /\ MainIsThere
  BY DEF Core, Typed, Actors
<1>2. Here \in Steps
  BY <1>1, EventsAssumption DEF EventsAssumption, Here, Steps, MainTyped
<1>3. /\ script \in Seq(Ops) /\ Len(script) = 6
      /\ script[1] = StepRow(Here, "running")
      /\ script[2] = ActiveStep(Here)
      /\ script[3] = Progress(Here, 0)
      /\ script[4] = Locked("begin", Here, 0)
      /\ script[5] = Publish(StepEvent(Here, "running"))
      /\ script[6] = Publish(ProgressEvent(Here, 0))
  BY <1>2, StartScript
<1>4. Left = Rest(script, k)
  BY DEF AtStart
<1> HIDE DEF script
<1>5. k \in 1..Len(script)
  <2>1. Rest(script, 6 + 1) = <<>>
    BY <1>3, RestIsEmpty
  <2>2. Left # <<>>
    BY DEF Do, Left
  <2> QED  BY <1>3, <1>4, <2>1, <2>2
<1>6. Left # <<>> /\ Head(todo["main"]) = script[k]
  BY ZenonT(60), <1>3, <1>4, <1>5, RestStep DEF Left
<1>7. ASSUME Onward("main"), Elsewhere
      PROVE  /\ ReadersAreThere' /\ Len(Left) = 7 - k /\ Len(Left') = 6 - k
             /\ Here' = Here /\ Left' = Rest(OnStepStart(Here'), k + 1)
  <2>1. /\ Left' = Rest(script, k + 1) /\ ReadersAreThere'
        /\ Len(Left) = Len(script) - k + 1 /\ Len(Left') = Len(script) - k
    <3>1. /\ script \in Seq(Ops) /\ Left = Rest(script, k)
          /\ Onward("main") /\ ReadersAreThere
      BY <1>1, <1>3, <1>4, <1>7
    <3> QED  BY <3>1, <1>5, AtRest
  <2>3. Len(Left) = 7 - k /\ Len(Left') = 6 - k
    BY <1>3, <2>1
  <2>2. Here' = Here
    BY <1>7 DEF Elsewhere, Here
  <2> QED  BY <2>1, <2>2, <2>3 DEF script
<1>8. ASSUME Onward("main"), Elsewhere, AtStart(k + 1)',
             row'.state = row.state
      PROVE  MainIsThere'
  BY <1>1, <1>3, <1>5, <1>8 DEF MainIsThere, Elsewhere
<1>9. ASSUME Onward("main"), Elsewhere, k <= 4,
             \A t \in Steps \ {Here} : steps'[t] = steps[t]
      PROVE  WriteCovered
  <2>1. /\ Len(Left') >= 2 /\ Len(Left') >= 1
        /\ phase' = "reading" /\ Here' = Here
        /\ Len(Left') \in Nat
    BY <1>3, <1>5, <1>7, <1>9 DEF Elsewhere
  <2>2. ASSUME NEW t \in Steps
        PROVE  StepPending(t)' \/ (~StepPending(t) /\ steps'[t] = steps[t])
    BY <1>9, <2>1 DEF StepPending
  <2>3. FieldPending'
    BY <2>1 DEF FieldPending
  <2> QED  BY <2>1, <2>2, <2>3
           DEF WriteCovered, PctClaimed, SubClaimed, Succeeds
<1>10. StreamStays => StreamTyped'
  BY <1>1 DEF StreamStays, StreamTyped
<1>11. SinkStays => LogsAttributed'
  BY <1>1 DEF SinkStays, LogsAttributed
<1>12. "running" \in StepStates /\ 0 \in 0..Full
  BY DEF StepStates, Full
<1>13. row \in Rows /\ steps \in [Steps -> StepStates]
  BY <1>1 DEF JobTyped
<1>21. CASE k = 1
  <2>1. Head(todo["main"]) = StepRow(Here, "running")
    BY <1>3, <1>6, <1>21
  <2>2. /\ Onward("main") /\ JobTyped' /\ Elsewhere /\ SinkStays
        /\ StreamStays
        /\ row' = row /\ steps' = [steps EXCEPT ![Here] = "running"]
    BY <1>1, <1>2, <1>12, <2>1, DoesStepRow
  <2>3. AtStart(k + 1)'
    BY <1>2, <1>7, <1>13, <1>21, <2>2 DEF AtStart, SinkStays
  <2>4. DoneIsFull'
    BY <1>1, <1>13, <2>2 DEF DoneIsFull
  <2>5. WriteCovered
    BY <1>9, <1>13, <1>21, <2>2
  <2>6. TodoTyped'
    BY <2>2 DEF Onward
  <2> QED  BY <1>7, <1>8, <1>10, <1>11, <2>2, <2>3, <2>4, <2>5, <2>6 DEF Kept
<1>22. CASE k = 2
  <2>1. Head(todo["main"]) = ActiveStep(Here)
    BY <1>3, <1>6, <1>22
  <2>2. /\ Onward("main") /\ JobTyped' /\ Elsewhere /\ SinkStays
        /\ StreamStays
        /\ row' = [row EXCEPT !.step = Here] /\ steps' = steps
    BY <1>1, <1>2, <2>1, DoesActiveStep
  <2>3. AtStart(k + 1)'
    BY <1>2, <1>7, <1>13, <1>22, <2>2 DEF AtStart, SinkStays, Rows
  <2>4. DoneIsFull'
    BY <1>1, <1>13, <1>22, <2>2 DEF DoneIsFull, AtStart, Rows
  <2>5. WriteCovered
    BY <1>9, <1>22, <2>2
  <2>6. TodoTyped' /\ row'.state = row.state
    BY <1>13, <2>2 DEF Onward, Rows
  <2> QED  BY <1>7, <1>8, <1>10, <1>11, <2>2, <2>3, <2>4, <2>5, <2>6 DEF Kept
<1>23. CASE k = 3
  <2>1. Head(todo["main"]) = Progress(Here, 0)
    BY <1>3, <1>6, <1>23
  <2>2. /\ Onward("main") /\ JobTyped' /\ Elsewhere /\ SinkStays
        /\ StreamStays
        /\ row' = [row EXCEPT !.step = Here, !.pct = 0] /\ steps' = steps
    BY <1>1, <1>2, <1>12, <2>1, DoesProgress
  <2>3. AtStart(k + 1)'
    BY <1>2, <1>7, <1>13, <1>23, <2>2 DEF AtStart, SinkStays, Rows
  <2>4. DoneIsFull'
    BY <1>1, <1>13, <1>23, <2>2 DEF DoneIsFull, AtStart, Rows
  <2>5. WriteCovered
    BY <1>9, <1>23, <2>2
  <2>6. TodoTyped' /\ row'.state = row.state
    BY <1>13, <2>2 DEF Onward, Rows
  <2> QED  BY <1>7, <1>8, <1>10, <1>11, <2>2, <2>3, <2>4, <2>5, <2>6 DEF Kept
<1>24. CASE k = 4
  <2>1. Head(todo["main"]) = Locked("begin", Here, 0)
    BY <1>3, <1>6, <1>24
  <2>2. /\ Onward("main") /\ JobTyped' /\ Elsewhere /\ StreamStays
        /\ row' = row /\ steps' = steps /\ misfiled' = misfiled
        /\ current' = Here /\ pending' = NoProgress
    BY <1>1, <1>2, <2>1, DoesBegin
  <2>3. AtStart(k + 1)'
    BY <1>2, <1>7, <1>24, <2>2 DEF AtStart, OfStep
  <2>4. DoneIsFull' /\ LogsAttributed'
    BY <1>1, <2>2 DEF DoneIsFull, LogsAttributed
  <2>5. WriteCovered
    BY <1>9, <1>24, <2>2
  <2>6. TodoTyped'
    BY <2>2 DEF Onward
  <2> QED  BY <1>7, <1>8, <1>10, <2>2, <2>3, <2>4, <2>5, <2>6 DEF Kept
<1>25. CASE k = 5
  <2> DEFINE ev == StepEvent(Here, "running")
  <2>1. Head(todo["main"]) = Publish(ev) /\ ev \in Events
    BY <1>2, <1>3, <1>6, <1>12, <1>25, StepEventIs
  <2>2. /\ Onward("main") /\ JobTyped' /\ Elsewhere /\ SinkStays
        /\ row' = row /\ steps' = steps /\ Sent(ev) /\ StreamTyped'
    BY <1>1, <2>1, DoesPublish
  <2>3. AtStart(k + 1)'
    BY <1>2, <1>7, <1>25, <2>2 DEF AtStart, SinkStays, OfStep
  <2>4. DoneIsFull'
    BY <1>1, <2>2 DEF DoneIsFull
  <2>5. /\ Len(Left') = 1 /\ Len(Left) = 2 /\ phase' = "reading"
        /\ row.step = Here /\ steps[Here] = "running"
    BY <1>7, <1>25, <2>2 DEF Elsewhere, AtStart
  <2>6. /\ ev \in FieldEvents /\ ev.step = Here
        /\ \A t \in Steps \ {Here} : ev \notin StepEvents(t)
    BY <1>2, <1>12, StepEventIs
  <2> HIDE DEF ev
  <2>7. \A t \in Steps : \/ ev = StepEvent(t, steps[t])
                         \/ ev \notin StepEvents(t)
                            /\ (StepPending(t)' \/ ~StepPending(t))
    BY <2>5, <2>6 DEF StepPending, ev
  <2>8. PublishCovered(ev)
    BY <2>5, <2>6, <2>7 DEF PublishCovered, PctClaimed, SubClaimed, Succeeds
  <2>9. TodoTyped'
    BY <2>2 DEF Onward
  <2> QED  BY <1>7, <1>8, <1>11, <2>1, <2>2, <2>3, <2>4, <2>8, <2>9 DEF Kept
<1>26. CASE k = 6
  <2> DEFINE ev == ProgressEvent(Here, 0)
  <2>1. Head(todo["main"]) = Publish(ev) /\ ev \in Events
    BY <1>2, <1>3, <1>6, <1>12, <1>26, ProgressEventIs
  <2>2. /\ Onward("main") /\ JobTyped' /\ Elsewhere /\ SinkStays
        /\ row' = row /\ steps' = steps /\ Sent(ev) /\ StreamTyped'
    BY <1>1, <2>1, DoesPublish
  <2>3. AtStart(k + 1)'
    BY <1>2, <1>7, <1>26, <2>2 DEF AtStart, SinkStays, OfStep
  <2>4. DoneIsFull'
    BY <1>1, <2>2 DEF DoneIsFull
  <2>5. /\ Len(Left') = 0 /\ Len(Left) = 1 /\ phase' = "reading"
        /\ row.step = Here
    BY <1>7, <1>26, <2>2 DEF Elsewhere, AtStart
  <2>6. /\ ev \in FieldEvents /\ ev.step = Here
        /\ \A t \in Steps : ev \notin StepEvents(t)
    BY <1>2, <1>12, ProgressEventIs
  <2> HIDE DEF ev
  <2>7. \A t \in Steps : ~StepPending(t)
    BY <2>5 DEF StepPending
  <2>8. PublishCovered(ev)
    BY <2>5, <2>6, <2>7 DEF PublishCovered, PctClaimed, SubClaimed, Succeeds
  <2>9. TodoTyped'
    BY <2>2 DEF Onward
  <2> QED  BY <1>7, <1>8, <1>11, <2>1, <2>2, <2>3, <2>4, <2>8, <2>9 DEF Kept
<1> QED  BY <1>3, <1>5, <1>21, <1>22, <1>23, <1>24, <1>25, <1>26


(* The handler at an entry of the end of a step.                            *)
LEMMA DoneAt ==
    ASSUME Core, Do("main"), phase = "between", at > 1,
           NEW k \in 1..8, AtDone(k)
    PROVE  Kept
<1> DEFINE script == OnStepDone(Ended)
<1>1. /\ JobTyped /\ TodoTyped /\ StreamTyped /\ MainTyped
      /\ "main" \in Actors
      /\ ReadersAreThere /\ DoneIsFull /\ LogsAttributed /\ MainIsThere
  BY DEF Core, Typed, Actors
<1>2. Ended \in Steps
  BY <1>1, EventsAssumption DEF EventsAssumption, Ended, Steps, MainTyped
<1>3. /\ script \in Seq(Ops) /\ Len(script) = 7
      /\ script[1] = SubStep(NoSubStep)
      /\ script[2] = Locked("flush", Ended, 0)
      /\ script[3] = Progress(Ended, Full)
      /\ script[4] = Publish(ProgressEvent(Ended, Full))
      /\ script[5] = Locked("leave", Ended, 0)
      /\ script[6] = StepRow(Ended, "done")
      /\ script[7] = Publish(StepEvent(Ended, "done"))
  BY <1>2, DoneScript
<1>4. Left = Rest(script, k)
  BY DEF AtDone
<1> HIDE DEF script
<1>5. k \in 1..Len(script)
  <2>1. Rest(script, 7 + 1) = <<>>
    BY <1>3, RestIsEmpty
  <2>2. Left # <<>>
    BY DEF Do, Left
  <2> QED  BY <1>3, <1>4, <2>1, <2>2
<1>6. Left # <<>> /\ Head(todo["main"]) = script[k]
  BY ZenonT(60), <1>3, <1>4, <1>5, RestStep DEF Left
<1>7. ASSUME Onward("main"), Elsewhere
      PROVE  /\ ReadersAreThere' /\ Len(Left) = 8 - k /\ Len(Left') = 7 - k
             /\ Ended' = Ended /\ Left' = Rest(OnStepDone(Ended'), k + 1)
  <2>1. /\ Left' = Rest(script, k + 1) /\ ReadersAreThere'
        /\ Len(Left) = Len(script) - k + 1 /\ Len(Left') = Len(script) - k
    <3>1. /\ script \in Seq(Ops) /\ Left = Rest(script, k)
          /\ Onward("main") /\ ReadersAreThere
      BY <1>1, <1>3, <1>4, <1>7
    <3> QED  BY <3>1, <1>5, AtRest
  <2>2. Ended' = Ended
    BY <1>7 DEF Elsewhere, Ended
  <2>3. Len(Left) = 8 - k /\ Len(Left') = 7 - k
    BY <1>3, <2>1
  <2> QED  BY <2>1, <2>2, <2>3 DEF script
<1>8. ASSUME Elsewhere, AtDone(k + 1)' \/ AtFlush(1)', row'.state = row.state
      PROVE  MainIsThere'
  <2>1. \/ \E j \in 1..8 : AtDone(j)'
        \/ \E j \in 1..2 : AtFlush(j)'
    BY <1>3, <1>5, <1>8
  <2> QED  BY <1>1, <1>8, <2>1 DEF MainIsThere, Elsewhere
<1>9. ASSUME Onward("main"), Elsewhere, k \in {1, 2, 3, 5, 6},
             \A t \in Steps \ {Ended} : steps'[t] = steps[t]
      PROVE  WriteCovered
  <2>1. Len(Left') >= 1 /\ phase' = "between" /\ at' > 1 /\ Ended' = Ended
        /\ Len(Left') \in Nat /\ (Len(Left') <= 3 => Len(Left) <= 3)
    BY <1>7, <1>9 DEF Elsewhere
  <2>2. ASSUME NEW t \in Steps
        PROVE  StepPending(t)' \/ (~StepPending(t) /\ steps'[t] = steps[t])
    BY <1>9, <2>1 DEF StepPending
  <2>3. FieldPending' /\ Left' # <<>>
    BY <2>1 DEF FieldPending
  <2>4. PctClaimed' => PctClaimed
    BY <2>1 DEF PctClaimed, Succeeds
  <2> QED  BY <2>1, <2>2, <2>3, <2>4 DEF WriteCovered, SubClaimed, Succeeds
<1>10. StreamStays => StreamTyped'
  BY <1>1 DEF StreamStays, StreamTyped
<1>11. SinkStays => LogsAttributed'
  BY <1>1 DEF SinkStays, LogsAttributed
<1>12. "done" \in StepStates /\ Full \in 0..Full
  BY DEF StepStates, Full
<1>13. row \in Rows /\ steps \in [Steps -> StepStates]
  BY <1>1 DEF JobTyped
<1>21. CASE k = 1
  <2>1. Head(todo["main"]) = SubStep(NoSubStep)
    BY <1>3, <1>6, <1>21
  <2>2. /\ Onward("main") /\ JobTyped' /\ Elsewhere /\ SinkStays
        /\ StreamStays
        /\ row' = [row EXCEPT !.sub = NoSubStep] /\ steps' = steps
    BY <1>1, <2>1, DoesSubStep
  <2>3. AtDone(k + 1)'
    BY <1>2, <1>7, <1>13, <1>21, <2>2 DEF AtDone, SinkStays, Rows, OfStep
  <2>4. DoneIsFull'
    BY <1>1, <1>13, <1>21, <2>2 DEF DoneIsFull, AtDone, Rows
  <2>5. WriteCovered
    BY <1>9, <1>13, <1>21, <2>2
  <2>6. TodoTyped' /\ row'.state = row.state
    BY <1>13, <2>2 DEF Onward, Rows
  <2> QED  BY <1>7, <1>8, <1>10, <1>11, <2>2, <2>3, <2>4, <2>5, <2>6 DEF Kept
<1>22. CASE k = 2
  <2>1. Head(todo["main"]) = Locked("flush", Ended, 0) /\ OfStep(Ended)
    BY <1>3, <1>6, <1>22 DEF AtDone
  <2>2. /\ JobTyped' /\ Elsewhere /\ StreamStays
        /\ row' = row /\ steps' = steps /\ misfiled' = misfiled
        /\ pending' = NoProgress
        /\ Onward("main") \/ \E p \in 0..Full : Flushes("main", Ended, p)
    BY <1>1, <1>2, <2>1, DoesFlush
  <2>3. DoneIsFull' /\ LogsAttributed' /\ Ended' = Ended
    BY <1>1, <2>2 DEF DoneIsFull, LogsAttributed, Elsewhere, Ended
  <2>4. CASE Onward("main")
    <3>1. AtDone(k + 1)'
      BY <1>2, <1>7, <1>22, <2>2, <2>4 DEF AtDone
    <3>2. WriteCovered
      BY <1>9, <1>22, <2>2, <2>4
    <3>3. TodoTyped'
      BY <2>4 DEF Onward
    <3> QED  BY <1>7, <1>8, <1>10, <2>2, <2>3, <2>4, <3>1, <3>2, <3>3 DEF Kept
  <2>5. CASE \E p \in 0..Full : Flushes("main", Ended, p)
    <3>1. PICK p \in 0..Full : Flushes("main", Ended, p)
      BY <2>5
    <3> DEFINE flush == FlushProgress(Ended, p)
               t == Rest(script, 3)
    <3>2. t \in Seq(Ops) /\ Tail(Left) = t /\ Len(t) = 5
      <4>1. 2 \in 1..Len(script) /\ 3 \in 1..Len(script) /\ 2 + 1 = 3
        BY <1>3
      <4>2. Tail(Rest(script, 2)) = Rest(script, 2 + 1)
        BY <1>3, <4>1, RestStep
      <4>3. t \in Seq(Ops) /\ Len(t) = Len(script) - 3 + 1
        BY <1>3, <4>1, RestStep
      <4> QED  BY <1>3, <1>4, <1>22, <4>1, <4>2, <4>3
    <3>3. Left' = flush \o t
      BY <3>1, <3>2 DEF Flushes, Left
    <3>4. flush \in Seq(Ops) /\ Len(flush) = 2
      BY <1>2, FlushScript
    <3>5. Rest(flush, 1) = flush
      BY <3>4, RestIsAll
    <3>6. AtFlush(1)'
      <4>1. Left' = Rest(flush, 1) \o Rest(OnStepDone(Ended), 3)
        BY <3>3, <3>5 DEF script
      <4> QED  BY SMTT(30), <1>22, <2>2, <2>3, <4>1 DEF AtFlush, AtDone
    <3> HIDE DEF flush, t
    <3>7. Len(Left') = 7 /\ Left' # <<>> /\ Left # <<>>
      <4>1. flush \o t \in Seq(Ops) /\ Len(flush \o t) = Len(flush) + Len(t)
        BY <3>2, <3>4, Joined
      <4> QED  BY <1>6, <3>2, <3>3, <3>4, <4>1, EmptySeq
    <3>8. WriteCovered
      <4>1. /\ FieldPending' /\ ~PctClaimed' /\ ~SubClaimed'
            /\ phase' = "between"
            /\ at' > 1
        BY <2>2, <3>7
           DEF Elsewhere, FieldPending, PctClaimed, SubClaimed, Succeeds
      <4>2. ASSUME NEW u \in Steps
            PROVE  \/ StepPending(u)'
                   \/ ~StepPending(u) /\ steps'[u] = steps[u]
        BY <2>2, <2>3, <3>7, <4>1 DEF StepPending
      <4> QED  BY <2>2, <4>1, <4>2 DEF WriteCovered
    <3>9. TodoTyped' /\ \A r \in Readers : todo'[r] = todo[r]
      BY <3>1 DEF Flushes, Actors, Readers
    <3>10. ReadersAreThere'
      BY <1>1, <1>6, <3>9, ReadersIdle
    <3> QED  BY <1>8, <1>10, <2>2, <2>3, <3>6, <3>8, <3>9, <3>10 DEF Kept
  <2> QED  BY <2>2, <2>4, <2>5
<1>23. CASE k = 3
  <2>1. Head(todo["main"]) = Progress(Ended, Full)
    BY <1>3, <1>6, <1>23
  <2>2. /\ Onward("main") /\ JobTyped' /\ Elsewhere /\ SinkStays
        /\ StreamStays
        /\ row' = [row EXCEPT !.step = Ended, !.pct = Full] /\ steps' = steps
    BY <1>1, <1>2, <1>12, <2>1, DoesProgress
  <2>3. AtDone(k + 1)'
    BY <1>2, <1>7, <1>13, <1>23, <2>2 DEF AtDone, SinkStays, Rows, OfStep
  <2>4. DoneIsFull'
    BY <1>1, <1>13, <1>23, <2>2 DEF DoneIsFull, AtDone, Rows
  <2>5. WriteCovered
    BY <1>9, <1>13, <1>23, <2>2
  <2>6. TodoTyped' /\ row'.state = row.state
    BY <1>13, <2>2 DEF Onward, Rows
  <2> QED  BY <1>7, <1>8, <1>10, <1>11, <2>2, <2>3, <2>4, <2>5, <2>6 DEF Kept
<1>24. CASE k = 4
  <2> DEFINE ev == ProgressEvent(Ended, Full)
  <2>1. Head(todo["main"]) = Publish(ev) /\ ev \in Events
    BY <1>2, <1>3, <1>6, <1>12, <1>24, ProgressEventIs
  <2>2. /\ Onward("main") /\ JobTyped' /\ Elsewhere /\ SinkStays
        /\ row' = row /\ steps' = steps /\ Sent(ev) /\ StreamTyped'
    BY <1>1, <2>1, DoesPublish
  <2>3. AtDone(k + 1)'
    BY <1>2, <1>7, <1>24, <2>2 DEF AtDone, SinkStays
  <2>4. DoneIsFull'
    BY <1>1, <2>2 DEF DoneIsFull
  <2>5. /\ Len(Left') = 3 /\ phase' = "between" /\ at' > 1 /\ Ended' = Ended
        /\ row.step = Ended
    BY <1>7, <1>24, <2>2 DEF Elsewhere, AtDone
  <2>6. /\ ev \in FieldEvents /\ ev.step = Ended
        /\ ev \in ProgressEvents /\ ev.pct = Full
        /\ \A t \in Steps : ev \notin StepEvents(t)
    BY <1>2, <1>12, ProgressEventIs
  <2> HIDE DEF ev
  <2>7. \A t \in Steps : StepPending(t)' \/ ~StepPending(t)
    BY <2>5 DEF StepPending
  <2>8. ~SubClaimed' /\ phase' # "over"
    BY <2>5 DEF SubClaimed, Succeeds
  <2>9. PublishCovered(ev)
    BY <2>5, <2>6, <2>7, <2>8 DEF PublishCovered
  <2>10. TodoTyped'
    BY <2>2 DEF Onward
  <2> QED  BY <1>7, <1>8, <1>11, <2>1, <2>2, <2>3, <2>4, <2>9, <2>10 DEF Kept
<1>25. CASE k = 5
  <2>1. Head(todo["main"]) = Locked("leave", Ended, 0)
    BY <1>3, <1>6, <1>25
  <2>2. /\ Onward("main") /\ JobTyped' /\ Elsewhere /\ StreamStays
        /\ row' = row /\ steps' = steps /\ misfiled' = misfiled
        /\ pending' = pending
    BY <1>1, <1>2, <2>1, DoesLeave
  <2>3. AtDone(k + 1)'
    BY <1>2, <1>7, <1>25, <2>2 DEF AtDone
  <2>4. DoneIsFull' /\ LogsAttributed'
    BY <1>1, <2>2 DEF DoneIsFull, LogsAttributed
  <2>5. WriteCovered
    BY <1>9, <1>25, <2>2
  <2>6. TodoTyped'
    BY <2>2 DEF Onward
  <2> QED  BY <1>7, <1>8, <1>10, <2>2, <2>3, <2>4, <2>5, <2>6 DEF Kept
<1>26. CASE k = 6
  <2>1. Head(todo["main"]) = StepRow(Ended, "done")
    BY <1>3, <1>6, <1>26
  <2>2. /\ Onward("main") /\ JobTyped' /\ Elsewhere /\ SinkStays
        /\ StreamStays
        /\ row' = row /\ steps' = [steps EXCEPT ![Ended] = "done"]
    BY <1>1, <1>2, <1>12, <2>1, DoesStepRow
  <2>3. AtDone(k + 1)'
    BY <1>2, <1>7, <1>13, <1>26, <2>2 DEF AtDone, SinkStays, Rows, OfStep
  <2>4. DoneIsFull'
    BY <1>1, <1>13, <1>26, <2>2 DEF DoneIsFull, AtDone, Rows
  <2>5. WriteCovered
    BY <1>9, <1>13, <1>26, <2>2
  <2>6. TodoTyped' /\ row'.state = row.state
    BY <1>13, <2>2 DEF Onward, Rows
  <2> QED  BY <1>7, <1>8, <1>10, <1>11, <2>2, <2>3, <2>4, <2>5, <2>6 DEF Kept
<1>27. CASE k = 7
  <2> DEFINE ev == StepEvent(Ended, "done")
  <2>1. Head(todo["main"]) = Publish(ev) /\ ev \in Events
    BY <1>2, <1>3, <1>6, <1>12, <1>27, StepEventIs
  <2>2. /\ Onward("main") /\ JobTyped' /\ Elsewhere /\ SinkStays
        /\ row' = row /\ steps' = steps /\ Sent(ev) /\ StreamTyped'
    BY <1>1, <2>1, DoesPublish
  <2>3. AtDone(k + 1)'
    BY <1>2, <1>7, <1>27, <2>2 DEF AtDone, SinkStays
  <2>4. DoneIsFull'
    BY <1>1, <2>2 DEF DoneIsFull
  <2>5. /\ Len(Left') = 0 /\ Len(Left) = 1 /\ phase' = "between" /\ at' > 1
        /\ row.step = Ended /\ steps[Ended] = "done"
    BY <1>7, <1>27, <2>2 DEF Elsewhere, AtDone
  <2>6. /\ ev \in FieldEvents /\ ev.step = Ended /\ ev \notin ProgressEvents
        /\ \A t \in Steps \ {Ended} : ev \notin StepEvents(t)
    BY <1>2, <1>12, StepEventIs
  <2>7. PctClaimed
    BY <2>5 DEF PctClaimed
  <2>8. \E t \in Steps : ev = StepEvent(t, "done")
    BY <1>2
  <2> HIDE DEF ev
  <2>9. \A t \in Steps : \/ ev = StepEvent(t, steps[t])
                         \/ ev \notin StepEvents(t)
                            /\ (StepPending(t)' \/ ~StepPending(t))
    BY <2>5, <2>6 DEF StepPending, ev
  <2>10. PublishCovered(ev)
    BY <2>5, <2>6, <2>7, <2>8, <2>9 DEF PublishCovered
  <2>11. TodoTyped'
    BY <2>2 DEF Onward
  <2> QED  BY <1>7, <1>8, <1>11, <2>1, <2>2, <2>3, <2>4, <2>10, <2>11 DEF Kept
<1> QED
  BY <1>3, <1>5, <1>21, <1>22, <1>23, <1>24, <1>25, <1>26, <1>27


(* What is left of two entries.                                             *)
LEMMA RestOfTwo ==
    ASSUME NEW T, NEW q \in Seq(T), Len(q) = 2
    PROVE  Rest(q, 1) = q /\ Rest(q, 2) = Tail(q)
<1>1. Rest(q, 1) = q
  BY RestIsAll
<1>2. 1 \in 1..Len(q)
  OBVIOUS
<1>3. Tail(Rest(q, 1)) = Rest(q, 1 + 1)
  BY <1>2, RestStep, Zenon
<1>4. 1 + 1 = 2
  OBVIOUS
<1> QED  BY <1>1, <1>3, <1>4

(* The handler inside the flush at the end of a step.                       *)
LEMMA FlushAt ==
    ASSUME Core, Do("main"), phase = "between", at > 1,
           NEW k \in 1..2, AtFlush(k)
    PROVE  Kept
<1> DEFINE script == OnStepDone(Ended)
           t == Rest(script, 3)
<1>1. /\ JobTyped /\ TodoTyped /\ StreamTyped /\ MainTyped
      /\ "main" \in Actors
      /\ ReadersAreThere /\ DoneIsFull /\ LogsAttributed /\ MainIsThere
  BY DEF Core, Typed, Actors
<1>2. Ended \in Steps
  BY <1>1, EventsAssumption DEF EventsAssumption, Ended, Steps, MainTyped
<1>3. t \in Seq(Ops) /\ Len(t) = 5
  <2>1. script \in Seq(Ops) /\ Len(script) = 7
    BY <1>2, DoneScript
  <2> HIDE DEF script
  <2>2. 3 \in 1..Len(script)
    BY <2>1
  <2>3. t \in Seq(Ops) /\ Len(t) = Len(script) - 3 + 1
    BY <2>1, <2>2, RestStep
  <2> QED  BY <2>1, <2>3
<1>4. PICK p \in 0..Full : Left = Rest(FlushProgress(Ended, p), k) \o t
  BY DEF AtFlush
<1> DEFINE write == Progress(Ended, p)
           ev == ProgressEvent(Ended, p)
           send == Publish(ev)
<1>5. /\ write \in Ops /\ send \in Ops
      /\ Rest(FlushProgress(Ended, p), 1) = <<write, send>>
      /\ Rest(FlushProgress(Ended, p), 2) = <<send>>
  <2>1. write \in Ops /\ send \in Ops
    BY <1>2, OpsThere, ProgressEventIs
  <2>2. FlushProgress(Ended, p) = <<write, send>>
    BY DEF FlushProgress
  <2> HIDE DEF write, send
  <2>3. /\ <<write, send>> \in Seq(Ops) /\ Len(<<write, send>>) = 2
        /\ Tail(<<write, send>>) = <<send>>
    BY <2>1
  <2> QED  BY <2>1, <2>2, <2>3, RestOfTwo
<1>6. /\ Tail(<<write, send>> \o t) = <<send>> \o t
      /\ Head(<<write, send>> \o t) = write
      /\ <<write, send>> \o t # <<>> /\ Len(<<write, send>> \o t) = 7
      /\ Tail(<<send>> \o t) = t /\ Head(<<send>> \o t) = send
      /\ <<send>> \o t # <<>> /\ Len(<<send>> \o t) = 6
  <2>1. write \in Ops /\ send \in Ops
    BY <1>5
  <2> HIDE DEF t, script, write, send
  <2>2. /\ Tail(<<write, send>> \o t) = <<send>> \o t
        /\ Head(<<write, send>> \o t) = write
        /\ <<write, send>> \o t # <<>>
        /\ Len(<<write, send>> \o t) = Len(t) + 2
    <3>1. \A a, b \in Ops : \A u \in Seq(Ops) :
             /\ Tail(<<a, b>> \o u) = <<b>> \o u /\ Head(<<a, b>> \o u) = a
             /\ <<a, b>> \o u # <<>> /\ Len(<<a, b>> \o u) = Len(u) + 2
      BY TailOfTwo
    <3> QED  BY <1>3, <2>1, <3>1, Zenon
  <2>3. /\ Tail(<<send>> \o t) = t /\ Head(<<send>> \o t) = send
        /\ <<send>> \o t # <<>> /\ Len(<<send>> \o t) = Len(t) + 1
    BY <1>3, <2>1, TailOfOne
  <2> QED  BY <1>3, <2>2, <2>3
<1> HIDE DEF t, script
<1>7. ASSUME Onward("main"), Elsewhere
      PROVE  /\ Left' = Tail(Left) /\ ReadersAreThere' /\ Ended' = Ended
             /\ t = Rest(OnStepDone(Ended'), 3)
             /\ phase' = "between" /\ at' > 1
  <2>1. Left # <<>>
    BY <1>4, <1>5, <1>6
  <2>2. Left' = Tail(Left) /\ \A r \in Readers : todo'[r] = todo[r]
    BY <1>7 DEF Onward, Left, Actors, Readers
  <2>3. ReadersAreThere'
    BY <1>1, <2>1, <2>2, ReadersIdle
  <2>4. Ended' = Ended
    BY <1>7 DEF Elsewhere, Ended
  <2> QED  BY <1>7, <2>2, <2>3, <2>4 DEF t, script, Elsewhere
<1>8. ASSUME Elsewhere, AtDone(3)' \/ AtFlush(2)', row'.state = row.state
      PROVE  MainIsThere'
  <2>1. \/ \E j \in 1..8 : AtDone(j)'
        \/ \E j \in 1..2 : AtFlush(j)'
    BY <1>8
  <2> QED  BY <1>1, <1>8, <2>1 DEF MainIsThere, Elsewhere
<1>10. StreamStays => StreamTyped'
  BY <1>1 DEF StreamStays, StreamTyped
<1>11. SinkStays => LogsAttributed'
  BY <1>1 DEF SinkStays, LogsAttributed
<1>12. row \in Rows /\ steps \in [Steps -> StepStates]
  BY <1>1 DEF JobTyped
<1>13. CASE k = 1
  <2>1. Head(todo["main"]) = Progress(Ended, p)
    BY <1>4, <1>5, <1>6, <1>13 DEF Left
  <2>2. /\ Onward("main") /\ JobTyped' /\ Elsewhere /\ SinkStays
        /\ StreamStays
        /\ row' = [row EXCEPT !.step = Ended, !.pct = p] /\ steps' = steps
    BY <1>1, <1>2, <2>1, DoesProgress
  <2>3. Left' = <<send>> \o t /\ Len(Left') = 6 /\ Left' # <<>>
    BY <1>4, <1>5, <1>6, <1>7, <1>13, <2>2
  <2>4. AtFlush(2)'
    <3>1. Left' = Rest(FlushProgress(Ended', p), 2)
                  \o Rest(OnStepDone(Ended'), 3)
      BY <1>5, <1>7, <2>2, <2>3
    <3>2. /\ pending' = NoProgress /\ steps'[Ended'] = "running"
          /\ row'.step = Ended' /\ row'.sub = NoSubStep
      BY <1>7, <1>12, <2>2 DEF AtFlush, SinkStays, Rows
    <3> QED  BY <3>1, <3>2 DEF AtFlush
  <2>5. DoneIsFull'
    BY <1>1, <1>12, <2>2 DEF DoneIsFull, AtFlush, Rows
  <2>6. WriteCovered
    <3>1. FieldPending' /\ ~PctClaimed' /\ ~SubClaimed' /\ phase' = "between"
          /\ at' > 1
      BY <1>7, <2>2, <2>3 DEF FieldPending, PctClaimed, SubClaimed, Succeeds
    <3>2. ASSUME NEW u \in Steps
          PROVE  StepPending(u)' \/ (~StepPending(u) /\ steps'[u] = steps[u])
      BY <1>7, <2>2, <2>3, <3>1 DEF StepPending
    <3> QED  BY <3>1, <3>2 DEF WriteCovered
  <2>7. TodoTyped' /\ row'.state = row.state
    BY <1>12, <2>2 DEF Onward, Rows
  <2> QED  BY <1>7, <1>8, <1>10, <1>11, <2>2, <2>4, <2>5, <2>6, <2>7 DEF Kept
<1>14. CASE k = 2
  <2>1. Head(todo["main"]) = Publish(ev) /\ ev \in Events
    BY <1>2, <1>4, <1>5, <1>6, <1>14, ProgressEventIs DEF Left
  <2>2. /\ Onward("main") /\ JobTyped' /\ Elsewhere /\ SinkStays
        /\ row' = row /\ steps' = steps /\ Sent(ev) /\ StreamTyped'
    BY <1>1, <2>1, DoesPublish
  <2>3. Left' = t /\ Len(Left') = 5
    BY <1>3, <1>4, <1>5, <1>6, <1>7, <1>14, <2>2
  <2>4. AtDone(3)'
    <3>1. Left' = Rest(OnStepDone(Ended'), 3)
      BY <1>7, <2>2, <2>3
    <3> QED  BY <1>7, <2>2, <3>1 DEF AtFlush, AtDone, SinkStays
  <2>5. DoneIsFull'
    BY <1>1, <2>2 DEF DoneIsFull
  <2>6. /\ ev \in FieldEvents /\ ev.step = Ended /\ ev \in ProgressEvents
        /\ \A u \in Steps : ev \notin StepEvents(u)
    BY <1>2, ProgressEventIs
  <2> HIDE DEF ev
  <2>7. \A u \in Steps : StepPending(u)' \/ ~StepPending(u)
    BY <1>7, <2>2, <2>3 DEF StepPending
  <2>8. ~PctClaimed' /\ ~SubClaimed' /\ phase' # "over" /\ row.step = Ended
    <3>1. row.step = Ended
      BY DEF AtFlush
    <3>2. Left' # <<>> /\ ~(Len(Left') <= 3)
      BY <2>3
    <3> QED  BY <1>7, <2>2, <3>1, <3>2 DEF PctClaimed, SubClaimed, Succeeds
  <2>9. PublishCovered(ev)
    BY <2>6, <2>7, <2>8 DEF PublishCovered
  <2>10. TodoTyped'
    BY <2>2 DEF Onward
  <2> QED  BY <1>7, <1>8, <1>11, <2>1, <2>2, <2>4, <2>5, <2>9, <2>10 DEF Kept
<1> QED  BY <1>13, <1>14

(* The handler at an entry of a failed step.                                *)
LEMMA FailedAt ==
    ASSUME Core, Do("main"), phase = "leaving", at <= Len(JobSteps),
           NEW k \in 1..4, AtFailed(k)
    PROVE  Kept
<1> DEFINE script == OnStepFailed(Here)
<1>1. /\ JobTyped /\ TodoTyped /\ StreamTyped /\ MainTyped
      /\ "main" \in Actors
      /\ ReadersAreThere /\ DoneIsFull /\ LogsAttributed /\ MainIsThere
  BY DEF Core, Typed, Actors
<1>2. Here \in Steps
  BY <1>1, EventsAssumption DEF EventsAssumption, Here, Steps, MainTyped
<1>3. /\ script \in Seq(Ops) /\ Len(script) = 3
      /\ script[1] = Locked("leave", Here, 0)
      /\ script[2] = StepRow(Here, "failed")
      /\ script[3] = Publish(StepEvent(Here, "failed"))
  BY <1>2, FailedScript
<1>4. Left = Rest(script, k)
  BY DEF AtFailed
<1> HIDE DEF script
<1>5. k \in 1..Len(script)
  <2>1. Rest(script, 3 + 1) = <<>>
    BY <1>3, RestIsEmpty
  <2>2. Left # <<>>
    BY DEF Do, Left
  <2> QED  BY <1>3, <1>4, <2>1, <2>2
<1>6. Left # <<>> /\ Head(todo["main"]) = script[k]
  BY <1>3, <1>4, <1>5, RestStep DEF Left
<1>7. ASSUME Onward("main"), Elsewhere
      PROVE  /\ ReadersAreThere' /\ Len(Left) = 4 - k /\ Len(Left') = 3 - k
             /\ Here' = Here /\ Left' = Rest(OnStepFailed(Here'), k + 1)
  <2>1. /\ Left' = Rest(script, k + 1) /\ ReadersAreThere'
        /\ Len(Left) = Len(script) - k + 1 /\ Len(Left') = Len(script) - k
    <3>1. /\ script \in Seq(Ops) /\ Left = Rest(script, k)
          /\ Onward("main") /\ ReadersAreThere
      BY <1>1, <1>3, <1>4, <1>7
    <3> QED  BY <3>1, <1>5, AtRest
  <2>2. Here' = Here
    BY <1>7 DEF Elsewhere, Here
  <2>3. Len(Left) = 4 - k /\ Len(Left') = 3 - k
    BY <1>3, <2>1
  <2> QED  BY <2>1, <2>2, <2>3 DEF script
<1>8. ASSUME Elsewhere, AtFailed(k + 1)', row'.state = row.state
      PROVE  MainIsThere'
  <2>1. \E j \in 1..4 : AtFailed(j)'
    BY <1>3, <1>5, <1>8
  <2> QED  BY <1>1, <1>8, <2>1 DEF MainIsThere, Elsewhere
<1>9. ASSUME Onward("main"), Elsewhere, k \in {1, 2},
             \A t \in Steps \ {Here} : steps'[t] = steps[t]
      PROVE  WriteCovered
  <2>1. Len(Left') >= 1 /\ phase' = "leaving" /\ Here' = Here
        /\ Len(Left') \in Nat
    BY <1>7, <1>9 DEF Elsewhere
  <2>2. ASSUME NEW t \in Steps
        PROVE  StepPending(t)' \/ (~StepPending(t) /\ steps'[t] = steps[t])
    BY <1>9, <2>1 DEF StepPending
  <2>3. FieldPending'
    BY <2>1 DEF FieldPending
  <2> QED  BY <2>1, <2>2, <2>3
           DEF WriteCovered, PctClaimed, SubClaimed, Succeeds
<1>10. StreamStays => StreamTyped'
  BY <1>1 DEF StreamStays, StreamTyped
<1>11. SinkStays => LogsAttributed'
  BY <1>1 DEF SinkStays, LogsAttributed
<1>12. "failed" \in StepStates
  BY DEF StepStates
<1>13. row \in Rows /\ steps \in [Steps -> StepStates]
  BY <1>1 DEF JobTyped
<1>21. CASE k = 1
  <2>1. Head(todo["main"]) = Locked("leave", Here, 0)
    BY <1>3, <1>6, <1>21
  <2>2. /\ Onward("main") /\ JobTyped' /\ Elsewhere /\ StreamStays
        /\ row' = row /\ steps' = steps /\ misfiled' = misfiled
        /\ pending' = pending
    BY <1>1, <1>2, <2>1, DoesLeave
  <2>3. AtFailed(k + 1)'
    BY <1>2, <1>7, <1>21, <2>2 DEF AtFailed
  <2>4. DoneIsFull' /\ LogsAttributed'
    BY <1>1, <2>2 DEF DoneIsFull, LogsAttributed
  <2>5. WriteCovered
    BY <1>9, <1>21, <2>2
  <2>6. TodoTyped'
    BY <2>2 DEF Onward
  <2> QED  BY <1>7, <1>8, <1>10, <2>2, <2>3, <2>4, <2>5, <2>6 DEF Kept
<1>22. CASE k = 2
  <2>1. Head(todo["main"]) = StepRow(Here, "failed")
    BY <1>3, <1>6, <1>22
  <2>2. /\ Onward("main") /\ JobTyped' /\ Elsewhere /\ SinkStays
        /\ StreamStays
        /\ row' = row /\ steps' = [steps EXCEPT ![Here] = "failed"]
    BY <1>1, <1>2, <1>12, <2>1, DoesStepRow
  <2>3. AtFailed(k + 1)'
    BY <1>2, <1>7, <1>13, <1>22, <2>2 DEF AtFailed, SinkStays, Rows, OfStep
  <2>4. DoneIsFull'
    BY <1>1, <1>13, <1>22, <2>2 DEF DoneIsFull, AtFailed, Rows
  <2>5. WriteCovered
    BY <1>9, <1>13, <1>22, <2>2
  <2>6. TodoTyped' /\ row'.state = row.state
    BY <1>13, <2>2 DEF Onward, Rows
  <2> QED  BY <1>7, <1>8, <1>10, <1>11, <2>2, <2>3, <2>4, <2>5, <2>6 DEF Kept
<1>23. CASE k = 3
  <2> DEFINE ev == StepEvent(Here, "failed")
  <2>1. Head(todo["main"]) = Publish(ev) /\ ev \in Events
    BY <1>2, <1>3, <1>6, <1>12, <1>23, StepEventIs
  <2>2. /\ Onward("main") /\ JobTyped' /\ Elsewhere /\ SinkStays
        /\ row' = row /\ steps' = steps /\ Sent(ev) /\ StreamTyped'
    BY <1>1, <2>1, DoesPublish
  <2>3. AtFailed(k + 1)'
    BY <1>2, <1>7, <1>23, <2>2 DEF AtFailed, SinkStays
  <2>4. DoneIsFull'
    BY <1>1, <2>2 DEF DoneIsFull
  <2>5. /\ Len(Left') = 0 /\ Len(Left) = 1 /\ phase' = "leaving"
        /\ row.step = Here /\ steps[Here] = "failed"
    BY <1>7, <1>23, <2>2 DEF Elsewhere, AtFailed
  <2>6. /\ ev \in FieldEvents /\ ev.step = Here
        /\ \A t \in Steps \ {Here} : ev \notin StepEvents(t)
    BY <1>2, <1>12, StepEventIs
  <2> HIDE DEF ev
  <2>7. \A t \in Steps : \/ ev = StepEvent(t, steps[t])
                         \/ ev \notin StepEvents(t)
                            /\ (StepPending(t)' \/ ~StepPending(t))
    BY <2>5, <2>6 DEF StepPending, ev
  <2>8. PublishCovered(ev)
    BY <2>5, <2>6, <2>7 DEF PublishCovered, PctClaimed, SubClaimed, Succeeds
  <2>9. TodoTyped'
    BY <2>2 DEF Onward
  <2> QED  BY <1>7, <1>8, <1>11, <2>1, <2>2, <2>3, <2>4, <2>8, <2>9 DEF Kept
<1> QED  BY <1>3, <1>5, <1>21, <1>22, <1>23

(* The handler at an entry of the end of the job.                           *)
LEMMA EndAt ==
    ASSUME Core, Do("main"), phase = "over", NEW st \in Terminal,
           NEW k \in 1..3, AtEnd(st, k)
    PROVE  Kept
<1> DEFINE script == Finish(st)
<1>1. /\ JobTyped /\ TodoTyped /\ StreamTyped /\ MainTyped
      /\ "main" \in Actors
      /\ ReadersAreThere /\ DoneIsFull /\ LogsAttributed /\ MainIsThere
  BY DEF Core, Typed, Actors
<1>2. st \in States /\ st \in {"done", "failed"}
  BY DEF Terminal, States
<1>3. /\ script \in Seq(Ops) /\ Len(script) = 2
      /\ script[1] = JobState(st) /\ script[2] = Publish(EndEvent(st))
  BY EndScript
<1>4. Left = Rest(script, k)
  BY DEF AtEnd
<1> HIDE DEF script
<1>5. k \in 1..Len(script)
  <2>1. Rest(script, 2 + 1) = <<>>
    BY <1>3, RestIsEmpty
  <2>2. Left # <<>>
    BY DEF Do, Left
  <2> QED  BY <1>3, <1>4, <2>1, <2>2
<1>6. Left # <<>> /\ Head(todo["main"]) = script[k]
  BY ZenonT(60), <1>3, <1>4, <1>5, RestStep DEF Left
<1>7. ASSUME Onward("main"), Elsewhere
      PROVE  /\ ReadersAreThere' /\ Len(Left) = 3 - k /\ Len(Left') = 2 - k
             /\ Left' = Rest(Finish(st), k + 1) /\ phase' = "over"
  <2>1. /\ Left' = Rest(script, k + 1) /\ ReadersAreThere'
        /\ Len(Left) = Len(script) - k + 1 /\ Len(Left') = Len(script) - k
    <3>1. /\ script \in Seq(Ops) /\ Left = Rest(script, k)
          /\ Onward("main") /\ ReadersAreThere
      BY <1>1, <1>3, <1>4, <1>7
    <3> QED  BY <3>1, <1>5, AtRest
  <2>3. Len(Left) = 3 - k /\ Len(Left') = 2 - k
    BY <1>3, <2>1
  <2> QED  BY <1>7, <2>1, <2>3 DEF script, Elsewhere
<1>8. ASSUME Elsewhere, AtEnd(st, k + 1)'  PROVE  MainIsThere'
  <2>1. \E j \in 1..3 : AtEnd(st, j)'
    BY <1>3, <1>5, <1>8
  <2> QED  BY <1>1, <1>8, <2>1 DEF MainIsThere, Elsewhere
<1>9. \A t \in Steps : ~StepPending(t)
  BY DEF StepPending
<1>10. StreamStays => StreamTyped'
  BY <1>1 DEF StreamStays, StreamTyped
<1>11. SinkStays => LogsAttributed'
  BY <1>1 DEF SinkStays, LogsAttributed
<1>13. row \in Rows /\ steps \in [Steps -> StepStates]
  BY <1>1 DEF JobTyped
<1>14. ~FieldPending
  BY DEF FieldPending
<1>21. CASE k = 1
  <2>1. Head(todo["main"]) = JobState(st)
    BY <1>3, <1>6, <1>21
  <2>2. /\ Onward("main") /\ JobTyped' /\ Elsewhere /\ SinkStays
        /\ StreamStays
        /\ row' = [row EXCEPT !.state = st] /\ steps' = steps
    BY <1>1, <1>2, <2>1, DoesJobState
  <2>3. AtEnd(st, k + 1)'
    BY <1>7, <1>13, <1>21, <2>2 DEF AtEnd, Rows
  <2>4. DoneIsFull'
    BY <1>1, <1>13, <2>2 DEF DoneIsFull, Rows
  <2>5. row'.step = row.step /\ row'.state = st /\ st \in Terminal
        /\ Left = Finish(st)
    <3>1. Rest(script, 1) = script
      BY <1>3, RestIsAll
    <3> QED  BY <1>4, <1>13, <1>21, <2>2, <3>1 DEF Rows, script
  <2>6. Succeeds' => Succeeds
    <3>1. Len(Left') = 1
      BY <1>7, <1>21, <2>2
    <3>2. Finish("done") # Left'
      BY <3>1, EndScript DEF Terminal
    <3>3. Succeeds' => st = "done"
      BY <2>5, <3>2 DEF Succeeds
    <3> QED  BY <2>5, <3>3 DEF Succeeds
  <2>7. WriteCovered
    <3>1. Left' # <<>> /\ phase' = "over"
      <4>1. Len(Left') = 1 /\ Len(<<>>) = 0
        BY <1>7, <1>21, <2>2
      <4>2. phase' = "over"
        BY <1>7, <2>2
      <4> QED  BY <4>1, <4>2
    <3>2. (PctClaimed' => PctClaimed) /\ (SubClaimed' => SubClaimed)
      BY <2>6, <3>1 DEF PctClaimed, SubClaimed
    <3> QED  BY <1>9, <1>14, <2>2, <2>5, <3>1, <3>2 DEF WriteCovered
  <2>8. TodoTyped'
    BY <2>2 DEF Onward
  <2> QED  BY <1>7, <1>8, <1>10, <1>11, <2>2, <2>3, <2>4, <2>5, <2>7, <2>8
           DEF Kept
<1>22. CASE k = 2
  <2> DEFINE ev == EndEvent(st)
  <2>1. Head(todo["main"]) = Publish(ev) /\ ev \in Events
    BY <1>3, <1>6, <1>22, EndEventIs
  <2>2. /\ Onward("main") /\ JobTyped' /\ Elsewhere /\ SinkStays
        /\ row' = row /\ steps' = steps /\ Sent(ev) /\ StreamTyped'
    BY <1>1, <2>1, DoesPublish
  <2>3. AtEnd(st, k + 1)'
    BY <1>7, <1>22, <2>2 DEF AtEnd
  <2>4. DoneIsFull'
    BY <1>1, <2>2 DEF DoneIsFull
  <2>5. Len(Left') = 0 /\ phase' = "over" /\ row.state = st
    BY <1>7, <1>22, <2>2 DEF AtEnd
  <2>6. /\ ev \notin FieldEvents /\ ev \notin ProgressEvents
        /\ ev \notin SubEvents /\ \A t \in Steps : ev \notin StepEvents(t)
        /\ ev = EndEvent(row.state)
    BY <2>5, EndEventIs
  <2> HIDE DEF ev
  <2>7. Succeeds' => Succeeds
    <3>1. Finish("done") # Left'
      BY <2>5, EndScript DEF Terminal
    <3> QED  BY <2>2, <2>5, <3>1 DEF Succeeds
  <2>8. (PctClaimed' => PctClaimed) /\ (SubClaimed' => SubClaimed)
    BY <2>5, <2>7 DEF PctClaimed, SubClaimed
  <2>9. PublishCovered(ev)
    BY <1>9, <1>14, <2>6, <2>8 DEF PublishCovered
  <2>10. TodoTyped'
    BY <2>2 DEF Onward
  <2> QED  BY <1>7, <1>8, <1>11, <2>1, <2>2, <2>3, <2>4, <2>9, <2>10 DEF Kept
<1> QED  BY <1>3, <1>5, <1>21, <1>22

(* The handler at the start of the job.                                     *)
LEMMA StartedAt ==
    ASSUME Core, Do("main"), phase = "between", NEW k \in 1..2, AtStarted(k)
    PROVE  Kept
<1> DEFINE script == <<JobState("running")>>
<1>1. /\ JobTyped /\ TodoTyped /\ StreamTyped /\ MainTyped
      /\ "main" \in Actors
      /\ ReadersAreThere /\ DoneIsFull /\ LogsAttributed /\ MainIsThere
  BY DEF Core, Typed, Actors
<1>2. "running" \in States
  BY DEF States
<1>3. /\ script \in Seq(Ops) /\ Len(script) = 1
      /\ script[1] = JobState("running")
  BY StartedScript
<1>4. Left = Rest(script, k) /\ at = 1
  BY DEF AtStarted
<1> HIDE DEF script
<1>5. k \in 1..Len(script)
  <2>1. Rest(script, 1 + 1) = <<>>
    BY <1>3, RestIsEmpty
  <2>2. Left # <<>>
    BY DEF Do, Left
  <2> QED  BY <1>3, <1>4, <2>1, <2>2
<1>6. k = 1 /\ Left # <<>> /\ Head(todo["main"]) = JobState("running")
  <2>1. k = 1
    BY <1>3, <1>5
  <2>2. Left # <<>> /\ Head(Left) = script[k]
    BY <1>3, <1>4, <1>5, RestStep
  <2> QED  BY <1>3, <2>1, <2>2 DEF Left
<1>7. /\ Onward("main") /\ JobTyped' /\ Elsewhere /\ SinkStays /\ StreamStays
      /\ row' = [row EXCEPT !.state = "running"] /\ steps' = steps
  BY <1>1, <1>2, <1>6, DoesJobState
<1>8. Left' = Rest(script, k + 1) /\ ReadersAreThere'
  <2>1. /\ script \in Seq(Ops) /\ Left = Rest(script, k)
        /\ Onward("main") /\ ReadersAreThere
    BY <1>1, <1>3, <1>4, <1>7
  <2> QED  BY <2>1, <1>5, AtRest
<1>9. row \in Rows
  BY <1>1 DEF JobTyped
<1>10. AtStarted(2)'
  BY <1>6, <1>7, <1>8, <1>9 DEF AtStarted, script, Elsewhere, SinkStays, Rows
<1>11. row.state \notin Terminal /\ row'.state \notin Terminal
       /\ row'.step = row.step
  BY <1>7, <1>9 DEF AtStarted, Terminal, Rows
<1>12. MainIsThere'
  <2>1. \E j \in 1..2 : AtStarted(j)'
    BY <1>10
  <2> QED  BY <1>7, <1>11, <2>1 DEF MainIsThere, Elsewhere
<1>13. DoneIsFull' /\ LogsAttributed' /\ StreamTyped' /\ TodoTyped'
  BY <1>1, <1>7, <1>9
     DEF DoneIsFull, Rows, LogsAttributed, SinkStays, StreamStays,
         StreamTyped, Onward
<1>14. WriteCovered
  <2>1. phase' = "between" /\ at' = 1
    BY <1>4, <1>7 DEF Elsewhere
  <2>2. \A t \in Steps : ~StepPending(t)
    BY <1>4 DEF StepPending
  <2>3. ~FieldPending /\ ~PctClaimed' /\ ~SubClaimed'
    BY <1>4, <2>1 DEF FieldPending, PctClaimed, SubClaimed, Succeeds
  <2> QED  BY <1>7, <1>11, <2>1, <2>2, <2>3 DEF WriteCovered
<1> QED  BY <1>7, <1>8, <1>11, <1>12, <1>13, <1>14 DEF Kept

(* Whatever main does, it stays on its way and covers what it writes.       *)
LEMMA MainDoes ==
    ASSUME Core, Do("main")
    PROVE  Kept
<1>1. MainIsThere /\ MainTyped /\ "main" \in Actors /\ Left # <<>>
      /\ EventsAssumption
  BY EventsAssumption DEF Core, Typed, Actors, Do, Left
<1>2. CASE phase = "queued"
  BY <1>1, <1>2 DEF MainIsThere, AtQueued
<1>3. CASE phase = "between"
  <2>1. CASE \E k \in 1..2 : AtStarted(k)
    BY <1>3, <2>1, StartedAt
  <2>2. CASE at > 1 /\ \E k \in 1..8 : AtDone(k)
    BY <1>3, <2>2, DoneAt
  <2>3. CASE at > 1 /\ \E k \in 1..2 : AtFlush(k)
    BY <1>3, <2>3, FlushAt
  <2> QED  BY <1>1, <1>3, <2>1, <2>2, <2>3 DEF MainIsThere
<1>4. CASE phase = "reading"
  BY <1>1, <1>4, StartAt DEF MainIsThere
<1>5. CASE phase = "joined"
  <2>1. AtStart(7) /\ at <= Len(JobSteps)
    BY <1>1, <1>5 DEF MainIsThere
  <2>2. OnStepStart(Here) \in Seq(Ops) /\ Len(OnStepStart(Here)) = 6
    <3>1. Here \in Steps
      BY <1>1, <2>1 DEF EventsAssumption, Here, Steps, MainTyped
    <3> QED  BY <3>1, StartScript
  <2>3. Rest(OnStepStart(Here), 6 + 1) = <<>>
    BY <2>2, RestIsEmpty
  <2> QED  BY <1>1, <2>1, <2>3 DEF AtStart
<1>6. CASE phase = "leaving"
  BY <1>1, <1>6, FailedAt DEF MainIsThere
<1>7. CASE phase = "over"
  BY <1>1, <1>7, EndAt DEF MainIsThere
<1> QED  BY <1>1, <1>2, <1>3, <1>4, <1>5, <1>6, <1>7 DEF MainTyped

----------------------------------------------------------------------------
(* The operations of a reader.                                              *)

(* What a reader may have to do.                                            *)
LEMMA CallsOfReaders ==
    ASSUME NEW s \in Steps
    PROVE  /\ \A p \in 0..Full :
                 /\ OnProgress(s, p) \in ReaderCalls(s)
                 /\ FlushProgress(s, p) \in ReaderCalls(s)
                 /\ <<Publish(ProgressEvent(s, p))>> \in ReaderCalls(s)
           /\ OnSubStep("phase") \in ReaderCalls(s)
           /\ <<Publish(SubStepEvent("phase"))>> \in ReaderCalls(s)
           /\ OnLog(s) \in ReaderCalls(s)
           /\ <<Publish(LogEvent)>> \in ReaderCalls(s)
           /\ \A q \in ReaderCalls(s) :
                 \/ \E p \in 0..Full : q = OnProgress(s, p)
                 \/ \E p \in 0..Full : q = FlushProgress(s, p)
                 \/ \E p \in 0..Full : q = <<Publish(ProgressEvent(s, p))>>
                 \/ q = OnSubStep("phase")
                 \/ q = <<Publish(SubStepEvent("phase"))>>
                 \/ q = OnLog(s)
                 \/ q = <<Publish(LogEvent)>>
<1>1. \A q : q \in {OnProgress(s, p) : p \in 0..Full} <=>
                \E p \in 0..Full : q = OnProgress(s, p)
  OBVIOUS
<1>2. \A q : q \in {FlushProgress(s, p) : p \in 0..Full} <=>
                \E p \in 0..Full : q = FlushProgress(s, p)
  OBVIOUS
<1>3. \A q : q \in {<<Publish(ProgressEvent(s, p))>> : p \in 0..Full} <=>
                \E p \in 0..Full : q = <<Publish(ProgressEvent(s, p))>>
  OBVIOUS
<1>4. \A q : q \in {OnSubStep("phase"), <<Publish(SubStepEvent("phase"))>>,
                    OnLog(s), <<Publish(LogEvent)>>} <=>
                \/ q = OnSubStep("phase")
                \/ q = <<Publish(SubStepEvent("phase"))>>
                \/ q = OnLog(s)
                \/ q = <<Publish(LogEvent)>>
  OBVIOUS
<1>5. \A q : q \in ReaderCalls(s) <=>
         \/ \E p \in 0..Full : q = OnProgress(s, p)
         \/ \E p \in 0..Full : q = FlushProgress(s, p)
         \/ \E p \in 0..Full : q = <<Publish(ProgressEvent(s, p))>>
         \/ q = OnSubStep("phase")
         \/ q = <<Publish(SubStepEvent("phase"))>>
         \/ q = OnLog(s)
         \/ q = <<Publish(LogEvent)>>
  BY <1>1, <1>2, <1>3, <1>4, Zenon DEF ReaderCalls
<1> QED  BY <1>5, Zenon

(* A reader does an entry of what it has to do.                             *)
LEMMA ReaderDoes ==
    ASSUME Core, NEW r \in Readers, Do(r)
    PROVE  Kept
<1>1. /\ JobTyped /\ TodoTyped /\ StreamTyped /\ MainTyped /\ r \in Actors
      /\ ReadersAreThere /\ DoneIsFull /\ LogsAttributed /\ MainIsThere
      /\ "main" \in Actors /\ r # "main"
  BY DEF Core, Typed, Actors, Readers
<1>2. /\ todo[r] # <<>> /\ phase = "reading" /\ Left = <<>>
      /\ todo[r] \in ReaderCalls(Here)
  BY <1>1 DEF Do, ReadersAreThere
<1>3. at <= Len(JobSteps) /\ Here \in Steps
  BY <1>1, <1>2, EventsAssumption
     DEF EventsAssumption, MainIsThere, Here, Steps, MainTyped
<1>4. AtStart(7)
  <2>1. PICK k \in 1..7 : AtStart(k)
    BY <1>1, <1>2 DEF MainIsThere
  <2> DEFINE script == OnStepStart(Here)
  <2>2. script \in Seq(Ops) /\ Len(script) = 6
    BY <1>3, StartScript
  <2>3. Rest(script, k) = <<>>
    BY <1>2, <2>1 DEF AtStart
  <2> HIDE DEF script
  <2>4. ~(k \in 1..Len(script))
    BY <2>2, <2>3, RestStep
  <2>5. k = 7
    BY <2>2, <2>4
  <2> QED  BY <2>1, <2>5
<1>5. /\ OfStep(Here) /\ current = Here /\ steps[Here] = "running"
      /\ row.step = Here /\ Rest(OnStepStart(Here), 7) = <<>>
  BY <1>2, <1>4 DEF AtStart
<1>6. row \in Rows
  BY <1>1 DEF JobTyped
<1>7. ASSUME Elsewhere, Left' = Left, OfStep(Here)', current' = current,
             steps' = steps, row'.step = row.step, row'.state = row.state
      PROVE  MainIsThere'
  <2>1. Here' = Here
    BY <1>7 DEF Elsewhere, Here
  <2>2. AtStart(7)'
    BY <1>2, <1>5, <1>7, <2>1 DEF AtStart
  <2> QED  BY <1>1, <1>2, <1>3, <1>7, <2>2 DEF MainIsThere, Elsewhere
<1>8. ASSUME Onward(r), Elsewhere,
             Tail(todo[r]) = <<>> \/ Tail(todo[r]) \in ReaderCalls(Here)
      PROVE  ReadersAreThere' /\ Left' = Left /\ TodoTyped'
  <2>1. Here' = Here /\ phase' = "reading" /\ Left' = Left
    BY <1>1, <1>2, <1>8 DEF Elsewhere, Here, Onward, Left
  <2>2. \A u \in Readers \ {r} : todo'[u] = todo[u]
    BY <1>8 DEF Onward, Actors
  <2>3. ASSUME NEW u \in Readers, todo'[u] # <<>>
        PROVE  todo'[u] \in ReaderCalls(Here)
    BY <1>1, <1>8, <2>2, <2>3 DEF ReadersAreThere, Onward
  <2> QED  BY <1>2, <1>8, <2>1, <2>3 DEF ReadersAreThere, Onward
<1>9. ASSUME Elsewhere, Left' = Left, steps' = steps, row'.step = row.step
      PROVE  /\ \A s \in Steps : ~StepPending(s) /\ ~StepPending(s)'
             /\ ~FieldPending /\ ~FieldPending'
             /\ ~PctClaimed' /\ ~SubClaimed' /\ phase' = "reading"
             /\ WriteCovered
  <2>1. phase' = "reading" /\ Len(Left) = 0 /\ Len(Left') = 0
    BY <1>2, <1>9 DEF Elsewhere
  <2>2. \A s \in Steps : ~StepPending(s) /\ ~StepPending(s)'
    BY <1>2, <2>1 DEF StepPending
  <2>3. ~FieldPending /\ ~FieldPending' /\ ~PctClaimed' /\ ~SubClaimed'
    BY <1>2, <2>1 DEF FieldPending, PctClaimed, SubClaimed, Succeeds
  <2> QED  BY <1>9, <2>1, <2>2, <2>3 DEF WriteCovered
<1>10. StreamStays => StreamTyped'
  BY <1>1 DEF StreamStays, StreamTyped
<1>11. SinkStays => LogsAttributed'
  BY <1>1 DEF SinkStays, LogsAttributed
<1>12. Elsewhere /\ pending' = pending => OfStep(Here)'
  BY <1>5 DEF OfStep, Elsewhere, Here
<1>13. ASSUME NEW op \in Ops, todo[r] = <<op>>
       PROVE  Head(todo[r]) = op /\ Tail(todo[r]) = <<>>
  BY <1>13
<1>14. ASSUME NEW op \in Ops, NEW more \in Ops, todo[r] = <<op, more>>
       PROVE  Head(todo[r]) = op /\ Tail(todo[r]) = <<more>>
  BY <1>14
<1>21. ASSUME NEW p \in 0..Full, todo[r] = OnProgress(Here, p)
       PROVE  Kept
  <2>1. Head(todo[r]) = Locked("report", Here, p) /\ Tail(todo[r]) = <<>>
    <3>1. Locked("report", Here, p) \in Ops
      BY <1>3, OpsThere DEF Sections
    <3> QED  BY <1>13, <1>21, <3>1 DEF OnProgress
  <2>2. /\ JobTyped' /\ Elsewhere /\ StreamStays
        /\ row' = row /\ steps' = steps /\ misfiled' = misfiled
        /\ current' = current
        /\ \/ Onward(r) /\ pending' = [step |-> Here, pct |-> p]
           \/ Flushes(r, Here, p) /\ pending' = NoProgress
    BY <1>1, <1>3, <2>1, DoesReport
  <2>3. Here' = Here /\ OfStep(Here)'
    BY <2>2 DEF Elsewhere, Here, OfStep
  <2>4. ReadersAreThere' /\ Left' = Left /\ TodoTyped'
    <3>1. CASE Onward(r)
      BY <1>8, <2>1, <2>2, <3>1
    <3>2. CASE Flushes(r, Here, p)
      <4>1. FlushProgress(Here, p) \in Seq(Ops)
        BY <1>3, FlushScript
      <4>2. todo'[r] = FlushProgress(Here, p)
        BY <2>1, <3>2, <4>1, ConcatEmptySeq DEF Flushes
      <4>3. Left' = Left /\ \A u \in Readers \ {r} : todo'[u] = todo[u]
        BY <1>1, <3>2 DEF Flushes, Left, Actors
      <4>4. FlushProgress(Here, p) \in ReaderCalls(Here)
        BY <1>3, CallsOfReaders
      <4>5. phase' = phase
        BY <2>2 DEF Elsewhere
      <4>6. ReadersAreThere'
        BY <1>1, <1>2, <2>3, <4>2, <4>3, <4>4, <4>5 DEF ReadersAreThere
      <4> QED  BY <3>2, <4>3, <4>6 DEF Flushes
    <3> QED  BY <2>2, <3>1, <3>2
  <2>5. DoneIsFull' /\ LogsAttributed'
    BY <1>1, <2>2 DEF DoneIsFull, LogsAttributed
  <2>6. MainIsThere' /\ WriteCovered
    BY <1>7, <1>9, <2>2, <2>3, <2>4
  <2> QED  BY <1>10, <2>2, <2>4, <2>5, <2>6 DEF Kept
<1>22. ASSUME NEW p \in 0..Full, todo[r] = FlushProgress(Here, p)
       PROVE  Kept
  <2>1. Head(todo[r]) = Progress(Here, p)
        /\ Tail(todo[r]) = <<Publish(ProgressEvent(Here, p))>>
    <3>1. Progress(Here, p) \in Ops /\ Publish(ProgressEvent(Here, p)) \in Ops
      BY <1>3, OpsThere, EventsThere
    <3> QED  BY <1>14, <1>22, <3>1 DEF FlushProgress
  <2>2. /\ Onward(r) /\ JobTyped' /\ Elsewhere /\ SinkStays /\ StreamStays
        /\ row' = [row EXCEPT !.step = Here, !.pct = p] /\ steps' = steps
    BY <1>1, <1>3, <2>1, DoesProgress
  <2>3. ReadersAreThere' /\ Left' = Left /\ TodoTyped'
    BY <1>3, <1>8, <2>1, <2>2, CallsOfReaders
  <2>4. row'.step = row.step /\ row'.state = row.state
    BY <1>5, <1>6, <2>2 DEF Rows
  <2>5. DoneIsFull'
    BY <1>1, <1>5, <1>6, <2>2 DEF DoneIsFull, Rows
  <2>6. MainIsThere' /\ WriteCovered
    BY <1>7, <1>9, <1>12, <2>2, <2>3, <2>4 DEF SinkStays
  <2> QED  BY <1>10, <1>11, <2>2, <2>3, <2>4, <2>5, <2>6 DEF Kept
<1>23. ASSUME NEW p \in 0..Full,
              todo[r] = <<Publish(ProgressEvent(Here, p))>>
       PROVE  Kept
  <2> DEFINE ev == ProgressEvent(Here, p)
  <2>1. ev \in Events /\ Head(todo[r]) = Publish(ev) /\ Tail(todo[r]) = <<>>
    <3>1. ev \in Events /\ Publish(ev) \in Ops
      BY <1>3, OpsThere, EventsThere
    <3> QED  BY <1>13, <1>23, <3>1
  <2>2. /\ Onward(r) /\ JobTyped' /\ Elsewhere /\ SinkStays
        /\ row' = row /\ steps' = steps /\ Sent(ev) /\ StreamTyped'
    BY <1>1, <2>1, DoesPublish
  <2>3. ReadersAreThere' /\ Left' = Left /\ TodoTyped'
    BY <1>8, <2>1, <2>2
  <2>4. DoneIsFull'
    BY <1>1, <2>2 DEF DoneIsFull
  <2>5. MainIsThere'
    BY <1>7, <1>12, <2>2, <2>3 DEF SinkStays
  <2>6. /\ ev \in FieldEvents /\ ev.step = Here
        /\ \A s \in Steps : ev \notin StepEvents(s)
    BY <1>3, ProgressEventIs
  <2> HIDE DEF ev
  <2>7. PublishCovered(ev)
    BY <1>5, <1>9, <2>2, <2>3, <2>6 DEF PublishCovered
  <2> QED  BY <1>11, <2>1, <2>2, <2>3, <2>4, <2>5, <2>7 DEF Kept
<1>24. ASSUME todo[r] = OnSubStep("phase")  PROVE  Kept
  <2>1. Head(todo[r]) = SubStep("phase")
        /\ Tail(todo[r]) = <<Publish(SubStepEvent("phase"))>>
    <3>1. SubStep("phase") \in Ops /\ Publish(SubStepEvent("phase")) \in Ops
      BY OpsThere, EventsThere
    <3> QED  BY <1>14, <1>24, <3>1 DEF OnSubStep
  <2>2. /\ Onward(r) /\ JobTyped' /\ Elsewhere /\ SinkStays /\ StreamStays
        /\ row' = [row EXCEPT !.sub = "phase"] /\ steps' = steps
    BY <1>1, <2>1, DoesSubStep
  <2>3. ReadersAreThere' /\ Left' = Left /\ TodoTyped'
    BY <1>3, <1>8, <2>1, <2>2, CallsOfReaders
  <2>4. row'.step = row.step /\ row'.state = row.state
    BY <1>6, <2>2 DEF Rows
  <2>5. DoneIsFull'
    BY <1>1, <1>6, <2>2 DEF DoneIsFull, Rows
  <2>6. MainIsThere' /\ WriteCovered
    BY <1>7, <1>9, <1>12, <2>2, <2>3, <2>4 DEF SinkStays
  <2> QED  BY <1>10, <1>11, <2>2, <2>3, <2>4, <2>5, <2>6 DEF Kept
<1>25. ASSUME todo[r] = <<Publish(SubStepEvent("phase"))>>  PROVE  Kept
  <2> DEFINE ev == SubStepEvent("phase")
  <2>1. ev \in Events /\ Head(todo[r]) = Publish(ev) /\ Tail(todo[r]) = <<>>
    <3>1. ev \in Events /\ Publish(ev) \in Ops
      BY OpsThere, EventsThere
    <3> QED  BY <1>13, <1>25, <3>1
  <2>2. /\ Onward(r) /\ JobTyped' /\ Elsewhere /\ SinkStays
        /\ row' = row /\ steps' = steps /\ Sent(ev) /\ StreamTyped'
    BY <1>1, <2>1, DoesPublish
  <2>3. ReadersAreThere' /\ Left' = Left /\ TodoTyped'
    BY <1>8, <2>1, <2>2
  <2>4. DoneIsFull'
    BY <1>1, <2>2 DEF DoneIsFull
  <2>5. MainIsThere'
    BY <1>7, <1>12, <2>2, <2>3 DEF SinkStays
  <2>6. ev \notin FieldEvents /\ \A s \in Steps : ev \notin StepEvents(s)
    BY SubStepEventIs
  <2> HIDE DEF ev
  <2>7. PublishCovered(ev)
    BY <1>9, <2>2, <2>3, <2>6 DEF PublishCovered
  <2> QED  BY <1>11, <2>1, <2>2, <2>3, <2>4, <2>5, <2>7 DEF Kept
<1>26. ASSUME todo[r] = OnLog(Here)  PROVE  Kept
  <2>1. Head(todo[r]) = Locked("log", Here, 0)
        /\ Tail(todo[r]) = <<Publish(LogEvent)>>
    <3>1. 0 \in 0..Full
      BY DEF Full
    <3>2. Locked("log", Here, 0) \in Ops
      BY <1>3, <3>1, OpsThere DEF Sections
    <3>3. Publish(LogEvent) \in Ops
      BY OpsThere, EventsThere
    <3> QED  BY <1>14, <1>26, <3>2, <3>3 DEF OnLog
  <2>2. /\ Onward(r) /\ JobTyped' /\ Elsewhere /\ SinkStays /\ StreamStays
        /\ row' = row /\ steps' = steps
    BY <1>1, <1>3, <1>5, <2>1, DoesLog
  <2>3. ReadersAreThere' /\ Left' = Left /\ TodoTyped'
    BY <1>3, <1>8, <2>1, <2>2, CallsOfReaders
  <2>4. DoneIsFull'
    BY <1>1, <2>2 DEF DoneIsFull
  <2>5. MainIsThere' /\ WriteCovered
    BY <1>7, <1>9, <1>12, <2>2, <2>3 DEF SinkStays
  <2> QED  BY <1>10, <1>11, <2>2, <2>3, <2>4, <2>5 DEF Kept
<1>27. ASSUME todo[r] = <<Publish(LogEvent)>>  PROVE  Kept
  <2> DEFINE ev == LogEvent
  <2>1. ev \in Events /\ Head(todo[r]) = Publish(ev) /\ Tail(todo[r]) = <<>>
    <3>1. ev \in Events /\ Publish(ev) \in Ops
      BY OpsThere, EventsThere
    <3> QED  BY <1>13, <1>27, <3>1
  <2>2. /\ Onward(r) /\ JobTyped' /\ Elsewhere /\ SinkStays
        /\ row' = row /\ steps' = steps /\ Sent(ev) /\ StreamTyped'
    BY <1>1, <2>1, DoesPublish
  <2>3. ReadersAreThere' /\ Left' = Left /\ TodoTyped'
    BY <1>8, <2>1, <2>2
  <2>4. DoneIsFull'
    BY <1>1, <2>2 DEF DoneIsFull
  <2>5. MainIsThere'
    BY <1>7, <1>12, <2>2, <2>3 DEF SinkStays
  <2>6. ev \notin FieldEvents /\ \A s \in Steps : ev \notin StepEvents(s)
    BY LogEventIs
  <2> HIDE DEF ev
  <2>7. PublishCovered(ev)
    BY <1>9, <2>2, <2>3, <2>6 DEF PublishCovered
  <2> QED  BY <1>11, <2>1, <2>2, <2>3, <2>4, <2>5, <2>7 DEF Kept
<1>28. \/ \E p \in 0..Full : todo[r] = OnProgress(Here, p)
       \/ \E p \in 0..Full : todo[r] = FlushProgress(Here, p)
       \/ \E p \in 0..Full : todo[r] = <<Publish(ProgressEvent(Here, p))>>
       \/ todo[r] = OnSubStep("phase")
       \/ todo[r] = <<Publish(SubStepEvent("phase"))>>
       \/ todo[r] = OnLog(Here)
       \/ todo[r] = <<Publish(LogEvent)>>
  BY <1>2, <1>3, CallsOfReaders
<1> QED  BY <1>21, <1>22, <1>23, <1>24, <1>25, <1>26, <1>27, <1>28

----------------------------------------------------------------------------
(* The calls begin.                                                         *)

(* Where main is when it has nothing left to do.                            *)
LEMMA IdleReading ==
    ASSUME Core, phase = "reading", Left = <<>>
    PROVE  AtStart(7) /\ at <= Len(JobSteps) /\ Here \in Steps
<1>1. MainIsThere /\ MainTyped
  BY DEF Core, Typed
<1>2. at <= Len(JobSteps) /\ Here \in Steps
  BY <1>1, EventsAssumption
     DEF EventsAssumption, MainIsThere, Here, Steps, MainTyped
<1>3. PICK k \in 1..7 : AtStart(k)
  BY <1>1 DEF MainIsThere
<1> DEFINE script == OnStepStart(Here)
<1>4. script \in Seq(Ops) /\ Len(script) = 6
  BY <1>2, StartScript
<1>5. Rest(script, k) = <<>>
  BY <1>3 DEF AtStart
<1> HIDE DEF script
<1>6. ~(k \in 1..Len(script))
  BY <1>4, <1>5, RestStep
<1>7. k = 7
  BY <1>4, <1>6
<1> QED  BY <1>2, <1>3, <1>7

(* Inside the flush something is left to do.                                *)
LEMMA FlushIsLeft ==
    ASSUME Core, phase = "between", at > 1, NEW k \in 1..2, AtFlush(k)
    PROVE  Left # <<>>
<1> DEFINE t == Rest(OnStepDone(Ended), 3)
<1>1. Ended \in Steps
  BY EventsAssumption
     DEF EventsAssumption, Core, Typed, Ended, Steps, MainTyped
<1>2. t \in Seq(Ops) /\ Len(t) = 5
  <2> DEFINE script == OnStepDone(Ended)
  <2>1. script \in Seq(Ops) /\ Len(script) = 7
    BY <1>1, DoneScript
  <2> HIDE DEF script
  <2>2. 3 \in 1..Len(script)
    BY <2>1
  <2>3. /\ Rest(script, 3) \in Seq(Ops)
        /\ Len(Rest(script, 3)) = Len(script) - 3 + 1
    BY <2>1, <2>2, RestStep
  <2> QED  BY <2>1, <2>3 DEF script
<1>3. PICK p \in 0..Full : Left = Rest(FlushProgress(Ended, p), k) \o t
  BY DEF AtFlush
<1> DEFINE flush == FlushProgress(Ended, p)
<1>4. flush \in Seq(Ops) /\ Len(flush) = 2
  BY <1>1, FlushScript
<1> HIDE DEF t, flush
<1>5. k \in 1..Len(flush)
  BY <1>4
<1>6. Rest(flush, k) \in Seq(Ops)
  BY <1>4, <1>5, RestStep
<1>7. Len(Rest(flush, k) \o t) = Len(Rest(flush, k)) + Len(t)
  BY <1>2, <1>6, Joined
<1>8. Len(Left) # 0
  BY <1>2, <1>3, <1>6, <1>7 DEF flush
<1> QED  BY <1>8

(* Between two steps the script of the first is done.                       *)
LEMMA IdleBetween ==
    ASSUME Core, phase = "between", Left = <<>>
    PROVE  /\ pending = NoProgress
           /\ at > 1 => AtDone(8)
<1>1. MainIsThere /\ MainTyped
  BY DEF Core, Typed
<1>2. CASE at > 1
  <2>1. PICK k \in 1..8 : AtDone(k)
    BY <1>1, <1>2, FlushIsLeft DEF MainIsThere, AtStarted
  <2> DEFINE script == OnStepDone(Ended)
  <2>2. Ended \in Steps
    BY <1>1, <1>2, EventsAssumption
       DEF EventsAssumption, Ended, Steps, MainTyped
  <2>3. script \in Seq(Ops) /\ Len(script) = 7
    BY <2>2, DoneScript
  <2>4. Rest(script, k) = <<>>
    BY <2>1 DEF AtDone
  <2> HIDE DEF script
  <2>5. ~(k \in 1..Len(script))
    BY <2>3, <2>4, RestStep
  <2>6. k = 8
    BY <2>3, <2>5
  <2> QED  BY <2>1, <2>6 DEF AtDone
<1>3. CASE ~(at > 1)
  BY <1>1, <1>3 DEF MainIsThere, AtStarted
<1> QED  BY <1>2, <1>3

(* What a step that only begins a call leaves behind.                       *)
Begun ==
    /\ Core' /\ row' = row /\ StreamStays /\ WriteCovered
    /\ UNCHANGED <<link, snap, view, blank>>

(* The job starts.                                                          *)
LEMMA JobBegins ==
    ASSUME Core, StartJob
    PROVE  Begun
<1>1. /\ JobTyped /\ TodoTyped /\ StreamTyped /\ MainTyped /\ WebTyped
      /\ ReadersAreThere /\ DoneIsFull /\ LogsAttributed /\ MainIsThere
  BY DEF Core, Typed
<1> DEFINE script == <<JobState("running")>>
<1>2. script \in Seq(Ops) /\ Rest(script, 1) = script
  <2>1. script \in Seq(Ops)
    BY StartedScript
  <2> HIDE DEF script
  <2> QED  BY <2>1, RestIsAll
<1>3. /\ phase = "queued" /\ phase' = "between" /\ Left = <<>>
      /\ todo' = [todo EXCEPT !["main"] = script]
      /\ UNCHANGED <<row, steps, current, pending, at, reports, misfiled>>
      /\ UNCHANGED <<chan, sub, closes, link, snap, view, blank, dials>>
  BY DEF StartJob, Call, Idle, Left, jobVars, sinkVars, streamVars, webVars
<1> HIDE DEF script
<1>4. Left' = script /\ TodoTyped' /\ \A r \in Readers : todo'[r] = todo[r]
  BY <1>1, <1>2, <1>3 DEF TodoTyped, Left, Actors, Readers
<1>5. JobTyped' /\ StreamTyped' /\ MainTyped' /\ WebTyped'
  BY <1>1, <1>3 DEF JobTyped, StreamTyped, MainTyped, WebTyped
<1>6. ReadersAreThere' /\ DoneIsFull' /\ LogsAttributed'
  BY <1>1, <1>3, <1>4 DEF ReadersAreThere, DoneIsFull, LogsAttributed
<1>7. AtStarted(1)'
  BY <1>1, <1>2, <1>3, <1>4 DEF MainIsThere, AtQueued, AtStarted, script
<1>8. MainIsThere'
  <2>1. \E k \in 1..2 : AtStarted(k)'
    BY <1>7
  <2> QED  BY <1>1, <1>3, <2>1 DEF MainIsThere
<1>9. WriteCovered
  <2>1. at = 1 /\ at' = 1
    BY <1>1, <1>3 DEF MainIsThere
  <2>2. \A s \in Steps : ~StepPending(s)
    BY <1>3 DEF StepPending
  <2>3. ~FieldPending /\ ~PctClaimed' /\ ~SubClaimed'
    BY <1>3, <2>1 DEF FieldPending, PctClaimed, SubClaimed, Succeeds
  <2> QED  BY <1>3, <2>2, <2>3 DEF WriteCovered
<1> QED  BY <1>3, <1>4, <1>5, <1>6, <1>8, <1>9
         DEF Begun, Core, Typed, StreamStays

(* A step starts.                                                           *)
LEMMA StepBegins ==
    ASSUME Core, StartStep
    PROVE  Begun
<1>1. /\ JobTyped /\ TodoTyped /\ StreamTyped /\ MainTyped /\ WebTyped
      /\ ReadersAreThere /\ DoneIsFull /\ LogsAttributed /\ MainIsThere
  BY DEF Core, Typed
<1> DEFINE script == OnStepStart(Here)
<1>2. /\ phase = "between" /\ phase' = "reading" /\ Left = <<>>
      /\ at <= Len(JobSteps)
      /\ todo' = [todo EXCEPT !["main"] = script]
      /\ UNCHANGED <<row, steps, current, pending, at, reports, misfiled>>
      /\ UNCHANGED <<chan, sub, closes, link, snap, view, blank, dials>>
  BY DEF StartStep, Call, Idle, Left, jobVars, sinkVars, streamVars, webVars
<1>3. Here \in Steps /\ Here' = Here
  BY <1>1, <1>2, EventsAssumption
     DEF EventsAssumption, Here, Steps, MainTyped
<1>4. script \in Seq(Ops) /\ Len(script) = 6
  BY <1>3, StartScript
<1> HIDE DEF script
<1>5. Rest(script, 1) = script
  BY <1>4, RestIsAll
<1>6. Left' = script /\ TodoTyped' /\ \A r \in Readers : todo'[r] = todo[r]
  BY <1>1, <1>2, <1>4 DEF TodoTyped, Left, Actors, Readers
<1>7. JobTyped' /\ StreamTyped' /\ MainTyped' /\ WebTyped'
  BY <1>1, <1>2 DEF JobTyped, StreamTyped, MainTyped, WebTyped
<1>8. ReadersAreThere' /\ DoneIsFull' /\ LogsAttributed'
  BY <1>1, <1>2, <1>6 DEF ReadersAreThere, DoneIsFull, LogsAttributed
<1>9. AtStart(1)'
  <2>1. pending' = NoProgress
    BY <1>2, IdleBetween
  <2>2. Left' = Rest(OnStepStart(Here'), 1)
    BY <1>3, <1>5, <1>6 DEF script
  <2> QED  BY <2>1, <2>2 DEF AtStart
<1>10. MainIsThere'
  <2>1. \E k \in 1..7 : AtStart(k)'
    BY <1>9
  <2> QED  BY <1>1, <1>2, <2>1 DEF MainIsThere
<1>11. WriteCovered
  <2>1. Len(Left') = 6 /\ Len(Left) = 0
    BY <1>2, <1>4, <1>6
  <2>2. \A s \in Steps : ~StepPending(s)
    BY <1>2, <2>1 DEF StepPending
  <2>3. FieldPending' /\ ~PctClaimed' /\ ~SubClaimed'
    BY <1>2, <2>1 DEF FieldPending, PctClaimed, SubClaimed, Succeeds
  <2> QED  BY <1>2, <2>2, <2>3 DEF WriteCovered
<1> QED  BY <1>2, <1>6, <1>7, <1>8, <1>10, <1>11
         DEF Begun, Core, Typed, StreamStays

(* A reader has something to report.                                        *)
LEMMA ReportBegins ==
    ASSUME Core, NEW r \in Readers, Report(r)
    PROVE  Begun
<1>1. /\ JobTyped /\ TodoTyped /\ StreamTyped /\ MainTyped /\ WebTyped
      /\ ReadersAreThere /\ DoneIsFull /\ LogsAttributed /\ MainIsThere
  BY DEF Core, Typed
<1>2. PICK ops \in {OnProgress(Here, 1), OnProgress(Here, Full),
                    OnSubStep("phase"), OnLog(Here)} :
         todo' = [todo EXCEPT ![r] = ops]
  BY DEF Report, Call
<1>3. /\ phase = "reading" /\ Left = <<>> /\ reports > 0
      /\ reports' = reports - 1
      /\ UNCHANGED <<row, steps, current, pending, at, phase, misfiled>>
      /\ UNCHANGED <<chan, sub, closes, link, snap, view, blank, dials>>
  BY DEF Report, Idle, Left, jobVars, sinkVars, streamVars, webVars
<1>4. Here \in Steps /\ Here' = Here
  BY <1>3, IdleReading DEF Here
<1>5. ops \in ReaderCalls(Here) /\ ops \in Seq(Ops)
  <2>1. 0 \in 0..Full /\ 1 \in 0..Full /\ Full \in 0..Full
    BY DEF Full
  <2>2. ops \in ReaderCalls(Here)
    BY <1>2, <1>4, <2>1, CallsOfReaders
  <2>3. \A p \in 0..Full : Locked("report", Here, p) \in Ops
    BY <1>4, OpsThere DEF Sections
  <2>4. /\ Locked("log", Here, 0) \in Ops /\ SubStep("phase") \in Ops
        /\ Publish(SubStepEvent("phase")) \in Ops
        /\ Publish(LogEvent) \in Ops
    BY <1>4, <2>1, OpsThere, EventsThere DEF Sections
  <2>5. /\ OnProgress(Here, 1) \in Seq(Ops)
        /\ OnProgress(Here, Full) \in Seq(Ops)
    BY <2>1, <2>3, <2>4, OneOf DEF OnProgress
  <2>6. OnSubStep("phase") \in Seq(Ops) /\ OnLog(Here) \in Seq(Ops)
    BY <2>4, TwoOf DEF OnSubStep, OnLog
  <2> QED  BY <1>2, <2>2, <2>5, <2>6
<1>6. /\ Left' = Left /\ TodoTyped' /\ todo'[r] = ops
      /\ \A u \in Readers \ {r} : todo'[u] = todo[u]
  BY <1>1, <1>2, <1>5 DEF TodoTyped, Left, Actors, Readers
<1>7. JobTyped' /\ StreamTyped' /\ MainTyped' /\ WebTyped'
  BY <1>1, <1>3, EventsAssumption
     DEF EventsAssumption, JobTyped, StreamTyped, MainTyped, WebTyped
<1>8. DoneIsFull' /\ LogsAttributed'
  BY <1>1, <1>3 DEF DoneIsFull, LogsAttributed
<1>9. ReadersAreThere'
  BY <1>1, <1>3, <1>4, <1>5, <1>6 DEF ReadersAreThere
<1>10. MainIsThere'
  <2>1. AtStart(7)'
    BY <1>3, <1>4, <1>6, IdleReading DEF AtStart, OfStep
  <2> QED  BY <1>1, <1>3, <2>1 DEF MainIsThere
<1>11. WriteCovered
  <2>1. Len(Left) = 0 /\ Len(Left') = 0
    BY <1>3, <1>6
  <2>2. \A s \in Steps : ~StepPending(s)
    BY <1>3, <2>1 DEF StepPending
  <2>3. ~FieldPending /\ ~PctClaimed' /\ ~SubClaimed'
    BY <1>3, <2>1 DEF FieldPending, PctClaimed, SubClaimed, Succeeds
  <2> QED  BY <1>3, <2>2, <2>3 DEF WriteCovered
<1> QED  BY <1>3, <1>6, <1>7, <1>8, <1>9, <1>10, <1>11
         DEF Begun, Core, Typed, StreamStays

(* The tool has returned and its readers are gone.                          *)
LEMMA ReadersJoined ==
    ASSUME Core, JoinReaders
    PROVE  Begun
<1>1. /\ JobTyped /\ TodoTyped /\ StreamTyped /\ MainTyped /\ WebTyped
      /\ ReadersAreThere /\ DoneIsFull /\ LogsAttributed /\ MainIsThere
  BY DEF Core, Typed
<1>2. /\ phase = "reading" /\ phase' = "joined" /\ Left = <<>>
      /\ \A r \in Readers : todo[r] = <<>>
      /\ UNCHANGED <<row, steps, current, pending, at, reports, misfiled,
                     todo>>
      /\ UNCHANGED <<chan, sub, closes, link, snap, view, blank, dials>>
  BY DEF JoinReaders, Idle, Left, Actors, Readers, jobVars, sinkVars,
         streamVars, webVars
<1>3. /\ JobTyped' /\ StreamTyped' /\ MainTyped' /\ WebTyped' /\ TodoTyped'
      /\ Left' = Left
  BY <1>1, <1>2
     DEF JobTyped, StreamTyped, MainTyped, WebTyped, TodoTyped, Left
<1>4. DoneIsFull' /\ LogsAttributed' /\ ReadersAreThere'
  BY <1>1, <1>2 DEF DoneIsFull, LogsAttributed, ReadersAreThere
<1>5. MainIsThere'
  <2>1. AtStart(7)' /\ at <= Len(JobSteps)
    BY <1>2, <1>3, IdleReading DEF AtStart, OfStep, Here
  <2> QED  BY <1>1, <1>2, <2>1 DEF MainIsThere
<1>6. WriteCovered
  <2>1. Len(Left) = 0 /\ Len(Left') = 0
    BY <1>2, <1>3
  <2>2. \A s \in Steps : ~StepPending(s)
    BY <1>2, <2>1 DEF StepPending
  <2>3. ~FieldPending /\ ~PctClaimed' /\ ~SubClaimed'
    BY <1>2, <2>1 DEF FieldPending, PctClaimed, SubClaimed, Succeeds
  <2> QED  BY <1>2, <2>2, <2>3 DEF WriteCovered
<1> QED  BY <1>2, <1>3, <1>4, <1>5, <1>6 DEF Begun, Core, Typed, StreamStays

(* A step ends, well or badly.                                              *)
LEMMA StepEnds ==
    ASSUME Core, EndStep
    PROVE  Begun
<1>1. /\ JobTyped /\ TodoTyped /\ StreamTyped /\ MainTyped /\ WebTyped
      /\ ReadersAreThere /\ DoneIsFull /\ LogsAttributed /\ MainIsThere
  BY DEF Core, Typed
<1>2. /\ phase = "joined" /\ Left = <<>>
      /\ UNCHANGED <<row, steps, current, pending, reports, misfiled>>
      /\ UNCHANGED <<chan, sub, closes, link, snap, view, blank, dials>>
      /\ \/ /\ phase' = "between" /\ at' = at + 1
            /\ todo' = [todo EXCEPT !["main"] = OnStepDone(Here)]
         \/ /\ phase' = "leaving" /\ at' = at
            /\ todo' = [todo EXCEPT !["main"] = OnStepFailed(Here)]
  BY DEF EndStep, Call, Idle, Left, jobVars, sinkVars, streamVars, webVars
<1>3. AtStart(7) /\ at <= Len(JobSteps)
  BY <1>1, <1>2 DEF MainIsThere
<1>4. Here \in Steps /\ at \in 1..Len(JobSteps) /\ Len(JobSteps) \in Nat
  BY <1>1, <1>3, EventsAssumption
     DEF EventsAssumption, Here, Steps, MainTyped
<1>5. /\ OfStep(Here) /\ steps[Here] = "running" /\ row.step = Here
  BY <1>3 DEF AtStart
<1>6. \A s \in Steps : ~StepPending(s)
  BY <1>2 DEF StepPending
<1>7. \A r \in Readers : todo[r] = <<>>
  BY <1>1, <1>2 DEF ReadersAreThere
<1>8. JobTyped' /\ StreamTyped' /\ WebTyped' /\ DoneIsFull' /\ LogsAttributed'
  BY <1>1, <1>2
     DEF JobTyped, StreamTyped, WebTyped, DoneIsFull, LogsAttributed
<1>9. CASE /\ phase' = "between" /\ at' = at + 1
           /\ todo' = [todo EXCEPT !["main"] = OnStepDone(Here)]
  <2> DEFINE script == OnStepDone(Here)
  <2>1. script \in Seq(Ops) /\ Len(script) = 7
    BY <1>4, DoneScript
  <2>2. todo' = [todo EXCEPT !["main"] = script]
    BY <1>9
  <2> HIDE DEF script
  <2>3. Rest(script, 1) = script
    BY <2>1, RestIsAll
  <2>4. Left' = script /\ TodoTyped' /\ \A r \in Readers : todo'[r] = todo[r]
    BY <1>1, <2>1, <2>2 DEF TodoTyped, Left, Actors, Readers
  <2>5. MainTyped' /\ Ended' = Here /\ at' > 1
    <3>1. at' - 1 = at
      BY <1>4, <1>9
    <3> QED  BY <1>1, <1>2, <1>4, <1>9, <3>1 DEF MainTyped, Ended, Here
  <2>6. ReadersAreThere'
    BY <1>7, <2>4 DEF ReadersAreThere
  <2>7. AtDone(1)'
    <3>1. Left' = Rest(OnStepDone(Ended'), 1)
      BY <2>3, <2>4, <2>5 DEF script
    <3> QED  BY <1>2, <1>5, <2>5, <3>1 DEF AtDone, OfStep
  <2>8. MainIsThere'
    <3>1. \E k \in 1..8 : AtDone(k)'
      BY <2>7
    <3> QED  BY <1>1, <1>2, <1>9, <2>5, <3>1 DEF MainIsThere
  <2>9. WriteCovered
    <3>1. Len(Left') = 7
      BY <2>1, <2>4
    <3>2. FieldPending' /\ ~PctClaimed' /\ ~SubClaimed'
      BY <1>9, <2>5, <3>1 DEF FieldPending, PctClaimed, SubClaimed, Succeeds
    <3> QED  BY <1>2, <1>6, <1>9, <3>2 DEF WriteCovered
  <2> QED  BY <1>2, <1>8, <2>4, <2>5, <2>6, <2>8, <2>9
           DEF Begun, Core, Typed, StreamStays
<1>10. CASE /\ phase' = "leaving" /\ at' = at
            /\ todo' = [todo EXCEPT !["main"] = OnStepFailed(Here)]
  <2> DEFINE script == OnStepFailed(Here)
  <2>1. script \in Seq(Ops) /\ Len(script) = 3
    BY <1>4, FailedScript
  <2>2. todo' = [todo EXCEPT !["main"] = script]
    BY <1>10
  <2> HIDE DEF script
  <2>3. Rest(script, 1) = script
    BY <2>1, RestIsAll
  <2>4. Left' = script /\ TodoTyped' /\ \A r \in Readers : todo'[r] = todo[r]
    BY <1>1, <2>1, <2>2 DEF TodoTyped, Left, Actors, Readers
  <2>5. MainTyped' /\ Here' = Here
    BY <1>1, <1>2, <1>10 DEF MainTyped, Here
  <2>6. ReadersAreThere'
    BY <1>7, <2>4 DEF ReadersAreThere
  <2>7. AtFailed(1)'
    <3>1. Left' = Rest(OnStepFailed(Here'), 1)
      BY <2>3, <2>4, <2>5 DEF script
    <3> QED  BY <1>2, <1>5, <2>5, <3>1 DEF AtFailed
  <2>8. MainIsThere'
    <3>1. \E k \in 1..4 : AtFailed(k)'
      BY <2>7
    <3> QED  BY <1>1, <1>2, <1>3, <1>10, <3>1 DEF MainIsThere
  <2>9. WriteCovered
    <3>1. Len(Left') = 3
      BY <2>1, <2>4
    <3>2. FieldPending' /\ ~PctClaimed' /\ ~SubClaimed'
      BY <1>10, <3>1 DEF FieldPending, PctClaimed, SubClaimed, Succeeds
    <3> QED  BY <1>2, <1>6, <1>10, <3>2 DEF WriteCovered
  <2> QED  BY <1>2, <1>8, <2>4, <2>5, <2>6, <2>8, <2>9
           DEF Begun, Core, Typed, StreamStays
<1> QED  BY <1>2, <1>9, <1>10

(* The job ends.                                                            *)
LEMMA JobEnds ==
    ASSUME Core, EndJob
    PROVE  Begun
<1>1. /\ JobTyped /\ TodoTyped /\ StreamTyped /\ MainTyped /\ WebTyped
      /\ ReadersAreThere /\ DoneIsFull /\ LogsAttributed /\ MainIsThere
  BY DEF Core, Typed
<1>2. PICK st \in {"failed", "done"} :
         /\ st = (IF phase = "leaving" THEN "failed" ELSE "done")
         /\ todo' = [todo EXCEPT !["main"] = Finish(st)]
  BY DEF EndJob, Call
<1>3. /\ phase \in {"between", "leaving"} /\ Left = <<>>
      /\ phase = "between" => at > Len(JobSteps)
      /\ phase' = "over"
      /\ UNCHANGED <<row, steps, current, pending, at, reports, misfiled>>
      /\ UNCHANGED <<chan, sub, closes, link, snap, view, blank, dials>>
  BY DEF EndJob, Idle, Left, jobVars, sinkVars, streamVars, webVars
<1>4. st \in Terminal /\ row.state \notin Terminal
  BY <1>1, <1>3 DEF Terminal, MainIsThere
<1> DEFINE script == Finish(st)
<1>5. /\ script \in Seq(Ops) /\ Len(script) = 2
      /\ script[1] = JobState(st)
  BY <1>4, EndScript
<1> HIDE DEF script
<1>6. Rest(script, 1) = script
  BY <1>5, RestIsAll
<1>7. Left' = script /\ TodoTyped' /\ \A r \in Readers : todo'[r] = todo[r]
  BY <1>1, <1>2, <1>5 DEF TodoTyped, Left, Actors, Readers, script
<1>8. JobTyped' /\ StreamTyped' /\ MainTyped' /\ WebTyped'
  BY <1>1, <1>3 DEF JobTyped, StreamTyped, MainTyped, WebTyped
<1>9. ReadersAreThere' /\ DoneIsFull' /\ LogsAttributed'
  BY <1>1, <1>3, <1>7 DEF ReadersAreThere, DoneIsFull, LogsAttributed
<1>10. st = "done" =>
          phase = "between" /\ at > 1 /\ row.pct = Full /\ row.sub = NoSubStep
  <2>1. ASSUME st = "done"  PROVE  phase = "between" /\ at > 1
    BY <1>1, <1>2, <1>3, <2>1, EventsAssumption
       DEF EventsAssumption, MainTyped
  <2> QED  BY <1>3, <2>1, IdleBetween DEF AtDone
<1>11. AtEnd(st, 1)'
  BY <1>3, <1>4, <1>6, <1>7, <1>10 DEF AtEnd, script
<1>12. MainIsThere'
  <2>1. \E k \in 1..3 : AtEnd(st, k)'
    BY <1>11
  <2> QED  BY <1>1, <1>3, <1>4, <2>1 DEF MainIsThere
<1>13. WriteCovered
  <2>1. \A s \in Steps : ~StepPending(s)
    BY <1>3 DEF StepPending
  <2>2. ~FieldPending /\ Left' # <<>>
    BY SMTT(30), <1>3, <1>5, <1>7 DEF FieldPending
  <2>3. ASSUME Succeeds'  PROVE  PctClaimed /\ SubClaimed
    <3>1. row.state # "done"
      BY <1>4 DEF Terminal
    <3>2. script = Finish("done")
      BY <1>3, <1>7, <2>3, <3>1 DEF Succeeds
    <3>3. JobState(st) = JobState("done")
      <4>1. "done" \in Terminal
        BY DEF Terminal
      <4>2. Finish("done")[1] = JobState("done")
        BY <4>1, EndScript
      <4> QED  BY <1>5, <3>2, <4>2
    <3>4. st = "done"
      BY <3>3 DEF JobState
    <3> QED  BY <1>3, <1>10, <3>4 DEF PctClaimed, SubClaimed
  <2>4. (PctClaimed' => PctClaimed) /\ (SubClaimed' => SubClaimed)
    BY <1>3, <2>3 DEF PctClaimed, SubClaimed
  <2> QED  BY <1>3, <2>1, <2>2, <2>4 DEF WriteCovered
<1> QED  BY <1>3, <1>7, <1>8, <1>9, <1>12, <1>13
         DEF Begun, Core, Typed, StreamStays

(* A step of the daemon keeps the invariant.                                *)
LEMMA KeptIsInv ==
    ASSUME Inv, Kept
    PROVE  Inv'
<1>1. Core'
  <2>1. MainTyped' /\ WebTyped'
    BY DEF Inv, Core, Typed, MainTyped, WebTyped, Kept, Elsewhere
  <2> QED  BY <2>1 DEF Kept, Core, Typed
<1>2. Shown'
  <2>1. CASE StreamStays /\ WriteCovered
    BY <2>1, WriteKeepsShown DEF Inv, Kept, Elsewhere
  <2>2. CASE /\ row' = row /\ steps' = steps
             /\ \E ev \in Events : Sent(ev) /\ PublishCovered(ev)
    BY <2>2, PublishKeepsShown DEF Inv, Core, Typed, Kept, Elsewhere
  <2> QED  BY <2>1, <2>2 DEF Kept
<1>3. Found'
  BY DEF Inv, Found, Kept, Elsewhere
<1> QED  BY <1>1, <1>2, <1>3 DEF Inv

(* A call that only begins keeps the invariant.                             *)
LEMMA BegunIsInv ==
    ASSUME Inv, Begun
    PROVE  Inv'
<1>1. Shown'
  BY WriteKeepsShown DEF Inv, Begun
<1>2. Found'
  BY DEF Inv, Found, Begun
<1> QED  BY <1>1, <1>2 DEF Inv, Begun

----------------------------------------------------------------------------
(* The events request and the browser.                                      *)

JobStays ==
    UNCHANGED <<row, steps, current, pending, todo, at, phase, reports,
                misfiled>>

(* What holds still when only the browser moves.                            *)
LEMMA JobStaysThere ==
    ASSUME Core, JobStays, StreamTyped', WebTyped'
    PROVE  /\ Core' /\ Left' = Left
           /\ \A s \in Steps : StepPending(s)' <=> StepPending(s)
           /\ FieldPending' <=> FieldPending
           /\ PctClaimed' <=> PctClaimed
           /\ SubClaimed' <=> SubClaimed
<1>1. Left' = Left /\ Here' = Here /\ Ended' = Ended
  BY DEF JobStays, Left, Here, Ended
<1>2. JobTyped' /\ TodoTyped' /\ MainTyped'
  BY DEF Core, Typed, JobStays, JobTyped, TodoTyped, MainTyped
<1>3. DoneIsFull' /\ LogsAttributed'
  BY DEF Core, JobStays, DoneIsFull, LogsAttributed
<1>4. ReadersAreThere'
  BY <1>1 DEF Core, JobStays, ReadersAreThere
<1>5. MainIsThere'
  <2>1. AtQueued' <=> AtQueued
    BY <1>1 DEF JobStays, AtQueued
  <2>2. \A k : AtStarted(k)' <=> AtStarted(k)
    BY <1>1 DEF JobStays, AtStarted
  <2>3. \A k : AtStart(k)' <=> AtStart(k)
    BY <1>1 DEF JobStays, AtStart, OfStep
  <2>4. \A k : AtDone(k)' <=> AtDone(k)
    BY <1>1 DEF JobStays, AtDone, OfStep
  <2>5. \A k : AtFlush(k)' <=> AtFlush(k)
    BY <1>1 DEF JobStays, AtFlush
  <2>6. \A k : AtFailed(k)' <=> AtFailed(k)
    BY <1>1 DEF JobStays, AtFailed
  <2>7. \A st, k : AtEnd(st, k)' <=> AtEnd(st, k)
    BY <1>1 DEF JobStays, AtEnd
  <2> QED  BY <2>1, <2>2, <2>3, <2>4, <2>5, <2>6, <2>7
           DEF Core, JobStays, MainIsThere
<1>6. \A s \in Steps : StepPending(s)' <=> StepPending(s)
  BY <1>1 DEF JobStays, StepPending
<1>7. /\ FieldPending' <=> FieldPending
      /\ Succeeds' <=> Succeeds
  BY <1>1 DEF JobStays, FieldPending, Succeeds
<1>8. (PctClaimed' <=> PctClaimed) /\ (SubClaimed' <=> SubClaimed)
  BY <1>1, <1>7 DEF JobStays, PctClaimed, SubClaimed
<1> QED  BY <1>1, <1>2, <1>3, <1>4, <1>5, <1>6, <1>7, <1>8 DEF Core, Typed

(* The row says what is claimed of its copies.                              *)
LEMMA ClaimsFit ==
    ASSUME Core
    PROVE  /\ PctClaimed => row.pct = Full
           /\ SubClaimed => row.sub = NoSubStep
           /\ phase = "over" /\ Left = <<>> => row.state \in Terminal
<1>1. MainIsThere /\ MainTyped
  BY DEF Core, Typed
<1>2. ASSUME phase = "between", at > 1, NEW k \in 1..8, AtDone(k)
      PROVE  /\ Len(Left) = 8 - k
             /\ Len(Left) <= 3 => row.pct = Full
             /\ Left = <<>> => row.sub = NoSubStep
  <2> DEFINE script == OnStepDone(Ended)
  <2>1. Ended \in Steps
    BY <1>1, <1>2, EventsAssumption
       DEF EventsAssumption, Ended, Steps, MainTyped
  <2>2. script \in Seq(Ops) /\ Len(script) = 7
    BY <2>1, DoneScript
  <2>3. Left = Rest(script, k)
    BY <1>2 DEF AtDone
  <2> HIDE DEF script
  <2>4. CASE k = 8
    <3>1. Rest(script, 7 + 1) = <<>>
      BY <2>2, RestIsEmpty
    <3> QED  BY <1>2, <2>3, <2>4, <3>1 DEF AtDone
  <2>5. CASE k # 8
    <3>1. k \in 1..Len(script)
      BY <2>2, <2>5
    <3>2. Len(Left) = 8 - k /\ Left # <<>>
      <4>1. Len(Left) = Len(script) - k + 1 /\ Left # <<>>
        BY <2>2, <2>3, <3>1, RestStep
      <4> QED  BY <2>2, <4>1
    <3>3. Len(Left) <= 3 => k >= 4
      BY <3>2
    <3> QED  BY <1>2, <3>2, <3>3 DEF AtDone
  <2> QED  BY <2>4, <2>5
<1>3. ASSUME phase = "between", at > 1, NEW k \in 1..2, AtFlush(k)
      PROVE  Len(Left) > 3
  <2> DEFINE t == Rest(OnStepDone(Ended), 3)
  <2>1. Ended \in Steps
    BY <1>1, <1>3, EventsAssumption
       DEF EventsAssumption, Ended, Steps, MainTyped
  <2>2. t \in Seq(Ops) /\ Len(t) = 5
    <3> DEFINE script == OnStepDone(Ended)
    <3>1. script \in Seq(Ops) /\ Len(script) = 7
      BY <2>1, DoneScript
    <3> HIDE DEF script
    <3>2. 3 \in 1..Len(script)
      BY <3>1
    <3>3. /\ Rest(script, 3) \in Seq(Ops)
          /\ Len(Rest(script, 3)) = Len(script) - 3 + 1
      BY <3>1, <3>2, RestStep
    <3> QED  BY <3>1, <3>3 DEF script
  <2>3. PICK p \in 0..Full : Left = Rest(FlushProgress(Ended, p), k) \o t
    BY <1>3 DEF AtFlush
  <2> DEFINE flush == FlushProgress(Ended, p)
  <2>4. flush \in Seq(Ops) /\ Len(flush) = 2
    BY <2>1, FlushScript
  <2> HIDE DEF t, flush
  <2>5. k \in 1..Len(flush)
    BY <2>4
  <2>6. Rest(flush, k) \in Seq(Ops)
    BY <2>4, <2>5, RestStep
  <2>7. Len(Rest(flush, k) \o t) = Len(Rest(flush, k)) + Len(t)
    BY <2>2, <2>6, Joined
  <2> QED  BY <2>2, <2>3, <2>6, <2>7 DEF flush
<1>4. ASSUME phase = "between", at > 1
      PROVE  /\ Len(Left) <= 3 => row.pct = Full
             /\ Left = <<>> => row.sub = NoSubStep
  <2>1. CASE \E k \in 1..8 : AtDone(k)
    BY <1>2, <1>4, <2>1
  <2>2. CASE \E k \in 1..2 : AtFlush(k)
    <3>1. Len(Left) > 3 /\ Left # <<>>
      BY <1>3, <1>4, <2>2, FlushIsLeft
    <3>2. Len(Left) \in Int
      BY DEF Core, Typed, TodoTyped, Left, Actors
    <3> QED  BY <3>1, <3>2
  <2>3. \/ \E k \in 1..8 : AtDone(k)
        \/ \E k \in 1..2 : AtFlush(k)
    BY <1>1, <1>4 DEF MainIsThere, AtStarted
  <2> QED  BY <2>1, <2>2, <2>3
<1>5. ASSUME phase = "over", NEW st \in Terminal, NEW k \in 1..3, AtEnd(st, k)
      PROVE  /\ Left = <<>> => row.state \in Terminal
             /\ Succeeds => row.pct = Full /\ row.sub = NoSubStep
  <2> DEFINE script == Finish(st)
  <2>1. /\ script \in Seq(Ops) /\ Len(script) = 2 /\ script[1] = JobState(st)
    BY EndScript
  <2>2. Left = Rest(script, k)
    BY <1>5 DEF AtEnd
  <2> HIDE DEF script
  <2>3. CASE k = 1
    <3>1. 1 \in 1..Len(script)
      BY <2>1
    <3>2. Left # <<>> /\ Left = script
      BY <2>1, <2>2, <2>3, <3>1, RestStep, RestIsAll
    <3>3. row.state # "done"
      BY <1>5, <2>3 DEF AtEnd, Terminal
    <3>4. ASSUME Succeeds  PROVE  st = "done"
      <4>1. script = Finish("done")
        BY <3>2, <3>3, <3>4 DEF Succeeds
      <4>2. Finish("done")[1] = JobState("done")
        BY EndScript DEF Terminal
      <4>3. JobState(st) = JobState("done")
        BY <2>1, <4>1, <4>2
      <4> QED  BY <4>3 DEF JobState
    <3> QED  BY <1>5, <3>2, <3>4 DEF AtEnd
  <2>4. CASE k # 1
    <3>1. row.state = st
      BY <1>5, <2>4 DEF AtEnd
    <3>2. ASSUME Left = Finish("done")  PROVE  FALSE
      <4>1. Len(Left) = 2
        BY <3>2, EndScript DEF Terminal
      <4>2. CASE k = 2
        <5>1. 2 \in 1..Len(script)
          BY <2>1
        <5>2. Len(Left) = Len(script) - 2 + 1
          BY <2>1, <2>2, <4>2, <5>1, RestStep
        <5> QED  BY SMTT(30), <2>1, <4>1, <5>2
      <4>3. CASE k = 3
        <5>1. Rest(script, 2 + 1) = <<>>
          BY <2>1, RestIsEmpty
        <5> QED  BY <2>2, <4>1, <4>3, <5>1
      <4> QED  BY <2>4, <4>2, <4>3
    <3> QED  BY <1>5, <3>1, <3>2 DEF AtEnd, Succeeds
  <2> QED  BY <2>3, <2>4
<1>6. ASSUME phase = "over"
      PROVE  /\ Left = <<>> => row.state \in Terminal
             /\ Succeeds => row.pct = Full /\ row.sub = NoSubStep
  <2>1. PICK st \in Terminal, k \in 1..3 : AtEnd(st, k)
    BY <1>1, <1>6 DEF MainIsThere
  <2> QED  BY <1>5, <1>6, <2>1
<1> QED  BY <1>4, <1>6 DEF PctClaimed, SubClaimed, Succeeds

(* A copy says what one read before it said, or what the row says.          *)
Faithful(c) ==
    \E d \in Copied \cup {row} :
        c.state = d.state /\ c.step = d.step /\ c.pct = d.pct /\ c.sub = d.sub

(* The browser takes a copy of the rows.                                    *)
LEMMA CopyKeepsShown ==
    ASSUME Inv, Core', JobStays, StreamStays, WebTyped',
           \A c \in Copied' : Faithful(c),
           link' = "streaming" =>
               \A k \in DOMAIN view' : view'[k].steps = steps
    PROVE  Shown'
<1>1. Core /\ Shown
  BY DEF Inv
<1>2. /\ Left' = Left
      /\ \A s \in Steps : StepPending(s)' <=> StepPending(s)
      /\ FieldPending' <=> FieldPending
      /\ PctClaimed' <=> PctClaimed
      /\ SubClaimed' <=> SubClaimed
  <2>1. StreamTyped'
    BY DEF Core, Typed
  <2> QED  BY <1>1, <2>1, JobStaysThere
<1>3. SUFFICES ASSUME sub' = "open"
    PROVE  /\ \A s \in Steps : StepPending(s)' \/ StepShown(s)'
           /\ FieldPending' \/ FieldShown'
           /\ PctClaimed' => PctShown'
           /\ SubClaimed' => SubShown'
           /\ phase' = "over" /\ Left' = <<>> => StateShown'
  BY DEF Shown
<1>4. /\ sub = "open" /\ chan' = chan /\ row' = row /\ steps' = steps
      /\ phase' = phase
  BY <1>3 DEF StreamStays, JobStays
<1>5. ASSUME NEW s \in Steps, ~StepPending(s)'  PROVE  StepShown(s)'
  <2>1. StepShown(s)
    BY <1>1, <1>2, <1>4, <1>5 DEF Shown
  <2> QED  BY <1>4, <2>1 DEF StepShown, Shows
<1>6. ASSUME ~FieldPending'  PROVE  FieldShown'
  <2>1. FieldShown
    BY <1>1, <1>2, <1>4, <1>6 DEF Shown
  <2> QED  BY <1>4, <2>1 DEF FieldShown, Shows, Faithful
<1>7. ASSUME PctClaimed'  PROVE  PctShown'
  <2>1. PctShown /\ row.pct = Full
    BY <1>1, <1>2, <1>4, <1>7, ClaimsFit DEF Shown
  <2> QED  BY <1>4, <2>1 DEF PctShown, Shows, Faithful
<1>8. ASSUME SubClaimed'  PROVE  SubShown'
  <2>1. SubShown /\ row.sub = NoSubStep
    BY <1>1, <1>2, <1>4, <1>8, ClaimsFit DEF Shown
  <2> QED  BY <1>4, <2>1 DEF SubShown, Shows, Faithful
<1>9. ASSUME phase' = "over", Left' = <<>>  PROVE  StateShown'
  <2>1. StateShown
    BY <1>1, <1>2, <1>4, <1>9 DEF Shown
  <2> QED  BY <1>4, <2>1 DEF StateShown, Shows, Faithful
<1> QED  BY <1>5, <1>6, <1>7, <1>8, <1>9

(* The browser subscribes.                                                  *)
LEMMA SubscribeKeeps ==
    ASSUME Inv, Subscribe
    PROVE  Inv'
<1>1. /\ JobStays /\ link' = "subscribed" /\ chan' = <<>> /\ sub' = "open"
      /\ closes' = 0 /\ dials < MaxConnections /\ dials' = dials + 1
      /\ link = "down" /\ blank' = FALSE /\ UNCHANGED <<snap, view>>
  BY DEF Subscribe, JobStays, jobVars, sinkVars, mainVars
<1>2. StreamTyped' /\ WebTyped'
  <2>1. <<>> \in Seq(Events) /\ Len(<<>>) = 0 /\ Buffer \in Nat
    BY EventsAssumption DEF EventsAssumption
  <2>2. StreamTyped'
    BY <1>1, <2>1 DEF StreamTyped
  <2>3. dials \in 0..MaxConnections /\ snap = <<>> /\ view \in Seq(Copies)
        /\ Len(view) <= 2
    BY <1>1 DEF Inv, Core, Typed, WebTyped
  <2>4. dials' \in 0..MaxConnections
    BY <1>1, <2>3, EventsAssumption DEF EventsAssumption
  <2>5. snap' = <<>> /\ snap' \in Seq(Rows) /\ Len(snap') = 0
    BY <1>1, <2>3
  <2>6. /\ view' \in Seq(Copies) /\ Len(view') <= 2 /\ blank' \in BOOLEAN
        /\ link' = "subscribed"
    BY <1>1, <2>3
  <2>7. WebTyped'
    BY <2>4, <2>5, <2>6 DEF WebTyped
  <2> QED  BY <2>2, <2>7
<1>3. Core'
  BY <1>1, <1>2, JobStaysThere DEF Inv
<1>4. Copied' = {}
  BY <1>1 DEF Copied
<1>5. \A kind : NoneOf(chan', kind)
  BY <1>1, NothingSent
<1>6. Shown'
  BY <1>1, <1>4, <1>5
     DEF Shown, StepShown, FieldShown, PctShown, SubShown, StateShown, Shows
<1>7. Found'
  BY <1>1 DEF Found
<1> QED  BY <1>3, <1>6, <1>7 DEF Inv

(* The browser goes.                                                        *)
LEMMA CancelKeeps ==
    ASSUME Inv, Cancel
    PROVE  Inv'
<1>1. /\ JobStays /\ link' = "down" /\ chan' = <<>> /\ sub' = "none"
      /\ snap' = <<>> /\ UNCHANGED <<view, blank, dials>>
      /\ closes' = (IF sub = "open" THEN closes + 1 ELSE closes)
  BY DEF Cancel, JobStays, jobVars, sinkVars, mainVars
<1>2. StreamTyped' /\ WebTyped'
  <2>1. closes' \in 0..1
    BY <1>1 DEF Inv, Core, Typed, StreamTyped
  <2>2. StreamTyped'
    BY <1>1, <2>1, EventsAssumption
       DEF EventsAssumption, Inv, Core, Typed, StreamTyped
  <2>3. WebTyped'
    BY <1>1 DEF Inv, Core, Typed, WebTyped
  <2> QED  BY <2>2, <2>3
<1>3. Core'
  BY <1>1, <1>2, JobStaysThere DEF Inv
<1>4. Shown' /\ Found'
  BY <1>1 DEF Shown, Found
<1> QED  BY <1>3, <1>4 DEF Inv

(* The snapshot reads the jobs that run.                                    *)
LEMMA ReadActiveKeeps ==
    ASSUME Inv, ReadActive
    PROVE  Inv'
<1>1. /\ JobStays /\ StreamStays /\ link = "subscribed"
      /\ link' = "active-read" /\ UNCHANGED <<view, blank, dials>>
      /\ snap' = IF row.state \notin Terminal THEN <<row>> ELSE <<>>
  BY DEF ReadActive, JobStays, StreamStays, jobVars, sinkVars, mainVars,
         streamVars
<1>2. row \in Rows
  BY DEF Inv, Core, Typed, JobTyped
<1>3. snap' \in Seq(Rows) /\ Len(snap') <= 1
      /\ \A k \in DOMAIN snap' : snap'[k] = row
  <2>1. <<row>> \in Seq(Rows) /\ Len(<<row>>) = 1 /\ <<row>>[1] = row
    BY <1>2, OneOf
  <2>2. DOMAIN <<row>> = {1} /\ Len(<<>>) = 0
    OBVIOUS
  <2> QED  BY <1>1, <2>1, <2>2
<1>4. StreamTyped' /\ WebTyped'
  BY <1>1, <1>3
     DEF Inv, Core, Typed, StreamTyped, StreamStays, WebTyped
<1>5. Core'
  BY <1>1, <1>4, JobStaysThere DEF Inv
<1>6. \A c \in Copied' : Faithful(c)
  BY <1>1, <1>3 DEF Copied, Faithful
<1>7. Shown'
  BY <1>1, <1>4, <1>5, <1>6, CopyKeepsShown
<1>8. Found'
  BY <1>1 DEF Found, JobStays
<1> QED  BY <1>5, <1>7, <1>8 DEF Inv

(* The snapshot reads the jobs that ended.                                  *)
LEMMA ReadRecentKeeps ==
    ASSUME Inv, ReadRecent
    PROVE  Inv'
<1>1. /\ JobStays /\ StreamStays /\ link = "active-read"
      /\ link' = "jobs-read" /\ UNCHANGED <<view, blank, dials>>
      /\ snap' = IF row.state \in Terminal THEN Append(snap, row) ELSE snap
  BY DEF ReadRecent, JobStays, StreamStays, jobVars, sinkVars, mainVars,
         streamVars
<1>2. row \in Rows /\ snap \in Seq(Rows) /\ Len(snap) <= 1
  BY <1>1 DEF Inv, Core, Typed, JobTyped, WebTyped
<1>3. /\ Append(snap, row) \in Seq(Rows)
      /\ Len(Append(snap, row)) = Len(snap) + 1
      /\ \A k \in 1..Len(snap) : Append(snap, row)[k] = snap[k]
      /\ Append(snap, row)[Len(snap) + 1] = row
      /\ DOMAIN Append(snap, row) = 1..Len(snap) + 1
      /\ Len(snap) \in Nat /\ DOMAIN snap = 1..Len(snap)
  BY <1>2, AppendProperties
<1>4. snap' \in Seq(Rows) /\ Len(snap') <= 2
  BY <1>1, <1>2, <1>3
<1>5. \A k \in DOMAIN snap' :
         snap'[k] = row \/ \E j \in DOMAIN snap : snap'[k] = snap[j]
  BY <1>1, <1>3
<1>6. StreamTyped' /\ WebTyped'
  BY <1>1, <1>4
     DEF Inv, Core, Typed, StreamTyped, StreamStays, WebTyped
<1>7. Core'
  BY <1>1, <1>6, JobStaysThere DEF Inv
<1>8. \A c \in Copied' : Faithful(c)
  BY <1>1, <1>5 DEF Copied, Faithful
<1>9. Shown'
  BY <1>1, <1>6, <1>7, <1>8, CopyKeepsShown
<1>10. Found'
  <2>1. Append(snap, row) # <<>>
    BY <1>3
  <2> QED  BY <1>1, <2>1 DEF Inv, Found, JobStays
<1> QED  BY <1>7, <1>9, <1>10 DEF Inv

(* The snapshot is sent.                                                    *)
LEMMA SendSnapshotKeeps ==
    ASSUME Inv, SendSnapshot
    PROVE  Inv'
<1>1. /\ JobStays /\ StreamStays /\ link = "jobs-read"
      /\ link' = "streaming" /\ view' = HydrateJobSteps /\ snap' = <<>>
      /\ UNCHANGED <<blank, dials>>
  BY DEF SendSnapshot, JobStays, StreamStays, jobVars, sinkVars, mainVars,
         streamVars
<1>2. /\ snap \in Seq(Rows) /\ Len(snap) <= 2 /\ snap # <<>>
      /\ steps \in [Steps -> StepStates]
  BY <1>1 DEF Inv, Core, Typed, JobTyped, WebTyped, Found
<1>3. Len(snap) \in Nat /\ DOMAIN snap = 1..Len(snap) /\ Len(snap) # 0
      /\ \A k \in 1..Len(snap) : snap[k] \in Rows
  BY <1>2, EmptySeq, ElementOfSeq
<1>4. /\ DOMAIN view' = 1..Len(snap)
      /\ \A k \in 1..Len(snap) :
            /\ view'[k] \in Copies /\ view'[k].steps = steps
            /\ view'[k].state = snap[k].state /\ view'[k].step = snap[k].step
            /\ view'[k].pct = snap[k].pct /\ view'[k].sub = snap[k].sub
  BY <1>1, <1>2, <1>3 DEF HydrateJobSteps, Rows, Copies
<1>5. view' \in Seq(Copies) /\ Len(view') = Len(snap) /\ view' # <<>>
  <2>1. view' \in [1..Len(snap) -> Copies]
    BY <1>1, <1>3, <1>4 DEF HydrateJobSteps
  <2> QED  BY <1>3, <2>1
<1>6. StreamTyped' /\ WebTyped'
  BY <1>1, <1>2, <1>5
     DEF Inv, Core, Typed, StreamTyped, StreamStays, WebTyped
<1>7. Core'
  BY <1>1, <1>6, JobStaysThere DEF Inv
<1>8. \A c \in Copied' : Faithful(c)
  BY <1>1, <1>3, <1>4 DEF Copied, Faithful
<1>9. Shown'
  BY <1>1, <1>3, <1>4, <1>6, <1>7, <1>8, CopyKeepsShown
<1>10. Found'
  BY <1>1, <1>5 DEF Found
<1> QED  BY <1>7, <1>9, <1>10 DEF Inv

(* The snapshot fails.                                                      *)
LEMMA SnapshotFailsKeeps ==
    ASSUME Inv, SnapshotFails
    PROVE  Inv'
<1>1. /\ JobStays /\ StreamStays /\ link' = "streaming" /\ blank' = TRUE
      /\ view' = <<>> /\ snap' = <<>> /\ dials' = dials
  BY DEF SnapshotFails, JobStays, StreamStays, jobVars, sinkVars, mainVars,
         streamVars
<1>2. StreamTyped' /\ WebTyped'
  BY <1>1 DEF Inv, Core, Typed, StreamTyped, StreamStays, WebTyped
<1>3. Core'
  BY <1>1, <1>2, JobStaysThere DEF Inv
<1>4. Copied' = {} /\ DOMAIN view' = {}
  BY <1>1 DEF Copied
<1>5. Shown'
  BY <1>1, <1>2, <1>3, <1>4, CopyKeepsShown
<1>6. Found'
  BY <1>1 DEF Found
<1> QED  BY <1>3, <1>5, <1>6 DEF Inv

(* What the browser makes of an event.                                      *)
LEMMA PatchSays ==
    ASSUME NEW v \in Copies, NEW ev \in Events, NEW w, w = Patch(v, ev)
    PROVE  /\ w \in Copies
           /\ \A s \in Steps :
                 /\ ev \notin StepEvents(s) => w.steps[s] = v.steps[s]
                 /\ ev \in StepEvents(s) => w.steps[s] = ev.state
           /\ w.step = (IF ev \in FieldEvents THEN ev.step ELSE v.step)
           /\ w.pct = (IF ev \in ProgressEvents THEN ev.pct ELSE v.pct)
           /\ ev \notin SubEvents => w.sub = v.sub
           /\ \A s \in Steps : ev = StepEvent(s, "done") => w.sub = NoSubStep
           /\ ev \notin EndEvents /\ v.state # "queued" => w.state = v.state
           /\ ev \in EndEvents => w.state = ev.state
<1>1. /\ v.state \in States /\ v.step \in Steps \cup {NoStep}
      /\ v.pct \in 0..Full /\ v.sub \in {NoSubStep, "phase"}
      /\ v.steps \in [Steps -> StepStates]
      /\ v = [state |-> v.state, step |-> v.step, pct |-> v.pct,
              sub |-> v.sub, steps |-> v.steps]
  BY DEF Copies
<1>2. ASSUME NEW s \in Steps, NEW st \in StepStates, ev = StepEvent(s, st)
      PROVE  /\ w \in Copies /\ w.step = s /\ w.pct = v.pct
             /\ w.steps = [v.steps EXCEPT ![s] = st]
             /\ w.sub = (IF st = "done" THEN NoSubStep ELSE v.sub)
             /\ v.state # "queued" => w.state = v.state
  <2>1. ev.name = "job.step" /\ ev.step = s /\ ev.state = st
    BY <1>2, StepEventIs
  <2>2. w = [v EXCEPT !.step = s, !.steps[s] = st,
                      !.state = IF @ = "queued" /\ st = "running"
                                THEN "running" ELSE @,
                      !.sub = IF st = "done" THEN NoSubStep ELSE @]
    BY <2>1 DEF Patch
  <2>3. /\ w.step = s /\ w.pct = v.pct
        /\ w.steps = [v.steps EXCEPT ![s] = st]
        /\ w.sub = (IF st = "done" THEN NoSubStep ELSE v.sub)
        /\ w.state = (IF v.state = "queued" /\ st = "running"
                      THEN "running" ELSE v.state)
        /\ w = [state |-> w.state, step |-> w.step, pct |-> w.pct,
                sub |-> w.sub, steps |-> w.steps]
    BY <2>2 DEF Copies
  <2>4. /\ w.steps \in [Steps -> StepStates] /\ w.state \in States
        /\ w.sub \in {NoSubStep, "phase"}
    BY <1>1, <2>3 DEF States
  <2>5. w \in Copies
    BY <1>1, <2>3, <2>4 DEF Copies
  <2> QED  BY <2>3, <2>5
<1>3. ASSUME NEW s \in Steps, NEW p \in 0..Full, ev = ProgressEvent(s, p)
      PROVE  /\ w \in Copies /\ w.step = s /\ w.pct = p
             /\ w.steps = v.steps /\ w.sub = v.sub /\ w.state = v.state
  <2>1. ev.name = "job.progress" /\ ev.step = s /\ ev.pct = p
    BY <1>3, ProgressEventIs
  <2>2. w = [v EXCEPT !.step = s, !.pct = p]
    BY <2>1 DEF Patch
  <2> QED  BY <1>1, <2>2 DEF Copies
<1>4. ASSUME ev = SubStepEvent("phase")
      PROVE  /\ w \in Copies /\ w.step = v.step /\ w.pct = v.pct
             /\ w.steps = v.steps /\ w.state = v.state
  <2>1. ev.name = "job.substep" /\ ev.sub = "phase"
    BY <1>4, SubStepEventIs
  <2>2. w = [v EXCEPT !.sub = "phase"]
    BY <2>1 DEF Patch
  <2> QED  BY <1>1, <2>2 DEF Copies
<1>5. ASSUME NEW st \in Terminal, ev = EndEvent(st)
      PROVE  /\ w \in Copies /\ w.step = v.step /\ w.pct = v.pct
             /\ w.steps = v.steps /\ w.sub = v.sub /\ w.state = st
  <2>1. ev.name = "job.end" /\ ev.state = st
    BY <1>5, EndEventIs
  <2>2. w = [v EXCEPT !.state = st]
    BY <2>1 DEF Patch
  <2> QED  BY <1>1, <2>2 DEF Copies, States, Terminal
<1>6. \/ \E s \in Steps, st \in StepStates : ev = StepEvent(s, st)
      \/ \E s \in Steps, p \in 0..Full : ev = ProgressEvent(s, p)
      \/ ev = SubStepEvent("phase") \/ ev = LogEvent
      \/ \E st \in Terminal : ev = EndEvent(st)
  <2>1. CASE ev \in ProgressEvents
    BY <2>1 DEF ProgressEvents
  <2>2. CASE \E s \in Steps : ev \in StepEvents(s)
    BY <2>2 DEF StepEvents
  <2>3. CASE ev \in EndEvents
    BY <2>3 DEF EndEvents
  <2> QED  BY <2>1, <2>2, <2>3 DEF Events, FieldEvents
<1>7. ASSUME NEW s \in Steps, NEW st \in StepStates, ev = StepEvent(s, st)
      PROVE  \A t \in Steps : ev = StepEvent(t, "done") => st = "done"
  BY <1>7 DEF StepEvent
<1>8. CASE \E s \in Steps, st \in StepStates : ev = StepEvent(s, st)
  <2>1. PICK s \in Steps, st \in StepStates : ev = StepEvent(s, st)
    BY <1>8
  <2>2. /\ ev \in FieldEvents /\ ev.step = s /\ ev.state = st
        /\ ev \in StepEvents(s)
        /\ \A t \in Steps \ {s} : ev \notin StepEvents(t)
        /\ ev \notin ProgressEvents /\ ev \notin EndEvents
        /\ st # "done" => ev \notin SubEvents
        /\ st = "done" => ev \in SubEvents
    BY <2>1, StepEventIs DEF SubEvents
  <2>3. /\ w \in Copies /\ w.step = s /\ w.pct = v.pct
        /\ w.steps = [v.steps EXCEPT ![s] = st]
        /\ w.sub = (IF st = "done" THEN NoSubStep ELSE v.sub)
        /\ v.state # "queued" => w.state = v.state
    BY <1>2, <2>1
  <2>4. \A t \in Steps : /\ ev \notin StepEvents(t) => w.steps[t] = v.steps[t]
                         /\ ev \in StepEvents(t) => w.steps[t] = ev.state
    BY <1>1, <2>2, <2>3
  <2>5. \A t \in Steps : ev = StepEvent(t, "done") => st = "done"
    BY <1>7, <2>1
  <2> QED  BY <2>2, <2>3, <2>4, <2>5
<1>9. CASE \E s \in Steps, p \in 0..Full : ev = ProgressEvent(s, p)
  <2>1. PICK s \in Steps, p \in 0..Full : ev = ProgressEvent(s, p)
    BY <1>9
  <2>2. /\ ev \in FieldEvents /\ ev.step = s /\ ev.pct = p
        /\ ev.name = "job.progress"
        /\ ev \in ProgressEvents /\ \A t \in Steps : ev \notin StepEvents(t)
        /\ ev \notin SubEvents /\ ev \notin EndEvents
    BY <2>1, ProgressEventIs
  <2>3. \A t \in Steps : ev # StepEvent(t, "done")
    BY <2>2 DEF StepEvent
  <2> QED  BY <1>3, <2>1, <2>2, <2>3
<1>10. CASE ev = SubStepEvent("phase")
  <2>1. \A t \in Steps : ev # StepEvent(t, "done")
    BY <1>10, SubStepEventIs DEF StepEvent
  <2> QED  BY <1>4, <1>10, <2>1, SubStepEventIs
<1>11. CASE \E st \in Terminal : ev = EndEvent(st)
  <2>1. PICK st \in Terminal : ev = EndEvent(st)
    BY <1>11
  <2>2. \A t \in Steps : ev # StepEvent(t, "done")
    BY <2>1, EndEventIs DEF StepEvent
  <2> QED  BY <1>5, <2>1, <2>2, EndEventIs
<1>12. CASE ev = LogEvent
  <2>1. ev.name = "job.log" /\ w = v
    BY <1>12, LogEventIs DEF Patch
  <2>2. \A t \in Steps : ev # StepEvent(t, "done")
    BY <2>1 DEF StepEvent
  <2> QED  BY <1>12, <2>1, <2>2, LogEventIs
<1> QED  BY <1>6, <1>8, <1>9, <1>10, <1>11, <1>12


(* The browser takes the first event of the channel.                        *)
LEMMA ForwardKeeps ==
    ASSUME Inv, Forward
    PROVE  Inv'
<1>1. /\ JobStays /\ link = "streaming" /\ link' = "streaming"
      /\ chan # <<>> /\ chan' = Tail(chan)
      /\ view' = [k \in DOMAIN view |-> Patch(view[k], Head(chan))]
      /\ UNCHANGED <<sub, closes, snap, blank, dials>>
  BY DEF Forward, JobStays, jobVars, sinkVars, mainVars, HandleSSEEvent
<1>2. /\ chan \in Seq(Events) /\ Len(chan) <= Buffer
      /\ view \in Seq(Copies) /\ Len(view) <= 2
  BY DEF Inv, Core, Typed, StreamTyped, WebTyped
<1> DEFINE ev == Head(chan)
<1>3. /\ ev \in Events /\ Tail(chan) \in Seq(Events)
      /\ Len(Tail(chan)) = Len(chan) - 1 /\ Len(chan) \in Nat
  BY <1>1, <1>2, HeadTailProperties
<1> HIDE DEF ev
<1>4. /\ DOMAIN view' = DOMAIN view /\ DOMAIN view = 1..Len(view)
      /\ \A k \in DOMAIN view : view[k] \in Copies
                                /\ view'[k] = Patch(view[k], ev)
  BY <1>1, <1>2, ElementOfSeq DEF ev
<1>5. \A k \in DOMAIN view :
         /\ view'[k] \in Copies
         /\ \A s \in Steps :
               /\ ev \notin StepEvents(s) =>
                     view'[k].steps[s] = view[k].steps[s]
               /\ ev \in StepEvents(s) => view'[k].steps[s] = ev.state
         /\ view'[k].step =
               (IF ev \in FieldEvents THEN ev.step ELSE view[k].step)
         /\ view'[k].pct =
               (IF ev \in ProgressEvents THEN ev.pct ELSE view[k].pct)
         /\ ev \notin SubEvents => view'[k].sub = view[k].sub
         /\ \A s \in Steps :
               ev = StepEvent(s, "done") => view'[k].sub = NoSubStep
         /\ ev \notin EndEvents /\ view[k].state # "queued" =>
               view'[k].state = view[k].state
         /\ ev \in EndEvents => view'[k].state = ev.state
  <2> TAKE k \in DOMAIN view
  <2>1. view[k] \in Copies /\ view'[k] = Patch(view[k], ev)
    BY <1>4
  <2> QED  BY <1>3, <2>1, PatchSays
<1>6. /\ view' \in Seq(Copies) /\ Len(view') = Len(view)
      /\ view # <<>> => view' # <<>>
  <2>1. Len(view) \in Nat
    BY <1>2
  <2>2. view' \in [1..Len(view) -> Copies]
    BY <1>1, <1>4, <1>5
  <2>3. view' \in Seq(Copies) /\ Len(view') = Len(view)
    BY <2>1, <2>2
  <2> QED  BY <1>2, <2>3, EmptySeq
<1>7. StreamTyped' /\ WebTyped'
  <2>1. Len(chan') <= Buffer
    BY <1>1, <1>2, <1>3, EventsAssumption DEF EventsAssumption
  <2>2. StreamTyped'
    BY <1>1, <1>3, <2>1 DEF Inv, Core, Typed, StreamTyped
  <2>3. WebTyped'
    BY <1>1, <1>2, <1>6 DEF Inv, Core, Typed, WebTyped
  <2> QED  BY <2>2, <2>3
<1>8. /\ Core /\ Shown /\ Core' /\ Left' = Left
      /\ \A s \in Steps : StepPending(s)' <=> StepPending(s)
      /\ FieldPending' <=> FieldPending
      /\ PctClaimed' <=> PctClaimed
      /\ SubClaimed' <=> SubClaimed
  BY <1>1, <1>7, JobStaysThere DEF Inv
<1>9. Found'
  BY <1>1, <1>6 DEF Inv, Found
<1>10. /\ Copied = {view[k] : k \in DOMAIN view}
       /\ Copied' = {view'[k] : k \in DOMAIN view}
       /\ row' = row /\ steps' = steps /\ phase' = phase
  BY <1>1, <1>4 DEF Copied, JobStays
<1>11. \A kind, wanted :
         /\ LastOf(chan, kind, wanted) =>
              \/ LastOf(chan', kind, wanted)
              \/ ev \in wanted /\ NoneOf(chan', kind)
         /\ NoneOf(chan, kind) => ev \notin kind /\ NoneOf(chan', kind)
  BY <1>1, <1>2, TakenFirst DEF ev
<1>12. ASSUME sub = "open", NEW s \in Steps, ~StepPending(s)
       PROVE  StepShown(s)'
  <2> DEFINE kind == StepEvents(s)
             wanted == {StepEvent(s, steps[s])}
  <2>1. \/ LastOf(chan, kind, wanted)
        \/ /\ NoneOf(chan, kind)
           /\ \A k \in DOMAIN view : view[k].steps[s] = steps[s]
    BY <1>1, <1>8, <1>12 DEF Shown, StepShown, Shows
  <2>2. steps[s] \in StepStates
    BY <1>8 DEF Core, Typed, JobTyped
  <2>3. ASSUME ev \in wanted
        PROVE  \A k \in DOMAIN view : view'[k].steps[s] = steps[s]
    BY <1>5, <2>2, <2>3, StepEventIs
  <2>4. ASSUME ev \notin kind,
               \A k \in DOMAIN view : view[k].steps[s] = steps[s]
        PROVE  \A k \in DOMAIN view : view'[k].steps[s] = steps[s]
    BY <1>5, <2>4
  <2> HIDE DEF kind, wanted
  <2>5. \/ LastOf(chan', kind, wanted)
        \/ /\ NoneOf(chan', kind)
           /\ \A k \in DOMAIN view : view'[k].steps[s] = steps[s]
    BY <1>11, <2>1, <2>3, <2>4
  <2> QED  BY <1>1, <1>4, <1>10, <2>5 DEF StepShown, Shows, kind, wanted
<1>13. ASSUME sub = "open", ~FieldPending  PROVE  FieldShown'
  <2> DEFINE wanted == {e \in FieldEvents : e.step = row.step}
  <2>1. \/ LastOf(chan, FieldEvents, wanted)
        \/ NoneOf(chan, FieldEvents) /\ \A c \in Copied : c.step = row.step
    BY <1>8, <1>13 DEF Shown, FieldShown, Shows
  <2>2. ASSUME ev \in wanted  PROVE  \A c \in Copied' : c.step = row.step
    BY <1>5, <1>10, <2>2
  <2>3. ASSUME ev \notin FieldEvents, \A c \in Copied : c.step = row.step
        PROVE  \A c \in Copied' : c.step = row.step
    BY <1>5, <1>10, <2>3
  <2> HIDE DEF wanted
  <2>4. \/ LastOf(chan', FieldEvents, wanted)
        \/ NoneOf(chan', FieldEvents) /\ \A c \in Copied' : c.step = row.step
    BY <1>11, <2>1, <2>2, <2>3
  <2> QED  BY <1>10, <2>4 DEF FieldShown, Shows, wanted
<1>14. ASSUME sub = "open", PctClaimed  PROVE  PctShown'
  <2> DEFINE wanted == {e \in ProgressEvents : e.pct = Full}
  <2>1. \/ LastOf(chan, ProgressEvents, wanted)
        \/ NoneOf(chan, ProgressEvents) /\ \A c \in Copied : c.pct = Full
    BY <1>8, <1>14 DEF Shown, PctShown, Shows
  <2>2. ASSUME ev \in wanted  PROVE  \A c \in Copied' : c.pct = Full
    BY <1>5, <1>10, <2>2
  <2>3. ASSUME ev \notin ProgressEvents, \A c \in Copied : c.pct = Full
        PROVE  \A c \in Copied' : c.pct = Full
    BY <1>5, <1>10, <2>3
  <2> HIDE DEF wanted
  <2>4. \/ LastOf(chan', ProgressEvents, wanted)
        \/ NoneOf(chan', ProgressEvents) /\ \A c \in Copied' : c.pct = Full
    BY <1>11, <2>1, <2>2, <2>3
  <2> QED  BY <2>4 DEF PctShown, Shows, wanted
<1>15. ASSUME sub = "open", SubClaimed  PROVE  SubShown'
  <2> DEFINE wanted == {StepEvent(s, "done") : s \in Steps}
  <2>1. \/ LastOf(chan, SubEvents, wanted)
        \/ NoneOf(chan, SubEvents) /\ \A c \in Copied : c.sub = NoSubStep
    BY <1>8, <1>15 DEF Shown, SubShown, Shows
  <2>2. ASSUME ev \in wanted  PROVE  \A c \in Copied' : c.sub = NoSubStep
    BY <1>5, <1>10, <2>2
  <2>3. ASSUME ev \notin SubEvents, \A c \in Copied : c.sub = NoSubStep
        PROVE  \A c \in Copied' : c.sub = NoSubStep
    BY <1>5, <1>10, <2>3
  <2> HIDE DEF wanted
  <2>4. \/ LastOf(chan', SubEvents, wanted)
        \/ NoneOf(chan', SubEvents) /\ \A c \in Copied' : c.sub = NoSubStep
    BY <1>11, <2>1, <2>2, <2>3
  <2> QED  BY <2>4 DEF SubShown, Shows, wanted
<1>16. ASSUME sub = "open", phase = "over", Left = <<>>  PROVE  StateShown'
  <2> DEFINE wanted == {EndEvent(row.state)}
  <2>1. \/ LastOf(chan, EndEvents, wanted)
        \/ NoneOf(chan, EndEvents) /\ \A c \in Copied : c.state = row.state
    BY <1>8, <1>16 DEF Shown, StateShown, Shows
  <2>2. row.state \in Terminal /\ row.state # "queued"
    BY <1>8, <1>16, ClaimsFit DEF Terminal
  <2>3. ASSUME ev \in wanted  PROVE  \A c \in Copied' : c.state = row.state
    <3>1. ev \in EndEvents /\ ev.state = row.state
      BY <2>2, <2>3, EndEventIs
    <3> QED  BY <1>5, <1>10, <3>1
  <2>4. ASSUME ev \notin EndEvents, \A c \in Copied : c.state = row.state
        PROVE  \A c \in Copied' : c.state = row.state
    BY <1>5, <1>10, <2>2, <2>4
  <2> HIDE DEF wanted
  <2>5. \/ LastOf(chan', EndEvents, wanted)
        \/ NoneOf(chan', EndEvents) /\ \A c \in Copied' : c.state = row.state
    BY <1>11, <2>1, <2>3, <2>4
  <2> QED  BY <1>10, <2>5 DEF StateShown, Shows, wanted
<1>17. Shown'
  BY <1>1, <1>8, <1>10, <1>12, <1>13, <1>14, <1>15, <1>16 DEF Shown
<1> QED  BY <1>8, <1>9, <1>17 DEF Inv

----------------------------------------------------------------------------

(* The initial state satisfies the invariant.                               *)
LEMMA InitInv ==
    Init => Inv
<1> SUFFICES ASSUME Init  PROVE  Inv
  OBVIOUS
<1>1. /\ row = [state |-> "queued", step |-> NoStep, pct |-> 0,
                sub |-> NoSubStep]
      /\ steps = [s \in Steps |-> "pending"]
      /\ current = NoStep /\ pending = NoProgress
      /\ todo = [a \in Actors |-> <<>>]
      /\ at = 1 /\ phase = "queued" /\ reports = MaxReports
      /\ misfiled = FALSE
      /\ chan = <<>> /\ sub = "none" /\ closes = 0
      /\ link = "down" /\ snap = <<>> /\ view = <<>> /\ blank = FALSE
      /\ dials = 0
  BY DEF Init
<1>2. /\ MaxReports \in Nat /\ Buffer \in Nat /\ MaxConnections \in Nat
      /\ Len(JobSteps) \in Nat
  BY EventsAssumption DEF EventsAssumption
<1>3. \A T : <<>> \in Seq(T) /\ Len(<<>>) = 0
  OBVIOUS
<1>4. JobTyped
  <2>1. row \in Rows
    BY <1>1 DEF Rows, States, Full
  <2>2. steps \in [Steps -> StepStates]
    BY <1>1 DEF StepStates
  <2>3. pending \in [step : Steps \cup {NoStep}, pct : 0..Full]
    BY <1>1 DEF NoProgress, Full
  <2> QED  BY <1>1, <2>1, <2>2, <2>3 DEF JobTyped
<1>5. TodoTyped
  BY <1>1, <1>3 DEF TodoTyped
<1>6. MainTyped
  BY <1>1, <1>2 DEF MainTyped
<1>7. StreamTyped
  BY <1>1, <1>2, <1>3 DEF StreamTyped
<1>8. WebTyped
  <2>1. snap \in Seq(Rows) /\ Len(snap) = 0 /\ view \in Seq(Copies)
        /\ Len(view) = 0
    BY <1>1, <1>3
  <2>2. dials \in 0..MaxConnections
    BY <1>1, <1>2
  <2>3. link = "down" /\ blank \in BOOLEAN /\ snap = <<>>
    BY <1>1
  <2>4. Len(snap) <= 2 /\ Len(view) <= 2
    BY <2>1
  <2> QED  BY <2>1, <2>2, <2>3, <2>4 DEF WebTyped
<1>9. Left = <<>> /\ \A r \in Readers : todo[r] = <<>>
  BY <1>1 DEF Left, Actors, Readers
<1>10. MainIsThere /\ ReadersAreThere
  BY <1>1, <1>9 DEF MainIsThere, AtQueued, ReadersAreThere, Terminal
<1>11. DoneIsFull /\ LogsAttributed
  BY <1>1 DEF DoneIsFull, LogsAttributed
<1>12. Shown /\ Found
  BY <1>1 DEF Shown, Found
<1> QED  BY <1>4, <1>5, <1>6, <1>7, <1>8, <1>10, <1>11, <1>12
         DEF Inv, Core, Typed

(* A step that changes nothing.                                             *)
LEMMA StutterKeeps ==
    ASSUME Inv, UNCHANGED vars
    PROVE  Inv'
<1>1. /\ JobStays /\ StreamStays
      /\ UNCHANGED <<link, snap, view, blank, dials>>
  BY DEF vars, JobStays, StreamStays
<1>2. StreamTyped' /\ WebTyped'
  BY <1>1 DEF Inv, Core, Typed, StreamTyped, StreamStays, WebTyped
<1>3. Core'
  BY <1>1, <1>2, JobStaysThere DEF Inv
<1>4. Copied' = Copied
  BY <1>1 DEF Copied
<1>5. /\ Left' = Left
      /\ \A s \in Steps : StepPending(s)' <=> StepPending(s)
      /\ FieldPending' <=> FieldPending
      /\ PctClaimed' <=> PctClaimed
      /\ SubClaimed' <=> SubClaimed
  BY <1>1, <1>2, JobStaysThere DEF Inv
<1>6. /\ \A s \in Steps : StepShown(s)' <=> StepShown(s)
      /\ FieldShown' <=> FieldShown
      /\ PctShown' <=> PctShown
      /\ SubShown' <=> SubShown
      /\ StateShown' <=> StateShown
  <2>1. chan' = chan /\ row' = row /\ steps' = steps
    BY <1>1 DEF JobStays, StreamStays
  <2>2. \A s \in Steps : StepShown(s)' <=> StepShown(s)
    BY <1>1, <2>1 DEF StepShown, Shows
  <2>3. FieldShown' <=> FieldShown
    BY <1>4, <2>1 DEF FieldShown, Shows
  <2>4. PctShown' <=> PctShown
    BY <1>4, <2>1 DEF PctShown, Shows
  <2>5. SubShown' <=> SubShown
    BY <1>4, <2>1 DEF SubShown, Shows
  <2>6. StateShown' <=> StateShown
    BY <1>4, <2>1 DEF StateShown, Shows
  <2> QED  BY <2>2, <2>3, <2>4, <2>5, <2>6
<1>7. Shown'
  <2>1. sub' = sub /\ phase' = phase
    BY <1>1 DEF JobStays, StreamStays
  <2> QED  BY <1>5, <1>6, <2>1 DEF Inv, Shown
<1>8. Found'
  BY <1>1 DEF Inv, Found, JobStays
<1> QED  BY <1>3, <1>7, <1>8 DEF Inv

(* One step per action.                                                     *)
LEMMA NextKeeps ==
    ASSUME Inv, [Next]_vars
    PROVE  Inv'
<1>1. CASE StartJob
  BY <1>1, JobBegins, BegunIsInv DEF Inv
<1>2. CASE StartStep
  BY <1>2, StepBegins, BegunIsInv DEF Inv
<1>3. CASE JoinReaders
  BY <1>3, ReadersJoined, BegunIsInv DEF Inv
<1>4. CASE EndStep
  BY <1>4, StepEnds, BegunIsInv DEF Inv
<1>5. CASE EndJob
  BY <1>5, JobEnds, BegunIsInv DEF Inv
<1>6. CASE \E a \in Actors : Do(a)
  <2>1. CASE Do("main")
    BY <2>1, MainDoes, KeptIsInv DEF Inv
  <2>2. CASE \E r \in Readers : Do(r)
    BY <2>2, ReaderDoes, KeptIsInv DEF Inv
  <2> QED  BY <1>6, <2>1, <2>2 DEF Actors
<1>7. CASE \E r \in Readers : Report(r)
  BY <1>7, ReportBegins, BegunIsInv DEF Inv
<1>8. CASE Subscribe
  BY <1>8, SubscribeKeeps
<1>9. CASE Cancel
  BY <1>9, CancelKeeps
<1>10. CASE ReadActive
  BY <1>10, ReadActiveKeeps
<1>11. CASE ReadRecent
  BY <1>11, ReadRecentKeeps
<1>12. CASE SendSnapshot
  BY <1>12, SendSnapshotKeeps
<1>13. CASE SnapshotFails
  BY <1>13, SnapshotFailsKeeps
<1>14. CASE Forward
  BY <1>14, ForwardKeeps
<1>15. CASE UNCHANGED vars
  BY <1>15, StutterKeeps
<1> QED  BY <1>1, <1>2, <1>3, <1>4, <1>5, <1>6, <1>7, <1>8, <1>9, <1>10,
            <1>11, <1>12, <1>13, <1>14, <1>15 DEF Next


----------------------------------------------------------------------------
(* The invariant holds of the specification.                                *)
THEOREM EventsInvariant == Spec => []Inv
<1>1. Init => Inv
  BY InitInv
<1>2. Inv /\ [Next]_vars => Inv'
  BY NextKeeps
<1> QED  BY <1>1, <1>2, PTL DEF Spec

(* Type correctness; the subscriber's channel never holds more than it has  *)
(* room for and is closed at most once, by Publish or by the cancellation.  *)
THEOREM TypeCorrect == Spec => []TypeOK
<1>1. Inv => TypeOK
  <2> SUFFICES ASSUME Inv  PROVE  TypeOK
    OBVIOUS
  <2>1. /\ row \in Rows /\ steps \in [Steps -> StepStates]
        /\ current \in Steps \cup {NoStep} /\ misfiled \in BOOLEAN
        /\ pending \in [step : Steps \cup {NoStep}, pct : 0..Full]
    BY DEF Inv, Core, Typed, JobTyped
  <2>2. /\ row.state \in {"queued", "running", "done", "failed"}
        /\ row.step \in Steps \cup {NoStep} /\ row.pct \in 0..Full
        /\ row.sub \in {NoSubStep, "phase"}
        /\ steps \in [Steps -> {"pending", "running", "done", "failed"}]
        /\ pending.step \in Steps \cup {NoStep} /\ pending.pct \in 0..Full
    BY <2>1 DEF Rows, States, StepStates
  <2>3. MainTyped /\ StreamTyped /\ WebTyped
    BY DEF Inv, Core, Typed
  <2> QED  BY <2>1, <2>2, <2>3 DEF TypeOK, MainTyped, StreamTyped, WebTyped
<1> QED  BY <1>1, EventsInvariant, PTL

(* The percentage of a step that is done stands at 100 until another step   *)
(* is active: a report held back by the sink's once-a-second rule is        *)
(* written before the 100, never behind it.                                 *)
THEOREM DoneStaysFull == Spec => []DoneIsFull
<1>1. Inv => DoneIsFull
  BY DEF Inv, Core
<1> QED  BY <1>1, EventsInvariant, PTL

(* A log line is filed under the step whose tool wrote it: the readers are  *)
(* joined before the sink leaves the step.                                  *)
THEOREM LogsStay == Spec => []LogsAttributed
<1>1. Inv => LogsAttributed
  BY DEF Inv, Core
<1> QED  BY <1>1, EventsInvariant, PTL

(* When the job is over and a connected browser has had its events, every   *)
(* copy it shows says what the store says, whatever came before or between  *)
(* the queries of its snapshot.                                             *)
THEOREM BrowserConverges == Spec => []Converges
<1>1. Inv => Converges
  <2> SUFFICES ASSUME Inv, Quiet, Live, chan = <<>>
               PROVE  /\ view # <<>>
                      /\ \A k \in DOMAIN view :
                            /\ view[k].state = row.state
                            /\ view[k].steps = steps
                            /\ view[k].step = row.step
                            /\ row.state = "done" =>
                                  /\ view[k].pct = row.pct
                                  /\ view[k].sub = row.sub
    BY DEF Converges
  <2>1. /\ phase = "over" /\ Left = <<>> /\ link = "streaming"
        /\ sub = "open" /\ ~blank
    BY DEF Quiet, Live, Idle, Left, Actors
  <2>2. view # <<>> /\ Core
    BY <2>1 DEF Inv, Found
  <2>4. /\ \A s \in Steps : StepShown(s)
        /\ FieldShown /\ StateShown
        /\ PctClaimed => PctShown
        /\ SubClaimed => SubShown
    BY <2>1 DEF Inv, Shown, StepPending, FieldPending
  <2>5. ASSUME NEW k \in DOMAIN view
        PROVE  /\ view[k].state = row.state
               /\ view[k].steps = steps
               /\ view[k].step = row.step
               /\ row.state = "done" =>
                     view[k].pct = row.pct /\ view[k].sub = row.sub
    <3>1. view[k] \in Copied /\ view[k] \in Copies
      <4>1. view \in Seq(Copies)
        BY <2>2 DEF Core, Typed, WebTyped
      <4> QED  BY <2>1, <2>5, <4>1, ElementOfSeq DEF Copied
    <3>2. \A s \in Steps : view[k].steps[s] = steps[s]
      BY <2>1, <2>4, <2>5, NothingSent DEF StepShown, Shows
    <3>3. view[k].steps = steps
      <4>1. /\ view[k].steps \in [Steps -> StepStates]
            /\ steps \in [Steps -> StepStates]
        BY <2>2, <3>1 DEF Copies, Core, Typed, JobTyped
      <4> QED  BY <3>2, <4>1
    <3>4. view[k].step = row.step
      BY <2>4, <3>1, NothingSent DEF FieldShown, Shows
    <3>5. view[k].state = row.state
      BY <2>4, <3>1, NothingSent DEF StateShown, Shows
    <3>6. ASSUME row.state = "done"
          PROVE  view[k].pct = row.pct /\ view[k].sub = row.sub
      <4>1. PctClaimed /\ SubClaimed
        BY <2>1, <3>6 DEF PctClaimed, SubClaimed, Succeeds
      <4>2. row.pct = Full /\ row.sub = NoSubStep
        BY <2>2, <4>1, ClaimsFit
      <4>3. view[k].pct = Full
        BY <2>4, <3>1, <4>1, NothingSent DEF PctShown, Shows
      <4>4. view[k].sub = NoSubStep
        BY <2>4, <3>1, <4>1, NothingSent DEF SubShown, Shows
      <4> QED  BY <4>2, <4>3, <4>4
    <3> QED  BY <3>3, <3>4, <3>5, <3>6
  <2> QED  BY <2>2, <2>5
<1> QED  BY <1>1, EventsInvariant, PTL
=============================================================================
