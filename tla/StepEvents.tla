---------------------------- MODULE StepEvents -----------------------------
(***************************************************************************)
(* From a tool's line to the browser: the step sink of a job writes rows   *)
(* and publishes events (jobs/sink.go), the broadcaster hands them to its  *)
(* subscribers (state/broadcaster.go), an events request sends a snapshot  *)
(* and then the events (api/events.go), and the web client applies them to *)
(* its copy of the job (webui/src/lib/store.ts).  Every store statement,   *)
(* critical section and publication is a step of its own.  One job, the    *)
(* goroutine that runs it and the two readers of its tool's output.        *)
(***************************************************************************)
EXTENDS Naturals, Sequences, FiniteSets

CONSTANTS JobSteps,       \* the steps of the job, in order
          MaxReports,     \* reports the readers make in all
          Buffer,         \* Broadcaster.Subscribe(64)
          MaxConnections  \* connections the browser makes

ASSUME EventsAssumption ==
    /\ JobSteps \in Seq(STRING) /\ JobSteps # <<>> /\ MaxReports \in Nat
    /\ Buffer \in Nat \ {0} /\ MaxConnections \in Nat \ {0}

Steps == {JobSteps[k] : k \in DOMAIN JobSteps}
Readers == {"stdout", "stderr"}
Actors == {"main"} \cup Readers
Full == 2                       \* 100 per cent
NoStep == "none"
NoSubStep == "blank"            \* the empty sub-step

VARIABLES
    row,      \* the job's row: state, active step, progress, sub-step
    steps,    \* its step rows
    current,  \* the sink's currentStep
    pending,  \* the sink's pendingProgress
    todo,     \* what is left of the sink call an actor is in
    at,       \* the step main has reached
    phase,    \* of main: queued, between, reading, joined, leaving, over
    reports,  \* reports the readers may still make
    misfiled, \* a log line was filed under another step than its reader's
    chan,     \* the subscriber's channel
    sub,      \* the subscription: none, open, closed
    closes,   \* how often the channel of this subscription was closed
    link,     \* the request: down, subscribed, active read, jobs read,
              \* streaming
    snap,     \* the rows of the job found so far for the snapshot
    view,     \* the browser's list of jobs: its copies of this one
    blank,    \* the last snapshot could not be read
    dials     \* connections made

jobVars    == <<row, steps>>
sinkVars   == <<current, pending>>
mainVars   == <<at, phase, reports>>
streamVars == <<chan, sub, closes>>
webVars    == <<link, snap, view, blank, dials>>
vars == <<row, steps, current, pending, todo, at, phase, reports, misfiled,
          chan, sub, closes, link, snap, view, blank, dials>>

----------------------------------------------------------------------------
(* The sink's calls, as the steps they take.                               *)

StepRow(s, st) == [op |-> "step-row", step |-> s, state |-> st]
ActiveStep(s)  == [op |-> "active-step", step |-> s]
Progress(s, p) == [op |-> "progress", step |-> s, pct |-> p]
SubStep(name)  == [op |-> "sub-step", name |-> name]
JobState(st)   == [op |-> "job-state", state |-> st]
Publish(ev)    == [op |-> "publish", event |-> ev]
Locked(what, s, p) == [op |-> what, step |-> s, pct |-> p]

StepEvent(s, st)    == [name |-> "job.step", step |-> s, state |-> st]
ProgressEvent(s, p) == [name |-> "job.progress", step |-> s, pct |-> p]
SubStepEvent(name)  == [name |-> "job.substep", sub |-> name]
EndEvent(st)        == [name |-> "job.end", state |-> st]
LogEvent            == [name |-> "job.log"]

OnStepStart(s) ==
    <<StepRow(s, "running"), ActiveStep(s), Progress(s, 0),
      Locked("begin", s, 0), Publish(StepEvent(s, "running")),
      Publish(ProgressEvent(s, 0))>>

FlushProgress(s, p) == <<Progress(s, p), Publish(ProgressEvent(s, p))>>

(* The pending progress written after the last one.               [mutant] *)
OnStepDoneUnflushed(s) ==
    <<SubStep(NoSubStep), Progress(s, Full), Publish(ProgressEvent(s, Full)),
      Locked("flush", s, 0), Locked("leave", s, 0), StepRow(s, "done"),
      Publish(StepEvent(s, "done"))>>

OnStepDone(s) ==
    <<SubStep(NoSubStep), Locked("flush", s, 0), Progress(s, Full),
      Publish(ProgressEvent(s, Full)), Locked("leave", s, 0),
      StepRow(s, "done"), Publish(StepEvent(s, "done"))>>

OnStepFailed(s) ==
    <<Locked("leave", s, 0), StepRow(s, "failed"),
      Publish(StepEvent(s, "failed"))>>

OnProgress(s, p) == <<Locked("report", s, p)>>
OnSubStep(name)  == <<SubStep(name), Publish(SubStepEvent(name))>>
OnLog(s)         == <<Locked("log", s, 0), Publish(LogEvent)>>

(* The end published and then written.                            [mutant] *)
FinishUnwritten(st) == <<Publish(EndEvent(st))>>

Finish(st) == <<JobState(st), Publish(EndEvent(st))>>

----------------------------------------------------------------------------
(* The broadcaster.                                                        *)

(* A full channel is closed as well as the dropped subscriber's.  [mutant] *)
DropKept(ev) ==
    IF sub # "open" THEN UNCHANGED streamVars
    ELSE IF Len(chan) < Buffer
    THEN chan' = Append(chan, ev) /\ UNCHANGED <<sub, closes>>
    ELSE closes' = closes + 1 /\ UNCHANGED <<sub, chan>>

(* Publish never blocks: a subscriber whose channel is full is dropped and *)
(* its channel closed, under the lock.                                     *)
Broadcast(ev) ==
    IF sub # "open" THEN UNCHANGED streamVars
    ELSE IF Len(chan) < Buffer
    THEN chan' = Append(chan, ev) /\ UNCHANGED <<sub, closes>>
    ELSE sub' = "closed" /\ closes' = closes + 1 /\ UNCHANGED chan

Subscribe ==
    /\ link = "down" /\ dials < MaxConnections
    /\ dials' = dials + 1
    /\ sub' = "open" /\ chan' = <<>> /\ closes' = 0
    /\ link' = "subscribed" /\ blank' = FALSE
    /\ UNCHANGED <<jobVars, sinkVars, todo, mainVars, misfiled, snap, view>>

(* The request returns, because its client left or its channel is closed,  *)
(* and cancels its subscription, which Publish may have done before.       *)
Cancel ==
    /\ link # "down"
    /\ \/ dials < MaxConnections
       \/ link = "streaming" /\ sub = "closed" /\ chan = <<>>
    /\ link' = "down" /\ snap' = <<>>
    /\ IF sub = "open" THEN sub' = "none" /\ closes' = closes + 1
       ELSE sub' = "none" /\ UNCHANGED closes
    /\ chan' = <<>>
    /\ UNCHANGED <<jobVars, sinkVars, todo, mainVars, misfiled, view, blank,
                   dials>>

----------------------------------------------------------------------------
(* One step of a call.                                                     *)

Write(op) ==
    /\ row' = CASE op.op = "active-step" -> [row EXCEPT !.step = op.step]
                [] op.op = "progress" ->
                     [row EXCEPT !.step = op.step, !.pct = op.pct]
                [] op.op = "sub-step" -> [row EXCEPT !.sub = op.name]
                [] op.op = "job-state" -> [row EXCEPT !.state = op.state]
                [] OTHER -> row
    /\ steps' = IF op.op = "step-row"
                THEN [steps EXCEPT ![op.step] = op.state] ELSE steps
Writes == {"step-row", "active-step", "progress", "sub-step", "job-state"}
NoProgress == [step |-> NoStep, pct |-> 0]

(* The current step is forgotten only when it is still the one that ends.  *)
CurrentAfter(op) ==
    CASE op.op = "begin" -> op.step
      [] op.op = "leave" /\ current = op.step -> NoStep
      [] OTHER -> current

(* OnProgress keeps the latest report; when a second has passed since the  *)
(* last one written it writes it, outside the lock.                        *)
Do(a) ==
    /\ todo[a] # <<>>
    /\ LET op == Head(todo[a])
           next(more) == todo' = [todo EXCEPT ![a] = more \o Tail(@)]
       IN  \/ /\ op.op \in Writes
              /\ Write(op) /\ next(<<>>)
              /\ UNCHANGED <<sinkVars, misfiled, streamVars>>
           \/ /\ op.op = "publish"
              /\ Broadcast(op.event) /\ next(<<>>)
              /\ UNCHANGED <<jobVars, sinkVars, misfiled>>
           \/ /\ op.op \in {"begin", "leave"}
              /\ current' = CurrentAfter(op)
              /\ pending' = (IF op.op = "begin" THEN NoProgress ELSE pending)
              /\ next(<<>>)
              /\ UNCHANGED <<jobVars, misfiled, streamVars>>
           \/ /\ op.op = "report"
              /\ \/ pending' = [step |-> op.step, pct |-> op.pct]
                    /\ next(<<>>)
                 \/ pending' = NoProgress
                    /\ next(FlushProgress(op.step, op.pct))
              /\ UNCHANGED <<jobVars, current, misfiled, streamVars>>
           \/ /\ op.op = "flush"
              /\ pending' = NoProgress
              /\ next(IF pending = NoProgress THEN <<>>
                      ELSE FlushProgress(pending.step, pending.pct))
              /\ UNCHANGED <<jobVars, current, misfiled, streamVars>>
           \/ /\ op.op = "log"
              /\ misfiled' = (misfiled \/ current # op.step)
              /\ next(<<>>)
              /\ UNCHANGED <<jobVars, sinkVars, streamVars>>
    /\ UNCHANGED <<mainVars, webVars>>

----------------------------------------------------------------------------
(* Who calls the sink.                                                     *)

Idle(a) == todo[a] = <<>>
Call(a, ops) == todo' = [todo EXCEPT ![a] = ops]
Here == JobSteps[at]

(* The worker takes the job; it writes the row and publishes nothing.      *)
StartJob ==
    /\ phase = "queued" /\ Idle("main")
    /\ phase' = "between"
    /\ Call("main", <<JobState("running")>>)
    /\ UNCHANGED <<jobVars, sinkVars, at, reports, misfiled, streamVars,
                   webVars>>

StartStep ==
    /\ phase = "between" /\ Idle("main") /\ at <= Len(JobSteps)
    /\ phase' = "reading"
    /\ Call("main", OnStepStart(Here))
    /\ UNCHANGED <<jobVars, sinkVars, at, reports, misfiled, streamVars,
                   webVars>>

(* A line of the tool: progress, a phase, or a line for the log.           *)
Report(r) ==
    /\ phase = "reading" /\ Idle("main") /\ Idle(r) /\ reports > 0
    /\ reports' = reports - 1
    /\ \E ops \in {OnProgress(Here, 1), OnProgress(Here, Full),
                   OnSubStep("phase"), OnLog(Here)} : Call(r, ops)
    /\ UNCHANGED <<jobVars, sinkVars, at, phase, misfiled, streamVars,
                   webVars>>

(* The tool's call returns when its process ends.                 [mutant] *)
JoinMainOnly ==
    /\ phase = "reading" /\ Idle("main")
    /\ phase' = "joined"
    /\ UNCHANGED <<jobVars, sinkVars, todo, at, reports, misfiled, streamVars,
                   webVars>>

(* The tool's call returns when the readers have been joined.              *)
JoinReaders ==
    /\ phase = "reading" /\ \A a \in Actors : Idle(a)
    /\ phase' = "joined"
    /\ UNCHANGED <<jobVars, sinkVars, todo, at, reports, misfiled, streamVars,
                   webVars>>

EndStep ==
    /\ phase = "joined" /\ Idle("main")
    /\ \/ /\ phase' = "between" /\ at' = at + 1
          /\ Call("main", OnStepDone(Here))
       \/ /\ phase' = "leaving" /\ UNCHANGED at
          /\ Call("main", OnStepFailed(Here))
    /\ UNCHANGED <<jobVars, sinkVars, reports, misfiled, streamVars, webVars>>

(* The final state is written and then announced.                          *)
EndJob ==
    /\ Idle("main") /\ phase \in {"between", "leaving"}
    /\ phase = "between" => at > Len(JobSteps)
    /\ phase' = "over"
    /\ Call("main", Finish(IF phase = "leaving" THEN "failed" ELSE "done"))
    /\ UNCHANGED <<jobVars, sinkVars, at, reports, misfiled, streamVars,
                   webVars>>

----------------------------------------------------------------------------
(* The events request and the browser.                                     *)

Terminal == {"done", "failed"}

(* buildSnapshot lists the active jobs and the ended ones with a query     *)
(* each: a job that ends in between is in both lists.                      *)
ReadActive ==
    /\ link = "subscribed"
    /\ link' = "active-read"
    /\ snap' = IF row.state \notin Terminal THEN <<row>> ELSE <<>>
    /\ UNCHANGED <<jobVars, sinkVars, todo, mainVars, misfiled, streamVars,
                   view, blank, dials>>

ReadRecent ==
    /\ link = "active-read"
    /\ link' = "jobs-read"
    /\ snap' = IF row.state \in Terminal THEN Append(snap, row) ELSE snap
    /\ UNCHANGED <<jobVars, sinkVars, todo, mainVars, misfiled, streamVars,
                   view, blank, dials>>

(* The steps of all jobs are read with a query of their own.               *)
HydrateJobSteps ==
    [k \in DOMAIN snap |->
       [state |-> snap[k].state, step |-> snap[k].step, pct |-> snap[k].pct,
        sub |-> snap[k].sub, steps |-> steps]]

(* A snapshot sent to a channel that was opened after it.         [mutant] *)
SendSnapshotLate ==
    /\ link = "jobs-read"
    /\ link' = "streaming"
    /\ view' = HydrateJobSteps /\ snap' = <<>>
    /\ chan' = <<>>
    /\ UNCHANGED <<jobVars, sinkVars, todo, mainVars, misfiled, blank,
                   dials, sub, closes>>

SendSnapshot ==
    /\ link = "jobs-read"
    /\ link' = "streaming"
    /\ view' = HydrateJobSteps /\ snap' = <<>>
    /\ UNCHANGED <<jobVars, sinkVars, todo, mainVars, misfiled, streamVars,
                   blank, dials>>

(* A store error leaves the snapshot empty, and the browser without jobs.  *)
SnapshotFails ==
    /\ link \in {"subscribed", "active-read", "jobs-read"}
    /\ link' = "streaming" /\ blank' = TRUE
    /\ view' = <<>> /\ snap' = <<>>
    /\ UNCHANGED <<jobVars, sinkVars, todo, mainVars, misfiled, streamVars,
                   dials>>

Patch(v, ev) ==
    CASE ev.name = "job.step" ->
           [v EXCEPT !.step = ev.step,
                     !.steps[ev.step] = ev.state,
                     !.state = IF @ = "queued" /\ ev.state = "running"
                               THEN "running" ELSE @,
                     !.sub = IF ev.state = "done" THEN NoSubStep ELSE @]
      [] ev.name = "job.progress" ->
           [v EXCEPT !.step = ev.step, !.pct = ev.pct]
      [] ev.name = "job.substep" -> [v EXCEPT !.sub = ev.sub]
      [] ev.name = "job.end" -> [v EXCEPT !.state = ev.state]
      [] ev.name = "job.log" -> v

(* The client patches every copy it has; a job it does not know stays so.  *)
HandleSSEEvent(ev) == [k \in DOMAIN view |-> Patch(view[k], ev)]

(* A closed channel still yields what is in it.                            *)
Forward ==
    /\ link = "streaming" /\ chan # <<>>
    /\ view' = HandleSSEEvent(Head(chan))
    /\ chan' = Tail(chan)
    /\ UNCHANGED <<jobVars, sinkVars, todo, mainVars, misfiled, sub, closes,
                   link, snap, blank, dials>>

----------------------------------------------------------------------------
Init ==
    /\ row = [state |-> "queued", step |-> NoStep, pct |-> 0,
              sub |-> NoSubStep]
    /\ steps = [s \in Steps |-> "pending"]
    /\ current = NoStep /\ pending = NoProgress
    /\ todo = [a \in Actors |-> <<>>]
    /\ at = 1 /\ phase = "queued" /\ reports = MaxReports
    /\ misfiled = FALSE
    /\ chan = <<>> /\ sub = "none" /\ closes = 0
    /\ link = "down" /\ snap = <<>> /\ view = <<>> /\ blank = FALSE
    /\ dials = 0

Next ==
    \/ StartJob \/ StartStep \/ JoinReaders \/ EndStep \/ EndJob
    \/ \E a \in Actors : Do(a)
    \/ \E r \in Readers : Report(r)
    \/ Subscribe \/ Cancel \/ ReadActive \/ ReadRecent
    \/ SendSnapshot \/ SnapshotFails \/ Forward

(* Goroutines run; EventSource connects again whenever its stream ends.    *)
Fairness ==
    /\ \A a \in Actors : WF_vars(Do(a))
    /\ WF_vars(StartJob) /\ WF_vars(StartStep) /\ WF_vars(JoinReaders)
    /\ WF_vars(EndStep) /\ WF_vars(EndJob)
    /\ WF_vars(Subscribe) /\ WF_vars(ReadActive) /\ WF_vars(ReadRecent)
    /\ WF_vars(SendSnapshot) /\ WF_vars(Forward)
    /\ WF_vars(Cancel /\ sub = "closed")

Spec == Init /\ [][Next]_vars /\ Fairness

----------------------------------------------------------------------------
(* Properties.                                                             *)

(* Type invariant; a channel is closed once at most, whether Publish drops *)
(* the subscriber or the request cancels it.                               *)
TypeOK ==
    /\ row.state \in {"queued", "running", "done", "failed"}
    /\ row.step \in Steps \cup {NoStep} /\ row.pct \in 0..Full
    /\ row.sub \in {NoSubStep, "phase"}
    /\ steps \in [Steps -> {"pending", "running", "done", "failed"}]
    /\ current \in Steps \cup {NoStep}
    /\ pending.step \in Steps \cup {NoStep} /\ pending.pct \in 0..Full
    /\ at \in 1..Len(JobSteps) + 1 /\ reports \in 0..MaxReports
    /\ phase \in {"queued", "between", "reading", "joined", "leaving", "over"}
    /\ misfiled \in BOOLEAN /\ blank \in BOOLEAN
    /\ Len(chan) <= Buffer /\ sub \in {"none", "open", "closed"}
    /\ closes \in 0..1
    /\ link \in {"down", "subscribed", "active-read", "jobs-read",
                "streaming"}
    /\ Len(snap) <= 2 /\ Len(view) <= 2
    /\ dials \in 0..MaxConnections

Quiet == phase = "over" /\ \A a \in Actors : Idle(a)
Live == link = "streaming" /\ sub = "open" /\ ~blank

(* When the job is over and a connected browser has had its events, it     *)
(* shows what the store says, whenever it connected and whatever events    *)
(* came before its snapshot.  Of a failed job the last percentage and      *)
(* sub-step may differ: the two readers write and publish in any order.    *)
Converges ==
    Quiet /\ Live /\ chan = <<>> =>
       /\ view # <<>>
       /\ \A k \in DOMAIN view :
             /\ view[k].state = row.state /\ view[k].steps = steps
             /\ view[k].step = row.step
             /\ row.state = "done" =>
                   view[k].pct = row.pct /\ view[k].sub = row.sub

(* The progress of a step that is done stands at 100 until the next step   *)
(* starts: no report that was held back lands behind it.                   *)
DoneIsFull ==
    \A s \in Steps : row.step = s /\ steps[s] = "done" => row.pct = Full

(* Every log line is filed under the step its tool ran for.                *)
LogsAttributed == ~misfiled

(* Claimed at store.go:1108-1110: the two arms of the listing are told     *)
(* apart by the state, so that no job appears twice.                       *)
ListedOnce == Len(view) <= 1

(* A job that has ended is shown as ended in the browser, however often it *)
(* was cut off or dropped for being slow, unless it has had its last       *)
(* connection or a snapshot without jobs.                                  *)
CatchesUp ==
    Quiet ~> \/ view # <<>> /\ \A k \in DOMAIN view :
                                 view[k].state = row.state
             \/ blank \/ (dials = MaxConnections /\ link = "down")
=============================================================================
