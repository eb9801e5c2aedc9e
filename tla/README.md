# Verification of the DiscEcho daemon

DiscEcho is a daemon (Go, `src/daemon`) that watches optical drives, identifies
what is put into them, rips it and, for video discs, encodes the rip. This
directory holds TLA+ modules of the daemon, from the credentials of its outside
services and the probes that classify a disc to the queues that run a job, the
handlers and tools that do its work and the events that show it, with TLC
configurations that check them on small instances, and theorems about the core that
TLAPS checks for every size of the system.

Run in this directory:

    tlc -workers 2 -config MCJobEngine_retry.cfg MCJobEngine
    tlapm JobEngine_proofs.tla

## 1. The system

| Component | Code | State | Operations | Talks to |
|---|---|---|---|---|
| Store | `state/store.go`, `state/types.go`, `state/disc_lifecycle.go`, migrations | tables: discs, drives, jobs, job_steps, settings, ... (SQLite) | single statements and short transactions | everybody |
| Orchestrator | `jobs/orchestrator.go` | a queue and a worker goroutine per drive, `cancels` by job id | Submit, SubmitScan, Cancel, CancelAll, Close, runJob | store, spool, handlers, Compute |
| Compute pool | `jobs/compute.go` | one queue, N workers, `inFlight` and `limit`, `cancels` | Enqueue, Cancel, Owns, SetConcurrency, runOne, Close | store, spool, handlers |
| Spool | `spool/spool.go` | one directory per split rip | Create, Cleanup, GC, UsageBytes | store (references) |
| Job API | `api/jobs.go` | none of its own | cancel, cancel all, retry transcode, delete job | orchestrator, pool, store, spool |
| Disc API | `api/discs.go` | `startMu` | start, scan, delete, identify, set type | store, orchestrator, outside services |
| Drive API | `api/drives.go` | none | eject, close tray, reclassify, read offset | store, disc flow, tools |
| Disc flow | `cmd/discecho/discflow.go`, `enrich.go` | none | handle a media-change event | store, classifier, handlers |
| Drive discovery | `drive/` | none | initial scan, udev events | disc flow |
| History | `api/history.go`, `state/sweeper.go` | none | clear history, nightly prune | store |
| Pipeline handlers | `pipelines/*` | a work directory | Identify, Plan, Run, RunRip, RunTranscode, ScanTitles | tools, sinks |
| Step sinks | `jobs/sink.go`, `pipelines/stepsink.go`, `multi_title_sink.go` | pending progress, current step | OnStepStart, OnProgress, OnStepDone, ... | store, broadcaster |
| Events | `state/broadcaster.go`, `api/events.go` | subscribers with bounded buffers | Subscribe, Publish, Close | browsers |
| Identification | `identify/` | caches | Classify, searches | outside services |
| Settings, profiles, integrations | `settings/`, `integrations/`, `api/settings.go`, ... | settings table | validate, save, reload | pool, clients |
| Tools | `tools/` | none | wrappers of outside programs | - |
| Process | `cmd/discecho/main.go`, `docker-compose.yml` | - | start-up, shutdown, restart | everything |
| Web UI | `webui/` | a view | - | API, event stream |

A start request becomes a rip row and an item in the queue of the drive. The
worker of the drive waits for room in the spool, marks the row running and calls
the handler. For a splittable handler (DVD, Blu-ray, UHD) the rip goes into a
spool directory named after the rip job; when it is done the orchestrator creates
a child row of kind `transcode` and puts it on the queue of the Compute pool, so
that the drive is free for the next disc. The pool encodes from the directory and
removes it when the encode is done; a failed encode keeps it, and may be retried.

What is hard here:

* a job's row, its place (queue, worker, request) and its directory are three
  things in three places, written by different goroutines without a common lock;
* a Stop looks for a worker first and writes the row later; a worker reads the
  row first and writes it later;
* handlers check a row and act on it in a second step (retry, delete, start);
* rows are deleted under the feet of a worker (disc deletion, job deletion,
  history clean-up, the foreign keys' cascades);
* a crash leaves rows, spool and an empty memory, to be reconciled at start-up;
* events of a drive, API requests and its worker write one drive row with single
  statements, and every one of them decided what to write some time before;
* a slow drive sends several events for one disc, and each identification may
  read different parts of it;
* shutdown lets requests end, then workers, then the pool, in that order;
* the spool cap, the encode limit and the bounded queues make goroutines wait.

What makes each component correct:

* Rows: an outcome once written is the last word; only a failed or interrupted
  transcode is ever reopened.
* Orchestrator: no accepted job is stranded, a disc is not queued twice, a drive
  shown as ripping has a worker.
* Pool: no two workers encode one job; every accepted transcode ends.
* Spool: a transcode that may still run or be retried has its directory.
* Drive flow: one identification at a time per drive, no eject under a running
  rip, nobody overwrites the state another flow has set, a busy drive comes back,
  one insertion leaves one row.
* Slots: the counter of running encodes is exact, nobody enters but below a limit he
  was told, a job that has been taken is not left waiting.
* Handlers: a job that succeeds has run its plan and delivered every title, one that
  fails shows where, and what a retry needs stays.
* Tools: what a tool says is heard before its verdict, nothing is heard after it, and
  the call ends.
* Sinks and events: a finished step stands at 100, a dropped subscriber's channel is
  closed once, a browser that reconnects sees the current state.
* Identification: a disc is recorded as what it is and named after the best match,
  whichever probe or search answers first; what a row says of it belongs to its name.
* Titles: each selected title ends up once in the library, under its own name, and no
  other job's file is replaced.
* Integrations: the table, the registry and the client agree, and a restart comes up
  with the credentials in force.

## 2. Modules

| Module | What it is |
|---|---|
| `JobRows` | job rows and the statements on them, as operators |
| `JobEngine` | the state machine: store, orchestrator, pool, spool, requests, process |
| `JobLedger` | the abstract specification: what may happen to the two rows and the directory of a job |
| `DriveFlow` | one drive: media-change events, re-identification, eject and the worker on its row, and the disc rows they leave |
| `SlotLimit` | the abstract specification of the limit on concurrent encodes |
| `ComputeSlots` | the pool's slots, atomic operation by atomic operation, with a limit that changes |
| `Pipelines` | every handler as a script of calls, and the control flow they share |
| `ToolRun` | one run of an outside tool: process, pipes, readers, watchdog, caller |
| `StepEvents` | from a tool's line to the browser: sink, rows, broadcaster, event stream, client |
| `Integrations` | the credentials of one integration in the four places that hold them |
| `DiscProbe` | the classifier and its probes on any kind of disc |
| `Lookup` | titles, queries, searches and picks: how a disc gets its name |
| `Titles` | which titles are ripped, how they are named and moved |
| `Positions` | what a loop that appends some elements of a slice leaves, by their positions |
| `DiscPath` | the composition of `Integrations`, `DiscProbe`, `Lookup` and `Titles`: one disc on its way through the daemon |
| `MC...` | instances for TLC |
| `JobEngine_proofs` | types; the inductive invariant of the engine and the safety properties that follow; the engine implements the ledger; outcomes are last; nothing is stranded |
| `DriveFlow_proofs` | the inductive invariant of the drive flow and its safety properties |
| `ComputeSlots_proofs` | the slots implement the limit, and what the limit promises |
| `Titles_proofs` | selections by position, the names of files, and that a job delivers what was selected under its own name |
| `DiscPath_proofs` | along the way of a disc: credentials, the kind of the disc, its name, and its titles |
| `StepEvents_proofs` | types, the order of sink events, and that the browser ends up with what the rows say |
| `ToolRun_proofs` | no output is lost or late, and the result is told as it was |
| `Pipelines_proofs` | every handler's scripts are walks, and the promises that follow |

Every definition that models code is listed with its lines in `PROJECT.json`
("map").

### JobEngine: state and code

| Variable | Code |
|---|---|
| `discRow` | rows of `discs` |
| `rip[r]`, `enc[r]` | the state of a rip or scan row and of its transcode child; they share the id `r`, because a rip has at most one child. `none`: not created; `deleted`: gone |
| `spool` | directories below the spool root |
| `ripping` | drives whose row says `ripping` |
| `driveQ`, `dpc`, `djob`, `dcancel`, `ripReg` | `Orchestrator.queues`; where the worker of a drive is and with which job; whether its context is cancelled; the keys of `Orchestrator.cancels` |
| `encQ`, `wpc`, `wjob`, `wcancel`, `encReg` | the same for the pool; `encReg[r]` is the worker whose cancel function is registered under `r`, because a retry may register over an older entry |
| `upc`, `ujob` | API requests in flight |
| `phase` | `up`, `closing` (Orchestrator.Close waits), `poolClosing` (Compute.Close waits), `down` |

A step is one access to something that is shared: a statement on the store, a
critical section of a mutex, a channel operation, a change in the spool. A
request that needs two statements is two steps, and anything may come between.
`Respond(u)` is the second half of every request.

| Actor | Actions, in order |
|---|---|
| start, scan | `CheckStart`, `CreateRip`, `EnqueueRip` (`StartMuFree`: the mutex spans all three for a start, none for a scan) |
| stop, stop all | `StopRip` or `StopEnc`: cancel a registered worker, else `StopRipRow`, `StopEncRow` |
| retry | `CheckRetry`, `ResetTranscodeJob`, `EnqueueEnc` |
| delete job | `CheckDeleteRip`, `DeleteRipJob`; `CheckDeleteEnc`, `DeleteEncJob`, `CleanSpool` |
| delete disc, eject | `CheckDropDisc` or `CheckEject`, `DropDisc` |
| history | `ClearHistory`, `PruneHistory` (one transaction each) |
| worker of a drive | `Dequeue`, `PassGate`, `LoadRip`, `StartRip`, `EndRip`, `SpawnEncode` or `SpawnFails`, `EnqueueEncode`, `FinishRip`, `UnregisterRip`; `LeaveDrive` at shutdown |
| worker of the pool | `DequeueEnc`, `Acquire`, `LoadEnc`, `StartEncode`, `EndEncode`, `FinishEncode`, `CleanupSpool`, `UnregisterEnc`; `AbandonAcquire`, `LeavePool` at shutdown |
| process | `Close`, `ClosePool`, `Exit`, `Crash`, `Restart` |

Abstractions, and why they keep what the properties tell apart:

* A handler's run is one step with any of three outcomes. `cancelled` needs a
  cancelled context; a cancelled context may also surface as a failure or come
  too late. A transcode is `done` only if its directory is still there: it reads
  its input from it.
* A disc is in one drive for good; a larger disc id is a later disc. `NextId`
  hands out the rip ids of a disc in order, so that "the newest row" is the
  largest id.
* `PruneHistory` may pick any set of terminal rows. The code picks by age and
  number; every choice it can make is among them.
* The cap of the spool is counted in directories. The drive row is `ripping` or
  not; its other states belong to `DriveFlow`.
* A statement on the store fails only where the code's behaviour depends on it
  (a missing row, a cancelled context, `SpawnFails`).
* The states `identifying` and `paused` of a job are declared but never written.
* The read that precedes a write in one transaction (reset, delete with
  orphans) is part of the same step: SQLite serialises them.

### JobLedger

The promise, per job: accepted once; a transcode is only ever queued or running
with its directory in place; an outcome stays, except that a failed or interrupted
transcode may be queued again; a directory goes away only before the transcode
exists, or after it is done or deleted. `Forget` (deletion) and `Reboot` are the
two changes that concern more than one job. There are no queues, workers or
requests in it: `KeepsLedger` says that all of them together do nothing else.

### DriveFlow: state and code

`JobEngine` has every job and takes the drive for a place; `DriveFlow` has one drive
and takes the jobs for what the flows on it read of them (is one active, has one
just ended, which row may be dropped). The two meet in the worker: `TakeJob`,
`ShowRipping`, `EndRip` and `ShowIdle` are `StartRip`, `EndRip` and `FinishRip` of the
engine, split at the statement that writes the drive row.

| Variable | Code |
|---|---|
| `drive` | `drives.state` |
| `media`, `unseen` | the disc in the tray; whether the kernel still owes an event for its last change |
| `row`, `toc`, `id`, `recent` | rows of `discs` with their `toc_hash` and `metadata_id`; `recent` are those within `discDedupWindow` |
| `job`, `cooling` | the newest rip of each row; whether a job ended within `discFlowCooldown` |
| `pc`, `kind`, `target`, `found` | each goroutine: where it is, what it is (event, eject, re-identification, change of type), its row, and what it has read of the disc |
| `wpc`, `wrow` | the worker of the drive |
| `overlap`, `overtaken`, `stomped`, `picked`, `leftover` | not in the code: what its comments speak of, for the properties |

| Actor | Actions, in order |
|---|---|
| event (insertion), `HandleManual` | `CheckBusy`, `CheckCooldown`, `ClaimDriveForIdentify`, `Classify` (or `ClassifyFails`, `ClassifyRejects`), `Identify` (or `IdentifyFails`, `IdentifyNothing`), `Lookup`, `Refresh` or `CreateDisc`, `Release` |
| event (removal) | `CheckBusy`, `SettleIdle`, `FindClearable`, `DeleteDisc` |
| eject | `CheckBusy`, `SetEjecting`, `RunEjectTool`, `SettleIdle`, `FindClearable`, `DeleteDisc` |
| re-identify | `CheckBusy`, `ClaimDriveForIdentify`, `Classify`, `Identify`, `Refresh`, `Release` |
| change of type | the same without `Classify`; `SaveTypeOnly` when the drive cannot be had |
| any of them | `ContextEnds`: the client hangs up, the route's timeout or `identifyDur` runs out, at any step |
| event | `LookupFails`: the look-up of active or of recent jobs fails, and the event goes on as if there were none |
| worker | `TakeJob`, `ShowRipping` (or `StopBeforeShown`), `EndRip`, `ShowIdle` |
| user, time, process | `Insert`, `Remove`, `StartDisc`, `CancelQueued`, `CoolDown`, `Age`, `Reboot` |

Abstractions:

* One drive: every statement is keyed by the drive's id, and a disc row belongs to
  one drive.
* What is known of a disc is a hash and an id. A disc may have either or both, and
  an identification may fail to read what there is: for the look-ups of
  `persistDisc` nothing else counts. `Xbox360` in `MCDriveFlow` is a disc with both (the
  hash of its file listing and its title id), `PSX` one with a boot code only.
* The disc's type, candidates, titles and blobs, `last_error`, `tray_open` and the
  enrichment from IGDB are left out: no flow decides anything on them here.
* `StartDisc` is one step. Its own races are `JobEngine`'s (`race`); here it is what
  overtakes a flow.
* `cancelled`, `failed` and `interrupted` are one outcome, because
  `ClearableDiscOnDrive` treats them alike. The worker may take any queued job.
* The encode half of a job is left out: it never touches the drive row. That the
  drive counts as busy while its worker is free, as during an encode, is there in
  a queued job that nobody has taken yet.
* A statement fails only when its context has ended, except for the two look-ups that
  let an event pass when they fail (`LookupFails`).

### ComputeSlots and SlotLimit

`JobEngine` takes a slot in one step with a fixed limit; `ComputeSlots` opens that step.
`limit`, `inFlight`, `wake` (the tokens in the channel) and `queue` are the fields of
`Compute`; `pc`, `cur`, `lim` are where each worker is in `acquire` and what it has
read; `call`, `next`, `left` the same for each `SetConcurrency`. A worker goes
`Take`, `LoadInFlight`, `LoadLimit`, `Swap`, and from there to the encode, or to the
channel (`Woken`, or `GiveUp` when the pool closes) and round again; then `Release`,
`Notify`. A setter goes `Compare`, `Store`, `WakeOne` as often as the new limit says.
The compare-and-swap compares values: a counter that has gone down and up again since
it was read is taken for unchanged, as in the code. `SlotLimit` knows only the limit, the
limit each worker was told last, and who is inside. The refinement maps `told` to
`lim` and `holders` to the workers at `encode`.

### Pipelines

A handler's function is a script, and its record in `Handlers` says which: two halves
(`RunRip`, `RunTranscode`) for DVD, Blu-ray and UHD, one `Run` for the others, and
`ScanTitles`. An instruction is a call that may fail, an event for the sink or a loop over
titles; the calls stand in the order of the source, so that an early return leaves out
what the source leaves out. `Fail` is the shared error path: the step that runs, or the
step the error is reported on, is marked failed, the deferred calls run (`Leave`), the
function returns. `rows` are the step rows of the two jobs, `tray`, `mounted`, `work` the
world the calls act on, `raw`, `enc`, `lib` where each title is. A crash ends the compute half
wherever it is, without the deferred calls; a retry runs the compute half again on the
same spool. `Within` is a step with its calls, `Delivering` and `Shelving` are the two ways the
handlers end: rendered and moved, or moved with sidecars and a notification. When a loop
begins, `Listings` are the orders in which the directory may name its files. Command lines, hashes, game databases and sizes are left out.

### ToolRun

`Tools` has a record per tool: how its pipes are read (a parser per pipe, or both into one),
in which order the caller joins readers and waits (`dvdbackup` waits first), whether a
reader drains after a line too long for its scanner, whether there is a watchdog, what
may overrule the exit code. The child writes lines into pipes that block, and may exit,
hang or be killed at any point; each reader takes a token, then handles it; the caller
joins, waits, returns. The watchdog may still trip after the readers have been joined, until
it takes notice (`DogLeaves`). What a line means is reduced to what parsers remember: a percentage
out of four levels, a track's verdict, a banner, a boundary.

### StepEvents

`row` and `steps` are the rows of a job, `current` and `pending` the sink, `chan`, `sub` the
subscription, `link`, `snap` the events request, `view` the browser. A sink call is a list of
operations (`todo`): a store statement or a publication each, and `Do(a)` is the next one
of an actor's. Three actors report: the goroutine of the job and the readers of its
tool. `Broadcast` drops the subscriber whose buffer is full. A snapshot is two reads, one for
each listing. The client replaces its jobs by a snapshot and patches those it has with
each event. The timer of the progress coalescing is a choice: each report may come before
or after the window has passed.

### Integrations, DiscProbe, Lookup, Titles and DiscPath

`Integrations` is one of IGDB, TMDB and MakeMKV, with its credentials in the environment,
the settings table, the registry and the client. A PUT is a read, a write for each field, the
registry (`RegistryPut`), the client (`Swap`, `Flush` of IGDB's token), and on failure the
roll-back of the one field MakeMKV has (no other client refuses credentials), which clears the
table and writes the old value back, each of which may fail unnoticed; two requests interleave, IGDB calls copy the configuration, fetch a token
and store it, and the daemon crashes between any two. `apart` marks what the comments of
the code accept (a roll-back that fails, requests that overlap), `mixed` that the fields of
one edit were written between those of another or only in part, `overtaken` that a token was
being fetched when the credentials changed. A value of IGDB's id or secret says which edit
it comes from, so that `EnteredTogether` can tell a pair that was entered from one that was not.

`DiscProbe` has a disc with what cd-info, the file listing and each probe would find on it,
and walks `Classify` and `RefineDiscType` in their order; a probe hears what there is, or
gives up, and the deadline may pass at any point. Which optional probes exist is the constant
`Wired`. `lost` remembers the probes that failed: a disc may be recorded as something else only when
one its kind is told by is among them.

`Lookup` starts with a medium (labels, a table of contents), makes the query, sends the two
searches, whose answers come in any order or fail, ranks what has come, and writes the row;
then `StartDisc`, twice at most, with a candidate, titles and episodes picked. A request reads
the row before it has `startMu` (`ReadDisc`), so what it writes back may come from an older
copy than the one it writes over (`seen`). A title is a set of
words, and similarity compares these sets. An audio CD's disc id is the table the
drive reports.

`Titles` selects titles, rips them (MakeMKV) or encodes them from the disc (HandBrake), renders
a path for each and moves them. Whether the name of an episode is known is a choice
(`named`): without one, a title mapped to episode 2 has the path of the second title that is
mapped to none. `StatPath` and `Move` are the two halves of
`AtomicMove`, and another job may put a file where this one is going in between.

Discs, picks, maps, films and labels are constants (`Scans`, `Picks`, `Maps`, `Movies`, `Shows`,
`Releases`, `Media`), given small sets in `MCDiscPath` and assumed nothing of that the
tools and services do not grant; `Rows` bounds the rows of an answer and `Marks` the titles a
disc may mark as its main one.

`DiscPath` runs the four one after the other: with a TMDB key in force or not, a disc
is probed; the medium that `Lookup` gets is one of the type that was recorded; the job `Titles` gets has the
picks StartDisc wrote. A stage's properties are checked in the states the stage before can
hand over.

## 3. Runs

| Run | Instance | Checks |
|---|---|---|
| `retry` | 1 split rip, 2 pool workers, 2 requests, encode limit 2, 1 crash or shutdown, 2 retries | type invariant, `SpoolHeld`, `EncoderHasInput`, `NoStrandedJob`, `SoleEncoder`, `RippingIsReal`, `Custody`, `OutcomesLast`, and the refinement `KeepsLedger` |
| `race` | 2 rips of one disc (one monolithic, one split), a second disc in the same drive, 2 requests | `QueuedOnce` |
| `live` | 1 split rip and 1 scan of one disc, spool cap 1, 1 worker, 1 request, 1 crash or shutdown, 1 retry | `RipsSettle`, `EncsSettle` under fairness |
| `drive` | 2 goroutines at a time, 3 in all, 2 rows, an Xbox 360 disc put in by hand, 1 job, a drive for Blu-ray and consoles (so that an unreadable disc yields a card) | `TypeOK`, `RippingShown`, `OneRowPerDisc` |
| `back` | 2 goroutines, 1 row, a PlayStation disc put in and taken out, 1 job, 1 context that ends or look-up that fails, 1 crash | `BusyIsReal`, `ChecksHold`, and `DriveComesBack` under fairness |
| `slots` | 3 workers, 3 jobs, any initial limit up to 3, one change to 0, 2 or 4 | the refinement `KeepsLimit`, and `Served` under fairness |
| `pipe` | every handler and mode, 2 titles or tracks, 1 retry of the compute half, any call failing, a crash of that half | `PlanHonoured`, `ErrorIsShown`, `NoReadAfterEject`, `NothingLost`, `Settled`, `OneStepAtATime` |
| `tool` | 11 ways of running a tool, 3 lines, pipes of one line, 2 ticks of the watchdog, 2 boundary retries, 1 forwarded line | `OutputHeard`, `QuietAfterReturn`, `WhipperSummary`, `VerdictTold`, and `RunEnds` under fairness |
| `sink` | 2 steps, 2 reports by two readers, a buffer of 2 events, 2 connections | `TypeOK`, `Converges`, `DoneIsFull`, `LogsAttributed`, and `CatchesUp` under fairness |
| `disc` | 2 edits, 2 IGDB calls, 1 crash; every kind of disc, 1 retry of a probe; 2 candidates of a search, 2 starts; 1 retry of the moves | `CredentialsHold`, `KindKept`, `IdentifiedRight`, `Paired` |
| `stop`, `episodes` | the smallest instance that shows it | one statement of the code's comments that the code does not keep (section 5) |

Configurations to run by hand, each of them violated (section 5):
`MCJobEngine_close`, `_owns`, `_history`; `MCDriveFlow_claim`, `_phantom`, `_stuck`;
`MCToolRun_refine`; `MCStepEvents_twice`; `MCDiscProbe_wired`; `MCComputeSlots_idle`.

Why the bounds are enough to be interesting: races of requests need two of them
at the same job; `SoleEncoder` needs two workers with two slots and a retry while
the first attempt is still on its way out; two retries let a retry overtake a
retry; one crash at every point, with the restart after it, covers recovery,
since recovery forgets how often it ran. A queue of one makes `EnqueueRip` and
`EnqueueEnc` block. `retry` and `race` use symmetry of requests and workers
(neither is named anywhere but in the quantifiers of `Next`); `live` uses none.
In `DriveFlow` every hazard is between two flows, or a flow
and the worker: two goroutines at a time show each pair, and a third in all lets
a new one meet what an earlier one has left. Two rows are one more than an
insertion may leave. `drive` uses symmetry of goroutines; `back` uses none.
Deadlock checking is off everywhere: when the ids and the crashes of an
instance are used up and all rows are settled or deleted, nothing is left to do.
Whether the system gets stuck earlier is what `RipsSettle` and `EncsSettle` ask.

Fairness (`FairSpec`): weak fairness of each request that has begun, of each
worker's next step, and of the shutdown and restart steps. A goroutine that can
run does run; an outside tool ends (the handlers run them under a context and
wait for them); `docker-compose.yml` says `restart: unless-stopped`. Nobody owes
a request, a crash or a shutdown. `RipsSettle` has an excuse, `SpoolStuck`: with a
cap, directories kept for a possible retry may fill the spool, and then every
drive waits at its gate until a user retries or deletes one, or the daemon
restarts. That is what `waitForSpoolCapacity` does, and TLC finds it when the
excuse is dropped.

In `slots` three workers are what a lost race needs beside the two that race, and a limit of
three leaves room for two to enter between a third's loads; 4 and 0 are out of range. Two
titles are one that is done and one that is not; two readers and two reports
put any report before and after any other and before and after the end of a step; a buffer
of two is full after two, and what is dropped is made good by a second connection. Two edits
overlap in every way; two searches have two orders; one retry of a probe has a first and a
last attempt. A longer backoff, a larger cap and more reports repeat these.

Fairness of `slots`, `tool` and `sink`: goroutines that can run do, an encode ends, the
browser's `EventSource` connects again; nobody owes a change of the setting, a kill by
hand, a line or an exit of a tool that hangs. `RunEnds` has the excuse `Excused`: a
tool that hangs and has no watchdog, and a reader that stops at a long line and does not
drain (section 5). `CatchesUp` has two: the last connection the bound allows is over, or the
snapshot could not be read. `pipe` and `disc` have safety properties only.

In `DriveFlow`, `FairSpec` is weak fairness of each goroutine's next step and of the
worker's: `identifyDur` and the routes' timeouts bound every outside call, and
`exec.CommandContext` ends the tool. Nobody owes an insertion, an event, a context's end
or a restart. `DriveComesBack` has the excuse `leftover`: an eject whose context has
ended leaves `ejecting` behind (section 5), and a restart leaves `ripping` or `ejecting`
of a drive that the scan does not find.

`PROJECT.json` lists, for every property of a passing run, a mutation of a
definition that breaks it (marked `[mutant]` in the modules): an encode that
cleans up after failure too, a recovery that forgets queued rows, a reset that
trusts the handler's check, and so on.

## 4. Proofs

Each result is for every value of the constants that the named assumption of its
module admits: any sets of jobs, discs, drives, workers, requests and goroutines,
any capacities and any bounds on crashes and retries.

| Module | From | Theorems |
|---|---|---|
| `JobEngine_proofs` | the three assumptions of `JobEngine`: ids are positive and comparable, the topology is total, the bounds are numbers | `TypeCorrect`, `CustodyKept` (`Spec => []IInv`), `CustodyAlways`, `SpoolIsHeld`, `EncoderFindsInput`, `EncoderIsAlone`; `LedgerKept` (the engine implements `JobLedger`), `OutcomesAreLast`; `ProgressKept`, `NothingStranded`, `DriveIsRipping`, `DiscQueuedOnce` |
| `DriveFlow_proofs` | `DriveAssumption` | `Invariance`, `TypeCorrect`, `DriveStateIsReal`, `RipKeepsDrive`, `BusyCheckHolds`, `DedupHolds` |
| `ComputeSlots_proofs` | `SlotsAssumption`: finitely many workers | `CounterExact`, `SlotsRefineLimit` (the slots implement `SlotLimit`), `LimitIsHonoured` |
| `DiscPath_proofs` | `IntegrationsAssumption`, `ProbeAssumption`, and `InstalledAssumption`: the probes for Xbox, CD games and the XGD decoy are installed, as main.go does; `LookupAssumption`, `FilmsAssumption`, `MediaAssumption`: an id stands for one film, series or release, and a label has finitely many words; those of `Titles` | `CredentialsKept`, `KindIsKept`, `DiscIsIdentifiedRight`, `DiscIsPaired` |
| `Titles_proofs` | `TitlesAssumption`, `ScansAssumption`, `PicksAssumption`: a tool lists titles in the order of their ids, which are positive, and no title is picked twice | `TitlesPaired` |
| `StepEvents_proofs` | `EventsAssumption`: a non-empty list of steps, a capacity | `EventsInvariant`, `TypeCorrect`, `DoneStaysFull`, `LogsStay`, `BrowserConverges` |
| `ToolRun_proofs` | `ToolAssumption`: the bounds are numbers | `ToolInvariant`, `TypeCorrect`, `AllOutputHeard`, `NothingLate`, `SummaryIsBest`, `VerdictIsTold` |
| `Pipelines_proofs` | `BoundsAssumption`: the bounds are numbers | `PipelineInvariant`, `TypeCorrect`, `PlanIsRun`, `ErrorHasItsStep`, `StepsInTurn` (an action property), `TrayIsLast`, `RipIsSheltered`, `LeavesInOrder` |

`PROJECT.json` says which property of which run each of them states. The safety
properties are seldom inductive; what follows is the invariant each proof needs and why. TLC
has checked each invariant on the instance of a run, too (`Walking` of the handlers with the
walks computed from the scripts, since TLC cannot enumerate walks).

**Custody** (`JobEngine_proofs`). That nobody encodes a job
twice depends on the job not being in the queue while a worker has it, which
depends on a retry resetting only rows that no one holds, which depends on the
row of a held job never being `failed` or `interrupted`. `Custody` says all of it:
a job is in one place at a time (`RipInOnePlace`, `EncInOnePlace`: in a queue, in
a worker's hands, in a request's hands, on its way from the rip to the pool);
its row says so (`RipRows`, `EncRows`: a held row is queued, running, cancelled or
deleted, never an outcome); and its directory is there while anyone may want it
(`SpoolHeld`, `Backed`). `DownIsEmpty` (nothing is in memory while the process is
down) is needed for `Restart`, which rewrites all rows.
The proof that a step keeps `Custody` has one lemma per action. Most actions only
take a job from a place or leave it (`PlacesShrink`) and write rows as a Stop or a
deletion does (`RowsStay`); a few lemmas about those two serve all of them.

**Progress** (`JobEngine_proofs`, last part). `Progress` is what an accepted job needs in
order to go on. While the daemon is up every queued row is in a queue or on its way to or
from one, and every running row has a worker that will write its end (`RipsPlaced`,
`EncsPlaced`); a drive shown as ripping has its worker at it, also while the daemon closes
(`RippingBusy`); and whoever holds `startMu` has checked a disc of which there is still no
queued rip (`StartLock`), which makes `QueuedOnce` hold at the write. It needs the types
only, not `Custody`: a step that takes a job from one place puts it in the next or settles
its row.

**The drive** (`DriveFlow_proofs`). `Errands`: a flow is where its kind may
be, so that only an event creates rows and only an eject runs the tool. `OneHolder`:
without an overlap one flow holds the identify slot. `KnownTarget`: the row an event
refreshes either has a hash or already has the id the event has found, so that
`Refresh` gives no row an id another row has. `NoTwin`: while an event is about to
create a row there is none of the same disc; only the holder of the slot could have
made one since it looked, and it is alone. `OneRowPerDisc` follows step by step; that it
needs `~overlap` is not a weakness of the proof: the run `claim` shows that the slot can
be claimed twice, and two rows for one disc follow from that.

**The slots** (`ComputeSlots_proofs`). `CountsEncoders`, the counter is the number of workers at
`encode`, and `SlotSeen`, a worker about to swap has read a count below the limit it has
read. The first makes the compare-and-swap say something about workers, the second makes
it an `Enter` of `SlotLimit`. `LimitIsHonoured` is proved of `SlotLimit` alone and carried
over by the refinement: a worker that enters was told more than there are inside, so the
workers told n or less are at most n for every n.

**Credentials** (`DiscPath_proofs`). The table and the registry are written by different
statements of a request, and the client by a third. `Together` says how far each
request has got with them, `Held` what the client holds between its swap and its flush,
`CallsKnow` that an IGDB call with older credentials is one that was under way at the swap,
`Stopped` that no call outlives the process. `Sourced` follows the edit that each value comes
from, through fields half written, the registry, the client and a restart. `apart`, set where the
code's comments give the promise up, and `mixed` are in the property and in the invariant alike.

**The kind of a disc** (`DiscPath_proofs`). At each point of `Classify` and `RefineDiscType`
`ProbeInv` says which kinds are still possible: past the cd-info branch no audio CD, at
SYSTEM.CNF only discs that carry one or none that any probe knows. `EvidenceOf`, kind by
kind, says by which probes a kind is told; if the answer differs from the kind, one of them is
in `lost` or the deadline has passed. A disc whose probe is not installed at all
(`Unwired`: Saturn, Dreamcast) is excused; `InstalledAssumption` says that no other disc is.

**The name of a disc** (`DiscPath_proofs`). Two searches append what they find to one list in
the order they answer, which is cut, sorted and cut again. That the first of a sorted list
is preceded by no other (`SortedFirst`) needs the comparison to be an order: fractions of common
words compared crosswise (`NearerOrders`), then the media type, then popularity
(`BeforeOrders`). The position of a candidate in a stable sort is the number of those ahead
of it, and sets of candidates ahead are nested (`AheadOrders`), so there is one for each position
(`Ranks`). `LookupInv` keeps that the candidates of a row are films the services have, under
other scores, that the one the row was first named after is such a first, and `AboutItsName`. The
last says of the candidate promoted what `StartDisc` wrote of it; it is inductive because an id
stands for one candidate.

**The titles of a job** (`Titles_proofs`). A file is paired with a pick by its position, so the
proof has to know positions. `Positions` writes an appending loop as a function of the
positions that passed, and `NthIs` says that each number up to their count names one of them, in
order. Hence a selection has no title twice and is in the order of the scan (`Selectable`), and
the files in `rip/`, while none has left, are the titles chosen in the order of their ids
(`FullSpool`). `RipsNamed` and `EncodesNamed`: then every path is a good name for its file (`Named`).
After a move has failed, a retry of MakeMKV's job finds fewer files than titles, and the n-th
file is no longer the n-th pick. What saves the library is the order of the moves: the first
path that such a plan renders is one that has been taken (`Spooled`, `SpoolNamed`), so the look
before the rename ends the retry before anything wrongly named is moved. `WellNamed`: of the moves
that are left, each is well named, or an earlier one goes to a path that is taken.
`ToMove` and `Landed` are the bookkeeping for `AllOnce`: what is wanted is in the library or
still in the plan.

The proof has its limit where the code has: `PicksInOrder` asks that no two titles picked
render one path. They do when they are mapped to one episode, or when one is mapped to an
episode without a name whose number is the position of another that is mapped to none. If
two of three collide, they get suffixes; once both are moved and the third fails, the retry renders a single file, without
a suffix and with the first pick's episode, and that path is free (movie_move.go:75-96). The
picker lists picks in the order of the scan, but its menu lets two titles have one episode, and the
API checks neither. TLC finds the case when the conjunct is dropped and a disc with three picks, two of
them mapped to one episode, is added to `MCDiscPath`.

**Step events** (`StepEvents_proofs`). `MainIsThere` and `ReadersAreThere` say at which
operation of which script each caller of the sink stands and what it has written so far. `Shown`
follows every piece of a row (the state of each step, the active step, percentage, sub-step,
state of the job) through the stream: main has an event of this kind still to publish, or the
last one in the channel says what the store says, or there is none and the snapshot or the browser's copy
says so. `Found` is that a snapshot that could be read has the job in it. `Converges` is
`Shown` with no event left and an empty channel.

**Tools** (`ToolRun_proofs`). The invariant counts lines: what the process has said is handled,
in a reader's hand or in the pipe (`Counts`, `Heard`), for as long as no reader drains and no
pipe is closed over it. `Ends` and `Waited` are about order: a reader that has ended holds
no line, a caller past its join finds its readers ended, a caller past its wait finds the
process gone. `AllOutputHeard` puts the two together; `Joined` excludes only what the code
does not join. The better verdict on a track (`WhipperSummary`) survives because recording
is a maximum, whichever reader brings it.

**Handlers** (`Pipelines_proofs`). The counter of a function runs through a script, and
what must hold depends on where it is, so the invariant needs to know something of every
prefix of every script. It says it by walks: at each point of a script there is a place, the
step that is open, the steps that are closed and the stage at which what was captured is
(`raw`, `enc`, `lib`); `Goes` says which instruction may be made at a place and what place
it leads to. Walks that meet can be put together (`Glue`), so each handler's script is a walk
because its pieces are, and `HandlersSound` proves it of all of them, both halves and the scan.
A slip in a script (a step done twice, a step the plan skips, a move before the
encode, a read after the eject) leaves it without a walk. `Walking` then says that rows, files and
tray are those of the place the counter is at, and each action moves from a place to the next or
stays. From it: at the end of a walk the steps that are due are closed, hence
`PlanHonoured`, and the stage is `lib`, hence `Settled`; a call fails in the one open
step, hence `ErrorIsShown` and `OneStepAtATime`; a read is allowed at no place after the
eject was opened, hence `NoReadAfterEject`. `Sheltered` adds that a title captured is raw
or in the library unless the compute half has succeeded, and in a loop those not yet
dealt with are still in the list (`Left`); for that a listing has to name every title, which is a
fact about injections of finite sets.

What only TLC checks:

* All liveness properties (`RipsSettle`, `EncsSettle`, `DriveComesBack`, `Served`, `RunEnds`,
  `CatchesUp`): they need fairness and `ENABLED`, which the prover does not handle.
* That the two statements of `stop` and `episodes` are violated: a counterexample is a
  matter for TLC.
* The invariants of the configurations to run by hand (section 3), violated as well.

There are no RECURSIVE operators anywhere.

## 5. Where the code and its comments disagree

* `stop`: `Orchestrator.Cancel` promises that a job that was queued is skipped.
  `runJob` reads the row, then writes `running` unconditionally; a Stop that looked
  for a worker before it registered and writes in between is overwritten.
* `close`: `Orchestrator.Close` promises that queued jobs are dropped because the
  worker observes `stopped` first. A Go select with two ready cases picks either.
* `owns`: `Compute.Owns` promises to tell whether a job is running. The deferred
  delete of a finished attempt removes the entry of the next attempt.
* `history`: `ClearHistory` promises to leave in-progress jobs alone. Deleting
  the finished rip row deletes the running transcode by cascade.

* `claim`: `ClaimDriveForIdentify` promises that its caller owns the identify slot. A
  removal event, the end of an eject and the end of a rip write `idle`
  unconditionally, over an identification too, and the next event claims it again.
* `phantom`: the removal branch of `handle` promises that no card for a decision is
  left after the disc is gone. An identification in progress creates it afterwards.
* `stuck`: `EjectDrive` promises that a failed eject does not leave the drive stuck. The
  write that restores it uses the context whose end made the eject fail.

In the modules of this list the rest was met while modelling; what is only read, not
checked, says so by giving lines.

* `episodes`: `StartDisc` fetches the names of the picked episodes for the series the row
  named before the pick, and writes a blob over the details it has just fetched.
* `refine` (`MCToolRun_refine`): redumper's watchdog promises never to kill a pass that
  advances (redumper.go:46). Its clock restarts only at a percentage above every
  earlier one, so a phase that counts from zero again has until the stall timeout to overtake.
* `twice` (`MCStepEvents_twice`): the two queries of the snapshot are told apart by the state
  of the job (store.go:1108-1110); one that ends in between is listed twice.
* `wired` (`MCDiscProbe_wired`): README.md:262-266 lists how Saturn and Dreamcast discs are
  recognised; main.go:141-149 does not install these probes.
* `idle` (`MCComputeSlots_idle`): `acquire` promises to block until there is room. A worker that
  loses the compare-and-swap sleeps beside a free slot until the next release. A limit read
  before a lowering still admits one worker (`LimitHonoured` says how many at most).

Slots and settings: two overlapping PUTs of the setting may leave the table and
the limit apart (api/settings.go:97-110 runs without a lock).

Handlers: PS3's compute half works on a title its rip half does not keep (ps3.go:214-217). The
deferred `done` of the eject step overwrites a failed eject (steps.go:30-34; the same in
`ScanTitles`). A retry after a move that failed half-way cannot finish, because
`AtomicMove` refuses what the first attempt has moved; a HandBrake movie with two picks
renders one path twice and can never finish. `AtomicMove` looks before it renames: a
file that arrives in between is replaced, though output.go:208-209 says it refuses. A rip
that was copied but not removed may get a second path in a retry. Episodes are paired with
files by the order of the picks, unknown ids included, and MakeMKV's files by their names
(compare dvdvideo.go:776-778). Two picks that render one path (one episode, or an episode without a
name whose number is another's position) get suffixes, but a retry that finds
neither of them in the spool gives their episode to the next file (movie_move.go:75-96). `include_extras` in a DVD series profile with MakeMKV
turns episodes into extras.

Tools: `dvdbackup` waits before its readers have ended and may lose the last lines;
ddrescue's stderr reader is not joined. `MakeMKV.Scan` and the PS3 dumper do not drain after a
long line, though streamparse.go:30-33 says every parser must. A watchdog's trip may come after
the process has succeeded, and the success is told as an abort.

Events: `RetryTranscode` publishes nothing, so a browser sees a retried job when it
reconnects. Of a failed snapshot the comment of `writeSnapshot` says that the events
repair it; the client patches only jobs it has (`blank`).

Identification: discflow.go:406 speaks of 30 s where main.go:633 gives 120 s; a context
that ends makes `Classify` answer DATA or BDMV without an error. Each TMDB search is cut to
its first five before the ranking (compare tmdb.go:418-423). A disc with a long hidden
pregap in a drive that counts from the first track gets a wrong disc id. Re-identifying an audio
CD without hits wipes the row's title. A candidate picked without a key or with a 404
overwrites the details with empty ones. A `bd_info` name that is no title hides a good volume
label. `persistDisc` takes a second disc of a set, put in within two minutes, for the first
(discflow.go:328).

Integrations: a token fetched with old credentials is stored after the flush (igdb.go:34-36).
`Reconfigure` drops the minimal interval although igdb.go:36-39 says that defaults are applied
again. A PUT of TMDB's language with the key in the environment loses the key at the
next start. Overlapping PUT and DELETE leave the table and the registry apart. DELETE of
MakeMKV leaves the old key in its settings file. A roll-back writes credentials of the
environment into the table. Fields are written one by one (store_integrations.go:61-70): after
two edits at once, or one that failed or crashed half-way, the table may have the id of one and
the secret of another, which the next start takes up without a complaint. An error while resolving at boot leaves an integration without
its adapter. Two requests that wait for MusicBrainz's rate limit may go at once.

## 6. Plan

Done, in this order: `JobRows`, `JobEngine` with its runs, the inductive invariant
and its proof, `JobLedger` and the refinement, `DriveFlow` with its runs and proofs; then
`Pipelines`, `ToolRun`, `StepEvents`, `DiscProbe`, `Lookup`, `Integrations`, `Titles`, their
composition `DiscPath`, and `ComputeSlots` with `SlotLimit`, the refinement and its proof;
then the proofs of progress, of `StepEvents`, `ToolRun` and `Pipelines`, and along the way of a
disc: credentials, kind, name and titles.

Next:

1. An abstract specification of who owns the drive (free, an identification, an
   eject, a rip, or a word left behind), implemented by `DriveFlow`.
2. An abstract specification of a tool's run (it says lines, it ends, its end is told once),
   implemented by `ToolRun`.
3. `Pipelines` under `StepEvents`: the sink of a real script instead of two steps.
4. Two discs that share an id within the de-duplication window.
5. Retention: which rows `PruneHistory` takes, against a definition by dates and numbers.

## 7. Not modelled

* Notifications: the text of a message and a call after the row has its final state.
* Seeds and validation of settings and profiles: sequential and mostly tables.
* Read-only API: snapshots, statistics, system information, routing, the bearer token.
* The bundled third-party PS3 dumper.
* Of what is modelled: command lines and the wording of output; Redump, boot-code and
  game databases; checksums, tags, subtitle side-cars and the free-space check; the enrichment
  with IGDB data after the card is shown, and the hook that starts it after a transcode;
  manual identification; of the drive row `tray_open` (`CloseTrayDrive`), `last_error` and the
  read offset; retention's choice of rows; netlink parsing; and of the web UI all that only
  renders.

They hold no state the modelled parts read, or are pure input and output.
