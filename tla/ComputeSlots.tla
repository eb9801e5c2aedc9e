----------------------------- MODULE ComputeSlots -----------------------------
(***************************************************************************)
(* The concurrency slots of the Compute pool (jobs/compute.go: acquire,    *)
(* release, SetConcurrency, Close): an atomic counter taken with compare-  *)
(* and-swap, an atomic limit, and a buffered channel of wake-ups.  A step  *)
(* is one atomic operation or one channel operation.                       *)
(***************************************************************************)
EXTENDS Naturals, FiniteSets

CONSTANTS Workers,      \* the goroutines of the pool
          MaxWorkers,   \* maxComputeWorkers: buffer of wake, largest limit
          Jobs,         \* bound: jobs in the queue
          Setters,      \* requests that change the setting, one call each
          Asked         \* the values they ask for

ASSUME SlotsAssumption ==
    /\ IsFiniteSet(Workers)
    /\ MaxWorkers \in Nat \ {0} /\ Jobs \in Nat /\ Asked \subseteq Nat

VARIABLES
    limit,      \* Compute.limit
    inFlight,   \* Compute.inFlight
    wake,       \* tokens in Compute.wake
    stopped,    \* Compute.stopped is closed
    queue,      \* jobs in Compute.queue
    pc,         \* where each worker is
    cur,        \* acquire: what it has read of inFlight
    lim,        \* acquire: what it has read of limit
    call,       \* where each SetConcurrency is
    next,       \* SetConcurrency: the new limit
    left        \* SetConcurrency: wake-ups still to send

slotVars == <<limit, inFlight, wake, stopped, queue, pc, cur, lim, call, next,
              left>>
callVars == <<call, next, left>>

SlotsInit ==
    /\ limit \in 1..MaxWorkers /\ inFlight = 0 /\ wake = 0
    /\ stopped = FALSE /\ queue = Jobs
    /\ pc = [w \in Workers |-> "idle"]
    /\ cur = [w \in Workers |-> 0]
    /\ lim = [w \in Workers |-> 0]
    /\ call = [s \in Setters |-> "called"]
    /\ next = [s \in Setters |-> 0]
    /\ left = [s \in Setters |-> 0]

Goto(w, where) == pc' = [pc EXCEPT ![w] = where]

(* cur goes out of scope at the end of a round of acquire.                 *)
Forget(w) == cur' = [cur EXCEPT ![w] = 0]

(* A send to wake that finds the channel full is dropped.                  *)
SendWake == wake' = IF wake < MaxWorkers THEN wake + 1 ELSE wake

----------------------------------------------------------------------------
(* A worker takes a job from the queue and acquires a slot for it.         *)

Take(w) ==
    /\ pc[w] = "idle" /\ queue > 0
    /\ queue' = queue - 1
    /\ Goto(w, "count")
    /\ UNCHANGED <<limit, inFlight, wake, stopped, cur, lim, callVars>>

LoadInFlight(w) ==
    /\ pc[w] = "count"
    /\ cur' = [cur EXCEPT ![w] = inFlight]
    /\ Goto(w, "limit")
    /\ UNCHANGED <<limit, inFlight, wake, stopped, queue, lim, callVars>>

LoadLimit(w) ==
    /\ pc[w] = "limit"
    /\ lim' = [lim EXCEPT ![w] = limit]
    /\ IF cur[w] < limit
       THEN Goto(w, "swap") /\ UNCHANGED cur
       ELSE Goto(w, "wait") /\ Forget(w)
    /\ UNCHANGED <<limit, inFlight, wake, stopped, queue, callVars>>

(* The counter is written without looking at it again.            [mutant] *)
BlindSwap(w) ==
    /\ pc[w] = "swap"
    /\ inFlight' = cur[w] + 1 /\ Goto(w, "encode") /\ Forget(w)
    /\ UNCHANGED <<limit, wake, stopped, queue, lim, callVars>>

(* The slot is taken if the counter still is what was read; a worker that  *)
(* loses the race waits, even if there is a slot left.                     *)
Swap(w) ==
    /\ pc[w] = "swap"
    /\ IF inFlight = cur[w]
       THEN inFlight' = inFlight + 1 /\ Goto(w, "encode")
       ELSE Goto(w, "wait") /\ UNCHANGED inFlight
    /\ Forget(w)
    /\ UNCHANGED <<limit, wake, stopped, queue, lim, callVars>>

Woken(w) ==
    /\ pc[w] = "wait" /\ wake > 0
    /\ wake' = wake - 1
    /\ Goto(w, "count")
    /\ UNCHANGED <<limit, inFlight, stopped, queue, cur, lim, callVars>>

(* errStopped: the job is dropped.                                         *)
GiveUp(w) ==
    /\ pc[w] = "wait" /\ stopped
    /\ Goto(w, "idle")
    /\ UNCHANGED <<limit, inFlight, wake, stopped, queue, cur, lim, callVars>>

(* The encode is over: release gives the slot back, then wakes a waiter.   *)
Release(w) ==
    /\ pc[w] = "encode"
    /\ inFlight' = inFlight - 1
    /\ Goto(w, "notify")
    /\ UNCHANGED <<limit, wake, stopped, queue, cur, lim, callVars>>

(* Nobody is woken.                                               [mutant] *)
NotifyNobody(w) ==
    /\ pc[w] = "notify"
    /\ Goto(w, "idle")
    /\ UNCHANGED <<limit, inFlight, wake, stopped, queue, cur, lim, callVars>>

Notify(w) ==
    /\ pc[w] = "notify"
    /\ SendWake
    /\ Goto(w, "idle")
    /\ UNCHANGED <<limit, inFlight, stopped, queue, cur, lim, callVars>>

Quit(w) ==
    /\ pc[w] = "idle" /\ stopped
    /\ Goto(w, "exit")
    /\ UNCHANGED <<limit, inFlight, wake, stopped, queue, cur, lim, callVars>>

----------------------------------------------------------------------------
(* SetConcurrency, from as many requests as there are.                     *)

NormaliseConcurrency(n) ==
    IF n = 0 THEN 1 ELSE IF n > MaxWorkers THEN MaxWorkers ELSE n

Compare(s) ==
    /\ call[s] = "called"
    /\ \E n \in Asked :
        /\ next' = [next EXCEPT ![s] = NormaliseConcurrency(n)]
        /\ call' = [call EXCEPT ![s] =
                      IF NormaliseConcurrency(n) = limit
                      THEN "returned" ELSE "store"]
    /\ UNCHANGED <<limit, inFlight, wake, stopped, queue, pc, cur, lim, left>>

Store(s) ==
    /\ call[s] = "store"
    /\ limit' = next[s]
    /\ left' = [left EXCEPT ![s] = next[s]]
    /\ call' = [call EXCEPT ![s] = "wake"]
    /\ UNCHANGED <<inFlight, wake, stopped, queue, pc, cur, lim, next>>

WakeOne(s) ==
    /\ call[s] = "wake" /\ left[s] > 0
    /\ SendWake
    /\ left' = [left EXCEPT ![s] = @ - 1]
    /\ UNCHANGED <<limit, inFlight, stopped, queue, pc, cur, lim, call, next>>

Return(s) ==
    /\ call[s] = "wake" /\ left[s] = 0
    /\ call' = [call EXCEPT ![s] = "returned"]
    /\ UNCHANGED <<limit, inFlight, wake, stopped, queue, pc, cur, lim, next,
                   left>>

(* Close, up to the wait for the workers.                                  *)
Close ==
    /\ ~stopped
    /\ stopped' = TRUE
    /\ UNCHANGED <<limit, inFlight, wake, queue, pc, cur, lim, callVars>>

WorkerNext(w) ==
    \/ Take(w) \/ LoadInFlight(w) \/ LoadLimit(w) \/ Swap(w) \/ Woken(w)
    \/ GiveUp(w) \/ Release(w) \/ Notify(w) \/ Quit(w)
SetterNext(s) == Compare(s) \/ Store(s) \/ WakeOne(s) \/ Return(s)

SlotsNext ==
    \/ \E w \in Workers : WorkerNext(w)
    \/ \E s \in Setters : SetterNext(s)
    \/ Close

SlotsSpec == SlotsInit /\ [][SlotsNext]_slotVars

(* Goroutines are scheduled, and an encode ends.  Nothing else is asked    *)
(* for: the settings need not change and the pool need not be closed.      *)
FairSlotsSpec == SlotsSpec /\ \A w \in Workers : WF_slotVars(WorkerNext(w))

----------------------------------------------------------------------------
SlotsTypeOK ==
    /\ limit \in 1..MaxWorkers /\ inFlight \in Nat /\ wake \in 0..MaxWorkers
    /\ stopped \in BOOLEAN /\ queue \in Nat
    /\ pc \in [Workers -> {"idle", "count", "limit", "swap", "wait",
                           "encode", "notify", "exit"}]
    /\ cur \in [Workers -> Nat] /\ lim \in [Workers -> 0..MaxWorkers]
    /\ call \in [Setters -> {"called", "store", "wake", "returned"}]
    /\ next \in [Setters -> 0..MaxWorkers]
    /\ left \in [Setters -> 0..MaxWorkers]
    /\ \A s \in Setters : call[s] = "store" => next[s] # 0

Encoding == {w \in Workers : pc[w] = "encode"}

(* The counter counts the workers that encode, whatever races for it.      *)
CountsEncoders == inFlight = Cardinality(Encoding)

(* A worker that is about to swap has seen a slot.                         *)
SlotSeen == \A w \in Workers : pc[w] = "swap" => cur[w] < lim[w]

SlotsInv == SlotsTypeOK /\ CountsEncoders /\ SlotSeen

(* acquire, release and SetConcurrency implement the limit: a worker       *)
(* enters only below a limit it was told since it began to try.            *)
Limit == INSTANCE SlotLimit WITH told <- lim, holders <- Encoding
KeepsLimit == Limit!LimitSpec

(* A job that has been taken from the queue is not left waiting for a slot *)
(* for ever: no wake-up that is dropped, or given to a worker that cannot  *)
(* use it, is the last one.                                                *)
Served == \A w \in Workers : (pc[w] = "wait") ~> (pc[w] # "wait")

(* acquire blocks until inFlight is under limit: with everything at rest   *)
(* nobody waits beside a free slot.                                        *)
NoIdleSlot ==
    (/\ inFlight < limit /\ wake = 0 /\ ~stopped
     /\ \A w \in Workers : pc[w] \in {"idle", "wait", "encode"}
     /\ \A s \in Setters : call[s] \in {"called", "returned"})
    => \A w \in Workers : pc[w] # "wait"

=============================================================================
