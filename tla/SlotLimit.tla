------------------------------- MODULE SlotLimit -------------------------------
(***************************************************************************)
(* What the limit on concurrent encodes promises, without counters and     *)
(* wake-ups: a worker asks for the limit, and later enters if fewer than   *)
(* that many are inside; the limit may have changed in between, because    *)
(* the settings can be edited while workers wait.                          *)
(***************************************************************************)
EXTENDS Naturals, FiniteSets

CONSTANTS Workers,      \* goroutines of the pool
          MaxWorkers    \* maxComputeWorkers, the largest limit

VARIABLES
    limit,      \* compute.concurrent_encodes, as it is now
    told,       \* the limit each worker was told when it last asked
    holders     \* the workers that encode

limitVars == <<limit, told, holders>>

LimitInit ==
    /\ limit \in 1..MaxWorkers
    /\ told = [w \in Workers |-> 0]
    /\ holders = {}

Ask(w) ==
    /\ w \notin holders
    /\ told' = [told EXCEPT ![w] = limit]
    /\ UNCHANGED <<limit, holders>>

Enter(w) ==
    /\ w \notin holders
    /\ Cardinality(holders) < told[w]
    /\ holders' = holders \cup {w}
    /\ UNCHANGED <<limit, told>>

Leave(w) ==
    /\ w \in holders
    /\ holders' = holders \ {w}
    /\ UNCHANGED <<limit, told>>

Change ==
    /\ limit' \in 1..MaxWorkers
    /\ UNCHANGED <<told, holders>>

LimitNext ==
    \/ \E w \in Workers : Ask(w) \/ Enter(w) \/ Leave(w)
    \/ Change

LimitSpec == LimitInit /\ [][LimitNext]_limitVars

----------------------------------------------------------------------------
LimitTypeOK ==
    /\ limit \in 1..MaxWorkers
    /\ told \in [Workers -> 0..MaxWorkers]
    /\ holders \subseteq Workers

(* Of the workers that encode, at most n were let in under a limit of n or *)
(* less: a limit that was lowered is exceeded only by workers that had     *)
(* been told the higher one, however often it changes.                     *)
LimitHonoured ==
    \A n \in 0..MaxWorkers :
        Cardinality({w \in holders : told[w] <= n}) <= n

=============================================================================
