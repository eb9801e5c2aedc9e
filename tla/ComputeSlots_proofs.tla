-------------------------- MODULE ComputeSlots_proofs --------------------------
(***************************************************************************)
(* That the counter of the Compute pool is exact whatever races for it,    *)
(* that acquire, release and SetConcurrency implement the abstract limit   *)
(* of SlotLimit, and what that limit promises.  The invariant is           *)
(* inductive: the compare-and-swap needs CountsEncoders to add a worker    *)
(* and SlotSeen to know that there was room for it.                        *)
(***************************************************************************)
EXTENDS ComputeSlots, FiniteSetTheorems, TLAPS

(* Both modules take the cardinality from FiniteSets.                      *)
LEMMA SameCardinality ==
    ASSUME NEW S
    PROVE  Limit!Cardinality(S) = Cardinality(S)
  BY DEF Limit!Cardinality, Cardinality

(* Letting a worker in, or out, changes the number that encode by one.     *)
LEMMA EnterCounts ==
    ASSUME NEW S, IsFiniteSet(S), NEW w, w \notin S
    PROVE  Cardinality(S \cup {w}) = Cardinality(S) + 1
  BY FS_AddElement

(* What a leave takes off the count of encoders.                            *)
LEMMA LeaveCounts ==
    ASSUME NEW S, IsFiniteSet(S), NEW w \in S
    PROVE  /\ Cardinality(S \ {w}) = Cardinality(S) - 1
           /\ Cardinality(S) \in Nat \ {0}
  <1>1. /\ Cardinality(S \ {w}) = Cardinality(S) - 1
        /\ Cardinality(S \ {w}) \in Nat /\ Cardinality(S) \in Nat
    BY FS_RemoveElement, FS_CardinalityType
  <1> QED BY <1>1

(* The workers that encode are finitely many.                               *)
LEMMA EncodingFinite == ASSUME SlotsTypeOK
                        PROVE  IsFiniteSet(Encoding)
  <1>1. Encoding \subseteq Workers BY DEF Encoding
  <1> QED BY <1>1, FS_Subset, SlotsAssumption

(* A worker that moves between two places where it does not encode leaves  *)
(* the set alone; entering and leaving encode change it by that worker.    *)
LEMMA Moves ==
    ASSUME SlotsTypeOK, NEW w \in Workers, NEW to, Goto(w, to)
    PROVE  /\ to = "encode" => Encoding' = Encoding \cup {w}
           /\ to # "encode" => Encoding' = Encoding \ {w}
  BY DEF SlotsTypeOK, Goto, Encoding

----------------------------------------------------------------------------

(* The initial state satisfies the invariant.                               *)
LEMMA InitInv == SlotsInit => SlotsInv
  <1> SUFFICES ASSUME SlotsInit PROVE SlotsInv
    OBVIOUS
  <1>1. SlotsTypeOK
    <2>1. /\ limit \in 1..MaxWorkers /\ inFlight \in Nat
          /\ wake \in 0..MaxWorkers /\ queue \in Nat
      BY SlotsAssumption DEF SlotsInit
    <2>2. /\ cur \in [Workers -> Nat]
          /\ lim \in [Workers -> 0..MaxWorkers]
          /\ next \in [Setters -> 0..MaxWorkers]
          /\ left \in [Setters -> 0..MaxWorkers]
      BY SlotsAssumption DEF SlotsInit
    <2>3. stopped \in BOOLEAN BY DEF SlotsInit
    <2>4. pc \in [Workers -> {"idle", "count", "limit", "swap", "wait",
                             "encode", "notify", "exit"}]
      BY DEF SlotsInit
    <2>5. /\ call \in [Setters -> {"called", "store", "wake", "returned"}]
          /\ \A s \in Setters : call[s] = "store" => next[s] # 0
      BY DEF SlotsInit
    <2> QED BY <2>1, <2>2, <2>3, <2>4, <2>5 DEF SlotsTypeOK
  <1>2. Encoding = {} BY DEF SlotsInit, Encoding
  <1>3. CountsEncoders BY <1>2, FS_EmptySet DEF SlotsInit, CountsEncoders
  <1>4. SlotSeen BY DEF SlotsInit, SlotSeen
  <1> QED BY <1>1, <1>3, <1>4 DEF SlotsInv

(* Every step keeps the types.                                              *)
LEMMA TypeStep == SlotsTypeOK /\ CountsEncoders /\ [SlotsNext]_slotVars
                  => SlotsTypeOK'
  <1> SUFFICES ASSUME SlotsTypeOK, CountsEncoders, [SlotsNext]_slotVars
               PROVE  SlotsTypeOK'
    OBVIOUS
  <1> USE SlotsAssumption DEF SlotsTypeOK
  <1>1. ASSUME NEW w \in Workers, Take(w) PROVE SlotsTypeOK'
    BY <1>1 DEF Take, Goto, callVars
  <1>2. ASSUME NEW w \in Workers, LoadInFlight(w) PROVE SlotsTypeOK'
    BY <1>2 DEF LoadInFlight, Goto, callVars
  <1>3. ASSUME NEW w \in Workers, LoadLimit(w) PROVE SlotsTypeOK'
    BY <1>3 DEF LoadLimit, Goto, Forget, callVars
  <1>4. ASSUME NEW w \in Workers, Swap(w) PROVE SlotsTypeOK'
    BY <1>4 DEF Swap, Goto, Forget, callVars
  <1>5. ASSUME NEW w \in Workers, Woken(w) PROVE SlotsTypeOK'
    BY <1>5 DEF Woken, Goto, callVars
  <1>6. ASSUME NEW w \in Workers, GiveUp(w) PROVE SlotsTypeOK'
    BY <1>6 DEF GiveUp, Goto, callVars
  <1>7. ASSUME NEW w \in Workers, Release(w) PROVE SlotsTypeOK'
    <2>1. w \in Encoding BY <1>7 DEF Release, Encoding
    <2>2. inFlight \in Nat \ {0}
      BY <2>1, EncodingFinite, LeaveCounts DEF CountsEncoders
    <2> QED BY <1>7, <2>2 DEF Release, Goto, callVars
  <1>8. ASSUME NEW w \in Workers, Notify(w) PROVE SlotsTypeOK'
    BY <1>8 DEF Notify, SendWake, Goto, callVars
  <1>9. ASSUME NEW w \in Workers, Quit(w) PROVE SlotsTypeOK'
    BY <1>9 DEF Quit, Goto, callVars
  <1>10. ASSUME NEW s \in Setters, Compare(s) PROVE SlotsTypeOK'
    <2>1. PICK n \in Asked :
            /\ next' = [next EXCEPT ![s] = NormaliseConcurrency(n)]
            /\ call' = [call EXCEPT ![s] =
                          IF NormaliseConcurrency(n) = limit
                          THEN "returned" ELSE "store"]
      BY <1>10 DEF Compare
    <2>2. NormaliseConcurrency(n) \in 1..MaxWorkers
      BY DEF NormaliseConcurrency
    <2> QED BY <1>10, <2>1, <2>2 DEF Compare
  <1>11. ASSUME NEW s \in Setters, Store(s) PROVE SlotsTypeOK'
    BY <1>11 DEF Store
  <1>12. ASSUME NEW s \in Setters, WakeOne(s) PROVE SlotsTypeOK'
    BY <1>12 DEF WakeOne, SendWake
  <1>13. ASSUME NEW s \in Setters, Return(s) PROVE SlotsTypeOK'
    BY <1>13 DEF Return
  <1>14. CASE Close
    BY <1>14 DEF Close, callVars
  <1>15. CASE UNCHANGED slotVars
    BY <1>15 DEF slotVars
  <1> QED
    BY <1>1, <1>2, <1>3, <1>4, <1>5, <1>6, <1>7, <1>8, <1>9, <1>10, <1>11,
       <1>12, <1>13, <1>14, <1>15 DEF SlotsNext, WorkerNext, SetterNext

(* Every step keeps the count of encoders.                                  *)
LEMMA CountStep == SlotsTypeOK /\ CountsEncoders /\ [SlotsNext]_slotVars
                   => CountsEncoders'
  <1> SUFFICES ASSUME SlotsTypeOK, CountsEncoders, [SlotsNext]_slotVars
               PROVE  CountsEncoders'
    OBVIOUS
  <1>e. IsFiniteSet(Encoding) BY EncodingFinite
  <1>1. ASSUME NEW w \in Workers, Swap(w) PROVE CountsEncoders'
    <2>1. w \notin Encoding BY <1>1 DEF Swap, Encoding
    <2>2. CASE inFlight = cur[w]
      <3>1. Encoding' = Encoding \cup {w} BY <1>1, <2>2, Moves DEF Swap
      <3>2. inFlight' = inFlight + 1 BY <1>1, <2>2 DEF Swap
      <3> QED BY <1>e, <2>1, <3>1, <3>2, EnterCounts DEF CountsEncoders
    <2>3. CASE inFlight # cur[w]
      <3>1. Encoding' = Encoding BY <1>1, <2>1, <2>3, Moves DEF Swap
      <3> QED BY <1>1, <2>3, <3>1 DEF Swap, CountsEncoders
    <2> QED BY <2>2, <2>3
  <1>2. ASSUME NEW w \in Workers, Release(w) PROVE CountsEncoders'
    <2>1. w \in Encoding BY <1>2 DEF Release, Encoding
    <2>2. Encoding' = Encoding \ {w} BY <1>2, Moves DEF Release
    <2> QED BY <1>e, <1>2, <2>1, <2>2, LeaveCounts
            DEF Release, CountsEncoders
  <1>3. ASSUME NEW w \in Workers,
               Take(w) \/ LoadInFlight(w) \/ LoadLimit(w) \/ Woken(w)
               \/ GiveUp(w) \/ Notify(w) \/ Quit(w)
        PROVE  CountsEncoders'
    <2>1. w \notin Encoding
      BY <1>3 DEF Encoding, Take, LoadInFlight, LoadLimit, Woken, GiveUp,
                  Notify, Quit
    <2>2. PICK to : Goto(w, to) /\ to # "encode"
      BY <1>3 DEF Take, LoadInFlight, LoadLimit, Woken, GiveUp, Notify, Quit
    <2>3. Encoding' = Encoding BY <2>1, <2>2, Moves
    <2>4. inFlight' = inFlight
      BY <1>3 DEF Take, LoadInFlight, LoadLimit, Woken, GiveUp, Notify, Quit
    <2> QED BY <2>3, <2>4 DEF CountsEncoders
  <1>4. CASE \E s \in Setters : SetterNext(s)
    BY <1>4 DEF SetterNext, Compare, Store, WakeOne, Return,
                CountsEncoders, Encoding
  <1>5. CASE Close BY <1>5 DEF Close, CountsEncoders, Encoding
  <1>6. CASE UNCHANGED slotVars
    BY <1>6 DEF slotVars, CountsEncoders, Encoding
  <1> QED BY <1>1, <1>2, <1>3, <1>4, <1>5, <1>6 DEF SlotsNext, WorkerNext

(* Every step keeps what a worker has seen of the limit true.               *)
LEMMA SeenStep == SlotsTypeOK /\ SlotSeen /\ [SlotsNext]_slotVars
                  => SlotSeen'
  <1> SUFFICES ASSUME SlotsTypeOK, SlotSeen, [SlotsNext]_slotVars,
                      NEW v \in Workers, pc'[v] = "swap"
               PROVE  cur'[v] < lim'[v]
    BY DEF SlotSeen
  <1> USE DEF SlotsTypeOK, SlotSeen
  <1>1. ASSUME NEW w \in Workers, LoadLimit(w) PROVE cur'[v] < lim'[v]
    BY <1>1 DEF LoadLimit, Goto, Forget
  <1>2. ASSUME NEW w \in Workers, Swap(w) PROVE cur'[v] < lim'[v]
    BY <1>2 DEF Swap, Goto, Forget
  <1>3. ASSUME NEW w \in Workers, LoadInFlight(w) PROVE cur'[v] < lim'[v]
    BY <1>3 DEF LoadInFlight, Goto
  <1>4. ASSUME NEW w \in Workers,
               Take(w) \/ Woken(w) \/ GiveUp(w) \/ Release(w) \/ Notify(w)
               \/ Quit(w)
        PROVE  cur'[v] < lim'[v]
    BY <1>4 DEF Take, Woken, GiveUp, Release, Notify, Quit, Goto
  <1>5. CASE \E s \in Setters : SetterNext(s)
    BY <1>5 DEF SetterNext, Compare, Store, WakeOne, Return
  <1>6. CASE Close BY <1>6 DEF Close
  <1>7. CASE UNCHANGED slotVars BY <1>7 DEF slotVars
  <1> QED BY <1>1, <1>2, <1>3, <1>4, <1>5, <1>6, <1>7
          DEF SlotsNext, WorkerNext

(* The pool's counter never drifts from the number of workers that encode, *)
(* and a worker about to swap has seen room (acquire, release).            *)
THEOREM CounterExact == SlotsSpec => []SlotsInv
  <1>1. SlotsInv /\ [SlotsNext]_slotVars => SlotsInv'
    BY TypeStep, CountStep, SeenStep DEF SlotsInv
  <1> QED BY InitInv, <1>1, PTL DEF SlotsSpec

----------------------------------------------------------------------------

(* The initial state is one of the limit.                                   *)
LEMMA InitRefines == SlotsInit => Limit!LimitInit
  BY DEF SlotsInit, Limit!LimitInit, Encoding

(* Every step is a step of the limit, or a stutter.                         *)
LEMMA StepRefines ==
    SlotsInv /\ SlotsInv' /\ [SlotsNext]_slotVars
    => [Limit!LimitNext]_(Limit!limitVars)
  <1> SUFFICES ASSUME SlotsInv, SlotsInv', [SlotsNext]_slotVars
               PROVE  Limit!LimitNext \/ UNCHANGED Limit!limitVars
    OBVIOUS
  <1> USE DEF SlotsInv
  <1>1. ASSUME NEW w \in Workers, LoadLimit(w) PROVE Limit!LimitNext
    <2>1. w \notin Encoding BY <1>1 DEF LoadLimit, Encoding
    <2>2. PICK to : Goto(w, to) /\ to # "encode" BY <1>1 DEF LoadLimit
    <2>3. Encoding' = Encoding BY <2>1, <2>2, Moves
    <2>4. Limit!Ask(w) BY <1>1, <2>1, <2>3 DEF LoadLimit, Limit!Ask
    <2> QED BY <2>4 DEF Limit!LimitNext
  <1>2. ASSUME NEW w \in Workers, Swap(w)
        PROVE  Limit!LimitNext \/ UNCHANGED Limit!limitVars
    <2>1. w \notin Encoding BY <1>2 DEF Swap, Encoding
    <2>2. CASE inFlight = cur[w]
      <3>1. Encoding' = Encoding \cup {w} BY <1>2, <2>2, Moves DEF Swap
      <3>2. Cardinality(Encoding) < lim[w]
        BY <1>2, <2>2 DEF Swap, CountsEncoders, SlotSeen
      <3>3. Limit!Enter(w)
        BY <1>2, <2>1, <3>1, <3>2, SameCardinality DEF Swap, Limit!Enter
      <3> QED BY <3>3 DEF Limit!LimitNext
    <2>3. CASE inFlight # cur[w]
      <3>1. Encoding' = Encoding BY <1>2, <2>1, <2>3, Moves DEF Swap
      <3> QED BY <1>2, <3>1 DEF Swap, Limit!limitVars
    <2> QED BY <2>2, <2>3
  <1>3. ASSUME NEW w \in Workers, Release(w) PROVE Limit!LimitNext
    <2>1. w \in Encoding BY <1>3 DEF Release, Encoding
    <2>2. Encoding' = Encoding \ {w} BY <1>3, Moves DEF Release
    <2>3. Limit!Leave(w) BY <1>3, <2>1, <2>2 DEF Release, Limit!Leave
    <2> QED BY <2>3 DEF Limit!LimitNext
  <1>4. ASSUME NEW w \in Workers,
               Take(w) \/ LoadInFlight(w) \/ Woken(w) \/ GiveUp(w)
               \/ Notify(w) \/ Quit(w)
        PROVE  UNCHANGED Limit!limitVars
    <2>1. w \notin Encoding
      BY <1>4 DEF Encoding, Take, LoadInFlight, Woken, GiveUp, Notify, Quit
    <2>2. PICK to : Goto(w, to) /\ to # "encode"
      BY <1>4 DEF Take, LoadInFlight, Woken, GiveUp, Notify, Quit
    <2>3. Encoding' = Encoding BY <2>1, <2>2, Moves
    <2> QED BY <1>4, <2>3 DEF Take, LoadInFlight, Woken, GiveUp, Notify,
                              Quit, Limit!limitVars
  <1>5. ASSUME NEW s \in Setters, Store(s) PROVE Limit!LimitNext
    <2>1. limit' \in 1..MaxWorkers BY DEF SlotsTypeOK
    <2>2. UNCHANGED <<lim, Encoding>> BY <1>5 DEF Store, Encoding
    <2>3. Limit!Change BY <2>1, <2>2 DEF Limit!Change
    <2> QED BY <2>3 DEF Limit!LimitNext
  <1>6. ASSUME NEW s \in Setters, Compare(s) \/ WakeOne(s) \/ Return(s)
        PROVE  UNCHANGED Limit!limitVars
    BY <1>6 DEF Compare, WakeOne, Return, Encoding, Limit!limitVars
  <1>7. CASE Close BY <1>7 DEF Close, Encoding, Limit!limitVars
  <1>8. CASE UNCHANGED slotVars
    BY <1>8 DEF slotVars, Encoding, Limit!limitVars
  <1> QED BY <1>1, <1>2, <1>3, <1>4, <1>5, <1>6, <1>7, <1>8
          DEF SlotsNext, WorkerNext, SetterNext

(* acquire, release and SetConcurrency implement the abstract limit: each  *)
(* step is a step of it or a stutter, for every number of workers, every   *)
(* queue and however often the setting changes.                            *)
THEOREM SlotsRefineLimit == SlotsSpec => KeepsLimit
  <1> QED BY CounterExact, InitRefines, StepRefines, PTL
          DEF SlotsSpec, KeepsLimit, Limit!LimitSpec

----------------------------------------------------------------------------

(* The limit is honoured at first.                                          *)
LEMMA HonouredInit == Limit!LimitInit => Limit!LimitTypeOK /\ Limit!LimitHonoured
  <1> SUFFICES ASSUME Limit!LimitInit
               PROVE  Limit!LimitTypeOK /\ Limit!LimitHonoured
    OBVIOUS
  <1>1. Limit!LimitTypeOK
    BY SlotsAssumption DEF Limit!LimitInit, Limit!LimitTypeOK
  <1>2. ASSUME NEW n \in 0..MaxWorkers
        PROVE  Cardinality({w \in Encoding : lim[w] <= n}) <= n
    <2>1. {w \in Encoding : lim[w] <= n} = {} BY DEF Limit!LimitInit
    <2> QED BY <2>1, FS_EmptySet
  <1> QED BY <1>1, <1>2, SameCardinality DEF Limit!LimitHonoured

(* Every step of the limit honours it.                                      *)
LEMMA HonouredStep ==
    Limit!LimitTypeOK /\ Limit!LimitHonoured
      /\ [Limit!LimitNext]_(Limit!limitVars)
    => Limit!LimitTypeOK' /\ Limit!LimitHonoured'
  <1> SUFFICES ASSUME Limit!LimitTypeOK, Limit!LimitHonoured,
                      Limit!LimitNext \/ UNCHANGED Limit!limitVars
               PROVE  Limit!LimitTypeOK' /\ Limit!LimitHonoured'
    OBVIOUS
  <1>1. Limit!LimitTypeOK'
    BY SlotsAssumption DEF Limit!LimitTypeOK, Limit!LimitNext, Limit!Ask,
       Limit!Enter, Limit!Leave, Limit!Change, Limit!limitVars
  <1> SUFFICES ASSUME NEW n \in 0..MaxWorkers
               PROVE  Cardinality({w \in Encoding' : lim'[w] <= n}) <= n
    BY <1>1, SameCardinality DEF Limit!LimitHonoured
  <1> DEFINE Low == {w \in Encoding : lim[w] <= n}
             LowNext == {w \in Encoding' : lim'[w] <= n}
  <1>2. IsFiniteSet(Encoding) /\ IsFiniteSet(Low) /\ Low \subseteq Encoding
    <2>1. Encoding \subseteq Workers BY DEF Encoding
    <2> QED BY <2>1, FS_Subset, SlotsAssumption
  <1>3. Cardinality(Low) <= n /\ Cardinality(Low) \in Nat
    BY <1>2, FS_CardinalityType, SameCardinality DEF Limit!LimitHonoured
  <1>4. SUFFICES LowNext \subseteq Low \/ Cardinality(LowNext) <= n
    <2>1. LowNext \subseteq Low => Cardinality(LowNext) <= Cardinality(Low)
      BY <1>2, FS_Subset
    <2>2. LowNext \subseteq Low => IsFiniteSet(LowNext)
      BY <1>2, FS_Subset
    <2> QED BY <1>3, <1>4, <2>1, <2>2, FS_CardinalityType
  <1>5. ASSUME NEW w \in Workers, Limit!Ask(w) PROVE LowNext \subseteq Low
    BY <1>5 DEF Limit!Ask, Limit!LimitTypeOK
  <1>6. ASSUME NEW w \in Workers, Limit!Leave(w) PROVE LowNext \subseteq Low
    BY <1>6 DEF Limit!Leave
  <1>7. ASSUME NEW w \in Workers, Limit!Enter(w)
        PROVE  LowNext \subseteq Low \/ Cardinality(LowNext) <= n
    <2>1. CASE lim[w] > n
      BY <1>7, <2>1 DEF Limit!Enter, Limit!LimitTypeOK
    <2>2. CASE lim[w] <= n
      <3>1. w \notin Low /\ LowNext \subseteq Low \cup {w}
        BY <1>7 DEF Limit!Enter
      <3>2. IsFiniteSet(Low \cup {w})
              /\ Cardinality(Low \cup {w}) = Cardinality(Low) + 1
        BY <1>2, <3>1, FS_AddElement
      <3>3. Cardinality(LowNext) <= Cardinality(Low \cup {w})
              /\ IsFiniteSet(LowNext)
        BY <3>1, <3>2, FS_Subset
      <3>4. Cardinality(Low) <= Cardinality(Encoding)
        BY <1>2, FS_Subset
      <3>5. Cardinality(Encoding) \in Nat /\ Cardinality(LowNext) \in Nat
        BY <1>2, <3>3, FS_CardinalityType
      <3>6. Cardinality(Encoding) < lim[w] /\ lim[w] \in Nat
        BY <1>7, SlotsAssumption, SameCardinality
           DEF Limit!Enter, Limit!LimitTypeOK
      <3>7. n \in Nat BY SlotsAssumption
      <3> HIDE DEF Low, LowNext
      <3> QED BY <1>3, <2>2, <3>2, <3>3, <3>4, <3>5, <3>6, <3>7
    <2>3. lim[w] \in Nat /\ n \in Nat
      BY SlotsAssumption DEF Limit!LimitTypeOK
    <2> QED BY <2>1, <2>2, <2>3
  <1>8. CASE Limit!Change BY <1>8 DEF Limit!Change
  <1>9. CASE UNCHANGED Limit!limitVars BY <1>9 DEF Limit!limitVars
  <1> QED BY <1>5, <1>6, <1>7, <1>8, <1>9 DEF Limit!LimitNext

(* However often the limit is changed, at most n encodes run that were let *)
(* in under a limit of n or less: what SetConcurrency promises of the      *)
(* encodes that start after it.                                            *)
THEOREM LimitIsHonoured == SlotsSpec => []Limit!LimitHonoured
  <1>1. KeepsLimit => [](Limit!LimitTypeOK /\ Limit!LimitHonoured)
    BY HonouredInit, HonouredStep, PTL DEF KeepsLimit, Limit!LimitSpec
  <1> QED BY <1>1, SlotsRefineLimit, PTL

=============================================================================
