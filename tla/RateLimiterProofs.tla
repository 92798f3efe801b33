-------------------------- MODULE RateLimiterProofs --------------------------
(***************************************************************************)
(* Theorems about RateLimiter, for any clients, requests in progress,      *)
(* budget, window, sweep interval and size of the memory store: what       *)
(* passes a limiter stays within its budget, and each store implements     *)
(* WindowCounter.                                                          *)
(***************************************************************************)
EXTENDS RateLimiter, Integers, SequenceTheorems, TLAPS

Pc == {"off", "limit", "handle", "finish"}
Limiter == {"mfaVerification", "sensitiveOperations", "sessionRefresh", "authenticatedWrite"}
Due == [store : Store, late : BOOLEAN]
Call == [pc : Pc, key : CounterKey \cup {<<>>}, left : Seq(Limiter), due : SUBSET Due]

\* A request that is under way has a key, and one at a limiter has that limiter.
CallOK(x) ==
    /\ x.pc # "off" => x.key \in CounterKey
    /\ x.pc = "limit" => x.left # <<>>

\* No counter outlives a window from now on, except the orphans, which count nothing.
RedisOK == \A k \in CounterKey :
    \/ resets["redis"][k] <= time + Window
    \/ resets["redis"][k] = Forever /\ tally["redis"][k] = 0

\* What counts in memory is in the map.
MemoryOK == \A k \in CounterKey :
    /\ resets["memory"][k] <= time + Window
    /\ Counting("memory", k) => k \in entries

CountersOK ==
    /\ time \in Nat /\ time <= LastTick
    /\ tally \in [Store -> [CounterKey -> Nat]] /\ resets \in [Store -> [CounterKey -> Nat]]
    /\ entries \subseteq CounterKey /\ lastCleanup \in Nat
    /\ RedisOK /\ MemoryOK

CallsOK == request \in [Inflight -> Call] /\ \A c \in Inflight : CallOK(request[c])

PassesOK ==
    /\ charged \in [Store -> [CounterKey -> Int]] /\ credit \in [Store -> [CounterKey -> Nat]]
    /\ \A s \in Store, k \in CounterKey : Counting(s, k) =>
          /\ charged[s][k] <= tally[s][k] + credit[s][k]
          /\ charged[s][k] <= Budget + credit[s][k]

\* The inductive invariant.
LimiterInv == CountersOK /\ CallsOK /\ PassesOK

-----------------------------------------------------------------------------
LEMMA Bounds ==
    /\ Budget \in Nat /\ LastTick \in Nat /\ Window \in Nat /\ Window > 0
    /\ Forever \in Nat /\ Forever = LastTick + Window + 1
  BY LimiterAssumption DEF Forever

LEMMA LimitersType == \A r \in Route : Limiters(r) \in Seq(Limiter) /\ Limiters(r) # <<>>
  <1> SUFFICES ASSUME NEW r \in Route PROVE Limiters(r) \in Seq(Limiter) /\ Limiters(r) # <<>>
    OBVIOUS
  <1>1. CASE r = "sensitive"
    BY <1>1 DEF Limiters, Limiter
  <1>2. CASE r = "refresh"
    BY <1>2 DEF Limiters, Limiter
  <1>3. CASE r = "write"
    BY <1>3 DEF Limiters, Limiter
  <1> QED BY <1>1, <1>2, <1>3 DEF Route

LEMMA OffType == Off \in Call /\ CallOK(Off)
  BY DEF Off, Call, CallOK, Pc

LEMMA LimiterInitInv == LimiterInit => LimiterInv
  <1> SUFFICES ASSUME LimiterInit PROVE LimiterInv
    OBVIOUS
  <1>1. CountersOK
    <2>1. /\ resets \in [Store -> [CounterKey -> Nat]]
          /\ \A k \in CounterKey : resets["memory"][k] = 0 /\ resets["redis"][k] \in {0, Forever}
      BY Bounds DEF LimiterInit, Store
    <2> QED
      BY <2>1, Bounds DEF LimiterInit, CountersOK, RedisOK, MemoryOK, Counting, Store
  <1>2. CallsOK
    BY OffType DEF LimiterInit, CallsOK
  <1>3. PassesOK
    BY Bounds DEF LimiterInit, PassesOK, Store
  <1> QED BY <1>1, <1>2, <1>3 DEF LimiterInv

-----------------------------------------------------------------------------
(* The stores.                                                             *)

\* What an operation on one store does: the other store keeps what it has.
Apart(s) == \A o \in Store \ {s} : tally'[o] = tally[o] /\ resets'[o] = resets[o]

LEMMA IncrementOK ==
    ASSUME CountersOK, NEW s \in Store, NEW k \in CounterKey, Increment(s, k), time' = time
    PROVE  /\ CountersOK' /\ Apart(s)
           /\ tally'[s][k] = IF Counting(s, k) THEN tally[s][k] + 1 ELSE 1
           /\ Counting(s, k)'
           /\ \A x \in CounterKey \ {k} : \/ tally'[s][x] = tally[s][x] /\ resets'[s][x] = resets[s][x]
                                          \/ resets'[s][x] = 0
  <1>1. CASE s = "redis" /\ RedisIncrement(k)
    <2> DEFINE current == IF Counting("redis", k) THEN tally["redis"][k] + 1 ELSE 1
               reset == IF current = 1 \/ resets["redis"][k] = Forever THEN time + Window
                        ELSE resets["redis"][k]
    <2>a. current \in Nat /\ reset \in Nat
      BY Bounds DEF CountersOK, Store
    <2>b. current = 1 <=> ~Counting("redis", k) \/ tally["redis"][k] = 0
      BY DEF CountersOK, Store
    <2>c. /\ tally' = [tally EXCEPT !["redis"][k] = current]
          /\ resets' = [resets EXCEPT !["redis"][k] = reset]
          /\ UNCHANGED <<entries, lastCleanup>>
      BY <1>1 DEF RedisIncrement
    <2> HIDE DEF current, reset
    <2>1. /\ tally'["redis"][k] = current /\ resets'["redis"][k] = reset
          /\ UNCHANGED <<entries, lastCleanup>>
      BY <2>c DEF CountersOK, Store
    <2>2. /\ tally' \in [Store -> [CounterKey -> Nat]] /\ resets' \in [Store -> [CounterKey -> Nat]]
          /\ Apart(s)
          /\ \A x \in CounterKey \ {k} : tally'[s][x] = tally[s][x] /\ resets'[s][x] = resets[s][x]
      BY <1>1, <2>a, <2>c DEF CountersOK, Store, Apart
    <2>3. tally'[s][k] = IF Counting(s, k) THEN tally[s][k] + 1 ELSE 1
      BY <1>1, <2>1 DEF current
    <2>4. resets'[s][k] <= time + Window /\ resets'[s][k] > time
      BY <1>1, <2>1, <2>b, Bounds DEF CountersOK, RedisOK, Counting, Store, reset
    <2>5. RedisOK'
      BY <1>1, <2>2, <2>4 DEF CountersOK, RedisOK
    <2>6. MemoryOK'
      BY <1>1, <2>1, <2>2 DEF CountersOK, MemoryOK, Counting, Apart, Store
    <2> QED BY <1>1, <2>1, <2>2, <2>3, <2>4, <2>5, <2>6 DEF CountersOK, Counting
  <1>2. CASE s = "memory" /\ MemoryIncrement(k)
    <2> DEFINE sweep == time - lastCleanup >= CleanupInterval
               kept  == IF sweep THEN Alive(entries) ELSE entries
    <2>1. PICK room \in IF k \in kept THEN {kept} ELSE Evictions(kept) :
              /\ entries' = room \cup {k}
              /\ tally' = [tally EXCEPT !["memory"] =
                    [x \in CounterKey |-> CASE x = k -> IF k \in kept /\ Counting("memory", k)
                                                        THEN @[k] + 1 ELSE 1
                                            [] x \in room \ {k} -> @[x]
                                            [] OTHER -> 0]]
              /\ resets' = [resets EXCEPT !["memory"] =
                    [x \in CounterKey |-> CASE x = k -> IF k \in kept /\ Counting("memory", k)
                                                        THEN @[k] ELSE time + Window
                                            [] x \in room \ {k} -> @[x]
                                            [] OTHER -> 0]]
      BY <1>2 DEF MemoryIncrement
    <2>2. kept \subseteq CounterKey /\ room \subseteq kept /\ lastCleanup' \in Nat
      BY <1>2 DEF CountersOK, Alive, Evictions, MemoryIncrement
    <2>3. Counting("memory", k) => k \in kept
      BY DEF CountersOK, MemoryOK, Alive
    <2> HIDE DEF kept, sweep
    <2>4. /\ tally'["memory"] = [x \in CounterKey |->
                CASE x = k -> IF Counting("memory", k) THEN tally["memory"][k] + 1 ELSE 1
                  [] x \in room \ {k} -> tally["memory"][x]
                  [] OTHER -> 0]
          /\ resets'["memory"] = [x \in CounterKey |->
                CASE x = k -> IF Counting("memory", k) THEN resets["memory"][k] ELSE time + Window
                  [] x \in room \ {k} -> resets["memory"][x]
                  [] OTHER -> 0]
      BY <2>1, <2>3 DEF CountersOK, Store
    <2>5. tally'["redis"] = tally["redis"] /\ resets'["redis"] = resets["redis"]
      BY <2>1 DEF CountersOK, Store
    <2>6. /\ tally'["memory"] \in [CounterKey -> Nat] /\ resets'["memory"] \in [CounterKey -> Nat]
          /\ \A x \in CounterKey \ {k} :
                \/ /\ x \in room /\ tally'[s][x] = tally[s][x] /\ resets'[s][x] = resets[s][x]
                \/ resets'[s][x] = 0
          /\ tally'[s][k] = IF Counting(s, k) THEN tally[s][k] + 1 ELSE 1
          /\ resets'[s][k] = IF Counting(s, k) THEN resets[s][k] ELSE time + Window
      BY <1>2, <2>4, Bounds DEF CountersOK, Store
    <2>7. tally' \in [Store -> [CounterKey -> Nat]] /\ resets' \in [Store -> [CounterKey -> Nat]]
      BY <2>1, <2>5, <2>6 DEF CountersOK, Store
    <2>8. RedisOK' /\ Apart(s)
      BY <1>2, <2>5 DEF CountersOK, RedisOK, Apart, Store
    <2>9. MemoryOK' /\ Counting(s, k)'
      BY <1>2, <2>1, <2>6, Bounds DEF CountersOK, MemoryOK, Counting, Store
    <2> QED BY <2>1, <2>2, <2>6, <2>7, <2>8, <2>9 DEF CountersOK
  <1> QED BY <1>1, <1>2 DEF Increment

LEMMA DecrementOK ==
    ASSUME CountersOK, NEW s \in Store, NEW k \in CounterKey, Decrement(s, k), time' = time
    PROVE  /\ CountersOK' /\ Apart(s)
           /\ \A x \in CounterKey \ {k} : tally'[s][x] = tally[s][x] /\ resets'[s][x] = resets[s][x]
           /\ Counting(s, k) => \/ tally'[s][k] = tally[s][k] - 1
                                \/ tally[s][k] = 0 /\ tally'[s][k] = 0
           /\ ~Counting(s, k) => \/ s = "redis" /\ tally'[s][k] = 0 /\ resets'[s][k] > time
                                 \/ s = "memory" /\ resets'[s][k] = resets[s][k]
           /\ Counting(s, k) => Counting(s, k)'
           /\ Counting(s, k) /\ tally[s][k] > 0 => resets'[s][k] = resets[s][k]
  <1>1. CASE s = "redis" /\ RedisDecrement(k)
    <2>1. /\ tally' \in [Store -> [CounterKey -> Nat]] /\ resets' \in [Store -> [CounterKey -> Nat]]
          /\ Apart(s)
          /\ \A x \in CounterKey \ {k} : tally'[s][x] = tally[s][x] /\ resets'[s][x] = resets[s][x]
      BY <1>1, Bounds DEF RedisDecrement, CountersOK, Store, Apart
    <2>2. CASE Counting("redis", k) /\ tally["redis"][k] > 0
      <3>1. tally'[s][k] = tally[s][k] - 1 /\ resets' = resets /\ UNCHANGED <<entries, lastCleanup>>
        BY <1>1, <2>2 DEF RedisDecrement, CountersOK, Store
      <3>2. RedisOK'
        BY <1>1, <2>1, <2>2, <3>1 DEF CountersOK, RedisOK
      <3>3. MemoryOK'
        BY <3>1 DEF CountersOK, MemoryOK, Counting
      <3> QED BY <1>1, <2>1, <2>2, <3>1, <3>2, <3>3 DEF CountersOK, Counting
    <2>3. CASE ~(Counting("redis", k) /\ tally["redis"][k] > 0)
      <3>1. /\ tally'[s][k] = 0 /\ resets'[s][k] = time + Window
            /\ UNCHANGED <<entries, lastCleanup>>
        BY <1>1, <2>3 DEF RedisDecrement, CountersOK, Store
      <3>2. RedisOK'
        BY <1>1, <2>1, <3>1 DEF CountersOK, RedisOK
      <3>3. MemoryOK'
        BY <1>1, <2>1, <3>1 DEF CountersOK, MemoryOK, Counting, Apart, Store
      <3>4. Counting("redis", k) => tally["redis"][k] = 0
        BY <2>3 DEF CountersOK, Store
      <3> QED BY <1>1, <2>1, <3>1, <3>2, <3>3, <3>4, Bounds DEF CountersOK, Counting
    <2> QED BY <2>2, <2>3
  <1>2. CASE s = "memory" /\ MemoryDecrement(k)
    <2>1. /\ tally' \in [Store -> [CounterKey -> Nat]] /\ Apart(s)
          /\ \A x \in CounterKey \ {k} : tally'[s][x] = tally[s][x] /\ resets'[s][x] = resets[s][x]
          /\ tally'[s][k] = IF k \in entries /\ tally[s][k] > 0 THEN tally[s][k] - 1 ELSE tally[s][k]
          /\ UNCHANGED <<resets, entries, lastCleanup>>
      BY <1>2 DEF MemoryDecrement, CountersOK, Store, Apart
    <2>2. RedisOK' /\ MemoryOK'
      BY <1>2, <2>1 DEF CountersOK, RedisOK, MemoryOK, Counting, Apart, Store
    <2>3. Counting(s, k) => k \in entries
      BY <1>2 DEF CountersOK, MemoryOK
    <2> QED BY <1>2, <2>1, <2>2, <2>3 DEF CountersOK, Counting
  <1> QED BY <1>1, <1>2 DEF Decrement

LEMMA TickOK ==
    ASSUME CountersOK, ClockTicks
    PROVE  /\ CountersOK'
           /\ \A s \in Store, k \in CounterKey : Counting(s, k)' =>
                 Counting(s, k) /\ tally'[s][k] = tally[s][k] /\ resets'[s][k] = resets[s][k]
           /\ \A s \in Store, k \in CounterKey : Counting(s, k) /\ ~Counting(s, k)' =>
                 resets[s][k] = time + 1
           /\ time' = time + 1
  <1> DEFINE over == {k \in CounterKey : resets["redis"][k] <= time'}
  <1>1. /\ time < LastTick /\ time' = time + 1 /\ UNCHANGED <<entries, lastCleanup>>
        /\ tally' = [tally EXCEPT !["redis"] = [k \in CounterKey |-> IF k \in over THEN 0 ELSE @[k]]]
        /\ resets' = [resets EXCEPT !["redis"] = [k \in CounterKey |-> IF k \in over THEN 0 ELSE @[k]]]
    BY DEF ClockTicks
  <1>2. \A k \in CounterKey :
          /\ tally'["redis"][k] = IF resets["redis"][k] <= time' THEN 0 ELSE tally["redis"][k]
          /\ resets'["redis"][k] = IF resets["redis"][k] <= time' THEN 0 ELSE resets["redis"][k]
    BY <1>1 DEF CountersOK, Store
  <1>3. tally'["memory"] = tally["memory"] /\ resets'["memory"] = resets["memory"]
    BY <1>1 DEF CountersOK, Store
  <1>4. tally' \in [Store -> [CounterKey -> Nat]] /\ resets' \in [Store -> [CounterKey -> Nat]]
    BY <1>1 DEF CountersOK, Store
  <1> HIDE DEF over
  <1>5. RedisOK'
    BY <1>1, <1>2, Bounds DEF CountersOK, RedisOK, Store
  <1>6. MemoryOK'
    BY <1>1, <1>3, <1>4, Bounds DEF CountersOK, MemoryOK, Counting, Store
  <1>7. CountersOK'
    BY <1>1, <1>4, <1>5, <1>6, Bounds DEF CountersOK
  <1> QED
    BY <1>1, <1>2, <1>3, <1>4, <1>7 DEF CountersOK, Counting, Store

-----------------------------------------------------------------------------
(* The requests and the history of the passes.                             *)

LEMMA AgedOK ==
    ASSUME NEW s \in Store, NEW old \in [Inflight -> Call]
    PROVE  /\ Aged(s, old) \in [Inflight -> Call]
           /\ \A c \in Inflight : /\ Aged(s, old)[c].pc = old[c].pc
                                  /\ Aged(s, old)[c].key = old[c].key
                                  /\ Aged(s, old)[c].left = old[c].left
  <1> SUFFICES ASSUME NEW c \in Inflight
               PROVE  /\ Aged(s, old)[c] \in Call /\ Aged(s, old)[c].pc = old[c].pc
                      /\ Aged(s, old)[c].key = old[c].key /\ Aged(s, old)[c].left = old[c].left
    BY Zenon DEF Aged
  <1> DEFINE aged == {IF d.store = s THEN [d EXCEPT !.late = TRUE] ELSE d : d \in old[c].due}
  <1>1. old[c].due \subseteq Due
    BY DEF Call
  <1>2. \A d \in Due : [d EXCEPT !.late = TRUE] \in Due
    BY DEF Due
  <1>3. aged \subseteq Due
    BY <1>1, <1>2
  <1>4. Aged(s, old)[c] \in {old[c], [old[c] EXCEPT !.due = aged]}
    BY DEF Aged
  <1> HIDE DEF aged
  <1> QED BY <1>3, <1>4 DEF Call

LEMMA AgedKept ==
    ASSUME NEW s \in Store, NEW old \in [Inflight -> Call], \A o \in Inflight : CallOK(old[o])
    PROVE  /\ Aged(s, old) \in [Inflight -> Call]
           /\ \A o \in Inflight : CallOK(Aged(s, old)[o])
  BY AgedOK, Zenon DEF CallOK

LEMMA AgedCalls ==
    ASSUME CallsOK, NEW s \in Store
    PROVE  \A o \in Inflight : CallOK(Aged(s, request)[o])
  BY AgedOK, Zenon DEF CallsOK, CallOK

\* Windows that begin have no passes and no credit yet.
LEMMA NewWindowsOK ==
    ASSUME NEW s \in Store, PassesOK
    PROVE  /\ NewWindows(s, charged) \in [Store -> [CounterKey -> Int]]
           /\ NewWindows(s, credit) \in [Store -> [CounterKey -> Nat]]
           /\ \A o \in Store, y \in CounterKey :
                /\ NewWindows(s, charged)[o][y] = IF o = s /\ y \in Begun(s) THEN 0 ELSE charged[o][y]
                /\ NewWindows(s, credit)[o][y] = IF o = s /\ y \in Begun(s) THEN 0 ELSE credit[o][y]
  BY DEF NewWindows, PassesOK

LEMMA BegunOK ==
    ASSUME NEW s \in Store, NEW k \in CounterKey, resets[s][k] \in Nat, resets'[s][k] \in Nat,
           time' = time, time \in Nat
    PROVE  /\ Counting(s, k) /\ Counting(s, k)' => k \notin Begun(s)
           /\ ~Counting(s, k) /\ Counting(s, k)' => k \in Begun(s)
           /\ resets'[s][k] = resets[s][k] => k \notin Begun(s)
  BY DEF Begun, Counting

\* The history of the passes after the count of a request with key k by store s.
LEMMA CountedPasses ==
    ASSUME CountersOK, PassesOK, CountersOK', NEW s \in Store, NEW k \in CounterKey,
           time' = time, Apart(s), Counting(s, k)',
           tally'[s][k] = IF Counting(s, k) THEN tally[s][k] + 1 ELSE 1,
           \A y \in CounterKey \ {k} : \/ tally'[s][y] = tally[s][y] /\ resets'[s][y] = resets[s][y]
                                       \/ resets'[s][y] = 0,
           credit' = NewWindows(s, credit),
           \/ charged' = NewWindows(s, charged)
           \/ /\ charged' = [NewWindows(s, charged) EXCEPT ![s][k] = @ + 1]
              /\ tally'[s][k] <= Budget
    PROVE  PassesOK'
  <1>1. NewWindows(s, charged) \in [Store -> [CounterKey -> Int]]
    BY NewWindowsOK
  <1>2. NewWindows(s, credit) \in [Store -> [CounterKey -> Nat]]
    BY NewWindowsOK
  <1>3. \A o \in Store, y \in CounterKey :
          /\ NewWindows(s, charged)[o][y] = IF o = s /\ y \in Begun(s) THEN 0 ELSE charged[o][y]
          /\ NewWindows(s, credit)[o][y] = IF o = s /\ y \in Begun(s) THEN 0 ELSE credit[o][y]
    BY NewWindowsOK
  <1>4. charged' \in [Store -> [CounterKey -> Int]] /\ credit' \in [Store -> [CounterKey -> Nat]]
    BY <1>1, <1>2
  <1>5. ASSUME NEW o \in Store, NEW y \in CounterKey, Counting(o, y)'
        PROVE  /\ charged'[o][y] <= tally'[o][y] + credit'[o][y]
               /\ charged'[o][y] <= Budget + credit'[o][y]
    <2>1. /\ resets[o][y] \in Nat /\ resets'[o][y] \in Nat /\ time \in Nat
          /\ tally[o][y] \in Nat /\ tally'[o][y] \in Nat
          /\ charged[o][y] \in Int /\ credit[o][y] \in Nat
      BY DEF CountersOK, PassesOK
    <2>2. CASE o = s /\ y = k
      <3>1. CASE Counting(s, k)
        <4>1. k \notin Begun(s)
          BY <2>1, <2>2, <3>1, BegunOK
        <4>2. charged[s][k] <= tally[s][k] + credit[s][k] /\ charged[s][k] <= Budget + credit[s][k]
          BY <3>1 DEF PassesOK
        <4>3. credit'[s][k] = credit[s][k] /\ tally'[s][k] = tally[s][k] + 1
          BY <1>3, <3>1, <4>1
        <4>4. \/ charged'[s][k] = charged[s][k]
              \/ charged'[s][k] = charged[s][k] + 1 /\ tally'[s][k] <= Budget
          BY <1>1, <1>3, <4>1
        <4> QED BY <2>1, <2>2, <4>2, <4>3, <4>4, Bounds
      <3>2. CASE ~Counting(s, k)
        <4>1. k \in Begun(s)
          BY <2>1, <2>2, <3>2, BegunOK
        <4>2. credit'[s][k] = 0 /\ tally'[s][k] = 1
          BY <1>3, <3>2, <4>1
        <4>3. \/ charged'[s][k] = 0
              \/ charged'[s][k] = 1 /\ tally'[s][k] <= Budget
          BY <1>1, <1>3, <4>1
        <4> QED BY <2>1, <2>2, <4>2, <4>3, Bounds
      <3> QED BY <3>1, <3>2
    <2>3. CASE ~(o = s /\ y = k)
      <3>1. resets'[o][y] = resets[o][y] /\ tally'[o][y] = tally[o][y]
        BY <1>5, <2>1, <2>3 DEF Apart, Counting
      <3>2. ~(o = s /\ y \in Begun(s)) /\ Counting(o, y)
        BY <1>5, <2>1, <3>1, BegunOK DEF Counting
      <3>3. charged'[o][y] = charged[o][y] /\ credit'[o][y] = credit[o][y]
        BY <1>1, <1>3, <2>3, <3>2
      <3> QED BY <3>1, <3>2, <3>3 DEF PassesOK
    <2> QED BY <2>2, <2>3
  <1> QED BY <1>4, <1>5 DEF PassesOK

\* What is left of a chain after its head.
LEMMA TailOK ==
    ASSUME NEW q \in Seq(Limiter), q # <<>>
    PROVE  Tail(q) \in Seq(Limiter) /\ (Len(q) # 1 => Tail(q) # <<>>)
  <1>1. Tail(q) \in Seq(Limiter) /\ Len(Tail(q)) = Len(q) - 1 /\ Len(q) \in Nat
    BY HeadTailProperties, LenProperties, Zenon
  <1>2. Tail(q) = <<>> => Len(Tail(q)) = 0
    BY EmptySeq, Zenon
  <1>3. \A n \in Nat : n - 1 = 0 => n = 1
    OBVIOUS
  <1> QED BY <1>1, <1>2, <1>3, Zenon

\* The call after its limiter, given what it was before.
LEMMA CountedCalls ==
    ASSUME CallsOK, NEW c \in Inflight, NEW s \in Store, request[c].pc = "limit",
           \/ request' = [Aged(s, request) EXCEPT ![c].pc = "finish", ![c].due = {}]
           \/ request' = [Aged(s, request) EXCEPT
                 ![c].left = Tail(@),
                 ![c].pc = IF Len(request[c].left) = 1 THEN "handle" ELSE "limit",
                 ![c].due = IF SkipsSuccess(Head(request[c].left))
                            THEN @ \cup {[store |-> s, late |-> FALSE]} ELSE @]
    PROVE  CallsOK'
  <1> DEFINE old == Aged(s, request)
             x == old[c]
  <1>1. old \in [Inflight -> Call] /\ \A o \in Inflight : CallOK(old[o])
    BY AgedOK, AgedCalls DEF CallsOK
  <1>2. x.left = request[c].left /\ x.pc = "limit"
    BY AgedOK DEF CallsOK
  <1>3. x \in Call /\ x.key \in CounterKey /\ x.left \in Seq(Limiter) /\ x.left # <<>> /\ x.due \subseteq Due
    BY <1>1, <1>2 DEF CallOK, Call
  <1> DEFINE due == IF SkipsSuccess(Head(x.left)) THEN x.due \cup {[store |-> s, late |-> FALSE]} ELSE x.due
             pc  == IF Len(x.left) = 1 THEN "handle" ELSE "limit"
             passed == [x EXCEPT !.left = Tail(x.left), !.pc = pc, !.due = due]
             ended  == [x EXCEPT !.pc = "finish", !.due = {}]
  <1>4. due \subseteq Due
    BY <1>3, [store |-> s, late |-> FALSE] \in Due DEF Due
  <1>5. pc \in {"handle", "limit"} /\ (pc = "limit" => Tail(x.left) # <<>>) /\ Tail(x.left) \in Seq(Limiter)
    BY <1>3, TailOK
  <1>6. \/ request' = [old EXCEPT ![c] = ended]
        \/ request' = [old EXCEPT ![c] = passed]
    BY <1>1, <1>2
  <1> HIDE DEF pc, due, old
  <1>7. passed \in Call /\ CallOK(passed) /\ ended \in Call /\ CallOK(ended)
    BY <1>3, <1>4, <1>5 DEF Call, CallOK, Pc
  <1> HIDE DEF passed, ended
  <1> QED BY <1>1, <1>6, <1>7 DEF CallsOK

LEMMA CountCallOK ==
    ASSUME LimiterInv, NEW c \in Inflight, CountCall(c)
    PROVE  LimiterInv'
  <1>0. request[c].pc = "limit" /\ request[c].key \in CounterKey /\ ActiveStore \in Store
    BY DEF LimiterInv, CallsOK, CallOK, CountCall, ActiveStore, Store, Call
  <1>k. PICK k \in CounterKey : k = request[c].key
    BY <1>0
  <1>s. PICK s \in Store : s = ActiveStore
    BY <1>0
  <1>1. request[c].pc = "limit" /\ time' = time
    BY <1>0 DEF CountCall
  <1>2. Increment(s, k) /\ credit' = NewWindows(s, credit)
    BY <1>k, <1>s DEF CountCall
  <1>3. \/ /\ request' = [Aged(s, request) EXCEPT ![c].pc = "finish", ![c].due = {}]
           /\ charged' = NewWindows(s, charged)
        \/ /\ request' = [Aged(s, request) EXCEPT
                 ![c].left = Tail(@),
                 ![c].pc = IF Len(request[c].left) = 1 THEN "handle" ELSE "limit",
                 ![c].due = IF SkipsSuccess(Head(request[c].left))
                            THEN @ \cup {[store |-> s, late |-> FALSE]} ELSE @]
           /\ charged' = [NewWindows(s, charged) EXCEPT ![s][k] = @ + 1]
           /\ ~(tally'[s][k] > Budget)
    BY <1>k, <1>s DEF CountCall, Exceeded
  <1>4. /\ CountersOK' /\ Apart(s) /\ Counting(s, k)'
        /\ tally'[s][k] = IF Counting(s, k) THEN tally[s][k] + 1 ELSE 1
        /\ \A y \in CounterKey \ {k} : \/ tally'[s][y] = tally[s][y] /\ resets'[s][y] = resets[s][y]
                                       \/ resets'[s][y] = 0
    BY <1>1, <1>2, IncrementOK DEF LimiterInv
  <1>5. CallsOK'
    BY <1>1, <1>3, CountedCalls DEF LimiterInv
  <1>6. tally'[s][k] \in Nat
    BY <1>1, <1>4 DEF CountersOK
  <1>7. \/ charged' = NewWindows(s, charged)
        \/ /\ charged' = [NewWindows(s, charged) EXCEPT ![s][k] = @ + 1]
           /\ tally'[s][k] <= Budget
    BY <1>3, <1>6, Bounds
  <1>8. PassesOK'
    BY <1>1, <1>2, <1>4, <1>7, CountedPasses DEF LimiterInv
  <1> QED BY <1>4, <1>5, <1>8 DEF LimiterInv

\* The history after the refund of a pass by store s.
LEMMA RefundedPasses ==
    ASSUME CountersOK, PassesOK, CountersOK', NEW s \in Store, NEW k \in CounterKey, NEW late,
           time' = time, Decrement(s, k),
           IF ~Counting(s, k)
             THEN charged' = NewWindows(s, charged) /\ credit' = NewWindows(s, credit)
             ELSE IF ~late
             THEN charged' = [charged EXCEPT ![s][k] = @ - 1] /\ UNCHANGED credit
             ELSE credit' = [credit EXCEPT ![s][k] = @ + 1] /\ UNCHANGED charged
    PROVE  PassesOK'
  <1>1. /\ Apart(s)
        /\ \A x \in CounterKey \ {k} : tally'[s][x] = tally[s][x] /\ resets'[s][x] = resets[s][x]
        /\ Counting(s, k) => \/ tally'[s][k] = tally[s][k] - 1
                             \/ tally[s][k] = 0 /\ tally'[s][k] = 0
        /\ ~Counting(s, k) => \/ s = "redis" /\ tally'[s][k] = 0 /\ resets'[s][k] > time
                              \/ s = "memory" /\ resets'[s][k] = resets[s][k]
    BY DecrementOK
  <1>2. charged' \in [Store -> [CounterKey -> Int]] /\ credit' \in [Store -> [CounterKey -> Nat]]
    <2>1. CASE ~Counting(s, k)
      BY <2>1, NewWindowsOK
    <2>2. CASE Counting(s, k) /\ ~late
      BY <2>2 DEF PassesOK
    <2>3. CASE Counting(s, k) /\ late
      BY <2>3 DEF PassesOK
    <2> QED BY <2>1, <2>2, <2>3
  <1>3. ASSUME NEW o \in Store, NEW y \in CounterKey, Counting(o, y)'
        PROVE  /\ charged'[o][y] <= tally'[o][y] + credit'[o][y]
               /\ charged'[o][y] <= Budget + credit'[o][y]
    <2>1. /\ resets[o][y] \in Nat /\ resets'[o][y] \in Nat /\ time \in Nat
          /\ tally[o][y] \in Nat /\ tally'[o][y] \in Nat
          /\ charged[o][y] \in Int /\ credit[o][y] \in Nat
      BY DEF CountersOK, PassesOK
    <2>2. CASE o = s /\ y = k
      <3>1. CASE Counting(s, k)
        <4>1. charged[s][k] <= tally[s][k] + credit[s][k] /\ charged[s][k] <= Budget + credit[s][k]
          BY <3>1 DEF PassesOK
        <4>2. \/ charged'[s][k] = charged[s][k] - 1 /\ credit'[s][k] = credit[s][k]
              \/ charged'[s][k] = charged[s][k] /\ credit'[s][k] = credit[s][k] + 1
          BY <3>1 DEF PassesOK
        <4> QED BY <1>1, <2>1, <2>2, <3>1, <4>1, <4>2, Bounds
      <3>2. CASE ~Counting(s, k)
        <4>1. k \in Begun(s) /\ tally'[s][k] = 0
          BY <1>1, <1>3, <2>1, <2>2, <3>2, BegunOK DEF Counting
        <4>2. charged'[s][k] = 0 /\ credit'[s][k] = 0
          BY <3>2, <4>1, NewWindowsOK
        <4> QED BY <2>2, <4>1, <4>2, Bounds
      <3> QED BY <3>1, <3>2
    <2>3. CASE ~(o = s /\ y = k)
      <3>1. resets'[o][y] = resets[o][y] /\ tally'[o][y] = tally[o][y]
        BY <1>1, <2>3 DEF Apart
      <3>2. ~(o = s /\ y \in Begun(s)) /\ Counting(o, y)
        BY <1>3, <2>1, <3>1, BegunOK DEF Counting
      <3>3. charged'[o][y] = charged[o][y] /\ credit'[o][y] = credit[o][y]
        <4>1. CASE ~Counting(s, k)
          BY <3>2, <4>1, NewWindowsOK
        <4>2. CASE Counting(s, k) /\ ~late
          BY <2>3, <4>2 DEF PassesOK
        <4>3. CASE Counting(s, k) /\ late
          BY <2>3, <4>3 DEF PassesOK
        <4> QED BY <4>1, <4>2, <4>3
      <3> QED BY <3>1, <3>2, <3>3 DEF PassesOK
    <2> QED BY <2>2, <2>3
  <1> QED BY <1>2, <1>3 DEF PassesOK

LEMMA RefundOK ==
    ASSUME LimiterInv, NEW c \in Inflight, NEW d \in request[c].due, Refund(c, d)
    PROVE  LimiterInv'
  <1>1. /\ request[c] \in Call /\ request[c].pc = "finish" /\ request[c].key \in CounterKey
        /\ d \in Due /\ d.store \in Store /\ time' = time
    BY DEF LimiterInv, CallsOK, CallOK, Refund, Call, Due
  <1>k. PICK k \in CounterKey : k = request[c].key
    BY <1>1
  <1>s. PICK s \in Store : s = d.store
    BY <1>1
  <1>2. /\ Decrement(s, k)
        /\ request' = Aged(s, [request EXCEPT ![c].due = @ \ {d}])
        /\ IF ~Counting(s, k)
             THEN charged' = NewWindows(s, charged) /\ credit' = NewWindows(s, credit)
             ELSE IF ~d.late
             THEN charged' = [charged EXCEPT ![s][k] = @ - 1] /\ UNCHANGED credit
             ELSE credit' = [credit EXCEPT ![s][k] = @ + 1] /\ UNCHANGED charged
    BY <1>k, <1>s DEF Refund
  <1>3. CountersOK'
    BY <1>1, <1>2, DecrementOK DEF LimiterInv
  <1>4. PassesOK'
    BY <1>1, <1>2, <1>3, RefundedPasses DEF LimiterInv
  <1>5. CallsOK'
    <2>1. PICK old \in [Inflight -> Call] : /\ old = [request EXCEPT ![c].due = @ \ {d}]
                                            /\ \A o \in Inflight : CallOK(old[o])
      <3> DEFINE x == [request EXCEPT ![c].due = @ \ {d}]
      <3>1. x \in [Inflight -> Call]
        BY DEF LimiterInv, CallsOK, Call
      <3>2. \A o \in Inflight : x[o].pc = request[o].pc /\ x[o].key = request[o].key
                                /\ x[o].left = request[o].left /\ CallOK(request[o])
        BY DEF LimiterInv, CallsOK, Call
      <3>3. \A o \in Inflight : CallOK(x[o])
        BY <3>2, Zenon DEF CallOK
      <3> QED BY <3>1, <3>3, Zenon
    <2>2. request' = Aged(s, old)
      BY <1>2, <2>1
    <2>3. request' \in [Inflight -> Call] /\ \A o \in Inflight : CallOK(request'[o])
      BY <2>1, <2>2, AgedKept, Zenon
    <2> QED BY <2>3 DEF CallsOK
  <1> QED BY <1>3, <1>4, <1>5 DEF LimiterInv

\* A step of one request that leaves the counters alone.
LEMMA QuietCallOK ==
    ASSUME LimiterInv, NEW c \in Inflight,
           \/ \E client \in Client, route \in Route : CallArrives(c, client, route)
           \/ FailClosed(c) \/ CallEnds(c)
           \/ \E skipped \in BOOLEAN : Respond(c, skipped)
           \/ \E d \in request[c].due : RefundLost(c, d)
    PROVE  LimiterInv'
  <1>1. UNCHANGED <<time, tally, resets, entries, lastCleanup, charged, credit>>
    BY DEF CallArrives, FailClosed, CallEnds, Respond, RefundLost, counters, passes
  <1>2. CountersOK' /\ PassesOK'
    BY <1>1 DEF LimiterInv, CountersOK, RedisOK, MemoryOK, PassesOK, Counting
  <1>3. request \in [Inflight -> Call] /\ request[c] \in Call /\ CallOK(request[c])
    BY DEF LimiterInv, CallsOK
  <1>4. PICK x : x \in Call /\ CallOK(x) /\ request' = [request EXCEPT ![c] = x]
    <2>1. CASE \E client \in Client, route \in Route : CallArrives(c, client, route)
      <3>1. PICK client \in Client, route \in Route : CallArrives(c, client, route)
        BY <2>1
      <3> DEFINE x == [Off EXCEPT !.pc = "limit", !.key = <<client, route>>, !.left = Limiters(route)]
      <3>2. x \in Call /\ CallOK(x)
        BY LimitersType DEF Off, Call, CallOK, Pc, CounterKey
      <3>3. request' = [request EXCEPT ![c] = x]
        BY <3>1 DEF CallArrives
      <3> QED BY <3>2, <3>3
    <2>2. CASE FailClosed(c)
      <3> DEFINE x == [request[c] EXCEPT !.pc = "finish", !.due = {}]
      <3>1. x \in Call /\ CallOK(x)
        BY <1>3, <2>2 DEF Call, CallOK, Pc, FailClosed
      <3>2. request' = [request EXCEPT ![c] = x]
        BY <1>3, <2>2 DEF FailClosed
      <3> QED BY <3>1, <3>2
    <2>3. CASE CallEnds(c)
      BY <2>3, OffType DEF CallEnds
    <2>4. CASE \E skipped \in BOOLEAN : Respond(c, skipped)
      <3>1. PICK skipped \in BOOLEAN : Respond(c, skipped)
        BY <2>4
      <3> DEFINE due == IF skipped THEN request[c].due ELSE {}
                 x == [request[c] EXCEPT !.pc = "finish", !.due = due]
      <3>2. x \in Call /\ CallOK(x)
        BY <1>3, <3>1 DEF Call, CallOK, Pc, Respond
      <3>3. request' = [request EXCEPT ![c] = x]
        BY <1>3, <3>1 DEF Respond
      <3> QED BY <3>2, <3>3
    <2>5. CASE \E d \in request[c].due : RefundLost(c, d)
      <3>1. PICK d \in request[c].due : RefundLost(c, d)
        BY <2>5
      <3> DEFINE x == [request[c] EXCEPT !.due = @ \ {d}]
      <3>2. x \in Call /\ CallOK(x)
        BY <1>3 DEF Call, CallOK
      <3>3. request' = [request EXCEPT ![c] = x]
        BY <1>3, <3>1 DEF RefundLost
      <3> QED BY <3>2, <3>3
    <2> QED BY <2>1, <2>2, <2>3, <2>4, <2>5
  <1>5. CallsOK'
    BY <1>4 DEF LimiterInv, CallsOK
  <1> QED BY <1>2, <1>5 DEF LimiterInv

-----------------------------------------------------------------------------
LEMMA LimiterNextInv == LimiterInv /\ [LimiterNext]_limiterVars => LimiterInv'
  <1> SUFFICES ASSUME LimiterInv, [LimiterNext]_limiterVars PROVE LimiterInv'
    OBVIOUS
  <1>1. CASE ClockTicks
    <2>1. /\ CountersOK' /\ UNCHANGED <<request, charged, credit>>
          /\ \A s \in Store, k \in CounterKey : Counting(s, k)' =>
                Counting(s, k) /\ tally'[s][k] = tally[s][k]
      BY <1>1, TickOK DEF LimiterInv, ClockTicks, passes
    <2> QED BY <2>1 DEF LimiterInv, CallsOK, PassesOK
  <1>2. CASE RedisSwitches \/ UNCHANGED limiterVars
    <2>1. UNCHANGED <<time, tally, resets, entries, lastCleanup, request, charged, credit>>
      BY <1>2 DEF RedisSwitches, limiterVars, counters, passes
    <2> QED BY <2>1 DEF LimiterInv, CountersOK, RedisOK, MemoryOK, CallsOK, PassesOK, Counting
  <1>3. CASE \E c \in Inflight : CountCall(c)
    BY <1>3, CountCallOK
  <1>4. CASE \E c \in Inflight : \E d \in request[c].due : Refund(c, d)
    BY <1>4, RefundOK
  <1>5. ASSUME NEW c \in Inflight,
               \/ \E client \in Client, route \in Route : CallArrives(c, client, route)
               \/ FailClosed(c) \/ CallEnds(c)
               \/ \E skipped \in BOOLEAN : Respond(c, skipped)
               \/ \E d \in request[c].due : RefundLost(c, d)
        PROVE  LimiterInv'
    BY <1>5, QuietCallOK
  <1> QED BY <1>1, <1>2, <1>3, <1>4, <1>5 DEF LimiterNext

\* The counters, the requests and the history of passes keep the inductive
\* invariant through every count, refund, eviction, expiry and loss of Redis.
THEOREM LimiterInvariant == LimiterSpec => []LimiterInv
  BY LimiterInitInv, LimiterNextInv, PTL DEF LimiterSpec

\* createRateLimiter.ts:106 - late refunds open no gate wider than by themselves:
\* what passed in a window stays within the budget and the refunds of earlier ones.
THEOREM LimiterKeepsBudget == LimiterSpec => []PassesStayInBudget
  <1>1. LimiterInv => PassesStayInBudget
    BY DEF LimiterInv, PassesOK, PassesStayInBudget
  <1> QED BY <1>1, LimiterInvariant, PTL

-----------------------------------------------------------------------------
(* Each store implements WindowCounter.                                    *)

\* A window in which something is counted.
Running(s, k) == Counting(s, k) /\ tally[s][k] > 0

LEMMA WindowsOf ==
    ASSUME CountersOK, NEW s \in Store
    PROVE  /\ Counts(s) \in [CounterKey -> Nat] /\ ResetTimes(s) \in [CounterKey -> Nat]
           /\ \A k \in CounterKey :
                /\ Counts(s)[k] = IF Running(s, k) THEN tally[s][k] ELSE 0
                /\ ResetTimes(s)[k] = IF Running(s, k) THEN resets[s][k] ELSE 0
  BY DEF CountersOK, Counts, ResetTimes, Running

LEMMA WindowsAfter ==
    ASSUME CountersOK', NEW s \in Store
    PROVE  /\ Counts(s)' \in [CounterKey -> Nat] /\ ResetTimes(s)' \in [CounterKey -> Nat]
           /\ \A k \in CounterKey :
                /\ Counts(s)'[k] = IF Running(s, k)' THEN tally'[s][k] ELSE 0
                /\ ResetTimes(s)'[k] = IF Running(s, k)' THEN resets'[s][k] ELSE 0
  BY DEF CountersOK, Counts, ResetTimes, Running

\* A step that leaves a store alone leaves its windows alone.
LEMMA WindowsStay ==
    ASSUME NEW s \in Store, time' = time, tally'[s] = tally[s], resets'[s] = resets[s]
    PROVE  Counts(s)' = Counts(s) /\ ResetTimes(s)' = ResetTimes(s)
  BY DEF Counts, ResetTimes, Counting

LEMMA WindowsElapse ==
    ASSUME CountersOK, NEW s \in Store, ClockTicks
    PROVE  /\ time' = time + 1
           /\ Counts(s)' = [k \in CounterKey |-> IF ResetTimes(s)[k] <= time + 1 THEN 0 ELSE Counts(s)[k]]
           /\ ResetTimes(s)' = [k \in CounterKey |->
                                   IF ResetTimes(s)[k] <= time + 1 THEN 0 ELSE ResetTimes(s)[k]]
  <1>1. /\ CountersOK' /\ time' = time + 1
        /\ \A k \in CounterKey : Counting(s, k)' =>
              Counting(s, k) /\ tally'[s][k] = tally[s][k] /\ resets'[s][k] = resets[s][k]
        /\ \A k \in CounterKey : Counting(s, k) /\ ~Counting(s, k)' => resets[s][k] = time + 1
    BY TickOK
  <1>2. /\ Counts(s)' \in [CounterKey -> Nat] /\ ResetTimes(s)' \in [CounterKey -> Nat]
        /\ \A k \in CounterKey :
              /\ Counts(s)'[k] = IF Running(s, k)' THEN tally'[s][k] ELSE 0
              /\ ResetTimes(s)'[k] = IF Running(s, k)' THEN resets'[s][k] ELSE 0
    BY <1>1, WindowsAfter
  <1>3. ASSUME NEW k \in CounterKey
        PROVE  /\ Counts(s)'[k] = IF ResetTimes(s)[k] <= time + 1 THEN 0 ELSE Counts(s)[k]
               /\ ResetTimes(s)'[k] = IF ResetTimes(s)[k] <= time + 1 THEN 0 ELSE ResetTimes(s)[k]
    <2>1. /\ Counts(s)[k] = IF Running(s, k) THEN tally[s][k] ELSE 0
          /\ ResetTimes(s)[k] = IF Running(s, k) THEN resets[s][k] ELSE 0
      BY WindowsOf
    <2>2. /\ resets[s][k] \in Nat /\ tally[s][k] \in Nat /\ time \in Nat
          /\ resets'[s][k] \in Nat /\ tally'[s][k] \in Nat
      BY <1>1 DEF CountersOK
    <2> QED BY <1>1, <1>2, <2>1, <2>2 DEF Running, Counting
  <1> QED BY <1>1, <1>2, <1>3

LEMMA WindowsRefund ==
    ASSUME CountersOK, NEW s \in Store, NEW k \in CounterKey, Decrement(s, k), time' = time
    PROVE  \/ /\ Counts(s)[k] > 0
              /\ Counts(s)' = [Counts(s) EXCEPT ![k] = @ - 1]
              /\ ResetTimes(s)' = [ResetTimes(s) EXCEPT ![k] = IF Counts(s)[k] = 1 THEN 0 ELSE @]
           \/ Counts(s)' = Counts(s) /\ ResetTimes(s)' = ResetTimes(s)
  <1>1. /\ CountersOK'
        /\ \A x \in CounterKey \ {k} : tally'[s][x] = tally[s][x] /\ resets'[s][x] = resets[s][x]
        /\ Counting(s, k) => \/ tally'[s][k] = tally[s][k] - 1
                             \/ tally[s][k] = 0 /\ tally'[s][k] = 0
        /\ ~Counting(s, k) => \/ s = "redis" /\ tally'[s][k] = 0 /\ resets'[s][k] > time
                              \/ s = "memory" /\ resets'[s][k] = resets[s][k]
        /\ Counting(s, k) => Counting(s, k)'
        /\ Counting(s, k) /\ tally[s][k] > 0 => resets'[s][k] = resets[s][k]
    BY DecrementOK
  <1>2. /\ Counts(s) \in [CounterKey -> Nat] /\ ResetTimes(s) \in [CounterKey -> Nat]
        /\ \A x \in CounterKey :
              /\ Counts(s)[x] = IF Running(s, x) THEN tally[s][x] ELSE 0
              /\ ResetTimes(s)[x] = IF Running(s, x) THEN resets[s][x] ELSE 0
    BY WindowsOf
  <1>3. /\ Counts(s)' \in [CounterKey -> Nat] /\ ResetTimes(s)' \in [CounterKey -> Nat]
        /\ \A x \in CounterKey :
              /\ Counts(s)'[x] = IF Running(s, x)' THEN tally'[s][x] ELSE 0
              /\ ResetTimes(s)'[x] = IF Running(s, x)' THEN resets'[s][x] ELSE 0
    BY <1>1, WindowsAfter
  <1>4. \A x \in CounterKey \ {k} : Running(s, x)' = Running(s, x)
    BY <1>1 DEF Running, Counting
  <1>5. \A x \in CounterKey \ {k} :
            Counts(s)'[x] = Counts(s)[x] /\ ResetTimes(s)'[x] = ResetTimes(s)[x]
    BY <1>1, <1>2, <1>3, <1>4
  <1>6. /\ tally[s][k] \in Nat /\ tally'[s][k] \in Nat /\ time \in Nat
        /\ resets[s][k] \in Nat /\ resets'[s][k] \in Nat
    BY <1>1 DEF CountersOK
  <1>7. CASE Running(s, k)
    <2>1. Counts(s)[k] = tally[s][k] /\ tally[s][k] > 0 /\ ResetTimes(s)[k] = resets[s][k]
      BY <1>2, <1>7 DEF Running
    <2>2. tally'[s][k] = tally[s][k] - 1 /\ resets'[s][k] = resets[s][k] /\ Counting(s, k)'
      BY <1>1, <1>6, <1>7 DEF Running
    <2>3. Counts(s)'[k] = Counts(s)[k] - 1
      BY <1>3, <1>6, <2>1, <2>2 DEF Running
    <2>4. ResetTimes(s)'[k] = IF Counts(s)[k] = 1 THEN 0 ELSE ResetTimes(s)[k]
      BY <1>3, <1>6, <2>1, <2>2 DEF Running
    <2> QED BY <1>2, <1>3, <1>5, <2>1, <2>3, <2>4
  <1>8. CASE ~Running(s, k)
    <2>1. Counts(s)[k] = 0 /\ ResetTimes(s)[k] = 0
      BY <1>2, <1>8
    <2>2. ~Running(s, k)'
      BY <1>1, <1>6, <1>8 DEF Running, Counting
    <2>3. Counts(s)'[k] = 0 /\ ResetTimes(s)'[k] = 0
      BY <1>3, <2>2
    <2> QED BY <1>2, <1>3, <1>5, <2>1, <2>3
  <1> QED BY <1>7, <1>8

\* A count adds one to its key, in the running window or in a new one.
LEMMA RedisCounts ==
    ASSUME CountersOK, NEW k \in CounterKey, RedisIncrement(k), time' = time
    PROVE  RedisWindows!Counted(k)
  <1> DEFINE s == "redis"
  <1>0. s \in Store /\ Increment(s, k)
    BY DEF Store, Increment
  <1>1. /\ CountersOK' /\ Counting(s, k)'
        /\ tally'[s][k] = IF Counting(s, k) THEN tally[s][k] + 1 ELSE 1
    BY <1>0, IncrementOK
  <1>2. /\ \A x \in CounterKey \ {k} : tally'[s][x] = tally[s][x] /\ resets'[s][x] = resets[s][x]
        /\ Running(s, k) /\ resets[s][k] # Forever => resets'[s][k] = resets[s][k]
    BY <1>0 DEF RedisIncrement, CountersOK, Running
  <1>3. /\ tally[s][k] \in Nat /\ tally'[s][k] \in Nat /\ time \in Nat /\ time <= LastTick
        /\ resets[s][k] \in Nat /\ resets'[s][k] \in Nat
    BY <1>0, <1>1 DEF CountersOK
  <1>4. Running(s, k) => resets[s][k] <= time + Window /\ resets[s][k] # Forever
    BY <1>3, Bounds DEF CountersOK, RedisOK, Running
  <1>5. resets'[s][k] \in time + 1 .. time + Window
    <2>1. resets'[s][k] > time
      BY <1>1, <1>3 DEF Counting
    <2>2. tally'[s][k] > 0
      BY <1>1, <1>3
    <2>3. time' + Window < Forever
      BY <1>3, Bounds
    <2>4. \/ resets'[s][k] <= time' + Window
          \/ resets'[s][k] = Forever /\ tally'[s][k] = 0
      BY <1>1 DEF CountersOK, RedisOK
    <2> QED BY <1>3, <2>1, <2>2, <2>4, Bounds
  <1>6. /\ Counts(s) \in [CounterKey -> Nat] /\ ResetTimes(s) \in [CounterKey -> Nat]
        /\ \A x \in CounterKey :
              /\ Counts(s)[x] = IF Running(s, x) THEN tally[s][x] ELSE 0
              /\ ResetTimes(s)[x] = IF Running(s, x) THEN resets[s][x] ELSE 0
    BY <1>0, WindowsOf
  <1>7. /\ Counts(s)' \in [CounterKey -> Nat] /\ ResetTimes(s)' \in [CounterKey -> Nat]
        /\ \A x \in CounterKey :
              /\ Counts(s)'[x] = IF Running(s, x)' THEN tally'[s][x] ELSE 0
              /\ ResetTimes(s)'[x] = IF Running(s, x)' THEN resets'[s][x] ELSE 0
    BY <1>0, <1>1, WindowsAfter
  <1>8. \A x \in CounterKey \ {k} :
            Counts(s)'[x] = Counts(s)[x] /\ ResetTimes(s)'[x] = ResetTimes(s)[x]
    <2>1. \A x \in CounterKey \ {k} : Running(s, x)' = Running(s, x)
      BY <1>2 DEF Running, Counting
    <2> QED BY <1>2, <1>6, <1>7, <2>1
  <1>9. Counts(s)'[k] = Counts(s)[k] + 1 /\ ResetTimes(s)'[k] = resets'[s][k]
    BY <1>1, <1>3, <1>6, <1>7 DEF Running
  <1>10. /\ Counts(s)' = [Counts(s) EXCEPT ![k] = @ + 1]
         /\ ResetTimes(s)' = [ResetTimes(s) EXCEPT ![k] = resets'[s][k]]
    BY <1>6, <1>7, <1>8, <1>9
  <1>11. Counts(s)[k] > 0 => /\ ResetTimes(s)[k] = resets'[s][k]
                             /\ ResetTimes(s)[k] <= time + Window
    BY <1>2, <1>4, <1>6
  <1>12. \E end \in time + 1 .. time + Window :
            /\ Counts(s)[k] > 0 /\ ResetTimes(s)[k] \in time + 1 .. time + Window
                  => end = ResetTimes(s)[k]
            /\ Counts(s)[k] > 0 /\ ResetTimes(s)[k] > time + Window => end = time + Window
            /\ ResetTimes(s)' = [ResetTimes(s) EXCEPT ![k] = end]
    <2> WITNESS resets'[s][k] \in time + 1 .. time + Window
    <2>1. ~(Counts(s)[k] > 0 /\ ResetTimes(s)[k] > time + Window)
      BY <1>3, <1>5, <1>11, Bounds
    <2> QED BY <1>10, <1>11, <2>1
  <1> QED BY <1>10, <1>12 DEF RedisWindows!Counted

\* What a count leaves of the memory store: everything that counts, or all of it but
\* the entry that ends first, if the key is new.
LEMMA MemoryRoom ==
    ASSUME CountersOK, NEW k \in CounterKey, MemoryIncrement(k), time' = time
    PROVE  \E room \in SUBSET CounterKey :
              /\ \A x \in CounterKey \ {k} :
                    /\ x \in room => /\ tally'["memory"][x] = tally["memory"][x]
                                     /\ resets'["memory"][x] = resets["memory"][x]
                    /\ x \notin room => resets'["memory"][x] = 0
              /\ resets'["memory"][k] = IF Counting("memory", k) THEN resets["memory"][k]
                                        ELSE time + Window
              /\ \/ \A x \in CounterKey \ {k} : Counting("memory", x) => x \in room
                 \/ /\ ~Counting("memory", k)
                    /\ \E lost \in CounterKey \ {k} :
                          /\ Counting("memory", lost) /\ lost \notin room
                          /\ \A x \in CounterKey : Counting("memory", x) =>
                                resets["memory"][lost] <= resets["memory"][x]
                          /\ \A x \in CounterKey \ {k, lost} : Counting("memory", x) => x \in room
  <1> DEFINE sweep == time - lastCleanup >= CleanupInterval
             kept  == IF sweep THEN Alive(entries) ELSE entries
  <1>1. PICK room \in IF k \in kept THEN {kept} ELSE Evictions(kept) :
            /\ tally' = [tally EXCEPT !["memory"] =
                  [x \in CounterKey |-> CASE x = k -> IF k \in kept /\ Counting("memory", k)
                                                      THEN @[k] + 1 ELSE 1
                                          [] x \in room \ {k} -> @[x]
                                          [] OTHER -> 0]]
            /\ resets' = [resets EXCEPT !["memory"] =
                  [x \in CounterKey |-> CASE x = k -> IF k \in kept /\ Counting("memory", k)
                                                      THEN @[k] ELSE time + Window
                                          [] x \in room \ {k} -> @[x]
                                          [] OTHER -> 0]]
    BY DEF MemoryIncrement
  <1>2. kept \subseteq CounterKey /\ room \subseteq kept
    BY DEF CountersOK, Alive, Evictions
  <1>3. \A x \in CounterKey : Counting("memory", x) => x \in kept /\ x \in Alive(kept)
    BY DEF CountersOK, MemoryOK, Alive
  <1>4. \/ Alive(kept) \subseteq room
        \/ /\ k \notin kept
           /\ \E lost \in Alive(kept) :
                 /\ room = Alive(kept) \ {lost}
                 /\ \A x \in Alive(kept) : resets["memory"][lost] <= resets["memory"][x]
    BY DEF Evictions, Alive
  <1> HIDE DEF kept, sweep
  <1>5. /\ \A x \in CounterKey \ {k} :
              /\ x \in room => /\ tally'["memory"][x] = tally["memory"][x]
                               /\ resets'["memory"][x] = resets["memory"][x]
              /\ x \notin room => resets'["memory"][x] = 0
        /\ resets'["memory"][k] = IF Counting("memory", k) THEN resets["memory"][k] ELSE time + Window
    BY <1>1, <1>2, <1>3 DEF CountersOK, Store
  <1>6. \/ \A x \in CounterKey \ {k} : Counting("memory", x) => x \in room
        \/ /\ ~Counting("memory", k)
           /\ \E lost \in CounterKey \ {k} :
                 /\ Counting("memory", lost) /\ lost \notin room
                 /\ \A x \in CounterKey : Counting("memory", x) =>
                       resets["memory"][lost] <= resets["memory"][x]
                 /\ \A x \in CounterKey \ {k, lost} : Counting("memory", x) => x \in room
    <2>1. CASE Alive(kept) \subseteq room
      BY <1>3, <2>1
    <2>2. CASE k \notin kept /\ \E lost \in Alive(kept) :
                 /\ room = Alive(kept) \ {lost}
                 /\ \A x \in Alive(kept) : resets["memory"][lost] <= resets["memory"][x]
      <3>1. PICK lost \in Alive(kept) :
                 /\ room = Alive(kept) \ {lost}
                 /\ \A x \in Alive(kept) : resets["memory"][lost] <= resets["memory"][x]
        BY <2>2
      <3>2. lost \in kept /\ Counting("memory", lost)
        BY DEF Alive
      <3>3. lost \in CounterKey \ {k} /\ lost \notin room
        BY <1>2, <2>2, <3>1, <3>2
      <3> QED BY <1>3, <2>2, <3>1, <3>2, <3>3
    <2> QED BY <1>4, <2>1, <2>2
  <1> QED BY <1>2, <1>5, <1>6

LEMMA MemoryCounts ==
    ASSUME CountersOK, NEW k \in CounterKey, MemoryIncrement(k), time' = time
    PROVE  \/ MemoryWindows!Counted(k)
           \/ \E lost \in CounterKey : k # lost /\ MemoryWindows!Displaced(k, lost)
  <1> DEFINE s == "memory"
  <1>0. s \in Store /\ Increment(s, k)
    BY DEF Store, Increment
  <1>1. /\ CountersOK' /\ Counting(s, k)'
        /\ tally'[s][k] = IF Counting(s, k) THEN tally[s][k] + 1 ELSE 1
    BY <1>0, IncrementOK
  <1>2. PICK room \in SUBSET CounterKey :
              /\ \A x \in CounterKey \ {k} :
                    /\ x \in room => tally'[s][x] = tally[s][x] /\ resets'[s][x] = resets[s][x]
                    /\ x \notin room => resets'[s][x] = 0
              /\ resets'[s][k] = IF Counting(s, k) THEN resets[s][k] ELSE time + Window
              /\ \/ \A x \in CounterKey \ {k} : Counting(s, x) => x \in room
                 \/ /\ ~Counting(s, k)
                    /\ \E lost \in CounterKey \ {k} :
                          /\ Counting(s, lost) /\ lost \notin room
                          /\ \A x \in CounterKey : Counting(s, x) => resets[s][lost] <= resets[s][x]
                          /\ \A x \in CounterKey \ {k, lost} : Counting(s, x) => x \in room
    BY MemoryRoom
  <1>3. /\ time \in Nat /\ time' = time
        /\ \A x \in CounterKey : /\ tally[s][x] \in Nat /\ tally'[s][x] \in Nat
                                 /\ resets[s][x] \in Nat /\ resets'[s][x] \in Nat
    BY <1>0, <1>1 DEF CountersOK
  <1>4. resets'[s][k] \in time + 1 .. time + Window
    <2>1. resets[s][k] <= time + Window
      BY DEF CountersOK, MemoryOK
    <2> QED BY <1>2, <1>3, <2>1, Bounds DEF Counting
  <1>5. /\ Counts(s) \in [CounterKey -> Nat] /\ ResetTimes(s) \in [CounterKey -> Nat]
        /\ \A x \in CounterKey :
              /\ Counts(s)[x] = IF Running(s, x) THEN tally[s][x] ELSE 0
              /\ ResetTimes(s)[x] = IF Running(s, x) THEN resets[s][x] ELSE 0
    BY <1>0, WindowsOf
  <1>6. /\ Counts(s)' \in [CounterKey -> Nat] /\ ResetTimes(s)' \in [CounterKey -> Nat]
        /\ \A x \in CounterKey :
              /\ Counts(s)'[x] = IF Running(s, x)' THEN tally'[s][x] ELSE 0
              /\ ResetTimes(s)'[x] = IF Running(s, x)' THEN resets'[s][x] ELSE 0
    BY <1>0, <1>1, WindowsAfter
  <1>7. ASSUME NEW x \in CounterKey \ {k}, Running(s, x) => x \in room
        PROVE  Counts(s)'[x] = Counts(s)[x] /\ ResetTimes(s)'[x] = ResetTimes(s)[x]
    <2>1. Running(s, x)' = Running(s, x)
      BY <1>2, <1>3, <1>7 DEF Running, Counting
    <2> QED BY <1>2, <1>5, <1>6, <1>7, <2>1
  <1>8. Counts(s)'[k] = Counts(s)[k] + 1 /\ ResetTimes(s)'[k] = resets'[s][k]
    BY <1>1, <1>3, <1>5, <1>6 DEF Running
  <1>9. CASE \A x \in CounterKey \ {k} : Running(s, x) => x \in room
    <2>1. /\ Counts(s)' = [Counts(s) EXCEPT ![k] = @ + 1]
          /\ ResetTimes(s)' = [ResetTimes(s) EXCEPT ![k] = resets'[s][k]]
      BY <1>5, <1>6, <1>7, <1>8, <1>9
    <2>2. Counts(s)[k] > 0 => ResetTimes(s)[k] = resets'[s][k]
      BY <1>2, <1>5 DEF Running
    <2>3. \E end \in time + 1 .. time + Window :
              /\ Counts(s)[k] > 0 /\ ResetTimes(s)[k] \in time + 1 .. time + Window
                    => end = ResetTimes(s)[k]
              /\ Counts(s)[k] > 0 /\ ResetTimes(s)[k] > time + Window => end = time + Window
              /\ ResetTimes(s)' = [ResetTimes(s) EXCEPT ![k] = end]
      <3> WITNESS resets'[s][k] \in time + 1 .. time + Window
      <3>1. ~(Counts(s)[k] > 0 /\ ResetTimes(s)[k] > time + Window)
        BY <1>3, <1>4, <2>2, Bounds
      <3> QED BY <2>1, <2>2, <3>1
    <2> QED BY <1>3, <2>1, <2>3 DEF MemoryWindows!Counted
  <1>10. CASE \E x \in CounterKey \ {k} : Running(s, x) /\ x \notin room
    <2>1. ~Counting(s, k)
      BY <1>2, <1>10 DEF Running
    <2>2. PICK lost \in CounterKey \ {k} :
              /\ Counting(s, lost) /\ lost \notin room
              /\ \A x \in CounterKey : Counting(s, x) => resets[s][lost] <= resets[s][x]
              /\ \A x \in CounterKey \ {k, lost} : Counting(s, x) => x \in room
      BY <1>2, <1>10 DEF Running
    <2>3. Running(s, lost)
      BY <1>10, <2>2 DEF Running
    <2>4. Counts(s)[k] = 0 /\ Counts(s)'[k] = 1
      BY <1>5, <1>8, <2>1 DEF Running
    <2>5. Counts(s)[lost] > 0 /\ Counts(s)'[lost] = 0 /\ ResetTimes(s)'[lost] = 0
      BY <1>2, <1>3, <1>5, <1>6, <2>2, <2>3 DEF Running, Counting
    <2>6. \A x \in CounterKey \ {k, lost} :
              Counts(s)'[x] = Counts(s)[x] /\ ResetTimes(s)'[x] = ResetTimes(s)[x]
      BY <1>7, <2>2 DEF Running
    <2>7. /\ Counts(s)' = [Counts(s) EXCEPT ![k] = 1, ![lost] = 0]
          /\ ResetTimes(s)' = [ResetTimes(s) EXCEPT ![k] = resets'[s][k], ![lost] = 0]
      BY <1>5, <1>6, <1>8, <2>4, <2>5, <2>6
    <2>8. \A x \in CounterKey : Counts(s)[x] > 0 => ResetTimes(s)[lost] <= ResetTimes(s)[x]
      BY <1>5, <2>2, <2>3 DEF Running
    <2>9. MemoryWindows!Displaced(k, lost)
      BY <1>3, <1>4, <2>4, <2>5, <2>7, <2>8 DEF MemoryWindows!Displaced
    <2> QED BY <2>2, <2>9
  <1> QED BY <1>9, <1>10

LEMMA InitWindows == LimiterInit => RedisWindows!CounterInit /\ MemoryWindows!CounterInit
  <1> SUFFICES ASSUME LimiterInit
               PROVE  RedisWindows!CounterInit /\ MemoryWindows!CounterInit
    OBVIOUS
  <1>1. CountersOK
    BY LimiterInitInv DEF LimiterInv
  <1>2. \A s \in Store, k \in CounterKey : ~Running(s, k)
    BY DEF LimiterInit, Running
  <1>3. ASSUME NEW s \in Store
        PROVE  /\ Counts(s) \in [CounterKey -> Nat] /\ ResetTimes(s) \in [CounterKey -> Nat]
               /\ \A k \in CounterKey : Counts(s)[k] = 0 /\ ResetTimes(s)[k] = 0
    BY <1>1, <1>2, WindowsOf
  <1>4. time \in Nat /\ "redis" \in Store /\ "memory" \in Store
    BY <1>1 DEF CountersOK, Store
  <1>5. RedisWindows!CounterInit
    BY <1>3, <1>4 DEF RedisWindows!CounterInit
  <1>6. MemoryWindows!CounterInit
    BY <1>3, <1>4 DEF MemoryWindows!CounterInit
  <1> QED BY <1>5, <1>6

\* What a step does to the counters of the stores: a count, a refund, a tick or nothing.
LEMMA StoreSteps ==
    ASSUME LimiterInv, [LimiterNext]_limiterVars
    PROVE  \/ ClockTicks
           \/ time' = time /\ tally' = tally /\ resets' = resets
           \/ /\ time' = time
              /\ \E s \in Store, k \in CounterKey : Increment(s, k) \/ Decrement(s, k)
  <1>1. CASE \/ RedisSwitches \/ UNCHANGED limiterVars
             \/ \E c \in Inflight :
                   \/ \E client \in Client, route \in Route : CallArrives(c, client, route)
                   \/ FailClosed(c) \/ CallEnds(c)
                   \/ \E skipped \in BOOLEAN : Respond(c, skipped)
                   \/ \E d \in request[c].due : RefundLost(c, d)
    BY <1>1 DEF RedisSwitches, limiterVars, counters, CallArrives, FailClosed, CallEnds,
                Respond, RefundLost
  <1>2. ASSUME NEW c \in Inflight, CountCall(c)
        PROVE  time' = time /\ \E s \in Store, k \in CounterKey : Increment(s, k)
    <2>1. request[c].key \in CounterKey /\ ActiveStore \in Store
      BY <1>2 DEF LimiterInv, CallsOK, CallOK, CountCall, ActiveStore, Store, Call
    <2>2. time' = time /\ Increment(ActiveStore, request[c].key)
      BY <1>2 DEF CountCall
    <2> QED BY <2>1, <2>2
  <1>3. ASSUME NEW c \in Inflight, NEW d \in request[c].due, Refund(c, d)
        PROVE  time' = time /\ \E s \in Store, k \in CounterKey : Decrement(s, k)
    <2>1. request[c].key \in CounterKey /\ d.store \in Store
      BY <1>3 DEF LimiterInv, CallsOK, CallOK, Refund, Call, Due
    <2>2. time' = time /\ Decrement(d.store, request[c].key)
      BY <1>3 DEF Refund
    <2> QED BY <2>1, <2>2
  <1> QED BY <1>1, <1>2, <1>3 DEF LimiterNext

LEMMA RedisStep ==
    LimiterInv /\ [LimiterNext]_limiterVars
        => [RedisWindows!CounterNext]_(RedisWindows!counterVars)
  <1> SUFFICES ASSUME LimiterInv, [LimiterNext]_limiterVars
               PROVE  RedisWindows!CounterNext \/ UNCHANGED RedisWindows!counterVars
    OBVIOUS
  <1>0. CountersOK /\ "redis" \in Store
    BY DEF LimiterInv, Store
  <1>1. CASE ClockTicks
    BY <1>0, <1>1, WindowsElapse
    DEF RedisWindows!CounterNext, RedisWindows!Elapsed
  <1>2. CASE time' = time /\ tally' = tally /\ resets' = resets
    BY <1>0, <1>2, WindowsStay DEF RedisWindows!counterVars
  <1>3. ASSUME time' = time, NEW s \in Store, NEW k \in CounterKey, Increment(s, k)
        PROVE  RedisWindows!CounterNext \/ UNCHANGED RedisWindows!counterVars
    <2>1. CASE s = "redis"
      <3>1. RedisWindows!Counted(k)
        BY <1>0, <1>3, <2>1, RedisCounts DEF Increment
      <3> QED BY <3>1 DEF RedisWindows!CounterNext
    <2>2. CASE s = "memory"
      <3>1. tally'["redis"] = tally["redis"] /\ resets'["redis"] = resets["redis"]
        BY <1>0, <1>3, <2>2, IncrementOK DEF Apart
      <3> QED BY <1>0, <1>3, <3>1, WindowsStay DEF RedisWindows!counterVars
    <2> QED BY <2>1, <2>2 DEF Store
  <1>4. ASSUME time' = time, NEW s \in Store, NEW k \in CounterKey, Decrement(s, k)
        PROVE  RedisWindows!CounterNext \/ UNCHANGED RedisWindows!counterVars
    <2>1. CASE s = "redis"
      BY <1>0, <1>4, <2>1, WindowsRefund
      DEF RedisWindows!CounterNext, RedisWindows!Refunded, RedisWindows!counterVars
    <2>2. CASE s = "memory"
      <3>1. tally'["redis"] = tally["redis"] /\ resets'["redis"] = resets["redis"]
        BY <1>0, <1>4, <2>2, DecrementOK DEF Apart
      <3> QED BY <1>0, <1>4, <3>1, WindowsStay DEF RedisWindows!counterVars
    <2> QED BY <2>1, <2>2 DEF Store
  <1> QED BY <1>1, <1>2, <1>3, <1>4, StoreSteps

LEMMA MemoryStep ==
    LimiterInv /\ [LimiterNext]_limiterVars
        => [MemoryWindows!CounterNext]_(MemoryWindows!counterVars)
  <1> SUFFICES ASSUME LimiterInv, [LimiterNext]_limiterVars
               PROVE  MemoryWindows!CounterNext \/ UNCHANGED MemoryWindows!counterVars
    OBVIOUS
  <1>0. CountersOK /\ "memory" \in Store
    BY DEF LimiterInv, Store
  <1>1. CASE ClockTicks
    BY <1>0, <1>1, WindowsElapse
    DEF MemoryWindows!CounterNext, MemoryWindows!Elapsed
  <1>2. CASE time' = time /\ tally' = tally /\ resets' = resets
    BY <1>0, <1>2, WindowsStay DEF MemoryWindows!counterVars
  <1>3. ASSUME time' = time, NEW s \in Store, NEW k \in CounterKey, Increment(s, k)
        PROVE  MemoryWindows!CounterNext \/ UNCHANGED MemoryWindows!counterVars
    <2>1. CASE s = "memory"
      <3>1. \/ MemoryWindows!Counted(k)
            \/ \E lost \in CounterKey : k # lost /\ MemoryWindows!Displaced(k, lost)
        BY <1>0, <1>3, <2>1, MemoryCounts DEF Increment
      <3> QED BY <3>1 DEF MemoryWindows!CounterNext
    <2>2. CASE s = "redis"
      <3>1. tally'["memory"] = tally["memory"] /\ resets'["memory"] = resets["memory"]
        BY <1>0, <1>3, <2>2, IncrementOK DEF Apart
      <3> QED BY <1>0, <1>3, <3>1, WindowsStay DEF MemoryWindows!counterVars
    <2> QED BY <2>1, <2>2 DEF Store
  <1>4. ASSUME time' = time, NEW s \in Store, NEW k \in CounterKey, Decrement(s, k)
        PROVE  MemoryWindows!CounterNext \/ UNCHANGED MemoryWindows!counterVars
    <2>1. CASE s = "memory"
      BY <1>0, <1>4, <2>1, WindowsRefund
      DEF MemoryWindows!CounterNext, MemoryWindows!Refunded, MemoryWindows!counterVars
    <2>2. CASE s = "redis"
      <3>1. tally'["memory"] = tally["memory"] /\ resets'["memory"] = resets["memory"]
        BY <1>0, <1>4, <2>2, DecrementOK DEF Apart
      <3> QED BY <1>0, <1>4, <3>1, WindowsStay DEF MemoryWindows!counterVars
    <2> QED BY <2>1, <2>2 DEF Store
  <1> QED BY <1>1, <1>2, <1>3, <1>4, StoreSteps

\* redisRateLimitStore.ts:16,36 and memoryRateLimitStore.ts:14 - either store implements
\* the fixed windows of WindowCounter, whatever the clients, budgets and sizes.
THEOREM StoresKeepWindows == LimiterSpec => KeepsWindows
  <1>1. LimiterSpec => RedisWindows!CounterSpec
    BY InitWindows, RedisStep, LimiterInvariant, PTL DEF LimiterSpec, RedisWindows!CounterSpec
  <1>2. LimiterSpec => MemoryWindows!CounterSpec
    BY InitWindows, MemoryStep, LimiterInvariant, PTL DEF LimiterSpec, MemoryWindows!CounterSpec
  <1> QED BY <1>1, <1>2 DEF KeepsWindows
=============================================================================
