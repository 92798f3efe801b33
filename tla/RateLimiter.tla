----------------------------- MODULE RateLimiter -----------------------------
(***************************************************************************)
(* Rate limiting of the API server (src/apps/server/src/api/rate-limit):   *)
(* the chain of limiters a request passes, the counters they share in      *)
(* Redis or in memory, and the refund of a request that succeeded, made    *)
(* when its response is finished - perhaps in a later window.              *)
(*                                                                         *)
(* A counter belongs to a key, and the key is made of the client and the   *)
(* route (rateLimitKeys): limiters of one route that use the same parts    *)
(* share the counter.  Every limiter here has the same budget and window.  *)
(***************************************************************************)
EXTENDS Naturals, Sequences, FiniteSets

CONSTANTS
    Client,          \* address, user and device, as the key generators see them
    Inflight,            \* requests that may be in progress at once
    Budget,          \* maxRequests
    Window,          \* windowMs, in ticks
    CleanupInterval, \* CLEANUP_INTERVAL_MS, in ticks
    MaxEntries,      \* maxKeys of a memory store
    LastTick,        \* bound: ticks in one behaviour
    MaxCalls         \* bound: requests in one behaviour

ASSUME LimiterAssumption ==
    /\ {Budget, LastTick, MaxCalls} \subseteq Nat
    /\ {Window, CleanupInterval, MaxEntries} \subseteq Nat \ {0}

Route == {"sensitive", "refresh", "write"}

CounterKey == Client \X Route

\* The limiters of a route, in order.
Limiters(route) ==
    CASE route = "sensitive" -> <<"mfaVerification", "sensitiveOperations">>
      [] route = "refresh"   -> <<"sessionRefresh">>
      [] route = "write"     -> <<"authenticatedWrite">>

Critical(limiter) == limiter # "authenticatedWrite"
SkipsSuccess(limiter) == limiter \in {"mfaVerification", "sessionRefresh"}

Store == {"redis", "memory"}

VARIABLES
    time,         \* Date.now(), in ticks
    kind,         \* the store the configuration selects
    redisUp,      \* Redis answers
    tally,        \* the count of each key in each store
    resets,       \* when it ends
    entries,      \* the keys in the map of the memory store
    lastCleanup,  \* of the memory store
    request,      \* the local variables of every request
    calls,        \* how many there were
    charged,      \* history: passes of the running window that were not refunded
    credit        \* history: refunds in the running window of passes of an earlier one

counters    == <<tally, resets, entries, lastCleanup>>
passes      == <<charged, credit>>
limiterVars == <<time, kind, redisUp, counters, request, calls, passes>>

\* An expiry that is never reached: a Redis key that has lost its time to live.
Forever == LastTick + Window + 1

Counting(s, k) == resets[s][k] > time

Off == [pc |-> "off", key |-> <<>>, left |-> <<>>, due |-> {}]

LimiterInit ==
    /\ time = 0 /\ kind \in Store /\ redisUp = TRUE
    /\ tally = [s \in Store |-> [k \in CounterKey |-> 0]]
    /\ \/ resets = [s \in Store |-> [k \in CounterKey |-> 0]]
       \* an orphan of an older deployment
       \/ \E o \in CounterKey : resets = [s \in Store |-> [k \in CounterKey |->
                                            IF s = "redis" /\ k = o THEN Forever ELSE 0]]
    /\ entries = {} /\ lastCleanup = 0
    /\ request = [c \in Inflight |-> Off] /\ calls = 0
    /\ charged = [s \in Store |-> [k \in CounterKey |-> 0]]
    /\ credit = [s \in Store |-> [k \in CounterKey |-> 0]]

-----------------------------------------------------------------------------
(* The stores.  Every operation is atomic: a Redis script, or JavaScript   *)
(* that does not wait.                                                     *)

\* INCR; a first count, and a key without expiry, get a whole window.
\* Mutant: the window slides with every request.
SlidingIncrement(k) ==
    /\ tally' = [tally EXCEPT !["redis"][k] = IF Counting("redis", k) THEN @ + 1 ELSE 1]
    /\ resets' = [resets EXCEPT !["redis"][k] = time + Window]
    /\ UNCHANGED <<entries, lastCleanup>>

RedisIncrement(k) ==
    LET current == IF Counting("redis", k) THEN tally["redis"][k] + 1 ELSE 1 IN
    /\ tally' = [tally EXCEPT !["redis"][k] = current]
    /\ resets' = [resets EXCEPT !["redis"][k] =
                    IF current = 1 \/ @ = Forever THEN time + Window ELSE @]
    /\ UNCHANGED <<entries, lastCleanup>>

\* DECR; below zero it becomes a counter of zero with a window of its own.
RedisDecrement(k) ==
    /\ IF Counting("redis", k) /\ tally["redis"][k] > 0
       THEN tally' = [tally EXCEPT !["redis"][k] = @ - 1] /\ UNCHANGED resets
       ELSE /\ tally' = [tally EXCEPT !["redis"][k] = 0]
            /\ resets' = [resets EXCEPT !["redis"][k] = time + Window]
    /\ UNCHANGED <<entries, lastCleanup>>

Alive(keys) == {x \in keys : Counting("memory", x)}

\* What evictIfFull may leave: expired entries go first, then the one that ends soonest.
Evictions(keys) ==
    IF Cardinality(keys) < MaxEntries THEN {keys}
    ELSE IF Cardinality(Alive(keys)) < MaxEntries THEN {Alive(keys)}
    ELSE {Alive(keys) \ {x} : x \in {y \in Alive(keys) :
             \A z \in Alive(keys) : resets["memory"][y] <= resets["memory"][z]}}

MemoryIncrement(k) ==
    LET sweep == time - lastCleanup >= CleanupInterval
        kept  == IF sweep THEN Alive(entries) ELSE entries
    IN  /\ lastCleanup' = IF sweep THEN time ELSE lastCleanup
        /\ \E room \in IF k \in kept THEN {kept} ELSE Evictions(kept) :
              /\ entries' = room \cup {k}
              /\ tally' = [tally EXCEPT !["memory"] =
                    [x \in CounterKey |-> CASE x = k -> IF k \in kept /\ Counting("memory", k)
                                                        THEN @[k] + 1 ELSE 1
                                            [] x \in room \ {k} -> @[x]
                                            [] OTHER -> 0]]
              /\ resets' = [resets EXCEPT !["memory"] =
                    [x \in CounterKey |-> CASE x = k -> IF k \in kept /\ Counting("memory", k)
                                                        THEN @[k] ELSE time + Window
                                            [] x \in room \ {k} -> @[x]
                                            [] OTHER -> 0]]

MemoryDecrement(k) ==
    /\ tally' = [tally EXCEPT !["memory"][k] = IF k \in entries /\ @ > 0 THEN @ - 1 ELSE @]
    /\ UNCHANGED <<resets, entries, lastCleanup>>

Increment(s, k) ==
    \/ s = "redis" /\ RedisIncrement(k)
    \/ s = "memory" /\ MemoryIncrement(k)

Decrement(s, k) ==
    \/ s = "redis" /\ RedisDecrement(k)
    \/ s = "memory" /\ MemoryDecrement(k)

-----------------------------------------------------------------------------
(* The windows, for the properties.                                        *)

\* A window of s begins for every key whose entry is new or was taken away.
Begun(s) == {k \in CounterKey : IF Counting(s, k) THEN resets'[s][k] = 0
                                ELSE resets'[s][k] > time}

NewWindows(s, old) ==
    [old EXCEPT ![s] = [k \in CounterKey |-> IF k \in Begun(s) THEN 0 ELSE @[k]]]

\* A refund that is due to the window before is late.
Aged(s, old) ==
    [c \in Inflight |-> IF old[c].key \notin Begun(s) THEN old[c] ELSE
        [old[c] EXCEPT !.due = {IF d.store = s THEN [d EXCEPT !.late = TRUE] ELSE d : d \in @}]]

-----------------------------------------------------------------------------
(* A request.                                                              *)

CallArrives(c, client, route) ==
    /\ request[c].pc = "off" /\ calls < MaxCalls
    /\ calls' = calls + 1
    /\ request' = [request EXCEPT ![c] = [Off EXCEPT !.pc = "limit", !.key = <<client, route>>,
                                               !.left = Limiters(route)]]
    /\ UNCHANGED <<time, kind, redisUp, counters, passes>>

\* The store that counts: without Redis, a limiter that is not critical counts in memory.
ActiveStore == IF kind = "redis" /\ redisUp THEN "redis" ELSE "memory"

\* Mutant: one request too many.
ExceededLate(n) == n > Budget + 1
Exceeded(n) == n > Budget

\* The next limiter of the chain counts the request, and lets it pass or not.
CountCall(c) ==
    LET x == request[c]
        k == x.key
        s == ActiveStore
    IN  /\ x.pc = "limit"
        /\ kind = "redis" /\ ~redisUp => ~Critical(Head(x.left))
        /\ Increment(s, k)
        /\ credit' = NewWindows(s, credit)
        /\ IF Exceeded(tally'[s][k])
           THEN /\ request' = [Aged(s, request) EXCEPT ![c].pc = "finish", ![c].due = {}]
                /\ charged' = NewWindows(s, charged)
           ELSE /\ request' = [Aged(s, request) EXCEPT
                      ![c].left = Tail(@),
                      ![c].pc = IF Len(x.left) = 1 THEN "handle" ELSE "limit",
                      ![c].due = IF SkipsSuccess(Head(x.left))
                                 THEN @ \cup {[store |-> s, late |-> FALSE]} ELSE @]
                /\ charged' = [NewWindows(s, charged) EXCEPT ![s][k] = @ + 1]
        /\ UNCHANGED <<time, kind, redisUp, calls>>

\* A critical limiter whose store is away answers 503.
FailClosed(c) ==
    /\ request[c].pc = "limit" /\ Critical(Head(request[c].left))
    /\ kind = "redis" /\ ~redisUp
    /\ request' = [request EXCEPT ![c].pc = "finish", ![c].due = {}]
    /\ UNCHANGED <<time, kind, redisUp, counters, calls, passes>>

\* The response is finished: a successful one (or one the limiter's skipResponse
\* names) is to be refunded.
Respond(c, skipped) ==
    /\ request[c].pc = "handle"
    /\ request' = [request EXCEPT ![c].pc = "finish", ![c].due = IF skipped THEN @ ELSE {}]
    /\ UNCHANGED <<time, kind, redisUp, counters, calls, passes>>

Refund(c, d) ==
    LET k == request[c].key
        s == d.store
    IN  /\ request[c].pc = "finish" /\ d \in request[c].due
        /\ s = "redis" => redisUp
        /\ Decrement(s, k)
        /\ request' = Aged(s, [request EXCEPT ![c].due = @ \ {d}])
        /\ IF ~Counting(s, k)
           THEN charged' = NewWindows(s, charged) /\ credit' = NewWindows(s, credit)
           ELSE IF ~d.late
           THEN charged' = [charged EXCEPT ![s][k] = @ - 1] /\ UNCHANGED credit
           ELSE credit' = [credit EXCEPT ![s][k] = @ + 1] /\ UNCHANGED charged
        /\ UNCHANGED <<time, kind, redisUp, calls>>

\* A refund whose store is away is logged and forgotten.
RefundLost(c, d) ==
    /\ request[c].pc = "finish" /\ d \in request[c].due
    /\ d.store = "redis" /\ ~redisUp
    /\ request' = [request EXCEPT ![c].due = @ \ {d}]
    /\ UNCHANGED <<time, kind, redisUp, counters, calls, passes>>

CallEnds(c) ==
    /\ request[c].pc = "finish" /\ request[c].due = {}
    /\ request' = [request EXCEPT ![c] = Off]
    /\ UNCHANGED <<time, kind, redisUp, counters, calls, passes>>

RedisSwitches ==
    /\ kind = "redis"
    /\ redisUp' = ~redisUp
    /\ UNCHANGED <<time, kind, counters, request, calls, passes>>

\* Redis drops a key whose time is over.
ClockTicks ==
    LET over == {k \in CounterKey : resets["redis"][k] <= time'} IN
    /\ time < LastTick
    /\ time' = time + 1
    /\ tally' = [tally EXCEPT !["redis"] = [k \in CounterKey |-> IF k \in over THEN 0 ELSE @[k]]]
    /\ resets' = [resets EXCEPT !["redis"] = [k \in CounterKey |-> IF k \in over THEN 0 ELSE @[k]]]
    /\ UNCHANGED <<kind, redisUp, entries, lastCleanup, request, calls, passes>>

LimiterNext ==
    \/ ClockTicks \/ RedisSwitches
    \/ \E c \in Inflight :
          \/ \E client \in Client, route \in Route : CallArrives(c, client, route)
          \/ CountCall(c) \/ FailClosed(c) \/ CallEnds(c)
          \/ \E skipped \in BOOLEAN : Respond(c, skipped)
          \/ \E d \in request[c].due : Refund(c, d) \/ RefundLost(c, d)

LimiterSpec == LimiterInit /\ [][LimiterNext]_limiterVars

-----------------------------------------------------------------------------
LimiterTypeOK ==
    /\ time \in 0..LastTick /\ kind \in Store /\ redisUp \in BOOLEAN
    /\ tally \in [Store -> [CounterKey -> Nat]] /\ resets \in [Store -> [CounterKey -> 0..Forever]]
    /\ entries \subseteq CounterKey /\ lastCleanup \in 0..LastTick
    /\ \A c \in Inflight : request[c].pc \in {"off", "limit", "handle", "finish"}

\* createRateLimiter.ts:106 - refunds that arrive late, in a window that has begun
\* since, after an eviction or from the other store, never open the gate wider than
\* by themselves: what passed in a window and was not refunded stays within the
\* budget and the refunds that came from earlier windows.
PassesStayInBudget ==
    \A s \in Store, k \in CounterKey :
        Counting(s, k) => charged[s][k] <= Budget + credit[s][k]

\* rateLimitStoreTypes.ts:9 - the count is the "number of requests observed in the
\* current window for the key": a client's first request on a route is counted as one.
RequestsCountOnce ==
    \A s \in Store, k \in CounterKey : Counting(s, k) => tally[s][k] <= calls

\* Each store keeps the promise of WindowCounter.
Counts(s) == [k \in CounterKey |-> IF Counting(s, k) THEN tally[s][k] ELSE 0]
ResetTimes(s) == [k \in CounterKey |-> IF Counting(s, k) /\ tally[s][k] > 0 THEN resets[s][k] ELSE 0]

RedisWindows  == INSTANCE WindowCounter WITH count <- Counts("redis"), ends <- ResetTimes("redis")
MemoryWindows == INSTANCE WindowCounter WITH count <- Counts("memory"), ends <- ResetTimes("memory")

\* redisRateLimitStore.ts:16,36 and memoryRateLimitStore.ts:14 - either store counts in
\* fixed windows, anchored to the first request; refunds on expired keys and keys that lost
\* their expiry included, and though the memory store forgets windows when it is full.
KeepsWindows == RedisWindows!CounterSpec /\ MemoryWindows!CounterSpec
=============================================================================
