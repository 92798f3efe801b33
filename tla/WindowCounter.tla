---------------------------- MODULE WindowCounter ----------------------------
(***************************************************************************)
(* What a rate-limit store promises (src/apps/server/src/api/rate-limit/   *)
(* rateLimitStoreTypes.ts): fixed-window counters per key, which count,    *)
(* refund without ever going below zero, and end with their window.        *)
(***************************************************************************)
EXTENDS Naturals

CONSTANTS
    CounterKey,  \* what is counted
    Window       \* windowMs, in ticks, at least one

VARIABLES
    time,   \* Date.now(), in ticks
    count,  \* requests counted in the running window of each key
    ends    \* when that window ends; 0 if nothing is counted

counterVars == <<time, count, ends>>

CounterInit ==
    /\ time \in Nat
    /\ count \in [CounterKey -> Nat] /\ ends \in [CounterKey -> Nat]
    /\ \A k \in CounterKey : count[k] = 0 <=> ends[k] = 0

\* A key with nothing counted may already have a window, never one that is longer
\* than a new one; a window of more than that (none is known) becomes a new one.
Counted(k) ==
    /\ count' = [count EXCEPT ![k] = @ + 1]
    /\ \E end \in time + 1 .. time + Window :
          /\ count[k] > 0 /\ ends[k] \in time + 1 .. time + Window => end = ends[k]
          /\ count[k] > 0 /\ ends[k] > time + Window => end = time + Window
          /\ ends' = [ends EXCEPT ![k] = end]
    /\ UNCHANGED time

Refunded(k) ==
    /\ count[k] > 0
    /\ count' = [count EXCEPT ![k] = @ - 1]
    /\ ends' = [ends EXCEPT ![k] = IF count[k] = 1 THEN 0 ELSE @]
    /\ UNCHANGED time

\* A full store makes room for a new key: it forgets the window that ends first.
Displaced(k, lost) ==
    /\ count[k] = 0 /\ count[lost] > 0
    /\ \A x \in CounterKey : count[x] > 0 => ends[lost] <= ends[x]
    /\ count' = [count EXCEPT ![k] = 1, ![lost] = 0]
    /\ \E end \in time + 1 .. time + Window :
          ends' = [ends EXCEPT ![k] = end, ![lost] = 0]
    /\ UNCHANGED time

Elapsed ==
    LET over == {k \in CounterKey : ends[k] <= time + 1} IN
    /\ time' = time + 1
    /\ count' = [k \in CounterKey |-> IF k \in over THEN 0 ELSE count[k]]
    /\ ends' = [k \in CounterKey |-> IF k \in over THEN 0 ELSE ends[k]]

CounterNext ==
    \/ Elapsed
    \/ \E k \in CounterKey : Counted(k) \/ Refunded(k)
    \/ \E k, lost \in CounterKey : k # lost /\ Displaced(k, lost)

CounterSpec == CounterInit /\ [][CounterNext]_counterVars
=============================================================================
