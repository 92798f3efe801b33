----------------------------- MODULE PgpBridge -----------------------------
(***************************************************************************)
(* The calls of the PurrivacyApp mobile app to its PGP engine              *)
(* (src/apps/mobile/src: services/pgpCryptoService.ts,                     *)
(* shared/hooks/useHiddenPgpExecutor.ts, useWebViewPGP.ts,                 *)
(* components/HiddenPGPWebView.tsx).                                       *)
(*                                                                         *)
(* The engine runs in a hidden WebView.  A call is injected into the page  *)
(* under a number and answered by a message that carries the number; most  *)
(* calls are preceded by pings that see whether the page is alive.  The    *)
(* page is loaded anew when the user signs out, may die at any moment, and *)
(* every wait has a timer.                                                 *)
(***************************************************************************)
EXTENDS Naturals, FiniteSets

CONSTANTS
    PgpCall,   \* the calls of pgpCryptoService.execute in a behaviour
    Attempts,  \* pings of one health check (4 in the code)
    MaxLoads   \* bound: how often the page reloads, dies or unmounts

ASSUME BridgeAssumption == Attempts \in Nat \ {0} /\ MaxLoads \in Nat

VARIABLES
    page,       \* the WebView: "none", "loading", "up" or "dead"
    executor,   \* isReady: pgpCryptoService has an executor
    opId,       \* the number of the next message
    pending,    \* the messages that wait for an answer, by number
    injected,   \* messages whose answer has not reached the app: [id, for]
    pgpCall,    \* the local state of every call
    loads

bridgeVars == <<page, executor, opId, pending, injected, pgpCall, loads>>

Purpose == {"ping", "op"}
Asker == [call : PgpCall, what : Purpose]
Uncalled == [pc |-> "idle", attempt |-> 0, id |-> 0, answer |-> {}]
Settled == {"done", "failed"}

BridgeInit ==
    /\ page = "none" /\ executor = FALSE
    /\ opId = 0 /\ pending = {} /\ injected = {}
    /\ pgpCall = [c \in PgpCall |-> Uncalled]
    /\ loads = 0

-----------------------------------------------------------------------------
(* The steps of one call.                                                  *)

Stands(c, pc) == pgpCall[c].pc = pc
Fail(t) == [t EXCEPT !.pc = "failed"]

\* A ping that failed: the next one follows after a pause, and the last one has the
\* service drop its executor and wait for another.
MissedPing(t) == [t EXCEPT !.pc = IF t.attempt = Attempts THEN "unready" ELSE "pause"]
Drops(t) == t.attempt = Attempts

\* execute: the operations of a file session skip the pings.
Execute(c, session) ==
    /\ Stands(c, "idle")
    /\ pgpCall' = [pgpCall EXCEPT ![c].pc = IF ~executor THEN "unready" ELSE IF session THEN "go" ELSE "check",
                            ![c].attempt = 1]
    /\ UNCHANGED <<page, executor, opId, pending, injected, loads>>

\* executePGPOperation with the WebView in place.
Send(c, what, pc) ==
    /\ opId' = opId + 1
    /\ pending' = pending \cup {[id |-> opId, for |-> [call |-> c, what |-> what]]}
    /\ injected' = injected \cup (IF page = "dead" THEN {}
                                  ELSE {[id |-> opId, for |-> [call |-> c, what |-> what]]})
    /\ pgpCall' = [pgpCall EXCEPT ![c].pc = pc, ![c].id = opId]
    /\ UNCHANGED <<page, executor, loads>>

\* healthCheck asks the executor of the moment: one that was cleared is a failed ping.
Ping(c) ==
    /\ Stands(c, "check")
    /\ \/ executor /\ Send(c, "ping", "pinging")
       \/ /\ ~executor
          /\ pgpCall' = [pgpCall EXCEPT ![c] = MissedPing(@)]
          /\ UNCHANGED <<page, executor, opId, pending, injected, loads>>

\* The three seconds of a ping are over; its message stays pending.
PingTimesOut(c) ==
    /\ Stands(c, "pinging")
    /\ pgpCall' = [pgpCall EXCEPT ![c] = MissedPing(@)]
    /\ executor' = (executor /\ ~Drops(pgpCall[c]))
    /\ UNCHANGED <<page, opId, pending, injected, loads>>

PauseEnds(c) ==
    /\ Stands(c, "pause")
    /\ pgpCall' = [pgpCall EXCEPT ![c].pc = "check", ![c].attempt = @ + 1]
    /\ UNCHANGED <<page, executor, opId, pending, injected, loads>>

\* The executor may be gone again when the call gets to it.
Go(c) ==
    /\ Stands(c, "go")
    /\ \/ executor /\ Send(c, "op", "sent")
       \/ /\ ~executor
          /\ pgpCall' = [pgpCall EXCEPT ![c] = Fail(@)]
          /\ UNCHANGED <<page, executor, opId, pending, injected, loads>>

\* Service initialization timeout.
ReadyTimesOut(c) ==
    /\ Stands(c, "unready")
    /\ pgpCall' = [pgpCall EXCEPT ![c] = Fail(@)]
    /\ UNCHANGED <<page, executor, opId, pending, injected, loads>>

-----------------------------------------------------------------------------
(* The messages.                                                           *)

\* onMessage: the entry of that number, if it is still pending, is settled.
\* Mutant: answers are taken for the oldest message, as if none were ever skipped.
OldestEntry(m) == {e \in pending : \A o \in pending : e.id <= o.id}
Entry(m) == {e \in pending : e.id = m.id}

\* What an answer to the entry e does to the call that waits for it; the answer to a
\* ping that was given up does nothing.
Take(e, m, sound) ==
    LET t == pgpCall[e.for.call] IN
    CASE e.for.what = "op" -> [t EXCEPT !.pc = IF sound THEN "done" ELSE "failed", !.answer = {m.for}]
      [] e.for.what = "ping" /\ t.pc = "pinging" /\ t.id = e.id ->
            IF sound THEN [t EXCEPT !.pc = "go"] ELSE MissedPing(t)
      [] OTHER -> t

\* handlePGPOperation answers in any order; before its bundle is loaded the answer is a
\* failure, if there is one at all, and a result that breaks its contract counts as one.
MessageArrives(m, sound) ==
    /\ m \in injected
    /\ page = "up" \/ (page = "loading" /\ ~sound)
    /\ injected' = injected \ {m}
    /\ pending' = pending \ Entry(m)
    /\ pgpCall' = [c \in PgpCall |->
          IF \E e \in Entry(m) : e.for.call = c
          THEN Take(CHOOSE e \in Entry(m) : e.for.call = c, m, sound) ELSE pgpCall[c]]
    /\ executor' = (executor /\ ~\E e \in Entry(m) :
                        /\ e.for.what = "ping" /\ ~sound /\ Drops(pgpCall[e.for.call])
                        /\ Stands(e.for.call, "pinging") /\ pgpCall[e.for.call].id = e.id)
    /\ UNCHANGED <<page, opId, loads>>

\* The timer of a message; that of a ping outlasts the three seconds of its attempt.
\* Mutant: the entry is forgotten and nobody told.
EntryTimesOutQuietly(e) ==
    /\ e \in pending
    /\ ~(e.for.what = "ping" /\ Stands(e.for.call, "pinging") /\ pgpCall[e.for.call].id = e.id)
    /\ pending' = pending \ {e}
    /\ UNCHANGED <<page, executor, opId, injected, pgpCall, loads>>

EntryTimesOut(e) ==
    /\ e \in pending
    /\ ~(e.for.what = "ping" /\ Stands(e.for.call, "pinging") /\ pgpCall[e.for.call].id = e.id)
    /\ pending' = pending \ {e}
    /\ pgpCall' = IF e.for.what = "op" THEN [pgpCall EXCEPT ![e.for.call] = Fail(@)] ELSE pgpCall
    /\ UNCHANGED <<page, executor, opId, injected, loads>>

-----------------------------------------------------------------------------
(* The page.                                                               *)

\* setExecutor: every call that waits for it goes on.
Connect == [c \in PgpCall |-> IF Stands(c, "unready") THEN [pgpCall[c] EXCEPT !.pc = "go"] ELSE pgpCall[c]]

PageMounts ==
    /\ page = "none"
    /\ page' = "loading" /\ executor' = TRUE
    /\ pgpCall' = Connect
    /\ UNCHANGED <<opId, pending, injected, loads>>

\* onLoadEnd.
Load ==
    /\ page = "loading"
    /\ page' = "up" /\ executor' = TRUE
    /\ pgpCall' = Connect
    /\ UNCHANGED <<opId, pending, injected, loads>>

\* usePgpRuntimeOnUserChange: the page is reloaded when the user is gone.  The messages in
\* the page are lost and their entries wait for their timers.
Reload ==
    /\ page \in {"up", "loading", "dead"} /\ loads < MaxLoads
    /\ page' = "loading" /\ executor' = FALSE /\ loads' = loads + 1
    /\ injected' = {}
    /\ UNCHANGED <<opId, pending, pgpCall>>

\* The process of the WebView dies: nothing tells the app.
Die ==
    /\ page \in {"up", "loading"} /\ loads < MaxLoads
    /\ page' = "dead" /\ loads' = loads + 1
    /\ injected' = {}
    /\ UNCHANGED <<executor, opId, pending, pgpCall>>

\* The component goes: its cleanup rejects what is pending, and the next one counts anew.
PageUnmounts ==
    /\ page # "none" /\ loads < MaxLoads
    /\ page' = "none" /\ executor' = FALSE /\ loads' = loads + 1
    /\ opId' = 0 /\ pending' = {} /\ injected' = {}
    /\ pgpCall' = [c \in PgpCall |->
          IF \E e \in pending : e.for.call = c /\ e.id = pgpCall[c].id
          THEN CASE Stands(c, "sent") -> Fail(pgpCall[c])
                 [] Stands(c, "pinging") -> MissedPing(pgpCall[c])
                 [] OTHER -> pgpCall[c]
          ELSE pgpCall[c]]

CallSteps(c) == Ping(c) \/ PingTimesOut(c) \/ PauseEnds(c) \/ Go(c) \/ ReadyTimesOut(c)

BridgeNext ==
    \/ PageMounts \/ Load \/ Reload \/ Die \/ PageUnmounts
    \/ \E c \in PgpCall : CallSteps(c) \/ (\E session \in BOOLEAN : Execute(c, session))
    \/ \E m \in injected, sound \in BOOLEAN : MessageArrives(m, sound)
    \/ \E e \in pending : EntryTimesOut(e)

\* The timers fire and the microtasks run; of the page nothing is assumed.
BridgeFairness ==
    /\ \A c \in PgpCall : WF_bridgeVars(CallSteps(c))
    /\ WF_bridgeVars(\E e \in pending : EntryTimesOut(e))

BridgeSpec == BridgeInit /\ [][BridgeNext]_bridgeVars /\ BridgeFairness

-----------------------------------------------------------------------------
\* useHiddenPgpExecutor.ts:115 - whatever was timed out, lost in a reload or answered
\* late, a call is settled by the answer to its own request and to no other.
AnswersMatchCalls ==
    \A c \in PgpCall : pgpCall[c].answer \subseteq {[call |-> c, what |-> "op"]}

\* pgpCryptoService.ts:93 - every call ends, also when the page died, was reloaded during
\* its health check, or never loads.
CallsSettle ==
    \A c \in PgpCall : pgpCall[c].pc \notin ({"idle"} \cup Settled) ~> pgpCall[c].pc \in Settled
=============================================================================
