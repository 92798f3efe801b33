----------------------------- MODULE FileStream -----------------------------
(***************************************************************************)
(* Encrypting or decrypting a file through the hidden WebView of the       *)
(* PurrivacyApp mobile app (src/apps/mobile/src:                           *)
(* services/fileCryptoService.ts, and the fileOp handlers of               *)
(* components/HiddenPGPWebView.tsx).                                       *)
(*                                                                         *)
(* The app feeds the file chunk by chunk into a queue of the page, several *)
(* chunks at a time; the page holds back its answer while the queue is     *)
(* full.  The engine takes chunks off the queue and the app pulls what it  *)
(* produces onto the disk.  A call that waits too long is given up, the    *)
(* engine may refuse the data, the disk may refuse the result, and the     *)
(* page may be reloaded under the stream.                                  *)
(*                                                                         *)
(* External: OpenPGP.js, of which the module knows that it consumes its    *)
(* input in order, holds little output that was not asked for, and ends    *)
(* when its input ends.                                                    *)
(***************************************************************************)
EXTENDS Naturals, Sequences, FiniteSets

CONSTANTS
    Chunks,       \* chunks of the file
    MaxInFlight,  \* chunk calls that may be unanswered (4 in the code)
    DrainBelow    \* queue length up to which a chunk is answered at once (2 in the code)

ASSUME StreamAssumption == {Chunks, MaxInFlight, DrainBelow} \subseteq Nat \ {0}

VARIABLES
    job,      \* encryptFile or decryptFile: [pc, decrypts]
    feed,     \* feedFileToSession
    next,     \* the chunk the feed sends next
    sent,     \* what became of each chunk call, for the app
    pull,     \* pullSessionToFile
    disk,     \* the chunks written to the output file
    wire,     \* chunks and the end of the input on their way into the page
    session,  \* the session in the page
    parked,   \* chunk calls whose answer the page holds back
    engine,   \* the stream inside OpenPGP.js
    lost      \* history: the page was reloaded

streamVars == <<job, feed, next, sent, pull, disk, wire, session, parked, engine, lost>>
pageVars == <<session, parked, engine>>

NoStream == [open |-> FALSE, queue |-> <<>>, done |-> FALSE, error |-> FALSE]
NoEngine == [runs |-> FALSE, asleep |-> FALSE, broken |-> FALSE, closed |-> FALSE, out |-> <<>>]
InFlight == {i \in 1..Chunks : sent[i] = "sent"}
JobOver == job.pc \in {"resolved", "rejected"}

StreamInit ==
    /\ job \in {[pc |-> "begin", decrypts |-> d] : d \in BOOLEAN}
    /\ feed = "off" /\ pull = "off" /\ next = 1
    /\ sent = [i \in 1..Chunks |-> "unsent"]
    /\ disk = <<>> /\ wire = <<>> /\ parked = {}
    /\ session = NoStream /\ engine = NoEngine /\ lost = FALSE

-----------------------------------------------------------------------------
(* The app.                                                                *)

\* fileOpBegin; the feed of a decryption starts before its engine.
BeginJob ==
    /\ job.pc = "begin"
    /\ session' = [NoStream EXCEPT !.open = TRUE]
    /\ job' = [job EXCEPT !.pc = "starting"]
    /\ feed' = IF job.decrypts THEN "on" ELSE "off"
    /\ UNCHANGED <<next, sent, pull, disk, wire, parked, engine, lost>>

\* awaitSlot.
SlotFree == Cardinality(InFlight) < MaxInFlight

FeedChunk ==
    /\ feed = "on" /\ next <= Chunks /\ SlotFree
    /\ sent' = [sent EXCEPT ![next] = "sent"] /\ next' = next + 1
    /\ wire' = Append(wire, next)
    /\ UNCHANGED <<job, feed, pull, disk, pageVars, lost>>

\* Promise.all over the tail.
FeedDrained == feed = "on" /\ next > Chunks /\ InFlight = {}

\* Mutant: closing the input hides the failure.
EndsWell == "resolving"
Outcome == IF feed = "broken" THEN "rejecting" ELSE "resolving"

\* fileOpFinishInput follows a failure as well.
FeedEnds ==
    /\ FeedDrained \/ feed = "broken"
    /\ feed' = Outcome
    /\ wire' = Append(wire, 0)
    /\ UNCHANGED <<job, next, sent, pull, disk, pageVars, lost>>

\* One fileOpResultChunk after the other.
AskForOutput ==
    /\ pull = "on"
    /\ pull' = "asking"
    /\ UNCHANGED <<job, feed, next, sent, disk, wire, pageVars, lost>>

\* Feed and pull have both ended well, or one of them has not; fileOpEnd takes the session
\* away either way, waking nobody but the engine, and may itself fail.
JobEnds ==
    /\ \/ /\ job.pc = "streaming" /\ feed = "resolved" /\ pull = "done"
          /\ \E pc \in {"resolved", "rejected"} : job' = [job EXCEPT !.pc = pc]
       \/ /\ job.pc = "refused" \/ (job.pc = "streaming" /\ (feed = "rejected" \/ pull = "failed"))
          /\ job' = [job EXCEPT !.pc = "rejected"]
    /\ session' = NoStream /\ engine' = NoEngine
    /\ UNCHANGED <<feed, next, sent, pull, disk, wire, parked, lost>>

-----------------------------------------------------------------------------
(* The page.                                                               *)

SettleChunks(calls, result) == [i \in 1..Chunks |-> IF i \in calls \cap InFlight THEN result ELSE sent[i]]
FeedHears(refused) == IF refused \cap InFlight # {} /\ feed = "on" THEN "broken" ELSE feed

\* A handler that throws marks the session and wakes all that waits for it.
Thrown(calls) ==
    /\ session' = [session EXCEPT !.error = TRUE, !.done = TRUE]
    /\ engine' = [engine EXCEPT !.asleep = FALSE]
    /\ parked' = {}
    /\ sent' = SettleChunks(calls \cup parked, "refused")
    /\ feed' = FeedHears(calls \cup parked)

\* fileOpEncrypt has its keys, or fileOpDecrypt unlocked its own: the engine gets the feed.
EngineStarts ==
    /\ job.pc = "starting" /\ session.open /\ ~engine.runs
    /\ engine' = [engine EXCEPT !.runs = TRUE]
    /\ UNCHANGED <<job, feed, next, sent, pull, disk, wire, session, parked, lost>>

\* Its answer; that of a decryption waits for the head of the message.
StartAnswered ==
    /\ job.pc = "starting" /\ engine.runs /\ ~engine.broken
    /\ job.decrypts => engine.out # <<>> \/ engine.closed
    /\ job' = [job EXCEPT !.pc = "streaming"]
    /\ pull' = "on"
    /\ feed' = IF job.decrypts THEN feed ELSE "on"
    /\ UNCHANGED <<next, sent, disk, wire, pageVars, lost>>

\* A key or the head of the message is refused, or the session is gone.
StartRefused ==
    /\ job.pc = "starting"
    /\ job' = [job EXCEPT !.pc = "refused"]
    /\ IF session.open THEN Thrown({}) ELSE UNCHANGED <<sent, feed, pageVars>>
    /\ UNCHANGED <<next, pull, disk, wire, lost>>

\* fileOpChunkBatch with one chunk.
ChunkArrives ==
    /\ wire # <<>> /\ Head(wire) # 0
    /\ wire' = Tail(wire)
    /\ LET i == Head(wire)
           waits == Len(session.queue) >= DrainBelow /\ ~session.done
       IN  IF ~session.open
           THEN /\ sent' = SettleChunks({i}, "refused") /\ feed' = FeedHears({i})
                /\ UNCHANGED pageVars
           ELSE IF session.error
           THEN Thrown({i})
           ELSE /\ session' = [session EXCEPT !.queue = Append(@, i)]
                /\ engine' = [engine EXCEPT !.asleep = FALSE]
                /\ parked' = IF waits THEN parked \cup {i} ELSE parked
                /\ sent' = IF waits THEN sent ELSE SettleChunks({i}, "acked")
                /\ UNCHANGED feed
    /\ UNCHANGED <<job, next, pull, disk, lost>>

\* fileOpFinishInput closes the input and wakes the engine; the feed takes no notice of
\* its failure.
\* Mutant: the engine is not woken.
FinishQuietly ==
    /\ wire # <<>> /\ Head(wire) = 0
    /\ wire' = Tail(wire)
    /\ session' = [session EXCEPT !.done = session.open]
    /\ feed' = IF feed = "resolving" THEN "resolved" ELSE "rejected"
    /\ UNCHANGED <<job, next, sent, pull, disk, parked, engine, lost>>

FinishArrives ==
    /\ wire # <<>> /\ Head(wire) = 0
    /\ wire' = Tail(wire)
    /\ session' = [session EXCEPT !.done = session.open]
    /\ engine' = [engine EXCEPT !.asleep = FALSE]
    /\ feed' = IF feed = "resolving" THEN "resolved" ELSE "rejected"
    /\ UNCHANGED <<job, next, sent, pull, disk, parked, lost>>

\* feed(): the next chunk, and with it the calls that waited for room; else the end of the
\* input - which is looked for before the error; else sleep.
EngineReads ==
    /\ session.open /\ engine.runs /\ ~engine.asleep /\ ~engine.closed /\ ~engine.broken
    /\ engine.out = <<>>
    /\ \/ /\ session.queue # <<>>
          /\ session' = [session EXCEPT !.queue = Tail(@)]
          /\ engine' = [engine EXCEPT !.out = <<Head(session.queue)>>]
          /\ LET room == Len(session.queue) <= DrainBelow + 1 \/ session.done
             IN  /\ parked' = IF room THEN {} ELSE parked
                 /\ sent' = IF room THEN SettleChunks(parked, "acked") ELSE sent
       \/ /\ session.queue = <<>>
          /\ engine' = IF session.done THEN [engine EXCEPT !.closed = TRUE]
                                       ELSE [engine EXCEPT !.asleep = TRUE]
          /\ UNCHANGED <<session, parked, sent>>
    /\ UNCHANGED <<job, feed, next, pull, disk, wire, lost>>

\* The data turn out to be bad.
EngineBreaks ==
    /\ engine.runs /\ ~engine.closed /\ ~engine.broken
    /\ engine' = [engine EXCEPT !.broken = TRUE]
    /\ UNCHANGED <<job, feed, next, sent, pull, disk, wire, session, parked, lost>>

\* fileOpResultChunk: the next output once there is one, written to the disk; done when
\* there is no more.
OutputPulled ==
    /\ pull = "asking" /\ session.open /\ ~engine.broken
    /\ engine.out # <<>> \/ engine.closed
    /\ disk' = disk \o engine.out
    /\ pull' = IF engine.out = <<>> THEN "done" ELSE "on"
    /\ engine' = [engine EXCEPT !.out = <<>>]
    /\ UNCHANGED <<job, feed, next, sent, wire, session, parked, lost>>

PullRefused ==
    /\ pull = "asking" /\ (~session.open \/ engine.broken)
    /\ pull' = "failed"
    /\ IF session.open THEN Thrown({}) ELSE UNCHANGED <<sent, feed, pageVars>>
    /\ UNCHANGED <<job, next, disk, wire, lost>>

-----------------------------------------------------------------------------
(* Timers, and what else goes wrong.                                       *)

ChunkTimesOut(i) ==
    /\ i \in InFlight
    /\ sent' = SettleChunks({i}, "refused") /\ feed' = FeedHears({i})
    /\ UNCHANGED <<job, next, pull, disk, wire, pageVars, lost>>

\* The disk is full, or the pull waited too long.
PullFails ==
    /\ pull = "asking"
    /\ pull' = "failed"
    /\ UNCHANGED <<job, feed, next, sent, disk, wire, pageVars, lost>>

StartTimesOut ==
    /\ job.pc = "starting"
    /\ job' = [job EXCEPT !.pc = "refused"]
    /\ UNCHANGED <<feed, next, sent, pull, disk, wire, pageVars, lost>>

\* usePgpRuntimeOnUserChange reloads the page: no call in it is answered any more.
PageReloads ==
    /\ ~lost /\ lost' = TRUE
    /\ session' = NoStream /\ engine' = NoEngine /\ parked' = {} /\ wire' = <<>>
    /\ feed' = CASE feed = "resolving" -> "resolved" [] feed = "rejecting" -> "rejected" [] OTHER -> feed
    /\ UNCHANGED <<job, next, sent, pull, disk>>

StreamSteps ==
    \/ BeginJob \/ FeedChunk \/ FeedEnds \/ AskForOutput \/ JobEnds
    \/ EngineStarts \/ StartAnswered \/ ChunkArrives \/ FinishArrives
    \/ EngineReads \/ OutputPulled \/ PullRefused

StreamNext ==
    \/ StreamSteps \/ StartRefused \/ EngineBreaks \/ PullFails \/ StartTimesOut \/ PageReloads
    \/ \E i \in 1..Chunks : ChunkTimesOut(i)

\* Promises and messages go on, and what is broken refuses; no timer is relied on.
StreamFairness ==
    /\ WF_streamVars(StreamSteps)
    /\ WF_streamVars(StartRefused /\ (engine.broken \/ ~session.open))

StreamSpec == StreamInit /\ [][StreamNext]_streamVars /\ StreamFairness

-----------------------------------------------------------------------------
\* fileCryptoService.ts:246 - an operation that succeeds has every chunk of the file in the
\* output, once and in order: no refused or timed out chunk, no input closed early and no
\* reload of the page leaves a shorter file that counts as a result.
WholeFileOrFailure == job.pc = "resolved" => disk = [i \in 1..Chunks |-> i]

\* fileCryptoService.ts:112 - the chunks wait for the engine, the engine for the pulls and
\* the pulls for the chunks: without a timer's help, and whatever is refused, an operation
\* that began ends unless its page is lost.
FileJobsEnd == [](~lost) => (job.pc # "begin" ~> JobOver)
=============================================================================
