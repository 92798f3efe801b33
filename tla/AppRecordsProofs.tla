-------------------------- MODULE AppRecordsProofs --------------------------
(***************************************************************************)
(* Theorems about what the mobile app stores and lists for its user, for   *)
(* any calls, failures and deaths of the process: the file streams         *)
(* (FileStream), the secure storage (SecureStorage), the key vault         *)
(* (KeyVault) and the registry of long operations (OperationCenter).       *)
(***************************************************************************)
EXTENDS FileStream, SecureStorage, KeyVault, OperationCenter, FiniteSetTheorems, TLAPS

-----------------------------------------------------------------------------
(* The file streams: the chunks lie in order between the disk and the wire. *)

\* The feed has not met a failure.
Sane == feed \in {"off", "on", "resolving", "resolved"}

\* The chunks of s follow on the first n.
Follows(s, n) == \A i \in 1..Len(s) : s[i] = n + i

Passed  == Len(disk) + Len(engine.out)
Arrived == Passed + Len(session.queue)

SessionRec == [open : BOOLEAN, queue : Seq(Nat), done : BOOLEAN, error : BOOLEAN]
EngineRec  == [runs : BOOLEAN, asleep : BOOLEAN, broken : BOOLEAN, closed : BOOLEAN, out : Seq(Nat)]
JobRec     == [pc : {"begin", "starting", "streaming", "refused", "resolved", "rejected"},
               decrypts : BOOLEAN]

StreamType ==
    /\ job \in JobRec
    /\ feed \in {"off", "on", "broken", "resolving", "rejecting", "resolved", "rejected"}
    /\ pull \in {"off", "on", "asking", "done", "failed"}
    /\ next \in 1..(Chunks + 1)
    /\ sent \in [1..Chunks -> {"unsent", "sent", "acked", "refused"}]
    /\ disk \in Seq(Nat) /\ wire \in Seq(0..Chunks)
    /\ session \in SessionRec
    /\ engine \in EngineRec
    /\ parked \in SUBSET (1..Chunks)

\* Before the job begins nothing has happened, and an encryption feeds no engine that did not start.
Unbegun ==
    /\ job.pc = "begin" =>
          /\ ~session.open /\ feed = "off" /\ pull = "off" /\ next = 1 /\ disk = <<>> /\ wire = <<>>
          /\ engine.out = <<>> /\ ~engine.closed /\ parked = {}
    /\ job.pc \in {"begin", "starting"} => pull = "off"
    /\ job.pc = "starting" /\ ~job.decrypts => feed = "off" /\ wire = <<>>

\* What the app has heard: with a sane feed nothing was refused, what is on the wire waits for an
\* answer, and what waits in the page has arrived.
Unheard ==
    /\ \A i \in 1..Len(wire) : wire[i] # 0 => wire[i] \in InFlight
    /\ \A i \in parked : i <= Arrived

\* The chunks are on the disk, in the engine, in the queue and on the wire, in this order.
Chain ==
    /\ Follows(disk, 0) /\ Follows(engine.out, Len(disk)) /\ Follows(session.queue, Passed)
    /\ feed = "off" => wire = <<>> /\ Arrived = 0 /\ next = 1 /\ parked = {} /\ ~session.done
    /\ feed = "on" => /\ Follows(wire, Arrived) /\ Arrived + Len(wire) = next - 1
                      /\ Unheard /\ ~session.done
    /\ feed = "resolving" => wire = <<0>> /\ Arrived = Chunks /\ ~session.done
    /\ feed = "resolved" => wire = <<>> /\ Arrived = Chunks
    /\ engine.closed => session.done /\ session.queue = <<>>

Whole == Follows(disk, 0) /\ Len(disk) = Chunks

StreamInv ==
    /\ StreamType /\ Unbegun
    /\ session.error => job.pc = "refused" \/ pull = "failed"
    /\ Sane /\ session.open /\ ~session.error => Chain
    /\ pull = "done" /\ Sane /\ job.pc \notin {"refused", "rejected"} => Whole
    /\ job.pc = "resolved" => pull = "done" /\ Whole

LEMMA ChunksNat == Chunks \in Nat /\ Chunks # 0
  BY StreamAssumption

LEMMA BooleanFields ==
    /\ \A s \in SessionRec : s.open \in BOOLEAN /\ s.done \in BOOLEAN /\ s.error \in BOOLEAN /\ s.queue \in Seq(Nat)
    /\ \A e \in EngineRec : /\ e.runs \in BOOLEAN /\ e.asleep \in BOOLEAN /\ e.broken \in BOOLEAN
                            /\ e.closed \in BOOLEAN /\ e.out \in Seq(Nat)
  BY DEF SessionRec, EngineRec

LEMMA BlankRecords ==
    /\ NoStream \in SessionRec /\ NoEngine \in EngineRec
    /\ ~NoStream.open /\ ~NoStream.error /\ NoStream.queue = <<>> /\ ~NoStream.done
    /\ ~NoEngine.closed /\ NoEngine.out = <<>>
  <1>1. <<>> \in Seq(Nat)
    OBVIOUS
  <1>2. NoStream \in SessionRec
    BY <1>1 DEF NoStream, SessionRec
  <1>3. NoEngine \in EngineRec
    BY <1>1 DEF NoEngine, EngineRec
  <1>4. ~NoStream.open /\ ~NoStream.error /\ NoStream.queue = <<>> /\ ~NoStream.done
    BY DEF NoStream
  <1>5. ~NoEngine.closed /\ NoEngine.out = <<>>
    BY DEF NoEngine
  <1> QED BY <1>2, <1>3, <1>4, <1>5

LEMMA OpenedSession ==
    ASSUME NEW s \in SessionRec
    PROVE  /\ [s EXCEPT !.open = TRUE] \in SessionRec /\ [s EXCEPT !.open = TRUE].open
           /\ [s EXCEPT !.open = TRUE].queue = s.queue
           /\ [s EXCEPT !.open = TRUE].done = s.done /\ [s EXCEPT !.open = TRUE].error = s.error
  BY DEF SessionRec

\* The queue of the page is all that changes.
LEMMA QueueEdit ==
    ASSUME NEW s \in SessionRec, NEW q \in Seq(Nat), NEW r, r = [s EXCEPT !.queue = q]
    PROVE  r \in SessionRec /\ r.queue = q /\ r.open = s.open /\ r.done = s.done /\ r.error = s.error
  BY DEF SessionRec

LEMMA AwakeEdit ==
    ASSUME NEW e \in EngineRec, NEW b \in BOOLEAN, NEW r, r = [e EXCEPT !.asleep = b]
    PROVE  r \in EngineRec /\ r.out = e.out /\ r.closed = e.closed
  BY DEF EngineRec

LEMMA OutEdit ==
    ASSUME NEW e \in EngineRec, NEW q \in Seq(Nat), NEW r, r = [e EXCEPT !.out = q]
    PROVE  r \in EngineRec /\ r.out = q /\ r.closed = e.closed
  BY DEF EngineRec

LEMMA StreamInitInv == StreamInit => StreamInv
  BY ChunksNat DEF StreamInit, StreamInv, StreamType, SessionRec, EngineRec, JobRec, Unbegun, Chain, Follows, Unheard, Whole, NoStream, NoEngine,
     Passed, Arrived, Sane, InFlight

\* A step that the stream is no longer sound after, or that leaves the chunks where they were.
LEMMA Elsewhere ==
    ASSUME StreamInv, StreamType', Unbegun', UNCHANGED <<disk, wire, next>>,
           engine'.out = engine.out, session'.queue = session.queue, session'.open = session.open,
           engine'.closed = engine.closed, session'.done = session.done,
           session'.error = session.error,
           Sane' => feed' = feed /\ (feed = "on" => sent' = sent),
           parked' \subseteq parked,
           pull' = pull \/ (pull \notin {"done", "failed"} /\ pull' # "done"),
           job'.pc = job.pc \/ (job.pc \notin {"refused", "rejected"} /\ job'.pc # "resolved")
    PROVE  StreamInv'
  <1>1. Sane' => Sane
    BY DEF Sane
  <1>2. Chain /\ Sane' => Chain'
    BY <1>1 DEF Chain, Follows, Passed, Arrived, Unheard, InFlight
  <1>3. Whole' <=> Whole
    BY DEF Whole, Follows
  <1>4. Sane' /\ session'.open /\ ~session'.error => Chain'
    BY <1>1, <1>2 DEF StreamInv
  <1>5. session'.error => job'.pc = "refused" \/ pull' = "failed"
    BY DEF StreamInv
  <1>6. pull' = "done" /\ Sane' /\ job'.pc \notin {"refused", "rejected"} => Whole'
    BY <1>1, <1>3 DEF StreamInv
  <1>7. job'.pc = "resolved" => pull' = "done" /\ Whole'
    BY <1>3 DEF StreamInv
  <1> QED BY <1>4, <1>5, <1>6, <1>7 DEF StreamInv

LEMMA BeginJobOK == ASSUME StreamInv, BeginJob PROVE StreamInv'
  <1> USE DEF BeginJob
  <1>1. StreamType'
    <2>1. session' \in SessionRec
      BY BlankRecords, OpenedSession
    <2>2. job' \in JobRec
      BY DEF StreamInv, StreamType, SessionRec, EngineRec, JobRec
    <2>3. feed' \in {"on", "off"}
      OBVIOUS
    <2> QED BY <2>1, <2>2, <2>3 DEF StreamInv, StreamType
  <1>2. session'.open /\ session'.queue = <<>> /\ ~session'.done /\ ~session'.error
    BY BlankRecords, OpenedSession
  <1>3. Unbegun'
    BY DEF StreamInv, StreamType, Unbegun
  <1>4. Chain'
    <2>1. /\ disk' = <<>> /\ wire' = <<>> /\ next' = 1 /\ parked' = {} /\ feed' \in {"on", "off"}
          /\ engine'.out = <<>> /\ ~engine'.closed
      BY DEF StreamInv, Unbegun
    <2>2. Passed' = 0 /\ Arrived' = 0
      BY <1>2, <2>1 DEF Passed, Arrived
    <2> QED BY <1>2, <2>1, <2>2 DEF Chain, Follows, Unheard
  <1>5. pull' = "off" /\ job'.pc = "starting"
    BY DEF StreamInv, Unbegun, StreamType
  <1> QED BY <1>1, <1>2, <1>3, <1>4, <1>5 DEF StreamInv

LEMMA AppOK ==
    ASSUME StreamInv,
           AskForOutput \/ EngineStarts \/ StartAnswered \/ EngineBreaks \/ PullFails \/ StartTimesOut
           \/ \E i \in 1..Chunks : ChunkTimesOut(i)
    PROVE  StreamInv'
  <1>1. CASE AskForOutput \/ PullFails
    <2>1. StreamType' /\ Unbegun'
      BY <1>1 DEF AskForOutput, PullFails, StreamInv, StreamType, Unbegun, pageVars
    <2>2. Sane' => feed' = feed /\ sent' = sent
      BY <1>1 DEF AskForOutput, PullFails
    <2> QED BY <1>1, <2>1, <2>2, Elsewhere DEF AskForOutput, PullFails, pageVars
  <1>2. CASE EngineStarts \/ EngineBreaks
    <2>1. /\ StreamType' /\ engine'.out = engine.out /\ engine'.closed = engine.closed
      BY <1>2 DEF EngineStarts, EngineBreaks, StreamInv, StreamType, SessionRec, EngineRec, JobRec
    <2>2. Unbegun'
      BY <1>2, <2>1 DEF EngineStarts, EngineBreaks, StreamInv, StreamType, Unbegun
    <2> QED BY <1>2, <2>1, <2>2, Elsewhere DEF EngineStarts, EngineBreaks
  <1>3. CASE StartTimesOut
    <2>1. StreamType' /\ Unbegun' /\ job.pc = "starting" /\ job'.pc = "refused"
      BY <1>3 DEF StartTimesOut, StreamInv, StreamType, SessionRec, EngineRec, JobRec, Unbegun, pageVars
    <2> QED BY <1>3, <2>1, Elsewhere DEF StartTimesOut, pageVars
  <1>4. ASSUME NEW i \in 1..Chunks, ChunkTimesOut(i) PROVE StreamInv'
    <2>1. feed' = "broken" \/ (feed' = feed /\ feed # "on")
      BY <1>4 DEF ChunkTimesOut, FeedHears
    <2>2. sent' \in [1..Chunks -> {"unsent", "sent", "acked", "refused"}]
      BY <1>4 DEF ChunkTimesOut, SettleChunks, StreamInv, StreamType
    <2>3. UNCHANGED <<disk, wire, next, session, engine, parked, pull, job>>
      BY <1>4 DEF ChunkTimesOut, pageVars
    <2>4. Sane' => feed' = feed /\ (feed = "on" => sent' = sent)
      BY <2>1 DEF Sane
    <2>5. feed = "off" => feed' = "off"
      BY <1>4 DEF ChunkTimesOut, FeedHears
    <2>6. StreamType'
      BY <2>1, <2>2, <2>3 DEF StreamInv, StreamType
    <2>7. Unbegun'
      BY <2>3, <2>5 DEF StreamInv, Unbegun
    <2> QED BY <2>3, <2>4, <2>6, <2>7, Elsewhere
  <1>5. CASE StartAnswered
    <2>1. StreamType' /\ Unbegun' /\ job.pc = "starting" /\ job'.pc = "streaming" /\ pull = "off" /\ pull' = "on"
      BY <1>5 DEF StartAnswered, StreamInv, StreamType, SessionRec, EngineRec, JobRec, Unbegun, pageVars
    <2>2. UNCHANGED <<disk, wire, next, session, engine, parked, sent>>
      BY <1>5 DEF StartAnswered, pageVars
    <2>3. CASE feed' = feed
      BY <2>1, <2>2, <2>3, Elsewhere
    <2>4. CASE feed' # feed
      <3>1. feed = "off" /\ feed' = "on"
        BY <1>5, <2>1, <2>4 DEF StartAnswered, StreamInv, Unbegun
      <3>2. Chain => Chain'
        BY <2>2, <3>1 DEF Chain, Follows, Passed, Arrived, Unheard, InFlight, StreamInv, StreamType, SessionRec, EngineRec, JobRec
      <3> QED BY <2>1, <2>2, <3>1, <3>2 DEF StreamInv, Sane
    <2> QED BY <2>3, <2>4
  <1> QED BY <1>1, <1>2, <1>3, <1>4, <1>5

\* What is thrown in the page is the end of the stream.
LEMMA ThrownOK ==
    ASSUME StreamInv, NEW calls, Thrown(calls), UNCHANGED <<next, disk>>, wire' \in Seq(0..Chunks), session.open,
           job' \in JobRec,
           Unbegun',
           job'.pc = job.pc \/ job'.pc = "refused",
           pull' = pull \/ (pull = "asking" /\ pull' = "failed"),
           session.error \/ job'.pc = "refused" \/ pull' = "failed"
    PROVE  StreamInv'
  <1>1. /\ session' \in SessionRec
        /\ session'.error
    BY DEF Thrown, StreamInv, StreamType, SessionRec, EngineRec, JobRec
  <1>2. sent' \in [1..Chunks -> {"unsent", "sent", "acked", "refused"}]
    BY DEF Thrown, SettleChunks, StreamInv, StreamType
  <1>3. engine' \in EngineRec
    BY DEF Thrown, StreamInv, StreamType, SessionRec, EngineRec, JobRec
  <1>4. feed' \in {feed, "broken"} /\ parked' = {}
    BY DEF Thrown, FeedHears
  <1>5. StreamType'
    BY <1>1, <1>2, <1>3, <1>4 DEF StreamInv, StreamType
  <1>6. job'.pc = "refused" \/ pull' = "failed"
    BY DEF StreamInv
  <1>7. (Sane' => Sane) /\ (Whole' <=> Whole)
    BY <1>4 DEF Sane, Whole, Follows
  <1>8. job'.pc = "resolved" => pull' = "done" /\ Whole'
    BY <1>7 DEF StreamInv
  <1> QED BY <1>1, <1>5, <1>6, <1>7, <1>8 DEF StreamInv

LEMMA RefusedOK ==
    ASSUME StreamInv, StartRefused \/ PullRefused
    PROVE  StreamInv'
  <1>1. /\ UNCHANGED <<next, disk, wire>>
        /\ IF session.open THEN Thrown({}) ELSE UNCHANGED <<sent, feed, pageVars>>
    BY DEF StartRefused, PullRefused
  <1>2. job' \in JobRec
    BY DEF StartRefused, PullRefused, StreamInv, StreamType, SessionRec, EngineRec, JobRec
  <1>3. \/ job.pc = "starting" /\ job'.pc = "refused" /\ pull' = pull
        \/ pull = "asking" /\ pull' = "failed" /\ job' = job
    BY DEF StartRefused, PullRefused, StreamInv, StreamType, SessionRec, EngineRec, JobRec
  <1>4. Unbegun'
    BY <1>3 DEF Unbegun, StreamInv
  <1>5. CASE session.open
    BY <1>1, <1>2, <1>3, <1>4, <1>5, ThrownOK DEF StreamInv, StreamType
  <1>6. CASE ~session.open
    <2>1. UNCHANGED <<sent, feed, session, parked, engine>>
      BY <1>1, <1>6 DEF pageVars
    <2>2. StreamType'
      BY <1>1, <1>2, <1>3, <2>1 DEF StreamInv, StreamType
    <2> QED BY <1>1, <1>3, <1>4, <2>1, <2>2, Elsewhere
  <1> QED BY <1>5, <1>6

\* A step that leaves a stream on its way with every chunk in its place.
LEMMA OnTheWay ==
    ASSUME StreamInv, StreamType', Unbegun', job' = job,
           session'.error = session.error, session'.open = session.open,
           Sane' => Sane, Sane' /\ Chain /\ session.open /\ ~session.error => Chain',
           pull' = pull /\ disk' = disk
    PROVE  StreamInv'
  BY DEF StreamInv, Whole, Follows

LEMMA FeedChunkOK == ASSUME StreamInv, FeedChunk PROVE StreamInv'
  <1>1. /\ feed = "on" /\ next <= Chunks /\ next' = next + 1 /\ wire' = Append(wire, next)
        /\ sent' = [sent EXCEPT ![next] = "sent"]
        /\ UNCHANGED <<job, feed, pull, disk, session, parked, engine>>
    BY DEF FeedChunk, pageVars
  <1>2. StreamType
    BY DEF StreamInv
  <1>3. next \in 1..Chunks /\ next' \in 1..(Chunks + 1)
    BY <1>1, <1>2, ChunksNat DEF StreamType
  <1>4. wire \in Seq(0..Chunks) /\ wire' \in Seq(0..Chunks)
    BY <1>1, <1>2, <1>3 DEF StreamType
  <1>5. sent' \in [1..Chunks -> {"unsent", "sent", "acked", "refused"}]
    BY <1>1, <1>2, <1>3 DEF StreamType
  <1>6. StreamType'
    BY <1>1, <1>2, <1>3, <1>4, <1>5 DEF StreamType
  <1>7. Unbegun'
    BY <1>1 DEF StreamInv, Unbegun
  <1>8. ASSUME Chain PROVE Chain'
    <2>1. /\ Follows(wire, Arrived) /\ Arrived + Len(wire) = next - 1 /\ Unheard /\ ~session.done
      BY <1>1, <1>8 DEF Chain
    <2>2. Arrived \in Nat /\ Arrived' = Arrived
      BY <1>1, <1>2 DEF Arrived, Passed, StreamType, SessionRec, EngineRec, JobRec
    <2>3. Follows(wire, Arrived)'
      BY <1>1, <1>3, <1>4, <2>1, <2>2 DEF Follows
    <2>4. (Arrived + Len(wire))' = (next - 1)'
      BY <1>1, <1>3, <1>4, <2>1, <2>2
    <2>5. InFlight' = InFlight \cup {next}
      BY <1>1, <1>2, <1>3 DEF InFlight, StreamType
    <2>6. Unheard'
      BY <1>1, <1>3, <1>4, <2>1, <2>2, <2>5 DEF Unheard
    <2>7. /\ Follows(disk, 0)' /\ Follows(engine.out, Len(disk))' /\ Follows(session.queue, Passed)'
          /\ (engine.closed => session.done /\ session.queue = <<>>)'
      BY <1>1, <1>8 DEF Chain, Follows, Passed
    <2> QED BY <1>1, <2>1, <2>3, <2>4, <2>6, <2>7 DEF Chain
  <1> QED BY <1>1, <1>6, <1>7, <1>8, OnTheWay DEF Sane

LEMMA FeedEndsOK == ASSUME StreamInv, FeedEnds PROVE StreamInv'
  <1>1. /\ wire' = Append(wire, 0) /\ UNCHANGED <<job, next, sent, pull, disk, session, parked, engine>>
        /\ \/ FeedDrained /\ feed = "on" /\ feed' = "resolving"
           \/ feed = "broken" /\ feed' = "rejecting"
    BY DEF FeedEnds, FeedDrained, Outcome, pageVars
  <1>2. StreamType
    BY DEF StreamInv
  <1>3. StreamType'
    BY <1>1, <1>2, ChunksNat DEF StreamType
  <1>4. Unbegun'
    BY <1>1 DEF StreamInv, Unbegun
  <1>5. ASSUME Chain, Sane' PROVE Chain'
    <2>1. FeedDrained /\ feed = "on" /\ feed' = "resolving"
      BY <1>1, <1>5 DEF Sane
    <2>2. /\ Follows(wire, Arrived) /\ Arrived + Len(wire) = next - 1 /\ Unheard /\ ~session.done
      BY <1>5, <2>1 DEF Chain
    <2>3. Arrived \in Nat /\ Arrived' = Arrived
      BY <1>1, <1>2 DEF Arrived, Passed, StreamType, SessionRec, EngineRec, JobRec
    <2>4. Len(wire) = 0
      <3>1. SUFFICES ASSUME Len(wire) # 0 PROVE FALSE
        OBVIOUS
      <3>2. 1 \in 1..Len(wire)
        BY <1>2, <3>1 DEF StreamType
      <3>3. wire[1] = Arrived + 1
        BY <2>2, <3>2 DEF Follows
      <3>4. wire[1] \in InFlight
        BY <2>2, <2>3, <3>2, <3>3 DEF Unheard
      <3> QED BY <2>1, <3>4 DEF FeedDrained
    <2>5. wire = <<>>
      BY <1>2, <2>4 DEF StreamType
    <2>6. Arrived = Chunks
      BY <1>2, <2>1, <2>2, <2>3, <2>4, ChunksNat DEF FeedDrained, StreamType
    <2>7. wire' = <<0>>
      BY <1>1, <2>5
    <2>8. /\ Follows(disk, 0)' /\ Follows(engine.out, Len(disk))' /\ Follows(session.queue, Passed)'
          /\ (engine.closed => session.done /\ session.queue = <<>>)'
      BY <1>1, <1>5 DEF Chain, Follows, Passed
    <2> QED BY <1>1, <2>1, <2>2, <2>3, <2>6, <2>7, <2>8 DEF Chain
  <1>6. Sane' => Sane
    BY <1>1 DEF Sane
  <1> QED BY <1>1, <1>3, <1>4, <1>5, <1>6, OnTheWay

LEMMA EndingsOK == ASSUME StreamInv, JobEnds \/ PageReloads PROVE StreamInv'
  <1>1. /\ session' = NoStream /\ engine' = NoEngine /\ UNCHANGED <<next, sent, pull, disk>>
        /\ wire' = wire \/ wire' = <<>>
        /\ parked' = parked \/ parked' = {}
    BY DEF JobEnds, PageReloads
  <1>2. /\ job' \in JobRec
        /\ \/ job' = job
           \/ job'.pc = "rejected" /\ feed' = feed
           \/ job'.pc = "resolved" /\ job.pc = "streaming" /\ pull = "done" /\ feed = "resolved" /\ feed' = feed
    BY DEF JobEnds, PageReloads, StreamInv, StreamType, SessionRec, EngineRec, JobRec
  <1>3. /\ feed' \in {"off", "on", "broken", "resolving", "rejecting", "resolved", "rejected"}
        /\ (Sane' => Sane) /\ (feed = "off" => feed' = "off")
    BY DEF JobEnds, PageReloads, StreamInv, StreamType, Sane
  <1>5. /\ session' \in SessionRec
        /\ ~session'.open /\ ~session'.error
    BY <1>1, BlankRecords
  <1>7. /\ engine' \in EngineRec
        /\ ~engine'.closed /\ engine'.out = <<>>
    BY <1>1, BlankRecords
  <1>8. StreamType'
    <2>1. wire' \in Seq(0..Chunks) /\ parked' \in SUBSET (1..Chunks)
      <3>1. <<>> \in Seq(0..Chunks) /\ wire \in Seq(0..Chunks) /\ parked \in SUBSET (1..Chunks)
        BY DEF StreamInv, StreamType
      <3> QED BY <1>1, <3>1
    <2> QED BY <1>1, <1>2, <1>3, <1>5, <1>7, <2>1 DEF StreamInv, StreamType
  <1>9. Unbegun'
    BY <1>1, <1>2, <1>3, <1>5, <1>7 DEF StreamInv, Unbegun
  <1>10. Whole' <=> Whole
    BY <1>1 DEF Whole, Follows
  <1>11. pull' = "done" /\ Sane' /\ job'.pc \notin {"refused", "rejected"} => Whole'
    BY <1>1, <1>2, <1>3, <1>10 DEF StreamInv
  <1>12. job'.pc = "resolved" => pull' = "done" /\ Whole'
    BY <1>1, <1>2, <1>10 DEF StreamInv, Sane
  <1> QED BY <1>5, <1>8, <1>9, <1>11, <1>12 DEF StreamInv

LEMMA ChunkOK == ASSUME StreamInv, ChunkArrives PROVE StreamInv'
  <1> DEFINE i == Head(wire)
  <1>1. i # 0 /\ wire # <<>> /\ wire' = Tail(wire)
    BY DEF ChunkArrives
  <1>2. StreamType /\ i \in 1..Chunks /\ wire' \in Seq(0..Chunks) /\ Len(wire) # 0 /\ i = wire[1]
    BY <1>1, ChunksNat DEF StreamInv, StreamType
  <1>3. UNCHANGED <<job, next, pull, disk>>
    BY DEF ChunkArrives
  <1>4. job.pc # "begin" /\ ~(job.pc = "starting" /\ ~job.decrypts)
    BY <1>1 DEF StreamInv, Unbegun
  <1>5. Unbegun'
    BY <1>3, <1>4 DEF StreamInv, Unbegun
  <1>6. CASE ~session.open
    <2>1. /\ sent' = SettleChunks({i}, "refused") /\ feed' = FeedHears({i})
          /\ UNCHANGED <<session, parked, engine>>
      BY <1>1, <1>6 DEF ChunkArrives, pageVars
    <2>2. sent' \in [1..Chunks -> {"unsent", "sent", "acked", "refused"}]
      BY <1>2, <2>1 DEF SettleChunks, StreamType
    <2>3. feed' \in {feed, "broken"}
      BY <2>1 DEF FeedHears
    <2>4. StreamType'
      BY <1>2, <1>3, <2>1, <2>2, <2>3 DEF StreamType
    <2> QED BY <1>3, <1>5, <1>6, <2>1, <2>3, <2>4, OnTheWay DEF Sane
  <1>7. CASE session.open /\ session.error
    <2>1. Thrown({i})
      BY <1>1, <1>7 DEF ChunkArrives
    <2> QED BY <1>2, <1>3, <1>5, <1>7, <2>1, ThrownOK DEF StreamType
  <1>8. CASE session.open /\ ~session.error
    <2>1. /\ session' = [session EXCEPT !.queue = Append(@, i)]
          /\ engine' = [engine EXCEPT !.asleep = FALSE]
          /\ parked' \in {parked, parked \cup {i}}
          /\ sent' \in {sent, SettleChunks({i}, "acked")}
          /\ feed' = feed
      BY <1>1, <1>8 DEF ChunkArrives
    <2>2. sent' \in [1..Chunks -> {"unsent", "sent", "acked", "refused"}]
      BY <1>2, <2>1 DEF SettleChunks, StreamType
    <2>3. /\ session' \in SessionRec
          /\ session'.open = session.open /\ session'.error = session.error /\ session'.done = session.done
          /\ session'.queue = Append(session.queue, i)
      <3>1. session \in SessionRec /\ Append(session.queue, i) \in Seq(Nat)
        BY <1>2, BooleanFields DEF StreamType
      <3> QED BY <2>1, <3>1, QueueEdit
    <2>4. /\ engine' \in EngineRec
          /\ engine'.out = engine.out /\ engine'.closed = engine.closed
      BY <1>2, <2>1, AwakeEdit DEF StreamType
    <2>5. StreamType'
      BY <1>2, <1>3, <2>1, <2>2, <2>3, <2>4 DEF StreamType
    <2>6. ASSUME Chain, Sane PROVE Chain'
      <3>1. feed = "on"
        BY <1>1, <1>2, <2>6 DEF Chain, Sane
      <3>2. /\ Follows(wire, Arrived) /\ Arrived + Len(wire) = next - 1 /\ Unheard /\ ~session.done
            /\ Follows(session.queue, Passed)
        BY <2>6, <3>1 DEF Chain
      <3>3. /\ Passed \in Nat /\ Arrived \in Nat /\ Passed' = Passed /\ Arrived' = Arrived + 1
            /\ Arrived = Passed + Len(session.queue)
        BY <1>2, <1>3, <2>3, <2>4 DEF Arrived, Passed, StreamType, SessionRec, EngineRec, JobRec
      <3>4. i = Arrived + 1
        BY <1>2, <3>2 DEF Follows, StreamType
      <3>5. Follows(session.queue, Passed)'
        BY <1>2, <2>3, <3>2, <3>3, <3>4 DEF Follows, StreamType, SessionRec, EngineRec, JobRec
      <3>6. /\ Len(wire') = Len(wire) - 1 /\ Len(wire') \in Nat /\ Len(wire) \in Nat
            /\ \A k \in 1..Len(wire') : k + 1 \in 1..Len(wire) /\ wire'[k] = wire[k + 1]
        BY <1>1, <1>2 DEF StreamType
      <3>7. Follows(wire, Arrived)'
        <4>1. ASSUME NEW k \in 1..Len(wire') PROVE wire'[k] = Arrived' + k
          <5>1. wire'[k] = Arrived + (k + 1)
            BY <3>2, <3>6 DEF Follows
          <5>2. Arrived \in Nat /\ k \in Nat /\ Arrived' = Arrived + 1
            BY <3>3, <3>6
          <5>3. Arrived + (k + 1) = (Arrived + 1) + k
            BY <5>2
          <5> QED BY <5>1, <5>2, <5>3
        <4> QED BY <4>1 DEF Follows
      <3>8. (Arrived + Len(wire))' = (next - 1)'
        BY <1>2, <1>3, <3>2, <3>3, <3>6 DEF StreamType
      <3>9. \A j \in InFlight : j # i => j \in InFlight'
        BY <1>2, <2>1 DEF InFlight, SettleChunks, StreamType
      <3>10. ASSUME NEW k \in 1..Len(wire'), wire'[k] # 0 PROVE wire'[k] \in InFlight'
        <4>1. wire[k + 1] \in InFlight /\ wire[k + 1] = Arrived + (k + 1)
          BY <3>2, <3>6, <3>10 DEF Unheard, Follows
        <4>2. k \in Nat /\ k # 0
          BY <3>6
        <4>3. Arrived + (k + 1) # Arrived + 1
          <5>1. \A a \in Nat, b \in Nat : b # 0 => a + (b + 1) # a + 1
            OBVIOUS
          <5> QED BY <3>3, <4>2, <5>1
        <4>4. wire[k + 1] # i
          BY <3>4, <4>1, <4>3
        <4> QED BY <3>6, <3>9, <4>1, <4>4
      <3>11. \A j \in parked' : j <= Arrived'
        BY <1>2, <2>1, <3>2, <3>3, <3>4 DEF Unheard, StreamType, SessionRec, EngineRec, JobRec
      <3>12. Unheard'
        BY <3>10, <3>11 DEF Unheard
      <3>13. ~engine'.closed /\ Follows(disk, 0)' /\ Follows(engine.out, Len(disk))'
        BY <1>3, <2>4, <2>6, <3>2 DEF Chain, Follows
      <3> QED BY <2>1, <2>3, <3>1, <3>2, <3>5, <3>7, <3>8, <3>12, <3>13 DEF Chain
    <2> QED BY <1>3, <1>5, <2>1, <2>3, <2>5, <2>6, OnTheWay DEF Sane
  <1> QED BY <1>6, <1>7, <1>8

LEMMA FinishOK == ASSUME StreamInv, FinishArrives PROVE StreamInv'
  <1>1. /\ wire # <<>> /\ Head(wire) = 0 /\ wire' = Tail(wire)
        /\ session' = [session EXCEPT !.done = session.open]
        /\ engine' = [engine EXCEPT !.asleep = FALSE]
        /\ feed' \in {"resolved", "rejected"} /\ (feed' = "resolved" => feed = "resolving")
        /\ UNCHANGED <<job, next, sent, pull, disk, parked>>
    BY DEF FinishArrives
  <1>2. StreamType
    BY DEF StreamInv
  <1>3. /\ session' \in SessionRec
        /\ session'.open = session.open /\ session'.error = session.error /\ session'.done = session.open
        /\ session'.queue = session.queue
    BY <1>1, <1>2 DEF StreamType, SessionRec, EngineRec, JobRec
  <1>4. /\ engine' \in EngineRec
        /\ engine'.out = engine.out /\ engine'.closed = engine.closed
    BY <1>1, <1>2, AwakeEdit DEF StreamType
  <1>5. wire' \in Seq(0..Chunks)
    BY <1>1, <1>2 DEF StreamType
  <1>6. StreamType'
    BY <1>1, <1>2, <1>3, <1>4, <1>5 DEF StreamType
  <1>7. Unbegun'
    BY <1>1 DEF StreamInv, Unbegun
  <1>8. ASSUME Chain, Sane', session.open PROVE Chain'
    <2>1. feed = "resolving" /\ feed' = "resolved"
      BY <1>1, <1>8 DEF Sane
    <2>2. wire = <<0>> /\ Arrived = Chunks
      BY <1>8, <2>1 DEF Chain
    <2>3. wire' = <<>> /\ Arrived' = Chunks
      <3>1. Tail(<<0>>) = <<>>
        OBVIOUS
      <3>2. Arrived' = Arrived
        BY <1>1, <1>3, <1>4 DEF Arrived, Passed
      <3> QED BY <1>1, <2>2, <3>1, <3>2
    <2>4. /\ Follows(disk, 0)' /\ Follows(engine.out, Len(disk))' /\ Follows(session.queue, Passed)'
          /\ (engine.closed => session.done /\ session.queue = <<>>)'
      BY <1>1, <1>3, <1>4, <1>8 DEF Chain, Follows, Passed
    <2> QED BY <2>1, <2>3, <2>4 DEF Chain
  <1>9. Sane' => Sane
    BY <1>1 DEF Sane
  <1> QED BY <1>1, <1>3, <1>6, <1>7, <1>8, <1>9, OnTheWay

LEMMA ReadOK == ASSUME StreamInv, EngineReads PROVE StreamInv'
  <1>1. /\ session.open /\ ~engine.closed /\ engine.out = <<>>
        /\ UNCHANGED <<job, feed, next, pull, disk, wire>>
    BY DEF EngineReads
  <1>2. StreamType /\ Unbegun
    BY DEF StreamInv
  <1>3. CASE session.queue = <<>>
    <2>1. /\ engine' = (IF session.done THEN [engine EXCEPT !.closed = TRUE]
                                         ELSE [engine EXCEPT !.asleep = TRUE])
          /\ UNCHANGED <<session, parked, sent>>
      BY <1>3 DEF EngineReads
    <2>2. /\ engine' \in EngineRec
          /\ engine'.out = engine.out /\ (engine'.closed => session.done)
      BY <1>1, <1>2, <2>1 DEF StreamType, SessionRec, EngineRec, JobRec
    <2>3. StreamType'
      BY <1>1, <1>2, <2>1, <2>2 DEF StreamType
    <2>4. Unbegun'
      BY <1>1, <1>2, <2>1, <2>2 DEF Unbegun
    <2>5. Chain => Chain'
      BY <1>1, <1>3, <2>1, <2>2 DEF Chain, Follows, Passed, Arrived, Unheard, InFlight
    <2> QED BY <1>1, <2>1, <2>3, <2>4, <2>5, OnTheWay DEF Sane
  <1>4. CASE session.queue # <<>>
    <2>1. /\ session' = [session EXCEPT !.queue = Tail(@)]
          /\ engine' = [engine EXCEPT !.out = <<Head(session.queue)>>]
          /\ parked' \in {{}, parked}
          /\ sent' \in {sent, SettleChunks(parked, "acked")}
      BY <1>4 DEF EngineReads
    <2>2. /\ session.queue \in Seq(Nat) /\ Len(session.queue) # 0
          /\ Head(session.queue) = session.queue[1] /\ Head(session.queue) \in Nat
      BY <1>2, <1>4 DEF StreamType, SessionRec, EngineRec, JobRec
    <2>3. /\ session' \in SessionRec
          /\ session'.open = session.open /\ session'.error = session.error /\ session'.done = session.done
          /\ session'.queue = Tail(session.queue)
      <3>1. session \in SessionRec /\ Tail(session.queue) \in Seq(Nat)
        BY <1>2, <1>4, <2>2 DEF StreamType
      <3> QED BY <2>1, <3>1, QueueEdit
    <2>4. /\ engine' \in EngineRec
          /\ engine'.out = <<session.queue[1]>> /\ ~engine'.closed
      <3>1. engine \in EngineRec /\ <<Head(session.queue)>> \in Seq(Nat)
        BY <1>2, <2>2 DEF StreamType
      <3>2. engine' \in EngineRec /\ engine'.out = <<Head(session.queue)>> /\ engine'.closed = engine.closed
        <4>1. PICK q \in Seq(Nat) : q = <<Head(session.queue)>>
          BY <3>1
        <4>2. engine' = [engine EXCEPT !.out = q]
          BY <2>1, <4>1
        <4>3. engine' \in EngineRec /\ engine'.out = q /\ engine'.closed = engine.closed
          BY <3>1, <4>2, OutEdit
        <4> QED BY <4>1, <4>3
      <3> QED BY <1>1, <2>2, <3>2
    <2>5. sent' \in [1..Chunks -> {"unsent", "sent", "acked", "refused"}]
      BY <1>2, <2>1 DEF SettleChunks, StreamType
    <2>6. StreamType'
      BY <1>1, <1>2, <2>1, <2>3, <2>4, <2>5 DEF StreamType
    <2>7. ASSUME Chain, Sane, ~session.error PROVE Chain'
      <3>1. /\ Follows(disk, 0) /\ Follows(session.queue, Passed)
        BY <2>7 DEF Chain
      <3>2. /\ Passed = Len(disk) /\ Passed \in Nat /\ Passed' = Passed + 1 /\ Arrived \in Nat
            /\ Arrived = Passed + Len(session.queue) /\ Arrived' = Arrived
        BY <1>1, <1>2, <2>2, <2>3, <2>4 DEF Passed, Arrived, StreamType, SessionRec, EngineRec, JobRec
      <3>3. session.queue[1] = Passed + 1
        BY <2>2, <3>1 DEF Follows
      <3>4. Follows(disk, 0)' /\ Follows(engine.out, Len(disk))'
        BY <1>1, <2>4, <3>1, <3>2, <3>3 DEF Follows
      <3>5. /\ Len(session'.queue) = Len(session.queue) - 1
            /\ \A k \in 1..Len(session'.queue) :
                  k + 1 \in 1..Len(session.queue) /\ session'.queue[k] = session.queue[k + 1]
        BY <2>2, <2>3
      <3>6. Follows(session.queue, Passed)'
        BY <2>2, <3>1, <3>2, <3>5 DEF Follows
      <3>7. feed # "off"
        BY <2>2, <2>7, <3>2 DEF Chain
      <3>8. feed = "on" => Unheard'
        <4>1. SUFFICES ASSUME feed = "on" PROVE Unheard'
          OBVIOUS
        <4>2. Unheard /\ Follows(wire, Arrived)
          BY <2>7, <4>1 DEF Chain
        <4>3. \A j \in parked' : j <= Arrived'
          BY <2>1, <3>2, <4>2 DEF Unheard
        <4>4. \A j \in InFlight : j \notin parked => j \in InFlight'
          BY <1>2, <2>1 DEF InFlight, SettleChunks, StreamType
        <4>5. ASSUME NEW k \in 1..Len(wire), wire[k] # 0 PROVE wire[k] \in InFlight'
          <5>1. wire[k] \in InFlight /\ wire[k] = Arrived + k
            BY <4>2, <4>5 DEF Unheard, Follows
          <5>2. wire[k] \notin parked
            BY <3>2, <4>2, <5>1 DEF Unheard
          <5> QED BY <4>4, <5>1, <5>2
        <4> QED BY <1>1, <4>3, <4>5 DEF Unheard
      <3>9. feed = "on" => /\ Follows(wire, Arrived)' /\ (Arrived + Len(wire))' = (next - 1)' /\ ~session'.done
        BY <1>1, <2>3, <2>7, <3>2 DEF Chain, Follows
      <3>10. /\ feed = "resolving" => wire = <<0>> /\ Arrived = Chunks /\ ~session.done
             /\ feed = "resolved" => wire = <<>> /\ Arrived = Chunks
        BY <2>7 DEF Chain
      <3> QED BY <1>1, <2>3, <2>4, <3>2, <3>4, <3>6, <3>7, <3>8, <3>9, <3>10 DEF Chain
    <2>8. Unbegun'
      <3>1. ASSUME job.pc = "begin" PROVE FALSE
        BY <1>1, <1>2, <3>1 DEF Unbegun
      <3> QED BY <1>1, <1>2, <3>1 DEF Unbegun
    <2> QED BY <1>1, <2>3, <2>6, <2>7, <2>8, OnTheWay DEF Sane
  <1> QED BY <1>3, <1>4

LEMMA FollowsOn ==
    ASSUME NEW s \in Seq(Nat), NEW t \in Seq(Nat), Follows(s, 0), Follows(t, Len(s))
    PROVE  Follows(s \o t, 0)
  <1>1. Len(s \o t) = Len(s) + Len(t) /\ Len(s) \in Nat /\ Len(t) \in Nat
    OBVIOUS
  <1>2. ASSUME NEW k \in 1..Len(s \o t) PROVE (s \o t)[k] = 0 + k
    <2>1. CASE k <= Len(s)
      <3>1. k \in 1..Len(s) /\ (s \o t)[k] = s[k]
        BY <1>1, <2>1
      <3> QED BY <3>1 DEF Follows
    <2>2. CASE k > Len(s)
      <3>1. k - Len(s) \in 1..Len(t) /\ (s \o t)[k] = t[k - Len(s)]
        BY <1>1, <2>2
      <3> QED BY <1>1, <3>1 DEF Follows
    <2> QED BY <1>1, <2>1, <2>2
  <1> QED BY <1>2 DEF Follows

LEMMA PulledOK == ASSUME StreamInv, OutputPulled PROVE StreamInv'
  <1>1. /\ pull = "asking" /\ session.open /\ (Len(engine.out) # 0 \/ engine.closed)
        /\ disk' = disk \o engine.out
        /\ pull' = (IF engine.out = <<>> THEN "done" ELSE "on")
        /\ engine' = [engine EXCEPT !.out = <<>>]
        /\ UNCHANGED <<job, feed, next, sent, wire, session, parked>>
    BY DEF OutputPulled, StreamInv, StreamType
  <1>2. StreamType /\ Unbegun
    BY DEF StreamInv
  <1>3. /\ engine' \in EngineRec
        /\ engine'.out = <<>> /\ engine'.closed = engine.closed
    <2>1. engine \in EngineRec /\ <<>> \in Seq(Nat)
      BY <1>2 DEF StreamType
    <2> QED BY <1>1, <2>1, OutEdit
  <1>4. disk \in Seq(Nat) /\ engine.out \in Seq(Nat) /\ disk' \in Seq(Nat)
    BY <1>1, <1>2 DEF StreamType, SessionRec, EngineRec, JobRec
  <1>5. StreamType'
    BY <1>1, <1>2, <1>3, <1>4 DEF StreamType
  <1>6. job.pc \notin {"begin", "starting", "resolved"}
    BY <1>1, <1>2 DEF StreamInv, Unbegun
  <1>7. Unbegun'
    BY <1>1, <1>6 DEF Unbegun
  <1>8. ASSUME Chain PROVE Chain'
    <2>1. Follows(disk, 0) /\ Follows(engine.out, Len(disk)) /\ Follows(session.queue, Passed)
      BY <1>8 DEF Chain
    <2>2. Passed' = Passed /\ Arrived' = Arrived
      BY <1>1, <1>3, <1>4 DEF Passed, Arrived
    <2>3. Follows(disk, 0)'
      BY <1>1, <1>4, <2>1, FollowsOn
    <2>4. Follows(engine.out, Len(disk))' /\ Follows(session.queue, Passed)'
      BY <1>1, <1>3, <2>1, <2>2 DEF Follows
    <2>5. Unheard => Unheard'
      BY <1>1, <2>2 DEF Unheard, InFlight
    <2>6. Follows(wire, Arrived) => Follows(wire, Arrived)'
      BY <1>1, <2>2 DEF Follows
    <2> QED BY <1>1, <1>3, <1>8, <2>2, <2>3, <2>4, <2>5, <2>6 DEF Chain
  <1>9. ASSUME pull' = "done", Sane', job'.pc \notin {"refused", "rejected"} PROVE Whole'
    <2>1. engine.out = <<>> /\ engine.closed /\ Sane
      BY <1>1, <1>4, <1>9 DEF Sane
    <2>2. Chain
      BY <1>1, <1>9, <2>1 DEF StreamInv
    <2>3. session.done /\ session.queue = <<>>
      BY <2>1, <2>2 DEF Chain
    <2>4. Arrived = Chunks
      BY <2>1, <2>2, <2>3 DEF Chain, Sane
    <2>5. Len(disk) = Chunks /\ disk' = disk
      BY <1>1, <1>4, <2>1, <2>3, <2>4 DEF Arrived, Passed
    <2> QED BY <2>2, <2>5 DEF Chain, Whole, Follows
  <1>10. Sane' /\ session'.open /\ ~session'.error => Chain'
    BY <1>1, <1>8 DEF StreamInv, Sane
  <1>11. session'.error => job'.pc = "refused" \/ pull' = "failed"
    BY <1>1 DEF StreamInv
  <1> QED BY <1>1, <1>5, <1>6, <1>7, <1>9, <1>10, <1>11 DEF StreamInv

LEMMA StreamStill == ASSUME StreamInv, UNCHANGED streamVars PROVE StreamInv'
  <1>1. UNCHANGED <<job, feed, next, sent, pull, disk, wire, session, parked, engine, lost>>
    BY DEF streamVars
  <1>2. StreamType' /\ Unbegun'
    BY <1>1 DEF StreamInv, StreamType, Unbegun
  <1> QED BY <1>1, <1>2, Elsewhere

LEMMA StreamStep == ASSUME StreamInv, [StreamNext]_streamVars PROVE StreamInv'
  BY BeginJobOK, AppOK, RefusedOK, FeedChunkOK, FeedEndsOK, EndingsOK, ChunkOK, FinishOK, ReadOK, PulledOK, StreamStill
     DEF StreamNext, StreamSteps

\* fileCryptoService.ts:246.
THEOREM SuccessIsTheWholeFile == StreamSpec => []WholeFileOrFailure
  <1>1. StreamInv => WholeFileOrFailure
    BY ChunksNat DEF StreamInv, StreamType, Whole, Follows, WholeFileOrFailure
  <1> QED BY <1>1, StreamInitInv, StreamStep, PTL DEF StreamSpec

-----------------------------------------------------------------------------
(* The secure storage: what a store holds may have been left there.        *)

CallRec == [pc : {"rest", "cipher", "sqlite", "secure", "decrypt", "clean", "return"},
            op : {"none", "set", "delete", "get"}, value : 0..LastValue, long : BOOLEAN,
            meets : SUBSET (0..LastValue)]

StoresType ==
    /\ secure \in 0..Pointer /\ sqlite \in 0..LastValue /\ written \in 0..LastValue
    /\ possible \subseteq 0..LastValue
    /\ caller \in [Caller -> CallRec]

\* The steps each kind of call goes through.
Shape(r) ==
    \/ r.op = "none" /\ r.pc = "rest"
    \/ r.op = "set" /\ r.pc \in {"cipher", "sqlite", "secure"} /\ r.value # 0 /\ (r.pc = "cipher" => r.long)
    \/ r.op = "delete" /\ r.pc \in {"secure", "sqlite"} /\ r.value = 0
    \/ r.op = "get" /\ r.pc \in {"secure", "sqlite", "cipher", "decrypt", "clean", "return"}
       /\ (r.pc \in {"secure", "sqlite", "clean"} => r.value = 0)
       /\ (r.pc \in {"cipher", "decrypt"} => r.value # 0)

\* What the stores hold was written by a call that may have left it, or by one under way.
Left ==
    /\ secure \in Value => secure \in possible
    /\ sqlite # 0 => sqlite \in possible
    /\ \A a \in Caller : Changing(a) => caller[a].value \in possible

\* Calls that overlap know of each other.
Met == \A a, b \in Caller : Changing(a) /\ caller[b].pc # "rest" => caller[a].value \in caller[b].meets

\* What the store a call does not write again holds is what this call or one it overlaps wrote.
Fits(r) ==
    /\ r.op = "get" => /\ secure \in Value => secure \in r.meets
                       /\ sqlite # 0 => sqlite \in r.meets
                       /\ r.value # 0 => r.value \in r.meets
    /\ r.op = "set" /\ r.pc = "secure" => (sqlite # 0 => sqlite \in r.meets)
    /\ r.op = "delete" /\ r.pc = "sqlite" => (secure \in Value => secure \in r.meets)

Alone == \A a, b \in Caller : caller[a].pc # "rest" /\ caller[b].pc # "rest" => a = b

\* Something can be read wherever nothing was deleted.
Kept ==
    \/ 0 \in possible
    \/ secure # 0 /\ (secure = Pointer => sqlite # 0)
    \/ \E c \in Caller : Shrinking(c)

\* What a call that is alone has seen is still so.
Knows(r) ==
    /\ r.op = "set" /\ r.pc = "secure" /\ r.long => sqlite # 0
    /\ r.op = "get" => /\ possible \subseteq r.meets
                       /\ r.pc = "sqlite" => secure = Pointer
                       /\ r.pc = "clean" => 0 \in possible
                       /\ r.pc = "return" /\ r.value = 0 => 0 \in r.meets

StoresInv ==
    /\ StoresType /\ Left /\ Met
    /\ \A c \in Caller : Shape(caller[c]) /\ Fits(caller[c])
    /\ whole => Alone /\ Kept /\ \A c \in Caller : Knows(caller[c])

LEMMA ValuesNat == LastValue \in Nat /\ Pointer = LastValue + 1 /\ Value = 1..LastValue
  BY StorageAssumption DEF Pointer, Value

LEMMA RestRec == NoCall \in CallRec /\ NoCall.pc = "rest" /\ NoCall.op = "none"
  <1>1. 0 \in 0..LastValue /\ {} \in SUBSET (0..LastValue)
    BY ValuesNat
  <1>2. NoCall \in CallRec
    BY <1>1 DEF NoCall, CallRec
  <1> QED BY <1>2 DEF NoCall

LEMMA StorageInitInv == StorageInit => StoresInv
  <1> SUFFICES ASSUME StorageInit PROVE StoresInv
    OBVIOUS
  <1>1. StoresType
    BY ValuesNat, RestRec DEF StorageInit, StoresType
  <1>2. \A c \in Caller : caller[c].pc = "rest" /\ caller[c].op = "none"
    BY RestRec DEF StorageInit
  <1>3. Left /\ Met /\ Alone /\ Kept
    BY <1>2, ValuesNat DEF StorageInit, Left, Met, Alone, Kept, Changing
  <1>4. \A c \in Caller : Shape(caller[c]) /\ Fits(caller[c]) /\ Knows(caller[c])
    BY <1>2 DEF Shape, Fits, Knows
  <1> QED BY <1>1, <1>3, <1>4 DEF StoresInv

LEMMA FirstRec ==
    ASSUME NEW op \in {"delete", "get"}, NEW r, r = [NoCall EXCEPT !.pc = "secure", !.op = op]
    PROVE  r \in CallRec /\ r.pc = "secure" /\ r.op = op /\ r.value = 0
  <1>1. ASSUME NEW s \in CallRec, s.value = 0, NEW t, t = [s EXCEPT !.pc = "secure", !.op = op]
        PROVE  t \in CallRec /\ t.pc = "secure" /\ t.op = op /\ t.value = 0
    BY <1>1 DEF CallRec
  <1>2. NoCall.value = 0
    BY DEF NoCall
  <1> QED BY <1>1, <1>2, RestRec

\* The call of c goes on as r says, or is over.
Moves(c, r) ==
    /\ caller' \in [Caller -> CallRec] /\ caller'[c] = r
    /\ \A o \in Caller : o # c => caller'[o] = caller[o]

Proceeds(c, r) ==
    /\ Moves(c, r)
    /\ caller[c].pc # "rest"
    /\ \/ r.op = "none" /\ r.pc = "rest"
       \/ /\ r.op = caller[c].op /\ r.pc # "rest" /\ r.meets = caller[c].meets
          /\ r.op # "get" => r.value = caller[c].value

\* A call writes nothing to a store but its own value.
Writes(c) ==
    /\ secure' \in {secure, 0, Pointer} \/ (Changing(c) /\ secure' = caller[c].value)
    /\ sqlite' \in {sqlite, 0} \/ (Changing(c) /\ sqlite' = caller[c].value)

Leaves(c, r) ==
    \/ possible' = possible
    \/ /\ Changing(c) /\ r.op = "none" /\ possible' = caller[c].meets
       /\ secure' \in Value => secure' \in caller[c].meets
       /\ sqlite' # 0 => sqlite' \in caller[c].meets

LEMMA CallFields ==
    ASSUME StoresInv, NEW c \in Caller
    PROVE  /\ caller[c] \in CallRec /\ caller[c].value \in 0..LastValue
           /\ caller[c].meets \in SUBSET (0..LastValue)
           /\ Shape(caller[c]) /\ Fits(caller[c])
           /\ (caller[c].pc = "rest") = (caller[c].op = "none")
           /\ Changing(c) => caller[c].value \in caller[c].meets /\ caller[c].value \in possible
  <1>1. caller[c] \in CallRec /\ Shape(caller[c]) /\ Fits(caller[c])
    BY DEF StoresInv, StoresType
  <1>2. caller[c].value \in 0..LastValue /\ caller[c].meets \in SUBSET (0..LastValue)
    BY <1>1 DEF CallRec
  <1>3. (caller[c].pc = "rest") = (caller[c].op = "none")
    BY <1>1 DEF Shape
  <1>4. Changing(c) => caller[c].pc # "rest"
    BY <1>3 DEF Changing
  <1> QED BY <1>1, <1>2, <1>3, <1>4 DEF StoresInv, Left, Met

LEMMA StepOK ==
    ASSUME StoresInv, NEW c \in Caller, NEW r \in CallRec, Proceeds(c, r), Shape(r), Writes(c), written' = written,
           Leaves(c, r), Fits(r)', whole' => whole /\ Kept' /\ Knows(r)'
    PROVE  StoresInv'
  <1> USE DEF StoresInv
  <1>1. Moves(c, r) /\ caller[c].pc # "rest"
    BY DEF Proceeds
  <1>2. /\ caller[c].value \in 0..LastValue /\ caller[c].meets \in SUBSET (0..LastValue)
        /\ Changing(c) => caller[c].value \in possible
    BY CallFields
  <1>3. secure' \in 0..Pointer /\ sqlite' \in 0..LastValue
    BY <1>2, ValuesNat DEF Writes, StoresType
  <1>4. possible' \subseteq 0..LastValue
    BY <1>2 DEF Leaves, StoresType
  <1>5. StoresType'
    BY <1>1, <1>3, <1>4 DEF StoresType, Moves
  <1>6. \A a \in Caller : caller'[a].op \in {"set", "delete"} => Changing(a) /\ caller'[a].value = caller[a].value
    BY <1>1 DEF Proceeds, Moves, Changing
  <1>7. \A b \in Caller : caller'[b].pc # "rest" => caller[b].pc # "rest" /\ caller'[b].meets = caller[b].meets
    BY <1>1 DEF Proceeds, Moves
  <1>8. Met'
    BY <1>6, <1>7 DEF Met, Changing
  <1>9. Left'
    <2>1. CASE possible' = possible
      <3>1. Pointer \notin Value
        BY ValuesNat
      <3>2. (secure' \in Value => secure' \in possible) /\ (sqlite' # 0 => sqlite' \in possible)
        BY <1>2, <3>1, ValuesNat DEF Writes, Left
      <3>3. \A a \in Caller : Changing(a)' => caller'[a].value \in possible
        BY <1>6 DEF Left, Changing
      <3> QED BY <2>1, <3>2, <3>3 DEF Left
    <2>2. CASE possible' # possible
      <3>1. /\ possible' = caller[c].meets
            /\ secure' \in Value => secure' \in caller[c].meets
            /\ sqlite' # 0 => sqlite' \in caller[c].meets
        BY <2>2 DEF Leaves
      <3>2. \A a \in Caller : Changing(a)' => caller'[a].value \in caller[c].meets
        BY <1>1, <1>6 DEF Met, Changing
      <3> QED BY <3>1, <3>2 DEF Left
    <2> QED BY <2>1, <2>2
  <1>10. ASSUME NEW b \in Caller PROVE Shape(caller'[b]) /\ Fits(caller[b])'
    <2>1. CASE b = c
      BY <1>1, <2>1 DEF Moves
    <2>2. CASE b # c
      <3>1. caller'[b] = caller[b] /\ Shape(caller[b]) /\ Fits(caller[b])
        BY <1>1, <2>2 DEF Moves
      <3>2. caller[b].op # "none" => caller[b].pc # "rest"
        BY CallFields
      <3>3. Changing(c) /\ caller[b].op # "none" => caller[c].value \in caller[b].meets
        BY <3>2 DEF Met
      <3>4. caller[b].op # "none" => \/ secure' \in {secure, 0, Pointer}
                                     \/ secure' \in caller[b].meets
        BY <3>3 DEF Writes
      <3>5. caller[b].op # "none" => \/ sqlite' \in {sqlite, 0}
                                     \/ sqlite' \in caller[b].meets
        BY <3>3 DEF Writes
      <3>6. Pointer \notin Value /\ 0 \notin Value
        BY ValuesNat
      <3>7. Fits(caller[b])'
        BY <3>1, <3>4, <3>5, <3>6 DEF Fits
      <3> QED BY <3>1, <3>7
    <2> QED BY <2>1, <2>2
  <1>11. whole' => Alone'
    BY <1>7 DEF Alone
  <1>12. ASSUME whole', NEW b \in Caller PROVE Knows(caller[b])'
    <2>1. CASE b = c
      BY <1>1, <1>12, <2>1 DEF Moves
    <2>2. CASE b # c
      <3>1. caller[b].pc = "rest"
        BY <1>1, <1>12, <2>2 DEF Alone
      <3>2. caller'[b].op = "none"
        BY <1>1, <2>2, <3>1, CallFields DEF Moves
      <3> QED BY <3>2 DEF Knows
    <2> QED BY <2>1, <2>2
  <1> QED BY <1>5, <1>8, <1>9, <1>10, <1>11, <1>12

Steps == {"cipher", "sqlite", "secure", "decrypt", "clean", "return"}

\* The call of c takes its next step, a read perhaps with what it found.
Goes(c, pc, v) ==
    \/ caller' = [caller EXCEPT ![c].pc = pc] /\ v = caller[c].value
    \/ caller' = [caller EXCEPT ![c].pc = pc, ![c].value = v] /\ caller[c].op = "get"

GoesAs(c, pc, v, r) ==
    /\ Proceeds(c, r) /\ r.pc = pc /\ r.op = caller[c].op /\ r.value = v
    /\ r.long = caller[c].long /\ r.meets = caller[c].meets

LEMMA NextStep ==
    ASSUME StoresInv, NEW c \in Caller, caller[c].pc # "rest", NEW pc \in Steps, NEW v \in 0..LastValue,
           Goes(c, pc, v)
    PROVE  \E r \in CallRec : GoesAs(c, pc, v, r)
  <1> USE DEF Goes, GoesAs
  <1>1. caller \in [Caller -> CallRec] /\ caller[c] \in CallRec
    BY DEF StoresInv, StoresType
  <1>2. PICK r : r = [caller[c] EXCEPT !.pc = pc, !.value = v]
    OBVIOUS
  <1>3. /\ r \in CallRec /\ r.pc = pc /\ r.op = caller[c].op /\ r.value = v /\ r.long = caller[c].long
        /\ r.meets = caller[c].meets
    BY <1>1, <1>2 DEF CallRec, Steps
  <1>4. caller' = [caller EXCEPT ![c] = r]
    <2>1. CASE caller' = [caller EXCEPT ![c].pc = pc] /\ v = caller[c].value
      <3>1. [caller[c] EXCEPT !.pc = pc] = r
        BY <1>1, <1>2, <2>1 DEF CallRec
      <3> QED BY <1>1, <2>1, <3>1
    <2>2. CASE caller' = [caller EXCEPT ![c].pc = pc, ![c].value = v]
      BY <1>1, <1>2, <2>2
    <2> QED BY <2>1, <2>2
  <1>5. Moves(c, r)
    BY <1>1, <1>3, <1>4 DEF Moves
  <1>6. Proceeds(c, r)
    BY <1>3, <1>5 DEF Proceeds, Steps
  <1> QED BY <1>3, <1>6

LEMMA CallEnds ==
    ASSUME StoresInv, NEW c \in Caller, caller[c].pc # "rest", caller' = [caller EXCEPT ![c] = NoCall]
    PROVE  \E r \in CallRec : Proceeds(c, r) /\ r.pc = "rest" /\ r.op = "none"
  <1>1. PICK r \in CallRec : r = NoCall /\ r.pc = "rest" /\ r.op = "none"
    BY RestRec
  <1>2. Proceeds(c, r)
    BY <1>1 DEF Proceeds, Moves, StoresInv, StoresType
  <1> QED BY <1>1, <1>2

\* Alone, a call moves on without a short value stopping half-way.
LEMMA KeptBy ==
    ASSUME \/ 0 \in possible'
           \/ secure' # 0 /\ (secure' = Pointer => sqlite' # 0)
           \/ \E c \in Caller : Shrinking(c)'
    PROVE  Kept'
  BY DEF Kept

\* No other call is under way, so that none is half-way.
LEMMA OnlyOne ==
    ASSUME StoresInv, whole, NEW c \in Caller, caller[c].pc # "rest"
    PROVE  /\ \A o \in Caller : o # c => caller[o].pc = "rest"
           /\ Knows(caller[c])
           /\ ~Shrinking(c) => 0 \in possible \/ (secure # 0 /\ (secure = Pointer => sqlite # 0))
  <1>1. \A o \in Caller : o # c => caller[o].pc = "rest"
    BY DEF StoresInv, Alone
  <1>2. \A o \in Caller : o # c => ~Shrinking(o)
    BY <1>1 DEF Shrinking
  <1> QED BY <1>1, <1>2 DEF StoresInv, Kept

LEMMA SetOK == ASSUME StoresInv, NEW c \in Caller, SetStep(c) PROVE StoresInv'
  <1>1. /\ caller[c].op = "set" /\ caller[c].pc # "rest" /\ Changing(c) /\ whole' = whole /\ written' = written
        /\ caller[c].value \in 0..LastValue /\ caller[c].value # 0
        /\ caller[c].value \in caller[c].meets /\ caller[c].value \in possible
        /\ Fits(caller[c]) /\ caller[c].meets \in SUBSET (0..LastValue)
    BY CallFields DEF SetStep, GoTo, Over, Shape, Changing
  <1>2. CASE caller[c].pc = "sqlite"
    <2>1. /\ sqlite' = (IF caller[c].long THEN caller[c].value ELSE 0) /\ secure' = secure
          /\ caller' = [caller EXCEPT ![c].pc = "secure"] /\ possible' = possible
      BY <1>2 DEF SetStep, GoTo
    <2>2. PICK r \in CallRec : /\ Proceeds(c, r) /\ r.pc = "secure" /\ r.op = "set" /\ r.value = caller[c].value
                               /\ r.long = caller[c].long /\ r.meets = caller[c].meets
      <3>1. "secure" \in Steps
        BY DEF Steps
      <3>2. PICK v \in 0..LastValue : v = caller[c].value
        BY <1>1
      <3>3. Goes(c, "secure", v)
        BY <1>1, <2>1, <3>2 DEF Goes
      <3>4. PICK r \in CallRec : GoesAs(c, "secure", v, r)
        BY <1>1, <3>1, <3>3, NextStep
      <3> QED BY <1>1, <3>2, <3>4 DEF GoesAs
    <2>3. Shape(r) /\ Writes(c) /\ Leaves(c, r)
      BY <1>1, <2>1, <2>2 DEF Shape, Writes, Leaves
    <2>4. Fits(r)'
      BY <1>1, <2>1, <2>2 DEF Fits
    <2>5. ASSUME whole PROVE Kept' /\ Knows(r)'
      <3>1. Knows(r)'
        BY <1>1, <2>1, <2>2 DEF Knows
      <3>2. CASE caller[c].long
        <4>1. sqlite' # 0
          BY <1>1, <2>1, <3>2
        <4>2. 0 \in possible \/ secure # 0
          BY <1>1, <1>2, <2>5, OnlyOne DEF Shrinking
        <4>3. 0 \in possible' \/ (secure' # 0 /\ (secure' = Pointer => sqlite' # 0))
          BY <2>1, <4>1, <4>2
        <4> QED BY <3>1, <4>3 DEF Kept
      <3>3. CASE ~caller[c].long
        <4>1. caller'[c] = r
          BY <2>2 DEF Proceeds, Moves
        <4>2. Shrinking(c)'
          BY <2>2, <3>3, <4>1 DEF Shrinking
        <4> QED BY <3>1, <4>2 DEF Kept
      <3> QED BY <3>1, <3>2, <3>3
    <2> QED BY <1>1, <2>2, <2>3, <2>4, <2>5, StepOK
  <1>3. CASE caller[c].pc = "secure"
    <2>1. /\ secure' = (IF caller[c].long THEN Pointer ELSE caller[c].value) /\ sqlite' = sqlite
          /\ caller' = [caller EXCEPT ![c] = NoCall] /\ possible' = caller[c].meets
      BY <1>1, <1>3 DEF SetStep, Over
    <2>2. PICK r \in CallRec : Proceeds(c, r) /\ r.pc = "rest" /\ r.op = "none"
      BY <1>1, <2>1, CallEnds
    <2>3. Pointer \notin Value /\ caller[c].value # Pointer /\ Pointer # 0
      BY <1>1, ValuesNat
    <2>4. Shape(r) /\ Writes(c) /\ Fits(r)' /\ Knows(r)'
      BY <1>1, <2>1, <2>2 DEF Shape, Writes, Fits, Knows
    <2>5. Leaves(c, r)
      BY <1>1, <1>3, <2>1, <2>2, <2>3 DEF Leaves, Fits
    <2>6. ASSUME whole PROVE Kept'
      <3>1. caller[c].long => sqlite # 0
        BY <1>1, <1>3, <2>6, OnlyOne DEF Knows
      <3>2. secure' # 0 /\ (secure' = Pointer => sqlite' # 0)
        BY <1>1, <2>1, <2>3, <3>1
      <3> QED BY <3>2, KeptBy
    <2> QED BY <1>1, <2>2, <2>4, <2>5, <2>6, StepOK
  <1> QED BY <1>2, <1>3 DEF SetStep

LEMMA DeleteOK == ASSUME StoresInv, NEW c \in Caller, DeleteStep(c) PROVE StoresInv'
  <1>1. /\ caller[c].op = "delete" /\ caller[c].pc # "rest" /\ Changing(c) /\ whole' = whole /\ written' = written
        /\ caller[c].value = 0 /\ 0 \in caller[c].meets /\ 0 \in possible
        /\ Fits(caller[c]) /\ caller[c].meets \in SUBSET (0..LastValue)
    BY CallFields DEF DeleteStep, GoTo, Over, Shape, Changing
  <1>2. CASE caller[c].pc = "secure"
    <2>1. /\ secure' = 0 /\ sqlite' = sqlite
          /\ caller' = [caller EXCEPT ![c].pc = "sqlite"] /\ possible' = possible
      BY <1>2 DEF DeleteStep, GoTo
    <2>2. PICK r \in CallRec : /\ Proceeds(c, r) /\ r.pc = "sqlite" /\ r.op = "delete" /\ r.value = caller[c].value
                               /\ r.long = caller[c].long /\ r.meets = caller[c].meets
      <3>1. "sqlite" \in Steps /\ caller[c].value \in 0..LastValue
        BY CallFields DEF Steps
      <3>2. PICK v \in 0..LastValue : v = caller[c].value
        BY <3>1
      <3>3. Goes(c, "sqlite", v)
        BY <1>1, <2>1, <3>2 DEF Goes
      <3>4. PICK r \in CallRec : GoesAs(c, "sqlite", v, r)
        BY <1>1, <3>1, <3>3, NextStep
      <3> QED BY <1>1, <3>2, <3>4 DEF GoesAs
    <2>3. Shape(r) /\ Writes(c) /\ Leaves(c, r) /\ Knows(r)'
      BY <1>1, <2>1, <2>2 DEF Shape, Writes, Leaves, Knows
    <2>4. Fits(r)' /\ Kept'
      BY <1>1, <2>1, <2>2, ValuesNat, KeptBy DEF Fits
    <2> QED BY <1>1, <2>2, <2>3, <2>4, StepOK
  <1>3. CASE caller[c].pc = "sqlite"
    <2>1. /\ sqlite' = 0 /\ secure' = secure
          /\ caller' = [caller EXCEPT ![c] = NoCall] /\ possible' = caller[c].meets
      BY <1>1, <1>3 DEF DeleteStep, Over
    <2>2. PICK r \in CallRec : Proceeds(c, r) /\ r.pc = "rest" /\ r.op = "none"
      BY <1>1, <2>1, CallEnds
    <2>3. Shape(r) /\ Writes(c) /\ Fits(r)' /\ Knows(r)'
      BY <1>1, <2>1, <2>2 DEF Shape, Writes, Fits, Knows
    <2>4. Leaves(c, r) /\ Kept'
      BY <1>1, <1>3, <2>1, <2>2, KeptBy DEF Leaves, Fits
    <2> QED BY <1>1, <2>2, <2>3, <2>4, StepOK
  <1> QED BY <1>2, <1>3 DEF DeleteStep

LEMMA KeyOK == ASSUME StoresInv, NEW c \in Caller, LoadKey(c) PROVE StoresInv'
  <1>1. /\ caller[c].pc = "cipher" /\ caller[c].op \in {"set", "get"} /\ Shape(caller[c]) /\ Fits(caller[c])
        /\ caller[c].value \in 0..LastValue /\ caller[c].value # 0
        /\ UNCHANGED <<secure, sqlite, written, possible, whole>>
        /\ caller' = [caller EXCEPT ![c].pc = IF caller[c].op = "set" THEN "sqlite" ELSE "decrypt"]
    BY CallFields DEF LoadKey, GoTo, Shape
  <1>2. PICK r \in CallRec : /\ Proceeds(c, r) /\ r.pc = (IF caller[c].op = "set" THEN "sqlite" ELSE "decrypt")
                             /\ r.op = caller[c].op /\ r.value = caller[c].value
                             /\ r.long = caller[c].long /\ r.meets = caller[c].meets
    <2>1. PICK pc \in Steps : pc = IF caller[c].op = "set" THEN "sqlite" ELSE "decrypt"
      BY DEF Steps
    <2>2. PICK v \in 0..LastValue : v = caller[c].value
      BY <1>1
    <2>3. caller[c].pc # "rest" /\ caller' = [caller EXCEPT ![c].pc = pc]
      BY <1>1, <2>1
    <2>4. Goes(c, pc, v)
      BY <2>2, <2>3 DEF Goes
    <2>5. PICK r \in CallRec : GoesAs(c, pc, v, r)
      BY <2>2, <2>3, <2>4, NextStep
    <2> QED BY <2>1, <2>2, <2>5 DEF GoesAs
  <1>3. Shape(r) /\ Writes(c) /\ Leaves(c, r) /\ Fits(r)'
    BY <1>1, <1>2 DEF Shape, Writes, Leaves, Fits
  <1>4. ASSUME whole PROVE Kept' /\ Knows(r)'
    <2>1. Knows(caller[c]) /\ (0 \in possible \/ (secure # 0 /\ (secure = Pointer => sqlite # 0)))
      BY <1>1, <1>4, OnlyOne DEF Shrinking
    <2> QED BY <1>1, <1>2, <2>1, KeptBy DEF Knows
  <1> QED BY <1>1, <1>2, <1>3, <1>4, StepOK

\* A read that writes nothing goes on with what is true of both stores.
LEMMA GetGoes ==
    ASSUME StoresInv, NEW c \in Caller, caller[c].op = "get", UNCHANGED <<sqlite, written, possible, whole>>,
           secure' \in {secure, 0}, NEW pc \in Steps, NEW v \in 0..LastValue, Goes(c, pc, v), pc # "rest",
           pc \in {"secure", "sqlite", "clean"} => v = 0,
           pc \in {"cipher", "decrypt"} => v # 0,
           v # 0 => v \in caller[c].meets,
           whole => /\ 0 \in possible \/ (secure' # 0 /\ (secure' = Pointer => sqlite # 0))
                    /\ pc = "sqlite" => secure' = Pointer
                    /\ pc = "clean" => 0 \in possible
                    /\ pc = "return" /\ v = 0 => 0 \in caller[c].meets
    PROVE  StoresInv'
  <1>1. /\ caller[c].pc # "rest" /\ Fits(caller[c]) /\ Shape(caller[c])
    BY CallFields
  <1>2. PICK r \in CallRec : GoesAs(c, pc, v, r)
    BY <1>1, NextStep
  <1>3. /\ Proceeds(c, r) /\ r.pc = pc /\ r.op = "get" /\ r.value = v /\ r.meets = caller[c].meets
    BY <1>2 DEF GoesAs
  <1>4. Shape(r) /\ Writes(c) /\ Leaves(c, r)
    BY <1>3 DEF Shape, Writes, Leaves, Steps
  <1>5. Fits(r)'
    <2>1. 0 \notin Value
      BY ValuesNat
    <2> QED BY <1>1, <1>3, <2>1 DEF Fits
  <1>6. ASSUME whole PROVE Kept' /\ Knows(r)'
    <2>1. Kept'
      BY <1>6 DEF Kept
    <2>2. Knows(caller[c])
      BY <1>1, <1>6, OnlyOne
    <2>3. Knows(r)'
      BY <1>3, <1>6, <2>2 DEF Knows
    <2> QED BY <2>1, <2>3
  <1> QED BY <1>2, <1>3, <1>4, <1>5, <1>6, StepOK

LEMMA GetOK == ASSUME StoresInv, NEW c \in Caller, GetStep(c) PROVE StoresInv'
  <1>1. /\ caller[c].op = "get" /\ caller[c].pc # "rest" /\ caller[c].pc \in Steps
        /\ Shape(caller[c]) /\ Fits(caller[c])
        /\ caller[c].value \in 0..LastValue /\ caller[c].meets \in SUBSET (0..LastValue)
    BY CallFields DEF GetStep, Steps
  <1>2. /\ UNCHANGED <<sqlite, written, possible, whole>> /\ secure' \in {secure, 0}
    BY <1>1 DEF GetStep, GoTo, Over, Changing
  <1>3. ASSUME whole
        PROVE  /\ Knows(caller[c])
               /\ 0 \in possible \/ (secure # 0 /\ (secure = Pointer => sqlite # 0))
    BY <1>1, <1>3, OnlyOne DEF Shrinking
  <1>4. secure \in 0..Pointer /\ sqlite \in 0..LastValue /\ Pointer # 0
    BY ValuesNat DEF StoresInv, StoresType
  <1>5. CASE caller[c].pc = "secure"
    <2>1. secure' = secure /\ caller[c].value = 0
      BY <1>1, <1>5 DEF GetStep, Shape
    <2>2. CASE secure = Pointer
      <3>1. PICK pc \in Steps, v \in 0..LastValue : pc = "sqlite" /\ v = 0
        BY <1>1, <2>1 DEF Steps
      <3>2. Goes(c, pc, v)
        BY <1>5, <2>1, <2>2, <3>1 DEF GetStep, GoTo, Goes
      <3> QED BY <1>1, <1>2, <1>3, <2>1, <2>2, <3>1, <3>2, GetGoes
    <2>3. CASE secure # Pointer
      <3>1. secure \in 0..LastValue /\ (secure # 0 => secure \in Value)
        BY <1>4, <2>3, ValuesNat
      <3>2. PICK pc \in Steps, v \in 0..LastValue : pc = "return" /\ v = secure
        BY <3>1 DEF Steps
      <3>3. Goes(c, pc, v)
        BY <1>1, <1>5, <2>3, <3>2 DEF GetStep, Goes
      <3>4. v # 0 => v \in caller[c].meets
        BY <1>1, <3>1, <3>2 DEF Fits
      <3>5. whole /\ v = 0 => 0 \in caller[c].meets
        BY <1>1, <1>3, <3>2 DEF Knows
      <3> QED BY <1>1, <1>2, <1>3, <2>1, <3>2, <3>3, <3>4, <3>5, GetGoes
    <2> QED BY <2>2, <2>3
  <1>6. CASE caller[c].pc = "sqlite"
    <2>1. secure' = secure /\ caller[c].value = 0
      BY <1>1, <1>6 DEF GetStep, Shape
    <2>2. whole => secure = Pointer
      BY <1>1, <1>3, <1>6 DEF Knows
    <2>3. CASE sqlite = 0
      <3>1. PICK pc \in Steps, v \in 0..LastValue : pc = "clean" /\ v = 0
        BY <1>1, <2>1 DEF Steps
      <3>2. Goes(c, pc, v)
        BY <1>6, <2>1, <2>3, <3>1 DEF GetStep, GoTo, Goes
      <3>3. whole => 0 \in possible
        BY <1>3, <2>2, <2>3
      <3> QED BY <1>1, <1>2, <1>3, <2>1, <3>1, <3>2, <3>3, GetGoes
    <2>4. CASE sqlite # 0
      <3>1. PICK pc \in Steps, v \in 0..LastValue : pc = "cipher" /\ v = sqlite
        BY <1>4 DEF Steps
      <3>2. Goes(c, pc, v)
        BY <1>1, <1>6, <2>4, <3>1 DEF GetStep, Goes
      <3>3. v \in caller[c].meets
        BY <1>1, <2>4, <3>1 DEF Fits
      <3> QED BY <1>1, <1>2, <1>3, <2>1, <2>4, <3>1, <3>2, <3>3, GetGoes
    <2> QED BY <2>3, <2>4
  <1>7. CASE caller[c].pc = "decrypt"
    <2>1. secure' = secure /\ caller[c].value # 0
      BY <1>1, <1>7 DEF GetStep, Shape
    <2>2. PICK pc \in Steps, v \in 0..LastValue : pc = "return" /\ v = caller[c].value
      BY <1>1 DEF Steps
    <2>3. Goes(c, pc, v)
      BY <1>7, <2>2 DEF GetStep, GoTo, Goes
    <2>4. v # 0 /\ v \in caller[c].meets
      BY <1>1, <2>1, <2>2 DEF Fits
    <2> QED BY <1>1, <1>2, <1>3, <2>1, <2>2, <2>3, <2>4, GetGoes
  <1>8. CASE caller[c].pc = "clean"
    <2>1. secure' = 0 /\ caller[c].value = 0
      BY <1>1, <1>8 DEF GetStep, Shape
    <2>2. PICK pc \in Steps, v \in 0..LastValue : pc = "return" /\ v = 0
      BY <1>1, <2>1 DEF Steps
    <2>3. Goes(c, pc, v)
      BY <1>8, <2>1, <2>2 DEF GetStep, GoTo, Goes
    <2>4. whole => 0 \in possible /\ 0 \in caller[c].meets
      BY <1>1, <1>3, <1>8 DEF Knows
    <2> QED BY <1>1, <1>2, <2>1, <2>2, <2>3, <2>4, GetGoes
  <1>9. CASE caller[c].pc = "return"
    <2>1. secure' = secure /\ caller' = [caller EXCEPT ![c] = NoCall]
      BY <1>9 DEF GetStep, Over
    <2>2. PICK r \in CallRec : Proceeds(c, r) /\ r.pc = "rest" /\ r.op = "none"
      BY <1>1, <2>1, CallEnds
    <2>3. Shape(r) /\ Writes(c) /\ Leaves(c, r) /\ Fits(r)' /\ Knows(r)'
      BY <1>2, <2>1, <2>2 DEF Shape, Writes, Leaves, Fits, Knows
    <2>4. whole => Kept'
      BY <1>2, <1>3, <2>1 DEF Kept
    <2> QED BY <1>2, <2>2, <2>3, <2>4, StepOK
  <1> QED BY <1>5, <1>6, <1>7, <1>8, <1>9 DEF GetStep

LEMMA FailsOK == ASSUME StoresInv, NEW c \in Caller, Fails(c) PROVE StoresInv'
  <1>1. /\ caller[c].pc # "rest" /\ caller' = [caller EXCEPT ![c] = NoCall]
        /\ UNCHANGED <<secure, sqlite, written, possible>>
        /\ whole' => whole /\ ~Shrinking(c)
    BY DEF Fails
  <1>2. PICK r \in CallRec : Proceeds(c, r) /\ r.pc = "rest" /\ r.op = "none"
    BY <1>1, CallEnds
  <1>3. Shape(r) /\ Writes(c) /\ Leaves(c, r) /\ Fits(r)' /\ Knows(r)'
    BY <1>1, <1>2 DEF Shape, Writes, Leaves, Fits, Knows
  <1>4. whole' => Kept'
    <2>1. SUFFICES ASSUME whole' PROVE Kept'
      OBVIOUS
    <2>2. 0 \in possible \/ (secure # 0 /\ (secure = Pointer => sqlite # 0))
      BY <1>1, <2>1, OnlyOne
    <2> QED BY <1>1, <2>2 DEF Kept
  <1> QED BY <1>1, <1>2, <1>3, <1>4, StepOK

LEMMA CrashOK == ASSUME StoresInv, Crash PROVE StoresInv'
  <1>1. /\ UNCHANGED <<secure, sqlite, written, possible>>
        /\ caller' = [c \in Caller |-> NoCall]
        /\ whole' => whole /\ \A c \in Caller : ~Shrinking(c)
    BY DEF Crash
  <1>2. caller' \in [Caller -> CallRec] /\ \A c \in Caller : caller'[c].pc = "rest" /\ caller'[c].op = "none"
    BY <1>1, RestRec
  <1>3. StoresType' /\ Met' /\ Alone'
    BY <1>1, <1>2 DEF StoresInv, StoresType, Met, Alone
  <1>4. Left'
    BY <1>1, <1>2 DEF StoresInv, Left, Changing
  <1>5. \A c \in Caller : Shape(caller'[c]) /\ Fits(caller[c])' /\ Knows(caller[c])'
    BY <1>2 DEF Shape, Fits, Knows
  <1>6. whole' => Kept'
    BY <1>1 DEF StoresInv, Kept
  <1> QED BY <1>3, <1>4, <1>5, <1>6 DEF StoresInv

\* A call begins, as r but for what it meets.
LEMMA BeginsOK ==
    ASSUME StoresInv, NEW c \in Caller, NEW r \in CallRec, BeginCall(c, r), written' \in 0..LastValue,
           Shape(r), r.pc # "rest",
           r.op = "set" => r.pc # "secure", r.op = "delete" => r.pc = "secure",
           r.op = "get" => r.pc = "secure"
    PROVE  StoresInv'
  <1> DEFINE mine == IF r.op = "get" THEN {} ELSE {r.value}
             theirs == {caller[o].value : o \in {o \in Under : Changing(o)}}
             met == mine \cup theirs \cup (IF r.op = "get" THEN possible ELSE {})
  <1>1. /\ caller[c].pc = "rest" /\ UNCHANGED <<secure, sqlite>> /\ possible' = possible \cup mine
        /\ whole' => whole /\ Under = {}
        /\ caller' = [o \in Caller |->
                 IF o = c THEN [r EXCEPT !.meets = met]
                 ELSE IF o \in Under THEN [caller[o] EXCEPT !.meets = @ \cup mine] ELSE caller[o]]
    BY DEF BeginCall
  <1>2. /\ mine \subseteq 0..LastValue /\ theirs \subseteq 0..LastValue /\ possible \subseteq 0..LastValue
        /\ caller \in [Caller -> CallRec]
    BY CallFields DEF CallRec, StoresInv, StoresType, Under
  <1>3. /\ r.op \in {"set", "delete"} => r.value \in mine
        /\ \A a \in Caller : a \in Under /\ Changing(a) => caller[a].value \in theirs
        /\ r.op = "get" => possible \subseteq met /\ mine = {}
        /\ mine \subseteq met /\ theirs \subseteq met /\ met \subseteq 0..LastValue
    BY <1>2
  <1> HIDE DEF mine, theirs, met
  <1>4. /\ caller'[c] \in CallRec /\ caller'[c].pc = r.pc /\ caller'[c].op = r.op /\ caller'[c].value = r.value
        /\ caller'[c].meets = met /\ caller'[c].long = r.long
    BY <1>1, <1>3 DEF CallRec
  <1>5. ASSUME NEW o \in Caller, o # c
        PROVE  /\ caller'[o] \in CallRec /\ caller'[o].pc = caller[o].pc /\ caller'[o].op = caller[o].op
               /\ caller'[o].value = caller[o].value /\ caller'[o].long = caller[o].long
               /\ caller'[o].meets = IF o \in Under THEN caller[o].meets \cup mine ELSE caller[o].meets
    <2>1. caller[o] \in CallRec
      BY <1>2
    <2>2. CASE o \in Under
      <3>1. caller'[o] = [caller[o] EXCEPT !.meets = @ \cup mine]
        BY <1>1, <1>5, <2>2
      <3> QED BY <1>2, <2>1, <2>2, <3>1 DEF CallRec
    <2>3. CASE o \notin Under
      BY <1>1, <1>5, <2>1, <2>3
    <2> QED BY <2>2, <2>3
  <1>6. StoresType'
    <2>1. caller' \in [Caller -> CallRec]
      BY <1>1, <1>4, <1>5
    <2> QED BY <1>1, <1>2, <2>1 DEF StoresInv, StoresType
  <1>7. Left'
    <2>1. ASSUME NEW a \in Caller, Changing(a)' PROVE caller'[a].value \in possible'
      <3>1. CASE a = c
        BY <1>1, <1>3, <1>4, <2>1, <3>1 DEF Changing
      <3>2. CASE a # c
        BY <1>1, <1>5, <2>1, <3>2 DEF Changing, StoresInv, Left
      <3> QED BY <3>1, <3>2
    <2> QED BY <1>1, <2>1 DEF StoresInv, Left
  <1>8. \A a \in Caller : (a \in Under) = (caller[a].op # "none")
    BY CallFields DEF Under
  <1>9. Met'
    <2>1. ASSUME NEW a \in Caller, NEW b \in Caller, Changing(a)', caller'[b].pc # "rest"
          PROVE  caller'[a].value \in caller'[b].meets
      <3>1. a = c => caller'[a].value \in mine
        BY <1>3, <1>4, <2>1 DEF Changing
      <3>2. a # c => a \in Under /\ Changing(a) /\ caller'[a].value = caller[a].value
        BY <1>5, <1>8, <2>1 DEF Changing
      <3>3. b = c => mine \subseteq caller'[b].meets /\ theirs \subseteq caller'[b].meets
        BY <1>3, <1>4
      <3>4. b # c => /\ caller[b].pc # "rest" /\ mine \subseteq caller'[b].meets
                     /\ caller[b].meets \subseteq caller'[b].meets
        BY <1>5, <2>1 DEF Under
      <3>5. CASE a = c
        BY <3>1, <3>3, <3>4, <3>5
      <3>6. CASE a # c /\ b = c
        BY <1>3, <3>2, <3>3, <3>6
      <3>7. CASE a # c /\ b # c
        BY <3>2, <3>4, <3>7 DEF StoresInv, Met
      <3> QED BY <3>5, <3>6, <3>7
    <2> QED BY <2>1 DEF Met
  <1>10. ASSUME NEW b \in Caller PROVE Shape(caller'[b]) /\ Fits(caller[b])'
    <2>1. CASE b = c
      <3>1. Shape(caller'[b])
        BY <1>4, <2>1 DEF Shape
      <3>2. Fits(caller[b])'
        BY <1>1, <1>3, <1>4, <2>1 DEF Fits, StoresInv, Left, Shape
      <3> QED BY <3>1, <3>2
    <2>2. CASE b # c
      <3>1. Shape(caller[b]) /\ Fits(caller[b]) /\ caller[b].meets \subseteq caller'[b].meets
        BY <1>5, <2>2 DEF StoresInv
      <3>2. Shape(caller'[b])
        BY <1>5, <2>2, <3>1 DEF Shape
      <3>3. Fits(caller[b])'
        BY <1>1, <1>5, <2>2, <3>1 DEF Fits
      <3> QED BY <3>2, <3>3
    <2> QED BY <2>1, <2>2
  <1>11. ASSUME whole' PROVE Alone' /\ Kept' /\ \A b \in Caller : Knows(caller[b])'
    <2>1. whole /\ \A o \in Caller : o # c => caller[o].pc = "rest" /\ caller'[o].pc = "rest" /\ caller'[o].op = "none"
      BY <1>1, <1>5, <1>8, <1>11 DEF Under
    <2>2. Alone'
      BY <2>1 DEF Alone
    <2>3. Kept'
      <3>1. \A o \in Caller : ~Shrinking(o)
        BY <1>1, <2>1 DEF Shrinking
      <3> QED BY <1>1, <2>1, <3>1 DEF StoresInv, Kept
    <2>4. ASSUME NEW b \in Caller PROVE Knows(caller[b])'
      <3>1. CASE b = c
        BY <1>1, <1>3, <1>4, <3>1 DEF Knows
      <3>2. CASE b # c
        BY <2>1, <3>2 DEF Knows
      <3> QED BY <3>1, <3>2
    <2> QED BY <2>2, <2>3, <2>4
  <1> QED BY <1>6, <1>7, <1>9, <1>10, <1>11 DEF StoresInv

LEMMA BeginAnyOK ==
    ASSUME StoresInv, NEW c \in Caller, BeginDelete(c) \/ BeginGet(c) \/ \E long \in BOOLEAN : BeginSet(c, long)
    PROVE  StoresInv'
  <1>1. written \in 0..LastValue /\ LastValue \in Nat
    BY ValuesNat DEF StoresInv, StoresType
  <1>2. CASE BeginDelete(c)
    <2>1. PICK r : r = [NoCall EXCEPT !.pc = "secure", !.op = "delete"]
      OBVIOUS
    <2>2. BeginCall(c, r) /\ written' = written
      BY <1>2, <2>1 DEF BeginDelete
    <2>3. r \in CallRec /\ r.pc = "secure" /\ r.op = "delete" /\ r.value = 0
      BY <1>1, <2>1, FirstRec
    <2> QED BY <1>1, <2>2, <2>3, BeginsOK DEF Shape
  <1>3. CASE BeginGet(c)
    <2>1. PICK r : r = [NoCall EXCEPT !.pc = "secure", !.op = "get"]
      OBVIOUS
    <2>2. BeginCall(c, r) /\ written' = written
      BY <1>3, <2>1 DEF BeginGet
    <2>3. r \in CallRec /\ r.pc = "secure" /\ r.op = "get" /\ r.value = 0
      BY <1>1, <2>1, FirstRec
    <2> QED BY <1>1, <2>2, <2>3, BeginsOK DEF Shape
  <1>4. ASSUME NEW long \in BOOLEAN, BeginSet(c, long) PROVE StoresInv'
    <2>1. PICK r : r = [NoCall EXCEPT !.pc = IF long THEN "cipher" ELSE "sqlite",
                               !.op = "set", !.value = written + 1, !.long = long]
      OBVIOUS
    <2>2. BeginCall(c, r) /\ written' = written + 1 /\ written + 1 \in 0..LastValue
      <3>1. BeginCall(c, r)
        BY <1>4, <2>1, Zenon DEF BeginSet
      <3>2. written' = written + 1 /\ written < LastValue
        BY <1>4 DEF BeginSet
      <3> QED BY <1>1, <3>1, <3>2
    <2>3. r \in CallRec /\ r.pc = (IF long THEN "cipher" ELSE "sqlite") /\ r.op = "set" /\ r.value = written + 1
      BY <1>1, <2>1, <2>2 DEF NoCall, CallRec
    <2>4. r.long = long
      BY <2>1 DEF NoCall
    <2>5. Shape(r)
      BY <1>1, <2>3, <2>4 DEF Shape
    <2> QED BY <2>2, <2>3, <2>5, BeginsOK
  <1> QED BY <1>2, <1>3, <1>4

LEMMA StorageStep == ASSUME StoresInv, [StorageNext]_storageVars PROVE StoresInv'
  <1>1. CASE UNCHANGED storageVars
    BY <1>1 DEF storageVars, StoresInv, StoresType, Left, Met, Fits, Alone, Kept, Knows, Changing, Shrinking
  <1> QED BY <1>1, SetOK, DeleteOK, KeyOK, GetOK, FailsOK, CrashOK, BeginAnyOK DEF StorageNext

\* biometricSecureStorage.ts:101.
THEOREM ReadsStayRegular == StorageSpec => []ReadsAreRegular
  <1>1. ASSUME StoresInv PROVE ReadsAreRegular
    <2>1. ASSUME NEW c \in Caller, caller[c].op = "get", caller[c].pc = "return"
          PROVE  caller[c].value \in caller[c].meets \cup (IF whole THEN {} ELSE {0})
      <3>1. caller[c].value # 0 => caller[c].value \in caller[c].meets
        BY <1>1, <2>1 DEF StoresInv, Fits
      <3>2. whole /\ caller[c].value = 0 => 0 \in caller[c].meets
        BY <1>1, <2>1 DEF StoresInv, Knows
      <3> QED BY <3>1, <3>2
    <2> QED BY <2>1 DEF ReadsAreRegular
  <1> QED BY <1>1, StorageInitInv, StorageStep, PTL DEF StorageSpec

-----------------------------------------------------------------------------
(* The key vault: one mutation at a time, interrupted wherever it may be.   *)

\* What the server keeps of a key, and the calls a mutation has still to make.
KeyRecord == [fp : Fingerprint, private : Half, public : Half, isDefault : BOOLEAN, passphrase : BOOLEAN]
MutationKind == {"create", "import", "delete", "setDefault", "revise", "revoke", "verify", "forget"}
RecordWrite == [op : {"put", "add", "delete"}, at : Nat, key : KeyRecord]
               \cup {[op |-> "withdraw", at |-> 0, key |-> NoKey]}
LocalState == [pc : {"rest", "read", "engine", "write"}, kind : MutationKind \cup {"none"},
               fp : Fingerprint \cup {NoFingerprint}, key : KeyRecord \cup {NoKey},
               asDefault : BOOLEAN, asked : BOOLEAN, writes : Seq(RecordWrite)]

VaultTypes ==
    /\ vault \in Seq(KeyRecord \cup {NoKey})
    /\ listed \in [Fingerprint -> [private : Half, public : Half]]
    /\ consented \in BOOLEAN
    /\ mutation \in [Mutation -> LocalState]

Standing(v) == {r \in DOMAIN v : v[r] # NoKey}
OneDefault(v) == \A r, q \in Standing(v) : v[r].isDefault /\ v[q].isDefault => r = q
HasPrivate(v, keys) == \A k \in keys : \E r \in Standing(v) : v[r].fp = k /\ v[r].private # "none"

Touches(w) == w.op \in {"put", "delete"}
Sets(w) == w.op \in {"put", "add"} /\ w.key.isDefault

\* The calls ws, made one after the other on the records v.
Careful(v, kind, ws) ==
    /\ \A i \in DOMAIN ws :
          /\ Touches(ws[i]) => ws[i].at \in Standing(v) /\ ws[i].key.fp = v[ws[i].at].fp
          /\ ws[i].op = "put" /\ ws[i].key.private = "none" =>
                kind = "import" \/ v[ws[i].at].private = "none"
          /\ ws[i].op = "add" => ws[i].at = 0
          /\ Sets(ws[i]) => \A r \in Standing(v) : v[r].isDefault =>
                r = ws[i].at \/ \E j \in 1..(i - 1) : Touches(ws[j]) /\ ws[j].at = r
    /\ \A i, j \in DOMAIN ws :
          /\ Touches(ws[i]) /\ Touches(ws[j]) /\ ws[i].at = ws[j].at => i = j
          /\ Sets(ws[i]) /\ Sets(ws[j]) => i = j

\* What a mutation remembers fits what it was started for.
Mindful(v, t) ==
    /\ t.pc = "read" => t.kind \in MutationKind
    /\ t.asked => t.kind \in {"revise", "revoke"}
    /\ t.pc = "engine" => t.writes[1].op = "put"
    /\ t.kind \in {"create", "import"} => t.key \in KeyRecord
    /\ t.kind = "create" => t.key.private # "none"
    /\ t.pc \in {"engine", "write"} => t.writes # <<>> /\ Careful(v, t.kind, t.writes)

VaultInv ==
    ~mingled =>
       /\ VaultTypes
       /\ OneDefault(vault) /\ HasPrivate(vault, owned)
       /\ \A m \in Mutation : Mindful(vault, mutation[m])
       /\ \A m, o \in Mutation : mutation[m].pc # "rest" /\ mutation[o].pc # "rest" => m = o

\* InOrder lists every record once: the number of smaller records tells them apart.
LEMMA OrderLists ==
    ASSUME NEW n \in Nat, NEW rs \in SUBSET (1..n)
    PROVE  /\ InOrder(rs) \in Seq(rs)
           /\ \A i, j \in DOMAIN InOrder(rs) : InOrder(rs)[i] = InOrder(rs)[j] => i = j
           /\ \A r \in rs : \E i \in DOMAIN InOrder(rs) : InOrder(rs)[i] = r
           /\ rs # {} => 1 \in DOMAIN InOrder(rs) /\ \A r \in rs : InOrder(rs)[1] <= r
  <1> DEFINE Smaller(r) == {q \in rs : q < r}
             Rank(r) == Cardinality(Smaller(r))
             c == Cardinality(rs)
             f == [r \in rs |-> Rank(r) + 1]
  <1>0. \A r \in rs : r \in Nat
    OBVIOUS
  <1>1. IsFiniteSet(rs) /\ c \in Nat
    <2>1. IsFiniteSet(1..n)
      BY FS_Interval
    <2> QED BY <2>1, FS_Subset, FS_CardinalityType
  <1>2. \A r \in rs : IsFiniteSet(Smaller(r)) /\ Rank(r) \in 0..(c - 1)
    <2>1. TAKE r \in rs
    <2>2. Smaller(r) \in SUBSET rs /\ Smaller(r) # rs
      OBVIOUS
    <2>3. IsFiniteSet(Smaller(r)) /\ Rank(r) <= c /\ Rank(r) # c
      <3> HIDE DEF Smaller
      <3> QED BY <1>1, <2>2, FS_Subset
    <2>4. Rank(r) \in Nat
      BY <2>3, FS_CardinalityType
    <2> QED BY <1>1, <2>3, <2>4
  <1>3. \A r, q \in rs : r < q => Rank(r) < Rank(q)
    <2>1. SUFFICES ASSUME NEW r \in rs, NEW q \in rs, r < q PROVE Rank(r) < Rank(q)
      OBVIOUS
    <2>2. Smaller(r) \in SUBSET Smaller(q) /\ r \in Smaller(q) \ Smaller(r)
      <3>1. r \in Nat /\ q \in Nat /\ ~(r < r)
        BY <1>0
      <3>2. \A p \in rs : p < r => p < q
        BY <1>0, <2>1, <3>1
      <3> QED BY <2>1, <3>1, <3>2
    <2>3. Rank(r) <= Rank(q) /\ Rank(r) # Rank(q)
      <3> HIDE DEF Smaller
      <3> QED BY <1>2, <2>2, FS_Subset
    <2> HIDE DEF Smaller
    <2> QED BY <1>2, <2>3
  <1> HIDE DEF Smaller, Rank, c
  <1>4. \A r, q \in rs : Rank(r) = Rank(q) => r = q
    BY <1>2, <1>3
  <1>5. f \in Injection(rs, 1..c)
    <2>1. f \in [rs -> 1..c]
      BY <1>1, <1>2
    <2>2. \A r, q \in rs : f[r] = f[q] => r = q
      BY <1>1, <1>2, <1>4
    <2> HIDE DEF f
    <2> QED BY <2>1, <2>2 DEF Injection, IsInjective
  <1>6. f \in Surjection(rs, 1..c)
    <2>1. IsFiniteSet(1..c) /\ Cardinality(1..c) = c
      BY <1>1, FS_Interval
    <2> HIDE DEF f
    <2> QED BY <1>5, <2>1, FS_Injection DEF c
  <1>7. \A i \in 1..c : \E r \in rs : Rank(r) = i - 1
    <2>1. TAKE i \in 1..c
    <2>2. PICK r \in rs : f[r] = i
      <3> HIDE DEF f
      <3> QED BY <1>6 DEF Surjection
    <2> QED BY <1>1, <1>2, <2>2
  <1>8. InOrder(rs) = [i \in 1..c |-> CHOOSE r \in rs : Rank(r) = i - 1]
    BY DEF InOrder, Rank, Smaller, c
  <1>9. \A i \in 1..c : InOrder(rs)[i] \in rs /\ Rank(InOrder(rs)[i]) = i - 1
    BY <1>7, <1>8
  <1> DEFINE seq == InOrder(rs)
  <1>10. DOMAIN seq = 1..c /\ seq \in Seq(rs)
    BY <1>1, <1>8, <1>9
  <1> HIDE DEF seq
  <1>11. \A i \in 1..c : seq[i] \in rs /\ Rank(seq[i]) = i - 1
    BY <1>9 DEF seq
  <1>12. \A i, j \in 1..c : seq[i] = seq[j] => i = j
    BY <1>1, <1>11
  <1>13. \A r \in rs : \E i \in 1..c : seq[i] = r
    <2>1. TAKE r \in rs
    <2>2. Rank(r) + 1 \in 1..c /\ Rank(r) \in Nat
      BY <1>1, <1>2
    <2>3. Rank(seq[Rank(r) + 1]) = Rank(r) /\ seq[Rank(r) + 1] \in rs
      BY <2>2, <1>11
    <2> QED BY <2>2, <2>3, <1>4
  <1>14. rs # {} => 1 \in 1..c /\ \A r \in rs : seq[1] <= r
    <2>1. SUFFICES ASSUME NEW r \in rs PROVE 1 \in 1..c /\ seq[1] <= r
      BY <1>13
    <2>2. 1 \in 1..c
      BY <1>1, <1>2
    <2>3. Rank(seq[1]) = 0 /\ seq[1] \in rs
      BY <2>2, <1>11
    <2>4. Rank(r) \in Nat /\ ~(Rank(r) < 0)
      BY <1>1, <1>2
    <2>5. ~(r < seq[1])
      BY <1>3, <2>3, <2>4
    <2>6. r \in Nat /\ seq[1] \in Nat
      BY <1>0, <2>3
    <2> QED BY <2>2, <2>5, <2>6
  <1> QED BY <1>10, <1>12, <1>13, <1>14 DEF seq

\* A set of records has a first one.
LEMMA FirstRecord ==
    ASSUME NEW n \in Nat, NEW rs \in SUBSET (1..n), rs # {}
    PROVE  LET r == CHOOSE q \in rs : \A p \in rs : q <= p
           IN  r \in rs /\ \A p \in rs : r <= p
  <1>1. 1 \in DOMAIN InOrder(rs) /\ InOrder(rs) \in Seq(rs) /\ \A p \in rs : InOrder(rs)[1] <= p
    BY OrderLists
  <1>2. InOrder(rs)[1] \in rs
    BY <1>1
  <1>3. \E q \in rs : \A p \in rs : q <= p
    BY <1>1, <1>2
  <1> QED BY <1>3

LEMMA JoinOne ==
    ASSUME NEW S, NEW cs \in Seq(S), NEW w \in S
    PROVE  /\ cs \o <<w>> \in Seq(S) /\ cs \o <<w>> # <<>>
           /\ DOMAIN cs = 1..Len(cs) /\ Len(cs) \in Nat
           /\ DOMAIN (cs \o <<w>>) = 1..(Len(cs) + 1)
           /\ \A i \in 1..Len(cs) : (cs \o <<w>>)[i] = cs[i]
           /\ (cs \o <<w>>)[Len(cs) + 1] = w
           /\ cs \o <<>> = cs /\ <<>> \o <<w>> = <<w>>
  OBVIOUS

\* The records there are, and the one a key is found in.
LEMMA RecordsFound ==
    ASSUME VaultTypes
    PROVE  /\ Present = Standing(vault)
           /\ \E n \in Nat : Present \in SUBSET (1..n) /\ DOMAIN vault = 1..n
           /\ \A r \in Present : vault[r] \in KeyRecord /\ r \in DOMAIN vault /\ r # 0 /\ r \in Nat
           /\ \A fp : RecordOf(fp) # 0 => RecordOf(fp) \in Present /\ vault[RecordOf(fp)].fp = fp
  <1>1. Present = Standing(vault)
    BY DEF Present, Standing
  <1>2. PICK n \in Nat : DOMAIN vault = 1..n /\ Present \in SUBSET (1..n)
    BY DEF Present, VaultTypes
  <1>3. \A r \in Present : vault[r] \in KeyRecord /\ r \in DOMAIN vault /\ r # 0 /\ r \in Nat
    BY <1>2 DEF Present, VaultTypes
  <1>4. ASSUME NEW fp, RecordOf(fp) # 0
        PROVE  RecordOf(fp) \in Present /\ vault[RecordOf(fp)].fp = fp
    <2> DEFINE rs == {r \in Present : vault[r].fp = fp}
    <2>1. rs # {} /\ RecordOf(fp) = CHOOSE r \in rs : \A q \in rs : r <= q
      BY <1>4 DEF RecordOf
    <2>2. rs \in SUBSET (1..n)
      BY <1>2
    <2>3. RecordOf(fp) \in rs
      <3> HIDE DEF rs
      <3> QED BY <2>1, <2>2, FirstRecord
    <2> QED BY <2>3
  <1> QED BY <1>1, <1>2, <1>3, <1>4

\* Calls that take the default away from records other than e, each once.
Clearing(cs, e) ==
    /\ cs \in Seq(RecordWrite)
    /\ \A i \in DOMAIN cs :
          /\ cs[i].op = "put" /\ cs[i].at \in Present \ {e}
          /\ vault[cs[i].at].isDefault
          /\ cs[i].key = [vault[cs[i].at] EXCEPT !.isDefault = FALSE]
    /\ \A i, j \in DOMAIN cs : cs[i].at = cs[j].at => i = j

LEMMA DefaultsCleared ==
    ASSUME VaultTypes, NEW e
    PROVE  /\ Clearing(ClearDefaults(e), e)
           /\ \A r \in Present \ {e} : vault[r].isDefault =>
                 \E i \in DOMAIN ClearDefaults(e) : ClearDefaults(e)[i].at = r
  <1> DEFINE S == {r \in Present \ {e} : vault[r].isDefault}
             rs == InOrder(S)
             cs == [i \in DOMAIN rs |-> Put(rs[i], [vault[rs[i]] EXCEPT !.isDefault = FALSE])]
  <1>1. ClearDefaults(e) = cs
    BY DEF ClearDefaults
  <1>2. PICK n \in Nat : S \in SUBSET (1..n)
    BY RecordsFound
  <1>3. /\ rs \in Seq(S)
        /\ \A i, j \in DOMAIN rs : rs[i] = rs[j] => i = j
        /\ \A r \in S : \E i \in DOMAIN rs : rs[i] = r
    <2> HIDE DEF S
    <2> QED BY <1>2, OrderLists
  <1> HIDE DEF rs
  <1>4. DOMAIN cs = DOMAIN rs /\ \A i \in DOMAIN rs :
           rs[i] \in Present \ {e} /\ vault[rs[i]] \in KeyRecord /\ vault[rs[i]].isDefault
    BY <1>3, RecordsFound
  <1>5. \A i \in DOMAIN cs : cs[i].op = "put" /\ cs[i].at = rs[i]
                             /\ cs[i].key = [vault[rs[i]] EXCEPT !.isDefault = FALSE]
    BY <1>4 DEF Put
  <1>6. \A i \in DOMAIN cs : cs[i] \in RecordWrite
    <2>1. TAKE i \in DOMAIN cs
    <2>2. rs[i] \in Nat /\ vault[rs[i]] \in KeyRecord
      BY <1>4, RecordsFound
    <2>3. [vault[rs[i]] EXCEPT !.isDefault = FALSE] \in KeyRecord
      BY <2>2 DEF KeyRecord
    <2>4. cs[i] = Put(rs[i], [vault[rs[i]] EXCEPT !.isDefault = FALSE])
      BY <1>4
    <2> HIDE DEF cs
    <2> QED BY <2>2, <2>3, <2>4 DEF Put, RecordWrite
  <1>7. cs \in Seq(RecordWrite)
    <2>1. Len(rs) \in Nat /\ DOMAIN rs = 1..Len(rs)
      BY <1>3
    <2>2. cs \in [1..Len(rs) -> RecordWrite]
      BY <1>6, <2>1
    <2> HIDE DEF cs
    <2> QED BY <2>1, <2>2
  <1> HIDE DEF cs
  <1>10. DOMAIN cs = DOMAIN rs
    BY <1>4
  <1>8. Clearing(cs, e)
    <2>1. \A i \in DOMAIN cs :
             /\ cs[i].op = "put" /\ cs[i].at \in Present \ {e}
             /\ vault[cs[i].at].isDefault
             /\ cs[i].key = [vault[cs[i].at] EXCEPT !.isDefault = FALSE]
      BY <1>4, <1>5, <1>10
    <2>2. \A i, j \in DOMAIN cs : cs[i].at = cs[j].at => i = j
      BY <1>3, <1>5, <1>10
    <2> QED BY <1>7, <2>1, <2>2 DEF Clearing
  <1>9. ASSUME NEW r \in Present \ {e}, vault[r].isDefault
        PROVE  \E i \in DOMAIN cs : cs[i].at = r
    <2>1. PICK i \in DOMAIN rs : rs[i] = r
      BY <1>3, <1>9
    <2> QED BY <2>1, <1>4, <1>5
  <1> QED BY <1>1, <1>8, <1>9

\* Defaults are cleared, then one record is saved.
LEMMA ClearThenSave ==
    ASSUME VaultTypes, NEW kind, NEW e, NEW cs, Clearing(cs, e), NEW w \in RecordWrite,
           w.op = "put" \/ w.op = "add",
           w.op = "put" => w.at = e /\ e \in Present /\ w.key.fp = vault[e].fp,
           w.op = "put" /\ w.key.private = "none" => kind = "import" \/ vault[e].private = "none",
           w.op = "add" => w.at = 0,
           w.key.isDefault => \A r \in Present : vault[r].isDefault =>
              r = w.at \/ \E j \in DOMAIN cs : cs[j].at = r
    PROVE  cs \o <<w>> \in Seq(RecordWrite) /\ cs \o <<w>> # <<>> /\ Careful(vault, kind, cs \o <<w>>)
  <1> DEFINE ws == cs \o <<w>>
             n == Len(cs)
  <1>1. cs \in Seq(RecordWrite)
    BY DEF Clearing
  <1>2. /\ ws \in Seq(RecordWrite) /\ ws # <<>> /\ n \in Nat /\ DOMAIN cs = 1..n
        /\ DOMAIN ws = 1..(n + 1) /\ ws[n + 1] = w
        /\ \A i \in 1..n : ws[i] = cs[i]
    BY <1>1, JoinOne
  <1> HIDE DEF ws, n
  <1>3. \A i \in 1..n : /\ ws[i].op = "put" /\ ws[i].at \in Present /\ ws[i].at # e
                        /\ ws[i].key.fp = vault[ws[i].at].fp
                        /\ ws[i].key.private = vault[ws[i].at].private
                        /\ ~ws[i].key.isDefault
    <2>1. TAKE i \in 1..n
    <2>2. /\ ws[i].op = "put" /\ ws[i].at \in Present \ {e}
          /\ ws[i].key = [vault[ws[i].at] EXCEPT !.isDefault = FALSE]
      BY <1>2 DEF Clearing
    <2>3. vault[ws[i].at] \in KeyRecord
      BY <2>2, RecordsFound
    <2> QED BY <2>2, <2>3 DEF KeyRecord
  <1>4. \A i, j \in 1..n : ws[i].at = ws[j].at => i = j
    BY <1>2 DEF Clearing
  <1>5. \A i \in 1..(n + 1) : i \in 1..n \/ i = n + 1
    BY <1>2
  <1>6. Present = Standing(vault)
    BY RecordsFound
  <1>7. \A i \in DOMAIN ws :
          /\ Touches(ws[i]) => ws[i].at \in Standing(vault) /\ ws[i].key.fp = vault[ws[i].at].fp
          /\ ws[i].op = "put" /\ ws[i].key.private = "none" =>
                kind = "import" \/ vault[ws[i].at].private = "none"
          /\ ws[i].op = "add" => ws[i].at = 0
    BY <1>2, <1>3, <1>5, <1>6 DEF Touches
  <1>8. ASSUME NEW i \in DOMAIN ws, Sets(ws[i]), NEW r \in Standing(vault), vault[r].isDefault
        PROVE  r = ws[i].at \/ \E j \in 1..(i - 1) : Touches(ws[j]) /\ ws[j].at = r
    <2>1. i = n + 1
      BY <1>2, <1>3, <1>5, <1>8 DEF Sets
    <2>2. ws[i] = w /\ w.key.isDefault
      BY <1>2, <1>8, <2>1 DEF Sets
    <2>3. CASE \E j \in DOMAIN cs : cs[j].at = r
      <3>1. PICK j \in 1..n : ws[j].at = r
        BY <2>3, <1>2
      <3>2. j \in 1..(i - 1) /\ Touches(ws[j])
        BY <3>1, <2>1, <1>2, <1>3 DEF Touches
      <3> QED BY <3>1, <3>2
    <2> QED BY <1>6, <1>8, <2>2, <2>3
  <1>9. ASSUME NEW i \in DOMAIN ws, NEW j \in DOMAIN ws
        PROVE  /\ Touches(ws[i]) /\ Touches(ws[j]) /\ ws[i].at = ws[j].at => i = j
               /\ Sets(ws[i]) /\ Sets(ws[j]) => i = j
    <2>1. Sets(ws[i]) => i = n + 1
      BY <1>2, <1>3, <1>5 DEF Sets
    <2>2. Sets(ws[j]) => j = n + 1
      BY <1>2, <1>3, <1>5 DEF Sets
    <2>3. CASE i \in 1..n /\ j \in 1..n
      BY <1>4, <2>1, <2>2, <2>3
    <2>4. CASE i \in 1..n /\ j = n + 1
      BY <1>2, <1>3, <2>1, <2>4 DEF Touches
    <2>5. CASE i = n + 1 /\ j \in 1..n
      BY <1>2, <1>3, <2>2, <2>5 DEF Touches
    <2> QED BY <1>2, <1>5, <2>3, <2>4, <2>5
  <1>10. Careful(vault, kind, ws)
    BY <1>7, <1>8, <1>9 DEF Careful
  <1> QED BY <1>2, <1>10 DEF ws

LEMMA UpsertIsCareful ==
    ASSUME VaultTypes, OneDefault(vault), NEW kind, NEW key \in KeyRecord, NEW asDefault \in BOOLEAN,
           kind = "import" \/ key.private # "none"
    PROVE  /\ Upsert(key, asDefault) \in Seq(RecordWrite) /\ Upsert(key, asDefault) # <<>>
           /\ Careful(vault, kind, Upsert(key, asDefault))
  <1> DEFINE r == RecordOf(key.fp)
             pair == key.private # "none"
             saved == [key EXCEPT
                !.isDefault  = (r # 0 /\ vault[r].isDefault) \/ (pair /\ asDefault),
                !.passphrase = pair /\ (@ \/ (r # 0 /\ vault[r].passphrase))]
             w == IF r # 0 THEN Put(r, saved) ELSE [op |-> "add", at |-> 0, key |-> saved]
             cs == IF pair /\ asDefault THEN ClearDefaults(r) ELSE <<>>
  <1>1. Upsert(key, asDefault) = cs \o <<w>>
    BY DEF Upsert
  <1>2. r # 0 => r \in Present /\ vault[r].fp = key.fp /\ vault[r] \in KeyRecord /\ r \in Nat
    BY RecordsFound
  <1>3. Clearing(cs, r)
    <2>1. CASE pair /\ asDefault
      BY <2>1, DefaultsCleared
    <2>2. CASE ~(pair /\ asDefault)
      BY <2>2 DEF Clearing
    <2> QED BY <2>1, <2>2
  <1>4. /\ saved \in KeyRecord /\ saved.fp = key.fp /\ saved.private = key.private
        /\ saved.isDefault = ((r # 0 /\ vault[r].isDefault) \/ (pair /\ asDefault))
    BY <1>2 DEF KeyRecord
  <1> HIDE DEF saved
  <1>5. /\ w.key = saved /\ w.at = r
        /\ r # 0 => w.op = "put"
        /\ r = 0 => w.op = "add"
    BY DEF Put
  <1>6. w \in RecordWrite
    BY <1>2, <1>4 DEF Put, RecordWrite
  <1> HIDE DEF w
  <1>7. w.key.isDefault => \A q \in Present : vault[q].isDefault =>
              q = w.at \/ \E j \in DOMAIN cs : cs[j].at = q
    <2>1. CASE pair /\ asDefault
      <3>1. cs = ClearDefaults(r)
        BY <2>1
      <3>2. \A q \in Present \ {r} : vault[q].isDefault => \E j \in DOMAIN cs : cs[j].at = q
        BY <3>1, DefaultsCleared
      <3> QED BY <3>2, <1>5
    <2>2. CASE ~(pair /\ asDefault)
      <3>1. w.key.isDefault => r # 0 /\ vault[r].isDefault
        BY <2>2, <1>4, <1>5
      <3>2. w.key.isDefault => \A q \in Present : vault[q].isDefault => q = r
        BY <3>1, <1>2, RecordsFound DEF OneDefault
      <3> QED BY <3>2, <1>5
    <2> QED BY <2>1, <2>2
  <1>8. r = 0 => w.op = "add" /\ w.at = 0
    BY <1>5
  <1>9. /\ w.op = "put" \/ w.op = "add"
        /\ w.op = "put" => w.at = r /\ r \in Present /\ w.key.fp = vault[r].fp
        /\ w.op = "put" /\ w.key.private = "none" => kind = "import" \/ vault[r].private = "none"
        /\ w.op = "add" => w.at = 0
    BY <1>2, <1>4, <1>5
  <1> HIDE DEF cs, r
  <1>10. cs \o <<w>> \in Seq(RecordWrite) /\ cs \o <<w>> # <<>> /\ Careful(vault, kind, cs \o <<w>>)
    BY <1>3, <1>6, <1>7, <1>9, ClearThenSave
  <1> QED BY <1>1, <1>10

\* A single record that is written back keeps its key, its default flag and a private half.
LEMMA OnePut ==
    ASSUME VaultTypes, OneDefault(vault), NEW kind, NEW r \in Present, NEW key \in KeyRecord,
           key.fp = vault[r].fp, key.isDefault = vault[r].isDefault,
           key.private = "none" => vault[r].private = "none"
    PROVE  <<Put(r, key)>> \in Seq(RecordWrite) /\ Careful(vault, kind, <<Put(r, key)>>)
  <1> DEFINE w == Put(r, key)
  <1>1. w \in RecordWrite /\ w.op = "put" /\ w.at = r /\ w.key = key
    BY RecordsFound DEF Put, RecordWrite
  <1> HIDE DEF w
  <1>2. Clearing(<<>>, r)
    BY DEF Clearing
  <1>3. w.key.isDefault => \A q \in Present : vault[q].isDefault => q = w.at
    BY <1>1, RecordsFound DEF OneDefault
  <1>4. <<>> \o <<w>> \in Seq(RecordWrite) /\ Careful(vault, kind, <<>> \o <<w>>)
    BY <1>1, <1>2, <1>3, ClearThenSave
  <1>5. <<>> \o <<w>> = <<w>>
    OBVIOUS
  <1> QED BY <1>4, <1>5 DEF w

LEMMA NothingIsCareful ==
    ASSUME NEW v, NEW kind
    PROVE  <<>> \in Seq(RecordWrite) /\ Careful(v, kind, <<>>)
  BY DEF Careful

\* setKeyVerified and the revisions of a pair.
LEMMA RevisionsAreCareful ==
    ASSUME VaultTypes, OneDefault(vault), NEW kind, NEW fp, NEW half \in {"sound", "revoked"}
    PROVE  /\ Revise(fp, half) \in Seq(RecordWrite) /\ Careful(vault, kind, Revise(fp, half))
           /\ Revise(fp, half) # <<>> => Revise(fp, half)[1].op = "put"
           /\ Rewrite(fp) \in Seq(RecordWrite) /\ Careful(vault, kind, Rewrite(fp))
  <1>1. Rewrite(fp) \in Seq(RecordWrite) /\ Careful(vault, kind, Rewrite(fp))
    <2>1. CASE RecordOf(fp) = 0
      BY <2>1, NothingIsCareful DEF Rewrite
    <2>2. CASE RecordOf(fp) # 0
      <3>1. RecordOf(fp) \in Present /\ vault[RecordOf(fp)] \in KeyRecord
        BY <2>2, RecordsFound
      <3> QED BY <2>2, <3>1, OnePut DEF Rewrite
    <2> QED BY <2>1, <2>2
  <1> DEFINE rs == {r \in Present : vault[r].fp = fp /\ vault[r].private # "none"}
             r == CHOOSE q \in rs : \A p \in rs : q <= p
  <1>2. CASE rs = {} \/ (half = "revoked" /\ vault[r].private = "revoked")
    <2>1. Revise(fp, half) = <<>>
      BY <1>2 DEF Revise
    <2> QED BY <1>1, <2>1, NothingIsCareful
  <1>3. CASE ~(rs = {} \/ (half = "revoked" /\ vault[r].private = "revoked"))
    <2> DEFINE key == IF half = "revoked"
                      THEN [vault[r] EXCEPT !.private = half, !.public = half] ELSE vault[r]
    <2>1. Revise(fp, half) = <<Put(r, key)>>
      BY <1>3 DEF Revise
    <2>2. PICK n \in Nat : rs \in SUBSET (1..n)
      BY RecordsFound
    <2>3. r \in rs
      <3> HIDE DEF rs
      <3> QED BY <1>3, <2>2, FirstRecord
    <2> HIDE DEF r
    <2>4. r \in Present /\ vault[r] \in KeyRecord
      BY <2>3, RecordsFound
    <2>5. /\ key \in KeyRecord /\ key.fp = vault[r].fp /\ key.isDefault = vault[r].isDefault
          /\ key.private = "none" => vault[r].private = "none"
      BY <2>4 DEF KeyRecord, Half
    <2> HIDE DEF key
    <2>6. <<Put(r, key)>> \in Seq(RecordWrite) /\ Careful(vault, kind, <<Put(r, key)>>)
      BY <2>4, <2>5, OnePut
    <2>7. <<Put(r, key)>>[1].op = "put"
      BY DEF Put
    <2> QED BY <1>1, <2>1, <2>6, <2>7
  <1> QED BY <1>2, <1>3

LEMMA SetDefaultIsCareful ==
    ASSUME VaultTypes, OneDefault(vault), NEW kind, NEW fp
    PROVE  SetDefault(fp) \in Seq(RecordWrite) /\ Careful(vault, kind, SetDefault(fp))
  <1> DEFINE r == RecordOf(fp)
             cs == ClearDefaults(r)
             w == Put(r, [vault[r] EXCEPT !.isDefault = TRUE])
  <1>1. CASE r = 0 \/ vault[r].private = "none"
    <2>1. SetDefault(fp) = <<>>
      BY <1>1 DEF SetDefault
    <2> QED BY <2>1, NothingIsCareful
  <1>2. ASSUME r # 0, vault[r].private # "none"
        PROVE  SetDefault(fp) \in Seq(RecordWrite) /\ Careful(vault, kind, SetDefault(fp))
    <2>1. r \in Present /\ vault[r] \in KeyRecord /\ r \in Nat
      BY <1>2, RecordsFound
    <2>2. SetDefault(fp) = cs \o (IF vault[r].isDefault THEN <<>> ELSE <<w>>)
      BY <1>2 DEF SetDefault
    <2>3. Clearing(cs, r) /\ cs \in Seq(RecordWrite)
      BY DefaultsCleared DEF Clearing
    <2>4. \A q \in Present \ {r} : vault[q].isDefault => \E j \in DOMAIN cs : cs[j].at = q
      BY DefaultsCleared
    <2>5. CASE vault[r].isDefault
      <3>1. cs = <<>>
        <4>1. ASSUME NEW i \in DOMAIN cs PROVE FALSE
          <5>1. cs[i].at \in Present /\ cs[i].at # r
            BY <2>3 DEF Clearing
          <5>2. vault[cs[i].at].isDefault
            BY <2>3 DEF Clearing
          <5>3. r \in Standing(vault) /\ cs[i].at \in Standing(vault)
            BY <2>1, <5>1, RecordsFound
          <5> HIDE DEF cs, r
          <5> QED BY <2>5, <5>1, <5>2, <5>3 DEF OneDefault
        <4> HIDE DEF cs
        <4>2. Len(cs) \in Nat /\ DOMAIN cs = 1..Len(cs)
          BY <2>3
        <4>3. Len(cs) = 0
          BY <4>1, <4>2
        <4> QED BY <2>3, <4>3
      <3> QED BY <2>2, <2>5, <3>1, NothingIsCareful
    <2>6. CASE ~vault[r].isDefault
      <3> DEFINE key == [vault[r] EXCEPT !.isDefault = TRUE]
      <3>1. key \in KeyRecord /\ key.fp = vault[r].fp /\ key.private = vault[r].private
        BY <2>1 DEF KeyRecord
      <3>2. w = Put(r, key)
        OBVIOUS
      <3> HIDE DEF key
      <3>3. w \in RecordWrite /\ w.op = "put" /\ w.at = r /\ w.key = key
        BY <2>1, <3>1, <3>2 DEF Put, RecordWrite
      <3> HIDE DEF w, cs
      <3>4. SetDefault(fp) = cs \o <<w>>
        BY <2>2, <2>6
      <3>5. \A q \in Present : vault[q].isDefault => q = w.at \/ \E j \in DOMAIN cs : cs[j].at = q
        BY <2>4, <3>3
      <3> HIDE DEF r
      <3>6. cs \o <<w>> \in Seq(RecordWrite) /\ Careful(vault, kind, cs \o <<w>>)
        BY <1>2, <2>1, <2>3, <3>1, <3>3, <3>5, ClearThenSave
      <3> QED BY <3>4, <3>6
    <2> QED BY <2>5, <2>6
  <1> QED BY <1>1, <1>2

\* deleteKey: nothing is left that is a default when the heir becomes one.
LEMMA DeleteIsCareful ==
    ASSUME VaultTypes, OneDefault(vault), NEW kind, NEW fp
    PROVE  DeleteKey(fp) \in Seq(RecordWrite) /\ Careful(vault, kind, DeleteKey(fp))
  <1> DEFINE r == RecordOf(fp)
             heirs == {q \in Present \ {r} : vault[r].isDefault /\ vault[q].private # "none"}
             heir == CHOOSE q \in heirs : \A p \in heirs : q <= p
             d == [op |-> "delete", at |-> r, key |-> vault[r]]
             w == Put(heir, [vault[heir] EXCEPT !.isDefault = TRUE])
  <1>1. CASE r = 0
    <2>1. DeleteKey(fp) = <<>>
      BY <1>1 DEF DeleteKey
    <2> QED BY <2>1, NothingIsCareful
  <1>2. ASSUME r # 0
        PROVE  DeleteKey(fp) \in Seq(RecordWrite) /\ Careful(vault, kind, DeleteKey(fp))
    <2>1. r \in Present /\ vault[r] \in KeyRecord /\ r \in Nat /\ r \in Standing(vault)
      BY <1>2, RecordsFound
    <2>2. DeleteKey(fp) = <<d>> \o (IF heirs = {} THEN <<>> ELSE <<w>>)
      BY <1>2 DEF DeleteKey
    <2>3. d \in RecordWrite /\ d.op = "delete" /\ d.at = r /\ d.key = vault[r]
      BY <2>1 DEF RecordWrite
    <2> HIDE DEF d
    <2>4. CASE heirs = {}
      <3>1. DeleteKey(fp) = <<d>>
        <4> HIDE DEF heirs, w
        <4>1. <<d>> \o <<>> = <<d>>
          OBVIOUS
        <4> QED BY <2>2, <2>4, <4>1
      <3>2. Careful(vault, kind, <<d>>)
        BY <2>1, <2>3 DEF Careful, Touches, Sets
      <3> QED BY <2>3, <3>1, <3>2
    <2>5. CASE heirs # {}
      <3>1. DeleteKey(fp) = <<d>> \o <<w>>
        BY <2>2, <2>5
      <3>2. PICK n \in Nat : heirs \in SUBSET (1..n)
        BY RecordsFound
      <3>3. heir \in heirs
        <4> HIDE DEF heirs
        <4> QED BY <2>5, <3>2, FirstRecord
      <3> DEFINE key == [vault[heir] EXCEPT !.isDefault = TRUE]
      <3> HIDE DEF heir, r
      <3>4. heir \in Standing(vault) /\ heir # r /\ vault[r].isDefault /\ vault[heir] \in KeyRecord /\ heir \in Nat
        BY <3>3, RecordsFound
      <3>5. key \in KeyRecord /\ key.fp = vault[heir].fp /\ key.private = vault[heir].private
        BY <3>4 DEF KeyRecord
      <3>6. w = Put(heir, key)
        OBVIOUS
      <3> HIDE DEF key
      <3>7. w \in RecordWrite /\ w.op = "put" /\ w.at = heir /\ w.key = key
        BY <3>4, <3>5, <3>6 DEF Put, RecordWrite
      <3> HIDE DEF w
      <3>8. \A q \in Standing(vault) : vault[q].isDefault => q = r
        BY <2>1, <3>4 DEF OneDefault
      <3>9. <<d>> \o <<w>> \in Seq(RecordWrite) /\ Careful(vault, kind, <<d>> \o <<w>>)
        <4> DEFINE ws == <<d>> \o <<w>>
        <4>0. <<d>> \in Seq(RecordWrite) /\ Len(<<d>>) = 1 /\ <<d>>[1] = d
          BY <2>3
        <4>1. /\ ws \in Seq(RecordWrite) /\ DOMAIN ws = 1..2
              /\ ws[1] = d /\ ws[2] = w /\ 1 \in 1..(2 - 1)
          <5>1. /\ ws \in Seq(RecordWrite) /\ DOMAIN ws = 1..(Len(<<d>>) + 1)
                /\ \A i \in 1..Len(<<d>>) : ws[i] = <<d>>[i]
                /\ ws[Len(<<d>>) + 1] = w
            BY <3>7, <4>0, JoinOne
          <5> HIDE DEF ws
          <5> QED BY <4>0, <5>1
        <4> HIDE DEF ws
        <4>2. /\ Touches(ws[1]) /\ ~Sets(ws[1]) /\ ws[1].op # "put" /\ ws[1].op # "add"
              /\ Touches(ws[2]) /\ ws[2].op # "add"
          BY <4>1, <2>3, <3>7 DEF Touches, Sets
        <4>3. \A i \in DOMAIN ws : Touches(ws[i]) =>
                 ws[i].at \in Standing(vault) /\ ws[i].key.fp = vault[ws[i].at].fp
          BY <4>1, <2>1, <2>3, <3>4, <3>5, <3>7
        <4>4. \A i \in DOMAIN ws :
                 ws[i].op = "put" /\ ws[i].key.private = "none" => vault[ws[i].at].private = "none"
          BY <4>1, <4>2, <3>5, <3>7
        <4>5. \A i \in DOMAIN ws : Sets(ws[i]) => \A q \in Standing(vault) : vault[q].isDefault =>
                 \E j \in 1..(i - 1) : Touches(ws[j]) /\ ws[j].at = q
          BY <4>1, <4>2, <2>3, <3>8
        <4>6. \A i, j \in DOMAIN ws :
                 /\ ws[i].at = ws[j].at => i = j
                 /\ Sets(ws[i]) /\ Sets(ws[j]) => i = j
          BY <4>1, <4>2, <2>3, <3>4, <3>7
        <4>7. Careful(vault, kind, ws)
          BY <4>1, <4>2, <4>3, <4>4, <4>5, <4>6 DEF Careful
        <4> QED BY <4>1, <4>7 DEF ws
      <3> QED BY <3>1, <3>9
    <2> QED BY <2>4, <2>5
  <1> QED BY <1>1, <1>2

\* forgetStoredPassphrases changes neither keys nor defaults.
LEMMA ForgetIsCareful ==
    ASSUME VaultTypes, OneDefault(vault), NEW kind
    PROVE  ForgetKeys \in Seq(RecordWrite) /\ ForgetKeys # <<>> /\ Careful(vault, kind, ForgetKeys)
  <1> DEFINE S == {r \in Present : vault[r].private # "none" /\ vault[r].passphrase}
             rs == InOrder(S)
             cs == [i \in DOMAIN rs |-> Put(rs[i], [vault[rs[i]] EXCEPT !.passphrase = FALSE])]
             w == [op |-> "withdraw", at |-> 0, key |-> NoKey]
             ws == cs \o <<w>>
  <1>1. ForgetKeys = ws
    BY DEF ForgetKeys
  <1>2. PICK n \in Nat : S \in SUBSET (1..n)
    BY RecordsFound
  <1>3. rs \in Seq(S) /\ \A i, j \in DOMAIN rs : rs[i] = rs[j] => i = j
    <2> HIDE DEF S
    <2> QED BY <1>2, OrderLists
  <1> HIDE DEF rs
  <1>4. DOMAIN cs = DOMAIN rs /\ \A i \in DOMAIN rs :
           rs[i] \in Present /\ rs[i] \in Standing(vault) /\ vault[rs[i]] \in KeyRecord /\ rs[i] \in Nat
    BY <1>3, RecordsFound
  <1>5. \A i \in DOMAIN rs :
           /\ cs[i] \in RecordWrite /\ cs[i].op = "put" /\ cs[i].at = rs[i]
           /\ cs[i].key.fp = vault[rs[i]].fp /\ cs[i].key.private = vault[rs[i]].private
           /\ cs[i].key.isDefault = vault[rs[i]].isDefault
    <2>1. TAKE i \in DOMAIN rs
    <2> DEFINE key == [vault[rs[i]] EXCEPT !.passphrase = FALSE]
    <2>2. /\ key \in KeyRecord /\ key.fp = vault[rs[i]].fp /\ key.private = vault[rs[i]].private
          /\ key.isDefault = vault[rs[i]].isDefault
      BY <1>4 DEF KeyRecord
    <2>3. cs[i] = Put(rs[i], key)
      OBVIOUS
    <2>4. rs[i] \in Nat
      BY <1>4
    <2> HIDE DEF key, cs
    <2> QED BY <2>2, <2>3, <2>4 DEF Put, RecordWrite
  <1>6. cs \in Seq(RecordWrite)
    <2>1. Len(rs) \in Nat /\ DOMAIN rs = 1..Len(rs)
      BY <1>3
    <2>2. cs \in [1..Len(rs) -> RecordWrite]
      BY <1>5, <2>1
    <2> HIDE DEF cs
    <2> QED BY <2>1, <2>2
  <1>7. w \in RecordWrite /\ w.op = "withdraw"
    BY DEF RecordWrite
  <1>8. DOMAIN cs = DOMAIN rs
    BY <1>4
  <1> HIDE DEF cs, w
  <1> DEFINE c == Len(cs)
  <1>9. /\ ws \in Seq(RecordWrite) /\ ws # <<>> /\ c \in Nat /\ DOMAIN rs = 1..c
        /\ DOMAIN ws = 1..(c + 1) /\ ws[c + 1] = w
        /\ \A i \in 1..c : ws[i] = cs[i]
    BY <1>6, <1>7, <1>8, JoinOne
  <1> HIDE DEF ws, c
  <1>10. \A i \in 1..(c + 1) : i \in 1..c \/ i = c + 1
    BY <1>9
  <1>11. \A i \in DOMAIN ws : Touches(ws[i]) \/ Sets(ws[i]) \/ ws[i].op = "put" \/ ws[i].op = "add" =>
           /\ i \in DOMAIN rs /\ ws[i].op = "put" /\ ws[i].at = rs[i] /\ rs[i] \in Standing(vault)
           /\ ws[i].key.fp = vault[rs[i]].fp /\ ws[i].key.private = vault[rs[i]].private
           /\ ws[i].key.isDefault = vault[rs[i]].isDefault
    BY <1>4, <1>5, <1>7, <1>9, <1>10 DEF Touches, Sets
  <1>12. \A i \in DOMAIN ws : Sets(ws[i]) => \A r \in Standing(vault) : vault[r].isDefault => r = ws[i].at
    BY <1>11 DEF OneDefault, Sets
  <1>13. ASSUME NEW i \in DOMAIN ws, NEW j \in DOMAIN ws
         PROVE  /\ Touches(ws[i]) /\ Touches(ws[j]) /\ ws[i].at = ws[j].at => i = j
                /\ Sets(ws[i]) /\ Sets(ws[j]) => i = j
    <2>1. Touches(ws[i]) /\ Touches(ws[j]) /\ ws[i].at = ws[j].at => i = j
      BY <1>3, <1>11
    <2>2. Sets(ws[i]) /\ Sets(ws[j]) => i = j
      <3>1. SUFFICES ASSUME Sets(ws[i]), Sets(ws[j]) PROVE ws[i].at = ws[j].at /\ Touches(ws[i]) /\ Touches(ws[j])
        BY <2>1
      <3>2. ws[j].at \in Standing(vault) /\ vault[ws[j].at].isDefault
        BY <3>1, <1>11 DEF Sets
      <3> QED BY <3>1, <3>2, <1>11, <1>12 DEF Touches
    <2> QED BY <2>1, <2>2
  <1>14. Careful(vault, kind, ws)
    BY <1>11, <1>12, <1>13 DEF Careful
  <1> QED BY <1>1, <1>9, <1>14

LEMMA PlansAreCareful ==
    ASSUME VaultTypes, OneDefault(vault), NEW m \in Mutation, Mindful(vault, mutation[m]),
           mutation[m].pc = "read"
    PROVE  /\ Plan(m) \in Seq(RecordWrite) /\ Careful(vault, mutation[m].kind, Plan(m))
           /\ mutation[m].asked /\ Plan(m) # <<>> => Plan(m)[1].op = "put"
  <1> DEFINE t == mutation[m]
  <1>1. t \in LocalState /\ t.kind \in MutationKind
    BY DEF VaultTypes, Mindful
  <1>2. CASE t.kind \in {"create", "import"}
    <2>1. Plan(m) = Upsert(t.key, t.asDefault) /\ ~t.asked
      BY <1>2 DEF Plan, Mindful
    <2>2. t.key \in KeyRecord /\ t.asDefault \in BOOLEAN /\ (t.kind = "import" \/ t.key.private # "none")
      BY <1>1, <1>2 DEF Mindful, LocalState
    <2> QED BY <2>1, <2>2, UpsertIsCareful
  <1>3. CASE t.kind = "delete"
    BY <1>3, DeleteIsCareful DEF Plan, Mindful
  <1>4. CASE t.kind = "setDefault"
    BY <1>4, SetDefaultIsCareful DEF Plan, Mindful
  <1>5. CASE t.kind = "revise"
    BY <1>5, RevisionsAreCareful DEF Plan
  <1>6. CASE t.kind = "revoke"
    BY <1>6, RevisionsAreCareful DEF Plan
  <1>7. CASE t.kind = "verify"
    BY <1>7, RevisionsAreCareful DEF Plan, Mindful
  <1>8. CASE t.kind = "forget"
    BY <1>8, ForgetIsCareful DEF Plan, Mindful
  <1> QED BY <1>1, <1>2, <1>3, <1>4, <1>5, <1>6, <1>7, <1>8 DEF MutationKind

\* What one call makes of the records: they keep their places, and the one it wrote,
\* changed or added, holds its key.
Written(v, w, x, v2) ==
    /\ v2 \in Seq(KeyRecord \cup {NoKey})
    /\ \A r \in Standing(v2) :
          \/ r \in Standing(v) /\ v2[r] = v[r] /\ ~(Touches(w) /\ r = w.at)
          \/ r = x /\ v2[r] = w.key /\ w.op \in {"put", "add"}
    /\ \A r \in Standing(v) : (Touches(w) /\ r = w.at) \/ (r \in Standing(v2) /\ v2[r] = v[r])
    /\ w.op \in {"put", "add"} => x \in Standing(v2) /\ v2[x] = w.key

LEMMA ReplaceOrAppend ==
    ASSUME NEW S, NEW s \in Seq(S), NEW e \in S
    PROVE  /\ \A i \in DOMAIN s : [s EXCEPT ![i] = e] \in Seq(S)
           /\ Append(s, e) \in Seq(S) /\ DOMAIN Append(s, e) = DOMAIN s \cup {Len(s) + 1}
           /\ Append(s, e)[Len(s) + 1] = e
           /\ \A i \in DOMAIN s : Append(s, e)[i] = s[i]
  <1>1. Len(s) \in Nat /\ s \in [1..Len(s) -> S] /\ DOMAIN s = 1..Len(s)
    OBVIOUS
  <1>2. \A i \in DOMAIN s : [s EXCEPT ![i] = e] \in [1..Len(s) -> S]
    BY <1>1
  <1>3. \A f \in [1..Len(s) -> S] : f \in Seq(S)
    BY <1>1
  <1>4. Append(s, e) \in Seq(S) /\ Len(Append(s, e)) = Len(s) + 1
    OBVIOUS
  <1>5. DOMAIN Append(s, e) = 1..(Len(s) + 1) /\ 1..(Len(s) + 1) = 1..Len(s) \cup {Len(s) + 1}
    BY <1>1, <1>4
  <1>6. Append(s, e)[Len(s) + 1] = e /\ \A i \in 1..Len(s) : Append(s, e)[i] = s[i]
    OBVIOUS
  <1> QED BY <1>1, <1>2, <1>3, <1>4, <1>5, <1>6

LEMMA CallWrites ==
    ASSUME VaultTypes, NEW w \in RecordWrite, Touches(w) => w.at \in Standing(vault),
           NEW v2,
           v2 = CASE w.op = "put" -> [vault EXCEPT ![w.at] = w.key]
                  [] w.op = "delete" -> [vault EXCEPT ![w.at] = NoKey]
                  [] w.op = "add" -> Append(vault, w.key)
                  [] w.op = "withdraw" -> vault
    PROVE  Written(vault, w, IF w.op = "put" THEN w.at ELSE Len(vault) + 1, v2)
  <1> DEFINE K == KeyRecord \cup {NoKey}
  <1>1. vault \in Seq(K) /\ Len(vault) \in Nat /\ DOMAIN vault = 1..Len(vault)
    BY DEF VaultTypes
  <1>2. \A key \in KeyRecord : key # NoKey
    BY VaultAssumption DEF KeyRecord, NoKey
  <1>3. NoKey \in K /\ KeyRecord \subseteq K
    OBVIOUS
  <1> HIDE DEF K
  <1>8. ASSUME NEW e \in K
        PROVE  /\ \A i \in DOMAIN vault : [vault EXCEPT ![i] = e] \in Seq(K)
               /\ Append(vault, e) \in Seq(K)
               /\ DOMAIN Append(vault, e) = DOMAIN vault \cup {Len(vault) + 1}
               /\ Append(vault, e)[Len(vault) + 1] = e
               /\ \A i \in DOMAIN vault : Append(vault, e)[i] = vault[i]
    <2>1. vault \in Seq(K)
      BY <1>1
    <2>2. \A i \in DOMAIN vault : [vault EXCEPT ![i] = e] \in Seq(K)
      BY <1>8, <2>1, ReplaceOrAppend
    <2>3. /\ Append(vault, e) \in Seq(K)
          /\ DOMAIN Append(vault, e) = DOMAIN vault \cup {Len(vault) + 1}
          /\ Append(vault, e)[Len(vault) + 1] = e
          /\ \A i \in DOMAIN vault : Append(vault, e)[i] = vault[i]
      BY <1>8, <2>1, ReplaceOrAppend
    <2> QED BY <2>2, <2>3
  <1>9. w.op \in {"put", "add"} => w.key \in K
    BY <1>3 DEF RecordWrite
  <1>4. CASE w.op = "put"
    <2>1. w.at \in DOMAIN vault /\ w.key \in KeyRecord /\ w.key # NoKey
      BY <1>2, <1>4 DEF Touches, Standing, RecordWrite
    <2>2. v2 = [vault EXCEPT ![w.at] = w.key]
      BY <1>4
    <2>5. v2 \in Seq(K)
      BY <1>4, <1>8, <1>9, <2>1, <2>2, Zenon
    <2>3. v2 \in Seq(K) /\ DOMAIN v2 = DOMAIN vault /\ v2[w.at] = w.key
      BY <2>1, <2>2, <2>5
    <2>4. \A r \in DOMAIN vault : r # w.at => v2[r] = vault[r]
      BY <1>1, <2>2
    <2> QED BY <1>4, <2>1, <2>3, <2>4 DEF Written, Standing, Touches, K
  <1>5. CASE w.op = "delete"
    <2>1. w.at \in DOMAIN vault
      BY <1>5 DEF Touches, Standing
    <2>2. v2 = [vault EXCEPT ![w.at] = NoKey]
      BY <1>5
    <2>5. v2 \in Seq(K)
      BY <1>3, <1>8, <2>1, <2>2, Zenon
    <2>3. v2 \in Seq(K) /\ DOMAIN v2 = DOMAIN vault /\ v2[w.at] = NoKey
      BY <2>1, <2>2, <2>5
    <2>4. \A r \in DOMAIN vault : r # w.at => v2[r] = vault[r]
      BY <1>1, <2>2
    <2> QED BY <1>5, <2>1, <2>3, <2>4 DEF Written, Standing, Touches, K
  <1>6. CASE w.op = "add"
    <2>1. w.key \in KeyRecord /\ w.key # NoKey
      BY <1>2, <1>6 DEF RecordWrite
    <2>2. v2 = Append(vault, w.key)
      BY <1>6
    <2>3. /\ v2 \in Seq(K) /\ DOMAIN v2 = DOMAIN vault \cup {Len(vault) + 1}
          /\ v2[Len(vault) + 1] = w.key
      BY <1>6, <1>8, <1>9, <2>2
    <2>4. \A r \in DOMAIN vault : v2[r] = vault[r]
      BY <1>6, <1>8, <1>9, <2>2
    <2> QED BY <1>6, <2>1, <2>3, <2>4 DEF Written, Standing, Touches, K
  <1>7. CASE w.op = "withdraw"
    <2>1. v2 = vault
      BY <1>7
    <2> QED BY <1>1, <1>7, <2>1 DEF Written, Standing, Touches, K
  <1> QED BY <1>4, <1>5, <1>6, <1>7 DEF RecordWrite

\* The keys whose private half is to be found after the call w, of those of before.
OwnedAfter(keys, kind, w) ==
    CASE w.op = "delete" \/ (kind = "import" /\ w.op = "put" /\ w.key.private = "none") ->
            keys \ {w.key.fp}
      [] w.op \in {"put", "add"} /\ w.key.private # "none" -> keys \cup {w.key.fp}
      [] OTHER -> keys

\* One careful call leaves one default, keeps the private halves and leaves careful calls.
LEMMA CallKeepsCare ==
    ASSUME NEW v, NEW kind, NEW ws \in Seq(RecordWrite), ws # <<>>, Careful(v, kind, ws),
           OneDefault(v), NEW keys, HasPrivate(v, keys), NEW x, NEW v2, Written(v, ws[1], x, v2),
           ws[1].op = "put" => x = ws[1].at, DOMAIN v \subseteq Nat \ {0}
    PROVE  OneDefault(v2) /\ HasPrivate(v2, OwnedAfter(keys, kind, ws[1])) /\ Tail(ws) \in Seq(RecordWrite)
           /\ Careful(v2, kind, Tail(ws))
  <1> DEFINE w == ws[1]
             us == Tail(ws)
             n == Len(ws)
             blind == kind = "import" /\ w.op = "put" /\ w.key.private = "none"
  <1>1. /\ n \in Nat /\ n >= 1 /\ DOMAIN ws = 1..n /\ us \in Seq(RecordWrite) /\ DOMAIN us = 1..(n - 1)
        /\ \A i \in 1..(n - 1) : us[i] = ws[i + 1] /\ i + 1 \in 1..n /\ i + 1 # 1
        /\ 1 \in 1..n /\ w \in RecordWrite
    OBVIOUS
  <1>2. \A r \in Standing(v2) :
          \/ r \in Standing(v) /\ v2[r] = v[r] /\ ~(Touches(w) /\ r = w.at)
          \/ r = x /\ v2[r] = w.key /\ w.op \in {"put", "add"}
    BY DEF Written
  <1>3. \A r \in Standing(v) : (Touches(w) /\ r = w.at) \/ (r \in Standing(v2) /\ v2[r] = v[r])
    BY DEF Written
  <1>4. w.op \in {"put", "add"} => x \in Standing(v2) /\ v2[x] = w.key
    BY DEF Written
  <1>5. /\ Touches(w) => w.at \in Standing(v) /\ w.key.fp = v[w.at].fp
        /\ w.op = "put" /\ w.key.private = "none" => kind = "import" \/ v[w.at].private = "none"
        /\ w.op = "add" => w.at = 0
    BY <1>1 DEF Careful
  <1>6. Sets(w) => \A r \in Standing(v) : v[r].isDefault => r = w.at
    <2>1. 1..(1 - 1) = {}
      OBVIOUS
    <2> HIDE DEF w
    <2>2. Sets(w) => \A r \in Standing(v) : v[r].isDefault => r = w.at \/ \E j \in 1..(1 - 1) : Touches(ws[j]) /\ ws[j].at = r
      BY <1>1 DEF Careful, w
    <2> QED BY <2>1, <2>2
  <1>7. \A i \in 1..(n - 1) :
           /\ Touches(w) /\ Touches(us[i]) => us[i].at # w.at
           /\ ~(Sets(w) /\ Sets(us[i]))
    BY <1>1 DEF Careful
  <1>8. us \in Seq(RecordWrite)
    BY <1>1
  <1> HIDE DEF w, us, n
  <1>9. OneDefault(v2)
    <2>1. SUFFICES ASSUME NEW r \in Standing(v2), NEW q \in Standing(v2), v2[r].isDefault, v2[q].isDefault,
                          r # x, r # q
                   PROVE  FALSE
      BY DEF OneDefault
    <2>2. r \in Standing(v) /\ v[r].isDefault /\ ~(Touches(w) /\ r = w.at) /\ r # 0
      BY <1>2, <2>1 DEF Standing
    <2>3. CASE q = x /\ v2[q] = w.key /\ w.op \in {"put", "add"}
      <3>1. r = w.at
        BY <1>6, <2>1, <2>2, <2>3 DEF Sets
      <3> QED BY <1>5, <2>2, <2>3, <3>1 DEF Touches
    <2>4. CASE q \in Standing(v) /\ v2[q] = v[q]
      BY <2>1, <2>2, <2>4 DEF OneDefault
    <2> QED BY <1>2, <2>3, <2>4
  <1>10. HasPrivate(v2, OwnedAfter(keys, kind, ws[1]))
    <2>1. SUFFICES ASSUME NEW k \in OwnedAfter(keys, kind, ws[1]) PROVE \E r \in Standing(v2) : v2[r].fp = k /\ v2[r].private # "none"
      BY DEF HasPrivate
    <2>2. CASE w.op = "delete" \/ blind
      <3>1. k \in keys /\ k # w.key.fp
        BY <2>1, <2>2 DEF w, OwnedAfter
      <3>2. PICK r \in Standing(v) : v[r].fp = k /\ v[r].private # "none"
        BY <3>1 DEF HasPrivate
      <3> QED BY <1>3, <1>5, <3>1, <3>2
    <2>3. CASE w.op \in {"put", "add"} /\ w.key.private # "none"
      <3>1. k \in keys \/ k = w.key.fp
        BY <2>1, <2>3 DEF w, OwnedAfter
      <3>2. CASE k = w.key.fp
        BY <1>4, <2>3, <3>2
      <3>3. CASE k \in keys
        <4>1. PICK r \in Standing(v) : v[r].fp = k /\ v[r].private # "none"
          BY <3>3 DEF HasPrivate
        <4>2. CASE Touches(w) /\ r = w.at
          BY <1>4, <1>5, <2>3, <4>1, <4>2
        <4> QED BY <1>3, <4>1, <4>2
      <3> QED BY <3>1, <3>2, <3>3
    <2>4. CASE ~(w.op = "delete" \/ blind) /\ ~(w.op \in {"put", "add"} /\ w.key.private # "none")
      <3>1. k \in keys
        BY <2>1, <2>4 DEF w, OwnedAfter
      <3>2. PICK r \in Standing(v) : v[r].fp = k /\ v[r].private # "none"
        BY <3>1 DEF HasPrivate
      <3>3. ~(Touches(w) /\ r = w.at)
        BY <1>5, <2>4, <3>2 DEF Touches
      <3> QED BY <1>3, <3>2, <3>3
    <2> QED BY <2>2, <2>3, <2>4
  <1>11. ASSUME NEW i \in 1..(n - 1)
         PROVE  /\ Touches(us[i]) => us[i].at \in Standing(v2) /\ us[i].key.fp = v2[us[i].at].fp
                                     /\ v2[us[i].at] = v[us[i].at]
                /\ us[i].op = "put" /\ us[i].key.private = "none" =>
                      kind = "import" \/ v2[us[i].at].private = "none"
                /\ us[i].op = "add" => us[i].at = 0
    <2>1. /\ Touches(us[i]) => us[i].at \in Standing(v) /\ us[i].key.fp = v[us[i].at].fp
          /\ us[i].op = "put" /\ us[i].key.private = "none" =>
                kind = "import" \/ v[us[i].at].private = "none"
          /\ us[i].op = "add" => us[i].at = 0
      <3>1. i + 1 \in DOMAIN ws /\ us[i] = ws[i + 1]
        BY <1>1
      <3> QED BY <3>1 DEF Careful
    <2>2. Touches(us[i]) => us[i].at \in Standing(v2) /\ v2[us[i].at] = v[us[i].at]
      BY <1>3, <1>7, <2>1
    <2> QED BY <2>1, <2>2 DEF Touches
  <1>12. ASSUME NEW i \in 1..(n - 1), Sets(us[i]), NEW r \in Standing(v2), v2[r].isDefault
         PROVE  r = us[i].at \/ \E j \in 1..(i - 1) : Touches(us[j]) /\ us[j].at = r
    <2>1. r \in Standing(v) /\ v[r].isDefault /\ ~(Touches(w) /\ r = w.at)
      BY <1>2, <1>7, <1>12 DEF Sets
    <2>2. i + 1 \in DOMAIN ws /\ us[i] = ws[i + 1]
      BY <1>1
    <2>3. r = us[i].at \/ \E j \in 1..((i + 1) - 1) : Touches(ws[j]) /\ ws[j].at = r
      BY <1>12, <2>1, <2>2 DEF Careful
    <2>4. ASSUME NEW j \in 1..((i + 1) - 1), Touches(ws[j]), ws[j].at = r
          PROVE  \E l \in 1..(i - 1) : Touches(us[l]) /\ us[l].at = r
      <3>1. j # 1
        BY <2>1, <2>4 DEF w, OwnedAfter
      <3>2. j - 1 \in 1..(i - 1) /\ j - 1 \in 1..(n - 1) /\ (j - 1) + 1 = j
        BY <1>1, <3>1
      <3>3. us[j - 1] = ws[j]
        BY <1>1, <3>2
      <3> QED BY <2>4, <3>2, <3>3
    <2> QED BY <2>3, <2>4
  <1>13. \A i, j \in 1..(n - 1) :
            /\ Touches(us[i]) /\ Touches(us[j]) /\ us[i].at = us[j].at => i = j
            /\ Sets(us[i]) /\ Sets(us[j]) => i = j
    <2>1. TAKE i, j \in 1..(n - 1)
    <2>2. /\ i + 1 \in DOMAIN ws /\ us[i] = ws[i + 1]
          /\ j + 1 \in DOMAIN ws /\ us[j] = ws[j + 1]
      BY <1>1
    <2>3. i + 1 = j + 1 => i = j
      OBVIOUS
    <2> QED BY <2>2, <2>3 DEF Careful
  <1>14. DOMAIN us = 1..(n - 1)
    BY <1>1
  <1>15. Careful(v2, kind, us)
    BY <1>11, <1>12, <1>13, <1>14 DEF Careful
  <1> QED BY <1>8, <1>9, <1>10, <1>15 DEF us

LEMMA RestIsMindful ==
    AtRest \in LocalState /\ AtRest.pc = "rest" /\ \A v : Mindful(v, AtRest)
  <1>1. <<>> \in Seq(RecordWrite)
    OBVIOUS
  <1>2. AtRest \in LocalState
    BY <1>1 DEF AtRest, LocalState
  <1>3. AtRest.pc = "rest" /\ AtRest.kind = "none" /\ ~AtRest.asked
    BY DEF AtRest
  <1> QED BY <1>2, <1>3 DEF Mindful

LEMMA VaultInitially ==
    ASSUME VaultInit
    PROVE  VaultInv
  <1>1. NoKey \notin KeyRecord /\ AtRest \in LocalState /\ AtRest.pc = "rest"
        /\ AtRest.kind = "none" /\ ~AtRest.asked
    BY RestIsMindful, VaultAssumption DEF KeyRecord, NoKey, AtRest
  <1>2. VaultTypes
    <2>1. Unlisted \in [private : Half, public : Half] /\ <<>> \in Seq(KeyRecord \cup {NoKey})
      BY DEF Unlisted, Half
    <2> QED BY <1>1, <2>1 DEF VaultInit, VaultTypes
  <1>3. OneDefault(vault) /\ HasPrivate(vault, owned)
    BY DEF VaultInit, OneDefault, HasPrivate, Standing
  <1>4. \A m \in Mutation : Mindful(vault, mutation[m]) /\ mutation[m].pc = "rest"
    BY <1>1 DEF VaultInit, Mindful
  <1> QED BY <1>2, <1>3, <1>4 DEF VaultInv

\* A step of one mutation that leaves the records alone.
LEMMA OneMutationSteps ==
    ASSUME VaultInv, ~mingled, NEW m \in Mutation, NEW t \in LocalState,
           mutation' = [mutation EXCEPT ![m] = t],
           UNCHANGED <<vault, listed, consented, owned>>,
           Mindful(vault, t), t.pc = "rest" \/ \A o \in Mutation : o # m => mutation[o].pc = "rest"
    PROVE  VaultInv'
  <1>1. VaultTypes /\ OneDefault(vault) /\ HasPrivate(vault, owned)
    BY DEF VaultInv
  <1>2. mutation \in [Mutation -> LocalState]
    BY <1>1 DEF VaultTypes
  <1>3. mutation'[m] = t /\ \A o \in Mutation : o # m => mutation'[o] = mutation[o]
    BY <1>2
  <1>4. VaultTypes'
    BY <1>1, <1>2 DEF VaultTypes
  <1>5. OneDefault(vault)' /\ HasPrivate(vault, owned)'
    BY <1>1 DEF OneDefault, HasPrivate, Standing
  <1>6. \A o \in Mutation : Mindful(vault', mutation'[o])
    <2>1. \A o \in Mutation : Mindful(vault, mutation[o])
      BY DEF VaultInv
    <2> QED BY <1>3, <2>1 DEF Mindful, Careful, Standing
  <1>7. \A o, p \in Mutation : mutation'[o].pc # "rest" /\ mutation'[p].pc # "rest" => o = p
    BY <1>3 DEF VaultInv
  <1> QED BY <1>4, <1>5, <1>6, <1>7 DEF VaultInv

LEMMA BeginSound ==
    ASSUME VaultInv, ~mingled, ~mingled', NEW m \in Mutation, NEW t \in LocalState, Begin(m, t), Mindful(vault, t)
    PROVE  VaultInv'
  <1>1. \A o \in Mutation : mutation[o].pc = "rest"
    BY DEF Begin
  <1>2. mutation' = [mutation EXCEPT ![m] = t] /\ UNCHANGED <<vault, listed, consented, owned>>
    BY DEF Begin
  <1> QED BY <1>1, <1>2, OneMutationSteps

LEMMA BeginsAreSound ==
    ASSUME VaultInv, ~mingled, ~mingled', NEW m \in Mutation, NEW fp \in Fingerprint,
           NEW asDefault \in BOOLEAN, NEW given \in BOOLEAN, NEW kind \in MutationKind,
           \/ BeginCreate(m, fp, asDefault, given)
           \/ BeginImportPrivate(m, fp, asDefault, given)
           \/ BeginImportPublic(m, fp, asDefault)
           \/ kind \notin {"create", "import"} /\ BeginCommand(m, kind, fp)
    PROVE  VaultInv'
  <1>1. listed[fp].private \in Half /\ listed[fp].public \in Half
    BY DEF VaultInv, VaultTypes
  <1>2. CASE BeginCreate(m, fp, asDefault, given)
    <2> DEFINE key == [NoKey EXCEPT !.fp = fp, !.private = "sound", !.public = "sound", !.passphrase = given]
               t == [AtRest EXCEPT !.pc = "read", !.kind = "create", !.fp = fp, !.asDefault = asDefault,
                        !.key = key]
    <2>1. key \in KeyRecord /\ key.private # "none"
      BY DEF NoKey, KeyRecord, Half
    <2>2. Begin(m, t)
      BY <1>2 DEF BeginCreate
    <2> HIDE DEF key
    <2>3. /\ t \in LocalState /\ t.pc = "read" /\ t.key = key /\ ~t.asked
          /\ t.kind \in {"create", "import"}
          /\ t.kind = "create" => key.private # "none"
      BY <2>1, RestIsMindful DEF AtRest, LocalState, MutationKind
    <2>4. Mindful(vault, t)
      <3> HIDE DEF t
      <3> QED BY <2>1, <2>3 DEF Mindful, MutationKind
    <2> HIDE DEF t
    <2> QED BY <2>2, <2>3, <2>4, BeginSound
  <1>3. CASE BeginImportPrivate(m, fp, asDefault, given)
    <2> DEFINE key == [NoKey EXCEPT !.fp = fp, !.private = "sound", !.passphrase = given,
                          !.public = IF listed[fp].public = "none" THEN "sound" ELSE listed[fp].public]
               t == [AtRest EXCEPT !.pc = "read", !.kind = "import", !.fp = fp, !.asDefault = asDefault,
                        !.key = key]
    <2>1. key \in KeyRecord
      BY <1>1 DEF NoKey, KeyRecord, Half
    <2>2. Begin(m, t)
      BY <1>3 DEF BeginImportPrivate
    <2> HIDE DEF key
    <2>3. /\ t \in LocalState /\ t.pc = "read" /\ t.key = key /\ ~t.asked
          /\ t.kind \in {"create", "import"}
          /\ t.kind = "create" => key.private # "none"
      BY <2>1, RestIsMindful DEF AtRest, LocalState, MutationKind
    <2>4. Mindful(vault, t)
      <3> HIDE DEF t
      <3> QED BY <2>1, <2>3 DEF Mindful, MutationKind
    <2> HIDE DEF t
    <2> QED BY <2>2, <2>3, <2>4, BeginSound
  <1>4. CASE BeginImportPublic(m, fp, asDefault)
    <2> DEFINE key == [NoKey EXCEPT !.fp = fp, !.private = listed[fp].private, !.public = "sound"]
               t == [AtRest EXCEPT !.pc = "read", !.kind = "import", !.fp = fp, !.asDefault = asDefault,
                        !.key = key]
    <2>1. key \in KeyRecord
      BY <1>1 DEF NoKey, KeyRecord, Half
    <2>2. Begin(m, t)
      BY <1>4 DEF BeginImportPublic
    <2> HIDE DEF key
    <2>3. /\ t \in LocalState /\ t.pc = "read" /\ t.key = key /\ ~t.asked
          /\ t.kind \in {"create", "import"}
          /\ t.kind = "create" => key.private # "none"
      BY <2>1, RestIsMindful DEF AtRest, LocalState, MutationKind
    <2>4. Mindful(vault, t)
      <3> HIDE DEF t
      <3> QED BY <2>1, <2>3 DEF Mindful, MutationKind
    <2> HIDE DEF t
    <2> QED BY <2>2, <2>3, <2>4, BeginSound
  <1>5. CASE kind \notin {"create", "import"} /\ BeginCommand(m, kind, fp)
    <2> DEFINE t == [AtRest EXCEPT !.pc = "read", !.kind = kind, !.fp = fp,
                                   !.asked = kind \in {"revise", "revoke"}]
    <2>1. Begin(m, t)
      BY <1>5 DEF BeginCommand
    <2>2. /\ t \in LocalState /\ t.pc = "read" /\ t.kind = kind
          /\ t.asked => kind \in {"revise", "revoke"}
      <3>1. t.pc = "read" /\ t.kind = kind /\ (t.asked => kind \in {"revise", "revoke"})
        BY DEF AtRest
      <3>2. (kind \in {"revise", "revoke"}) \in BOOLEAN
        OBVIOUS
      <3>3. t \in LocalState
        BY <3>2, RestIsMindful DEF LocalState
      <3> QED BY <3>1, <3>3
    <2>3. Mindful(vault, t)
      <3> HIDE DEF t
      <3> QED BY <1>5, <2>2 DEF Mindful
    <2> HIDE DEF t
    <2> QED BY <2>1, <2>2, <2>3, BeginSound
  <1> QED BY <1>2, <1>3, <1>4, <1>5

LEMMA MutationSteps ==
    ASSUME VaultInv, ~mingled, NEW m \in Mutation,
           ReadVault(m) \/ EngineAnswers(m) \/ MutationFails(m)
    PROVE  VaultInv'
  <1> DEFINE t == mutation[m]
  <1>1. /\ VaultTypes /\ OneDefault(vault) /\ HasPrivate(vault, owned) /\ t \in LocalState /\ Mindful(vault, t)
        /\ mutation \in [Mutation -> LocalState]
        /\ \A o, p \in Mutation : mutation[o].pc # "rest" /\ mutation[p].pc # "rest" => o = p
    BY DEF VaultInv, VaultTypes
  <1>2. AtRest \in LocalState /\ Mindful(vault, AtRest) /\ AtRest.pc = "rest"
    BY RestIsMindful
  <1>3. CASE MutationFails(m)
    <2>1. mutation' = [mutation EXCEPT ![m] = AtRest]
          /\ UNCHANGED <<vault, listed, consented, owned>>
      BY <1>3 DEF MutationFails
    <2> QED BY <1>2, <2>1, OneMutationSteps
  <1>4. CASE ReadVault(m)
    <2> DEFINE plan == Plan(m)
               u == [t EXCEPT !.pc = IF t.asked THEN "engine" ELSE "write", !.writes = plan]
    <2>1. t.pc = "read" /\ UNCHANGED <<vault, listed, consented, owned>>
      BY <1>4 DEF ReadVault
    <2>2. mutation' = [mutation EXCEPT ![m] = IF plan = <<>> THEN AtRest ELSE u]
      BY <1>4 DEF ReadVault
    <2>3. plan \in Seq(RecordWrite) /\ Careful(vault, t.kind, plan)
          /\ (t.asked /\ plan # <<>> => plan[1].op = "put")
      BY <1>1, <2>1, PlansAreCareful
    <2>4. \A o \in Mutation : o # m => mutation[o].pc = "rest"
      BY <1>1, <2>1
    <2> HIDE DEF plan
    <2>5. CASE plan = <<>>
      BY <1>2, <2>1, <2>2, <2>5, OneMutationSteps
    <2>6. CASE plan # <<>>
      <3>1. u \in LocalState
        BY <1>1, <2>3 DEF LocalState
      <3>2. u.kind = t.kind /\ u.key = t.key /\ u.asked = t.asked /\ u.writes = plan
            /\ u.pc = IF t.asked THEN "engine" ELSE "write"
        BY <1>1 DEF LocalState
      <3> HIDE DEF u
      <3>3. Mindful(vault, u)
        BY <1>1, <2>3, <2>6, <3>2 DEF Mindful
      <3> QED BY <2>1, <2>2, <2>4, <2>6, <3>1, <3>3, OneMutationSteps
    <2> QED BY <2>5, <2>6
  <1>5. CASE EngineAnswers(m)
    <2> DEFINE w == [t.writes[1] EXCEPT !.key.passphrase = consented]
               u == [t EXCEPT !.pc = "write", !.writes = <<w>>]
    <2>1. t.pc = "engine" /\ UNCHANGED <<vault, listed, consented, owned>>
      BY <1>5 DEF EngineAnswers
    <2>2. mutation' = [mutation EXCEPT ![m] = u]
      BY <1>1, <1>5 DEF EngineAnswers
    <2>3. /\ t.writes \in Seq(RecordWrite) /\ t.writes # <<>> /\ t.writes[1].op = "put"
          /\ Careful(vault, t.kind, t.writes) /\ consented \in BOOLEAN
      BY <1>1, <2>1 DEF Mindful, LocalState, VaultTypes
    <2>4. t.writes[1] \in RecordWrite /\ 1 \in DOMAIN t.writes /\ t.writes[1].key \in KeyRecord
      <3>1. t.writes[1] \in RecordWrite /\ 1 \in DOMAIN t.writes
        BY <2>3
      <3> QED BY <2>3, <3>1 DEF RecordWrite
    <2> DEFINE first == t.writes[1]
               key == [first.key EXCEPT !.passphrase = consented]
    <2>11. first \in [op : {"put", "add", "delete"}, at : Nat, key : KeyRecord] /\ first.op = "put"
      <3>1. first.op = "put" /\ first \in RecordWrite
        BY <2>3, <2>4
      <3> HIDE DEF first
      <3> QED BY <3>1 DEF RecordWrite
    <2>12. /\ key \in KeyRecord /\ key.fp = first.key.fp /\ key.private = first.key.private
           /\ key.isDefault = first.key.isDefault
      BY <2>3, <2>4 DEF KeyRecord
    <2>13. w = [first EXCEPT !.key = key]
      BY <2>11
    <2> HIDE DEF key, w
    <2>14. w = [op |-> "put", at |-> first.at, key |-> key]
      BY <2>11, <2>13
    <2>5. /\ w \in RecordWrite /\ w.op = "put" /\ w.at = first.at
          /\ w.key.fp = first.key.fp /\ w.key.private = first.key.private
          /\ w.key.isDefault = first.key.isDefault
      BY <2>11, <2>12, <2>14 DEF RecordWrite
    <2> HIDE DEF w
    <2>6. Careful(vault, t.kind, <<w>>)
      <3>1. DOMAIN <<w>> = {1} /\ <<w>>[1] = w
        OBVIOUS
      <3> DEFINE one == <<w>>
      <3>2. DOMAIN one = {1} /\ one[1] = w
        OBVIOUS
      <3> HIDE DEF one
      <3>3. Careful(vault, t.kind, one)
        BY <2>3, <2>4, <2>5, <3>2 DEF Careful, Touches, Sets
      <3> QED BY <3>3 DEF one
    <2>10. <<w>> \in Seq(RecordWrite) /\ <<w>> # <<>>
      BY <2>5
    <2>7. u \in LocalState /\ u.pc = "write" /\ u.kind = t.kind /\ u.key = t.key /\ u.asked = t.asked
          /\ u.writes = <<w>>
      BY <1>1, <2>10 DEF LocalState
    <2> HIDE DEF u
    <2>8. Mindful(vault, u)
      BY <1>1, <2>6, <2>7, <2>10 DEF Mindful
    <2>9. \A o \in Mutation : o # m => mutation[o].pc = "rest"
      BY <1>1, <2>1
    <2> QED BY <2>1, <2>2, <2>7, <2>8, <2>9, OneMutationSteps
  <1> QED BY <1>3, <1>4, <1>5

\* One call to the server or to the settings.
LEMMA WriteSteps ==
    ASSUME VaultInv, ~mingled, NEW m \in Mutation, WriteRecord(m)
    PROVE  VaultInv'
  <1> DEFINE t == mutation[m]
             w == Head(t.writes)
             blind == t.kind = "import" /\ w.op = "put" /\ w.key.private = "none"
  <1>1. /\ VaultTypes /\ OneDefault(vault) /\ HasPrivate(vault, owned) /\ t \in LocalState /\ Mindful(vault, t)
        /\ mutation \in [Mutation -> LocalState] /\ consented \in BOOLEAN
        /\ \A o, p \in Mutation : mutation[o].pc # "rest" /\ mutation[p].pc # "rest" => o = p
    BY DEF VaultInv, VaultTypes
  <1>2. t.pc = "write" /\ t.writes \in Seq(RecordWrite) /\ t.writes # <<>> /\ UNCHANGED listed
        /\ Careful(vault, t.kind, t.writes)
    BY <1>1 DEF WriteRecord, Mindful, LocalState
  <1>3. w = t.writes[1] /\ w \in RecordWrite /\ 1 \in DOMAIN t.writes
    BY <1>2
  <1>4. Touches(w) => w.at \in Standing(vault)
    BY <1>2, <1>3 DEF Careful
  <1>5. \A o \in Mutation : o # m => mutation[o].pc = "rest"
    BY <1>1, <1>2
  <1>6. ASSUME /\ w.op \in {"put", "delete"} /\ vault[w.at] = NoKey
               /\ mutation' = [mutation EXCEPT ![m] = AtRest] /\ UNCHANGED <<vault, owned, consented>>
        PROVE  FALSE
    BY <1>4, <1>6 DEF Touches, Standing
  <1>7. ASSUME /\ vault' = CASE w.op = "put" -> [vault EXCEPT ![w.at] = w.key]
                             [] w.op = "delete" -> [vault EXCEPT ![w.at] = NoKey]
                             [] w.op = "add" -> Append(vault, w.key)
                             [] w.op = "withdraw" -> vault
               /\ owned' = CASE w.op = "delete" \/ blind -> owned \ {w.key.fp}
                             [] w.op \in {"put", "add"} /\ w.key.private # "none" -> owned \cup {w.key.fp}
                             [] OTHER -> owned
               /\ consented' = (consented /\ w.op # "withdraw")
               /\ mutation' = [mutation EXCEPT ![m] =
                     IF Len(t.writes) = 1 THEN AtRest ELSE [t EXCEPT !.writes = Tail(@)]]
        PROVE  VaultInv'
    <2> DEFINE x == IF w.op = "put" THEN w.at ELSE Len(vault) + 1
               rest == Tail(t.writes)
               u == IF Len(t.writes) = 1 THEN AtRest ELSE [t EXCEPT !.writes = rest]
    <2> HIDE DEF w
    <2>1. Written(vault, w, x, vault')
      BY <1>1, <1>3, <1>4, <1>7, CallWrites
    <2>2. DOMAIN vault \subseteq Nat \ {0}
      BY <1>1 DEF VaultTypes
    <2>3. w.op = "put" => x = w.at
      OBVIOUS
    <2> HIDE DEF x
    <2> DEFINE ws == t.writes
               kind == t.kind
    <2>8. owned' = OwnedAfter(owned, kind, ws[1])
      BY <1>3, <1>7 DEF OwnedAfter
    <2>9. Written(vault, ws[1], x, vault') /\ (ws[1].op = "put" => x = ws[1].at)
      BY <1>3, <2>1, <2>3
    <2>4. OneDefault(vault') /\ HasPrivate(vault', owned') /\ rest \in Seq(RecordWrite)
          /\ Careful(vault', t.kind, rest)
      <3>1. ws \in Seq(RecordWrite) /\ ws # <<>> /\ Careful(vault, kind, ws)
        BY <1>2
      <3> HIDE DEF ws, kind
      <3>2. OneDefault(vault') /\ HasPrivate(vault', owned') /\ Tail(ws) \in Seq(RecordWrite)
            /\ Careful(vault', kind, Tail(ws))
        BY <1>1, <2>2, <2>8, <2>9, <3>1, CallKeepsCare, Zenon
      <3> QED BY <3>2 DEF ws, kind
    <2>5. VaultTypes'
      <3>1. u \in LocalState
        BY <1>1, <2>4, RestIsMindful DEF LocalState
      <3>2. mutation' = [mutation EXCEPT ![m] = u]
        BY <1>7
      <3>3. vault' \in Seq(KeyRecord \cup {NoKey})
        BY <2>1 DEF Written
      <3>4. consented' \in BOOLEAN
        BY <1>1, <1>7
      <3> HIDE DEF u
      <3>5. mutation' \in [Mutation -> LocalState]
        BY <1>1, <3>1, <3>2
      <3> QED BY <1>1, <1>2, <3>3, <3>4, <3>5 DEF VaultTypes
    <2>6. mutation'[m] = u /\ \A o \in Mutation : o # m => mutation'[o] = mutation[o]
      BY <1>1, <1>7
    <2>7. Mindful(vault', u)
      <3>1. CASE Len(t.writes) = 1
        BY <3>1, RestIsMindful
      <3>2. CASE Len(t.writes) # 1
        <4>1. u = [t EXCEPT !.writes = rest]
          BY <3>2
        <4>2. /\ u.writes = rest /\ u.pc = t.pc /\ u.kind = t.kind /\ u.key = t.key /\ u.asked = t.asked
          BY <1>1, <4>1 DEF LocalState
        <4>3. rest # <<>>
          <5>1. Len(t.writes) \in Nat /\ Len(t.writes) # 0 /\ Len(rest) = Len(t.writes) - 1
            BY <1>2
          <5>2. Len(<<>>) = 0
            OBVIOUS
          <5> HIDE DEF rest
          <5>3. Len(rest) # 0
            BY <3>2, <5>1
          <5> QED BY <5>2, <5>3, Zenon
        <4> HIDE DEF u, rest
        <4> QED BY <1>1, <1>2, <2>4, <4>2, <4>3 DEF Mindful
      <3> QED BY <3>1, <3>2
    <2>10. \A o \in Mutation : o # m => Mindful(vault', mutation'[o])
      <3>1. \A o \in Mutation : Mindful(vault, mutation[o])
        BY DEF VaultInv
      <3> QED BY <1>5, <2>6, <3>1 DEF Mindful
    <2>11. \A o \in Mutation : Mindful(vault', mutation'[o])
      <3> HIDE DEF u
      <3> QED BY <2>6, <2>7, <2>10
    <2>12. \A o, p \in Mutation : mutation'[o].pc # "rest" /\ mutation'[p].pc # "rest" => o = p
      BY <1>5, <2>6
    <2> QED BY <2>4, <2>5, <2>11, <2>12 DEF VaultInv
  <1> QED BY <1>6, <1>7 DEF WriteRecord

LEMMA VaultSteps ==
    ASSUME VaultInv, [VaultNext]_vaultVars
    PROVE  VaultInv'
  <1>1. CASE mingled \/ mingled'
    <2>1. CASE mingled'
      BY <2>1 DEF VaultInv
    <2>2. CASE mingled
      <3>1. mingled'
        BY <2>2 DEF VaultNext, vaultVars, ReloadKeys, Consent, ReadVault, EngineAnswers, WriteRecord,
              MutationFails, BeginImportPublic, BeginCreate, BeginImportPrivate, BeginCommand, Begin
      <3> QED BY <3>1 DEF VaultInv
    <2> QED BY <1>1, <2>1, <2>2
  <1>2. CASE ~mingled /\ ~mingled'
    <2>1. CASE UNCHANGED vaultVars
      BY <2>1 DEF VaultInv, VaultTypes, OneDefault, HasPrivate, Standing, Mindful, Careful, vaultVars
    <2>2. CASE ReloadKeys \/ Consent
      <3>1. UNCHANGED <<vault, mutation, owned>>
        BY <2>2 DEF ReloadKeys, Consent
      <3>2. VaultTypes'
        <4>1. VaultTypes
          BY <1>2 DEF VaultInv
        <4>2. consented' \in BOOLEAN
          BY <2>2, <4>1 DEF ReloadKeys, Consent, VaultTypes
        <4>3. listed' \in [Fingerprint -> [private : Half, public : Half]]
          <5>1. Unlisted \in [private : Half, public : Half]
            BY DEF Unlisted, Half
          <5>2. \A k \in Fingerprint : RecordOf(k) # 0 => vault[RecordOf(k)] \in KeyRecord
            BY <4>1, RecordsFound
          <5>3. \A k \in Fingerprint : RecordOf(k) # 0 =>
                   vault[RecordOf(k)].private \in Half /\ vault[RecordOf(k)].public \in Half
            BY <5>2 DEF KeyRecord
          <5>4. CASE Consent
            BY <4>1, <5>4 DEF Consent, VaultTypes
          <5>5. CASE ReloadKeys
            BY <5>1, <5>3, <5>5 DEF ReloadKeys
          <5> QED BY <2>2, <5>4, <5>5
        <4> QED BY <3>1, <4>1, <4>2, <4>3 DEF VaultTypes
      <3> QED BY <1>2, <3>1, <3>2 DEF VaultInv
    <2>3. ASSUME NEW m \in Mutation, ReadVault(m) \/ EngineAnswers(m) \/ MutationFails(m)
          PROVE  VaultInv'
      BY <1>2, <2>3, MutationSteps
    <2>4. ASSUME NEW m \in Mutation, WriteRecord(m)
          PROVE  VaultInv'
      BY <1>2, <2>4, WriteSteps
    <2>5. ASSUME NEW m \in Mutation, NEW fp \in Fingerprint, NEW asDefault \in BOOLEAN,
                 \/ BeginImportPublic(m, fp, asDefault)
                 \/ \E given \in BOOLEAN : \/ BeginCreate(m, fp, asDefault, given)
                                           \/ BeginImportPrivate(m, fp, asDefault, given)
          PROVE  VaultInv'
      <3>1. PICK given \in BOOLEAN : \/ BeginImportPublic(m, fp, asDefault)
                                    \/ BeginCreate(m, fp, asDefault, given)
                                    \/ BeginImportPrivate(m, fp, asDefault, given)
        BY <2>5
      <3>2. "delete" \in MutationKind
        BY DEF MutationKind
      <3> QED BY <1>2, <3>1, <3>2, BeginsAreSound
    <2>6. ASSUME NEW m \in Mutation, NEW fp \in Fingerprint,
                 NEW kind \in {"delete", "setDefault", "revise", "revoke", "verify", "forget"},
                 BeginCommand(m, kind, fp)
          PROVE  VaultInv'
      <3>1. kind \in MutationKind /\ kind \notin {"create", "import"} /\ TRUE \in BOOLEAN
        BY DEF MutationKind
      <3> QED BY <1>2, <2>6, <3>1, BeginsAreSound
    <2> QED BY <2>1, <2>2, <2>3, <2>4, <2>5, <2>6 DEF VaultNext
  <1> QED BY <1>1, <1>2

\* keyMutationService.ts - mutations that run one after the other, any of which may stop
\* after any of its calls, never leave two default keys and never lose a private half that
\* no one deleted or overwrote.
THEOREM QuietMutationsAreSound == VaultSpec => []QuietVaultIsSound
  <1>1. VaultInit => VaultInv
    BY VaultInitially
  <1>2. VaultInv /\ [VaultNext]_vaultVars => VaultInv'
    BY VaultSteps
  <1>3. VaultInv => QuietVaultIsSound
    <2>1. SUFFICES ASSUME VaultInv, ~mingled
                   PROVE  /\ Cardinality(Defaults) <= 1
                          /\ \A k \in owned : \E r \in Present : vault[r].fp = k /\ vault[r].private # "none"
      BY DEF QuietVaultIsSound
    <2>2. Present = Standing(vault) /\ OneDefault(vault) /\ HasPrivate(vault, owned)
      BY <2>1 DEF VaultInv, Present, Standing
    <2>3. \A r, q \in Defaults : r = q
      BY <2>2 DEF Defaults, OneDefault
    <2>4. CASE Defaults = {}
      BY <2>4, FS_EmptySet, <2>2 DEF HasPrivate
    <2>5. CASE Defaults # {}
      <3>1. PICK r \in Defaults : TRUE
        BY <2>5
      <3>2. Defaults = {r}
        BY <2>3, <3>1
      <3>3. Cardinality(Defaults) = 1
        BY <3>2, FS_Singleton
      <3> QED BY <3>3, <2>2 DEF HasPrivate
    <2> QED BY <2>4, <2>5
  <1> QED BY <1>1, <1>2, <1>3, PTL DEF VaultSpec

-----------------------------------------------------------------------------
(* The registry of long operations.                                         *)

Status == {"running", "succeeded", "failed"}
OpRecord(n) == [id : 1..n, kind : OpKind, status : Status, seen : BOOLEAN]
Works == [OpId -> Running \cup {"none", "succeeded", "failed"}]

\* What a list of records says of the works w, of which n were begun.
Tells(ops, w, n) ==
    /\ ops \subseteq OpRecord(n)
    /\ \A id \in OpId : w[id] = "running" => \E op \in ops : op.id = id /\ op.status = "running"
    /\ \A op \in ops : op.status = IF w[op.id] = "reported" THEN "succeeded" ELSE w[op.id]

\* The list tells the works, and an id that was not handed out yet belongs to none.
CenterInv ==
    /\ newest \in 0..LastOp
    /\ work \in Works
    /\ \A id \in OpId : id > newest => work[id] = "none"
    /\ Tells(operations, work, newest)

\* Pruning takes nothing away that runs; seeing changes nothing that is told.
LEMMA RenderTells ==
    ASSUME NEW ops, NEW w, NEW n, NEW p, NEW open, Tells(ops, w, n), Render(ops, p, open)
    PROVE  Tells(operations', w, n)
  <1> DEFINE kept == Pruned(ops)
             seen(op) == IF open /\ op.status # "running" THEN [op EXCEPT !.seen = TRUE] ELSE op
  <1>1. operations' = {seen(op) : op \in kept}
    BY DEF Render, Seen
  <1>2. kept \subseteq ops /\ \A op \in ops : op.status = "running" => op \in kept
    BY DEF Pruned
  <1>3. ops \subseteq OpRecord(n)
    BY DEF Tells
  <1>4. \A op \in OpRecord(n) : seen(op) \in OpRecord(n) /\ seen(op).id = op.id /\ seen(op).status = op.status
    BY DEF OpRecord
  <1> HIDE DEF seen, kept
  <1>5. operations' \subseteq OpRecord(n)
    BY <1>1, <1>2, <1>3, <1>4
  <1>6. \A id \in OpId : w[id] = "running" =>
            \E op \in operations' : op.id = id /\ op.status = "running"
    BY <1>1, <1>2, <1>3, <1>4 DEF Tells
  <1>7. \A op \in operations' : op.status = IF w[op.id] = "reported" THEN "succeeded" ELSE w[op.id]
    BY <1>1, <1>2, <1>3, <1>4 DEF Tells
  <1> QED BY <1>5, <1>6, <1>7 DEF Tells

\* A patch that tells what its work has come to.
LEMMA PatchTells ==
    ASSUME CenterInv, NEW id \in OpId, NEW status \in Status \cup {"progress"}, NEW outcome,
           \/ status = "progress" /\ outcome = work[id]
           \/ status = "failed" /\ outcome = "failed"
           \/ status = "succeeded" /\ outcome \in {"reported", "succeeded"}
    PROVE  Tells(Patched(id, status), [work EXCEPT ![id] = outcome], newest)
  <1> DEFINE new(op) == IF op.id = id /\ status # "progress" THEN [op EXCEPT !.status = status] ELSE op
             w == [work EXCEPT ![id] = outcome]
  <1>1. Patched(id, status) = {new(op) : op \in operations}
    BY DEF Patched
  <1>2. \A op \in OpRecord(newest) :
            /\ new(op) \in OpRecord(newest) /\ new(op).id = op.id
            /\ new(op).status = IF op.id = id /\ status # "progress" THEN status ELSE op.status
    BY DEF OpRecord, Status
  <1>3. operations \subseteq OpRecord(newest) /\ work \in Works
    BY DEF CenterInv, Tells
  <1>4. \A i \in OpId : w[i] = IF i = id THEN outcome ELSE work[i]
    BY <1>3 DEF Works
  <1>5. \A op \in operations : op.id \in OpId
    BY <1>3, CenterAssumption DEF OpRecord, OpId, CenterInv
  <1> HIDE DEF new, w
  <1>6. \A i \in OpId : w[i] = "running" => \E op \in Patched(id, status) : op.id = i /\ op.status = "running"
    <2> SUFFICES ASSUME NEW i \in OpId, w[i] = "running"
                 PROVE  \E op \in Patched(id, status) : op.id = i /\ op.status = "running"
      OBVIOUS
    <2>1. work[i] = "running" /\ (i = id => status = "progress")
      BY <1>4
    <2>2. PICK op \in operations : op.id = i /\ op.status = "running"
      BY <2>1 DEF CenterInv, Tells
    <2>3. new(op).id = i /\ new(op).status = "running" /\ new(op) \in Patched(id, status)
      BY <2>1, <2>2, <1>1, <1>2, <1>3
    <2> QED BY <2>3
  <1>7. \A op \in Patched(id, status) : op.status = IF w[op.id] = "reported" THEN "succeeded" ELSE w[op.id]
    <2> SUFFICES ASSUME NEW o \in operations
                 PROVE  new(o).status = IF w[new(o).id] = "reported" THEN "succeeded" ELSE w[new(o).id]
      BY <1>1
    <2>1. o.status = IF work[o.id] = "reported" THEN "succeeded" ELSE work[o.id]
      BY DEF CenterInv, Tells
    <2>2. /\ new(o).id = o.id /\ o.id \in OpId
          /\ new(o).status = IF o.id = id /\ status # "progress" THEN status ELSE o.status
      BY <1>2, <1>3, <1>5
    <2> QED BY <2>1, <2>2, <1>4
  <1>8. Patched(id, status) \subseteq OpRecord(newest)
    BY <1>1, <1>2, <1>3
  <1> QED BY <1>6, <1>7, <1>8 DEF Tells, w

\* The record of an operation that begins.
LEMMA StartTells ==
    ASSUME CenterInv, NEW kind \in OpKind, newest < LastOp
    PROVE  /\ Tells(Started(newest + 1, kind), [work EXCEPT ![newest + 1] = "running"], newest + 1)
           /\ newest + 1 \in OpId
  <1> DEFINE n == newest + 1
             w == [work EXCEPT ![n] = "running"]
             new == [id |-> n, kind |-> kind, status |-> "running", seen |-> FALSE]
  <1>1. n \in OpId /\ newest \in Nat
    BY CenterAssumption DEF CenterInv, OpId
  <1>2. \A i \in OpId : w[i] = IF i = n THEN "running" ELSE work[i]
    BY <1>1 DEF CenterInv, Works
  <1>3. new \in OpRecord(n) /\ OpRecord(newest) \subseteq OpRecord(n)
    BY <1>1 DEF OpRecord, Status
  <1>4. \A op \in operations : op.id \in OpId /\ op.id # n
    BY <1>1, CenterAssumption DEF CenterInv, Tells, OpRecord, OpId
  <1>5. Started(n, kind) = operations \cup {new}
    BY DEF Started
  <1>6. new.id = n /\ new.status = "running"
    OBVIOUS
  <1> HIDE DEF w, n, new
  <1>7. \A i \in OpId : w[i] = "running" => \E op \in Started(n, kind) : op.id = i /\ op.status = "running"
    BY <1>2, <1>5, <1>6 DEF CenterInv, Tells
  <1>8. \A op \in Started(n, kind) : op.status = IF w[op.id] = "reported" THEN "succeeded" ELSE w[op.id]
    BY <1>1, <1>2, <1>4, <1>5, <1>6 DEF CenterInv, Tells
  <1>9. Started(n, kind) \subseteq OpRecord(n)
    BY <1>3, <1>5 DEF CenterInv, Tells
  <1> QED BY <1>1, <1>7, <1>8, <1>9 DEF Tells, w, n

LEMMA CenterInitially == CenterInit => CenterInv
  BY CenterAssumption DEF CenterInit, CenterInv, Works, OpId, Tells

\* A step of the work of an operation, seen from its record.
LEMMA WorkSteps ==
    ASSUME CenterInv, NEW id \in OpId, Progress(id) \/ Succeed(id) \/ Resolve(id) \/ Throw(id)
    PROVE  CenterInv'
  <1>1. PICK ops, p, outcome :
            /\ Render(ops, p, listOpen)
            /\ Tells(ops, [work EXCEPT ![id] = outcome], newest)
            /\ work' = [work EXCEPT ![id] = outcome] /\ newest' = newest
            /\ outcome \in Running \cup {"succeeded", "failed"} /\ work[id] # "none"
    <2>1. CASE Progress(id)
      <3>1. work[id] \in Running \cup {"failed"} /\ work' = [work EXCEPT ![id] = work[id]]
        BY <2>1 DEF Progress, CenterInv, Works
      <3>2. Tells(Patched(id, "progress"), [work EXCEPT ![id] = work[id]], newest)
        BY PatchTells
      <3> QED BY <2>1, <3>1, <3>2 DEF Progress, Running
    <2>2. CASE Succeed(id)
      <3>1. Tells(Patched(id, "succeeded"), [work EXCEPT ![id] = "reported"], newest)
        BY PatchTells DEF Status
      <3> QED BY <2>2, <3>1 DEF Succeed, Running
    <2>3. CASE Resolve(id) /\ work[id] = "running"
      <3>1. Tells(Patched(id, "succeeded"), [work EXCEPT ![id] = "succeeded"], newest)
        BY PatchTells DEF Status
      <3> QED BY <2>3, <3>1 DEF Resolve, Running
    <2>4. CASE Resolve(id) /\ work[id] # "running"
      <3>1. work[id] = "reported" /\ work' = [work EXCEPT ![id] = "succeeded"] /\ newest' = newest
        BY <2>4 DEF Resolve, Running
      <3>2. \A i \in OpId : [work EXCEPT ![id] = "succeeded"][i] = IF i = id THEN "succeeded" ELSE work[i]
        BY DEF CenterInv, Works
      <3>3. \A op \in operations : op.id \in OpId
        BY CenterAssumption DEF CenterInv, Tells, OpRecord, OpId
      <3>4. Tells(operations, [work EXCEPT ![id] = "succeeded"], newest)
        BY <3>1, <3>2, <3>3 DEF CenterInv, Tells
      <3>5. \E p : Render(operations, p, listOpen)
        BY <2>4 DEF Resolve
      <3> QED BY <3>1, <3>4, <3>5
    <2>5. CASE Throw(id)
      <3>1. Tells(Patched(id, "failed"), [work EXCEPT ![id] = "failed"], newest)
        BY PatchTells DEF Status
      <3> QED BY <2>5, <3>1 DEF Throw, Running
    <2> QED BY <2>1, <2>2, <2>3, <2>4, <2>5
  <1>2. Tells(operations', work', newest)
    BY <1>1, RenderTells
  <1>3. work' \in Works /\ \A i \in OpId : i > newest => work'[i] = "none"
    BY <1>1 DEF CenterInv, Works
  <1> QED BY <1>1, <1>2, <1>3 DEF CenterInv

LEMMA OperationBegins ==
    ASSUME CenterInv, BeginFile \/ BeginKey
    PROVE  CenterInv'
  <1>1. PICK kind, p : kind \in OpKind /\ Render(Started(newest + 1, kind), p, listOpen)
    BY DEF BeginFile, BeginKey, OpKind
  <1>2. newest < LastOp /\ newest' = newest + 1 /\ work' = [work EXCEPT ![newest + 1] = "running"]
    BY DEF BeginFile, BeginKey
  <1>3. Tells(operations', work', newest') /\ newest + 1 \in OpId
    BY <1>1, <1>2, StartTells, RenderTells
  <1>4. newest' \in 0..LastOp /\ work' \in Works /\ \A i \in OpId : i > newest' => work'[i] = "none"
    BY <1>2, <1>3, CenterAssumption DEF CenterInv, Works, Running, OpId
  <1> QED BY <1>3, <1>4 DEF CenterInv

\* The steps of the screens take no record away that runs.
LEMMA ScreenSteps ==
    ASSUME CenterInv,
           \/ Mount \/ Unmount \/ PickFile \/ OpenList \/ CloseList \/ ClearFinished
           \/ \E id \in OpId : Dismiss(id)
    PROVE  CenterInv'
  <1>1. UNCHANGED <<newest, work>>
    BY DEF Mount, Unmount, PickFile, OpenList, CloseList, ClearFinished, Dismiss
  <1>2. PICK ops, p, open :
            /\ Render(ops, p, open) /\ ops \subseteq operations
            /\ \A op \in operations : op.status = "running" => op \in ops
    <2>1. CASE Mount \/ Unmount \/ PickFile \/ OpenList \/ CloseList
      BY <2>1 DEF Mount, Unmount, PickFile, OpenList, CloseList
    <2>2. CASE ClearFinished
      BY <2>2 DEF ClearFinished, Finished
    <2>3. ASSUME NEW id \in OpId, Dismiss(id)
          PROVE  \E ops, p, open :
                    /\ Render(ops, p, open) /\ ops \subseteq operations
                    /\ \A op \in operations : op.status = "running" => op \in ops
      <3>1. Render({op \in operations : op.id # id \/ op.status = "running"}, panel, listOpen)
        BY <2>3 DEF Dismiss
      <3> QED BY <3>1
    <2> QED BY <2>1, <2>2, <2>3
  <1>3. Tells(ops, work, newest)
    BY <1>2 DEF CenterInv, Tells
  <1> QED BY <1>1, <1>2, <1>3, RenderTells DEF CenterInv

LEMMA CenterSteps == CenterInv /\ [CenterNext]_centerVars => CenterInv'
  <1> SUFFICES ASSUME CenterInv, [CenterNext]_centerVars PROVE CenterInv'
    OBVIOUS
  <1>1. CASE ProcessDies
    BY <1>1, CenterAssumption DEF ProcessDies, CenterInv, Works, Tells
  <1>2. CASE UNCHANGED centerVars
    BY <1>2 DEF centerVars, CenterInv
  <1> QED BY <1>1, <1>2, WorkSteps, OperationBegins, ScreenSteps DEF CenterNext

\* OperationCenterContext.tsx:153 - for any number of operations and whatever is dismissed,
\* pruned, reported late or lost with the process, a running operation is listed as running
\* and no record tells anything but what its operation has come to.
THEOREM RegistryIsTrue == CenterSpec => []RecordsTellTheTruth
  <1>1. CenterInv => RecordsTellTheTruth
    BY DEF CenterInv, Tells, RecordsTellTheTruth
  <1> QED BY CenterInitially, CenterSteps, <1>1, PTL DEF CenterSpec

Unique(ops) == \A op, o \in ops : op.id = o.id => op = o
Panel == [mounted : BOOLEAN, busy : 0..LastOp, restored : 0..LastOp, shows : 0..LastOp]

\* Of the records a registry keeps, the newest finished ones are MAX_FINISHED_OPERATIONS at most.
LEMMA PrunedIsShort ==
    ASSUME NEW n \in Nat, NEW ops \in SUBSET OpRecord(n), Unique(ops)
    PROVE  IsFiniteSet(Finished(Pruned(ops))) /\ Cardinality(Finished(Pruned(ops))) <= MaxFinished
  <1> DEFINE K == Finished(Pruned(ops))
             ids == {op.id : op \in K}
             Newer(op) == {o \in Finished(ops) : o.id > op.id}
             f == [op \in ops |-> op.id]
  <1>1. IsFiniteSet(ops)
    <2>1. f \in [ops -> 1..n] /\ \A op, o \in ops : f[op] = f[o] => op = o
      BY DEF OpRecord, Unique
    <2>2. f \in Injection(ops, 1..n)
      <3> HIDE DEF f
      <3> QED BY <2>1 DEF Injection, IsInjective
    <2>3. IsFiniteSet(1..n)
      BY FS_Interval
    <2> HIDE DEF f
    <2> QED BY <2>2, <2>3, FS_Injection
  <1>2. K \subseteq ops /\ IsFiniteSet(K) /\ Cardinality(K) \in Nat
    <2>1. K \in SUBSET ops
      BY DEF Finished, Pruned
    <2> HIDE DEF K
    <2> QED BY <1>1, <2>1, FS_Subset, FS_CardinalityType
  <1>3. CASE K = {}
    BY <1>2, <1>3, FS_EmptySet, CenterAssumption
  <1>4. CASE K # {}
    <2>1. ids \in SUBSET (1..n) /\ ids # {}
      BY <1>2, <1>4 DEF OpRecord
    <2>2. PICK least \in ids : \A i \in ids : least <= i
      <3> HIDE DEF ids
      <3> QED BY <2>1, FirstRecord
    <2>3. PICK op \in K : op.id = least
      BY <2>2
    <2>4. Cardinality(Newer(op)) < MaxFinished /\ K \subseteq Finished(ops)
      BY <2>3 DEF Pruned, Finished
    <2>5. K \ {op} \in SUBSET Newer(op)
      <3>1. SUFFICES ASSUME NEW o \in K, o # op PROVE o.id > op.id
        BY <2>4
      <3>2. o \in ops /\ op \in ops
        BY <1>2, <2>3
      <3>3. o.id # op.id
        BY <3>1, <3>2 DEF Unique
      <3>4. op.id <= o.id /\ o.id \in Nat /\ op.id \in Nat
        BY <2>2, <2>3, <3>2 DEF OpRecord
      <3> HIDE DEF K
      <3> QED BY <3>3, <3>4
    <2>6. Newer(op) \in SUBSET ops
      BY DEF Finished
    <2> HIDE DEF K, Newer, ids
    <2>7. IsFiniteSet(Newer(op)) /\ Cardinality(Newer(op)) \in Nat
      BY <1>1, <2>6, FS_Subset, FS_CardinalityType
    <2>8. Cardinality(K \ {op}) <= Cardinality(Newer(op))
      BY <2>5, <2>7, FS_Subset
    <2>9. Cardinality(K \ {op}) = Cardinality(K) - 1
      BY <1>2, <2>3, FS_RemoveElement
    <2>10. IsFiniteSet(K) /\ Cardinality(K) <= MaxFinished
      BY <1>2, <2>4, <2>7, <2>8, <2>9, CenterAssumption
    <2> QED BY <2>10 DEF K
  <1> QED BY <1>2, <1>3, <1>4

\* What every change of the records leaves.
LEMMA RenderIsShort ==
    ASSUME NEW n \in Nat, n <= LastOp, NEW ops \in SUBSET OpRecord(n), Unique(ops),
           NEW p \in Panel, NEW open, Render(ops, p, open)
    PROVE  /\ Unique(operations') /\ panel' \in Panel
           /\ Cardinality(Finished(operations')) <= MaxFinished
  <1> DEFINE kept == Pruned(ops)
             K == Finished(kept)
             seen(op) == IF open /\ op.status # "running" THEN [op EXCEPT !.seen = TRUE] ELSE op
             f == [op \in K |-> seen(op)]
  <1>1. operations' = {seen(op) : op \in kept} /\ panel' = Restored(p, kept)
    BY DEF Render, Seen
  <1>2. kept \subseteq ops
    BY DEF Pruned
  <1>3. \A op \in OpRecord(n) : seen(op).id = op.id /\ seen(op).status = op.status
    BY DEF OpRecord
  <1>4. Unique(operations')
    <2> HIDE DEF seen, kept
    <2> QED BY <1>1, <1>2, <1>3 DEF Unique
  <1>5. Finished(operations') = {seen(op) : op \in K}
    <2> HIDE DEF seen, kept
    <2> QED BY <1>1, <1>2, <1>3 DEF Finished
  <1>6. Cardinality(Finished(operations')) <= MaxFinished
    <2>1. IsFiniteSet(K) /\ Cardinality(K) <= MaxFinished
      BY PrunedIsShort
    <2> HIDE DEF K, seen, kept
    <2>2. f \in Surjection(K, Finished(operations'))
      <3>1. f \in [K -> Finished(operations')]
        BY <1>5
      <3>2. \A y \in Finished(operations') : \E op \in K : f[op] = y
        BY <1>5
      <3> HIDE DEF f
      <3> QED BY <3>1, <3>2 DEF Surjection
    <2>3. IsFiniteSet(Finished(operations')) /\ Cardinality(Finished(operations')) <= Cardinality(K)
      <3> HIDE DEF f
      <3> QED BY <2>1, <2>2, FS_Surjection
    <2>4. Cardinality(K) \in Nat /\ Cardinality(Finished(operations')) \in Nat
      BY <2>1, <2>3, FS_CardinalityType
    <2> QED BY <2>1, <2>3, <2>4, CenterAssumption
  <1>7. panel' \in Panel
    <2> DEFINE news == {op \in LatestByKind(kept, "file") : op.status # "running" /\ op.id # p.restored}
               op == CHOOSE o \in news : TRUE
    <2>1. CASE p.mounted /\ news # {}
      <3>1. op \in ops
        BY <1>2, <2>1 DEF LatestByKind
      <3> HIDE DEF op
      <3>2. op.id \in 1..n
        BY <3>1 DEF OpRecord
      <3>3. op.id \in 0..LastOp
        BY <3>2, CenterAssumption
      <3>4. panel' = [p EXCEPT !.restored = op.id, !.shows = op.id]
        BY <1>1, <2>1 DEF Restored, op
      <3> QED BY <3>3, <3>4 DEF Panel
    <2>2. CASE ~(p.mounted /\ news # {})
      BY <1>1, <2>2 DEF Restored
    <2> QED BY <2>1, <2>2
  <1> QED BY <1>4, <1>6, <1>7

\* Besides, a record is found by its id and finished ones do not pile up.
ShortInv ==
    /\ CenterInv /\ Unique(operations) /\ panel \in Panel
    /\ Cardinality(Finished(operations)) <= MaxFinished

LEMMA ShortSteps == ShortInv /\ [CenterNext]_centerVars => ShortInv'
  <1> SUFFICES ASSUME ShortInv, [CenterNext]_centerVars PROVE ShortInv'
    OBVIOUS
  <1>1. CenterInv'
    BY CenterSteps DEF ShortInv
  <1>2. NoPanel \in Panel /\ 0 \in 0..LastOp
    BY CenterAssumption DEF NoPanel, Panel
  <1>3. CASE UNCHANGED centerVars
    BY <1>1, <1>3 DEF ShortInv, centerVars, Unique, Finished
  <1>4. CASE ProcessDies
    <2>1. operations' = {} /\ panel' \in Panel
      BY <1>2, <1>4 DEF ProcessDies
    <2>2. Finished(operations') = {} /\ Unique(operations')
      BY <2>1 DEF Finished, Unique
    <2> QED BY <1>1, <2>1, <2>2, FS_EmptySet, CenterAssumption DEF ShortInv
  <1>5. ASSUME NEW ops \in SUBSET OpRecord(newest'), Unique(ops), NEW p \in Panel, NEW open,
               Render(ops, p, open)
        PROVE  ShortInv'
    <2>1. newest' \in Nat /\ newest' <= LastOp
      BY <1>1, CenterAssumption DEF CenterInv
    <2>2. /\ Unique(operations') /\ panel' \in Panel
          /\ Cardinality(Finished(operations')) <= MaxFinished
      BY <1>5, <2>1, RenderIsShort
    <2> QED BY <1>1, <2>2 DEF ShortInv
  <1>6. /\ operations \in SUBSET OpRecord(newest) /\ newest \in 0..LastOp
        /\ Unique(operations) /\ panel \in Panel
    BY DEF ShortInv, CenterInv, Tells
  <1>7. ASSUME NEW id \in OpId, NEW status \in Status \cup {"progress"}
        PROVE  Patched(id, status) \in SUBSET OpRecord(newest) /\ Unique(Patched(id, status))
    <2> DEFINE new(op) == IF op.id = id /\ status # "progress" THEN [op EXCEPT !.status = status] ELSE op
    <2>1. Patched(id, status) = {new(op) : op \in operations}
      BY DEF Patched
    <2>2. \A op \in OpRecord(newest) : new(op) \in OpRecord(newest) /\ new(op).id = op.id
      BY <1>7 DEF OpRecord, Status
    <2> HIDE DEF new
    <2> QED BY <1>6, <2>1, <2>2 DEF Unique
  <1>8. ASSUME NEW id \in OpId
        PROVE  /\ [panel EXCEPT !.shows = id] \in Panel /\ [panel EXCEPT !.busy = 0] \in Panel
               /\ [panel EXCEPT !.busy = 0, !.shows = id] \in Panel
               /\ [panel EXCEPT !.busy = id, !.shows = 0] \in Panel
    <2>1. id \in 0..LastOp
      BY CenterAssumption DEF OpId
    <2> QED BY <1>2, <1>6, <2>1 DEF Panel
  <1>9. ASSUME NEW id \in OpId, Progress(id) \/ Succeed(id) \/ Resolve(id) \/ Throw(id)
        PROVE  ShortInv'
    <2>1. newest' = newest
      BY <1>9 DEF Progress, Succeed, Resolve, Throw
    <2>2. CASE Progress(id)
      BY <2>1, <2>2, <1>5, <1>6, <1>7 DEF Progress
    <2>3. CASE Succeed(id)
      <3>1. "succeeded" \in Status \cup {"progress"}
        BY DEF Status
      <3> QED BY <2>1, <2>3, <3>1, <1>5, <1>6, <1>7, <1>8 DEF Succeed
    <2>4. CASE Resolve(id)
      <3>1. "succeeded" \in Status \cup {"progress"}
        BY DEF Status
      <3> DEFINE ops == IF work[id] = "running" THEN Patched(id, "succeeded") ELSE operations
                 p == IF panel.busy = id THEN [panel EXCEPT !.busy = 0] ELSE panel
      <3>2. Render(ops, p, listOpen)
        BY <2>4 DEF Resolve
      <3>3. ops \in SUBSET OpRecord(newest') /\ Unique(ops) /\ p \in Panel
        BY <2>1, <3>1, <1>6, <1>7, <1>8
      <3> HIDE DEF ops, p
      <3> QED BY <3>2, <3>3, <1>5
    <2>5. CASE Throw(id)
      <3>1. "failed" \in Status \cup {"progress"}
        BY DEF Status
      <3> QED BY <2>1, <2>5, <3>1, <1>5, <1>6, <1>7, <1>8 DEF Throw
    <2> QED BY <1>9, <2>2, <2>3, <2>4, <2>5
  <1>10. CASE BeginFile \/ BeginKey
    <2>1. newest' = newest + 1 /\ newest + 1 \in OpId /\ newest \in Nat
      BY <1>6, <1>10, CenterAssumption DEF BeginFile, BeginKey, OpId
    <2>2. PICK kind, p : kind \in OpKind /\ p \in Panel /\ Render(Started(newest + 1, kind), p, listOpen)
      BY <1>6, <1>8, <1>10, <2>1 DEF BeginFile, BeginKey, OpKind
    <2> DEFINE new == [id |-> newest + 1, kind |-> kind, status |-> "running", seen |-> FALSE]
    <2>3. new \in OpRecord(newest + 1) /\ OpRecord(newest) \subseteq OpRecord(newest + 1) /\ new.id = newest + 1
      BY <2>1, <2>2 DEF OpRecord, Status
    <2>4. Started(newest + 1, kind) = operations \cup {new}
      BY DEF Started
    <2>5. \A op \in operations : op.id # newest + 1
      BY <1>6, <2>1 DEF OpRecord
    <2> HIDE DEF new
    <2>6. Started(newest + 1, kind) \in SUBSET OpRecord(newest') /\ Unique(Started(newest + 1, kind))
      BY <1>6, <2>1, <2>3, <2>4, <2>5 DEF Unique
    <2> QED BY <2>2, <2>6, <1>5
  <1>11. ASSUME \/ Mount \/ Unmount \/ PickFile \/ OpenList \/ CloseList \/ ClearFinished
                \/ \E id \in OpId : Dismiss(id)
         PROVE  ShortInv'
    <2>1. newest' = newest
      BY <1>11 DEF Mount, Unmount, PickFile, OpenList, CloseList, ClearFinished, Dismiss
    <2>2. [NoPanel EXCEPT !.mounted = TRUE] \in Panel /\ [panel EXCEPT !.shows = 0] \in Panel
      BY <1>2, <1>6 DEF Panel
    <2>3. PICK ops, p, open : Render(ops, p, open) /\ ops \in SUBSET operations /\ p \in Panel
      <3>1. CASE Mount \/ Unmount \/ PickFile \/ OpenList \/ CloseList
        BY <1>2, <1>6, <2>2, <3>1 DEF Mount, Unmount, PickFile, OpenList, CloseList
      <3>2. CASE ClearFinished
        BY <1>6, <3>2 DEF ClearFinished
      <3>3. ASSUME NEW id \in OpId, Dismiss(id)
            PROVE  \E ops, p, open : Render(ops, p, open) /\ ops \in SUBSET operations /\ p \in Panel
        <4>1. Render({op \in operations : op.id # id \/ op.status = "running"}, panel, listOpen)
          BY <3>3 DEF Dismiss
        <4> QED BY <4>1, <1>6
      <3> QED BY <1>11, <3>1, <3>2, <3>3
    <2>4. ops \in SUBSET OpRecord(newest') /\ Unique(ops)
      BY <1>6, <2>1, <2>3 DEF Unique
    <2> QED BY <2>3, <2>4, <1>5
  <1> QED BY <1>3, <1>4, <1>9, <1>10, <1>11 DEF CenterNext

\* operationCenterState.ts - whatever begins, ends, is reported late, dismissed or pruned, no
\* two records are of one operation and MAX_FINISHED_OPERATIONS finished ones are kept at most.
THEOREM RegistryStaysShort == CenterSpec => []CenterTypeOK
  <1>1. CenterInit => ShortInv
    <2> SUFFICES ASSUME CenterInit PROVE ShortInv
      OBVIOUS
    <2>1. Finished(operations) = {} /\ Unique(operations) /\ panel \in Panel
      BY CenterAssumption DEF CenterInit, Finished, Unique, Panel, NoPanel
    <2> QED BY <2>1, CenterInitially, FS_EmptySet, CenterAssumption DEF ShortInv
  <1>2. ShortInv => CenterTypeOK
    BY DEF ShortInv, CenterTypeOK, CenterInv, Tells, OpRecord, Status, Works, Unique, Panel
  <1> QED BY ShortSteps, <1>1, <1>2, PTL DEF CenterSpec
=============================================================================
