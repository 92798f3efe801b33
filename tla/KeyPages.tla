------------------------------ MODULE KeyPages ------------------------------
(***************************************************************************)
(* Listing a vault page by page: the server's pagination of a key-record   *)
(* set (src/apps/server/src/features/user/infrastructure/userKeys) and the *)
(* client's loop over the pages (src/apps/mobile/src/api/user/userApi.ts), *)
(* while other devices add, rewrite and delete records between two pages.  *)
(*                                                                         *)
(* A record is its id and the time of its last write; ids are numbers in   *)
(* the order of RTDB push ids.  Time 0 stands for a record of the days     *)
(* before the metadata.  A page and what the loop has gathered are sets of *)
(* ids: the sort decides which records a page takes and where the next one *)
(* starts, and nothing more is asked of it here.                           *)
(***************************************************************************)
EXTENDS Naturals, FiniteSets

CONSTANTS
    RecordId,   \* push ids, as numbers
    LastTime,   \* bound: Date.now() of the server, in ticks
    PageSize,   \* limit: records in a page
    MaxPages,   \* MAX_PAGES of the client's loop
    NoCursor    \* undefined

ASSUME PagesAssumption ==
    /\ RecordId \subseteq Nat /\ LastTime \in Nat
    /\ PageSize \in Nat \ {0} /\ MaxPages \in Nat \ {0}
    /\ NoCursor \notin [at : Nat, id : RecordId]

VARIABLES
    stored,     \* the ids that have a record
    updatedAt,  \* the time of the last write of each id (0: none recorded)
    tick,       \* Date.now()
    loop,       \* "off", "on" (a page is to be asked for) or "over"
    since,      \* the option of this load
    cursor,     \* where the next page starts
    seenCursors,
    pages,      \* pages fetched
    keys,       \* the ids of the records fetched so far
    present,    \* history: the ids that had a record all along since the load began
    changed     \* history: the ids written or deleted since the load began

setVars  == <<stored, updatedAt, tick>>
loopVars == <<loop, since, cursor, seenCursors, pages, keys>>
pageVars == <<setVars, loopVars, present, changed>>

Cursor == [at : Nat, id : RecordId]

-----------------------------------------------------------------------------
(* One page (paginateUserEncryptedKeyRecords).                             *)

\* The order of a listing: the time of the last write, then the id.
Earlier(r, s) == updatedAt[r] < updatedAt[s] \/ (updatedAt[r] = updatedAt[s] /\ r < s)

\* A record without metadata passes every since filter.
Filtered(from) == {r \in stored : updatedAt[r] = 0 \/ updatedAt[r] >= from}

\* Mutant: the order within a tick is forgotten at the boundary.
BeyondTime(r, c) == updatedAt[r] > c.at
Beyond(r, c) == updatedAt[r] > c.at \/ (updatedAt[r] = c.at /\ r > c.id)

\* Where the page starts: past the cursor, and with the first record of all when the
\* cursor is past every record.
From(listing, c) ==
    LET past == {r \in listing : Beyond(r, c)}
    IN  IF c = NoCursor \/ past = {} THEN listing ELSE past

\* The first records of a listing, as many as a page holds.
FirstOf(listing) == {r \in listing : Cardinality({s \in listing : Earlier(s, r)}) < PageSize}

LastOf(records) == CHOOSE r \in records : \A s \in records \ {r} : Earlier(s, r)

Page(from, c) ==
    LET ahead   == From(Filtered(from), c)
        records == FirstOf(ahead)
    IN  [keys |-> records,
         next |-> IF records = ahead THEN NoCursor
                  ELSE [at |-> updatedAt[LastOf(records)], id |-> LastOf(records)]]

-----------------------------------------------------------------------------
(* The other devices.                                                      *)

PageInit ==
    /\ stored \in SUBSET RecordId /\ IsFiniteSet(stored)
    /\ updatedAt \in [RecordId -> {0, 1}] /\ \A r \in RecordId \ stored : updatedAt[r] = 0
    /\ tick = 1
    /\ loop = "off" /\ since = 0 /\ cursor = NoCursor
    /\ seenCursors = {} /\ pages = 0 /\ keys = {}
    /\ present = {} /\ changed = {}

Touch(r) == changed' = IF loop = "on" THEN changed \cup {r} ELSE changed

TimePasses ==
    /\ tick < LastTime
    /\ tick' = tick + 1
    /\ UNCHANGED <<stored, updatedAt, loopVars, present, changed>>

\* An addition, or a rewrite: the record moves to the end of the listing.
WriteRecord(r) ==
    /\ r \in stored \/ \A s \in stored : s < r
    /\ stored' = stored \cup {r}
    /\ updatedAt' = [updatedAt EXCEPT ![r] = tick]
    /\ Touch(r)
    /\ UNCHANGED <<tick, loopVars, present>>

DropRecord(r) ==
    /\ r \in stored
    /\ stored' = stored \ {r} /\ present' = present \ {r}
    /\ Touch(r)
    /\ UNCHANGED <<updatedAt, tick, loopVars>>

-----------------------------------------------------------------------------
(* The loop (fetchAllKeyRecords): each round is one request.               *)

StartLoading(from) ==
    /\ loop = "off"
    /\ loop' = "on" /\ since' = from /\ cursor' = NoCursor
    /\ seenCursors' = {} /\ pages' = 0 /\ keys' = {}
    /\ present' = Filtered(from) /\ changed' = {}
    /\ UNCHANGED setVars

\* What stops the loop early: a cursor that comes back, or too many pages.
StopsEarly(next) == pages + 1 >= MaxPages \/ next \in seenCursors

FetchPage ==
    LET page == Page(since, cursor) IN
    /\ loop = "on"
    /\ keys' = keys \cup page.keys
    /\ cursor' = page.next
    /\ pages' = pages + 1
    /\ IF page.next = NoCursor \/ StopsEarly(page.next)
       THEN loop' = "over" /\ UNCHANGED seenCursors
       ELSE seenCursors' = seenCursors \cup {page.next} /\ UNCHANGED loop
    /\ UNCHANGED <<setVars, since, present, changed>>

LoadEnds ==
    /\ loop' = "off" /\ since' = 0 /\ cursor' = NoCursor
    /\ seenCursors' = {} /\ pages' = 0 /\ keys' = {}
    /\ present' = {} /\ changed' = {}
    /\ UNCHANGED setVars

\* A page that fails fails the load.
FetchFails ==
    /\ loop = "on"
    /\ LoadEnds

\* The caller takes the keys.
TakeKeys ==
    /\ loop = "over"
    /\ LoadEnds

PageNext ==
    \/ TimePasses
    \/ \E r \in RecordId : WriteRecord(r) \/ DropRecord(r)
    \/ \E from \in 0..tick : StartLoading(from)
    \/ FetchPage \/ FetchFails \/ TakeKeys

PageSpec == PageInit /\ [][PageNext]_pageVars

-----------------------------------------------------------------------------
PageTypeOK ==
    /\ stored \subseteq RecordId /\ updatedAt \in [RecordId -> 0..LastTime]
    /\ tick \in 1..LastTime /\ loop \in {"off", "on", "over"} /\ since \in 0..LastTime
    /\ cursor \in Cursor \cup {NoCursor} /\ seenCursors \subseteq Cursor
    /\ pages \in 0..MaxPages /\ keys \subseteq RecordId
    /\ present \subseteq stored /\ changed \subseteq RecordId

\* userApi.ts:86 - "without this, accounts with more than one page silently show
\* only the oldest records": a load that ran to its end holds every record that
\* was there all along, whatever the other devices wrote or deleted between two
\* of its pages and even when a repeated cursor stopped it; only the bound on
\* the pages may cut it short.
PresentKeysAreListed ==
    loop = "over" /\ pages < MaxPages => present \subseteq keys

\* userKeyRecordSet.ts:141 - "a deleted cursor record does not break the next
\* page": a load does not list a record twice that nobody touched meanwhile.
UntouchedKeysAreListedOnce ==
    [][FetchPage => Page(since, cursor).keys \cap keys \subseteq changed]_pageVars
=============================================================================
