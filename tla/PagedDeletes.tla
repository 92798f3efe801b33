----------------------------- MODULE PagedDeletes -----------------------------
(***************************************************************************)
(* Deleting everything a query matches (src/apps/server/src/               *)
(* infrastructure/firebase/chunkedWrites.ts): page by page, each page in   *)
(* batches, at most a number of pages per run.  Revocations and the        *)
(* maintenance jobs delete this way, side by side, while records that      *)
(* match keep arriving.                                                    *)
(*                                                                         *)
(* Records are numbered in the order of their document ids, which is the   *)
(* order of an unordered Firestore query.                                  *)
(***************************************************************************)
EXTENDS Naturals, FiniteSets

CONSTANTS
    Doc,         \* document ids, as numbers
    Sweep,       \* deletions that may run at once
    Kept,        \* records the filter excludes
    DocsPerPage, \* pageSize
    ChunkSize,   \* SAFE_BATCH_CHUNK_SIZE
    PageBudget,  \* maxPages
    MaxMatches,  \* bound: records that come to match during the behaviour
    MaxFailures  \* bound: batches that fail

ASSUME SweepAssumption ==
    /\ Doc \subseteq Nat /\ Kept \subseteq Doc
    /\ {DocsPerPage, ChunkSize, PageBudget} \subseteq Nat \ {0}
    /\ {MaxMatches, MaxFailures} \subseteq Nat

VARIABLES
    matching,  \* the records the query finds
    matches,   \* records that came to match so far
    failures,  \* batches that failed so far
    sweep      \* the local variables of every deletion

sweepVars == <<matching, matches, failures, sweep>>

\* asked: pages asked for; refs: what is left of the page; more: it was full;
\* grew: history, a record came to match since the start.
NotSweeping == [pc |-> "idle", asked |-> 0, refs |-> {}, more |-> FALSE,
                truncated |-> FALSE, grew |-> FALSE]

SweepInit ==
    /\ matching \in SUBSET Doc
    /\ matches = 0 /\ failures = 0
    /\ sweep = [s \in Sweep |-> NotSweeping]

\* The first n of a set of document ids.
FirstOf(n, docs) == {d \in docs : Cardinality({e \in docs : e < d}) < n}

-----------------------------------------------------------------------------
Match(d) ==
    /\ d \notin matching /\ matches < MaxMatches
    /\ matching' = matching \cup {d} /\ matches' = matches + 1
    /\ sweep' = [s \in Sweep |-> [sweep[s] EXCEPT !.grew = TRUE]]
    /\ UNCHANGED failures

\* Mutant: the job runs once.
SweepOnce(s) ==
    /\ sweep[s].pc = "idle" /\ matching \ Kept # {}
    /\ sweep' = [sweep EXCEPT ![s] = [NotSweeping EXCEPT !.pc = "ask"]]
    /\ UNCHANGED <<matching, matches, failures>>

SweepBegins(s) ==
    /\ sweep[s].pc \in {"idle", "done"} /\ matching \ Kept # {}
    /\ sweep' = [sweep EXCEPT ![s] = [NotSweeping EXCEPT !.pc = "ask"]]
    /\ UNCHANGED <<matching, matches, failures>>

\* Ask for a page: an empty one ends the loop, and so does one that is all excluded.
AskPage(s) ==
    LET page == FirstOf(DocsPerPage, matching) IN
    /\ sweep[s].pc = "ask"
    /\ sweep' = [sweep EXCEPT
          ![s].pc = IF page \subseteq Kept THEN "done" ELSE "chunks",
          ![s].asked = @ + 1,
          ![s].refs = page \ Kept,
          ![s].more = Cardinality(page) = DocsPerPage]
    /\ UNCHANGED <<matching, matches, failures>>

\* Another page follows a full one, within the budget.
AfterPage(s) ==
    IF ~sweep[s].more \/ sweep[s].asked >= PageBudget THEN "done" ELSE "ask"

CommitChunk(s) ==
    LET chunk == FirstOf(ChunkSize, sweep[s].refs)
        rest  == sweep[s].refs \ chunk
    IN  /\ sweep[s].pc = "chunks"
        /\ matching' = matching \ chunk
        /\ sweep' = [sweep EXCEPT
              ![s].refs = rest,
              ![s].pc = IF rest = {} THEN AfterPage(s) ELSE "chunks",
              ![s].truncated = rest = {} /\ sweep[s].more /\ sweep[s].asked >= PageBudget]
        /\ UNCHANGED <<matches, failures>>

\* A batch that fails ends the run; what was committed stays deleted.
SweepFails(s) ==
    /\ sweep[s].pc \in {"ask", "chunks"} /\ failures < MaxFailures
    /\ failures' = failures + 1
    /\ sweep' = [sweep EXCEPT ![s] = NotSweeping]
    /\ UNCHANGED <<matching, matches>>

SweepNext ==
    \/ \E d \in Doc : Match(d)
    \/ \E s \in Sweep : SweepBegins(s) \/ AskPage(s) \/ CommitChunk(s) \/ SweepFails(s)

\* The jobs are started again and again, and a run that was started goes on.
SweepFairness ==
    \A s \in Sweep : WF_sweepVars(SweepBegins(s) \/ AskPage(s) \/ CommitChunk(s))

SweepSpec == SweepInit /\ [][SweepNext]_sweepVars
SweepFairSpec == SweepSpec /\ SweepFairness

-----------------------------------------------------------------------------
SweepTypeOK ==
    /\ matching \subseteq Doc /\ matches \in 0..MaxMatches /\ failures \in 0..MaxFailures
    /\ \A s \in Sweep : sweep[s].asked \in 0..PageBudget /\ sweep[s].refs \subseteq Doc \ Kept

\* expiredSessionCleanup.ts, chunkedWrites.ts:43 - "the remainder is left for the next
\* maintenance run": runs that stop at the page budget or at a failure still empty
\* the backlog in the end.
BacklogDrains == <>[](Cardinality(Kept) < DocsPerPage => matching \subseteq Kept)

\* chunkedWrites.ts:70 - "every document in the window is excluded - nothing left to
\* delete": the same without a bound on the excluded records.
ExcludedPageMeansEmpty ==
    \A s \in Sweep :
        sweep[s].pc = "done" /\ ~sweep[s].truncated /\ ~sweep[s].grew => matching \subseteq Kept
=============================================================================
