--------------------------- MODULE OperationCenter ---------------------------
(***************************************************************************)
(* The registry of long operations of the PurrivacyApp mobile app and one  *)
(* of the screens that use it (src/apps/mobile/src:                        *)
(* app/state/operationCenterState.ts, OperationCenterContext.tsx,          *)
(* app/components/OperationCenterUI.tsx,                                   *)
(* features/fileCrypto/components/FileCryptoPanel.tsx).                    *)
(*                                                                         *)
(* The work of an operation outlives the screen that began it: the screen  *)
(* goes and comes back while it runs, reads its record to know of it, and  *)
(* shows what came of it.  The user dismisses records, finished ones are   *)
(* pruned, and progress is still reported after the work has failed.       *)
(***************************************************************************)
EXTENDS Naturals, FiniteSets

CONSTANTS
    LastOp,      \* bound: the operations of a behaviour
    MaxFinished  \* MAX_FINISHED_OPERATIONS (10 in the code)

ASSUME CenterAssumption == LastOp \in Nat /\ MaxFinished \in Nat

VARIABLES
    operations, \* the records: [id, kind, status, seen]; the list shows them newest (highest) id first
    newest,     \* nextOperationId
    work,       \* the run callback of every operation
    panel,      \* FileCryptoPanel: [mounted, busy, restored, shows]
    listOpen    \* the list of operations is on the screen

centerVars == <<operations, newest, work, panel, listOpen>>

OpId == 1..LastOp
OpKind == {"file", "key"}
Running == {"running", "reported"}
NoPanel == [mounted |-> FALSE, busy |-> 0, restored |-> 0, shows |-> 0]

CenterInit ==
    /\ operations = {} /\ newest = 0
    /\ work = [i \in OpId |-> "none"]
    /\ panel = NoPanel /\ listOpen = FALSE

-----------------------------------------------------------------------------
(* prunedOperationCenterReducer.                                           *)

Finished(ops) == {op \in ops : op.status # "running"}

\* pruneOperations keeps the finished records that began last.
Pruned(ops) ==
    {op \in ops : \/ op.status = "running"
                  \/ Cardinality({o \in Finished(ops) : o.id > op.id}) < MaxFinished}

Started(id, kind) ==
    operations \cup {[id |-> id, kind |-> kind, status |-> "running", seen |-> FALSE]}

\* A patch of a record that is gone changes nothing.
\* Mutant: progress is reported with the status that goes with it.
PatchedRunning(id, status) ==
    LET new == IF status = "progress" THEN "running" ELSE status
    IN  {IF op.id = id THEN [op EXCEPT !.status = new] ELSE op : op \in operations}

Patched(id, status) ==
    {IF op.id = id /\ status # "progress" THEN [op EXCEPT !.status = status] ELSE op :
        op \in operations}

\* latestByKind: one record or none.
LatestByKind(ops, kind) ==
    {op \in ops : op.kind = kind /\ \A o \in ops : o.kind = kind => o.id <= op.id}

-----------------------------------------------------------------------------
(* What follows a change of the records: the effects of the panel and of the list.        *)

\* The panel shows what came of the latest operation, once.
Restored(p, ops) ==
    LET news == {op \in LatestByKind(ops, "file") : op.status # "running" /\ op.id # p.restored}
        id   == (CHOOSE op \in news : TRUE).id
    IN  IF p.mounted /\ news # {} THEN [p EXCEPT !.restored = id, !.shows = id] ELSE p

\* Opening the list counts as seeing what it shows.
Seen(ops, open) ==
    {IF open /\ op.status # "running" THEN [op EXCEPT !.seen = TRUE] ELSE op : op \in ops}

Render(ops, p, open) ==
    /\ operations' = Seen(Pruned(ops), open)
    /\ panel' = Restored(p, Pruned(ops))
    /\ listOpen' = open

-----------------------------------------------------------------------------
(* beginOperation.                                                         *)

\* handleRun: the button is there while nothing of its kind runs, here or from an earlier
\* life of the panel.
FileRunning == \E op \in LatestByKind(operations, "file") : op.status = "running"
BeginFile ==
    /\ panel.mounted /\ panel.busy = 0 /\ ~FileRunning
    /\ newest < LastOp
    /\ newest' = newest + 1
    /\ work' = [work EXCEPT ![newest + 1] = "running"]
    /\ Render(Started(newest + 1, "file"), [panel EXCEPT !.busy = newest + 1, !.shows = 0], listOpen)

\* The generation, import or revocation of a key; nothing keeps two apart.
BeginKey ==
    /\ newest < LastOp
    /\ newest' = newest + 1
    /\ work' = [work EXCEPT ![newest + 1] = "running"]
    /\ Render(Started(newest + 1, "key"), panel, listOpen)

\* setProgress and setPhase; the pull of a file still reports when its feed has failed.
Progress(id) ==
    /\ work[id] \in Running \cup {"failed"}
    /\ Render(Patched(id, "progress"), panel, listOpen)
    /\ UNCHANGED <<newest, work>>

\* api.succeed; the panel that began the operation, if it is still there, shows the result.
Succeed(id) ==
    /\ work[id] = "running"
    /\ work' = [work EXCEPT ![id] = "reported"]
    /\ Render(Patched(id, "succeeded"), IF panel.busy = id THEN [panel EXCEPT !.shows = id] ELSE panel, listOpen)
    /\ UNCHANGED newest

\* The run callback resolves, with its success reported or not.
Resolve(id) ==
    /\ work[id] \in Running
    /\ work' = [work EXCEPT ![id] = "succeeded"]
    /\ Render(IF work[id] = "running" THEN Patched(id, "succeeded") ELSE operations,
              IF panel.busy = id THEN [panel EXCEPT !.busy = 0] ELSE panel, listOpen)
    /\ UNCHANGED newest

\* It throws, also after it reported a success: a mutation of keys reloads them last.
Throw(id) ==
    /\ work[id] \in Running
    /\ work' = [work EXCEPT ![id] = "failed"]
    /\ Render(Patched(id, "failed"),
              IF panel.busy = id THEN [panel EXCEPT !.busy = 0, !.shows = id] ELSE panel, listOpen)
    /\ UNCHANGED newest

-----------------------------------------------------------------------------
(* The screens.                                                            *)

Mount ==
    /\ ~panel.mounted
    /\ Render(operations, [NoPanel EXCEPT !.mounted = TRUE], listOpen)
    /\ UNCHANGED <<newest, work>>

\* The tab, the lock or the sign-out takes the panel away; its work goes on.
Unmount ==
    /\ panel.mounted
    /\ Render(operations, NoPanel, listOpen)
    /\ UNCHANGED <<newest, work>>

\* Another file is picked: the result on the screen goes, an error stays.
PickFile ==
    /\ panel.mounted /\ panel.shows # 0 /\ work[panel.shows] # "failed"
    /\ Render(operations, [panel EXCEPT !.shows = 0], listOpen)
    /\ UNCHANGED <<newest, work>>

OpenList ==
    /\ ~listOpen /\ operations # {}
    /\ Render(operations, panel, TRUE)
    /\ UNCHANGED <<newest, work>>

CloseList ==
    /\ listOpen
    /\ Render(operations, panel, FALSE)
    /\ UNCHANGED <<newest, work>>

\* A record that runs is not dismissed.
Dismiss(id) ==
    /\ listOpen /\ \E op \in operations : op.id = id
    /\ Render({op \in operations : op.id # id \/ op.status = "running"}, panel, listOpen)
    /\ UNCHANGED <<newest, work>>

ClearFinished ==
    /\ listOpen /\ Finished(operations) # {}
    /\ Render(operations \ Finished(operations), panel, listOpen)
    /\ UNCHANGED <<newest, work>>

\* The process dies: the registry dies with it.
ProcessDies ==
    /\ operations' = {} /\ panel' = NoPanel /\ listOpen' = FALSE
    /\ work' = [i \in OpId |-> "none"]
    /\ UNCHANGED newest

CenterNext ==
    \/ BeginFile \/ BeginKey
    \/ \E id \in OpId : Progress(id) \/ Succeed(id) \/ Resolve(id) \/ Throw(id) \/ Dismiss(id)
    \/ Mount \/ Unmount \/ PickFile \/ OpenList \/ CloseList \/ ClearFinished \/ ProcessDies

CenterSpec == CenterInit /\ [][CenterNext]_centerVars

-----------------------------------------------------------------------------
CenterTypeOK ==
    /\ newest \in 0..LastOp
    /\ operations \subseteq [id : 1..newest, kind : OpKind,
                             status : {"running", "succeeded", "failed"}, seen : BOOLEAN]
    /\ \A op, o \in operations : op.id = o.id => op = o
    /\ Cardinality(Finished(operations)) <= MaxFinished
    /\ work \in [OpId -> Running \cup {"none", "succeeded", "failed"}]
    /\ panel.busy \in 0..LastOp /\ panel.restored \in 0..LastOp

\* OperationCenterContext.tsx:153 - "so the registry never shows a phantom running op": what
\* runs is listed as running, and what is listed tells what its work has come to, whatever
\* was dismissed, pruned or reported late.
RecordsTellTheTruth ==
    /\ \A id \in OpId : work[id] = "running" =>
          \E op \in operations : op.id = id /\ op.status = "running"
    /\ \A op \in operations :
          LET w == work[op.id]
          IN  op.status = IF w = "reported" THEN "succeeded" ELSE w
=============================================================================
