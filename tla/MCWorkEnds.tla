----------------------------- MODULE MCWorkEnds -----------------------------
(***************************************************************************)
(* Model checking work that has to come to an end, each kind under the     *)
(* fairness of its module: a call of the PGP engine, an operation on a     *)
(* file and the deletion of large collections; and the rate limiter        *)
(* against its abstract counters.  They share no state, and a behaviour    *)
(* runs one of them.                                                       *)
(***************************************************************************)
EXTENDS PgpBridge, FileStream, PagedDeletes, RateLimiter

VARIABLE part  \* the part that runs

partVars == <<bridgeVars, streamVars, sweepVars, limiterVars, part>>

PartsInit ==
    /\ part \in {"engine", "files", "deletions", "limits"}
    /\ BridgeInit /\ StreamInit /\ SweepInit /\ LimiterInit
    \* what a part that does not run starts with makes no difference
    /\ job.decrypts => part = "files"
    /\ matching # {} => part = "deletions"
    /\ part # "limits" => kind = "redis" /\ \A k \in CounterKey : resets["redis"][k] = 0

PartsNext ==
    /\ UNCHANGED part
    /\ \/ part = "engine" /\ BridgeNext
          /\ UNCHANGED <<streamVars, sweepVars, limiterVars>>
       \/ part = "files" /\ StreamNext
          /\ UNCHANGED <<bridgeVars, sweepVars, limiterVars>>
       \/ part = "deletions" /\ SweepNext
          /\ UNCHANGED <<bridgeVars, streamVars, limiterVars>>
       \/ part = "limits" /\ LimiterNext
          /\ UNCHANGED <<bridgeVars, streamVars, sweepVars>>

\* The fairness of the modules, asked of a part only while it runs.
PartsFairness ==
    /\ \A c \in PgpCall : WF_bridgeVars(part = "engine" /\ CallSteps(c))
    /\ WF_bridgeVars(part = "engine" /\ \E e \in pending : EntryTimesOut(e))
    /\ WF_streamVars(part = "files" /\ StreamSteps)
    /\ WF_streamVars(part = "files" /\ StartRefused /\ (engine.broken \/ ~session.open))
    /\ \A s \in Sweep : WF_sweepVars(part = "deletions" /\ (SweepBegins(s) \/ AskPage(s) \/ CommitChunk(s)))

PartsSpec == PartsInit /\ [][PartsNext]_partVars /\ PartsFairness
=============================================================================
