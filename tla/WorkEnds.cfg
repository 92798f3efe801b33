\* A call of the engine, an operation on a file of five chunks, two deletions of five
\* records, and rate-limited requests of one client on three routes.  Every instance has a
\* bound its behaviours reach, so a behaviour may end.
SPECIFICATION PartsSpec
CONSTANTS
    PgpCall = {c1}
    Attempts = 4
    MaxLoads = 3
    Chunks = 5
    MaxInFlight = 2
    DrainBelow = 1
    Doc = {1, 2, 3, 4, 5}
    Sweep = {s1, s2}
    Kept = {2}
    DocsPerPage = 3
    ChunkSize = 2
    PageBudget = 2
    MaxMatches = 1
    MaxFailures = 1
    Client = {c1}
    Inflight = {r1, r2}
    Budget = 1
    Window = 2
    CleanupInterval = 1
    MaxEntries = 2
    LastTick = 2
    MaxCalls = 3
CHECK_DEADLOCK FALSE
INVARIANTS
    WholeFileOrFailure
    PassesStayInBudget
PROPERTIES
    CallsSettle
    
    BacklogDrains
    KeepsWindows
