\* The session manager with everything the user and the app do, and the other parts of
\* the app, each on an instance of its own, whose size bounds its behaviours.
SPECIFICATION PartsSpec
CONSTANTS
    user1 = user1
    app1 = app1
    Call = {user1, app1}
    Kinds <- AllKinds
    MaxToken = 2
    MaxTrouble = 1
    Fingerprint = {k1, k2}
    NoFingerprint = NoFingerprint
    Mutation = {1}
    MaxRecords = 2
    Current = 1
    LastVersion = 2
    LastBuild = 3
    LastOp = 3
    MaxFinished = 1
    Caller = {k1, k2}
    LastValue = 3
    MaxReads = 2
    Screen = {k1, k2}
    Text = {x1, x2}
    NoText = NoText
    LastSecond = 3
    MaxCopies = 3
    PgpCall = {k1, k2}
    Attempts = 2
    MaxLoads = 1
SYMMETRY PartsSymmetry
CHECK_DEADLOCK FALSE
INVARIANTS
    NoReuse
    QuietVaultIsSound
    InstallsWhatWasSigned
    RecordsTellTheTruth
    ReadsAreRegular
    CopiesAreWiped
    AnswersMatchCalls
    

    
