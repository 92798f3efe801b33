\* The account records, the listing of keys, the push tokens, the MFA material and the
\* switching of MFA (one request at a time), each on an instance of its own; time is
\* bounded, so is the number of requests for push tokens: a behaviour may end.
SPECIFICATION PartsSpec
CONSTANTS
    Key = {u1, u2}
    Handler = {r1, r2}
    NoKey = NoKey
    MaxKeys = 1
    MaxFaults = 1
    RecordId = {1, 2, 3}
    LastTime = 2
    PageSize = 1
    MaxPages = 4
    NoCursor = NoCursor
    Account = {u1, u2}
    Device = {d1, d2}
    PushToken = {t1}
    Worker = {r1, r2}
    Nobody = Nobody
    MaxRequests = 3
    SessionFamily = {s1}
    Ask = {r1, r2}
    Absent = Absent
    CodeCount = 2
    Threshold = 0
    NonceLife = 1
    FreshLife = 0
    LastDay = 1
    MaxBatch = 2
    MaxNonce = 1
    Family = {u1, u2, f3}
    Request = {q1}
    None = None
    ProgressLife = 2
    SetupLife = 1
    MaxClock = 2
    Phone = {r1, r2}
    Password = {u1, u2}
    NoPassword = NoPassword
    MaxUid = 2
    MaxCuts = 2
SYMMETRY PartsSymmetry
CHECK_DEADLOCK FALSE
INVARIANTS
    ReportedUpdatesLanded
    FinishedDeletionIsComplete
    
    LastRegistrationHolds
    SpentCodesStayGone
    EnrolmentIsWhole
    SuccessIsApplied
    PasswordOpensVault
    TakenNamesAreUsable
PROPERTIES
    FailureCostsNoSession
