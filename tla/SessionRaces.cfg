\* Two accounts share one device: logins sweep it while refreshes, validations,
\* revocations and trust changes of two requests interleave.
SPECIFICATION BoundedSpec
CONSTANTS
    User = {u1, u2}
    MfaUser = {}
    Device = {d1}
    Family = {f1, f2}
    Token = {t1, t2, t3}
    Access = {a1, a2}
    Request = {r1, r2}
    Maintenance = {}
    None = None
    AccessLife = 1
    RefreshLife = 1
    UntrustedMfaMaxAge = 1
    MaxDrawn = 6
    MaxClock = 0
SYMMETRY IdSymmetry
INVARIANTS
    OneFamilyPerDevice
    AtMostOneUnusedToken
    NoStaleAuth
    PromisedRevocationsHold
PROPERTIES
    DeletionsAreOwned
CHECK_DEADLOCK FALSE
