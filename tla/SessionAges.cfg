\* One MFA account and a clock: expiry, MFA age, trust changes, cleanup.
SPECIFICATION BoundedSpec
CONSTANTS
    User = {u1}
    MfaUser = {u1}
    Device = {}
    Family = {f1}
    Token = {t1, t2, t3}
    Access = {a1, a2}
    Request = {r1}
    Maintenance = {job}
    None = None
    AccessLife = 1
    RefreshLife = 2
    UntrustedMfaMaxAge = 1
    MaxDrawn = 5
    MaxClock = 3
SYMMETRY IdSymmetry
INVARIANTS
    UntrustedRotationsAreFresh
    
