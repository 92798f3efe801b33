\* Compensation interrupted between revoking and clearing, then a retry.
SPECIFICATION Spec
CONSTANTS
    Family = {f1, f2, f3}
    Request = {r1}
    None = None
    ProgressLife = 2
    SetupLife = 2
    MaxClock = 0
SYMMETRY FamilySymmetry
PROPERTIES
    NeverStrands
CHECK_DEADLOCK FALSE
