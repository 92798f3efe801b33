\* The app stops when its users do and no request is under way.
SPECIFICATION BoundedSpec
CONSTANTS
    User = {1, 2}
    None = None
    MaxSignIns = 1
    MaxRefreshes = 1
    MaxEvents = 2
    MaxTurns = 2
INVARIANTS
    LockedHoldsNothing
    PriorOnlyWhileAway
    GettingEnds
PROPERTIES
    NoRehydration
    BootstrapEnds
    LeavingEnds
CHECK_DEADLOCK FALSE
