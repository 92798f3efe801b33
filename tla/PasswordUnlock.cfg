\* One password unlock after a start, and nothing else.
SPECIFICATION Spec
CONSTANTS
    User = {1, 2}
    None = None
    MaxSignIns = 1
    MaxRefreshes = 0
    MaxEvents = 0
INVARIANTS
    AuthenticatedIsUnlocked
CHECK_DEADLOCK FALSE
