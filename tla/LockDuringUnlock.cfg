\* One sign-in, and one lock or other event.
SPECIFICATION Spec
CONSTANTS
    User = {1, 2}
    None = None
    MaxSignIns = 1
    MaxRefreshes = 0
    MaxEvents = 1
PROPERTIES
    LockClearsKey
CHECK_DEADLOCK FALSE
