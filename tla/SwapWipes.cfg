\* A request that refreshes while MFA is enabled or disabled; no faults.
SPECIFICATION Spec
CONSTANTS
    user1 = user1
    app1 = app1
    Call = {user1, app1}
    Kinds <- SwapKinds
    MaxToken = 2
    MaxTrouble = 0
PROPERTIES
    KeepsFreshSession
CHECK_DEADLOCK FALSE
