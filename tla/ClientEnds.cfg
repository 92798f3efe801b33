\* Logins, swaps and sign-outs next to requests, with fairness.
SPECIFICATION Spec
CONSTANTS
    user1 = user1
    app1 = app1
    Call = {user1, app1}
    Kinds <- FewKinds
    MaxToken = 2
    MaxTrouble = 1
PROPERTIES
    CallsEnd
    DeadSessionIsNoticed
CHECK_DEADLOCK FALSE
