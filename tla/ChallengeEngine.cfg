SPECIFICATION Spec
CONSTANTS
    r1 = r1
    r2 = r2
    Requests = {r1, r2}
    Setups <- MCSetups
    Offered <- MCOffered
    Pooled = {"SLIDER", "GESTURE"}
    PoolSize = 1
    MaxMade = 4
    MaxRefreshes = 1
    MaxEdits = 1
INVARIANTS TypeOK EachChallengeOnce SolvedNotGuessed DrawnAsConfigured
PROPERTIES ServedAndRefilled
CHECK_DEADLOCK FALSE
