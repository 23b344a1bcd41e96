SPECIFICATION Spec
CONSTANTS
    Callers = {c1, c2}
    Requests <- BoundaryRequests
    Rows = 1
    Tries = 3
    MaxCalls = 3
    MaxFaults = 2
SYMMETRY Symmetry
CHECK_DEADLOCK FALSE
INVARIANTS
    SpeedInRange
    InitializedMeansInUse
    RequestReachesEc
PROPERTIES
    SwitchOnOrder
    FullModeIsTheUsers
