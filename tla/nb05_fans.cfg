SPECIFICATION MCSpec
CONSTANTS
    Threads = {t1, t2}
    NoThread = nobody
    b0 = b0
    b1 = b1
    Bytes = {b0, b1}
    Failed = failed
    Nothing = nothing
    Writers = {w1, w2}
    Fans = {1}
    Pwms = {33, 64, 255}
    Versions <- OldAndNew
    Starts = {5, 48}
    LowZones = 2
    HotZones = 1
    MaxStores = 3
    MaxFaults = 1
INVARIANTS
    HotZonesCooled
    LastStoreIsInForce
    RestoringStopsNoFan
PROPERTIES
    ImplementsRam
CHECK_DEADLOCK FALSE
