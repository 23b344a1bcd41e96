SPECIFICATION MCSpec
CONSTANTS
    MaxProbes = 4
    MaxFailures = 1
    Programs = {p1, p2}
    Asked = {1, 65, 90, 100}
    MaxCalls = 3
    MaxLost = 1
    Desktops = {d1, d2}
    KeyThread = key
    PmThread = pm
    Brightness = {0, 3}
    Hues = {2}
    MaxLedCalls = 2
    MaxNights = 1
    MaxErrors = 1
INVARIANTS
    OneDevice
    DriverServesAcpi
    OopsHasCause
    TouchpadKeyFound
    ChargingAsAsked
    FnLockAlone
    KeyboardShowsLeds
CHECK_DEADLOCK FALSE
