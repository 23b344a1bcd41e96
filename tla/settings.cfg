SPECIFICATION MCSpec
CONSTANTS
    Users = {u1}
    Handlers = {h1}
    Driver = driver
    Bits = {1}
    Profiles = {2}
    Levels = {4}
    Colours = {0, 1}
    MaxStores = 2
    MaxEvents = 1
    MaxSleeps = 1
    MaxFaults = 1
    Budget = 3
    Callers = {c1, c2}
    RomSize = 3
    MaxLapses = 2
CONSTRAINT WithinBudget
INVARIANTS
    ChosenInForce
    ShownIsInForce
    AsleepIsDark
    CachedFeaturesTrue
    RomIdRight
CHECK_DEADLOCK FALSE
