SPECIFICATION MCSpec
CONSTANTS
    Users = {u1}
    Handlers = {h1}
    Driver = driver
    Bits = {1}
    Profiles = {2}
    Levels = {4}
    Colours = {0, 1}
    MaxStores = 0
    MaxEvents = 0
    MaxSleeps = 0
    MaxFaults = 0
    Budget = 0
    Callers = {c1, c2}
    RomSize = 3
    MaxLapses = 0
CONSTRAINT WithinBudget
INVARIANT RemoveRestoresBacklight
CHECK_DEADLOCK FALSE
