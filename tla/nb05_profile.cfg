SPECIFICATION FairSpec
CONSTANTS
    Storers = {s1, s2}
    Profiles = {low, balanced}
    MaxStores = 2
    MaxKeys = 1
    MaxEvents = 2
    MaxFaults = 1
INVARIANTS
    RestsOnChosenProfile
PROPERTIES
    ComesToRest
CHECK_DEADLOCK FALSE
