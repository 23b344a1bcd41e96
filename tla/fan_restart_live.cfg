SPECIFICATION FairSpec
CONSTANTS
    Callers = {c1, c2}
    Pm = pm
    Core = core
    Calls = {"set", "auto", "mode", "profile"}
    Speeds = {0, 1}
    Profiles = {balanced, quiet}
    Balanced = balanced
    Garbled = garbled
    RampWrites = 1
    MaxCalls = 2
    MaxSuspends = 0
    MaxRebinds = 0
    MaxFaults = 1
INVARIANTS
    Supervised
PROPERTIES
    RestartRepairsSpeed
    EveryCallReturns
CHECK_DEADLOCK FALSE
