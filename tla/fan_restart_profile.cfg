SPECIFICATION Spec
CONSTANTS
    Callers = {c1}
    Pm = pm
    Core = core
    Calls = {"set", "profile"}
    Speeds = {0, 1}
    Profiles = {balanced, quiet}
    Balanced = balanced
    Garbled = garbled
    RampWrites = 1
    MaxCalls = 2
    MaxSuspends = 0
    MaxRebinds = 0
    MaxFaults = 0
INVARIANTS
    ProfileIsSet
CHECK_DEADLOCK FALSE
