SPECIFICATION Spec
CONSTANTS
    Callers = {c1}
    Pm = pm
    Core = core
    Calls = {"set"}
    Speeds = {0, 1}
    Profiles = {balanced, quiet}
    Balanced = balanced
    Garbled = garbled
    RampWrites = 1
    MaxCalls = 2
    MaxSuspends = 0
    MaxRebinds = 1
    MaxFaults = 0
PROPERTIES
    FullModeWhenSpeedIsWritten
CHECK_DEADLOCK FALSE
