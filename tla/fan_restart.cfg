SPECIFICATION Spec
CONSTANTS
    Callers = {c1, c2}
    Pm = pm
    Core = core
    Calls = {"set", "auto", "mode", "profile"}
    Speeds = {0, 1}
    Profiles = {balanced, quiet}
    Balanced = balanced
    Garbled = garbled
    RampWrites = 1
    MaxCalls = 2
    MaxSuspends = 1
    MaxRebinds = 1
    MaxFaults = 0
SYMMETRY Symmetry
INVARIANTS
    TypeOK
    FullModeBetweenRestarts
    AutoIsFinal
    SuspendKeepsRequest
CHECK_DEADLOCK FALSE
