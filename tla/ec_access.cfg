SPECIFICATION MCSpec
CONSTANTS
    Threads = {t1, t2}
    NoThread = nobody
    b0 = b0
    b1 = b1
    Bytes = {b0, b1}
    Failed = failed
    Nothing = nothing
    Polls = 2
INVARIANTS
    CommandIntact
PROPERTIES
    ImplementsRam
    AccessReturns
