SPECIFICATION FairSpec
CONSTANTS
    Connections = {c1, c2, c3}
    Payloads = {state, denied}
    MaxBatch = 2
    MaxEvents = 4
    NoOne = NoOne
CHECK_DEADLOCK FALSE
INVARIANTS
    ChainVerifies
PROPERTIES
    LockIsReleased
    CallsEnd
    ImplementsAtomicLedger
