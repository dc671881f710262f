SPECIFICATION Spec
CONSTANTS
    Threads = {t1, t2, t3}
    Scenarios = {s1, s2}
    None = None
    MaxRequests = 4
CHECK_DEADLOCK FALSE
INVARIANTS
    OneProviderPerScenario
PROPERTY RequestsEnd
