SPECIFICATION Spec
CONSTANTS
    None = None
    DecisionTTL = 2
    ConflictOrder = 7
    FailClosedOrder = 8
    Worlds <- MCWorlds
    TTL = 2
INVARIANTS
    SelectsTheWholeClosure
    EntrancesAgree
    RetirementIsFinal
    ProjectionAgreesInTheEnd
    PermitsWhatWasPermitted
    RefusalPrevails
    RecordsAnswerTheirDecision
PROPERTY HistoryStands
CHECK_DEADLOCK FALSE
