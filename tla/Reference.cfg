SPECIFICATION Spec
CONSTANTS
    None = None
    DecisionTTL = 2
    ConflictOrder = 2
    FailClosedOrder = 3
    Intents <- MCIntents
    Selections <- MCSelections
    Scenarios <- MCScenarios
    MaxTime = 3
    MaxHeld = 2
    MaxAnswers = 1
    MaxReceipts = 1
CHECK_DEADLOCK FALSE
INVARIANTS
    ValidMeansStanding
    IncompleteMeansStanding
    ApprovalsStayInTheirScenario
