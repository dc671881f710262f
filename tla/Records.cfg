CONSTANTS
    PolicyModules = {"base"}
    Home = "tenant"
    DecidedAt = 1
    ValidUntil = 2
    Other = "another"
    MaxEach = 2
    None = None
    Agenda <- MCAgenda
    MaxSlips = 1
    Mine = "tenant"
    Theirs = "another"
    FirstModules <- MCFirstModules
    DecisionIds = {"d", "e"}
    MaxChanges = 3
    MaxVersions = 1
SPECIFICATION Spec
\* A file may be complete.
CHECK_DEADLOCK FALSE
INVARIANTS
    FrozenNeverAdvance
    FourHands
    OnePermitPerReview
    
    OneDecisionPerItem
    WholeOrNothing
