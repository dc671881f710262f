SPECIFICATION Spec
CONSTANTS
    None = None
    DecisionTTL = 2
    ConflictOrder = 2
    FailClosedOrder = 3
    Validity = 1
    Registry <- Verifiers
    Hosts <- AllHosts
    MaxTime = 2
CHECK_DEADLOCK FALSE
INVARIANTS
    PermissionIsConsented
    PermittedExactly
    RecheckOnlyInTheInstant
    CompletionIsEarned
    RefusedOnlyForDefaultRoutes
    PublishingNeverLoosens
