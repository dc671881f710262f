SPECIFICATION Spec
CONSTANTS
    t1 = t1 t2 = t2 op = op u1 = u1 u2 = u2 n1 = n1 n2 = n2
    s1 = s1 s2 = s2 h1 = h1 h2 = h2
    None = None
    Unguarded = Unguarded
    Scopes = {s1}
    OperatorScopes = {}
    Actions = {"one"}
    Requests <- LargeAndAltered
    Policies <- PolicyUpgrade
    Verdict <- MCVerdict
    Nonces = {n1}
    TicketTTL = 1
    DecisionTTL = 2
    ApprovalTTL = 2
    ActionTTL = 4
    MaxTime = 4
    Hosts = {h1, h2}
    Threads = {t1}
    Operators = {op}
    HostOf <- MCHostOf
    Servers = {}

VIEW WithoutDenied
CHECK_DEADLOCK FALSE
INVARIANTS
    TypeOK
    ReservationHasConsent
    ReservationIsWithinPolicy
    ShownIsCurrent
