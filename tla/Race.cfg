SPECIFICATION Spec
CONSTANTS
    t1 = t1 t2 = t2 op = op u1 = u1 u2 = u2 n1 = n1 n2 = n2
    s1 = s1 s2 = s2 h1 = h1 h2 = h2
    None = None
    Unguarded = Unguarded
    Scopes = {s1}
    OperatorScopes = {}
    Actions = {"one"}
    Requests <- SmallAndAltered
    Policies <- PublishedOnly
    Verdict <- MCVerdict
    Nonces = {n1, n2}
    TicketTTL = 1
    DecisionTTL = 2
    ApprovalTTL = 2
    ActionTTL = 1
    MaxTime = 1
    Hosts = {h1, h2}
    Threads = {t1, t2}
    Operators = {}
    HostOf <- MCHostOf
    Servers = {u1, u2}
SYMMETRY Symmetry
VIEW WithoutDenied
CHECK_DEADLOCK FALSE
INVARIANTS
    OneTicketPerKey
    PurchaseWasReserved
    VerifiedMeansPurchased
PROPERTIES
    ReservationIsFinal
    PurchaseIsFinal
    ImplementsOneUseAuthority
