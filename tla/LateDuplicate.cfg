SPECIFICATION Spec
CONSTANTS
    t1 = t1 t2 = t2 op = op u1 = u1 u2 = u2 n1 = n1 n2 = n2
    s1 = s1 s2 = s2 h1 = h1 h2 = h2
    None = None
    Unguarded = Unguarded
    Scopes = {s1}
    OperatorScopes = {}
    Actions = {"one"}
    Requests <- SmallAndAltered
    Policies <- PublishedOnly
    Verdict <- MCVerdict
    Nonces = {n1}
    TicketTTL = 1
    DecisionTTL = 2
    ApprovalTTL = 2
    ActionTTL = 3
    MaxTime = 3
    Hosts = {h1, h2}
    Threads = {t1}
    Operators = {}
    HostOf <- MCHostOf
    Servers = {u1}

VIEW WithoutDenied
CHECK_DEADLOCK FALSE
INVARIANT DuplicateGetsPriorResult
