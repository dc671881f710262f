-------------------------- MODULE MCOpenShellSystem --------------------------
(* Small instances of the engine, the wire and the target for TLC.         *)
EXTENDS OpenShellSystem, SyntheticPolicy, TLC

CONSTANTS t1, t2, op, u1, u2, n1, n2, s1, s2, h1, h2

\* Amounts in units of 10 dollars: the published limit is 7, a loosened one 20.
Purchase(action, amount, recurring) ==
    [action |-> action, amount |-> amount, recurring |-> recurring]

Published == [limit |-> 7, published |-> TRUE]
Loosened == [limit |-> 20, published |-> TRUE]
Drafts == [limit |-> 7, published |-> FALSE]
PublishedOnly == {Published}
PolicyUpgrade == {Published, Loosened, Drafts}

\* Bodies that compete for one action id.
LargeAndAltered == {Purchase("one", 14, FALSE), Purchase("one", 4, TRUE)}
LargeOnly == {Purchase("one", 14, FALSE)}
SmallAndAltered == {Purchase("one", 4, FALSE), Purchase("one", 14, FALSE)}

MCVerdict(p, r) == SyntheticVerdict(p, r)

\* Threads share the middleware's process, the operator's command has its own.
MCHostOf == [w \in Threads \cup Operators |-> IF w \in Operators THEN h2 ELSE h1]

\* No action reads the reason of the latest denied event, so states that
\* differ in nothing else have the same future.
WithoutDenied == <<clock, ledger, reconciled, policy, call, consent, targetVars, wire>>

Symmetry == Permutations(Threads) \cup Permutations(Servers) \cup Permutations(Nonces)
=============================================================================
