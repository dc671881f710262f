--------------------------- MODULE PurchaseDomain ---------------------------
(***************************************************************************)
(* The vocabulary the engine and the synthetic target share: scopes,       *)
(* purchase requests, policies, execution tickets and the wall clock.      *)
(*                                                                         *)
(* A request is a record with (at least) the action id that names it, so   *)
(* two requests may compete for one action id.  SHA-256 digests are        *)
(* injective here: comparing two request digests is comparing the          *)
(* requests.  An HMAC is modelled by who can produce the value it signs.   *)
(***************************************************************************)
EXTENDS Naturals

CONSTANTS
    Scopes,          \* trusted (gateway, sandbox) identities
    OperatorScopes,  \* scopes whose agent actor is the configured operator
    Actions,         \* action ids, the idempotency keys inside a scope
    Requests,        \* validated purchase requests
    Policies,        \* control sets an engine may be constructed with
    Verdict(_, _),   \* Verdict(p, r): verdict of r under p with no facts
    Nonces,          \* what secrets.token_hex(32) may return
    Unguarded,       \* the literal nonce of the unguarded baseline
    None,            \* Python's None
    TicketTTL,       \* 30 s
    DecisionTTL,     \* 120 s
    ApprovalTTL,     \* 120 s
    ActionTTL,       \* 300 s
    MaxTime          \* bound on the clock, for model checking only

Verdicts == {"allow", "require_approval", "block"}

ASSUME DomainAssumption ==
    /\ OperatorScopes \subseteq Scopes
    /\ \A r \in Requests : r.action \in Actions
    /\ \A p \in Policies, r \in Requests : Verdict(p, r) \in Verdicts
    /\ Unguarded \notin Nonces
    /\ None \notin Nonces \cup Requests \cup Policies
    /\ {TicketTTL, DecisionTTL, ApprovalTTL, ActionTTL} \subseteq Nat \ {0}
    /\ MaxTime \in Nat

\* Every ledger lookup is by scope and action id.
Keys == Scopes \X Actions
KeyOf(scope, request) == <<scope, request.action>>

\* The signed payload of an execution ticket.
Tickets == [scope : Scopes, request : Requests, policy : Policies,
            issued_at : Nat, expires_at : Nat, nonce : Nonces]

\* What a purchase receipt says and what its MAC covers.
Receipts == [scope : Scopes, request : Requests,
             nonce : Nonces \cup {Unguarded}, committed_at : Nat]

-----------------------------------------------------------------------------
VARIABLE clock   \* datetime.now(UTC), in units of the shortest time to live

\* Time passes between any two steps of any process.
Tick ==
    /\ clock < MaxTime
    /\ clock' = clock + 1
=============================================================================
