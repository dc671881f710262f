--------------------------- MODULE SyntheticTarget ---------------------------
(***************************************************************************)
(* The controlled purchase target, with a ledger of its own.  A request    *)
(* with a ticket is checked against the clock when it is accepted and      *)
(* recorded in a later transaction.  The baseline harness writes to the    *)
(* same ledger through commit_unguarded, without a ticket.  A definition   *)
(* marked "Fault" is a plausible bug, put in place of the definition that  *)
(* follows it to see which property notices; it is not part of the model.  *)
(***************************************************************************)
EXTENDS PurchaseDomain

CONSTANT Servers   \* threads that may be inside SyntheticTarget at once

VARIABLES
    purchases,  \* the "purchase" event of each key, None when there is none
    serving,    \* what each server thread is doing
    receipts    \* receipts that reached somebody outside the target

targetVars == <<purchases, serving, receipts>>

-----------------------------------------------------------------------------
Outcomes == {"committed", "target_idempotency_conflict", "ticket_expired",
             "ticket_request_mismatch"}

\* The arguments of _commit, and how the call ended when it has.
Servings ==
    [scope : Scopes, request : Requests, nonce : Nonces \cup {Unguarded},
     observed : Nat, outcome : Outcomes \cup {None}]

ASSUME TargetAbsentAssumption == None \notin Servings \cup Receipts \cup Outcomes

TargetTypeOK ==
    /\ purchases \in [Keys -> Receipts \cup {None}]
    /\ serving \in [Servers -> Servings \cup {None}]
    /\ receipts \subseteq Receipts

TargetInit ==
    /\ purchases = [k \in Keys |-> None]
    /\ serving = [u \in Servers |-> None]
    /\ receipts = {}

-----------------------------------------------------------------------------
\* The ticket's half-open window.
TicketCurrent(t, now) == t.issued_at <= now /\ now < t.expires_at

\* Fault: the ticket is not compared with the body it came with.
TicketRefusalAnyBody(r, t, now) ==
    IF ~TicketCurrent(t, now) THEN "ticket_expired" ELSE None

\* Fault: an expired ticket is accepted.
TicketRefusalAnyTime(r, t, now) ==
    IF t.request # r THEN "ticket_request_mismatch" ELSE None

\* Why a ticket does not admit a request, None if it does.
TicketRefusal(r, t, now) ==
    IF ~TicketCurrent(t, now) THEN "ticket_expired"
    ELSE IF t.request # r THEN "ticket_request_mismatch"
    ELSE None

\* commit, up to the transaction.  Only minted tickets pass the signature.
Accept(u, r, t) ==
    /\ serving[u] = None
    /\ serving' = [serving EXCEPT ![u] =
         [scope |-> t.scope, request |-> r, nonce |-> t.nonce, observed |-> clock,
          outcome |-> TicketRefusal(r, t, clock)]]
    /\ UNCHANGED <<purchases, receipts>>

\* commit_unguarded, up to the transaction.
AcceptUnguarded(u, scope, r) ==
    /\ serving[u] = None
    /\ serving' = [serving EXCEPT ![u] =
         [scope |-> scope, request |-> r, nonce |-> Unguarded, observed |-> clock,
          outcome |-> None]]
    /\ UNCHANGED <<purchases, receipts>>

\* Fault: the earlier purchase is looked up by nonce instead of by key.
PreviousByNonce(k, v) ==
    IF purchases[k] # None /\ purchases[k].nonce = v.nonce THEN purchases[k] ELSE None

\* The latest purchase event of the key.
Previous(k, v) == purchases[k]

\* A purchase already recorded is answered again only to its own request
\* and nonce.
SamePurchase(previous, v) == previous.request = v.request /\ previous.nonce = v.nonce

\* The transaction of _commit.
Commit(u) ==
    /\ serving[u] # None
    /\ serving[u].outcome = None
    /\ LET v == serving[u]
           k == KeyOf(v.scope, v.request)
           previous == Previous(k, v)
       IN  \/ /\ previous = None
              /\ purchases' = [purchases EXCEPT ![k] =
                   [scope |-> v.scope, request |-> v.request, nonce |-> v.nonce,
                    committed_at |-> v.observed]]
              /\ serving' = [serving EXCEPT ![u].outcome = "committed"]
           \/ /\ previous # None /\ SamePurchase(previous, v)
              /\ serving' = [serving EXCEPT ![u].outcome = "committed"]
              /\ UNCHANGED purchases
           \/ /\ previous # None /\ ~SamePurchase(previous, v)
              /\ serving' = [serving EXCEPT ![u].outcome = "target_idempotency_conflict"]
              /\ UNCHANGED purchases
    /\ UNCHANGED receipts

\* The answer reaches the caller; a commit is answered with its receipt.
Answer(u) ==
    /\ serving[u] # None
    /\ serving[u].outcome # None
    /\ receipts' = IF serving[u].outcome # "committed" THEN receipts
                   ELSE receipts \cup {purchases[KeyOf(serving[u].scope, serving[u].request)]}
    /\ serving' = [serving EXCEPT ![u] = None]
    /\ UNCHANGED purchases

\* The connection or the process is lost before the transaction (the lock
\* was not granted, say) or after it, with the answer.
LoseCall(u) ==
    /\ serving[u] # None
    /\ serving' = [serving EXCEPT ![u] = None]
    /\ UNCHANGED <<purchases, receipts>>
=============================================================================
