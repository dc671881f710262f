--------------------------- MODULE OpenShellSystem ---------------------------
(***************************************************************************)
(* Engine and target joined by the supervisor that carries a ticket from   *)
(* the middleware's answer to the target, and by the caller that carries a *)
(* receipt back to reconcile.  The two ledgers are separate databases: no  *)
(* transaction spans them.                                                 *)
(*                                                                         *)
(* A ticket on the wire may be delivered never, late, several times and    *)
(* beside any request body.  A receipt may be lost, or presented late, to  *)
(* any key, more than once.                                                *)
(***************************************************************************)
EXTENDS DemoEngine, SyntheticTarget

VARIABLE wire   \* tickets that left the engine in a header mutation

vars == <<clock, engineVars, targetVars, wire>>

TypeOK ==
    /\ clock \in Nat
    /\ EngineTypeOK
    /\ TargetTypeOK
    /\ wire \subseteq Tickets

Init ==
    /\ clock = 0
    /\ EngineInit
    /\ TargetInit
    /\ wire = {}

\* Genuine receipts, and receipts somebody made up from a ticket.
PresentedClaims ==
    {[signed |-> TRUE, body |-> b] : b \in receipts}
        \cup {[signed |-> FALSE,
               body |-> [scope |-> t.scope, request |-> t.request, nonce |-> t.nonce,
                         committed_at |-> t.issued_at]] : t \in wire}
        \cup {None}

\* The middleware and harness threads.
ThreadStep(w) ==
    \/ \E scope \in Scopes, r \in Requests :
         \/ CallEvaluate(w, scope, r)
         \/ CallAuthorize(w, scope, r)
         \/ \E claim \in PresentedClaims : CallReconcile(w, scope, r, claim)
    \/ Evaluate(w)
    \/ Authorize(w)
    \/ Reconcile(w)

\* A run of the approve command.
OperatorStep(w) ==
    \/ \E k \in Keys : Inspect(w, k)
    \/ \E authentic \in BOOLEAN : CallApprove(w, authentic)
    \/ Approve(w)

EngineStep ==
    \/ \E w \in Threads : ThreadStep(w)
    \/ \E w \in Operators : OperatorStep(w)
    \/ \E w \in Workers : GiveUp(w)
    \/ \E h \in Hosts, p \in Policies : Restart(h, p)

\* The middleware answers ALLOW with the ticket in a header.
Forward(w) == Return(w) /\ wire' = wire \cup {call[w].ticket}

TargetStep ==
    \/ \E u \in Servers, t \in wire, r \in Requests : Accept(u, r, t)
    \/ \E u \in Servers, scope \in Scopes, r \in Requests : AcceptUnguarded(u, scope, r)
    \/ \E u \in Servers : Commit(u) \/ Answer(u) \/ LoseCall(u)

Next ==
    \/ Tick /\ UNCHANGED <<engineVars, targetVars, wire>>
    \/ EngineStep /\ UNCHANGED <<clock, targetVars, wire>>
    \/ \E w \in Threads : Forward(w) /\ UNCHANGED <<clock, targetVars>>
    \/ TargetStep /\ UNCHANGED <<clock, engineVars, wire>>

Spec == Init /\ [][Next]_vars

-----------------------------------------------------------------------------
(* Safety *)

Reserved(k) == ledger[k] # None /\ ledger[k].status = "reserved"
NeedsApproval(s) == Verdict(s.policy, s.request) = "require_approval"

\* Every guarded purchase in the target's database was reserved in the
\* engine's: for that key, that request and that nonce, and it is dated inside
\* the reservation's window.  The two databases share no transaction.
PurchaseWasReserved ==
    \A k \in Keys :
        purchases[k] # None /\ purchases[k].nonce # Unguarded =>
            /\ Reserved(k)
            /\ purchases[k].nonce = ledger[k].reservation.nonce
            /\ purchases[k].request = ledger[k].request
            /\ ledger[k].reservation.issued_at <= purchases[k].committed_at
            /\ purchases[k].committed_at < ledger[k].reservation.expires_at

\* A reservation that needed a human rests on a consent: an approve run that
\* was answered with success, for the request that was shown, by somebody who
\* is not the actor, at an instant its fact covers.  An approval the operator
\* was told is denied never pays, although its state stays "approved".
ReservationHasConsent ==
    \A k \in Keys :
        Reserved(k) /\ NeedsApproval(ledger[k]) =>
            /\ consent[k] = ledger[k].request
            /\ k[1] \notin OperatorScopes
            /\ \E f \in ledger[k].approvals :
                 /\ f.valid_from <= ledger[k].reservation.issued_at
                 /\ ledger[k].reservation.issued_at < f.valid_until
                 /\ ledger[k].reservation.expires_at <= f.valid_until

\* What the policy pinned at first sight blocks is never reserved, whatever
\* policies the processes were restarted with since; the ticket names that
\* policy and dies with the action's 300 s window.
ReservationIsWithinPolicy ==
    \A k \in Keys :
        Reserved(k) =>
            /\ Verdict(ledger[k].policy, ledger[k].request) # "block"
            /\ ledger[k].reservation.policy = ledger[k].policy
            /\ InActionWindow(ledger[k], ledger[k].reservation.issued_at)
            /\ ledger[k].reservation.expires_at <= ledger[k].first_seen + ActionTTL

\* What an operator is looking at, or has just confirmed, is what approve will
\* act on, although the ledger was unlocked in between.
ShownIsCurrent ==
    \A w \in Operators :
        call[w] # None =>
            /\ ledger[call[w].key] # None
            /\ ledger[call[w].key].request = call[w].request

Minted == wire \cup {call[w].ticket : w \in {v \in Threads :
                            call[v] # None /\ call[v].phase = "replied"}}

\* A key never has two bearer tickets, a nonce never serves two keys.
OneTicketPerKey ==
    \A t1, t2 \in Minted :
        (KeyOf(t1.scope, t1.request) = KeyOf(t2.scope, t2.request) \/ t1.nonce = t2.nonce)
            => t1 = t2

\* A reconciliation says verified only when the target did make the guarded
\* purchase of this key's reservation.
VerifiedMeansPurchased ==
    \A k \in Keys :
        reconciled[k] = TRUE =>
            /\ Reserved(k)
            /\ purchases[k] # None
            /\ purchases[k].nonce = ledger[k].reservation.nonce

-----------------------------------------------------------------------------
(* What a step may never do *)

\* A reservation survives every later evaluation, denial, approval attempt,
\* reconciliation and restart: nothing releases or replaces it.
ReservationIsFinal ==
    [][\A k \in Keys : Reserved(k) =>
         /\ Reserved(k)'
         /\ ledger'[k].reservation = ledger[k].reservation
         /\ ledger'[k].request = ledger[k].request]_ledger

\* A recorded purchase is never replaced, whoever comes second.
PurchaseIsFinal ==
    [][\A k \in Keys : purchases[k] # None => purchases'[k] = purchases[k]]_purchases

-----------------------------------------------------------------------------
(* What the design says and the code does not do *)

\* design.md: "Lifecycle: pending -> approved -> reserved -> committed".  A
\* verified reconciliation appends an event but leaves the action reserved.
ReconciledIsCommitted ==
    \A k \in Keys : reconciled[k] = TRUE => ledger[k].status = "committed"

\* design.md: "Reserve checks exact request, scope, policy, current time, prior
\* consumption and approval atomically".  The time it checks was sampled before
\* the wait for the lock, so the reservation may be dead when it is made.
ReservesInCurrentTime ==
    [][\A k \in Keys : ~Reserved(k) /\ Reserved(k)' =>
         clock < ledger'[k].reservation.expires_at]_ledger

\* design.md: "Duplicate same-body delivery at the target returns the prior
\* result".  A duplicate that arrives after the ticket expired is refused
\* before the prior result is looked up.
DuplicateGetsPriorResult ==
    \A u \in Servers :
        serving[u] # None /\ serving[u].outcome = "ticket_expired" =>
            LET previous == purchases[KeyOf(serving[u].scope, serving[u].request)]
            IN  previous = None \/ ~SamePurchase(previous, serving[u])

-----------------------------------------------------------------------------
(* Refinement *)

\* What is filed and what is spent are records, so neither is None.
ASSUME ShownAbsentAssumption ==
    None \notin [request : Requests, policy : Policies]
                \cup [request : Requests, nonce : Nonces \cup {Unguarded}]

Authority == INSTANCE OneUseAuthority WITH
    filed <- [k \in Keys |-> IF ledger[k] = None THEN None
                ELSE [request |-> ledger[k].request, policy |-> ledger[k].policy]],
    agreed <- consent,
    granted <- [k \in Keys |-> IF Reserved(k) THEN ledger[k].reservation.nonce ELSE None],
    spent <- [k \in Keys |-> IF purchases[k] = None THEN None
                ELSE [request |-> purchases[k].request, nonce |-> purchases[k].nonce]],
    confirmed <- reconciled

\* Engine, wire and target together implement the one-use authority.
ImplementsOneUseAuthority == Authority!Spec
=============================================================================
