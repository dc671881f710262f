----------------------------- MODULE DemoEngine -----------------------------
(***************************************************************************)
(* The host-only engine that decides, collects approvals, reserves a       *)
(* purchase once and reconciles it with the target's receipt.              *)
(*                                                                         *)
(* Every public operation samples the clock first and only then waits for  *)
(* the ledger's write lock (BEGIN IMMEDIATE, up to 15 s), so an operation  *)
(* is two steps: its Call, which fixes `observed', and its transaction,    *)
(* which uses it.  A transaction is one step because the lock is exclusive *)
(* for readers and writers alike; Ledger.tla models the lock itself.       *)
(*                                                                         *)
(* The append-only ledger is seen as its code sees it, through             *)
(* Ledger.latest: per key, the latest event of each kind.                  *)
(***************************************************************************)
EXTENDS PurchaseDomain

CONSTANTS
    Hosts,      \* processes that construct a DemoEngine on the same ledger
    Threads,    \* middleware and harness threads: evaluate, authorize, reconcile
    Operators,  \* runs of the approve command: pending, then approve
    HostOf      \* the process a worker runs in

Workers == Threads \cup Operators

ASSUME WorkerAssumption ==
    /\ Threads \cap Operators = {}
    /\ HostOf \in [Workers -> Hosts]

VARIABLES
    ledger,      \* latest "state" event of each key, None when there is none
    denied,      \* reason of the latest "denied" event of each key
    reconciled,  \* verified flag of the latest "reconciliation" event
    policy,      \* control set each process was started with
    call,        \* what each worker is doing
    consent      \* history: request shown by an approve run that succeeded

engineVars == <<ledger, denied, reconciled, policy, call, consent>>

-----------------------------------------------------------------------------
(* Types *)

Approvals == [valid_from : Nat, valid_until : Nat]
Decisions == [verdict : Verdicts, evaluated_at : Nat]
States ==
    [request : Requests, first_seen : Nat, policy : Policies,
     status : {"pending", "approved", "reserved"},
     approvals : SUBSET Approvals, decision : Decisions,
     reservation : Tickets \cup {None}]

\* What a caller hands to reconcile; `signed' says the target made the MAC.
Claims == [signed : BOOLEAN, body : Receipts]

Calls ==
    [op : {"evaluate", "authorize", "approve", "reconcile"},
     phase : {"shown", "called", "replied"},
     key : Keys, request : Requests, observed : Nat,
     authentic : BOOLEAN, claim : Claims \cup {None}, ticket : Tickets \cup {None}]

Reasons ==
    {"action_changed", "policy_changed", "action_expired", "approval_required",
     "policy_denied", "action_already_reserved", "operator_authentication_failed",
     "unknown_pending_action", "action_not_pending", "pending_decision_expired",
     "approval_not_required", "approval_rejected"}

ASSUME AbsentAssumption ==
    None \notin BOOLEAN \cup States \cup Calls \cup Claims \cup Tickets \cup Reasons

EngineTypeOK ==
    /\ ledger \in [Keys -> States \cup {None}]
    /\ denied \in [Keys -> Reasons \cup {None}]
    /\ reconciled \in [Keys -> BOOLEAN \cup {None}]
    /\ policy \in [Hosts -> Policies]
    /\ call \in [Workers -> Calls \cup {None}]
    /\ consent \in [Keys -> Requests \cup {None}]

EngineInit ==
    /\ ledger = [k \in Keys |-> None]
    /\ denied \in [Keys -> {None}]
    /\ reconciled = [k \in Keys |-> None]
    /\ policy \in [Hosts -> Policies]
    /\ call = [w \in Workers |-> None]
    /\ consent = [k \in Keys |-> None]

-----------------------------------------------------------------------------
(* Evaluation of one stored action.  A definition marked "Fault" is not part *)
(* of the model: it is a plausible bug, put in place of the definition that  *)
(* follows it to see which property notices.                                 *)

\* Fault: the end of the window is not checked.
ApprovalMatchesForever(fact, now) == fact.valid_from <= now

\* An approval fact counts only inside its half-open window.
ApprovalMatches(fact, now) == fact.valid_from <= now /\ now < fact.valid_until

\* Fault: the actor may approve its own action.
EvaluatedWithoutIndependence(s, p, scope, now) ==
    LET base == Verdict(p, s.request)
        verdict == IF base # "require_approval" THEN base
                   ELSE IF \E f \in s.approvals : ApprovalMatches(f, now) THEN "allow"
                   ELSE "require_approval"
    IN  [s EXCEPT !.decision = [verdict |-> verdict, evaluated_at |-> now]]

\* Fault: a new evaluation starts the action over.
EvaluatedAfresh(s, p, scope, now) ==
    [s EXCEPT !.decision = [verdict |-> Verdict(p, s.request), evaluated_at |-> now],
              !.status = "pending", !.approvals = {}]

\* The evaluator under policy p.  An approval by the actor itself fails the
\* independence rule, which composes to a block.
Evaluated(s, p, scope, now) ==
    LET base == Verdict(p, s.request)
        matching == {f \in s.approvals : ApprovalMatches(f, now)}
        verdict == IF base # "require_approval" THEN base
                   ELSE IF matching = {} THEN "require_approval"
                   ELSE IF scope \in OperatorScopes THEN "block" ELSE "allow"
    IN  [s EXCEPT !.decision = [verdict |-> verdict, evaluated_at |-> now]]

\* Fault: a changed body replaces the stored action instead of being refused.
StateForLatestBody(k, r, p, now) ==
    IF ledger[k] # None /\ ledger[k].request = r THEN ledger[k]
    ELSE [request |-> r, first_seen |-> now, policy |-> p, status |-> "pending",
          approvals |-> {}, decision |-> None, reservation |-> None]

\* Fault: a new state that no later step knows.
StateForMisnamed(k, r, p, now) ==
    IF ledger[k] # None THEN ledger[k]
    ELSE [request |-> r, first_seen |-> now, policy |-> p, status |-> "new",
          approvals |-> {}, decision |-> None, reservation |-> None]

\* The stored action, or the pending one an unseen key starts with.
StateFor(k, r, p, now) ==
    IF ledger[k] # None THEN ledger[k]
    ELSE [request |-> r, first_seen |-> now, policy |-> p, status |-> "pending",
          approvals |-> {}, decision |-> None, reservation |-> None]

InActionWindow(s, now) == s.first_seen <= now /\ now < s.first_seen + ActionTTL

\* Fault: the policy the action was first seen under is not compared.
RefusalIgnoringPolicy(s, r, p, now) ==
    IF s.request # r THEN "action_changed"
    ELSE IF ~InActionWindow(s, now) THEN "action_expired"
    ELSE None

\* Why _evaluate refuses before it reaches the evaluator, None if it does not.
Refusal(s, r, p, now) ==
    IF s.request # r THEN "action_changed"
    ELSE IF s.policy # p THEN "policy_changed"
    ELSE IF ~InActionWindow(s, now) THEN "action_expired"
    ELSE None

-----------------------------------------------------------------------------
(* Calls: the clock is sampled before the lock is requested *)

NewCall(op, k, r, claim) ==
    [op |-> op, phase |-> "called", key |-> k, request |-> r, observed |-> clock,
     authentic |-> TRUE, claim |-> claim, ticket |-> None]

CallEvaluate(w, scope, r) ==
    /\ call[w] = None
    /\ call' = [call EXCEPT ![w] = NewCall("evaluate", KeyOf(scope, r), r, None)]
    /\ UNCHANGED <<ledger, denied, reconciled, policy, consent>>

CallAuthorize(w, scope, r) ==
    /\ call[w] = None
    /\ call' = [call EXCEPT ![w] = NewCall("authorize", KeyOf(scope, r), r, None)]
    /\ UNCHANGED <<ledger, denied, reconciled, policy, consent>>

CallReconcile(w, scope, r, claim) ==
    /\ call[w] = None
    /\ call' = [call EXCEPT ![w] = NewCall("reconcile", KeyOf(scope, r), r, claim)]
    /\ UNCHANGED <<ledger, denied, reconciled, policy, consent>>

\* The approve command reads the pending action and shows it to the operator.
Inspect(w, k) ==
    /\ call[w] = None
    /\ ledger[k] # None
    /\ call' = [call EXCEPT ![w] =
         [NewCall("approve", k, ledger[k].request, None) EXCEPT !.phase = "shown"]]
    /\ UNCHANGED <<ledger, denied, reconciled, policy, consent>>

\* The operator types the digest shown; approve is then a call of its own.
CallApprove(w, authentic) ==
    /\ call[w] # None
    /\ call[w].phase = "shown"
    /\ call' = [call EXCEPT ![w].phase = "called", ![w].observed = clock,
                            ![w].authentic = authentic]
    /\ UNCHANGED <<ledger, denied, reconciled, policy, consent>>

-----------------------------------------------------------------------------
(* Transactions *)

Running(w, op) == call[w] # None /\ call[w].op = op /\ call[w].phase = "called"
Finish(w) == call' = [call EXCEPT ![w] = None]
Store(k, s) == ledger' = [ledger EXCEPT ![k] = s]
Deny(k, reason) == denied' = [denied EXCEPT ![k] = reason]

Evaluate(w) ==
    /\ Running(w, "evaluate")
    /\ LET c == call[w]
           p == policy[HostOf[w]]
           s == StateFor(c.key, c.request, p, c.observed)
           why == Refusal(s, c.request, p, c.observed)
       IN  \/ /\ why # None
              /\ Deny(c.key, why)
              /\ UNCHANGED ledger
           \/ /\ why = None
              /\ Store(c.key, Evaluated(s, p, c.key[1], c.observed))
              /\ UNCHANGED denied
    /\ Finish(w)
    /\ UNCHANGED <<reconciled, policy, consent>>

\* A ticket ends with the earliest of the instants that bound its authority.
Deadlines(s, now) ==
    {s.decision.evaluated_at + DecisionTTL, now + TicketTTL, s.first_seen + ActionTTL}
        \cup {f.valid_until : f \in s.approvals}

ReservedNonces == {ledger[k].reservation.nonce :
                     k \in {j \in Keys : ledger[j] # None /\ ledger[j].status = "reserved"}}

\* Reserving: the state keeps the payload, the caller gets it signed.
Reserve(w, s, p, e, n) ==
    LET c == call[w]
        payload == [scope |-> c.key[1], request |-> s.request, policy |-> p,
                    issued_at |-> c.observed, expires_at |-> e, nonce |-> n]
    IN  /\ Store(c.key, [s EXCEPT !.status = "reserved", !.reservation = payload])
        /\ call' = [call EXCEPT ![w].phase = "replied", ![w].ticket = payload]

\* Fault: an earlier reservation is not noticed.
ReservationRefusalForgetful(s) ==
    IF s.decision.verdict = "require_approval" THEN "approval_required"
    ELSE IF s.decision.verdict = "block" THEN "policy_denied"
    ELSE None

\* Why an evaluated action is not reserved, None if it is.
ReservationRefusal(s) ==
    IF s.status = "reserved" THEN "action_already_reserved"
    ELSE IF s.decision.verdict = "require_approval" THEN "approval_required"
    ELSE IF s.decision.verdict = "block" THEN "policy_denied"
    ELSE None

Authorize(w) ==
    /\ Running(w, "authorize")
    /\ LET c == call[w]
           p == policy[HostOf[w]]
           s == StateFor(c.key, c.request, p, c.observed)
           why == Refusal(s, c.request, p, c.observed)
           e == Evaluated(s, p, c.key[1], c.observed)
           refused == ReservationRefusal(e)
       IN  \/ /\ why # None
              /\ Deny(c.key, why)
              /\ Finish(w)
              /\ UNCHANGED ledger
           \/ /\ why = None /\ refused # None
              /\ Store(c.key, e)
              /\ Deny(c.key, refused)
              /\ Finish(w)
           \/ /\ why = None /\ refused = None
              /\ \E n \in Nonces \ ReservedNonces, d \in Deadlines(e, c.observed) :
                   /\ \A other \in Deadlines(e, c.observed) : d <= other
                   /\ Reserve(w, e, p, d, n)
              /\ UNCHANGED denied
    /\ UNCHANGED <<reconciled, policy, consent>>

\* Why approve refuses before it records a fact, None if it does not.
ApprovalRefusal(s, c, p) ==
    IF ~c.authentic THEN "operator_authentication_failed"
    ELSE IF s = None THEN "unknown_pending_action"
    ELSE IF s.status # "pending" \/ s.approvals # {} THEN "action_not_pending"
    ELSE IF c.observed >= s.decision.evaluated_at + DecisionTTL THEN "pending_decision_expired"
    ELSE IF s.decision.verdict # "require_approval" THEN "approval_not_required"
    ELSE IF s.policy # p THEN "policy_changed"
    ELSE None

\* The fact ends with the decision it rests on or after its own validity.
ApprovalFact(s, now) ==
    LET basisEnd == s.decision.evaluated_at + DecisionTTL
        factEnd == now + ApprovalTTL
    IN  [valid_from |-> now, valid_until |-> IF basisEnd < factEnd THEN basisEnd ELSE factEnd]

\* The approved state is appended before it is evaluated again, and the
\* transaction commits even when that evaluation refuses it.
Approve(w) ==
    /\ Running(w, "approve")
    /\ LET c == call[w]
           p == policy[HostOf[w]]
           s == ledger[c.key]
           why == ApprovalRefusal(s, c, p)
           a == [s EXCEPT !.approvals = {ApprovalFact(s, c.observed)}, !.status = "approved"]
           late == Refusal(a, s.request, p, c.observed)
           e == Evaluated(a, p, c.key[1], c.observed)
       IN  \/ /\ why # None
              /\ Deny(c.key, why)
              /\ UNCHANGED <<ledger, consent>>
           \/ /\ why = None /\ late # None
              /\ Store(c.key, a)
              /\ Deny(c.key, late)
              /\ UNCHANGED consent
           \/ /\ why = None /\ late = None /\ e.decision.verdict # "allow"
              /\ Store(c.key, e)
              /\ Deny(c.key, "approval_rejected")
              /\ UNCHANGED consent
           \/ /\ why = None /\ late = None /\ e.decision.verdict = "allow"
              /\ Store(c.key, e)
              /\ consent' = [consent EXCEPT ![c.key] = c.request]
              /\ UNCHANGED denied
    /\ Finish(w)
    /\ UNCHANGED <<reconciled, policy>>

\* Fault: the receipt's MAC is not checked.
ClaimVerifiesUnsigned(s, c) ==
    /\ s # None
    /\ s.status = "reserved"
    /\ c.claim # None
    /\ c.claim.body.request = c.request
    /\ c.claim.body.nonce = s.reservation.nonce
    /\ c.claim.body.scope = c.key[1]

\* Only a receipt the target signed for this very reservation verifies it.
ClaimVerifies(s, c) ==
    /\ s # None
    /\ s.status = "reserved"
    /\ c.claim # None
    /\ c.claim.signed
    /\ c.claim.body.request = c.request
    /\ c.claim.body.nonce = s.reservation.nonce
    /\ c.claim.body.scope = c.key[1]

Reconcile(w) ==
    /\ Running(w, "reconcile")
    /\ reconciled' = [reconciled EXCEPT ![call[w].key] =
                        ClaimVerifies(ledger[call[w].key], call[w])]
    /\ Finish(w)
    /\ UNCHANGED <<ledger, denied, policy, consent>>

-----------------------------------------------------------------------------
(* Ends of calls and of processes *)

\* The reservation is committed; the ticket leaves the engine.
Return(w) ==
    /\ call[w] # None
    /\ call[w].phase = "replied"
    /\ Finish(w)
    /\ UNCHANGED <<ledger, denied, reconciled, policy, consent>>

\* The lock was not granted in time, or the operator declined: no trace.
GiveUp(w) ==
    /\ call[w] # None
    /\ call[w].phase \in {"shown", "called"}
    /\ Finish(w)
    /\ UNCHANGED <<ledger, denied, reconciled, policy, consent>>

\* A process dies, with every call and every ticket not yet returned, and is
\* started again on the same ledger, perhaps with other controls.
Restart(h, p) ==
    /\ policy' = [policy EXCEPT ![h] = p]
    /\ call' = [w \in Workers |-> IF HostOf[w] = h THEN None ELSE call[w]]
    /\ UNCHANGED <<ledger, denied, reconciled, consent>>

=============================================================================
