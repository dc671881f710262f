----------------------- MODULE OpenShellSystem_proofs -----------------------
(***************************************************************************)
(* Proofs about the engine, the wire and the target, for any scopes,       *)
(* requests, policies, processes, times to live and any passing of time.   *)
(*                                                                         *)
(* The argument goes from the types (TypeInv) to what is stored under a    *)
(* key (StoredInv), to the tickets minted from it (TicketInv), and from    *)
(* the tickets to the purchases and receipts made with them (PurchaseInv); *)
(* beside them, to the consents that reservations rest on (ConsentInv).    *)
(* Each layer is inductive relative to the ones before it.                 *)
(***************************************************************************)
EXTENDS OpenShellSystem, TLAPS

-----------------------------------------------------------------------------
(* What the operators return *)

\* A state before its first evaluation, when it has no decision yet.
Undecided ==
    [request : Requests, first_seen : Nat, policy : Policies,
     status : {"pending", "approved", "reserved"},
     approvals : SUBSET Approvals, decision : Decisions \cup {None},
     reservation : Tickets \cup {None}]

\* Looking up by scope and request stays within the keys.
LEMMA KeyOfType ==
    ASSUME NEW scope \in Scopes, NEW r \in Requests
    PROVE  KeyOf(scope, r) \in Keys
BY DomainAssumption DEF KeyOf, Keys

LEMMA StatesAreUndecided == States \subseteq Undecided
BY DEF States, Undecided

\* What _evaluate starts from.
LEMMA StateForType ==
    ASSUME EngineTypeOK, NEW k \in Keys, NEW r \in Requests, NEW p \in Policies,
           NEW now \in Nat
    PROVE  StateFor(k, r, p, now) \in Undecided
<1>1. CASE ledger[k] # None
  BY <1>1, StatesAreUndecided DEF EngineTypeOK, StateFor
<1>2. CASE ledger[k] = None
  BY <1>2 DEF EngineTypeOK, StateFor, Undecided
<1> QED
  BY <1>1, <1>2

\* Evaluation decides and changes nothing else.
LEMMA EvaluatedType ==
    ASSUME NEW s \in Undecided, NEW p \in Policies, NEW scope, NEW now \in Nat
    PROVE  LET e == Evaluated(s, p, scope, now)
           IN  /\ e \in States
               /\ e.request = s.request /\ e.first_seen = s.first_seen
               /\ e.policy = s.policy /\ e.status = s.status
               /\ e.approvals = s.approvals /\ e.reservation = s.reservation
               /\ e.decision.evaluated_at = now
<1> DEFINE v == IF Verdict(p, s.request) # "require_approval" THEN Verdict(p, s.request)
                ELSE IF {f \in s.approvals : ApprovalMatches(f, now)} = {}
                     THEN "require_approval"
                ELSE IF scope \in OperatorScopes THEN "block" ELSE "allow"
<1>1. v \in Verdicts
  BY DomainAssumption DEF Undecided, Verdicts
<1>2. Evaluated(s, p, scope, now) = [s EXCEPT !.decision = [verdict |-> v, evaluated_at |-> now]]
  BY DEF Evaluated
<1> HIDE DEF v
<1> QED
  BY <1>1, <1>2 DEF Undecided, States, Decisions

\* A new call, of a clock that is a time.
LEMMA NewCallType ==
    ASSUME clock \in Nat, NEW k \in Keys, NEW r \in Requests,
           NEW op \in {"evaluate", "authorize", "approve", "reconcile"},
           NEW claim \in Claims \cup {None}
    PROVE  NewCall(op, k, r, claim) \in Calls
BY DEF NewCall, Calls

\* A refusal is one of the engine's reasons.
LEMMA RefusalType ==
    ASSUME NEW s, NEW r, NEW p, NEW now
    PROVE  Refusal(s, r, p, now) \in Reasons \cup {None}
BY DEF Refusal, Reasons

\* The instants that end a ticket are times.
LEMMA DeadlinesType ==
    ASSUME NEW s \in States, NEW now \in Nat
    PROVE  Deadlines(s, now) \subseteq Nat
BY DomainAssumption DEF Deadlines, States, Decisions, Approvals

-----------------------------------------------------------------------------
(* Types.  TypeOK is not inductive: what is answered is what was recorded.   *)

\* A call that was replied to carries a ticket.
RepliedHasTicket ==
    \A w \in Workers :
        call[w] # None /\ call[w].phase = "replied" => call[w].ticket # None

\* A server thread answers "committed" only about a recorded purchase.
CommittedIsRecorded ==
    \A u \in Servers :
        serving[u] # None /\ serving[u].outcome = "committed" =>
            purchases[KeyOf(serving[u].scope, serving[u].request)] # None

TypeInv == TypeOK /\ RepliedHasTicket /\ CommittedIsRecorded

LEMMA TypeInit == Init => TypeInv
BY DEF Init, EngineInit, TargetInit, TypeInv, TypeOK, EngineTypeOK, TargetTypeOK,
       RepliedHasTicket, CommittedIsRecorded, Workers

\* The claims that are presented are claims.
LEMMA PresentedClaimsType == TypeOK => PresentedClaims \subseteq Claims \cup {None}
<1> SUFFICES ASSUME TypeOK, NEW x \in PresentedClaims, x # None
             PROVE  x \in Claims
  OBVIOUS
<1>1. CASE \E b \in receipts : x = [signed |-> TRUE, body |-> b]
  BY <1>1 DEF TypeOK, TargetTypeOK, Claims
<1>2. CASE \E t \in wire :
             x = [signed |-> FALSE,
                  body |-> [scope |-> t.scope, request |-> t.request, nonce |-> t.nonce,
                            committed_at |-> t.issued_at]]
  <2>1. PICK t \in wire :
               x = [signed |-> FALSE,
                    body |-> [scope |-> t.scope, request |-> t.request, nonce |-> t.nonce,
                              committed_at |-> t.issued_at]]
    BY <1>2
  <2>2. t \in Tickets
    BY DEF TypeOK
  <2>3. x.body \in Receipts
    BY <2>1, <2>2 DEF Tickets, Receipts
  <2> QED
    BY <2>1, <2>3 DEF Claims
<1> QED
  BY <1>1, <1>2 DEF PresentedClaims

EngineTypeInv == EngineTypeOK /\ RepliedHasTicket

\* A step that only replaces one worker's call by a call that was not yet
\* replied to, or by none.
LEMMA CallStepType ==
    ASSUME EngineTypeInv, NEW w \in Workers, NEW c \in Calls \cup {None},
           c # None => c.phase # "replied",
           call' = [call EXCEPT ![w] = c],
           UNCHANGED <<ledger, denied, reconciled, policy, consent>>
    PROVE  EngineTypeInv'
BY DEF EngineTypeInv, EngineTypeOK, RepliedHasTicket

LEMMA EvaluateType ==
    ASSUME TypeOK, RepliedHasTicket, NEW w \in Workers, Evaluate(w)
    PROVE  EngineTypeInv'
<1> DEFINE c == call[w]
           p == policy[HostOf[w]]
           s == StateFor(c.key, c.request, p, c.observed)
           why == Refusal(s, c.request, p, c.observed)
           e == Evaluated(s, p, c.key[1], c.observed)
<1>1. c \in Calls /\ p \in Policies
  BY WorkerAssumption DEF TypeOK, EngineTypeOK, Evaluate, Running
<1>2. c.key \in Keys /\ c.request \in Requests /\ c.observed \in Nat
  BY <1>1 DEF Calls
<1>3. e \in States
  BY <1>1, <1>2, StateForType, EvaluatedType DEF TypeOK
<1>4. why \in Reasons \cup {None}
  BY RefusalType
<1>5. /\ ledger' \in [Keys -> States \cup {None}]
      /\ denied' \in [Keys -> Reasons \cup {None}]
  BY <1>2, <1>3, <1>4 DEF Evaluate, Store, Deny, TypeOK, EngineTypeOK
<1> QED
  BY <1>5 DEF Evaluate, Finish, TypeOK, EngineTypeInv, EngineTypeOK, RepliedHasTicket

LEMMA AuthorizeType ==
    ASSUME TypeOK, RepliedHasTicket, NEW w \in Workers, Authorize(w)
    PROVE  EngineTypeInv'
<1> DEFINE c == call[w]
           p == policy[HostOf[w]]
           s == StateFor(c.key, c.request, p, c.observed)
           why == Refusal(s, c.request, p, c.observed)
           e == Evaluated(s, p, c.key[1], c.observed)
           refused == ReservationRefusal(e)
<1>1. c \in Calls /\ p \in Policies
  BY WorkerAssumption DEF TypeOK, EngineTypeOK, Authorize, Running
<1>2. c.key \in Keys /\ c.request \in Requests /\ c.observed \in Nat
  BY <1>1 DEF Calls
<1>3. e \in States
  BY <1>1, <1>2, StateForType, EvaluatedType DEF TypeOK
<1>4. why \in Reasons \cup {None} /\ refused \in Reasons \cup {None}
  BY RefusalType DEF ReservationRefusal, Reasons
<1>5. UNCHANGED <<reconciled, policy, consent>>
  BY DEF Authorize
<1>6. CASE why # None \/ refused # None
  <2>1. /\ ledger' \in [Keys -> States \cup {None}]
        /\ denied' \in [Keys -> Reasons \cup {None}]
        /\ call' = [call EXCEPT ![w] = None]
    <3>1. /\ ledger \in [Keys -> States \cup {None}]
          /\ denied \in [Keys -> Reasons \cup {None}]
      BY DEF TypeOK, EngineTypeOK
    <3>2. /\ call' = [call EXCEPT ![w] = None]
          /\ \/ why # None /\ Deny(c.key, why) /\ UNCHANGED ledger
             \/ refused # None /\ Deny(c.key, refused) /\ Store(c.key, e)
      BY <1>6 DEF Authorize, Finish
    <3> HIDE DEF c, p, s, why, e, refused
    <3> QED
      BY <1>2, <1>3, <1>4, <3>1, <3>2 DEF Store, Deny
  <2> QED
    BY <2>1, <1>5 DEF TypeOK, EngineTypeInv, EngineTypeOK, RepliedHasTicket
<1>7. CASE why = None /\ refused = None
  <2>1. PICK n \in Nonces, d \in Deadlines(e, c.observed) : Reserve(w, e, p, d, n)
    BY <1>7 DEF Authorize
  <2> DEFINE payload == [scope |-> c.key[1], request |-> e.request, policy |-> p,
                         issued_at |-> c.observed, expires_at |-> d, nonce |-> n]
  <2>2. payload \in Tickets
    BY <1>1, <1>2, <1>3, DeadlinesType DEF Tickets, Keys, States
  <2>3. ledger' = [ledger EXCEPT ![c.key] = [e EXCEPT !.status = "reserved", !.reservation = payload]]
    BY <2>1 DEF Reserve, Store
  <2>4. call' = [call EXCEPT ![w].phase = "replied", ![w].ticket = payload]
    BY <2>1 DEF Reserve
  <2> HIDE DEF payload, e
  <2>5. [e EXCEPT !.status = "reserved", !.reservation = payload] \in States
    BY <1>3, <2>2 DEF States
  <2>6. ledger' \in [Keys -> States \cup {None}]
    BY <2>3, <2>5, <1>2 DEF TypeOK, EngineTypeOK
  <2>7. call' \in [Workers -> Calls \cup {None}] /\ RepliedHasTicket'
    BY <2>2, <2>4, <1>1, AbsentAssumption DEF TypeOK, EngineTypeOK, RepliedHasTicket, Calls
  <2>8. UNCHANGED denied
    BY <1>7 DEF Authorize, e
  <2> QED
    BY <2>6, <2>7, <2>8, <1>5 DEF TypeOK, EngineTypeInv, EngineTypeOK
<1> QED
  BY <1>6, <1>7

LEMMA ApproveType ==
    ASSUME TypeOK, RepliedHasTicket, NEW w \in Workers, Approve(w)
    PROVE  EngineTypeInv'
<1> DEFINE c == call[w]
           p == policy[HostOf[w]]
           s == ledger[c.key]
           why == ApprovalRefusal(s, c, p)
           a == [s EXCEPT !.approvals = {ApprovalFact(s, c.observed)}, !.status = "approved"]
           late == Refusal(a, s.request, p, c.observed)
           e == Evaluated(a, p, c.key[1], c.observed)
<1>1. c \in Calls /\ p \in Policies
  BY WorkerAssumption DEF TypeOK, EngineTypeOK, Approve, Running
<1>2. c.key \in Keys /\ c.request \in Requests /\ c.observed \in Nat
  BY <1>1 DEF Calls
<1>3. why \in Reasons \cup {None} /\ late \in Reasons \cup {None}
  BY RefusalType DEF ApprovalRefusal, Reasons
<1>4. why = None => a \in States /\ e \in States
  <2>1. SUFFICES ASSUME why = None PROVE a \in States /\ e \in States
    OBVIOUS
  <2>2. s \in States
    <3>1. s # None
      BY <2>1, AbsentAssumption DEF ApprovalRefusal, Reasons
    <3> QED
      BY <3>1, <1>2 DEF TypeOK, EngineTypeOK
  <2>3. ApprovalFact(s, c.observed) \in Approvals
    BY <2>2, <1>2, DomainAssumption DEF ApprovalFact, Approvals, States, Decisions
  <2>4. a \in States
    BY <2>2, <2>3 DEF States
  <2> QED
    BY <2>4, <1>1, <1>2, EvaluatedType, StatesAreUndecided
<1>5. /\ ledger' \in [Keys -> States \cup {None}]
      /\ denied' \in [Keys -> Reasons \cup {None}]
      /\ consent' \in [Keys -> Requests \cup {None}]
  <2> HIDE DEF a, e, why, late
  <2>1. \/ UNCHANGED ledger
        \/ why = None /\ ledger' = [ledger EXCEPT ![c.key] = a]
        \/ why = None /\ ledger' = [ledger EXCEPT ![c.key] = e]
    BY DEF Approve, Store, a, e, why, late
  <2>2. \/ UNCHANGED denied
        \/ \E x \in Reasons \cup {None} : denied' = [denied EXCEPT ![c.key] = x]
    BY <1>3 DEF Approve, Deny, Reasons, a, e, why, late
  <2>3. UNCHANGED consent \/ consent' = [consent EXCEPT ![c.key] = c.request]
    BY DEF Approve
  <2> QED
    BY <2>1, <2>2, <2>3, <1>2, <1>4 DEF TypeOK, EngineTypeOK
<1> QED
  BY <1>5 DEF Approve, Finish, TypeOK, EngineTypeInv, EngineTypeOK, RepliedHasTicket

\* What the engine's steps keep.
LEMMA EngineStepType ==
    ASSUME TypeInv, EngineStep
    PROVE  EngineTypeInv'
<1> USE DEF TypeInv
<1>1. ASSUME NEW w \in Threads, ThreadStep(w) PROVE EngineTypeInv'
  <2>1. w \in Workers
    BY DEF Workers
  <2>2. ASSUME NEW scope \in Scopes, NEW r \in Requests, CallEvaluate(w, scope, r)
        PROVE  EngineTypeInv'
    <3> DEFINE c == NewCall("evaluate", KeyOf(scope, r), r, None)
    <3>1. c \in Calls
      BY KeyOfType, NewCallType DEF TypeOK
    <3>2. c.phase # "replied"
      BY DEF NewCall
    <3> QED
      BY <2>1, <2>2, <3>1, <3>2, CallStepType DEF CallEvaluate, TypeOK, EngineTypeInv
  <2>3. ASSUME NEW scope \in Scopes, NEW r \in Requests, CallAuthorize(w, scope, r)
        PROVE  EngineTypeInv'
    <3> DEFINE c == NewCall("authorize", KeyOf(scope, r), r, None)
    <3>1. c \in Calls
      BY KeyOfType, NewCallType DEF TypeOK
    <3>2. c.phase # "replied"
      BY DEF NewCall
    <3> QED
      BY <2>1, <2>3, <3>1, <3>2, CallStepType DEF CallAuthorize, TypeOK, EngineTypeInv
  <2>4. ASSUME NEW scope \in Scopes, NEW r \in Requests, NEW claim \in PresentedClaims,
               CallReconcile(w, scope, r, claim)
        PROVE  EngineTypeInv'
    <3> DEFINE c == NewCall("reconcile", KeyOf(scope, r), r, claim)
    <3>1. c \in Calls
      BY KeyOfType, NewCallType, PresentedClaimsType DEF TypeOK
    <3>2. c.phase # "replied"
      BY DEF NewCall
    <3> QED
      BY <2>1, <2>4, <3>1, <3>2, CallStepType DEF CallReconcile, TypeOK, EngineTypeInv
  <2>5. CASE Evaluate(w)
    BY <2>1, <2>5, EvaluateType
  <2>6. CASE Authorize(w)
    BY <2>1, <2>6, AuthorizeType
  <2>7. CASE Reconcile(w)
    <3>1. call[w] \in Calls
      BY <2>1, <2>7 DEF Reconcile, Running, TypeOK, EngineTypeOK
    <3>2. reconciled' \in [Keys -> BOOLEAN \cup {None}]
      BY <2>7, <3>1 DEF Reconcile, ClaimVerifies, TypeOK, EngineTypeOK, Calls
    <3> QED
      BY <2>7, <3>2 DEF Reconcile, Finish, TypeOK, EngineTypeInv, EngineTypeOK,
                        RepliedHasTicket
  <2> QED
    BY <1>1, <2>2, <2>3, <2>4, <2>5, <2>6, <2>7 DEF ThreadStep
<1>2. ASSUME NEW w \in Operators, OperatorStep(w) PROVE EngineTypeInv'
  <2>1. w \in Workers
    BY DEF Workers
  <2>2. ASSUME NEW k \in Keys, Inspect(w, k) PROVE EngineTypeInv'
    <3> DEFINE b == NewCall("approve", k, ledger[k].request, None)
               c == [b EXCEPT !.phase = "shown"]
    <3>1. ledger[k].request \in Requests
      BY <2>2 DEF Inspect, TypeOK, EngineTypeOK, States
    <3>2. b \in Calls
      BY <3>1, NewCallType DEF TypeOK
    <3> HIDE DEF b
    <3>3. c \in Calls /\ c.phase # "replied"
      BY <3>2 DEF Calls
    <3> QED
      BY <2>1, <2>2, <3>3, CallStepType DEF Inspect, TypeOK, EngineTypeInv, b
  <2>3. ASSUME NEW authentic \in BOOLEAN, CallApprove(w, authentic) PROVE EngineTypeInv'
    <3>1. call[w] \in Calls
      BY <2>1, <2>3 DEF CallApprove, TypeOK, EngineTypeOK
    <3> DEFINE c == [call[w] EXCEPT !.phase = "called", !.observed = clock,
                                    !.authentic = authentic]
    <3>2. c \in Calls /\ c.phase # "replied"
      BY <3>1 DEF TypeOK, Calls
    <3>3. call' = [call EXCEPT ![w] = c]
      BY <2>1, <2>3 DEF CallApprove, TypeOK, EngineTypeOK
    <3> QED
      BY <2>1, <2>3, <3>2, <3>3, CallStepType DEF CallApprove, TypeOK, EngineTypeInv
  <2>4. CASE Approve(w)
    BY <2>1, <2>4, ApproveType
  <2> QED
    BY <1>2, <2>2, <2>3, <2>4 DEF OperatorStep
<1>3. ASSUME NEW w \in Workers, GiveUp(w) PROVE EngineTypeInv'
  BY <1>3, CallStepType DEF GiveUp, Finish, TypeOK, EngineTypeInv
<1>4. ASSUME NEW h \in Hosts, NEW p \in Policies, Restart(h, p) PROVE EngineTypeInv'
  BY <1>4 DEF Restart, TypeOK, EngineTypeInv, EngineTypeOK, RepliedHasTicket
<1> QED
  BY <1>1, <1>2, <1>3, <1>4 DEF EngineStep

TargetTypeInv == TargetTypeOK /\ CommittedIsRecorded

\* What the target's steps keep.
LEMMA TargetStepType ==
    ASSUME TypeInv, TargetStep
    PROVE  TargetTypeInv'
<1> USE DEF TypeInv, TargetTypeInv
<1>1. ASSUME NEW u \in Servers, NEW t \in wire, NEW r \in Requests, Accept(u, r, t)
      PROVE  TargetTypeInv'
  <2> DEFINE v == [scope |-> t.scope, request |-> r, nonce |-> t.nonce, observed |-> clock,
                   outcome |-> TicketRefusal(r, t, clock)]
  <2>1. t \in Tickets
    BY DEF TypeOK
  <2>2. /\ TicketRefusal(r, t, clock) \in Outcomes \cup {None}
        /\ TicketRefusal(r, t, clock) # "committed"
    BY TargetAbsentAssumption DEF TicketRefusal, Outcomes
  <2>3. v \in Servings
    BY <2>1, <2>2 DEF TypeOK, Servings, Tickets
  <2> QED
    BY <1>1, <2>2, <2>3 DEF Accept, TypeOK, TargetTypeOK, CommittedIsRecorded
<1>2. ASSUME NEW u \in Servers, NEW scope \in Scopes, NEW r \in Requests,
             AcceptUnguarded(u, scope, r)
      PROVE  TargetTypeInv'
  <2> DEFINE v == [scope |-> scope, request |-> r, nonce |-> Unguarded, observed |-> clock,
                   outcome |-> None]
  <2>1. v \in Servings
    BY DEF TypeOK, Servings
  <2> QED
    BY <1>2, <2>1, TargetAbsentAssumption
       DEF AcceptUnguarded, TypeOK, TargetTypeOK, CommittedIsRecorded, Outcomes
<1>3. ASSUME NEW u \in Servers, Commit(u) PROVE TargetTypeInv'
  <2> DEFINE v == serving[u]
             k == KeyOf(v.scope, v.request)
             b == [scope |-> v.scope, request |-> v.request, nonce |-> v.nonce,
                   committed_at |-> v.observed]
  <2>1. v \in Servings
    BY <1>3 DEF Commit, TypeOK, TargetTypeOK
  <2>2. k \in Keys /\ b \in Receipts
    BY <2>1, KeyOfType DEF Servings, Receipts
  <2>3. b # None
    BY <2>2, TargetAbsentAssumption
  <2>4. CASE purchases[k] = None /\ purchases' = [purchases EXCEPT ![k] = b]
             /\ serving' = [serving EXCEPT ![u].outcome = "committed"]
    <3>1. TargetTypeOK'
      BY <1>3, <2>1, <2>2, <2>4 DEF Commit, TypeOK, TargetTypeOK, Servings, Outcomes
    <3>2. \A j \in Keys : purchases[j] # None \/ j = k => purchases'[j] # None
      BY <2>2, <2>3, <2>4 DEF TypeOK, TargetTypeOK
    <3> QED
      BY <2>1, <2>2, <2>4, <3>1, <3>2, KeyOfType
         DEF TypeOK, TargetTypeOK, CommittedIsRecorded, Servings
  <2>5. CASE /\ purchases[k] # None
             /\ serving' = [serving EXCEPT ![u].outcome = "committed"]
             /\ UNCHANGED purchases
    BY <1>3, <2>1, <2>5
       DEF Commit, TypeOK, TargetTypeOK, CommittedIsRecorded, Servings, Outcomes
  <2>6. CASE /\ serving' = [serving EXCEPT ![u].outcome = "target_idempotency_conflict"]
             /\ UNCHANGED purchases
    BY <1>3, <2>1, <2>6
       DEF Commit, TypeOK, TargetTypeOK, CommittedIsRecorded, Servings, Outcomes
  <2> QED
    BY <1>3, <2>4, <2>5, <2>6 DEF Commit, Previous
<1>4. ASSUME NEW u \in Servers, Answer(u) PROVE TargetTypeInv'
  <2>1. serving[u] \in Servings
    BY <1>4 DEF Answer, TypeOK, TargetTypeOK
  <2>2. receipts' \subseteq Receipts
    BY <1>4, <2>1, KeyOfType
       DEF Answer, TypeOK, TargetTypeOK, CommittedIsRecorded, Servings
  <2> QED
    BY <1>4, <2>2 DEF Answer, TypeOK, TargetTypeOK, CommittedIsRecorded
<1>5. ASSUME NEW u \in Servers, LoseCall(u) PROVE TargetTypeInv'
  BY <1>5 DEF LoseCall, TypeOK, TargetTypeOK, CommittedIsRecorded
<1> QED
  BY <1>1, <1>2, <1>3, <1>4, <1>5 DEF TargetStep

LEMMA TypeStep == TypeInv /\ [Next]_vars => TypeInv'
<1> SUFFICES ASSUME TypeInv, [Next]_vars PROVE TypeInv'
  OBVIOUS
<1> USE DEF TypeInv
<1>1. CASE Tick /\ UNCHANGED <<engineVars, targetVars, wire>>
  BY <1>1 DEF Tick, TypeOK, EngineTypeOK, TargetTypeOK, RepliedHasTicket,
              CommittedIsRecorded, engineVars, targetVars
<1>2. CASE EngineStep /\ UNCHANGED <<clock, targetVars, wire>>
  <2>1. EngineTypeInv'
    BY <1>2, EngineStepType
  <2>2. TargetTypeOK' /\ CommittedIsRecorded'
    BY <1>2 DEF TypeOK, TargetTypeOK, CommittedIsRecorded, targetVars
  <2> QED
    BY <1>2, <2>1, <2>2 DEF EngineTypeInv, TypeOK
<1>3. ASSUME NEW w \in Threads, Forward(w), UNCHANGED <<clock, targetVars>> PROVE TypeInv'
  <2>1. w \in Workers
    BY DEF Workers
  <2>2. call[w].ticket \in Tickets
    BY <1>3, <2>1 DEF Forward, Return, TypeOK, EngineTypeOK, RepliedHasTicket, Calls
  <2>3. EngineTypeInv'
    BY <1>3, <2>1 DEF Forward, Return, Finish, TypeOK, EngineTypeInv, EngineTypeOK,
                      RepliedHasTicket
  <2>4. TargetTypeOK' /\ CommittedIsRecorded'
    BY <1>3 DEF TypeOK, TargetTypeOK, CommittedIsRecorded, targetVars
  <2> QED
    BY <1>3, <2>2, <2>3, <2>4 DEF Forward, EngineTypeInv, TypeOK
<1>4. CASE TargetStep /\ UNCHANGED <<clock, engineVars, wire>>
  <2>1. TargetTypeInv'
    BY <1>4, TargetStepType
  <2>2. EngineTypeOK' /\ RepliedHasTicket'
    BY <1>4 DEF TypeOK, EngineTypeOK, RepliedHasTicket, engineVars
  <2> QED
    BY <1>4, <2>1, <2>2 DEF TargetTypeInv, TypeOK
<1>5. CASE UNCHANGED vars
  BY <1>5 DEF vars, TypeOK, EngineTypeOK, TargetTypeOK, RepliedHasTicket,
              CommittedIsRecorded, engineVars, targetVars
<1> QED
  BY <1>1, <1>2, <1>3, <1>4, <1>5 DEF Next

\* Every reachable state is well typed, whatever is interleaved, lost,
\* repeated or restarted.
THEOREM TypeCorrect == Spec => []TypeOK
<1>1. Spec => []TypeInv
  BY TypeInit, TypeStep, PTL DEF Spec
<1>2. TypeInv => TypeOK
  BY DEF TypeInv
<1> QED
  BY <1>1, <1>2, PTL

-----------------------------------------------------------------------------
(* What is stored under a key *)

\* A stored action is filed under its own key; it has a reservation exactly
\* when it is reserved, for its own request and policy, inside its window.
StoredOK(k, s) ==
    /\ KeyOf(k[1], s.request) = k
    /\ s.status = "reserved" <=> s.reservation # None
    /\ s.status = "reserved" =>
         /\ s.reservation.scope = k[1]
         /\ s.reservation.request = s.request
         /\ s.reservation.policy = s.policy
         /\ InActionWindow(s, s.reservation.issued_at)
         /\ s.reservation.expires_at <= s.first_seen + ActionTTL
         /\ Verdict(s.policy, s.request) # "block"

CallsKeyed ==
    \A w \in Workers :
        call[w] # None => KeyOf(call[w].key[1], call[w].request) = call[w].key

NoncesDiffer ==
    \A j, k \in Keys :
        /\ Reserved(j) /\ Reserved(k)
        /\ ledger[j].reservation.nonce = ledger[k].reservation.nonce
        => j = k

StoredInv ==
    /\ \A k \in Keys : ledger[k] # None => StoredOK(k, ledger[k])
    /\ CallsKeyed
    /\ NoncesDiffer

LEMMA StoredInit == Init => StoredInv
BY DEF Init, EngineInit, StoredInv, CallsKeyed, NoncesDiffer, Reserved

\* What no write to a key disturbs: once filed, an action keeps its request,
\* policy and first instant; once reserved, everything but its decision.
Keeps(s, new) ==
    /\ new # None
    /\ new.request = s.request /\ new.policy = s.policy /\ new.first_seen = s.first_seen
    /\ s.status = "reserved" =>
         /\ new.status = "reserved"
         /\ new.reservation = s.reservation
         /\ new.approvals = s.approvals

LedgerKept == \A k \in Keys : ledger[k] # None => Keeps(ledger[k], ledger'[k])

\* A write that may be made: it files the action under its key, keeps what was
\* there, and if it reserves, it does so with a nonce no other key has.
Writes(k, new) ==
    /\ new \in States
    /\ StoredOK(k, new)
    /\ ledger[k] # None => Keeps(ledger[k], new)
    /\ \/ new.status # "reserved"
       \/ Reserved(k) /\ new.reservation = ledger[k].reservation
       \/ new.reservation.nonce \notin ReservedNonces
    /\ ledger' = [ledger EXCEPT ![k] = new]

LEMMA WritesStored ==
    ASSUME TypeOK, StoredInv, NEW k \in Keys, NEW new, Writes(k, new)
    PROVE  /\ \A j \in Keys : ledger'[j] # None => StoredOK(j, ledger'[j])
           /\ NoncesDiffer'
           /\ LedgerKept
<1>1. \A j \in Keys : ledger'[j] = IF j = k THEN new ELSE ledger[j]
  BY DEF Writes, TypeOK, EngineTypeOK
<1>2. \A j \in Keys : ledger'[j] # None => StoredOK(j, ledger'[j])
  BY <1>1 DEF Writes, StoredInv
<1>3. LedgerKept
  BY <1>1 DEF Writes, LedgerKept, Keeps
<1>4. ASSUME NEW i \in Keys, NEW j \in Keys, Reserved(i)', Reserved(j)',
             ledger'[i].reservation.nonce = ledger'[j].reservation.nonce
      PROVE  i = j
  <2> SUFFICES ASSUME i # j PROVE FALSE
    OBVIOUS
  <2>1. CASE i # k /\ j # k
    BY <2>1, <1>1, <1>4 DEF StoredInv, NoncesDiffer, Reserved
  <2>2. ASSUME NEW x \in Keys, x # k, Reserved(x), new.status = "reserved",
               ledger[x].reservation.nonce = new.reservation.nonce
        PROVE  FALSE
    <3>1. new.reservation.nonce \in ReservedNonces
      BY <2>2 DEF ReservedNonces, Reserved
    <3>2. Reserved(k) /\ new.reservation = ledger[k].reservation
      BY <2>2, <3>1 DEF Writes
    <3> QED
      BY <2>2, <3>2 DEF StoredInv, NoncesDiffer
  <2>3. CASE i = k
    BY <2>2, <2>3, <1>1, <1>4 DEF Reserved
  <2>4. CASE j = k
    BY <2>2, <2>4, <1>1, <1>4 DEF Reserved
  <2> QED
    BY <2>1, <2>3, <2>4
<1> QED
  BY <1>2, <1>3, <1>4 DEF NoncesDiffer

\* Evaluating what _evaluate starts from is such a write.
LEMMA EvaluatedWrite ==
    ASSUME TypeOK, StoredInv, NEW k \in Keys, NEW r \in Requests, NEW p \in Policies,
           NEW now \in Nat, KeyOf(k[1], r) = k
    PROVE  LET s == StateFor(k, r, p, now)
               e == Evaluated(s, p, k[1], now)
           IN  /\ e \in States
               /\ StoredOK(k, e)
               /\ ledger[k] # None => Keeps(ledger[k], e)
               /\ e.status = "reserved" => Reserved(k) /\ e.reservation = ledger[k].reservation
<1> DEFINE s == StateFor(k, r, p, now)
           e == Evaluated(s, p, k[1], now)
<1>1. s \in Undecided
  BY StateForType DEF TypeOK
<1>2. /\ e \in States
      /\ e.request = s.request /\ e.first_seen = s.first_seen
      /\ e.policy = s.policy /\ e.status = s.status
      /\ e.approvals = s.approvals /\ e.reservation = s.reservation
  BY <1>1, EvaluatedType
<1>3. e # None
  BY <1>2, AbsentAssumption
<1> HIDE DEF e
<1>4. CASE ledger[k] # None
  <2>1. s = ledger[k]
    BY <1>4 DEF StateFor
  <2>2. StoredOK(k, s)
    BY <1>4, <2>1 DEF StoredInv
  <2>3. StoredOK(k, e)
    BY <1>2, <2>2 DEF StoredOK, InActionWindow
  <2> QED
    BY <1>2, <1>3, <1>4, <2>1, <2>3 DEF Keeps, Reserved, e
<1>5. CASE ledger[k] = None
  <2>1. s.request = r /\ s.status = "pending" /\ s.reservation = None
    BY <1>5 DEF StateFor
  <2> QED
    BY <1>2, <1>5, <2>1 DEF StoredOK, e
<1> QED
  BY <1>4, <1>5

\* An evaluation that allows was not blocked by the policy.
LEMMA AllowedIsNotBlocked ==
    ASSUME NEW s \in Undecided, NEW p \in Policies, NEW scope, NEW now \in Nat,
           Evaluated(s, p, scope, now).decision.verdict = "allow"
    PROVE  Verdict(p, s.request) # "block"
<1> DEFINE v == IF Verdict(p, s.request) # "require_approval" THEN Verdict(p, s.request)
                ELSE IF {f \in s.approvals : ApprovalMatches(f, now)} = {}
                     THEN "require_approval"
                ELSE IF scope \in OperatorScopes THEN "block" ELSE "allow"
<1>1. Evaluated(s, p, scope, now) = [s EXCEPT !.decision = [verdict |-> v, evaluated_at |-> now]]
  BY DEF Evaluated
<1>2. v = "block" \/ Verdict(p, s.request) # "block"
  OBVIOUS
<1> HIDE DEF v
<1>3. Evaluated(s, p, scope, now).decision.verdict = v
  BY <1>1 DEF Undecided
<1> QED
  BY <1>2, <1>3

\* Every write of the engine is such a write; a call that was replied to has
\* the reservation just made as its ticket.
LEMMA EvaluateWrites ==
    ASSUME TypeInv, StoredInv, NEW w \in Workers, Evaluate(w)
    PROVE  UNCHANGED ledger \/ \E new : Writes(call[w].key, new)
<1> DEFINE c == call[w]
           p == policy[HostOf[w]]
           e == Evaluated(StateFor(c.key, c.request, p, c.observed), p, c.key[1], c.observed)
<1>1. c \in Calls /\ p \in Policies /\ KeyOf(c.key[1], c.request) = c.key
  BY WorkerAssumption DEF TypeInv, TypeOK, EngineTypeOK, Evaluate, Running, StoredInv, CallsKeyed
<1>2. c.key \in Keys /\ c.request \in Requests /\ c.observed \in Nat
  BY <1>1 DEF Calls
<1>3. UNCHANGED ledger \/ ledger' = [ledger EXCEPT ![c.key] = e]
  BY DEF Evaluate, Store
<1>4. /\ e \in States /\ StoredOK(c.key, e)
      /\ ledger[c.key] # None => Keeps(ledger[c.key], e)
      /\ e.status = "reserved" => Reserved(c.key) /\ e.reservation = ledger[c.key].reservation
  BY <1>1, <1>2, EvaluatedWrite DEF TypeInv
<1> QED
  BY <1>3, <1>4 DEF Writes

LEMMA AuthorizeWrites ==
    ASSUME TypeInv, StoredInv, NEW w \in Workers, Authorize(w)
    PROVE  \/ UNCHANGED ledger /\ Finish(w)
           \/ (\E new : Writes(call[w].key, new)) /\ Finish(w)
           \/ \E new \in States, t \in Tickets :
                /\ Writes(call[w].key, new)
                /\ new.status = "reserved" /\ new.reservation = t
                /\ call' = [call EXCEPT ![w].phase = "replied", ![w].ticket = t]
<1> DEFINE c == call[w]
           p == policy[HostOf[w]]
           s == StateFor(c.key, c.request, p, c.observed)
           e == Evaluated(s, p, c.key[1], c.observed)
<1>1. c \in Calls /\ p \in Policies /\ KeyOf(c.key[1], c.request) = c.key
  BY WorkerAssumption DEF TypeInv, TypeOK, EngineTypeOK, Authorize, Running, StoredInv, CallsKeyed
<1>2. c.key \in Keys /\ c.request \in Requests /\ c.observed \in Nat
  BY <1>1 DEF Calls
<1>3. /\ e \in States /\ StoredOK(c.key, e)
      /\ ledger[c.key] # None => Keeps(ledger[c.key], e)
      /\ e.status = "reserved" => Reserved(c.key) /\ e.reservation = ledger[c.key].reservation
  BY <1>1, <1>2, EvaluatedWrite DEF TypeInv
<1>4. CASE Refusal(s, c.request, p, c.observed) # None
  BY <1>4 DEF Authorize
<1>5. CASE Refusal(s, c.request, p, c.observed) = None /\ ReservationRefusal(e) # None
  <2>1. ledger' = [ledger EXCEPT ![c.key] = e] /\ Finish(w)
    BY <1>5 DEF Authorize, Store
  <2> QED
    BY <1>3, <2>1 DEF Writes
<1>6. CASE Refusal(s, c.request, p, c.observed) = None /\ ReservationRefusal(e) = None
  <2>1. PICK n \in Nonces \ ReservedNonces, d \in Deadlines(e, c.observed) :
               /\ \A other \in Deadlines(e, c.observed) : d <= other
               /\ Reserve(w, e, p, d, n)
    BY <1>6 DEF Authorize
  <2> DEFINE t == [scope |-> c.key[1], request |-> e.request, policy |-> p,
                   issued_at |-> c.observed, expires_at |-> d, nonce |-> n]
             new == [e EXCEPT !.status = "reserved", !.reservation = t]
  <2>2. /\ ledger' = [ledger EXCEPT ![c.key] = new]
        /\ call' = [call EXCEPT ![w].phase = "replied", ![w].ticket = t]
    BY <2>1 DEF Reserve, Store
  <2>3. s \in Undecided
    BY <1>1, <1>2, StateForType DEF TypeInv, TypeOK
  <2>4. /\ e.request = s.request /\ e.first_seen = s.first_seen /\ e.policy = s.policy
    BY <1>1, <1>2, <2>3, EvaluatedType
  <2>5. s.request = c.request /\ s.policy = p /\ InActionWindow(s, c.observed)
    BY <1>6, AbsentAssumption DEF Refusal, Reasons
  <2>6. e.status # "reserved" /\ e.decision.verdict = "allow"
    <3> HIDE DEF e
    <3> QED
      BY <1>3, <1>6, AbsentAssumption DEF ReservationRefusal, Reasons, States, Decisions, Verdicts
  <2>7. Verdict(p, e.request) # "block"
    BY <1>1, <1>2, <2>3, <2>4, <2>6, AllowedIsNotBlocked
  <2>8. d <= e.first_seen + ActionTTL
    BY <2>1 DEF Deadlines
  <2>9. t \in Tickets
    BY <1>1, <1>2, <1>3, <2>1, DeadlinesType DEF Tickets, Keys, States
  <2> HIDE DEF e, t
  <2>10. new \in States /\ new # None /\ t # None
    BY <1>3, <2>9, AbsentAssumption DEF States
  <2>11. /\ new.request = e.request /\ new.policy = e.policy /\ new.first_seen = e.first_seen
         /\ new.status = "reserved" /\ new.reservation = t
    BY <1>3 DEF States
  <2>12. /\ t.scope = c.key[1] /\ t.request = e.request /\ t.policy = p
         /\ t.issued_at = c.observed /\ t.expires_at = d /\ t.nonce = n
    BY DEF t
  <2> HIDE DEF new
  <2>13. StoredOK(c.key, new)
    <3>1. InActionWindow(new, t.issued_at)
      BY <2>4, <2>5, <2>11, <2>12 DEF InActionWindow
    <3> QED
      BY <1>3, <2>4, <2>5, <2>7, <2>8, <2>10, <2>11, <2>12, <3>1 DEF StoredOK
  <2>14. ledger[c.key] # None => Keeps(ledger[c.key], new)
    BY <1>3, <2>6, <2>10, <2>11 DEF Keeps
  <2>15. Writes(c.key, new)
    BY <2>1, <2>2, <2>10, <2>11, <2>12, <2>13, <2>14 DEF Writes
  <2> QED
    BY <2>2, <2>9, <2>10, <2>11, <2>15
<1> QED
  BY <1>4, <1>5, <1>6

LEMMA ApproveWrites ==
    ASSUME TypeInv, StoredInv, NEW w \in Workers, Approve(w)
    PROVE  UNCHANGED ledger \/ \E new : Writes(call[w].key, new)
<1> DEFINE c == call[w]
           p == policy[HostOf[w]]
           s == ledger[c.key]
           a == [s EXCEPT !.approvals = {ApprovalFact(s, c.observed)}, !.status = "approved"]
           e == Evaluated(a, p, c.key[1], c.observed)
<1>1. c \in Calls /\ p \in Policies
  BY WorkerAssumption DEF TypeInv, TypeOK, EngineTypeOK, Approve, Running
<1>2. c.key \in Keys /\ c.observed \in Nat
  BY <1>1 DEF Calls
<1>3. CASE ApprovalRefusal(s, c, p) # None
  BY <1>3 DEF Approve
<1>4. CASE ApprovalRefusal(s, c, p) = None
  <2>1. s # None /\ s.status = "pending"
    BY <1>4, AbsentAssumption DEF ApprovalRefusal, Reasons
  <2>2. s \in States /\ StoredOK(c.key, s)
    BY <1>2, <2>1 DEF TypeInv, TypeOK, EngineTypeOK, StoredInv
  <2>3. ApprovalFact(s, c.observed) \in Approvals
    BY <2>2, <1>2, DomainAssumption DEF ApprovalFact, Approvals, States, Decisions
  <2>4. /\ a \in States
        /\ a.request = s.request /\ a.policy = s.policy /\ a.first_seen = s.first_seen
        /\ a.status = "approved" /\ a.reservation = s.reservation
    BY <2>2, <2>3 DEF States
  <2> HIDE DEF a
  <2>5. /\ e \in States
        /\ e.request = s.request /\ e.policy = s.policy /\ e.first_seen = s.first_seen
        /\ e.status = "approved" /\ e.reservation = s.reservation
    BY <1>1, <1>2, <2>4, EvaluatedType, StatesAreUndecided
  <2>6. ledger' = [ledger EXCEPT ![c.key] = a] \/ ledger' = [ledger EXCEPT ![c.key] = e]
    BY <1>4 DEF Approve, Store, a
  <2> HIDE DEF e
  <2>7. ASSUME NEW new \in States,
               new.request = s.request, new.policy = s.policy, new.first_seen = s.first_seen,
               new.status = "approved", new.reservation = s.reservation,
               ledger' = [ledger EXCEPT ![c.key] = new]
        PROVE  Writes(c.key, new)
    <3>1. StoredOK(c.key, new)
      BY <2>1, <2>2, <2>7 DEF StoredOK
    <3>2. new # None
      BY <2>7, AbsentAssumption
    <3>3. Keeps(s, new)
      BY <2>1, <2>7, <3>2 DEF Keeps
    <3> QED
      BY <2>7, <3>1, <3>3 DEF Writes
  <2> QED
    BY <2>4, <2>5, <2>6, <2>7
<1> QED
  BY <1>3, <1>4

-----------------------------------------------------------------------------
(* What an engine step does to the ledger and to the calls *)

\* The ticket is the reservation stored under its own key.
TicketIsReservation(t) ==
    /\ Reserved(KeyOf(t.scope, t.request))
    /\ ledger[KeyOf(t.scope, t.request)].reservation = t

\* A call stays the call it was, ends, or is a new one about the key of its
\* request; it is replied to with a reservation.
CallFollows(w) ==
    call'[w] # None =>
        /\ \/ /\ call[w] # None
              /\ call'[w].key = call[w].key /\ call'[w].request = call[w].request
              /\ call'[w].claim = call[w].claim
           \/ /\ KeyOf(call'[w].key[1], call'[w].request) = call'[w].key
              /\ call'[w].claim \in PresentedClaims
        /\ call'[w].phase = "replied" =>
              \/ /\ call[w] # None /\ call[w].phase = "replied"
                 /\ call'[w].ticket = call[w].ticket
              \/ TicketIsReservation(call[w].ticket)'

EngineEffect ==
    /\ UNCHANGED ledger \/ \E k \in Keys, new \in States : Writes(k, new)
    /\ \A w \in Workers : CallFollows(w)

\* A step that replaces one worker's call by a new one or by none.
LEMMA CallStepEffect ==
    ASSUME TypeInv, NEW w \in Workers, NEW c, call' = [call EXCEPT ![w] = c],
           \/ c = None
           \/ /\ c.phase # "replied"
              /\ KeyOf(c.key[1], c.request) = c.key
              /\ c.claim \in PresentedClaims
    PROVE  \A v \in Workers : CallFollows(v)
BY DEF TypeInv, TypeOK, EngineTypeOK, CallFollows

LEMMA NewCallFields ==
    ASSUME NEW op, NEW k, NEW r, NEW claim
    PROVE  LET c == NewCall(op, k, r, claim)
           IN  c.phase = "called" /\ c.key = k /\ c.request = r /\ c.claim = claim
BY DEF NewCall

LEMMA KeyOfScope ==
    ASSUME NEW scope, NEW r
    PROVE  KeyOf(KeyOf(scope, r)[1], r) = KeyOf(scope, r)
BY DEF KeyOf

LEMMA ThreadStepEffect ==
    ASSUME TypeInv, StoredInv, NEW w \in Threads, ThreadStep(w)
    PROVE  EngineEffect
<1>1. w \in Workers
  BY DEF Workers
<1>2. None \in PresentedClaims
  BY DEF PresentedClaims
<1>3. ASSUME call[w] # None, call[w].phase = "called" PROVE call[w].key \in Keys
  BY <1>1, <1>3 DEF TypeInv, TypeOK, EngineTypeOK, Calls
<1>4. ASSUME NEW scope \in Scopes, NEW r \in Requests, CallEvaluate(w, scope, r)
      PROVE  EngineEffect
  <2> DEFINE c == NewCall("evaluate", KeyOf(scope, r), r, None)
  <2>1. call' = [call EXCEPT ![w] = c] /\ UNCHANGED ledger
    BY <1>4 DEF CallEvaluate
  <2>2. c.phase # "replied" /\ KeyOf(c.key[1], c.request) = c.key /\ c.claim \in PresentedClaims
    BY <1>2, NewCallFields, KeyOfScope
  <2> HIDE DEF c
  <2> QED
    BY <1>1, <2>1, <2>2, CallStepEffect DEF EngineEffect
<1>5. ASSUME NEW scope \in Scopes, NEW r \in Requests, CallAuthorize(w, scope, r)
      PROVE  EngineEffect
  <2> DEFINE c == NewCall("authorize", KeyOf(scope, r), r, None)
  <2>1. call' = [call EXCEPT ![w] = c] /\ UNCHANGED ledger
    BY <1>5 DEF CallAuthorize
  <2>2. c.phase # "replied" /\ KeyOf(c.key[1], c.request) = c.key /\ c.claim \in PresentedClaims
    BY <1>2, NewCallFields, KeyOfScope
  <2> HIDE DEF c
  <2> QED
    BY <1>1, <2>1, <2>2, CallStepEffect DEF EngineEffect
<1>6. ASSUME NEW scope \in Scopes, NEW r \in Requests, NEW claim \in PresentedClaims,
             CallReconcile(w, scope, r, claim)
      PROVE  EngineEffect
  <2> DEFINE c == NewCall("reconcile", KeyOf(scope, r), r, claim)
  <2>1. call' = [call EXCEPT ![w] = c] /\ UNCHANGED ledger
    BY <1>6 DEF CallReconcile
  <2>2. c.phase # "replied" /\ KeyOf(c.key[1], c.request) = c.key /\ c.claim \in PresentedClaims
    BY NewCallFields, KeyOfScope
  <2> HIDE DEF c
  <2> QED
    BY <1>1, <2>1, <2>2, CallStepEffect DEF EngineEffect
<1>7. CASE Evaluate(w)
  <2>1. \A v \in Workers : CallFollows(v)
    BY <1>1, <1>7, CallStepEffect DEF Evaluate, Finish
  <2> QED
    BY <1>1, <1>3, <1>7, <2>1, EvaluateWrites DEF EngineEffect, Writes, Evaluate, Running
<1>8. CASE Authorize(w)
  <2>1. call[w] # None /\ call[w].key \in Keys
    BY <1>3, <1>8 DEF Authorize, Running
  <2>2. CASE Finish(w)
    <3>1. \A v \in Workers : CallFollows(v)
      BY <1>1, <2>2, CallStepEffect DEF Finish
    <3>2. UNCHANGED ledger \/ \E new \in States : Writes(call[w].key, new)
      BY <1>1, <1>8, AuthorizeWrites DEF Writes
    <3> QED
      BY <2>1, <3>1, <3>2 DEF EngineEffect
  <2>3. CASE \E new \in States, t \in Tickets :
               /\ Writes(call[w].key, new)
               /\ new.status = "reserved" /\ new.reservation = t
               /\ call' = [call EXCEPT ![w].phase = "replied", ![w].ticket = t]
    <3>1. PICK new \in States, t \in Tickets :
                 /\ Writes(call[w].key, new)
                 /\ new.status = "reserved" /\ new.reservation = t
                 /\ call' = [call EXCEPT ![w].phase = "replied", ![w].ticket = t]
      BY <2>3
    <3>2. call[w] \in Calls
      BY <1>1, <2>1 DEF TypeInv, TypeOK, EngineTypeOK
    <3>3. /\ \A v \in Workers \ {w} : call'[v] = call[v]
          /\ call'[w].key = call[w].key /\ call'[w].request = call[w].request
          /\ call'[w].claim = call[w].claim /\ call'[w].ticket = t
      BY <1>1, <3>1, <3>2 DEF TypeInv, TypeOK, EngineTypeOK, Calls
    <3>4. TicketIsReservation(t)'
      <4>1. KeyOf(t.scope, t.request) = call[w].key
        BY <3>1 DEF Writes, StoredOK, KeyOf
      <4>2. ledger'[call[w].key] = new /\ new # None
        BY <2>1, <3>1, AbsentAssumption DEF Writes, TypeInv, TypeOK, EngineTypeOK
      <4> QED
        BY <3>1, <4>1, <4>2 DEF TicketIsReservation, Reserved
    <3>5. \A v \in Workers : CallFollows(v)
      BY <2>1, <3>3, <3>4 DEF CallFollows
    <3> QED
      BY <2>1, <3>1, <3>5 DEF EngineEffect
  <2> QED
    BY <1>1, <1>8, <2>2, <2>3, AuthorizeWrites
<1>9. CASE Reconcile(w)
  BY <1>1, <1>9, CallStepEffect DEF Reconcile, Finish, EngineEffect
<1> QED
  BY <1>4, <1>5, <1>6, <1>7, <1>8, <1>9 DEF ThreadStep

LEMMA OperatorStepEffect ==
    ASSUME TypeInv, StoredInv, NEW w \in Operators, OperatorStep(w)
    PROVE  EngineEffect
<1>1. w \in Workers
  BY DEF Workers
<1>2. ASSUME NEW k \in Keys, Inspect(w, k) PROVE EngineEffect
  <2> DEFINE b == NewCall("approve", k, ledger[k].request, None)
             c == [b EXCEPT !.phase = "shown"]
  <2>1. call' = [call EXCEPT ![w] = c] /\ UNCHANGED ledger /\ ledger[k] # None
    BY <1>2 DEF Inspect
  <2>2. c.phase = "shown" /\ c.key = k /\ c.request = ledger[k].request /\ c.claim = None
    BY DEF NewCall
  <2>3. KeyOf(c.key[1], c.request) = c.key
    BY <2>1, <2>2 DEF StoredInv, StoredOK
  <2>4. c.claim \in PresentedClaims
    BY <2>2 DEF PresentedClaims
  <2> HIDE DEF c
  <2> QED
    BY <1>1, <2>1, <2>2, <2>3, <2>4, CallStepEffect DEF EngineEffect
<1>3. ASSUME NEW authentic \in BOOLEAN, CallApprove(w, authentic) PROVE EngineEffect
  <2>1. call[w] \in Calls /\ call[w] # None
    BY <1>1, <1>3 DEF CallApprove, TypeInv, TypeOK, EngineTypeOK
  <2>2. /\ \A v \in Workers \ {w} : call'[v] = call[v]
        /\ call'[w].key = call[w].key /\ call'[w].request = call[w].request
        /\ call'[w].claim = call[w].claim /\ call'[w].phase = "called"
    BY <1>1, <1>3, <2>1 DEF CallApprove, TypeInv, TypeOK, EngineTypeOK, Calls
  <2> QED
    BY <1>3, <2>1, <2>2 DEF CallApprove, CallFollows, EngineEffect
<1>4. CASE Approve(w)
  <2>1. call[w].key \in Keys
    BY <1>1, <1>4 DEF Approve, Running, TypeInv, TypeOK, EngineTypeOK, Calls
  <2>2. \A v \in Workers : CallFollows(v)
    BY <1>1, <1>4, CallStepEffect DEF Approve, Finish
  <2> QED
    BY <1>1, <1>4, <2>1, <2>2, ApproveWrites DEF EngineEffect, Writes
<1> QED
  BY <1>2, <1>3, <1>4 DEF OperatorStep

LEMMA EngineStepEffect ==
    ASSUME TypeInv, StoredInv, EngineStep
    PROVE  EngineEffect
<1>1. ASSUME NEW w \in Workers, GiveUp(w) PROVE EngineEffect
  BY <1>1, CallStepEffect DEF GiveUp, Finish, EngineEffect
<1>2. ASSUME NEW h \in Hosts, NEW p \in Policies, Restart(h, p) PROVE EngineEffect
  BY <1>2 DEF Restart, EngineEffect, CallFollows
<1> QED
  BY <1>1, <1>2, ThreadStepEffect, OperatorStepEffect DEF EngineStep

\* So does every step of the system.
LEMMA NextEffect ==
    ASSUME TypeInv, StoredInv, [Next]_vars
    PROVE  EngineEffect
<1>1. CASE UNCHANGED <<ledger, call>>
  BY <1>1 DEF EngineEffect, CallFollows
<1>2. ASSUME NEW w \in Threads, Forward(w), UNCHANGED <<clock, targetVars>>
      PROVE  EngineEffect
  <2>1. w \in Workers
    BY DEF Workers
  <2> QED
    BY <1>2, <2>1, CallStepEffect DEF Forward, Return, Finish, EngineEffect
<1> QED
  BY <1>1, <1>2, EngineStepEffect DEF Next, vars, engineVars

\* What a step keeps of the stored actions.
LEMMA StoredStep ==
    ASSUME TypeInv, StoredInv, [Next]_vars
    PROVE  StoredInv' /\ LedgerKept
<1>1. EngineEffect
  BY NextEffect
<1>2. CallsKeyed'
  BY <1>1 DEF EngineEffect, CallFollows, StoredInv, CallsKeyed
<1>3. CASE UNCHANGED ledger
  <2>1. (\A k \in Keys : ledger[k] # None => StoredOK(k, ledger[k]))' /\ NoncesDiffer'
    BY <1>3 DEF StoredInv, NoncesDiffer, Reserved
  <2>2. LedgerKept
    BY <1>3 DEF LedgerKept, Keeps
  <2> QED
    BY <1>2, <2>1, <2>2 DEF StoredInv
<1>4. CASE \E k \in Keys, new \in States : Writes(k, new)
  <2>1. PICK k \in Keys, new \in States : Writes(k, new)
    BY <1>4
  <2>2. /\ \A j \in Keys : ledger'[j] # None => StoredOK(j, ledger'[j])
        /\ NoncesDiffer'
        /\ LedgerKept
    BY <2>1, WritesStored DEF TypeInv
  <2> QED
    BY <1>2, <2>2 DEF StoredInv
<1> QED
  BY <1>1, <1>3, <1>4 DEF EngineEffect

-----------------------------------------------------------------------------
(* Tickets *)

TicketInv ==
    /\ \A t \in wire : TicketIsReservation(t)
    /\ \A w \in Workers :
         call[w] # None /\ call[w].phase = "replied" => TicketIsReservation(call[w].ticket)

LEMMA TicketInit == Init => TicketInv
BY DEF Init, EngineInit, TicketInv

\* A reservation that is there stays.
LEMMA ReservationStays ==
    ASSUME TypeInv, LedgerKept, NEW k \in Keys, Reserved(k)
    PROVE  /\ Reserved(k)'
           /\ ledger'[k].reservation = ledger[k].reservation
           /\ ledger'[k].request = ledger[k].request
           /\ ledger'[k].policy = ledger[k].policy
           /\ ledger'[k].approvals = ledger[k].approvals
BY DEF LedgerKept, Keeps, Reserved

LEMMA TicketStays ==
    ASSUME TypeInv, LedgerKept, NEW t \in Tickets, TicketIsReservation(t)
    PROVE  TicketIsReservation(t)'
<1>1. KeyOf(t.scope, t.request) \in Keys
  BY KeyOfType DEF Tickets
<1> QED
  BY <1>1, ReservationStays DEF TicketIsReservation

LEMMA TicketStep ==
    ASSUME TypeInv, StoredInv, TicketInv, [Next]_vars
    PROVE  TicketInv'
<1>1. EngineEffect /\ LedgerKept
  BY NextEffect, StoredStep
<1>2. ASSUME NEW t \in wire' PROVE TicketIsReservation(t)'
  <2>1. t \in wire \/ \E w \in Workers : /\ call[w] # None /\ call[w].phase = "replied"
                                        /\ t = call[w].ticket
    BY DEF Next, vars, Forward, Return, Workers
  <2>2. t \in Tickets /\ TicketIsReservation(t)
    BY <2>1 DEF TypeInv, TypeOK, EngineTypeOK, RepliedHasTicket, Calls, TicketInv
  <2> QED
    BY <1>1, <2>2, TicketStays
<1>3. ASSUME NEW w \in Workers, call'[w] # None, call'[w].phase = "replied"
      PROVE  TicketIsReservation(call[w].ticket)'
  <2>1. CASE /\ call[w] # None /\ call[w].phase = "replied"
             /\ call'[w].ticket = call[w].ticket
    <3>1. call[w].ticket \in Tickets /\ TicketIsReservation(call[w].ticket)
      BY <2>1 DEF TypeInv, TypeOK, EngineTypeOK, RepliedHasTicket, Calls, TicketInv
    <3>2. ASSUME NEW t \in Tickets, TicketIsReservation(t) PROVE TicketIsReservation(t)'
      BY <1>1, <3>2, TicketStays
    <3>3. PICK t \in Tickets : t = call[w].ticket /\ TicketIsReservation(t)'
      BY <3>1, <3>2
    <3> QED
      BY <2>1, <3>3 DEF TicketIsReservation, Reserved
  <2> QED
    BY <1>1, <1>3, <2>1 DEF EngineEffect, CallFollows
<1> QED
  BY <1>2, <1>3 DEF TicketInv

\* No two tickets for one key, no nonce for two keys.
LEMMA TicketsAreUnique == TypeInv /\ StoredInv /\ TicketInv => OneTicketPerKey
<1> SUFFICES ASSUME TypeInv, StoredInv, TicketInv, NEW t1 \in Minted, NEW t2 \in Minted,
                    \/ KeyOf(t1.scope, t1.request) = KeyOf(t2.scope, t2.request)
                    \/ t1.nonce = t2.nonce
             PROVE  t1 = t2
  BY DEF OneTicketPerKey
<1>1. ASSUME NEW t \in Minted PROVE t \in Tickets /\ TicketIsReservation(t)
  <2>1. CASE t \in wire
    BY <2>1 DEF TypeInv, TypeOK, TicketInv
  <2>2. CASE \E w \in Workers : call[w] # None /\ call[w].phase = "replied" /\ t = call[w].ticket
    BY <2>2 DEF TypeInv, TypeOK, EngineTypeOK, RepliedHasTicket, Calls, TicketInv
  <2> QED
    BY <2>1, <2>2 DEF Minted, Workers
<1>2. KeyOf(t1.scope, t1.request) \in Keys /\ KeyOf(t2.scope, t2.request) \in Keys
  BY <1>1, KeyOfType DEF Tickets
<1> QED
  BY <1>1, <1>2 DEF TicketIsReservation, StoredInv, NoncesDiffer

-----------------------------------------------------------------------------
(* Purchases and receipts *)

\* A guarded purchase b made, or about to be made, under a key is the one its
\* reservation is for, inside the reservation's window.
IsReserved(k, nonce, request, instant) ==
    /\ Reserved(k)
    /\ nonce = ledger[k].reservation.nonce
    /\ request = ledger[k].request
    /\ ledger[k].reservation.issued_at <= instant
    /\ instant < ledger[k].reservation.expires_at

ServingIsReserved ==
    \A u \in Servers :
        serving[u] # None /\ serving[u].outcome = None /\ serving[u].nonce # Unguarded =>
            IsReserved(KeyOf(serving[u].scope, serving[u].request),
                       serving[u].nonce, serving[u].request, serving[u].observed)

PurchasesKeyed ==
    \A k \in Keys :
        purchases[k] # None => KeyOf(purchases[k].scope, purchases[k].request) = k

ReceiptsArePurchases ==
    \A b \in receipts : purchases[KeyOf(b.scope, b.request)] = b

SignedClaimsAreReceipts ==
    \A w \in Workers :
        call[w] # None /\ call[w].claim # None =>
            (call[w].claim.signed => call[w].claim.body \in receipts)

PurchaseInv ==
    /\ ServingIsReserved
    /\ PurchaseWasReserved
    /\ PurchasesKeyed
    /\ ReceiptsArePurchases
    /\ SignedClaimsAreReceipts
    /\ VerifiedMeansPurchased

LEMMA PurchaseInit == Init => PurchaseInv
<1> SUFFICES ASSUME Init PROVE PurchaseInv
  OBVIOUS
<1>1. ServingIsReserved /\ ReceiptsArePurchases
  BY DEF Init, TargetInit, ServingIsReserved, ReceiptsArePurchases
<1>2. PurchaseWasReserved /\ PurchasesKeyed
  BY DEF Init, TargetInit, PurchaseWasReserved, PurchasesKeyed
<1>3. SignedClaimsAreReceipts
  BY DEF Init, EngineInit, SignedClaimsAreReceipts
<1>4. VerifiedMeansPurchased
  <2>1. \A k \in Keys : reconciled[k] = None
    BY DEF Init, EngineInit
  <2>2. None # TRUE
    BY AbsentAssumption
  <2> QED
    BY <2>1, <2>2 DEF VerifiedMeansPurchased
<1> QED
  BY <1>1, <1>2, <1>3, <1>4 DEF PurchaseInv

\* A write of the engine leaves every purchase with its reservation.
LEMMA IsReservedStays ==
    ASSUME TypeInv, LedgerKept, NEW k \in Keys, NEW nonce, NEW request, NEW instant,
           IsReserved(k, nonce, request, instant)
    PROVE  IsReserved(k, nonce, request, instant)'
BY ReservationStays DEF IsReserved

\* Steps that leave the target alone.
LEMMA PurchaseEngineStep ==
    ASSUME TypeInv, StoredInv, PurchaseInv, [Next]_vars, UNCHANGED targetVars
    PROVE  PurchaseInv'
<1>1. EngineEffect /\ LedgerKept
  BY NextEffect, StoredStep
<1>2. UNCHANGED <<purchases, serving, receipts>>
  BY DEF targetVars
<1>3. ServingIsReserved'
  <2>1. \A u \in Servers : serving[u] # None => KeyOf(serving[u].scope, serving[u].request) \in Keys
    BY KeyOfType DEF TypeInv, TypeOK, TargetTypeOK, Servings
  <2> QED
    BY <1>1, <1>2, <2>1, IsReservedStays DEF PurchaseInv, ServingIsReserved, IsReserved
<1>4. PurchaseWasReserved'
  BY <1>1, <1>2, IsReservedStays DEF PurchaseInv, PurchaseWasReserved, IsReserved
<1>5. PurchasesKeyed' /\ ReceiptsArePurchases'
  BY <1>2 DEF PurchaseInv, PurchasesKeyed, ReceiptsArePurchases
<1>6. SignedClaimsAreReceipts'
  <2>1. \A claim \in PresentedClaims : claim # None => (claim.signed => claim.body \in receipts)
    BY DEF PresentedClaims
  <2> QED
    BY <1>1, <1>2, <2>1 DEF EngineEffect, CallFollows, PurchaseInv, SignedClaimsAreReceipts
<1>7. VerifiedMeansPurchased'
  <2>1. ASSUME NEW k \in Keys, reconciled[k] = TRUE
        PROVE  /\ Reserved(k)'
               /\ purchases'[k] # None
               /\ purchases'[k].nonce = ledger'[k].reservation.nonce
    BY <1>1, <1>2, <2>1, ReservationStays DEF PurchaseInv, VerifiedMeansPurchased
  <2>2. CASE UNCHANGED reconciled
    BY <2>1, <2>2 DEF VerifiedMeansPurchased
  <2>3. ASSUME NEW w \in Threads, Reconcile(w) PROVE VerifiedMeansPurchased'
    <3> DEFINE c == call[w]
    <3>1. c \in Calls /\ KeyOf(c.key[1], c.request) = c.key
      BY <2>3 DEF Reconcile, Running, TypeInv, TypeOK, EngineTypeOK, StoredInv, CallsKeyed, Workers
    <3>2. c.key \in Keys
      BY <3>1 DEF Calls
    <3>3. ASSUME ClaimVerifies(ledger[c.key], c)
          PROVE  /\ Reserved(c.key)
                 /\ purchases[c.key] # None
                 /\ purchases[c.key].nonce = ledger[c.key].reservation.nonce
      <4>1. c.claim.body \in receipts
        BY <2>3, <3>3 DEF ClaimVerifies, PurchaseInv, SignedClaimsAreReceipts, Workers,
                          Reconcile, Running
      <4>2. KeyOf(c.claim.body.scope, c.claim.body.request) = c.key
        BY <3>1, <3>3 DEF ClaimVerifies
      <4>3. purchases[c.key] = c.claim.body /\ c.claim.body # None
        BY <4>1, <4>2, TargetAbsentAssumption
           DEF PurchaseInv, ReceiptsArePurchases, TypeInv, TypeOK, TargetTypeOK
      <4> QED
        BY <3>3, <4>3 DEF ClaimVerifies, Reserved
    <3>4. /\ UNCHANGED ledger
          /\ reconciled' = [reconciled EXCEPT ![c.key] = ClaimVerifies(ledger[c.key], c)]
      BY <2>3 DEF Reconcile
    <3>5. ASSUME NEW k \in Keys, reconciled'[k] = TRUE
          PROVE  /\ Reserved(k)'
                 /\ purchases'[k] # None
                 /\ purchases'[k].nonce = ledger'[k].reservation.nonce
      <4>1. CASE k = c.key
        <5>1. ClaimVerifies(ledger[c.key], c)
          BY <3>2, <3>4, <3>5, <4>1 DEF TypeInv, TypeOK, EngineTypeOK
        <5> QED
          BY <1>2, <3>3, <3>4, <4>1, <5>1 DEF Reserved
      <4>2. CASE k # c.key
        BY <2>1, <3>4, <3>5, <4>2 DEF TypeInv, TypeOK, EngineTypeOK
      <4> QED
        BY <4>1, <4>2
    <3> QED
      BY <3>5 DEF VerifiedMeansPurchased
  <2>4. UNCHANGED reconciled \/ \E w \in Threads : Reconcile(w)
    BY DEF Next, vars, engineVars, EngineStep, ThreadStep, OperatorStep, CallEvaluate,
           CallAuthorize, CallReconcile, Evaluate, Authorize, Inspect, CallApprove, Approve,
           GiveUp, Restart, Forward, Return
  <2> QED
    BY <2>2, <2>3, <2>4
<1> QED
  BY <1>3, <1>4, <1>5, <1>6, <1>7 DEF PurchaseInv

\* Steps of the target, which leave the engine alone.
LEMMA PurchaseTargetStep ==
    ASSUME TypeInv, StoredInv, TicketInv, PurchaseInv, TargetStep,
           UNCHANGED <<clock, engineVars, wire>>
    PROVE  PurchaseInv'
<1> USE DEF PurchaseInv
<1>1. UNCHANGED <<ledger, reconciled, call>>
  BY DEF engineVars
\* Without a new purchase and a new receipt only what is being served matters.
<1>2. ASSUME UNCHANGED <<purchases, receipts>>, ServingIsReserved' PROVE PurchaseInv'
  BY <1>1, <1>2 DEF PurchaseWasReserved, Reserved, PurchasesKeyed, ReceiptsArePurchases,
                    SignedClaimsAreReceipts, VerifiedMeansPurchased
<1>3. ASSUME NEW u \in Servers, NEW t \in wire, NEW r \in Requests, Accept(u, r, t)
      PROVE  PurchaseInv'
  <2> DEFINE v == [scope |-> t.scope, request |-> r, nonce |-> t.nonce, observed |-> clock,
                   outcome |-> TicketRefusal(r, t, clock)]
             k == KeyOf(t.scope, t.request)
  <2>1. t \in Tickets /\ TicketIsReservation(t) /\ k \in Keys
    BY KeyOfType DEF TypeInv, TypeOK, TicketInv, Tickets
  <2>2. ASSUME v.outcome = None PROVE t.request = r /\ TicketCurrent(t, clock)
    BY <2>2, TargetAbsentAssumption DEF TicketRefusal, Outcomes
  <2>3. ledger[k].request = t.request
    BY <2>1 DEF StoredInv, StoredOK, TicketIsReservation, Reserved
  <2>4. v.outcome = None => IsReserved(KeyOf(v.scope, v.request), v.nonce, v.request, v.observed)
    BY <2>1, <2>2, <2>3 DEF IsReserved, TicketIsReservation, TicketCurrent
  <2> HIDE DEF v
  <2>5. serving' = [serving EXCEPT ![u] = v] /\ UNCHANGED <<purchases, receipts>>
    BY <1>3 DEF Accept, v
  <2>6. ServingIsReserved'
    BY <1>1, <2>4, <2>5 DEF ServingIsReserved, IsReserved, Reserved, TypeInv, TypeOK, TargetTypeOK
  <2> QED
    BY <1>2, <2>5, <2>6
<1>4. ASSUME NEW u \in Servers, NEW scope \in Scopes, NEW r \in Requests,
             AcceptUnguarded(u, scope, r)
      PROVE  PurchaseInv'
  <2>1. ServingIsReserved' /\ UNCHANGED <<purchases, receipts>>
    BY <1>1, <1>4 DEF AcceptUnguarded, ServingIsReserved, IsReserved, Reserved,
                      TypeInv, TypeOK, TargetTypeOK
  <2> QED
    BY <1>2, <2>1
<1>5. ASSUME NEW u \in Servers, Commit(u) PROVE PurchaseInv'
  <2> DEFINE v == serving[u]
             k == KeyOf(v.scope, v.request)
             b == [scope |-> v.scope, request |-> v.request, nonce |-> v.nonce,
                   committed_at |-> v.observed]
  <2>1. v \in Servings /\ v.outcome = None /\ v # None
    BY <1>5 DEF Commit, TypeInv, TypeOK, TargetTypeOK
  <2>2. k \in Keys /\ b \in Receipts /\ b # None
    BY <2>1, KeyOfType, TargetAbsentAssumption DEF Servings, Receipts
  <2>3. \A o \in Outcomes : serving' = [serving EXCEPT ![u].outcome = o] => ServingIsReserved'
    <3> SUFFICES ASSUME NEW o \in Outcomes, serving' = [serving EXCEPT ![u].outcome = o]
                 PROVE  ServingIsReserved'
      OBVIOUS
    <3>1. ASSUME NEW x \in Servers, serving'[x] # None, serving'[x].outcome = None
          PROVE  serving'[x] = serving[x]
      BY <2>1, <3>1, TargetAbsentAssumption DEF TypeInv, TypeOK, TargetTypeOK, Servings
    <3>2. ASSUME NEW x \in Servers, serving'[x] # None, serving'[x].outcome = None,
                 serving'[x].nonce # Unguarded
          PROVE  IsReserved(KeyOf(serving[x].scope, serving[x].request),
                            serving[x].nonce, serving[x].request, serving[x].observed)'
      <4>1. serving'[x] = serving[x]
        BY <3>1, <3>2
      <4>2. IsReserved(KeyOf(serving[x].scope, serving[x].request),
                       serving[x].nonce, serving[x].request, serving[x].observed)
        BY <3>2, <4>1 DEF ServingIsReserved
      <4> QED
        BY <1>1, <4>1, <4>2 DEF IsReserved, Reserved
    <3> QED
      BY <3>2 DEF ServingIsReserved
  <2>4. CASE UNCHANGED purchases
    <3>1. ServingIsReserved'
      BY <1>5, <2>2, <2>3, <2>4 DEF Commit, Previous, Outcomes, TypeInv, TypeOK, TargetTypeOK
    <3> QED
      BY <1>2, <1>5, <2>4, <3>1 DEF Commit
  <2>5. CASE purchases[k] = None /\ purchases' = [purchases EXCEPT ![k] = b]
             /\ serving' = [serving EXCEPT ![u].outcome = "committed"]
    <3>1. ServingIsReserved'
      BY <2>3, <2>5 DEF Outcomes
    <3>2. \A j \in Keys : purchases'[j] = IF j = k THEN b ELSE purchases[j]
      BY <2>2, <2>5 DEF TypeInv, TypeOK, TargetTypeOK
    <3>3. b.nonce # Unguarded => IsReserved(k, b.nonce, b.request, b.committed_at)
      BY <2>1 DEF ServingIsReserved
    <3>4. PurchaseWasReserved'
      BY <1>1, <3>2, <3>3 DEF PurchaseWasReserved, IsReserved, Reserved
    <3>5. PurchasesKeyed'
      BY <3>2 DEF PurchasesKeyed
    <3>6. ReceiptsArePurchases' /\ UNCHANGED receipts
      <4>1. UNCHANGED receipts
        BY <1>5 DEF Commit
      <4>2. ASSUME NEW x \in receipts PROVE purchases'[KeyOf(x.scope, x.request)] = x
        <5>1. /\ x # None /\ KeyOf(x.scope, x.request) \in Keys
              /\ purchases[KeyOf(x.scope, x.request)] = x
          BY KeyOfType, TargetAbsentAssumption
             DEF ReceiptsArePurchases, TypeInv, TypeOK, TargetTypeOK, Receipts
        <5> HIDE DEF k
        <5> QED
          BY <2>5, <3>2, <5>1
      <4> QED
        BY <4>1, <4>2 DEF ReceiptsArePurchases
    <3>7. SignedClaimsAreReceipts'
      BY <1>1, <3>6 DEF SignedClaimsAreReceipts
    <3>8. VerifiedMeansPurchased'
      BY <1>1, <2>5, <3>2 DEF VerifiedMeansPurchased, Reserved
    <3> QED
      BY <3>1, <3>4, <3>5, <3>6, <3>7, <3>8
  <2> QED
    BY <1>5, <2>4, <2>5 DEF Commit, Previous
<1>6. ASSUME NEW u \in Servers, Answer(u) PROVE PurchaseInv'
  <2>1. ServingIsReserved' /\ UNCHANGED purchases /\ receipts \subseteq receipts'
    BY <1>1, <1>6 DEF Answer, ServingIsReserved, IsReserved, Reserved, TypeInv, TypeOK, TargetTypeOK
  <2>2. ReceiptsArePurchases'
    <3> DEFINE k == KeyOf(serving[u].scope, serving[u].request)
    <3>1. k \in Keys
      BY <1>6, KeyOfType DEF Answer, TypeInv, TypeOK, TargetTypeOK, Servings
    <3>2. \A b \in receipts' :
            b \in receipts \/ (b = purchases[k] /\ serving[u].outcome = "committed")
      BY <1>6 DEF Answer
    <3>3. serving[u].outcome = "committed" => purchases[k] # None
      BY <1>6 DEF Answer, TypeInv, CommittedIsRecorded
    <3> QED
      BY <2>1, <3>1, <3>2, <3>3 DEF ReceiptsArePurchases, PurchasesKeyed
  <2>3. PurchaseWasReserved' /\ PurchasesKeyed' /\ VerifiedMeansPurchased'
    BY <1>1, <2>1 DEF PurchaseWasReserved, PurchasesKeyed, VerifiedMeansPurchased, Reserved
  <2>4. SignedClaimsAreReceipts'
    BY <1>1, <2>1 DEF SignedClaimsAreReceipts
  <2> QED
    BY <2>1, <2>2, <2>3, <2>4
<1>7. ASSUME NEW u \in Servers, LoseCall(u) PROVE PurchaseInv'
  <2>1. ServingIsReserved' /\ UNCHANGED <<purchases, receipts>>
    BY <1>1, <1>7 DEF LoseCall, ServingIsReserved, IsReserved, Reserved,
                      TypeInv, TypeOK, TargetTypeOK
  <2> QED
    BY <1>2, <2>1
<1> QED
  BY <1>3, <1>4, <1>5, <1>6, <1>7 DEF TargetStep

-----------------------------------------------------------------------------
(* The theorems *)

SafetyInv == TypeInv /\ StoredInv /\ TicketInv /\ PurchaseInv

LEMMA SafetyInitially == Init => SafetyInv
BY TypeInit, StoredInit, TicketInit, PurchaseInit DEF SafetyInv

LEMMA SafetyStep == SafetyInv /\ [Next]_vars => SafetyInv'
<1> SUFFICES ASSUME SafetyInv, [Next]_vars PROVE SafetyInv'
  OBVIOUS
<1>1. TypeInv' /\ StoredInv' /\ TicketInv'
  BY TypeStep, StoredStep, TicketStep DEF SafetyInv
<1>2. CASE UNCHANGED targetVars
  BY <1>1, <1>2, PurchaseEngineStep DEF SafetyInv
<1>3. CASE TargetStep /\ UNCHANGED <<clock, engineVars, wire>>
  BY <1>1, <1>3, PurchaseTargetStep DEF SafetyInv
<1> QED
  BY <1>2, <1>3 DEF Next, vars

THEOREM SafetyInvariant == Spec => []SafetyInv
BY SafetyInitially, SafetyStep, PTL DEF Spec

\* Every guarded purchase in the target's database was reserved in the
\* engine's, for its key, request, nonce and instant, for any number of
\* processes, threads, tickets and duplicates of them.
THEOREM PurchasesReserved == Spec => []PurchaseWasReserved
<1>1. SafetyInv => PurchaseWasReserved
  BY DEF SafetyInv, PurchaseInv
<1> QED
  BY <1>1, SafetyInvariant, PTL

\* No two bearer tickets for one key, no nonce for two.
THEOREM TicketsUnique == Spec => []OneTicketPerKey
<1>1. SafetyInv => OneTicketPerKey
  BY TicketsAreUnique DEF SafetyInv
<1> QED
  BY <1>1, SafetyInvariant, PTL

\* A reconciliation that says verified is about a purchase that was made.
THEOREM VerifiedPurchased == Spec => []VerifiedMeansPurchased
<1>1. SafetyInv => VerifiedMeansPurchased
  BY DEF SafetyInv, PurchaseInv
<1> QED
  BY <1>1, SafetyInvariant, PTL

\* No reservation outside the pinned policy or the action's window, whatever
\* the processes are restarted with.
THEOREM ReservationsWithinPolicy == Spec => []ReservationIsWithinPolicy
<1>1. SafetyInv => ReservationIsWithinPolicy
  BY DEF SafetyInv, StoredInv, StoredOK, Reserved, ReservationIsWithinPolicy
<1> QED
  BY <1>1, SafetyInvariant, PTL

\* Nothing releases or replaces a reservation.
THEOREM ReservationsFinal == Spec => ReservationIsFinal
<1>1. SafetyInv /\ [Next]_vars =>
        [\A k \in Keys : Reserved(k) =>
           /\ Reserved(k)'
           /\ ledger'[k].reservation = ledger[k].reservation
           /\ ledger'[k].request = ledger[k].request]_ledger
  <2> SUFFICES ASSUME SafetyInv, [Next]_vars, NEW k \in Keys, Reserved(k)
               PROVE  /\ Reserved(k)'
                      /\ ledger'[k].reservation = ledger[k].reservation
                      /\ ledger'[k].request = ledger[k].request
    OBVIOUS
  <2> QED
    BY StoredStep, ReservationStays DEF SafetyInv
<1> QED
  BY <1>1, SafetyInvariant, PTL DEF Spec, ReservationIsFinal

\* Nothing replaces a recorded purchase.
THEOREM PurchasesFinal == Spec => PurchaseIsFinal
<1>1. TypeInv /\ [Next]_vars =>
        [\A k \in Keys : purchases[k] # None => purchases'[k] = purchases[k]]_purchases
  <2> SUFFICES ASSUME TypeInv, [Next]_vars, purchases' # purchases,
                      NEW k \in Keys, purchases[k] # None
               PROVE  purchases'[k] = purchases[k]
    OBVIOUS
  <2>1. PICK u \in Servers : Commit(u)
    BY DEF Next, vars, targetVars, TargetStep, Accept, AcceptUnguarded, Answer, LoseCall
  <2> QED
    BY <2>1 DEF Commit, Previous, TypeInv, TypeOK, TargetTypeOK
<1>2. Spec => []TypeInv
  BY TypeInit, TypeStep, PTL DEF Spec
<1> QED
  BY <1>1, <1>2, PTL DEF Spec, PurchaseIsFinal

-----------------------------------------------------------------------------
(* Consent.  An approval only pays where the approve run that recorded it    *)
(* was answered with success: the run that was told the action is too old    *)
(* recorded a fact that starts when the action has ended, and the run that   *)
(* was told it is the actor's own approval left one that never allows.       *)

\* A call is as old as its clock reading; an operator looks at an action that
\* is stored, with the request that was shown, and confirms it afterwards.
CallTimeOK(w) ==
    call[w] # None =>
        /\ call[w].observed <= clock
        /\ w \in Operators =>
             /\ ledger[call[w].key] # None
             /\ ledger[call[w].key].request = call[w].request
             /\ call[w].phase = "called" =>
                    ledger[call[w].key].first_seen <= call[w].observed

\* The facts of an action are those of a run that was answered with success,
\* for what is stored (agreed), or cover no instant of the action.
FactsOK(s, agreed) ==
    \/ agreed = s.request
    \/ \A f \in s.approvals : s.first_seen + ActionTTL <= f.valid_from

ConsentOK(k, s, agreed) ==
    /\ s.first_seen <= clock
    /\ NeedsApproval(s) /\ k[1] \notin OperatorScopes => FactsOK(s, agreed)
    /\ NeedsApproval(s) /\ s.status = "reserved" =>
         /\ agreed = s.request
         /\ k[1] \notin OperatorScopes
         /\ \E f \in s.approvals :
              /\ f.valid_from <= s.reservation.issued_at
              /\ s.reservation.issued_at < f.valid_until
              /\ s.reservation.expires_at <= f.valid_until

ConsentInv ==
    /\ \A w \in Workers : CallTimeOK(w)
    /\ \A k \in Keys : ledger[k] # None => ConsentOK(k, ledger[k], consent[k])

LEMMA ConsentInit == Init => ConsentInv
BY DEF Init, EngineInit, ConsentInv, CallTimeOK

\* What a step may make of a call, as far as its times and the operator go.
CallTimeFollows(w) ==
    call'[w] # None =>
        \/ call[w] # None /\ call'[w] = call[w]
        \/ call[w] # None /\ w \in Threads /\ call'[w].observed = call[w].observed
        \/ w \in Threads /\ call'[w].observed = clock
        \/ /\ call'[w].observed = clock /\ call'[w].phase = "shown"
           /\ call'[w].key \in Keys /\ ledger[call'[w].key] # None
           /\ call'[w].request = ledger[call'[w].key].request
        \/ /\ call[w] # None /\ call'[w].observed = clock
           /\ call'[w].key = call[w].key /\ call'[w].request = call[w].request

LEMMA CallTimeStep ==
    ASSUME TypeInv, ConsentInv, LedgerKept, clock' \in Nat, clock <= clock',
           NEW w \in Workers, CallTimeFollows(w)
    PROVE  CallTimeOK(w)'
<1> SUFFICES ASSUME call'[w] # None
             PROVE  /\ call'[w].observed <= clock'
                    /\ w \in Operators =>
                         /\ ledger'[call'[w].key] # None
                         /\ ledger'[call'[w].key].request = call'[w].request
                         /\ call'[w].phase = "called" =>
                                ledger'[call'[w].key].first_seen <= call'[w].observed
  BY DEF CallTimeOK
<1>1. clock \in Nat /\ \A k \in Keys : ledger[k] # None => ledger[k].first_seen \in Nat
  BY DEF TypeInv, TypeOK, EngineTypeOK, States
<1>2. CallTimeOK(w) /\ (call[w] # None => call[w].key \in Keys /\ call[w].observed \in Nat)
  BY DEF ConsentInv, TypeInv, TypeOK, EngineTypeOK, Calls
<1>3. \A k \in Keys : ledger[k] # None =>
         /\ ledger'[k] # None /\ ledger'[k].request = ledger[k].request
         /\ ledger'[k].first_seen = ledger[k].first_seen /\ ledger[k].first_seen <= clock
  BY DEF LedgerKept, Keeps, ConsentInv, ConsentOK
<1>4. w \in Threads => w \notin Operators
  BY WorkerAssumption
<1>5. CASE call[w] # None /\ call'[w] = call[w]
  BY <1>1, <1>2, <1>3, <1>5 DEF CallTimeOK
<1>6. CASE call[w] # None /\ w \in Threads /\ call'[w].observed = call[w].observed
  BY <1>1, <1>2, <1>4, <1>6 DEF CallTimeOK
<1>7. CASE w \in Threads /\ call'[w].observed = clock
  BY <1>1, <1>4, <1>7
<1>8. CASE /\ call'[w].observed = clock /\ call'[w].phase = "shown"
           /\ call'[w].key \in Keys /\ ledger[call'[w].key] # None
           /\ call'[w].request = ledger[call'[w].key].request
  BY <1>1, <1>3, <1>8
<1>9. CASE /\ call[w] # None /\ call'[w].observed = clock
           /\ call'[w].key = call[w].key /\ call'[w].request = call[w].request
  BY <1>1, <1>2, <1>3, <1>9 DEF CallTimeOK
<1> QED
  BY <1>5, <1>6, <1>7, <1>8, <1>9 DEF CallTimeFollows

\* A step that replaces one call.
LEMMA OneCallFollows ==
    ASSUME TypeInv, NEW w \in Workers, NEW c, call' = [call EXCEPT ![w] = c],
           \/ c = None
           \/ w \in Threads /\ c.observed = clock
           \/ w \in Threads /\ call[w] # None /\ c.observed = call[w].observed
           \/ /\ c.observed = clock /\ c.phase = "shown"
              /\ c.key \in Keys /\ ledger[c.key] # None
              /\ c.request = ledger[c.key].request
           \/ /\ call[w] # None /\ c.observed = clock
              /\ c.key = call[w].key /\ c.request = call[w].request
    PROVE  \A v \in Workers : CallTimeFollows(v)
<1> SUFFICES ASSUME NEW v \in Workers PROVE CallTimeFollows(v)
  OBVIOUS
<1>1. call'[v] = IF v = w THEN c ELSE call[v]
  BY DEF TypeInv, TypeOK, EngineTypeOK
<1> QED
  BY <1>1 DEF CallTimeFollows

LEMMA CallsFollow ==
    ASSUME TypeInv, [Next]_vars
    PROVE  \A v \in Workers : CallTimeFollows(v)
<1>1. CASE UNCHANGED call
  BY <1>1 DEF CallTimeFollows
<1>2. ASSUME NEW w \in Workers, Finish(w) PROVE \A v \in Workers : CallTimeFollows(v)
  BY <1>2, OneCallFollows DEF Finish
<1>3. ASSUME NEW w \in Threads, ThreadStep(w) PROVE \A v \in Workers : CallTimeFollows(v)
  <2>1. w \in Workers
    BY DEF Workers
  <2>2. ASSUME NEW op, NEW k, NEW r, NEW claim,
               call' = [call EXCEPT ![w] = NewCall(op, k, r, claim)]
        PROVE  \A v \in Workers : CallTimeFollows(v)
    <3>1. NewCall(op, k, r, claim).observed = clock
      BY DEF NewCall
    <3> QED
      BY <2>1, <2>2, <3>1, OneCallFollows
  <2>3. ASSUME NEW scope \in Scopes, NEW r \in Requests,
               \/ CallEvaluate(w, scope, r) \/ CallAuthorize(w, scope, r)
               \/ \E claim \in PresentedClaims : CallReconcile(w, scope, r, claim)
        PROVE  \A v \in Workers : CallTimeFollows(v)
    BY <2>2, <2>3 DEF CallEvaluate, CallAuthorize, CallReconcile
  <2>4. CASE Evaluate(w) \/ Reconcile(w)
    BY <1>2, <2>1, <2>4 DEF Evaluate, Reconcile
  <2>5. CASE Authorize(w)
    <3>1. CASE \E t : call' = [call EXCEPT ![w].phase = "replied", ![w].ticket = t]
      <4>1. PICK t : call' = [call EXCEPT ![w].phase = "replied", ![w].ticket = t]
        BY <3>1
      <4>2. call[w] # None /\ call[w] \in Calls
        BY <2>1, <2>5 DEF Authorize, Running, TypeInv, TypeOK, EngineTypeOK
      <4> DEFINE c == [call[w] EXCEPT !.phase = "replied", !.ticket = t]
      <4>3. c.observed = call[w].observed
        BY <4>2 DEF Calls
      <4>4. call' = [call EXCEPT ![w] = c]
        BY <2>1, <4>1 DEF TypeInv, TypeOK, EngineTypeOK
      <4> HIDE DEF c
      <4> QED
        BY <2>1, <4>2, <4>3, <4>4, OneCallFollows
    <3>2. CASE Finish(w)
      BY <1>2, <2>1, <3>2
    <3> QED
      BY <2>5, <3>1, <3>2 DEF Authorize, Reserve
  <2> QED
    BY <1>3, <2>3, <2>4, <2>5 DEF ThreadStep
<1>4. ASSUME NEW w \in Operators, OperatorStep(w) PROVE \A v \in Workers : CallTimeFollows(v)
  <2>1. w \in Workers
    BY DEF Workers
  <2>2. ASSUME NEW k \in Keys, Inspect(w, k) PROVE \A v \in Workers : CallTimeFollows(v)
    <3> DEFINE c == [NewCall("approve", k, ledger[k].request, None) EXCEPT !.phase = "shown"]
    <3>1. c.observed = clock /\ c.phase = "shown" /\ c.key = k /\ c.request = ledger[k].request
      BY DEF NewCall
    <3>2. call' = [call EXCEPT ![w] = c] /\ ledger[k] # None
      BY <2>2 DEF Inspect
    <3> HIDE DEF c
    <3> QED
      BY <2>1, <3>1, <3>2, OneCallFollows
  <2>3. ASSUME NEW authentic \in BOOLEAN, CallApprove(w, authentic)
        PROVE  \A v \in Workers : CallTimeFollows(v)
    <3> DEFINE c == [call[w] EXCEPT !.phase = "called", !.observed = clock,
                                    !.authentic = authentic]
    <3>1. call[w] # None /\ call[w] \in Calls
      BY <2>1, <2>3 DEF CallApprove, TypeInv, TypeOK, EngineTypeOK
    <3>2. c.observed = clock /\ c.key = call[w].key /\ c.request = call[w].request
      BY <3>1 DEF Calls
    <3>3. call' = [call EXCEPT ![w] = c]
      BY <2>1, <2>3 DEF CallApprove, TypeInv, TypeOK, EngineTypeOK
    <3> HIDE DEF c
    <3> QED
      BY <2>1, <3>1, <3>2, <3>3, OneCallFollows
  <2>4. CASE Approve(w)
    BY <1>2, <2>1, <2>4 DEF Approve
  <2> QED
    BY <1>4, <2>2, <2>3, <2>4 DEF OperatorStep
<1>5. ASSUME NEW h \in Hosts, NEW p \in Policies, Restart(h, p)
      PROVE  \A v \in Workers : CallTimeFollows(v)
  BY <1>5 DEF Restart, CallTimeFollows
<1>6. ASSUME NEW w \in Workers, GiveUp(w) PROVE \A v \in Workers : CallTimeFollows(v)
  BY <1>2, <1>6 DEF GiveUp
<1>7. ASSUME NEW w \in Threads, Forward(w) PROVE \A v \in Workers : CallTimeFollows(v)
  <2>1. w \in Workers
    BY DEF Workers
  <2> QED
    BY <1>2, <1>7, <2>1 DEF Forward, Return
<1> QED
  BY <1>1, <1>3, <1>4, <1>5, <1>6, <1>7 DEF Next, vars, engineVars, EngineStep

\* What is written of one action, and what was agreed about it.
ConsentWrites(k, new) ==
    /\ ledger' = [ledger EXCEPT ![k] = new]
    /\ \A j \in Keys : j # k => consent'[j] = consent[j]
    /\ ConsentOK(k, new, consent'[k])
    /\ new # None

LEMMA ConsentWritten ==
    ASSUME TypeInv, ConsentInv, clock' = clock, NEW k \in Keys, NEW new, ConsentWrites(k, new)
    PROVE  \A j \in Keys : (ledger[j] # None => ConsentOK(j, ledger[j], consent[j]))'
<1> SUFFICES ASSUME NEW j \in Keys, ledger'[j] # None
             PROVE  ConsentOK(j, ledger[j], consent[j])'
  OBVIOUS
<1>1. ledger'[j] = IF j = k THEN new ELSE ledger[j]
  BY DEF ConsentWrites, TypeInv, TypeOK, EngineTypeOK
<1>2. CASE j = k
  BY <1>1, <1>2 DEF ConsentWrites, ConsentOK, FactsOK, NeedsApproval
<1>3. CASE j # k
  BY <1>1, <1>3 DEF ConsentWrites, ConsentInv, ConsentOK, FactsOK, NeedsApproval
<1> QED
  BY <1>2, <1>3

\* What _evaluate makes of an action is as good as what is stored.
LEMMA EvaluatedConsent ==
    ASSUME TypeInv, ConsentInv, NEW k \in Keys, NEW r \in Requests, NEW p \in Policies,
           NEW now \in Nat, now <= clock
    PROVE  LET e == Evaluated(StateFor(k, r, p, now), p, k[1], now)
           IN  e # None /\ ConsentOK(k, e, consent[k])
<1> DEFINE s == StateFor(k, r, p, now)
           e == Evaluated(s, p, k[1], now)
<1>1. s \in Undecided
  BY StateForType DEF TypeInv, TypeOK
<1>2. /\ e \in States
      /\ e.request = s.request /\ e.first_seen = s.first_seen
      /\ e.policy = s.policy /\ e.status = s.status
      /\ e.approvals = s.approvals /\ e.reservation = s.reservation
  BY <1>1, EvaluatedType
<1>3. ConsentOK(k, s, consent[k])
  <2>1. CASE ledger[k] # None
    BY <2>1 DEF StateFor, ConsentInv
  <2>2. CASE ledger[k] = None
    BY <2>2 DEF StateFor, ConsentOK, FactsOK
  <2> QED
    BY <2>1, <2>2
<1> HIDE DEF e, s
<1>4. e # None
  BY <1>2, AbsentAssumption
<1>5. ConsentOK(k, e, consent[k])
  BY <1>2, <1>3 DEF ConsentOK, FactsOK, NeedsApproval
<1> QED
  BY <1>4, <1>5 DEF e, s

\* An evaluation that allows what needs an approval found one that covers the
\* instant, and not the actor's own.
LEMMA AllowedWasApproved ==
    ASSUME NEW s \in Undecided, NEW p \in Policies, NEW scope, NEW now \in Nat,
           Verdict(p, s.request) = "require_approval",
           Evaluated(s, p, scope, now).decision.verdict = "allow"
    PROVE  /\ scope \notin OperatorScopes
           /\ \E f \in s.approvals : f.valid_from <= now /\ now < f.valid_until
<1> DEFINE v == IF Verdict(p, s.request) # "require_approval" THEN Verdict(p, s.request)
                ELSE IF {f \in s.approvals : ApprovalMatches(f, now)} = {}
                     THEN "require_approval"
                ELSE IF scope \in OperatorScopes THEN "block" ELSE "allow"
<1>1. Evaluated(s, p, scope, now) = [s EXCEPT !.decision = [verdict |-> v, evaluated_at |-> now]]
  BY DEF Evaluated
<1>2. v = "allow" => scope \notin OperatorScopes
                     /\ {f \in s.approvals : ApprovalMatches(f, now)} # {}
  OBVIOUS
<1> HIDE DEF v
<1>3. Evaluated(s, p, scope, now).decision.verdict = v
  BY <1>1 DEF Undecided
<1>4. scope \notin OperatorScopes /\ {f \in s.approvals : ApprovalMatches(f, now)} # {}
  BY <1>2, <1>3
<1> QED
  BY <1>4 DEF ApprovalMatches

\* And an approval that covers the instant, by somebody else, allows.
LEMMA ApprovedIsAllowed ==
    ASSUME NEW s \in Undecided, NEW p \in Policies, NEW scope, NEW now \in Nat,
           Verdict(p, s.request) = "require_approval", scope \notin OperatorScopes,
           NEW f \in s.approvals, ApprovalMatches(f, now)
    PROVE  Evaluated(s, p, scope, now).decision.verdict = "allow"
<1> DEFINE v == IF Verdict(p, s.request) # "require_approval" THEN Verdict(p, s.request)
                ELSE IF {g \in s.approvals : ApprovalMatches(g, now)} = {}
                     THEN "require_approval"
                ELSE IF scope \in OperatorScopes THEN "block" ELSE "allow"
<1>1. Evaluated(s, p, scope, now) = [s EXCEPT !.decision = [verdict |-> v, evaluated_at |-> now]]
  BY DEF Evaluated
<1>2. v = "allow"
  OBVIOUS
<1> HIDE DEF v
<1> QED
  BY <1>1, <1>2 DEF Undecided

LEMMA EvaluateConsent ==
    ASSUME TypeInv, ConsentInv, NEW w \in Workers, Evaluate(w)
    PROVE  UNCHANGED <<ledger, consent>> \/ \E new : ConsentWrites(call[w].key, new)
<1> DEFINE c == call[w]
           p == policy[HostOf[w]]
           e == Evaluated(StateFor(c.key, c.request, p, c.observed), p, c.key[1], c.observed)
<1>1. c \in Calls /\ p \in Policies /\ c.observed <= clock
  BY WorkerAssumption DEF TypeInv, TypeOK, EngineTypeOK, Evaluate, Running, ConsentInv, CallTimeOK
<1>2. c.key \in Keys /\ c.request \in Requests /\ c.observed \in Nat
  BY <1>1 DEF Calls
<1>3. consent' = consent /\ (UNCHANGED ledger \/ ledger' = [ledger EXCEPT ![c.key] = e])
  BY DEF Evaluate, Store
<1>4. e # None /\ ConsentOK(c.key, e, consent[c.key])
  BY <1>1, <1>2, EvaluatedConsent
<1> HIDE DEF e
<1> QED
  BY <1>3, <1>4 DEF ConsentWrites

LEMMA AuthorizeConsent ==
    ASSUME TypeInv, ConsentInv, NEW w \in Workers, Authorize(w)
    PROVE  UNCHANGED <<ledger, consent>> \/ \E new : ConsentWrites(call[w].key, new)
<1> DEFINE c == call[w]
           p == policy[HostOf[w]]
           s == StateFor(c.key, c.request, p, c.observed)
           e == Evaluated(s, p, c.key[1], c.observed)
<1>1. c \in Calls /\ p \in Policies /\ c.observed <= clock
  BY WorkerAssumption DEF TypeInv, TypeOK, EngineTypeOK, Authorize, Running, ConsentInv, CallTimeOK
<1>2. c.key \in Keys /\ c.request \in Requests /\ c.observed \in Nat
  BY <1>1 DEF Calls
<1>3. e # None /\ ConsentOK(c.key, e, consent[c.key])
  BY <1>1, <1>2, EvaluatedConsent
<1>4. consent' = consent
  BY DEF Authorize
<1>5. CASE Refusal(s, c.request, p, c.observed) # None
  BY <1>4, <1>5 DEF Authorize
<1>6. CASE Refusal(s, c.request, p, c.observed) = None /\ ReservationRefusal(e) # None
  <2>1. ledger' = [ledger EXCEPT ![c.key] = e]
    BY <1>6 DEF Authorize, Store
  <2> HIDE DEF e
  <2> QED
    BY <1>3, <1>4, <2>1 DEF ConsentWrites
<1>7. CASE Refusal(s, c.request, p, c.observed) = None /\ ReservationRefusal(e) = None
  <2>1. PICK n \in Nonces \ ReservedNonces, d \in Deadlines(e, c.observed) :
               /\ \A other \in Deadlines(e, c.observed) : d <= other
               /\ Reserve(w, e, p, d, n)
    BY <1>7 DEF Authorize
  <2> DEFINE t == [scope |-> c.key[1], request |-> e.request, policy |-> p,
                   issued_at |-> c.observed, expires_at |-> d, nonce |-> n]
             new == [e EXCEPT !.status = "reserved", !.reservation = t]
  <2>2. ledger' = [ledger EXCEPT ![c.key] = new]
    BY <2>1 DEF Reserve, Store
  <2>3. s \in Undecided
    BY <1>1, <1>2, StateForType DEF TypeInv, TypeOK
  <2>4. /\ e \in States /\ e.request = s.request /\ e.first_seen = s.first_seen
        /\ e.policy = s.policy /\ e.approvals = s.approvals
    BY <1>1, <1>2, <2>3, EvaluatedType
  <2>5. s.policy = p /\ InActionWindow(s, c.observed)
    BY <1>7, AbsentAssumption DEF Refusal, Reasons
  <2>6. e.decision.verdict = "allow"
    <3> HIDE DEF e
    <3> QED
      BY <1>7, <2>4, AbsentAssumption DEF ReservationRefusal, Reasons, States, Decisions, Verdicts
  <2>7. \A f \in e.approvals : d <= f.valid_until
    BY <2>1 DEF Deadlines
  <2>8. Verdict(p, s.request) = "require_approval" =>
          /\ c.key[1] \notin OperatorScopes
          /\ \E f \in s.approvals : f.valid_from <= c.observed /\ c.observed < f.valid_until
    BY <1>1, <1>2, <2>3, <2>6, AllowedWasApproved
  <2> HIDE DEF e
  <2>9. /\ new.request = e.request /\ new.policy = e.policy /\ new.first_seen = e.first_seen
        /\ new.approvals = e.approvals /\ new.reservation = t
    BY <2>4 DEF States
  <2>10. t.issued_at = c.observed /\ t.expires_at = d
    OBVIOUS
  <2>11. new # None
    <3>1. t \in Tickets
      BY <1>1, <1>2, <2>1, <2>4, DeadlinesType DEF Tickets, Keys, States
    <3>2. new \in States
      BY <2>4, <3>1 DEF States
    <3> QED
      BY <3>2, AbsentAssumption
  <2> HIDE DEF t, new
  <2>12. ConsentOK(c.key, new, consent[c.key])
    <3>1. new.first_seen <= clock
      BY <1>3, <2>9 DEF ConsentOK
    <3>2. CASE ~ NeedsApproval(new)
      BY <3>1, <3>2 DEF ConsentOK
    <3>3. CASE NeedsApproval(new)
      <4>1. Verdict(p, s.request) = "require_approval" /\ NeedsApproval(e)
        BY <2>4, <2>5, <2>9, <3>3 DEF NeedsApproval
      <4>2. PICK f \in s.approvals : f.valid_from <= c.observed /\ c.observed < f.valid_until
        BY <2>8, <4>1
      <4>3. f \in e.approvals /\ d <= f.valid_until
        BY <2>4, <2>7
      <4>4. f.valid_from \in Nat /\ e.first_seen \in Nat
        BY <2>4, <4>3 DEF States, Approvals
      <4>5. FactsOK(e, consent[c.key])
        BY <1>3, <2>8, <4>1 DEF ConsentOK
      <4>6. consent[c.key] = e.request
        <5>1. f.valid_from < e.first_seen + ActionTTL
          BY <1>2, <2>4, <2>5, <4>2, <4>4, DomainAssumption DEF InActionWindow
        <5>2. ~ (e.first_seen + ActionTTL <= f.valid_from)
          BY <4>4, <5>1, DomainAssumption
        <5> QED
          BY <4>3, <4>5, <5>2 DEF FactsOK
      <4> QED
        BY <2>8, <2>9, <2>10, <3>1, <4>1, <4>2, <4>3, <4>6 DEF ConsentOK, FactsOK
    <3> QED
      BY <3>2, <3>3
  <2> QED
    BY <1>4, <2>2, <2>11, <2>12 DEF ConsentWrites
<1> QED
  BY <1>5, <1>6, <1>7

LEMMA ApproveConsent ==
    ASSUME TypeInv, ConsentInv, NEW w \in Operators, Approve(w)
    PROVE  UNCHANGED <<ledger, consent>> \/ \E new : ConsentWrites(call[w].key, new)
<1> DEFINE c == call[w]
           p == policy[HostOf[w]]
           s == ledger[c.key]
           f == ApprovalFact(s, c.observed)
           a == [s EXCEPT !.approvals = {f}, !.status = "approved"]
           late == Refusal(a, s.request, p, c.observed)
           e == Evaluated(a, p, c.key[1], c.observed)
<1>1. w \in Workers
  BY DEF Workers
<1>2. c \in Calls /\ p \in Policies
  BY <1>1, WorkerAssumption DEF TypeInv, TypeOK, EngineTypeOK, Approve, Running
<1>3. c.key \in Keys /\ c.observed \in Nat
  BY <1>2 DEF Calls
<1>4. /\ s # None /\ s.request = c.request /\ s.first_seen <= c.observed
      /\ c.observed <= clock
  BY <1>1 DEF Approve, Running, ConsentInv, CallTimeOK
<1>5. s \in States
  BY <1>3, <1>4 DEF TypeInv, TypeOK, EngineTypeOK
<1>6. CASE ApprovalRefusal(s, c, p) # None
  BY <1>6 DEF Approve
<1>7. CASE ApprovalRefusal(s, c, p) = None
  <2>1. s.policy = p /\ c.observed < s.decision.evaluated_at + DecisionTTL
    <3>1. s.decision.evaluated_at \in Nat
      BY <1>5 DEF States, Decisions
    <3> QED
      BY <1>3, <1>7, <3>1, DomainAssumption, AbsentAssumption DEF ApprovalRefusal, Reasons
  <2>2. f \in Approvals /\ f.valid_from = c.observed /\ ApprovalMatches(f, c.observed)
    <3>1. s.decision.evaluated_at \in Nat /\ DecisionTTL \in Nat /\ ApprovalTTL \in Nat \ {0}
      BY <1>5, DomainAssumption DEF States, Decisions
    <3> QED
      BY <1>3, <2>1, <3>1 DEF ApprovalFact, Approvals, ApprovalMatches
  <2> HIDE DEF f
  <2>3. /\ a \in States /\ a.request = s.request /\ a.policy = s.policy
        /\ a.first_seen = s.first_seen /\ a.status = "approved" /\ a.approvals = {f}
    BY <1>5, <2>2 DEF States
  <2> HIDE DEF a
  <2>4. /\ e \in States /\ e.request = a.request /\ e.policy = a.policy
        /\ e.first_seen = a.first_seen /\ e.status = "approved" /\ e.approvals = a.approvals
    BY <1>2, <1>3, <2>3, EvaluatedType, StatesAreUndecided
  <2>5. a # None /\ e # None
    BY <2>3, <2>4, AbsentAssumption
  <2>6. s.first_seen <= clock
    BY <1>3, <1>4, <1>5 DEF TypeInv, TypeOK, States
  <2>7. CASE late # None
    <3>1. ledger' = [ledger EXCEPT ![c.key] = a] /\ consent' = consent
      BY <1>7, <2>7 DEF Approve, Store, a, f
    <3>2. ~ InActionWindow(a, c.observed)
      BY <2>1, <2>3, <2>7 DEF Refusal
    <3>3. a.first_seen + ActionTTL <= f.valid_from
      <4>1. s.first_seen \in Nat /\ ActionTTL \in Nat
        BY <1>5, DomainAssumption DEF States
      <4> QED
        BY <1>3, <1>4, <2>2, <2>3, <3>2, <4>1 DEF InActionWindow
    <3>4. ConsentOK(c.key, a, consent[c.key])
      BY <2>3, <2>6, <3>3 DEF ConsentOK, FactsOK
    <3> QED
      BY <2>5, <3>1, <3>4 DEF ConsentWrites
  <2>8. CASE late = None /\ e.decision.verdict # "allow"
    <3>1. ledger' = [ledger EXCEPT ![c.key] = e] /\ consent' = consent
      BY <1>7, <2>8 DEF Approve, Store, a, f
    <3>2. NeedsApproval(e) => c.key[1] \in OperatorScopes
      <4> SUFFICES ASSUME NeedsApproval(e), c.key[1] \notin OperatorScopes PROVE FALSE
        OBVIOUS
      <4>1. Verdict(p, a.request) = "require_approval"
        BY <2>1, <2>3, <2>4 DEF NeedsApproval
      <4>2. e.decision.verdict = "allow"
        BY <1>2, <1>3, <2>2, <2>3, <4>1, ApprovedIsAllowed, StatesAreUndecided
      <4> QED
        BY <2>8, <4>2
    <3> HIDE DEF e
    <3>3. ConsentOK(c.key, e, consent[c.key])
      BY <2>3, <2>4, <2>6, <3>2 DEF ConsentOK
    <3> QED
      BY <2>5, <3>1, <3>3 DEF ConsentWrites
  <2>9. CASE late = None /\ e.decision.verdict = "allow"
    <3>1. /\ ledger' = [ledger EXCEPT ![c.key] = e]
          /\ consent' = [consent EXCEPT ![c.key] = c.request]
      BY <1>7, <2>9 DEF Approve, Store, a, f
    <3>2. consent'[c.key] = e.request /\ \A j \in Keys : j # c.key => consent'[j] = consent[j]
      BY <1>3, <1>4, <2>3, <2>4, <3>1 DEF TypeInv, TypeOK, EngineTypeOK
    <3> HIDE DEF e
    <3>3. ConsentOK(c.key, e, consent'[c.key])
      BY <2>3, <2>4, <2>6, <3>2 DEF ConsentOK, FactsOK
    <3> QED
      BY <2>5, <3>1, <3>2, <3>3 DEF ConsentWrites
  <2> QED
    BY <2>7, <2>8, <2>9
<1> QED
  BY <1>6, <1>7

\* Nothing else writes an action or a consent.
LEMMA ConsentEffect ==
    ASSUME TypeInv, ConsentInv, [Next]_vars
    PROVE  \/ UNCHANGED <<ledger, consent>>
           \/ clock' = clock /\ \E k \in Keys : \E new : ConsentWrites(k, new)
<1>1. CASE UNCHANGED <<ledger, consent>>
  BY <1>1
<1>2. ASSUME NEW w \in Workers,
             \/ Evaluate(w) \/ Authorize(w)
             \/ w \in Operators /\ Approve(w)
      PROVE  /\ call[w].key \in Keys
             /\ UNCHANGED <<ledger, consent>> \/ \E new : ConsentWrites(call[w].key, new)
  <2>1. call[w].key \in Keys
    BY <1>2 DEF Evaluate, Authorize, Approve, Running, TypeInv, TypeOK, EngineTypeOK, Calls
  <2> QED
    BY <1>2, <2>1, EvaluateConsent, AuthorizeConsent, ApproveConsent
<1>3. CASE EngineStep /\ clock' = clock
  <2>1. ASSUME ~ UNCHANGED <<ledger, consent>>
        PROVE  \E w \in Workers : \/ Evaluate(w) \/ Authorize(w)
                                  \/ w \in Operators /\ Approve(w)
    BY <1>3, <2>1 DEF EngineStep, ThreadStep, OperatorStep, Workers, CallEvaluate, CallAuthorize,
                      CallReconcile, Reconcile, Inspect, CallApprove, GiveUp, Restart
  <2> QED
    BY <1>2, <1>3, <2>1
<1>4. ASSUME NEW w \in Threads, Forward(w) PROVE UNCHANGED <<ledger, consent>>
  BY <1>4 DEF Forward, Return
<1> QED
  BY <1>1, <1>3, <1>4 DEF Next, vars, engineVars

LEMMA ConsentStep ==
    ASSUME TypeInv, TypeInv', StoredInv, ConsentInv, [Next]_vars
    PROVE  ConsentInv'
<1>1. clock \in Nat /\ clock' \in Nat /\ clock <= clock'
  BY DEF Next, vars, Tick, TypeInv, TypeOK
<1>2. \A w \in Workers : CallTimeOK(w)'
  BY <1>1, StoredStep, CallsFollow, CallTimeStep
<1>3. \A k \in Keys : (ledger[k] # None => ConsentOK(k, ledger[k], consent[k]))'
  <2>1. CASE UNCHANGED <<ledger, consent>>
    <3> SUFFICES ASSUME NEW k \in Keys, ledger'[k] # None
                 PROVE  ConsentOK(k, ledger[k], consent[k])'
      OBVIOUS
    <3>1. ledger[k] # None /\ ledger'[k] = ledger[k] /\ consent'[k] = consent[k]
      BY <2>1
    <3>2. ConsentOK(k, ledger[k], consent[k]) /\ ledger[k].first_seen \in Nat
      BY <3>1 DEF ConsentInv, TypeInv, TypeOK, EngineTypeOK, States
    <3> QED
      BY <1>1, <3>1, <3>2 DEF ConsentOK, FactsOK, NeedsApproval
  <2>2. CASE clock' = clock /\ \E k \in Keys : \E new : ConsentWrites(k, new)
    BY <2>2, ConsentWritten
  <2> QED
    BY <2>1, <2>2, ConsentEffect
<1> QED
  BY <1>2, <1>3 DEF ConsentInv

LEMMA AlwaysConsentInv == Spec => []ConsentInv
<1>1. SafetyInv /\ SafetyInv' /\ ConsentInv /\ [Next]_vars => ConsentInv'
  BY ConsentStep DEF SafetyInv
<1> QED
  BY <1>1, ConsentInit, SafetyInvariant, PTL DEF Spec

\* A reservation that needed a human rests on an approve run that was answered
\* with success, for this request, by somebody else, and its fact covers the
\* reservation; whatever else was approved late, refused or repeated.
THEOREM ReservationsConsented == Spec => []ReservationHasConsent
<1>1. TypeInv /\ ConsentInv => ReservationHasConsent
  BY DEF ConsentInv, ConsentOK, ReservationHasConsent, Reserved
<1>2. SafetyInv => TypeInv
  BY DEF SafetyInv
<1> QED
  BY <1>1, <1>2, SafetyInvariant, AlwaysConsentInv, PTL

\* What an operator confirms is what is stored, although the ledger is free
\* between showing it and approving it.
THEOREM ShownStaysCurrent == Spec => []ShownIsCurrent
<1>1. ConsentInv => ShownIsCurrent
  BY DEF ConsentInv, CallTimeOK, ShownIsCurrent, Workers
<1> QED
  BY <1>1, AlwaysConsentInv, PTL

-----------------------------------------------------------------------------
(* The one-use authority.  The state the system shows, and what each of its  *)
(* steps is there.                                                           *)

FiledOf == [k \in Keys |-> IF ledger[k] = None THEN None
              ELSE [request |-> ledger[k].request, policy |-> ledger[k].policy]]
GrantedOf == [k \in Keys |-> IF Reserved(k) THEN ledger[k].reservation.nonce ELSE None]
SpentOf == [k \in Keys |-> IF purchases[k] = None THEN None
              ELSE [request |-> purchases[k].request, nonce |-> purchases[k].nonce]]

ShownVars == <<FiledOf, consent, GrantedOf, SpentOf, reconciled>>

LEMMA AuthorityInitially == Init => Authority!Init
<1> SUFFICES ASSUME Init PROVE Authority!Init
  OBVIOUS
<1>1. /\ ledger = [k \in Keys |-> None] /\ consent = [k \in Keys |-> None]
      /\ reconciled = [k \in Keys |-> None] /\ purchases = [k \in Keys |-> None]
  BY DEF Init, EngineInit, TargetInit
<1>2. /\ FiledOf = [k \in Keys |-> None] /\ GrantedOf = [k \in Keys |-> None]
      /\ SpentOf = [k \in Keys |-> None]
  BY <1>1 DEF FiledOf, GrantedOf, SpentOf, Reserved
<1> QED
  BY <1>1, <1>2 DEF Authority!Init, Authority!Keys, Keys, FiledOf, GrantedOf, SpentOf

LEMMA AuthorityStutters ==
    ASSUME UNCHANGED <<ledger, consent, purchases, reconciled>>
    PROVE  UNCHANGED Authority!authorityVars
BY DEF Authority!authorityVars, Reserved

\* Filing a key's first action, or the same action again.
LEMMA AuthorityFiles ==
    ASSUME NEW k \in Keys, NEW f \in [request : Requests, policy : Policies],
           KeyOf(k[1], f.request) = k, FiledOf[k] \in {None, f},
           FiledOf' = [FiledOf EXCEPT ![k] = f],
           UNCHANGED <<consent, GrantedOf, SpentOf, reconciled>>
    PROVE  Authority!Next
<1>1. Authority!File(k)
  BY DEF Authority!File, Authority!Files, Authority!Filings, Authority!KeyOf, KeyOf,
         FiledOf, GrantedOf, SpentOf
<1> QED
  BY <1>1 DEF Authority!Next, Authority!Keys, Keys

LEMMA AuthorityGrants ==
    ASSUME NEW k \in Keys, NEW f \in [request : Requests, policy : Policies], NEW n \in Nonces,
           KeyOf(k[1], f.request) = k, FiledOf[k] \in {None, f},
           \/ Verdict(f.policy, f.request) = "allow"
           \/ Verdict(f.policy, f.request) = "require_approval" /\ consent[k] = f.request,
           GrantedOf[k] = None, \A j \in Keys : GrantedOf[j] # n,
           FiledOf' = [FiledOf EXCEPT ![k] = f],
           GrantedOf' = [GrantedOf EXCEPT ![k] = n],
           UNCHANGED <<consent, SpentOf, reconciled>>
    PROVE  Authority!Next
<1>1. Authority!Permitted(k, f)
  BY DEF Authority!Permitted
<1>2. Authority!Files(k, f)
  BY DEF Authority!Files, Authority!KeyOf, KeyOf, FiledOf
<1>3. Authority!Grant(k)
  BY <1>1, <1>2 DEF Authority!Grant, Authority!Filings, Authority!Keys, Keys, FiledOf, GrantedOf, SpentOf
<1> QED
  BY <1>3 DEF Authority!Next, Authority!Keys, Keys

LEMMA AuthorityConsents ==
    ASSUME NEW k \in Keys, FiledOf[k] # None, k[1] \notin OperatorScopes,
           consent' = [consent EXCEPT ![k] = FiledOf[k].request],
           UNCHANGED <<FiledOf, GrantedOf, SpentOf, reconciled>>
    PROVE  Authority!Next
<1>1. Authority!Consent(k)
  BY DEF Authority!Consent, FiledOf, GrantedOf, SpentOf
<1> QED
  BY <1>1 DEF Authority!Next, Authority!Keys, Keys

LEMMA AuthoritySpends ==
    ASSUME NEW k \in Keys, SpentOf[k] = None, GrantedOf[k] # None,
           SpentOf' = [SpentOf EXCEPT ![k] = [request |-> FiledOf[k].request,
                                              nonce |-> GrantedOf[k]]],
           UNCHANGED <<FiledOf, consent, GrantedOf, reconciled>>
    PROVE  Authority!Next
<1>1. Authority!Spend(k)
  BY DEF Authority!Spend, FiledOf, GrantedOf, SpentOf
<1> QED
  BY <1>1 DEF Authority!Next, Authority!Keys, Keys

LEMMA AuthoritySpendsUnguarded ==
    ASSUME NEW k \in Keys, NEW r \in Requests, KeyOf(k[1], r) = k, SpentOf[k] = None,
           SpentOf' = [SpentOf EXCEPT ![k] = [request |-> r, nonce |-> Unguarded]],
           UNCHANGED <<FiledOf, consent, GrantedOf, reconciled>>
    PROVE  Authority!Next
<1>1. Authority!SpendUnguarded(k)
  BY DEF Authority!SpendUnguarded, Authority!KeyOf, KeyOf, FiledOf, GrantedOf, SpentOf
<1> QED
  BY <1>1 DEF Authority!Next, Authority!Keys, Keys

LEMMA AuthorityConfirms ==
    ASSUME NEW k \in Keys, NEW answer \in BOOLEAN,
           answer => GrantedOf[k] # None /\ SpentOf[k] # None /\ SpentOf[k].nonce = GrantedOf[k],
           reconciled' = [reconciled EXCEPT ![k] = answer],
           UNCHANGED <<FiledOf, consent, GrantedOf, SpentOf>>
    PROVE  Authority!Next
<1>1. Authority!Confirm(k)
  BY DEF Authority!Confirm, FiledOf, GrantedOf, SpentOf
<1> QED
  BY <1>1 DEF Authority!Next, Authority!Keys, Keys

-----------------------------------------------------------------------------
(* A stored decision asks for an approval only where the policy the action   *)
(* is filed under does.  approve looks at the decision; the authority's      *)
(* Consent is about the policy.                                              *)

AskedIsNeeded ==
    \A k \in Keys :
        ledger[k] # None /\ ledger[k].decision.verdict = "require_approval" =>
            NeedsApproval(ledger[k])

LEMMA EvaluatedAsks ==
    ASSUME NEW s \in Undecided, NEW p \in Policies, NEW scope, NEW now \in Nat, s.policy = p
    PROVE  LET e == Evaluated(s, p, scope, now)
           IN  e.decision.verdict = "require_approval" => NeedsApproval(e)
<1> DEFINE v == IF Verdict(p, s.request) # "require_approval" THEN Verdict(p, s.request)
                ELSE IF {f \in s.approvals : ApprovalMatches(f, now)} = {}
                     THEN "require_approval"
                ELSE IF scope \in OperatorScopes THEN "block" ELSE "allow"
           e == Evaluated(s, p, scope, now)
<1>1. e = [s EXCEPT !.decision = [verdict |-> v, evaluated_at |-> now]]
  BY DEF Evaluated
<1>2. e.policy = p /\ e.request = s.request
  BY EvaluatedType
<1>3. v = "require_approval" => Verdict(p, s.request) = "require_approval"
  OBVIOUS
<1> HIDE DEF v, e
<1>4. e.decision.verdict = v
  BY <1>1 DEF Undecided
<1> QED
  BY <1>2, <1>3, <1>4 DEF NeedsApproval, e

\* What the transactions of a worker make of the stored decisions.
LEMMA AskedWrites ==
    ASSUME TypeInv, StoredInv, AskedIsNeeded, NEW w \in Workers,
           Evaluate(w) \/ Authorize(w) \/ Approve(w)
    PROVE  AskedIsNeeded'
<1> DEFINE c == call[w]
           p == policy[HostOf[w]]
           k == c.key
<1>1. c \in Calls /\ p \in Policies
  BY WorkerAssumption DEF TypeInv, TypeOK, EngineTypeOK, Evaluate, Authorize, Approve, Running
<1>2. k \in Keys /\ c.request \in Requests /\ c.observed \in Nat
  BY <1>1 DEF Calls
<1>3. SUFFICES ASSUME ~ UNCHANGED ledger
               PROVE  \E new : /\ ledger' = [ledger EXCEPT ![k] = new]
                               /\ new.decision.verdict = "require_approval" => NeedsApproval(new)
  BY <1>2 DEF TypeInv, TypeOK, EngineTypeOK, AskedIsNeeded
<1>4. CASE Evaluate(w) \/ Authorize(w)
  <2> DEFINE s == StateFor(k, c.request, p, c.observed)
             e == Evaluated(s, p, k[1], c.observed)
  <2>1. s \in Undecided
    BY <1>1, <1>2, StateForType DEF TypeInv, TypeOK
  <2>2. Refusal(s, c.request, p, c.observed) = None
    BY <1>3, <1>4 DEF Evaluate, Authorize
  <2>3. s.policy = p
    BY <2>2, AbsentAssumption DEF Refusal, Reasons
  <2>4. e \in States /\ (e.decision.verdict = "require_approval" => NeedsApproval(e))
    BY <1>1, <1>2, <2>1, <2>3, EvaluatedAsks, EvaluatedType
  <2>5. \/ ledger' = [ledger EXCEPT ![k] = e]
        \/ \E t : ledger' = [ledger EXCEPT ![k] = [e EXCEPT !.status = "reserved", !.reservation = t]]
    BY <1>3, <1>4, <2>2 DEF Evaluate, Authorize, Store, Reserve
  <2> HIDE DEF e
  <2>6. ASSUME NEW t
        PROVE  LET new == [e EXCEPT !.status = "reserved", !.reservation = t]
               IN  new.decision.verdict = "require_approval" => NeedsApproval(new)
    BY <2>4 DEF States, NeedsApproval
  <2> QED
    BY <2>4, <2>5, <2>6
<1>5. CASE Approve(w)
  <2> DEFINE s == ledger[k]
             f == ApprovalFact(s, c.observed)
             a == [s EXCEPT !.approvals = {f}, !.status = "approved"]
             e == Evaluated(a, p, k[1], c.observed)
  <2>1. ApprovalRefusal(s, c, p) = None
    BY <1>3, <1>5 DEF Approve
  <2>2. s # None /\ s.policy = p
    BY <2>1, AbsentAssumption DEF ApprovalRefusal, Reasons
  <2>3. s \in States
    BY <1>2, <2>2 DEF TypeInv, TypeOK, EngineTypeOK
  <2>4. f \in Approvals
    BY <2>3, <1>2, DomainAssumption DEF ApprovalFact, Approvals, States, Decisions
  <2> HIDE DEF f, s
  <2>5. a \in States /\ a.policy = p /\ a.request = s.request /\ a.decision = s.decision
    BY <2>2, <2>3, <2>4 DEF States
  <2>6. a.decision.verdict = "require_approval" => NeedsApproval(a)
    BY <1>2, <2>2, <2>5 DEF AskedIsNeeded, NeedsApproval, s
  <2>7. e.decision.verdict = "require_approval" => NeedsApproval(e)
    BY <1>1, <1>2, <2>5, EvaluatedAsks, StatesAreUndecided
  <2>8. ledger' = [ledger EXCEPT ![k] = a] \/ ledger' = [ledger EXCEPT ![k] = e]
    BY <1>3, <1>5 DEF Approve, Store, s, f
  <2> QED
    BY <2>6, <2>7, <2>8
<1> QED
  BY <1>4, <1>5

LEMMA AskedStep ==
    ASSUME TypeInv, StoredInv, AskedIsNeeded, [Next]_vars
    PROVE  AskedIsNeeded'
<1>1. CASE UNCHANGED ledger
  BY <1>1 DEF AskedIsNeeded, NeedsApproval
<1>2. CASE \E w \in Workers : Evaluate(w) \/ Authorize(w) \/ Approve(w)
  BY <1>2, AskedWrites
<1>3. CASE EngineStep
  BY <1>1, <1>2, <1>3 DEF EngineStep, ThreadStep, OperatorStep, Workers, CallEvaluate, CallAuthorize,
                          CallReconcile, Reconcile, Inspect, CallApprove, GiveUp, Restart
<1> QED
  BY <1>1, <1>3 DEF Next, vars, engineVars, Forward, Return

-----------------------------------------------------------------------------
(* Each step of the system is a step of the authority, or a stutter. *)

\* What the authority can see of an action that is written.
LEMMA FiledWritten ==
    ASSUME TypeInv, StoredInv, NEW k \in Keys, NEW new \in States, Writes(k, new)
    PROVE  LET f == [request |-> new.request, policy |-> new.policy]
           IN  /\ f \in [request : Requests, policy : Policies]
               /\ KeyOf(k[1], f.request) = k
               /\ FiledOf[k] \in {None, f}
               /\ FiledOf' = [FiledOf EXCEPT ![k] = f]
<1> DEFINE f == [request |-> new.request, policy |-> new.policy]
<1>1. f \in [request : Requests, policy : Policies] /\ KeyOf(k[1], new.request) = k
  BY DEF Writes, StoredOK, States
<1>2. FiledOf[k] \in {None, f}
  BY DEF FiledOf, Writes, Keeps
<1>3. ledger' = [ledger EXCEPT ![k] = new] /\ new # None
  BY AbsentAssumption DEF Writes
<1>4. \A j \in Keys : ledger'[j] = IF j = k THEN new ELSE ledger[j]
  BY <1>3 DEF TypeInv, TypeOK, EngineTypeOK
<1>5. FiledOf' = [FiledOf EXCEPT ![k] = f]
  BY <1>3, <1>4 DEF FiledOf
<1> QED
  BY <1>1, <1>2, <1>5

\* A write grants where it reserves for the first time, and nowhere else.
LEMMA GrantedWritten ==
    ASSUME TypeInv, StoredInv, NEW k \in Keys, NEW new \in States, Writes(k, new)
    PROVE  \/ UNCHANGED GrantedOf
           \/ /\ new.status = "reserved" /\ new.reservation.nonce \in Nonces
              /\ GrantedOf[k] = None
              /\ \A j \in Keys : GrantedOf[j] # new.reservation.nonce
              /\ GrantedOf' = [GrantedOf EXCEPT ![k] = new.reservation.nonce]
<1>1. ledger' = [ledger EXCEPT ![k] = new] /\ new # None
  BY AbsentAssumption DEF Writes
<1>2. \A j \in Keys : ledger'[j] = IF j = k THEN new ELSE ledger[j]
  BY <1>1 DEF TypeInv, TypeOK, EngineTypeOK
<1>3. \A j \in Keys \ {k} : /\ Reserved(j)' <=> Reserved(j)
                            /\ ledger'[j] = ledger[j]
  BY <1>2 DEF Reserved
<1>4. Reserved(k)' <=> new.status = "reserved"
  BY <1>1, <1>2 DEF Reserved
<1>5. CASE Reserved(k) \/ new.status # "reserved"
  <2>1. Reserved(k)' <=> Reserved(k)
    BY <1>4, <1>5 DEF Writes, Keeps, Reserved
  <2>2. Reserved(k) => ledger'[k].reservation = ledger[k].reservation
    BY <1>2 DEF Writes, Keeps, Reserved
  <2> QED
    BY <1>3, <2>1, <2>2 DEF GrantedOf
<1>6. CASE ~ Reserved(k) /\ new.status = "reserved"
  <2> DEFINE n == new.reservation.nonce
  <2>1. n \notin ReservedNonces
    BY <1>6 DEF Writes
  <2>2. n \in Nonces
    BY <1>6, <1>1 DEF Writes, StoredOK, States, Tickets
  <2>3. \A j \in Keys : GrantedOf[j] # n
    BY <2>1, <2>2, DomainAssumption DEF GrantedOf, Reserved, ReservedNonces
  <2>4. GrantedOf' = [GrantedOf EXCEPT ![k] = n]
    BY <1>2, <1>3, <1>4, <1>6 DEF GrantedOf
  <2> QED
    BY <1>6, <2>2, <2>3, <2>4 DEF GrantedOf
<1> QED
  BY <1>5, <1>6

\* An engine step that records no consent and no reconciliation files, grants
\* or stutters.  What makes the grant permitted are the invariants of the
\* state it leads to.
LEMMA LedgerStepRefines ==
    ASSUME TypeInv, StoredInv, StoredInv', ConsentInv', EngineEffect,
           UNCHANGED <<consent, reconciled, purchases>>
    PROVE  [Authority!Next]_Authority!authorityVars
<1>1. CASE UNCHANGED ledger
  BY <1>1, AuthorityStutters
<1>2. CASE ~ UNCHANGED ledger
  <2>1. PICK k \in Keys, new \in States : Writes(k, new)
    BY <1>2 DEF EngineEffect
  <2> DEFINE f == [request |-> new.request, policy |-> new.policy]
  <2>2. /\ f \in [request : Requests, policy : Policies]
        /\ KeyOf(k[1], f.request) = k /\ FiledOf[k] \in {None, f}
        /\ FiledOf' = [FiledOf EXCEPT ![k] = f]
    BY <2>1, FiledWritten
  <2>3. SpentOf' = SpentOf
    BY DEF SpentOf
  <2>4. CASE UNCHANGED GrantedOf
    BY <2>2, <2>3, <2>4, AuthorityFiles
  <2>5. CASE /\ new.status = "reserved" /\ new.reservation.nonce \in Nonces
             /\ GrantedOf[k] = None
             /\ \A j \in Keys : GrantedOf[j] # new.reservation.nonce
             /\ GrantedOf' = [GrantedOf EXCEPT ![k] = new.reservation.nonce]
    <3>1. ledger'[k] = new /\ new # None
      BY <2>1, AbsentAssumption DEF Writes, TypeInv, TypeOK, EngineTypeOK
    <3>2. Verdict(f.policy, f.request) # "block"
      BY <2>1, <2>5 DEF Writes, StoredOK
    <3>3. Verdict(f.policy, f.request) \in Verdicts
      BY <2>2, DomainAssumption
    <3>4. Verdict(f.policy, f.request) = "require_approval" => consent[k] = f.request
      BY <2>5, <3>1 DEF ConsentInv, ConsentOK, NeedsApproval
    <3> QED
      BY <2>2, <2>3, <2>5, <3>2, <3>3, <3>4, AuthorityGrants DEF Verdicts
  <2> QED
    BY <2>1, <2>4, <2>5, GrantedWritten
<1> QED
  BY <1>1, <1>2

\* An approve run that is answered with success is the consent of somebody
\* other than the actor, to what is filed.
LEMMA ApproveRefines ==
    ASSUME TypeInv, StoredInv, StoredInv', ConsentInv, ConsentInv', AskedIsNeeded, EngineEffect,
           NEW w \in Operators, Approve(w), UNCHANGED purchases
    PROVE  [Authority!Next]_Authority!authorityVars
<1> DEFINE c == call[w]
           p == policy[HostOf[w]]
           k == c.key
           s == ledger[k]
           f == ApprovalFact(s, c.observed)
           a == [s EXCEPT !.approvals = {f}, !.status = "approved"]
           e == Evaluated(a, p, k[1], c.observed)
<1>1. w \in Workers /\ UNCHANGED reconciled
  BY DEF Workers, Approve
<1>2. CASE UNCHANGED consent
  BY <1>1, <1>2, LedgerStepRefines
<1>3. CASE ~ UNCHANGED consent
  <2>1. /\ ApprovalRefusal(s, c, p) = None
        /\ e.decision.verdict = "allow"
        /\ ledger' = [ledger EXCEPT ![k] = e]
        /\ consent' = [consent EXCEPT ![k] = c.request]
    BY <1>3 DEF Approve, Store
  <2>2. c \in Calls /\ p \in Policies
    BY <1>1, WorkerAssumption DEF TypeInv, TypeOK, EngineTypeOK, Approve, Running
  <2>3. k \in Keys /\ c.observed \in Nat
    BY <2>2 DEF Calls
  <2>4. /\ s # None /\ s.status = "pending" /\ s.policy = p
        /\ s.decision.verdict = "require_approval"
    BY <2>1, AbsentAssumption DEF ApprovalRefusal, Reasons
  <2>5. s \in States
    BY <2>3, <2>4 DEF TypeInv, TypeOK, EngineTypeOK
  <2>6. f \in Approvals
    BY <2>3, <2>5, DomainAssumption DEF ApprovalFact, Approvals, States, Decisions
  <2>7. s.request = c.request
    BY <1>1, <2>4 DEF ConsentInv, CallTimeOK, Approve, Running
  <2>8. Verdict(p, s.request) = "require_approval"
    BY <2>3, <2>4 DEF AskedIsNeeded, NeedsApproval
  <2> HIDE DEF f, s
  <2>9. /\ a \in States /\ a.request = s.request /\ a.policy = s.policy
        /\ a.status = "approved"
    BY <2>5, <2>6 DEF States
  <2> HIDE DEF a
  <2>10. k[1] \notin OperatorScopes
    BY <2>1, <2>2, <2>3, <2>8, <2>9, AllowedWasApproved, StatesAreUndecided
  <2>11. /\ e \in States /\ e.request = s.request /\ e.policy = s.policy
         /\ e.status = "approved"
    BY <2>2, <2>3, <2>9, EvaluatedType, StatesAreUndecided
  <2> HIDE DEF e
  <2>12. e # None
    BY <2>11, AbsentAssumption
  <2>13. \A j \in Keys : ledger'[j] = IF j = k THEN e ELSE ledger[j]
    BY <2>1 DEF TypeInv, TypeOK, EngineTypeOK
  <2>14. UNCHANGED FiledOf
    BY <2>4, <2>11, <2>12, <2>13 DEF FiledOf, s
  <2>15. UNCHANGED GrantedOf
    BY <2>4, <2>11, <2>13 DEF GrantedOf, Reserved, s
  <2>16. UNCHANGED SpentOf
    BY DEF SpentOf
  <2>17. FiledOf[k] # None /\ FiledOf[k].request = c.request
    <3>1. FiledOf[k] = [request |-> s.request, policy |-> s.policy]
      BY <2>3, <2>4 DEF FiledOf, s
    <3>2. s.request \in Requests /\ s.policy \in Policies
      BY <2>5 DEF States
    <3> QED
      BY <3>1, <3>2, <2>7, ShownAbsentAssumption
  <2> QED
    BY <1>1, <2>1, <2>3, <2>10, <2>14, <2>15, <2>16, <2>17, AuthorityConsents DEF c, k
<1> QED
  BY <1>2, <1>3

\* A reconciliation that verifies is about a purchase made by the grant.
LEMMA ReconcileRefines ==
    ASSUME SafetyInv, SafetyInv', NEW w \in Workers, Reconcile(w), UNCHANGED purchases
    PROVE  Authority!Next
<1> DEFINE k == call[w].key
           answer == ClaimVerifies(ledger[k], call[w])
<1>1. k \in Keys
  BY DEF SafetyInv, TypeInv, TypeOK, EngineTypeOK, Reconcile, Running, Calls
<1>2. reconciled' = [reconciled EXCEPT ![k] = answer] /\ UNCHANGED <<ledger, consent>>
  BY DEF Reconcile
<1>3. answer \in BOOLEAN
  BY DEF ClaimVerifies
<1>4. ASSUME answer
      PROVE  GrantedOf[k] # None /\ SpentOf[k] # None /\ SpentOf[k].nonce = GrantedOf[k]
  <2>1. reconciled'[k] = TRUE
    BY <1>1, <1>2, <1>3, <1>4 DEF SafetyInv, TypeInv, TypeOK, EngineTypeOK
  <2>2. VerifiedMeansPurchased'
    BY DEF SafetyInv, PurchaseInv
  <2>3. /\ Reserved(k) /\ purchases[k] # None
        /\ purchases[k].nonce = ledger[k].reservation.nonce
    BY <1>1, <1>2, <2>1, <2>2 DEF VerifiedMeansPurchased, Reserved
  <2>4. purchases[k] \in Receipts
    BY <1>1, <2>3 DEF SafetyInv, TypeInv, TypeOK, TargetTypeOK
  <2>5. ledger[k].reservation \in Tickets
    BY <1>1, <2>3 DEF SafetyInv, TypeInv, TypeOK, EngineTypeOK, StoredInv, StoredOK, States, Reserved
  <2>6. GrantedOf[k] = ledger[k].reservation.nonce /\ GrantedOf[k] \in Nonces
    BY <1>1, <2>3, <2>5 DEF GrantedOf, Tickets
  <2>7. SpentOf[k] = [request |-> purchases[k].request, nonce |-> purchases[k].nonce]
    BY <1>1, <2>3 DEF SpentOf
  <2>8. SpentOf[k] # None
    BY <2>4, <2>7, ShownAbsentAssumption DEF Receipts
  <2> QED
    BY <2>3, <2>6, <2>7, <2>8, DomainAssumption
<1>5. UNCHANGED <<FiledOf, GrantedOf, SpentOf>>
  BY <1>2 DEF FiledOf, GrantedOf, SpentOf, Reserved
<1> QED
  BY <1>1, <1>2, <1>3, <1>4, <1>5, AuthorityConfirms

\* The target's transaction spends the key's grant, or makes the baseline's
\* purchase, or answers what was spent before.
LEMMA CommitRefines ==
    ASSUME SafetyInv, NEW u \in Servers, Commit(u), UNCHANGED <<ledger, consent, reconciled>>
    PROVE  [Authority!Next]_Authority!authorityVars
<1> DEFINE v == serving[u]
           k == KeyOf(v.scope, v.request)
           b == [scope |-> v.scope, request |-> v.request, nonce |-> v.nonce,
                 committed_at |-> v.observed]
<1>1. v # None /\ v.outcome = None /\ v \in Servings
  BY DEF SafetyInv, TypeInv, TypeOK, TargetTypeOK, Commit
<1>2. k \in Keys /\ KeyOf(k[1], v.request) = k /\ b \in Receipts
  BY <1>1, KeyOfType, KeyOfScope DEF Servings, Receipts
<1>3. CASE UNCHANGED purchases
  BY <1>3, AuthorityStutters
<1>4. CASE purchases[k] = None /\ purchases' = [purchases EXCEPT ![k] = b]
  <2>1. b # None
    BY <1>2, TargetAbsentAssumption
  <2>2. \A j \in Keys : purchases'[j] = IF j = k THEN b ELSE purchases[j]
    BY <1>4 DEF SafetyInv, TypeInv, TypeOK, TargetTypeOK
  <2>3. SpentOf[k] = None
    BY <1>2, <1>4 DEF SpentOf
  <2>4. SpentOf' = [SpentOf EXCEPT ![k] = [request |-> v.request, nonce |-> v.nonce]]
    <3>1. b.request = v.request /\ b.nonce = v.nonce
      OBVIOUS
    <3> HIDE DEF b
    <3> QED
      BY <1>2, <2>1, <2>2, <3>1 DEF SpentOf
  <2>5. UNCHANGED <<FiledOf, GrantedOf>>
    BY DEF FiledOf, GrantedOf, Reserved
  <2>6. CASE v.nonce = Unguarded
    <3>1. v.request \in Requests
      BY <1>1 DEF Servings
    <3> QED
      BY <1>2, <2>3, <2>4, <2>5, <2>6, <3>1, AuthoritySpendsUnguarded
  <2>7. CASE v.nonce # Unguarded
    <3>1. IsReserved(k, v.nonce, v.request, v.observed)
      BY <1>1, <2>7 DEF SafetyInv, PurchaseInv, ServingIsReserved
    <3>2. GrantedOf[k] = v.nonce /\ FiledOf[k].request = v.request
      BY <1>2, <3>1 DEF IsReserved, Reserved, GrantedOf, FiledOf
    <3>3. v.nonce # None
      BY <1>1, <2>7, DomainAssumption DEF Servings
    <3> QED
      BY <1>2, <2>3, <2>4, <2>5, <3>2, <3>3, AuthoritySpends
  <2> QED
    BY <2>6, <2>7
<1> QED
  BY <1>3, <1>4 DEF Commit, Previous

RefinementInv == SafetyInv /\ ConsentInv /\ AskedIsNeeded

LEMMA StepRefines ==
    ASSUME RefinementInv, RefinementInv', [Next]_vars
    PROVE  [Authority!Next]_Authority!authorityVars
<1> USE DEF RefinementInv
<1>1. EngineEffect
  BY NextEffect DEF SafetyInv
<1>2. CASE UNCHANGED <<ledger, consent, purchases, reconciled>>
  BY <1>2, AuthorityStutters
<1>3. CASE EngineStep /\ UNCHANGED targetVars
  <2>1. UNCHANGED purchases
    BY <1>3 DEF targetVars
  <2>2. ASSUME NEW w \in Threads, Evaluate(w) \/ Authorize(w)
        PROVE  [Authority!Next]_Authority!authorityVars
    BY <1>1, <2>1, <2>2, LedgerStepRefines DEF SafetyInv, Evaluate, Authorize
  <2>3. ASSUME NEW w \in Threads, Reconcile(w) PROVE [Authority!Next]_Authority!authorityVars
    BY <2>1, <2>3, ReconcileRefines DEF Workers
  <2>4. ASSUME NEW w \in Operators, Approve(w) PROVE [Authority!Next]_Authority!authorityVars
    BY <1>1, <2>1, <2>4, ApproveRefines DEF SafetyInv
  <2>5. \/ UNCHANGED <<ledger, consent, reconciled>>
        \/ \E w \in Threads : Evaluate(w) \/ Authorize(w) \/ Reconcile(w)
        \/ \E w \in Operators : Approve(w)
    BY <1>3 DEF EngineStep, ThreadStep, OperatorStep, CallEvaluate, CallAuthorize,
                CallReconcile, Inspect, CallApprove, GiveUp, Restart
  <2> QED
    BY <1>2, <2>1, <2>2, <2>3, <2>4, <2>5
<1>4. CASE TargetStep /\ UNCHANGED engineVars
  <2>1. UNCHANGED <<ledger, consent, reconciled>>
    BY <1>4 DEF engineVars
  <2>2. ASSUME NEW u \in Servers, Commit(u) PROVE [Authority!Next]_Authority!authorityVars
    BY <2>1, <2>2, CommitRefines
  <2> QED
    BY <1>2, <1>4, <2>1, <2>2 DEF TargetStep, Accept, AcceptUnguarded, Answer, LoseCall
<1>5. ASSUME NEW w \in Threads, Forward(w), UNCHANGED targetVars
      PROVE  UNCHANGED <<ledger, consent, purchases, reconciled>>
  BY <1>5 DEF Forward, Return, targetVars
<1> QED
  BY <1>2, <1>3, <1>4, <1>5 DEF Next, vars, engineVars, targetVars

\* Engine, wire and target, with every interleaving, loss, repetition and
\* restart, are an authority that is filed once, granted at most once and only
\* as the filed policy and a consent permit, spent at most once by its grant,
\* and confirmed only when spent.
THEOREM Refinement == Spec => ImplementsOneUseAuthority
<1>1. Init => AskedIsNeeded
  BY DEF Init, EngineInit, AskedIsNeeded
<1>2. SafetyInv /\ AskedIsNeeded /\ [Next]_vars => AskedIsNeeded'
  BY AskedStep DEF SafetyInv
<1>3. SafetyInv /\ ConsentInv /\ AskedIsNeeded
         /\ (SafetyInv /\ ConsentInv /\ AskedIsNeeded)' /\ [Next]_vars
         => [Authority!Next]_Authority!authorityVars
  BY StepRefines DEF RefinementInv
<1> QED
  BY <1>1, <1>2, <1>3, AuthorityInitially, SafetyInvariant, AlwaysConsentInv, PTL
     DEF Spec, ImplementsOneUseAuthority, Authority!Spec
=============================================================================
