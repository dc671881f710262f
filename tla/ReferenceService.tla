-------------------------- MODULE ReferenceService --------------------------
(***************************************************************************)
(* The stateless reference control plane: decide, recheck and the receipt  *)
(* assessment over an immutable catalog.  The service remembers nothing:   *)
(* callers bring back the decisions it judges, possibly edited, and name   *)
(* the selection and, if they like, the time of each request.  The         *)
(* variables record what callers hold and what they were answered.         *)
(***************************************************************************)
EXTENDS ControlEvaluation

CONSTANTS
    Intents,      \* ActionIntents callers propose
    Selections,   \* what a pack or control selection resolves to, see Resolve
    Scenarios,    \* reference scenarios of the release: exact input, facts
    MaxTime, MaxHeld, MaxAnswers, MaxReceipts    \* bounds

ASSUME ServiceAssumption ==
    /\ MaxTime \in Nat /\ MaxHeld \in Nat /\ MaxAnswers \in Nat /\ MaxReceipts \in Nat
    /\ \A sel \in Selections : \A c \in sel.controls : WellFormedControl(c)
    /\ \A x \in Scenarios : IsFiniteSet(x.facts.approvals)

VARIABLES
    held,        \* decisions callers hold, returned or edited
    returned,    \* decisions the service returned
    answers,     \* recheck responses, with the time of the request
    receipts     \* receipts assessed

vars == <<held, returned, answers, receipts>>

\* The time of a request is its reference_time or the server's clock: any time,
\* in any order.
Times == 0..MaxTime

\* The selected controls and the verifiers and extensions their packs declare;
\* a selection that is absent, disabled or of another digest does not resolve.
Resolves(sel) == sel.enabled /\ sel.digest_matches
Resolve(sel, t) ==
    [controls |-> sel.controls, observed |-> t, supported |-> sel.supported, sealed |-> TRUE]

EmptyFacts == [basis |-> None, approvals |-> {}, evidence |-> {}, profiles |-> {}]

\* Fault: the latest scenario before the request is good enough.
MatchesLatest(i, sel, t) ==
    {x \in Scenarios : x.intent = i /\ x.selection = sel /\ x.time <= t}

\* Scenario resolution is exact: no nearest time, no near selection.
Matches(i, sel, t) ==
    {x \in Scenarios : x.intent = i /\ x.selection = sel /\ x.time = t}
Ambiguous(i, sel, t) == Cardinality(Matches(i, sel, t)) > 1
FactsFor(i, sel, t) ==
    IF Matches(i, sel, t) = {} THEN EmptyFacts
    ELSE (CHOOSE x \in Matches(i, sel, t) : TRUE).facts

\* The registry of each evaluator is what its snapshot supports.
Decision(i, sel, t) ==
    Evaluate(i, Resolve(sel, t), FactsFor(i, sel, t), sel.supported)

-----------------------------------------------------------------------------
Init ==
    /\ held = {} /\ returned = {} /\ answers = {} /\ receipts = {}

Decide(i, sel, t) ==
    /\ Cardinality(held) < MaxHeld
    /\ i.sealed /\ Resolves(sel) /\ ~Ambiguous(i, sel, t)
    /\ \E d \in {Decision(i, sel, t)} \ {None} :
        /\ held' = held \cup {d}
        /\ returned' = returned \cup {d}
    /\ UNCHANGED <<answers, receipts>>

\* A caller hands back something else than it got: a stale digest, a longer
\* window, or a verdict and route of its own, sealed again.
Edit(d, e) ==
    /\ Cardinality(held) < MaxHeld
    /\ AcceptableDecision(e)
    /\ held' = held \cup {e}
    /\ UNCHANGED <<returned, answers, receipts>>

VerifiesPrior(original, prior) ==
    original.sealed /\ prior.sealed /\ prior.intent = original

\* Fault: the controls are still listed, whether in force or not.
ControlsListed(prior, s, t) == prior.controls \subseteq s.controls

ControlsStand(prior, s, t) ==
    /\ prior.controls \subseteq s.controls
    /\ \A c \in prior.controls : Effective(c, t)

\* The prior is compared with what the service decides on its own instant; the
\* time of the request only decides whether window and controls still hold.
RecheckResponse(prior, current, sel, t) ==
    LET then == prior.evaluated
        Answer(reason) == [valid |-> FALSE, prior |-> prior, reason |-> reason]
    IN  IF t >= prior.expires THEN Answer("expired")
        ELSE IF ~ControlsStand(prior, Resolve(sel, t), t) THEN Answer("current_control_ineffective")
        ELSE Recheck(prior, current, Resolve(sel, then),
                     FactsFor(current, sel, then), sel.supported)

Accepts(original, prior, current, sel) ==
    /\ VerifiesPrior(original, prior)
    /\ current.sealed /\ Resolves(sel)
    /\ ~Ambiguous(current, sel, prior.evaluated)

AnswerRecheck(original, prior, current, sel, t) ==
    /\ Cardinality(answers) < MaxAnswers
    /\ Accepts(original, prior, current, sel)
    /\ answers' = answers \cup
            {[result |-> RecheckResponse(prior, current, sel, t), selection |-> sel, at |-> t]}
    /\ UNCHANGED <<held, returned, receipts>>

\* What the caller reports is never an execution the service observed.
Observation(report, t) ==
    [route |-> report.route, outcome |-> "not_executed",
     occurred |-> report.occurred, recorded |-> t, sealed |-> TRUE]

AnswerReceipt(d, i, sel, report, t) ==
    /\ Cardinality(receipts) < MaxReceipts
    /\ t >= report.occurred
    /\ Accepts(i, d, i, sel)
    /\ \E checked \in {RecheckResponse(d, i, sel, t)},
          facts \in {FactsFor(i, sel, d.evaluated)} :
       \E receipt \in {AssessReceipt(d, i, checked, facts, Observation(report, t))} \ {None} :
        /\ receipt.status # "complete"    \* raised otherwise
        /\ receipts' = receipts \cup {receipt}
    /\ UNCHANGED <<held, returned, answers>>

\* The permissive verdict and route an edit may claim come from some control.
Claimed(d) ==
    {[d EXCEPT !.sealed = FALSE], [d EXCEPT !.expires = @ + 1]} \cup
    {[d EXCEPT !.verdict = "allow", !.route = c.effect.route] : c \in d.snapshot.controls}

Next ==
    \/ \E i \in Intents, sel \in Selections, t \in Times : Decide(i, sel, t)
    \/ \E d \in returned : \E e \in Claimed(d) : Edit(d, e)
    \/ \E prior \in held, original, current \in Intents, sel \in Selections, t \in Times :
            AnswerRecheck(original, prior, current, sel, t)
    \/ \E d \in held, i \in Intents, sel \in Selections, t \in Times :
            \E route \in {d.route, SafetyRoute(FALSE)}, occurred \in Times :
                AnswerReceipt(d, i, sel, [route |-> route, occurred |-> occurred], t)

Spec == Init /\ [][Next]_vars

-----------------------------------------------------------------------------
(* Properties *)

Standing(d, sel, t) ==
    /\ d.sealed
    /\ d = Decision(d.intent, sel, d.evaluated)
    /\ t < d.expires
    /\ \A c \in d.controls : Effective(c, d.evaluated) /\ Effective(c, t)

\* The service has no memory and still cannot be told what it said: a recheck
\* is valid only for a decision that it would itself return for that intent,
\* selection and instant, whose window is open and whose controls are all in
\* force both then and now (reference_service.py, recheck and _comparisons).
ValidMeansStanding ==
    \A a \in answers : a.result.valid => Standing(a.result.prior, a.selection, a.at)

\* A receipt that finds nothing but evidence missing is about a permissive
\* decision of the service that stood when the report was recorded, on its route
\* and inside its window: an edited decision and a late report both end in a
\* failed receipt, and none ends in a complete one
\* (reference_service.py, assess_receipt).
IncompleteMeansStanding ==
    \A r \in receipts :
        r.status = "incomplete" =>
            /\ r.decision.verdict \in Permissive /\ r.seen.route = r.decision.route
            /\ r.seen.occurred >= r.decision.evaluated
            /\ r.seen.recorded >= r.seen.occurred
            /\ \E sel \in Selections : Standing(r.decision, sel, r.seen.recorded)

\* Approvals do not travel: what a permissive decision found valid asks of people
\* was answered in the one scenario of the release that has its intent, its
\* selection and its instant, by enough facts on that very intent that had not
\* run out then, whatever other scenarios hold
\* (reference_service.py, ImmutableScenarioFactProvider._matches).
ApprovalsStayInTheirScenario ==
    \A a \in answers :
        LET d == a.result.prior
        IN  a.result.valid /\ d.verdict \in Permissive =>
            \A c \in d.controls : \A r \in {q \in c.effect.requirements : q.type = "approval"} :
                \E x \in Scenarios :
                    /\ x.intent = d.intent /\ x.time = d.evaluated /\ x.selection = a.selection
                    /\ \E given \in SUBSET x.facts.approvals :
                        /\ Cardinality(given) >= r.minimum_count
                        /\ \A f \in given :
                            /\ f.requirement = r.id /\ f.intent = d.intent
                            /\ f.from <= d.evaluated /\ d.evaluated < f.until
                            /\ r.separate_from_actor => Disjoint(f.lineage, d.intent.lineage)
=============================================================================
