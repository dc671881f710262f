------------------------- MODULE EvaluationSession -------------------------
(***************************************************************************)
(* A host that owns the trusted inputs of the evaluation core and drives   *)
(* it: it publishes and retires controls, collects approvals of a decision *)
(* and evidence of an action, and between any two of these evaluates,      *)
(* rechecks a decision it holds, or asks for a receipt.  The core keeps no *)
(* state; what goes wrong goes wrong between its calls.                    *)
(***************************************************************************)
EXTENDS ControlEvaluation

CONSTANTS
    Hosts,       \* the deployments, see HostFields
    Registry,    \* verifier_registry of the evaluator, also supported
    Validity,    \* how long an approval holds
    MaxTime      \* bound on the clock

\* What a deployment may publish, is asked and is shown, and how much of it:
\* the forms are facts before they name a decision, an intent and a time.
HostFields ==
    {"controls", "intents", "approvals", "certificates", "profiles",
     "max_decisions", "max_checks", "max_receipts", "max_facts"}

ProfileFields ==
    {"verifier", "intent", "control", "snapshot", "status", "verdict", "route",
     "approvals", "evidence", "sealed"}

ASSUME SessionAssumption ==
    /\ MaxTime \in Nat /\ Validity \in Nat \ {0}
    /\ \A h \in Hosts :
        /\ DOMAIN h = HostFields
        /\ \A c \in h.controls : WellFormedControl(c)
        /\ \A form \in h.approvals : {"basis", "intent", "from", "until"} \subseteq DOMAIN form
        /\ \A form \in h.certificates : {"ref", "intent", "verified_at"} \subseteq DOMAIN form
        /\ \A form \in h.profiles :
            ProfileFields \subseteq DOMAIN form /\ WellFormedProfile(form)

VARIABLES
    host,        \* the deployment
    clock,
    published,   \* controls in the host's snapshot
    approvals,   \* ApprovalFacts the host has verified
    evidence,    \* VerifiedEvidenceFacts the host has verified
    issued,      \* decisions returned
    checks,      \* recheck results returned, with the instant of the call
    receipts     \* receipts returned

vars == <<host, clock, published, approvals, evidence, issued, checks, receipts>>

Controls == host.controls
Intents == host.intents

SnapshotOf(controls) ==
    [controls |-> controls, observed |-> clock, supported |-> Registry, sealed |-> TRUE]
Snapshot == SnapshotOf(published)

\* A profile is assessed for the very intent and snapshot under evaluation.
FactsFor(i, s, basis) ==
    [basis |-> basis, approvals |-> approvals, evidence |-> evidence,
     profiles |-> {[form EXCEPT !.intent = i, !.snapshot = s] : form \in host.profiles}]

DecisionNow(i, basis) == Evaluate(i, Snapshot, FactsFor(i, Snapshot, basis), Registry)

Init ==
    /\ host \in Hosts /\ clock = 0
    /\ published = {} /\ approvals = {} /\ evidence = {}
    /\ issued = {} /\ checks = {} /\ receipts = {}

Tick ==
    /\ clock < MaxTime
    /\ clock' = clock + 1
    /\ UNCHANGED <<host, published, approvals, evidence, issued, checks, receipts>>

Publish(c) ==
    /\ published' = published \cup {c}
    /\ UNCHANGED <<host, clock, approvals, evidence, issued, checks, receipts>>

Retire(c) ==
    /\ published' = published \ {c}
    /\ UNCHANGED <<host, clock, approvals, evidence, issued, checks, receipts>>

\* An approver is shown a decision and answers what it asks for.
Approve(form, d) ==
    /\ Cardinality(approvals) < host.max_facts
    /\ \E r \in d.approvals : r.id = form.requirement
    /\ approvals' = approvals \cup
            {[form EXCEPT !.basis = d, !.intent = d.intent,
                          !.from = clock, !.until = clock + Validity]}
    /\ UNCHANGED <<host, clock, published, evidence, issued, checks, receipts>>

Certify(form, i) ==
    /\ Cardinality(evidence) < host.max_facts
    /\ evidence' = evidence \cup {[form EXCEPT !.intent = i, !.verified_at = clock]}
    /\ UNCHANGED <<host, clock, published, approvals, issued, checks, receipts>>

EvaluateNow(i, basis) ==
    /\ Cardinality(issued) < host.max_decisions
    /\ \E d \in {DecisionNow(i, basis)} \ {None} : issued' = issued \cup {d}
    /\ UNCHANGED <<host, clock, published, approvals, evidence, checks, receipts>>

RecheckNow(d, i) ==
    /\ Cardinality(checks) < host.max_checks
    /\ checks' = checks \cup
            {[result |-> Recheck(d, i, Snapshot, FactsFor(i, Snapshot, d.predecessor), Registry),
              at |-> clock]}
    /\ UNCHANGED <<host, clock, published, approvals, evidence, issued, receipts>>

\* The executor observed the action; the host records it now.
ReceiptNow(k, i, route, outcome, occurred) ==
    LET seen == [route |-> route, outcome |-> outcome, occurred |-> occurred,
                 recorded |-> clock, sealed |-> TRUE]
        d == k.result.prior
        facts == FactsFor(i, Snapshot, d.predecessor)
    IN  /\ Cardinality(receipts) < host.max_receipts
        /\ \E receipt \in {AssessReceipt(d, i, k.result, facts, seen)} \ {None} :
                receipts' = receipts \cup {receipt}
        /\ UNCHANGED <<host, clock, published, approvals, evidence, issued, checks>>

Next ==
    \/ Tick
    \/ \E c \in Controls \ published : Publish(c)
    \/ \E c \in published : Retire(c)
    \/ \E form \in host.approvals, d \in issued : Approve(form, d)
    \/ \E form \in host.certificates, i \in Intents : Certify(form, i)
    \/ \E i \in Intents, basis \in issued \cup {None} : EvaluateNow(i, basis)
    \/ \E d \in issued, i \in Intents : RecheckNow(d, i)
    \/ \E k \in checks, i \in Intents, d \in issued,
          outcome \in {"succeeded", "aborted"}, occurred \in 0..clock :
            ReceiptNow(k, i, d.route, outcome, occurred)

Spec == Init /\ [][Next]_vars

-----------------------------------------------------------------------------
(* Safety *)

\* A permissive decision rests on people.  Every approval an applied control
\* requires was given, by enough facts, in answer to an earlier decision on the
\* very same intent, by approvers who share no lineage with the actor where
\* that is asked, and none of those approvals had run out (requirements.py,
\* _approval_matches and _independence_fails; composition.py, compose).
PermissionIsConsented ==
    \A d \in issued : d.verdict \in Permissive =>
        \A c \in d.controls : \A r \in {q \in c.effect.requirements : q.type = "approval"} :
            \E given \in SUBSET approvals :
                /\ Cardinality(given) >= r.minimum_count
                /\ \A f \in given :
                    /\ f.requirement = r.id
                    /\ f.basis \in issued /\ f.basis = d.predecessor
                    /\ f.basis.intent = d.intent /\ f.basis.evaluated <= f.from
                    /\ f.from <= d.evaluated /\ d.evaluated < f.from + Validity
                    /\ r.separate_from_actor => Disjoint(f.lineage, d.intent.lineage)

\* A control that applies but cannot be decided, because its predicate reads
\* what the intent does not say, never ends in a permissive decision
\* (selection.py, select_controls: on_unknown).
UnknownNeverPermits ==
    \A d \in issued : d.verdict \in Permissive =>
        \A c \in Applicable(d.intent, d.snapshot) :
            "unknown" \in PredicateResults(c, d.intent) =>
                "false" \in PredicateResults(c, d.intent)

\* A valid recheck says nothing about later: because a decision binds the
\* instant of its snapshot and all facts, only a recheck at that very instant,
\* with no control published or retired in between, is valid
\* (recheck.py: current != prior; evaluator.py, _decision).
RecheckOnlyInTheInstant ==
    \A k \in checks : k.result.valid =>
        /\ k.at = k.result.prior.evaluated
        /\ k.at < k.result.prior.expires
        /\ \E d \in issued : d.evaluated = k.at /\ d.controls = k.result.prior.controls

\* A complete receipt is earned: its decision was permissive, the action was
\* observed on the decided route before the decision expired, a recheck found
\* the decision standing, and every control applied got the evidence it requires
\* about this very intent, from producers independent of the actor, before the
\* receipt was recorded (receipt.py, assess_receipt and _evidence_matches).
CompletionIsEarned ==
    \A x \in receipts : x.status = "complete" =>
        /\ x.decision.verdict \in Permissive
        /\ x.seen.outcome = "succeeded" /\ x.seen.route = x.decision.route
        /\ x.seen.occurred \in x.decision.evaluated..(x.decision.expires - 1)
        /\ \E k \in checks : k.result.valid /\ k.result.prior = x.decision
        /\ \A c \in x.decision.controls :
             \A r \in {q \in c.effect.requirements : q.type = "evidence"} :
                \E proofs \in SUBSET evidence :
                    /\ Cardinality(proofs) >= r.minimum_count
                    /\ \A f \in proofs :
                        /\ f.intent = x.decision.intent /\ f.kind = r.kind
                        /\ f.verified_at <= x.seen.recorded
                        /\ r.producer_not_actor => Disjoint(f.producer, f.intent.lineage)

\* What evaluate would return reads neither evidence, rechecks nor receipts, so
\* the three properties about it look at the states that hold none.
Deciding == evidence = {} /\ checks = {} /\ receipts = {}

\* The verdict that evaluate would reach if these controls were in force.
VerdictUnder(controls, i, basis) ==
    LET s == SnapshotOf(controls)
        facts == FactsFor(i, s, basis)
        decision == DecisionFrom(i, s, facts, Registry)
    IN  IF InputFault(i, s, facts, Registry) \/ ~AcceptableDecision(decision)
        THEN "raised"
        ELSE decision.verdict

Strictness(verdict) ==
    CASE verdict = "allow" -> 0
      [] verdict = "allow_with_conditions" -> 1
      [] verdict = "require_approval" -> 2
      [] verdict \in {"route", "raised"} -> 3
      [] verdict = "conflict" -> 4
      [] verdict = "block" -> 5

\* What one applicable control needs, told without outcomes, failures, routes or
\* a reduction: nothing it reads is unknown, its own effect permits, its
\* conditions hold, enough people said yes and nobody who did is related to the
\* actor, and every profile of it was assessed, is satisfied and permits.
Cleared(c, i, s, facts) ==
    /\ "unknown" \notin PredicateResults(c, i)
    /\ c.effect.verdict \in Permissive
    /\ \A k \in c.effect.conditions : ConditionSatisfied(k, i, Registry)
    /\ \A r \in c.effect.requirements :
        /\ r.type = "approval" =>
            /\ ~ApprovalMissing(r, i, s, facts)
            /\ \A f \in Matching(r, i, s, facts) : ~IndependenceFails(r, f, i)
        /\ r.type = "profile" =>
            LET assessed == ProfileMatching([control |-> c], r, i, s, facts)
            IN  /\ r.verifier \in Registry /\ assessed # {}
                /\ \A f \in assessed : f.status = "satisfied" /\ f.verdict \in Permissive

\* The controls that speak on an intent.
Speaking(i, s) == {c \in Applicable(i, s) : "false" \notin PredicateResults(c, i)}

\* The reduction says yes exactly when every control that speaks on the intent
\* does, and there is one: no unknown, failed or missing thing slips through, and
\* nothing but that withholds a permission, neither the order of controls nor
\* their routes (selection.py, requirements.py, composition.py, together).
PermittedExactly ==
    Deciding => \A i \in Intents, basis \in issued \cup {None} :
        LET facts == FactsFor(i, Snapshot, basis)
        IN  ~InputFault(i, Snapshot, facts, Registry) =>
                (VerdictUnder(published, i, basis) \in Permissive <=>
                    /\ Speaking(i, Snapshot) # {}
                    /\ \A c \in Speaking(i, Snapshot) : Cleared(c, i, Snapshot, facts))

\* Publishing a control never loosens: whatever else is in force, and whatever
\* facts are at hand, a verdict on an intent is no more permissive than the one
\* before, nor comes out, less strict than a route, where the evaluation raised
\* before, unless no control applied to the intent at all (composition.py, compose).
PublishingNeverLoosens ==
    Deciding => \A i \in Intents, basis \in issued \cup {None}, c \in Controls \ published :
        LET after == VerdictUnder(published \cup {c}, i, basis)
        IN  SelectControls(i, Snapshot) # {} /\ after # "raised" =>
                Strictness(VerdictUnder(published, i, basis)) <= Strictness(after)

\* The reduction is total but for one shape of control: whatever it composes of
\* well-formed controls and inputs that raise nothing of themselves, the Decision
\* contract accepts, unless some published failure effect routes to a default
\* route (continue, record_only, block), which FailureEffect lets through and
\* Decision does not (contracts.py, FailureEffect and Decision).
RefusedOnlyForDefaultRoutes ==
    Deciding => \A i \in Intents, basis \in issued \cup {None} :
        LET facts == FactsFor(i, Snapshot, basis)
        IN  \/ InputFault(i, Snapshot, facts, Registry)
            \/ AcceptableDecision(DecisionFrom(i, Snapshot, facts, Registry))
            \/ \E c \in published : \E f \in FailureEffects(c) :
                    f.verdict = "route" /\ f.route.kind \in DefaultKinds
=============================================================================
