------------------------- MODULE ControlEvaluation -------------------------
(***************************************************************************)
(* The pure evaluation core: predicates, selection of the controls that    *)
(* apply, assessment of what they require against the facts the host       *)
(* vouches for, the reduction to one verdict and route, and the recheck    *)
(* and the receipt made of a decision afterwards.                          *)
(*                                                                         *)
(* Values are immutable and bound by digest in the code; here a value is   *)
(* its own digest, and `sealed' says that the digest a caller hands over   *)
(* is the digest of the content.  A raised ValueError is the result None.  *)
(* Sets stand for CanonicalSet tuples.                                     *)
(***************************************************************************)
EXTENDS PortableContracts, FiniteSets

CONSTANTS
    DecisionTTL,      \* decision_ttl_seconds
    ConflictOrder,    \* canonical order of the two routes of safety_route
    FailClosedOrder

ASSUME EvaluationAssumption ==
    /\ DecisionTTL \in Nat \ {0}
    /\ ConflictOrder \in Nat /\ FailClosedOrder \in Nat
    /\ ConflictOrder < FailClosedOrder

-----------------------------------------------------------------------------
(* Predicates: a document maps each path that resolves to <<type, value>>, *)
(* and a path whose array index is not canonical to PointerError.          *)

PointerError == <<"pointer_error">>
Truth(holds) == IF holds THEN "true" ELSE "false"

Ordered(operator, a, b) ==
    \/ operator = "lt" /\ a < b
    \/ operator = "lte" /\ a <= b
    \/ operator = "gt" /\ a > b
    \/ operator = "gte" /\ a >= b

EvaluatePredicate(p, document) ==
    LET present == p.path \in DOMAIN document
        found == document[p.path]
    IN  IF present /\ found = PointerError THEN "error"
        ELSE IF p.operator = "exists" THEN Truth(present = p.expected)
        ELSE IF ~present THEN "unknown"
        ELSE IF p.operator = "eq" THEN Truth(found = p.value)
        ELSE IF p.operator = "in" THEN Truth(found \in p.values)
        ELSE IF found[1] # "int" \/ p.value[1] # "int" THEN "unknown"
        ELSE Truth(Ordered(p.operator, found[2], p.value[2]))

-----------------------------------------------------------------------------
(* Selection *)

UsedVerifiers(c) ==
    {k.verifier : k \in c.effect.conditions} \cup
    {r.verifier : r \in {q \in c.effect.requirements : q.type # "approval"}}

ValidSnapshot(s) ==
    /\ s.sealed
    /\ \A c \in s.controls :
        /\ c.sealed
        /\ UsedVerifiers(c) \cup c.extensions \subseteq s.supported
        /\ \A d \in s.controls : c.id = d.id => c = d

Effective(c, observed) ==
    /\ c.status = "published"
    /\ c.from = None \/ c.from <= observed
    /\ c.until = None \/ observed < c.until

\* Actor, action, domain action and resource types are the fields of `kind'.
CoreMatch(c, intent) ==
    /\ c.namespace = intent.namespace
    /\ \A field \in DOMAIN intent.kind : intent.kind[field] \in c.match[field]

Applicable(intent, s) ==
    {c \in s.controls : Effective(c, s.observed) /\ CoreMatch(c, intent)}

PredicateResults(c, intent) ==
    {EvaluatePredicate(p, intent.document) : p \in c.predicates}

\* A malformed pointer in any predicate of an applicable control raises.
SelectionFault(intent, s) ==
    \/ ~ValidSnapshot(s)
    \/ \E c \in Applicable(intent, s) : "error" \in PredicateResults(c, intent)

\* Fault: on_unknown is forgotten.
SelectIgnoringUnknown(intent, s) ==
    {[control |-> c, outcome |-> c.effect] :
        c \in {d \in Applicable(intent, s) : "false" \notin PredicateResults(d, intent)}}

SelectControls(intent, s) ==
    {[control |-> c,
      outcome |-> IF "unknown" \in PredicateResults(c, intent)
                  THEN c.on_unknown ELSE c.effect] :
        c \in {d \in Applicable(intent, s) : "false" \notin PredicateResults(d, intent)}}

-----------------------------------------------------------------------------
(* Requirements *)

Related(intent, fact) == intent.lineage \cap fact.lineage # {}

ApprovalMatches(r, fact, intent, facts, observed) ==
    /\ facts.basis # None
    /\ fact.basis = facts.basis
    /\ fact.intent = intent
    /\ fact.requirement = r.id
    /\ fact.scope = r.scope
    /\ r.role \in fact.roles
    /\ fact.approved
    /\ fact.from <= observed /\ observed < fact.until
    /\ fact.authority_exact

\* Fault: only the separated roles are compared, not the actor's lineage.
RoleSeparationFails(r, fact, intent) ==
    /\ r.separate_from_roles # {}
    /\ \E role \in r.separate_from_roles :
        role \in DOMAIN fact.separated => fact.lineage \cap fact.separated[role] # {}

IndependenceFails(r, fact, intent) ==
    /\ r.separate_from_actor \/ r.separate_from_roles # {}
    /\ \/ ~fact.lineage_complete
       \/ \E role \in r.separate_from_roles : role \notin DOMAIN fact.separated
       \/ r.separate_from_actor /\ Related(intent, fact)
       \/ \E role \in r.separate_from_roles \cap DOMAIN fact.separated :
            fact.lineage \cap fact.separated[role] # {}

\* Only the predicate verifier is built in; a malformed pointer is no failure
\* of the evaluation here but an unknown condition.
ConditionSatisfied(k, intent, registry) ==
    /\ k.verifier \in registry
    /\ k.verifier = "controlspec.core.verifier.predicate"
    /\ k.predicate # None
    /\ EvaluatePredicate(k.predicate, intent.document) = "true"

Effects(outcomes) == {o \in outcomes : o.outcome.class = "effect"}

Required(o, type) == {r \in o.outcome.requirements : r.type = type}

Matching(r, intent, s, facts) ==
    {f \in facts.approvals : ApprovalMatches(r, f, intent, facts, s.observed)}

\* minimum_count counts facts, whoever the approver of each is.
ApprovalMissing(r, intent, s, facts) ==
    Cardinality({f \in Matching(r, intent, s, facts) :
                    ~IndependenceFails(r, f, intent)}) < r.minimum_count

ProfileMatching(o, r, intent, s, facts) ==
    {f \in facts.profiles :
        /\ f.verifier = r.verifier
        /\ f.intent = intent
        /\ f.control = o.control
        /\ f.snapshot = s}

ProfileMissing(o, r, intent, s, facts, registry) ==
    LET matching == ProfileMatching(o, r, intent, s, facts)
    IN  \/ r.verifier \notin registry
        \/ matching = {}
        \/ \E f \in matching : f.status # "satisfied"

\* The satisfied profile assessments a control's effect rests on.
Profiles(outcomes, intent, s, facts, registry) ==
    UNION {UNION {ProfileMatching(o, r, intent, s, facts) :
                    r \in {q \in Required(o, "profile") :
                             ~ProfileMissing(o, q, intent, s, facts, registry)}} :
             o \in Effects(outcomes)}

ProfileFault(f) ==
    CASE f.verdict \in {"block", "conflict"} -> f.route.kind # "block"
      [] f.verdict = "route" -> f.route.kind \in DefaultKinds
      [] f.verdict = "require_approval" -> FALSE
      [] OTHER -> f.route.kind = "block"

ProfileOutcome(f) ==
    CASE f.verdict \in {"block", "conflict"} ->
            [class |-> "failure", verdict |-> "block", route |-> f.route]
      [] f.verdict = "route" ->
            [class |-> "failure", verdict |-> "route", route |-> f.route]
      [] f.verdict = "require_approval" ->
            [class |-> "failure", verdict |-> "require_approval", route |-> None]
      [] OTHER ->
            [class |-> "effect", verdict |-> f.verdict, route |-> f.route,
             requirements |-> {}, conditions |-> {}]

AssessmentFault(outcomes, intent, s, facts, registry) ==
    \/ \E f \in facts.approvals \cup facts.evidence \cup facts.profiles : ~f.sealed
    \/ \E f \in Profiles(outcomes, intent, s, facts, registry) : ProfileFault(f)

\* Evidence is only collected: it is owed after the action, to the receipt.
\* What a profile retains is collected too, and not assessed.
AssessRequirements(outcomes, intent, s, facts, registry) ==
    LET effects == Effects(outcomes)
        profiles == Profiles(outcomes, intent, s, facts, registry)
        conditions == UNION {o.outcome.conditions : o \in effects}
        approvals == UNION {Required(o, "approval") : o \in effects}
    IN  [failures |->
            {k.failure : k \in {k \in conditions : ~ConditionSatisfied(k, intent, registry)}}
            \cup
            {r.failure : r \in {r \in approvals : ApprovalMissing(r, intent, s, facts)}}
            \cup
            UNION {{r.failure : r \in {r \in Required(o, "profile") :
                        ProfileMissing(o, r, intent, s, facts, registry)}} : o \in effects},
         independence_failed |->
            \E r \in approvals : \E f \in Matching(r, intent, s, facts) :
                IndependenceFails(r, f, intent),
         profile_outcomes |-> {ProfileOutcome(f) : f \in profiles},
         approvals |-> approvals \cup UNION {f.approvals : f \in profiles},
         evidence |-> UNION {Required(o, "evidence") : o \in effects}
                      \cup UNION {f.evidence : f \in profiles}]

-----------------------------------------------------------------------------
(* Composition.  A route is [kind, order, recheck]: `order' is its place   *)
(* in the canonical order of routes and stands for the rest of it.         *)

SafetyRoute(conflict) ==
    [kind |-> "block", recheck |-> FALSE,
     order |-> IF conflict THEN ConflictOrder ELSE FailClosedOrder]

First(routes) == CHOOSE r \in routes : \A q \in routes : r.order <= q.order

Values(outcomes, assessment) ==
    {o.outcome : o \in outcomes} \cup assessment.failures \cup assessment.profile_outcomes

RoutesOf(values, verdict) ==
    {v.route : v \in {w \in values : w.verdict = verdict}} \ {None}

\* Routes of the outcomes that block; an approval that is not independent blocks.
Blocks(values, assessment) ==
    RoutesOf(values, "block") \cup
    (IF assessment.independence_failed THEN {SafetyRoute(FALSE)} ELSE {})

\* Fault: a mandatory route is looked for before a block.
RouteBeforeBlock(values, blocks) ==
    LET asked == {v.verdict : v \in values}
    IN  IF RoutesOf(values, "route") # {} THEN "route"
        ELSE IF blocks # {} THEN "block"
        ELSE IF "require_approval" \in asked THEN "require_approval"
        ELSE IF "allow_with_conditions" \in asked THEN "allow_with_conditions"
        ELSE "allow"

ComposedVerdict(values, blocks) ==
    LET asked == {v.verdict : v \in values}
        mandatory == RoutesOf(values, "route")
    IN  IF blocks # {} THEN "block"
        ELSE IF \E a, b \in mandatory : a # b THEN "conflict"
        ELSE IF mandatory # {} THEN "route"
        ELSE IF "require_approval" \in asked THEN "require_approval"
        ELSE IF "allow_with_conditions" \in asked THEN "allow_with_conditions"
        ELSE "allow"

\* Short of a mandatory route, the first route any effect offers is taken.
ComposedRoute(values, blocks, verdict) ==
    LET offered == {v.route : v \in {w \in values : w.class = "effect"}}
    IN  CASE verdict = "block" -> First(blocks)
          [] verdict = "conflict" -> SafetyRoute(TRUE)
          [] verdict = "route" -> First(RoutesOf(values, "route"))
          [] OTHER -> IF offered = {} THEN SafetyRoute(FALSE) ELSE First(offered)

\* With no outcome the assessment is empty and the verdict is a block.
Compose(outcomes, assessment) ==
    LET values == Values(outcomes, assessment)
        blocks == IF outcomes = {} THEN {SafetyRoute(FALSE)} ELSE Blocks(values, assessment)
        verdict == ComposedVerdict(values, blocks)
        route == ComposedRoute(values, blocks, verdict)
    IN  [verdict |-> verdict, route |-> route,
         approvals |-> assessment.approvals, evidence |-> assessment.evidence,
         controls |-> {o.control : o \in outcomes},
         recheck |-> verdict \in {"require_approval", "route"} \/ route.recheck]

-----------------------------------------------------------------------------
(* Evaluation.  decision_id hashes intent, snapshot and facts, so they are *)
(* part of a decision's identity.                                          *)

InputFault(intent, s, facts, registry) ==
    \/ ~intent.sealed
    \/ SelectionFault(intent, s)
    \/ AssessmentFault(SelectControls(intent, s), intent, s, facts, registry)

DecisionFrom(intent, s, facts, registry) ==
    LET outcomes == SelectControls(intent, s)
        composed == Compose(outcomes, AssessRequirements(outcomes, intent, s, facts, registry))
    IN  [intent |-> intent, snapshot |-> s, facts |-> facts,
         evaluated |-> s.observed, expires |-> s.observed + DecisionTTL,
         predecessor |-> facts.basis, sealed |-> TRUE,
         verdict |-> composed.verdict, route |-> composed.route,
         approvals |-> composed.approvals, evidence |-> composed.evidence,
         controls |-> composed.controls, recheck |-> composed.recheck]

Evaluate(intent, s, facts, registry) ==
    LET decision == DecisionFrom(intent, s, facts, registry)
    IN  IF InputFault(intent, s, facts, registry) \/ ~AcceptableDecision(decision)
        THEN None
        ELSE decision

-----------------------------------------------------------------------------
(* Recheck *)

\* Fault: the outcome is compared, not the bound inputs.
RecheckSameOutcome(prior, current) ==
    IF /\ current.intent = prior.intent /\ current.controls = prior.controls
       /\ current.verdict = prior.verdict /\ current.route = prior.route
    THEN "valid" ELSE "semantic_input_changed"

RecheckReason(prior, current) ==
    IF current = prior THEN "valid"
    ELSE IF current.intent # prior.intent THEN "intent_changed"
    ELSE IF current.controls # prior.controls THEN "controls_changed"
    ELSE "semantic_input_changed"

Recheck(prior, intent, s, facts, registry) ==
    LET current == Evaluate(intent, s, facts, registry)
        reason == IF s.observed >= prior.expires THEN "expired"
                  ELSE IF current = None THEN "input_invalid"
                  ELSE RecheckReason(prior, current)
    IN  [valid |-> reason = "valid", prior |-> prior, reason |-> reason]

-----------------------------------------------------------------------------
(* Receipts *)

Disjoint(a, b) == a \cap b = {}

\* Fault: the producer's independence of the actor is not looked at.
EvidenceOfAnyone(fact, r, intent, recorded) ==
    /\ fact.intent = intent /\ fact.namespace = intent.namespace
    /\ fact.kind = r.kind /\ fact.subject = r.subject
    /\ fact.verified_at <= recorded
    /\ r.max_age # None => recorded - fact.verified_at <= r.max_age

EvidenceMatches(fact, r, intent, recorded) ==
    /\ fact.intent = intent
    /\ fact.namespace = intent.namespace
    /\ fact.kind = r.kind /\ fact.subject = r.subject
    /\ fact.verified_at <= recorded
    /\ r.max_age # None => recorded - fact.verified_at <= r.max_age
    /\ r.producer_not_actor => fact.producer_complete /\ Disjoint(intent.lineage, fact.producer)
    /\ r.certifier_not_actor => fact.certifier_complete /\ Disjoint(intent.lineage, fact.certifier)
    /\ r.producer_certifier_distinct =>
        /\ fact.producer_complete /\ fact.certifier_complete
        /\ Disjoint(fact.producer, fact.certifier)

EvidenceFor(r, intent, facts, recorded) ==
    {f \in facts.evidence : EvidenceMatches(f, r, intent, recorded)}

MissingEvidence(d, intent, facts, recorded) ==
    {r \in d.evidence : Cardinality(EvidenceFor(r, intent, facts, recorded)) < r.minimum_count}

\* What a receipt lists, the evidence and the ids of what is missing, are canonical
\* sets, which refuse duplicates: evidence that is met twice, for two requirements
\* or by two facts about it, and two missing requirements of one id.
ListsTwice(d, intent, facts, recorded) ==
    LET met == {m \in d.evidence \X facts.evidence :
                    EvidenceMatches(m[2], m[1], intent, recorded)}
    IN  \/ \E a, b \in met : a # b /\ a[2].ref = b[2].ref
        \/ \E a, b \in MissingEvidence(d, intent, facts, recorded) : a # b /\ a.id = b.id

ReceiptRefused(d, intent, checked, facts, seen) ==
    \/ ~d.sealed
    \/ ~seen.sealed
    \/ checked.prior # d
    \/ d.intent # intent
    \/ seen.occurred < d.evaluated \/ seen.occurred >= d.expires
    \/ seen.recorded < seen.occurred
    \/ d.evidence # {} /\ \E f \in facts.evidence : ~f.sealed

\* Fault: the receipt does not look at the recheck.
StatusIgnoringRecheck(d, intent, checked, facts, seen) ==
    IF d.verdict \notin Permissive \/ seen.route # d.route THEN "failed"
    ELSE IF MissingEvidence(d, intent, facts, seen.recorded) # {} THEN "incomplete"
    ELSE IF seen.outcome # "succeeded" THEN "failed"
    ELSE "complete"

ReceiptStatus(d, intent, checked, facts, seen) ==
    IF ~checked.valid \/ d.verdict \notin Permissive \/ seen.route # d.route THEN "failed"
    ELSE IF MissingEvidence(d, intent, facts, seen.recorded) # {} THEN "incomplete"
    ELSE IF seen.outcome # "succeeded" THEN "failed"
    ELSE "complete"

ReceiptOutcome(d, status) ==
    CASE status = "complete" -> "completed"
      [] status = "failed" /\ d.verdict \in {"block", "conflict"} -> "blocked"
      [] OTHER -> status

\* The receipt's own contract is the last to refuse.
AssessReceipt(d, intent, checked, facts, seen) ==
    LET status == ReceiptStatus(d, intent, checked, facts, seen)
        receipt ==
          [decision |-> d, seen |-> seen, status |-> status,
           outcome |-> ReceiptOutcome(d, status),
           verified |-> {f.ref : f \in UNION {EvidenceFor(r, intent, facts, seen.recorded) :
                                                r \in d.evidence}},
           missing |-> {r.id : r \in MissingEvidence(d, intent, facts, seen.recorded)}]
    IN  IF \/ ReceiptRefused(d, intent, checked, facts, seen)
           \/ ListsTwice(d, intent, facts, seen.recorded)
           \/ ~AcceptableReceipt(receipt)
        THEN None
        ELSE receipt
=============================================================================
