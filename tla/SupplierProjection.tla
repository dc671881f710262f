------------------------- MODULE SupplierProjection -------------------------
(***************************************************************************)
(* The one-way mapping of enterprise objects (versions, intents, decisions,*)
(* approvals, receipts) to portable ones, and the profile that attests a   *)
(* portable decision only if it is the mapping of an enterprise decision.  *)
(* Every projected object retains what it was made of as `source'.  A      *)
(* raised error is the result None.                                        *)
(***************************************************************************)
EXTENDS PolicySelection, ControlEvaluation

D001 == "riskspec.enterprise.verifier.d001_rule"
SourceExtension == "riskspec.enterprise.source"
Namespace == "riskspec.enterprise.assurance"

\* Exactly one route id has the kind of each projected route.
RouteKinds == [autonomous |-> "continue", human |-> "human_review"]
ProjectRoute(id) ==
    [kind |-> RouteKinds[id], recheck |-> id = "human", order |-> IF id = "human" THEN 6 ELSE 5]
BlockRoute == SafetyRoute(FALSE)

ASSUME RoutesAssumption ==
    None \notin {ProjectRoute(id) : id \in DOMAIN RouteKinds} \cup {BlockRoute}

-----------------------------------------------------------------------------
(* Intents and controls *)

\* Only the supplier advance is mapped; resource and context keep their content.
ProjectIntent(i) ==
    IF i.verb # "advance" THEN None
    ELSE [id |-> i.id, namespace |-> Namespace, kind |-> [actor |-> i.kind.actor, verb |-> i.verb],
          lineage |-> {}, document |-> <<>>, requested |-> ProjectRoute(i.route),
          sealed |-> TRUE, source |-> i]

ExactIntent(p) == p # None /\ p = ProjectIntent(p.source)

Predecessor ==
    [draft |-> None, reviewed |-> "draft", approved |-> "reviewed",
     published |-> "approved", retired |-> "published"]

LastOf(chain) == CHOOSE e \in chain : \A f \in chain : f = e \/ Before(f, e)

\* Fault: the transitions are checked, but not that the events are linked.
StatusUnlinked(spec, status, events) ==
    LET chain == Relevant(spec, events)
    IN  IF chain = {} THEN status = "draft"
        ELSE /\ \A e \in chain : Predecessor[e.next_state] = e.prior_state
             /\ LastOf(chain).next_state = status

\* The status a projection claims is the head of a chain that went through
\* every state in order; when an event takes effect is not looked at.
StatusProven(spec, status, events) ==
    LET chain == Relevant(spec, events)
    IN  IF chain = {} THEN status = "draft"
        ELSE /\ ChainIntact(spec, chain)
             /\ \A e \in chain : Predecessor[e.next_state] = e.prior_state
             /\ LastOf(chain).next_state = status

ProfileRequirement ==
    [type |-> "profile", id |-> "d001", verifier |-> D001,
     failure |-> [class |-> "failure", verdict |-> "block", route |-> BlockRoute]]

ProjectRule(spec, rule, status, events) ==
    [id |-> <<spec.id, rule.key>>, namespace |-> Namespace, status |-> status,
     from |-> spec.from, until |-> spec.until, predicates |-> {},
     match |-> [actor |-> {spec.covers.actor}, verb |-> {spec.covers.verb}],
     on_unknown |-> [class |-> "failure", verdict |-> "block", route |-> BlockRoute],
     effect |-> [class |-> "effect", verdict |-> "allow", route |-> ProjectRoute("autonomous"),
                 requirements |-> {ProfileRequirement}, conditions |-> {}],
     extensions |-> {SourceExtension}, sealed |-> TRUE,
     source |-> [spec |-> spec, rule |-> rule, events |-> Relevant(spec, events)]]

\* One control per rule; a control pack holds these and nothing else.
ProjectControls(spec, status, events) ==
    IF spec.covers.verb = "advance" /\ StatusProven(spec, status, events)
    THEN {ProjectRule(spec, r, status, events) : r \in spec.rules}
    ELSE None

-----------------------------------------------------------------------------
(* Decisions *)

\* What a control must be for a decision to be about it: a published, exact
\* projection of one rule of a plain version.
Covering(c) ==
    /\ c.sealed /\ c.status = "published"
    /\ c.source.spec.environments = None
    /\ StatusProven(c.source.spec, c.status, c.source.events)
    /\ c.source.rule \in c.source.spec.rules
    /\ c.id = <<c.source.spec.id, c.source.rule.key>>

RulesOf(controls) == {<<SpecRef(c.source.spec), c.source.rule>> : c \in controls}
RulesDue(controls) ==
    UNION {{<<SpecRef(c.source.spec), r>> : r \in c.source.spec.rules} : c \in controls}

CoversSelection(d, controls) ==
    /\ \A c \in controls : Covering(c)
    /\ {SpecRef(c.source.spec) : c \in controls} = d.specs
    /\ RulesOf(controls) = RulesDue(controls)

RouteFits(d, p, route) ==
    CASE d.verdict \in {"block", "conflict"} -> route.kind = "block"
      [] d.verdict = "route" ->
            /\ route \in {ProjectRoute(id) : id \in d.feasible}
            /\ route.kind \notin {"continue", "record_only"}
      [] OTHER -> route = p.requested

ProjectDecision(d, p, controls, route) ==
    LET projected ==
            [intent |-> p, verdict |-> d.verdict, route |-> route,
             evaluated |-> d.evaluated, expires |-> d.expires, predecessor |-> None,
             controls |-> controls, approvals |-> {}, evidence |-> {},
             recheck |-> d.reauthorize, sealed |-> TRUE, source |-> d]
    IN  IF /\ ExactIntent(p) /\ d.intent = p.source
           /\ CoversSelection(d, controls)
           /\ RouteFits(d, p, route)
           /\ AcceptableDecision(projected)
        THEN projected ELSE None

-----------------------------------------------------------------------------
(* Approvals and receipts *)

\* Fault: a record of another decision about the same intent will do.
BoundToIntent(source, decision, p) ==
    ExactIntent(p) /\ source.intent = p.source

Bound(source, decision, p) ==
    /\ ExactIntent(p)
    /\ source.decision = decision.source /\ source.intent = p.source

ProjectApproval(a, decision, p) ==
    IF ~Bound(a, decision, p) THEN None
    ELSE [decision |-> decision, intent |-> p, requirement |-> a.requirement,
          approved |-> a.outcome = "granted", from |-> a.from, until |-> a.until, source |-> a]

ReceiptStatuses ==
    [assurance_succeeded |-> "complete", assurance_incomplete |-> "incomplete",
     assurance_failed |-> "failed"]
OutcomeOf(status) == IF status = "complete" THEN "completed" ELSE status

\* What is missing is what the caller says; the contract refuses a complete
\* receipt that misses something, did not succeed or has no route.
ProjectReceipt(r, decision, p, missing) ==
    LET status == ReceiptStatuses[r.assurance]
        route == IF r.route = None THEN None ELSE ProjectRoute(r.route)
    IN  IF \/ ~Bound(r, decision, p)
           \/ status = "complete" /\ (r.execution # "succeeded" \/ route = None \/ missing # {})
        THEN None
        ELSE [decision |-> decision, intent |-> p, route |-> route, execution |-> r.execution,
              status |-> status, outcome |-> OutcomeOf(status), missing |-> missing,
              verified |-> r.evidence, source |-> r]

-----------------------------------------------------------------------------
(* The profile: a retained decision is attested, control by control, if it *)
(* is the mapping of its own source over the controls in the snapshot.     *)

FailureOf(source, c) ==
    LET Failure(verdict, route) == [class |-> "failure", verdict |-> verdict, route |-> route]
    IN  CASE source.kind = "require_approval" -> Failure("require_approval", None)
          [] source.kind = "switch_route" /\ Cardinality(source.targets) = 1 ->
                Failure("route", ProjectRoute(CHOOSE t \in source.targets : TRUE))
          [] OTHER -> Failure("block", c.on_unknown.route)

RetainedApprovals(rule, c) ==
    {[type |-> "approval", id |-> r.key, role |-> r.role, scope |-> r.scope,
      minimum_count |-> r.minimum_count, separate_from_actor |-> "actor" \in r.separate_from,
      separate_from_roles |-> r.separate_from \ {"actor"}, failure |-> FailureOf(r.failure, c)] :
        r \in rule.approvals}

\* The conditions of a rule that are verified after the action.
RetainedEvidence(rule, c) ==
    {[type |-> "evidence", id |-> k.key, kind |-> k.kind, subject |-> "execution",
      minimum_count |-> 1, max_age |-> None, verifier |-> "post_action_evidence",
      producer_not_actor |-> FALSE, certifier_not_actor |-> FALSE,
      producer_certifier_distinct |-> TRUE, failure |-> FailureOf([kind |-> "block"], c)] :
        k \in rule.post_action}

\* Fault: the retained decision is taken at its word.
AttestsUnread(p, c, s, retained) ==
    /\ p.kind.verb = "advance"
    /\ p.sealed /\ c.sealed /\ retained.sealed
    /\ c \in s.controls /\ retained.intent = p /\ c \in retained.controls

Attests(p, c, s, retained) ==
    /\ p.kind.verb = "advance"
    /\ p.sealed /\ c.sealed /\ retained.sealed
    /\ c \in s.controls /\ retained.intent = p /\ c \in retained.controls
    /\ retained \in {ProjectDecision(retained.source, p, s.controls \cap retained.controls,
                                     retained.route)} \ {None}

Assess(p, c, s, retained) ==
    [verifier |-> D001, intent |-> p, control |-> c, snapshot |-> s,
     status |-> "satisfied", verdict |-> retained.verdict, route |-> retained.route,
     approvals |-> RetainedApprovals(c.source.rule, c),
     evidence |-> RetainedEvidence(c.source.rule, c), sealed |-> TRUE]
AssessAll(p, s, retained) ==
    {Assess(p, c, s, retained) : c \in {b \in retained.controls : Attests(p, b, s, retained)}}

\* Fault: the first exact case answers for the intent.
FactsOfOneCase(cases, p, s) ==
    LET exact == {k \in cases : k.intent = p /\ k.controls \subseteq s.controls}
        first == CHOOSE k \in exact : TRUE
    IN  [basis |-> None, approvals |-> {}, evidence |-> {},
         profiles |-> IF exact = {} THEN {}
                      ELSE AssessAll(p, s, first)]

\* RiskSpecReferenceFactProvider: what cannot be attested is left out.
ProfileFacts(cases, p, s) ==
    LET exact == {k \in cases : k.intent = p /\ k.controls \subseteq s.controls}
    IN  [basis |-> None, approvals |-> {}, evidence |-> {},
         profiles |-> UNION {AssessAll(p, s, k) : k \in exact}]

\* RiskSpecScenarioFactProvider: one scenario, and all of its controls or an error.
ScenarioFacts(scenario, p, s) ==
    IF \/ p # scenario.intent \/ s.controls # scenario.controls
       \/ \E c \in s.controls : ~Attests(p, c, s, scenario.retained)
    THEN None
    ELSE [basis |-> scenario.basis, approvals |-> scenario.approvals, evidence |-> {},
          profiles |-> {Assess(p, c, s, scenario.retained) : c \in s.controls}]
=============================================================================
