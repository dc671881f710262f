-------------------------- MODULE EnterpriseSystem --------------------------
(***************************************************************************)
(* An enterprise whose policy versions go through their life cycle while   *)
(* decisions are made under them, and a host that publishes projections of *)
(* the versions, keeps decisions as profile cases, and evaluates portable  *)
(* intents with the core.  The stores and the decision procedure are not   *)
(* in the repository: they append what the contracts accept.               *)
(***************************************************************************)
EXTENDS SupplierProjection

CONSTANTS
    Worlds,   \* the worlds looked at
    TTL       \* how long an enterprise decision holds

\* What happens in a world and how much of it: the versions that are released
\* and until when, the intents, where the host runs (None for nowhere in
\* particular), by how much events are scheduled ahead, and the bounds.
WorldFields ==
    {"versions", "released_by", "intents", "environments", "delays", "verdicts",
     "max_time", "max_damage", "max_projections", "max_decisions", "max_cases", "max_filed"}

ASSUME EnterpriseAssumption ==
    /\ TTL \in Nat \ {0}
    /\ \A w \in Worlds :
        /\ DOMAIN w = WorldFields
        /\ \A bound \in {"max_time", "max_damage", "max_projections", "max_decisions", "max_cases",
                          "max_filed"} :
                w[bound] \in Nat
        /\ w.verdicts \subseteq
              Permissive \cup {"require_approval", "route", "block", "conflict"}
        /\ \A delay \in w.delays : delay \in Nat
        /\ \A i \in w.intents : i.route \in DOMAIN RouteKinds
        /\ IsFiniteSet(w.versions)
        /\ \A v \in w.versions :
            /\ v.from # None /\ v.until # None => v.from < v.until
            /\ v.id \in Nat /\ DOMAIN v.links \subseteq Nat
            /\ \A u \in w.versions : u.id = v.id => u = v

VARIABLES
    world,
    clock,
    catalog,     \* [versions, events]
    damaged,     \* how often events were altered or lost in the store
    decisions,   \* decisions of the enterprise
    published,   \* portable controls in the host's snapshot
    cases,       \* retained portable decisions
    filed        \* portable approvals and receipts

vars == <<world, clock, catalog, damaged, decisions, published, cases, filed>>

Init ==
    /\ world \in Worlds
    /\ clock = 0 /\ damaged = 0
    /\ catalog = [versions |-> {}, events |-> {}]
    /\ decisions = {} /\ published = {} /\ cases = {} /\ filed = {}

Tick ==
    /\ clock < world.max_time
    /\ clock' = clock + 1
    /\ UNCHANGED <<world, catalog, damaged, decisions, published, cases, filed>>

-----------------------------------------------------------------------------
(* The stores *)

\* An event with the hash of what it says.
Seal(e) ==
    [field \in DOMAIN e \cup {"hash"} |-> IF field = "hash" THEN ContentOf(e) ELSE e[field]]

Event(spec, sequence, prior, state, next, effective) ==
    Seal([id |-> 10 * spec.id + sequence, tenant |-> spec.tenant,
          spec |-> SpecRef(spec), content |-> spec.hash, sequence |-> sequence,
          prior |-> prior, prior_state |-> state, next_state |-> next,
          at |-> clock, effective |-> effective])
NextEvent(spec, last, next, effective) ==
    Event(spec, last.sequence + 1, EventRef(last), last.next_state, next, effective)

\* A version enters the catalog drafted, reviewed and approved.
Approved(spec) ==
    LET first == Event(spec, 1, None, None, "draft", None)
        second == NextEvent(spec, first, "reviewed", None)
    IN  {first, second, NextEvent(spec, second, "approved", None)}

Release(spec) ==
    /\ spec \notin catalog.versions /\ clock <= world.released_by
    /\ catalog' = [versions |-> catalog.versions \cup {spec},
                   events |-> catalog.events \cup Approved(spec)]
    /\ UNCHANGED <<world, clock, damaged, decisions, published, cases, filed>>

\* It is published and retired, at once or from a later instant on.
Record(spec, next, effective) ==
    LET last == LastOf(Relevant(spec, catalog.events))
    IN  /\ Relevant(spec, catalog.events) # {}
        /\ Predecessor[next] = last.next_state
        /\ catalog' = [catalog EXCEPT !.events =
                @ \cup {NextEvent(spec, last, next, effective)}]
        /\ UNCHANGED <<world, clock, damaged, decisions, published, cases, filed>>

\* A stored event is lost, or says something else, with or without the hash of it:
\* another state, another instant or another place in the chain.
Alterations(e) ==
    LET states == DOMAIN Predecessor
        places == 1..6 \ {f.sequence : f \in Relevant(e.spec, catalog.events)}
        altered == {[e EXCEPT !.next_state = s] : s \in states}
                    \cup {[e EXCEPT !.effective = t] : t \in {None} \cup 0..world.max_time}
                    \cup {[e EXCEPT !.sequence = n] : n \in places}
    IN  (altered \cup {Seal(f) : f \in altered}) \ {e}

Damage(e, left) ==
    /\ damaged < world.max_damage
    /\ damaged' = damaged + 1
    /\ catalog' = [catalog EXCEPT !.events = (@ \ {e}) \cup left]
    /\ UNCHANGED <<world, clock, decisions, published, cases, filed>>

-----------------------------------------------------------------------------
(* The enterprise decides, the host projects and retains *)

SelectionFor(i, time, environment) == SelectComplete(catalog, i, time, environment)

EnterpriseDecide(i, environment, verdict) ==
    LET selection == SelectionFor(i, clock, environment)
    IN  /\ Cardinality(decisions) < world.max_decisions
        /\ selection.outcome = "selected"
        /\ decisions' = decisions \cup
             {[intent |-> i, verdict |-> verdict, evaluated |-> clock, expires |-> clock + TTL,
               specs |-> {SpecRef(v) : v \in selection.specs},
               feasible |-> {"human"}, reauthorize |-> FALSE]}
        /\ UNCHANGED <<world, clock, catalog, damaged, published, cases, filed>>

ControlsOf(spec) == {c \in published : c.source.spec = spec}

\* A version is projected again in place of its earlier projection.
Project(spec, status) ==
    \E controls \in {ProjectControls(spec, status, catalog.events)} \ {None} :
        /\ published' = (published \ ControlsOf(spec)) \cup controls
        /\ Cardinality(published') <= world.max_projections
        /\ UNCHANGED <<world, clock, catalog, damaged, decisions, cases, filed>>

Retain(d, route) ==
    LET controls == {c \in published : SpecRef(c.source.spec) \in d.specs}
    IN  /\ Cardinality(cases) < world.max_cases
        /\ \E retained \in {ProjectDecision(d, ProjectIntent(d.intent), controls, route)} \ {None} :
                cases' = cases \cup {retained}
        /\ UNCHANGED <<world, clock, catalog, damaged, decisions, published, filed>>

\* A case is edited, and sealed again.
EditCase(case) ==
    /\ cases' = (cases \ {case}) \cup
            {[case EXCEPT !.verdict = "allow", !.route = case.intent.requested]}
    /\ UNCHANGED <<world, clock, catalog, damaged, decisions, published, filed>>

\* An approval or a receipt of the enterprise is filed under a retained decision.
File(record) ==
    /\ record # None
    /\ Cardinality(filed) < world.max_filed
    /\ filed' = filed \cup {record}
    /\ UNCHANGED <<world, clock, catalog, damaged, decisions, published, cases>>

ApprovalOf(d, outcome) ==
    [decision |-> d, intent |-> d.intent, requirement |-> "risk", outcome |-> outcome,
     from |-> clock, until |-> clock + 1]

\* The enterprise assures what was executed on a route with all its evidence.
ReceiptOf(d, execution, route) ==
    [decision |-> d, intent |-> d.intent, execution |-> execution, route |-> route, evidence |-> {},
     assurance |-> IF execution = "succeeded" /\ route # None THEN "assurance_succeeded"
                   ELSE "assurance_failed"]

FileApproval(d, case, outcome) ==
    File(ProjectApproval(ApprovalOf(d, outcome), case, ProjectIntent(d.intent)))
FileReceipt(d, case, execution, route, missing) ==
    File(ProjectReceipt(ReceiptOf(d, execution, route), case, ProjectIntent(d.intent), missing))

Routes == {ProjectRoute("autonomous"), ProjectRoute("human"), BlockRoute}

Next ==
    \/ Tick
    \/ \E spec \in world.versions : Release(spec)
    \/ \E spec \in catalog.versions, next \in {"published", "retired"}, delay \in world.delays :
            Record(spec, next, IF delay = 0 THEN None ELSE clock + delay)
    \/ \E e \in catalog.events : \E left \in {{}} \cup {{f} : f \in Alterations(e)} : Damage(e, left)
    \/ \E i \in world.intents, environment \in world.environments, verdict \in world.verdicts :
            EnterpriseDecide(i, environment, verdict)
    \/ \E spec \in catalog.versions, status \in {"draft", "published", "retired"} :
            Project(spec, status)
    \/ \E d \in decisions, route \in Routes : Retain(d, route)
    \/ \E case \in cases : EditCase(case)
    \/ \E d \in decisions, case \in cases, outcome \in {"granted", "denied"} :
            FileApproval(d, case, outcome)
    \/ \E d \in decisions, case \in cases, execution \in {"succeeded", "failed"},
          route \in {None, "autonomous"}, missing \in {{}, {"bank"}} :
            FileReceipt(d, case, execution, route, missing)

Spec == Init /\ [][Next]_vars

-----------------------------------------------------------------------------
(* What the core makes of it *)

Snapshot ==
    [controls |-> published, observed |-> clock, supported |-> {D001, SourceExtension},
     sealed |-> TRUE]

Decided(p, facts) == IF p = None \/ facts = None THEN None ELSE Evaluate(p, Snapshot, facts, {D001})

\* With every case at hand, or with one of them as the scenario.
PortableDecision(i) == Decided(ProjectIntent(i), ProfileFacts(cases, ProjectIntent(i), Snapshot))
ScenarioDecision(case) ==
    LET scenario == [retained |-> case, intent |-> case.intent, controls |-> case.controls,
                     basis |-> None, approvals |-> {}]
    IN  Decided(case.intent, ScenarioFacts(scenario, case.intent, Snapshot))
PortableDecisions ==
    ({PortableDecision(i) : i \in world.intents} \cup {ScenarioDecision(k) : k \in cases}) \ {None}

-----------------------------------------------------------------------------
(* Properties *)

Times == 0..world.max_time

\* What the walk of the closure should find, told without it: everything linked
\* to a root, directly or not, among some versions.
LinkedBy(versions, s) == {v \in versions : \E k \in DOMAIN s.links : s.links[k] = SpecRef(v)}
LinkedFrom(versions, specs) == specs \cup UNION {LinkedBy(versions, s) : s \in specs}
Reach(versions, roots) ==
    LET after[n \in 0..Cardinality(versions)] ==
            IF n = 0 THEN roots ELSE LinkedFrom(versions, after[n - 1])
    IN  after[Cardinality(versions)]

Sound(own, specs, time, environment) ==
    /\ \A s \in specs : /\ Authentic(s, own.events) /\ InForce(s, own.events, time)
                        /\ InEnvironment(s, environment)
                        /\ s \notin Reach(own.versions, LinkedBy(own.versions, s))
                        /\ \A k \in DOMAIN s.links :
                              \E v \in own.versions : s.links[k] = SpecRef(v)
    /\ ~TwoOfAModule(specs)

\* The selection is the whole closure or nothing: a set of versions is returned
\* if and only if every version of the tenant linked from a root, at any depth
\* and in any order of visits, is authentic, in force at that time, in this
\* environment and the only one of its module, no link leads out of them, and no
\* links run in a circle (selection.py, select_complete and add_closure).
SelectsTheWholeClosure ==
    \A i \in world.intents, time \in Times, environment \in world.environments :
        LET found == SelectionFor(i, time, environment)
            own == CatalogOf(catalog, i.tenant)
            claimants == Claimants(own, i, time, environment)
            roots == {v \in claimants : InForce(v, own.events, time)}
            whole == Reach(own.versions, roots)
        IN  IF /\ roots # {} /\ Sound(own, whole, time, environment)
              /\ \A v \in claimants : Authentic(v, own.events)
            THEN found.outcome = "selected" /\ found.specs = whole
            ELSE found.outcome # "selected" /\ found.specs = {}

\* The two entrances agree: when both select, what select finds in a namespace
\* is part of what select_complete finds in all of them, with the same events
\* (selection.py, select and select_complete).
EntrancesAgree ==
    \A i \in world.intents, time \in Times, environment \in world.environments :
        \E whole \in {SelectionFor(i, time, environment)} :
            whole.outcome = "selected" =>
                \A namespace \in {v.namespace : v \in catalog.versions} :
                    LET narrow == Select(catalog, i, time, namespace, environment)
                    IN  narrow.specs \subseteq whole.specs /\ narrow.events \subseteq whole.events

IsHead(e, chain) == \A f \in chain : f = e \/ Before(f, e)

\* The past stays.  Versions and events that are added later leave what is
\* selected for an earlier instant exactly as it was, in a damaged store too.
\* Damage may make a version drop out unnoticed, for what its events claim is
\* read before they are checked; but it puts no version into force that was not,
\* whose chain was intact and has its last event left: that one commits to all
\* before it (selection.py, _state_at and claims_effective_published).
HistoryStands ==
    [][\A i \in world.intents, environment \in world.environments, time \in 0..(clock - 1) :
            LET own == CatalogOf(catalog, i.tenant)
                next == CatalogOf(catalog', i.tenant)
                before == SelectComplete(catalog, i, time, environment)
                after == SelectComplete(catalog', i, time, environment)
            IN  IF damaged' = damaged
                THEN after.specs = before.specs /\ after.events = before.events
                ELSE \A v \in after.specs :
                        (/\ ChainIntact(v, own.events)
                         /\ \E e \in Relevant(v, own.events) \cap next.events :
                                IsHead(e, Relevant(v, own.events))) =>
                            InForce(v, own.events, time)]_vars

Retired(spec) ==
    {e \in Relevant(spec, catalog.events) : e.next_state = "retired" /\ AppliesAt(e) <= clock}

\* A version whose retirement has taken effect is in no selection any more, of
\* that instant or of a later one (selection.py, _state_at).
RetirementIsFinal ==
    \A spec \in catalog.versions : Retired(spec) # {} =>
        \A i \in world.intents, time \in clock..world.max_time, environment \in world.environments :
            spec \notin SelectionFor(i, time, environment).specs

\* A projection may run ahead of the selector, for it goes by the last event of
\* the chain and not by when it takes effect; but once all events have taken
\* effect, what it accepts is what the selector finds in an intact chain, and
\* while nothing is damaged it accepts no less
\* (mapping.py, _validate_lifecycle_status; selection.py, _state_at).
ProjectionAgreesInTheEnd ==
    \A spec \in catalog.versions :
        LET chain == Relevant(spec, catalog.events)
        IN  (\A e \in chain : AppliesAt(e) <= clock) =>
                \A status \in {"published", "retired"} :
                    LET proven == StatusProven(spec, status, catalog.events)
                        derived == ChainIntact(spec, chain)
                                    /\ StateAt(spec, catalog.events, clock) = status
                    IN  (proven => derived) /\ (damaged = 0 /\ derived => proven)

\* The portable side never permits more: a permissive decision of the core on a
\* projected intent applies only controls of versions that the enterprise
\* selected for that very intent and permitted, whatever was done to the cases
\* (profiles/riskspec.py, assess; mapping.py, project_decision).
PermitsWhatWasPermitted ==
    \A d \in PortableDecisions : d.verdict \in Permissive =>
        \A c \in d.controls : \E e \in decisions :
            /\ e.intent = d.intent.source /\ e.verdict \in Permissive
            /\ SpecRef(c.source.spec) \in e.specs
            /\ \A r \in c.source.spec.rules :
                  \E q \in published : q.source.spec = c.source.spec /\ q.source.rule = r

\* One retained refusal is enough: while the snapshot holds all controls of an
\* unedited case about the intent that does not permit, no other case makes the
\* core permit under one of them (requirements.py and composition.py).
RefusalPrevails ==
    \A case \in cases :
        LET d == PortableDecision(case.intent.source)
        IN  (/\ case.verdict = case.source.verdict /\ case.verdict \notin Permissive
             /\ case.controls \subseteq published
             /\ d # None /\ d.controls \cap case.controls # {}) => d.verdict \notin Permissive

\* What is filed under a retained decision is about the enterprise decision that
\* one was made of, even if the case was edited since; with two decisions about
\* one intent, neither's records end up with the other; and a complete receipt
\* answers a decision that was executed (mapping.py, project_approval and
\* project_receipt).
RecordsAnswerTheirDecision ==
    \A f \in filed :
        /\ f.source.decision \in decisions /\ f.decision.source = f.source.decision
        /\ f.intent.source = f.source.decision.intent
        /\ "status" \in DOMAIN f =>
                (f.status = "complete" => f.execution = "succeeded" /\ f.missing = {})
=============================================================================
