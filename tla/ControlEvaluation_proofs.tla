----------------------- MODULE ControlEvaluation_proofs -----------------------
(***************************************************************************)
(* What the pure core computes, for any controls, facts and instant: what  *)
(* a permissive decision cannot contain, that the reduction produces       *)
(* nothing its own contract refuses but for one shape of control, and that *)
(* it gets stricter with every control it is given.  Nothing here is about *)
(* a run: these are the lemmas of the modules that use the core.           *)
(***************************************************************************)
EXTENDS ControlEvaluation, FiniteSetTheorems, WellFoundedInduction, TLAPS

\* What the reduction is about.
Assessed(i, s, facts, registry) ==
    AssessRequirements(SelectControls(i, s), i, s, facts, registry)

-----------------------------------------------------------------------------
(* Least elements *)

\* A set of numbers has a least one.
LEMMA LeastNatural ==
    ASSUME NEW T, T \subseteq Nat, T # {}
    PROVE  \E m \in T : \A k \in T : m <= k
<1> DEFINE R == OpToRel(<, Nat)
<1>1. IsWellFoundedOn(R, Nat)
  BY NatLessThanWellFounded
<1>2. \A x, y \in Nat : <<x, y>> \in R <=> x < y
  BY DEF OpToRel
<1> HIDE DEF R
<1>3. PICK m \in T : \A k \in T : ~ (<<k, m>> \in R)
  BY <1>1, WFMin
<1>4. \A k \in T : ~ (k < m)
  BY <1>2, <1>3
<1> QED
  BY <1>4

\* The first of some routes is one of them.
LEMMA FirstIsOne ==
    ASSUME NEW routes, routes # {}, \A r \in routes : r.order \in Nat
    PROVE  First(routes) \in routes
<1> DEFINE orders == {r.order : r \in routes}
<1>1. orders \subseteq Nat /\ orders # {}
  OBVIOUS
<1>2. PICK least \in orders : \A k \in orders : least <= k
  <2> HIDE DEF orders
  <2> QED
    BY <1>1, LeastNatural
<1>3. PICK r \in routes : r.order = least
  OBVIOUS
<1>4. \A q \in routes : r.order <= q.order
  BY <1>2, <1>3
<1> QED
  BY <1>4 DEF First

-----------------------------------------------------------------------------
(* The reduction *)

\* A permissive composition has no outcome that blocks, routes or waits.
LEMMA PermissiveComposition ==
    ASSUME NEW outcomes, NEW a, Compose(outcomes, a).verdict \in Permissive
    PROVE  /\ ~ a.independence_failed
           /\ \A v \in Values(outcomes, a) : ~ WellFormedFailure(v)
<1> DEFINE values == Values(outcomes, a)
           blocks == IF outcomes = {} THEN {SafetyRoute(FALSE)} ELSE Blocks(values, a)
<1>1. Compose(outcomes, a).verdict = ComposedVerdict(values, blocks)
  BY DEF Compose
<1> HIDE DEF values, blocks
<1>2. /\ blocks = {} /\ RoutesOf(values, "route") = {}
      /\ "require_approval" \notin {v.verdict : v \in values}
  <2>1. blocks = {}
    BY <1>1 DEF ComposedVerdict, Permissive
  <2>2. RoutesOf(values, "route") = {}
    BY <1>1, <2>1 DEF ComposedVerdict, Permissive
  <2>3. "require_approval" \notin {v.verdict : v \in values}
    BY <1>1, <2>1, <2>2 DEF ComposedVerdict, Permissive
  <2> QED
    BY <2>1, <2>2, <2>3
<1>3. /\ RoutesOf(values, "block") = {} /\ ~ a.independence_failed
  BY <1>2 DEF Blocks, blocks
<1>4. ASSUME NEW v \in values PROVE ~ WellFormedFailure(v)
  <2>1. v.verdict # "require_approval"
    BY <1>2
  <2>2. v.verdict = "route" => v.route = None
    BY <1>2 DEF RoutesOf
  <2>3. v.verdict = "block" => v.route = None
    BY <1>3 DEF RoutesOf
  <2> QED
    BY <2>1, <2>2, <2>3 DEF WellFormedFailure, WellFormedRoute
<1> QED
  BY <1>3, <1>4 DEF values

\* More of the same: there is an outcome, and every effect permits.
LEMMA PermissiveEffects ==
    ASSUME NEW outcomes, NEW a, Compose(outcomes, a).verdict \in Permissive
    PROVE  /\ outcomes # {}
           /\ \A v \in Values(outcomes, a) : WellFormedEffect(v) => v.verdict \in Permissive
<1> DEFINE values == Values(outcomes, a)
           blocks == IF outcomes = {} THEN {SafetyRoute(FALSE)} ELSE Blocks(values, a)
<1>1. Compose(outcomes, a).verdict = ComposedVerdict(values, blocks)
  BY DEF Compose
<1> HIDE DEF values, blocks
<1>2. blocks = {}
  BY <1>1 DEF ComposedVerdict, Permissive
<1>3. RoutesOf(values, "route") = {}
  BY <1>1, <1>2 DEF ComposedVerdict, Permissive
<1>4. \A v \in values : v.verdict # "require_approval"
  BY <1>1, <1>2, <1>3 DEF ComposedVerdict, Permissive
<1>5. outcomes # {} /\ RoutesOf(values, "block") = {}
  BY <1>2 DEF Blocks, blocks
<1>6. ASSUME NEW v \in values, WellFormedEffect(v) PROVE v.verdict \in Permissive
  <2>1. v.route # None
    BY <1>6 DEF WellFormedEffect, WellFormedRoute
  <2>2. v.verdict # "route" /\ v.verdict # "block"
    BY <1>3, <1>5, <2>1 DEF RoutesOf
  <2> QED
    BY <1>4, <1>6, <2>2 DEF WellFormedEffect
<1> QED
  BY <1>5, <1>6 DEF values

\* And nothing more is needed.
LEMMA PermissiveValuesCompose ==
    ASSUME NEW outcomes, outcomes # {}, NEW a, ~ a.independence_failed,
           \A v \in Values(outcomes, a) : v.verdict \in Permissive
    PROVE  Compose(outcomes, a).verdict \in Permissive
<1> DEFINE values == Values(outcomes, a)
           blocks == IF outcomes = {} THEN {SafetyRoute(FALSE)} ELSE Blocks(values, a)
<1>1. Compose(outcomes, a).verdict = ComposedVerdict(values, blocks)
  BY DEF Compose
<1>2. \A v \in values : v.verdict \notin {"block", "route", "require_approval"}
  BY DEF Permissive
<1> HIDE DEF values
<1>3. RoutesOf(values, "block") = {} /\ RoutesOf(values, "route") = {}
  BY <1>2 DEF RoutesOf
<1>4. blocks = {}
  BY <1>3 DEF Blocks
<1> HIDE DEF blocks
<1>5. "require_approval" \notin {v.verdict : v \in values}
  BY <1>2
<1> QED
  BY <1>1, <1>3, <1>4, <1>5 DEF ComposedVerdict, Permissive

\* What an assessment holds, member by member.
LEMMA AssessedMembers ==
    ASSUME NEW i, NEW s, NEW facts, NEW registry
    PROVE  LET a == Assessed(i, s, facts, registry)
               effects == Effects(SelectControls(i, s))
           IN  /\ \A v : v \in a.failures <=>
                    \/ \E o \in effects : \E k \in o.outcome.conditions :
                            ~ ConditionSatisfied(k, i, registry) /\ v = k.failure
                    \/ \E o \in effects : \E r \in Required(o, "approval") :
                            ApprovalMissing(r, i, s, facts) /\ v = r.failure
                    \/ \E o \in effects : \E r \in Required(o, "profile") :
                            ProfileMissing(o, r, i, s, facts, registry) /\ v = r.failure
               /\ a.independence_failed <=>
                    \E o \in effects : \E r \in Required(o, "approval") :
                        \E f \in Matching(r, i, s, facts) : IndependenceFails(r, f, i)
               /\ \A v : v \in a.profile_outcomes <=>
                    \E f \in Profiles(SelectControls(i, s), i, s, facts, registry) :
                        v = ProfileOutcome(f)
<1> DEFINE a == Assessed(i, s, facts, registry)
           effects == Effects(SelectControls(i, s))
           approvals == UNION {Required(o, "approval") : o \in effects}
<1>1. /\ a.failures =
            {k.failure : k \in {k \in UNION {o.outcome.conditions : o \in effects} :
                                    ~ ConditionSatisfied(k, i, registry)}}
            \cup {r.failure : r \in {r \in approvals : ApprovalMissing(r, i, s, facts)}}
            \cup UNION {{r.failure : r \in {r \in Required(o, "profile") :
                            ProfileMissing(o, r, i, s, facts, registry)}} : o \in effects}
      /\ a.independence_failed = \E r \in approvals :
            \E f \in Matching(r, i, s, facts) : IndependenceFails(r, f, i)
      /\ a.profile_outcomes =
            {ProfileOutcome(f) : f \in Profiles(SelectControls(i, s), i, s, facts, registry)}
  BY DEF Assessed, AssessRequirements
<1> HIDE DEF a, effects
<1>2. a.independence_failed <=>
            \E o \in effects : \E r \in Required(o, "approval") :
                \E f \in Matching(r, i, s, facts) : IndependenceFails(r, f, i)
  BY <1>1
<1>3. \A v : v \in a.failures <=>
            \/ \E o \in effects : \E k \in o.outcome.conditions :
                    ~ ConditionSatisfied(k, i, registry) /\ v = k.failure
            \/ \E o \in effects : \E r \in Required(o, "approval") :
                    ApprovalMissing(r, i, s, facts) /\ v = r.failure
            \/ \E o \in effects : \E r \in Required(o, "profile") :
                    ProfileMissing(o, r, i, s, facts, registry) /\ v = r.failure
  BY <1>1
<1>4. \A v : v \in a.profile_outcomes <=>
            \E f \in Profiles(SelectControls(i, s), i, s, facts, registry) : v = ProfileOutcome(f)
  BY <1>1
<1> QED
  BY <1>2, <1>3, <1>4 DEF a, effects

LEMMA DecisionHasWindow ==
    ASSUME NEW i, NEW s, NEW facts, NEW registry
    PROVE  /\ {"evaluated", "expires"} \subseteq DOMAIN DecisionFrom(i, s, facts, registry)
           /\ DecisionFrom(i, s, facts, registry).sealed = TRUE
BY DEF DecisionFrom

LEMMA DecisionFromFields ==
    ASSUME NEW i, NEW s, NEW facts, NEW registry
    PROVE  LET d == DecisionFrom(i, s, facts, registry)
               composed == Compose(SelectControls(i, s), Assessed(i, s, facts, registry))
           IN  /\ d.intent = i /\ d.snapshot = s /\ d.facts = facts
               /\ d.evaluated = s.observed /\ d.expires = s.observed + DecisionTTL
               /\ d.predecessor = facts.basis
               /\ d.verdict = composed.verdict /\ d.route = composed.route
               /\ d.controls = composed.controls /\ d.evidence = composed.evidence
<1> DEFINE composed == Compose(SelectControls(i, s), Assessed(i, s, facts, registry))
           d == [intent |-> i, snapshot |-> s, facts |-> facts,
                 evaluated |-> s.observed, expires |-> s.observed + DecisionTTL,
                 predecessor |-> facts.basis, sealed |-> TRUE,
                 verdict |-> composed.verdict, route |-> composed.route,
                 approvals |-> composed.approvals, evidence |-> composed.evidence,
                 controls |-> composed.controls, recheck |-> composed.recheck]
<1>1. DecisionFrom(i, s, facts, registry) = d
  BY DEF DecisionFrom, Assessed
<1> HIDE DEF composed
<1>2. /\ d.intent = i /\ d.snapshot = s /\ d.facts = facts
      /\ d.evaluated = s.observed /\ d.expires = s.observed + DecisionTTL
      /\ d.predecessor = facts.basis /\ d.verdict = composed.verdict
      /\ d.route = composed.route /\ d.controls = composed.controls
      /\ d.evidence = composed.evidence
  OBVIOUS
<1> HIDE DEF d
<1> QED
  BY <1>1, <1>2 DEF composed

LEMMA DecisionFields ==
    ASSUME NEW i, NEW s, NEW facts, NEW registry, Evaluate(i, s, facts, registry) # None
    PROVE  LET d == Evaluate(i, s, facts, registry)
           IN  /\ d.intent = i /\ d.snapshot = s /\ d.facts = facts
               /\ d.evaluated = s.observed /\ d.expires = s.observed + DecisionTTL
               /\ d.predecessor = facts.basis
               /\ d.verdict = Compose(SelectControls(i, s), Assessed(i, s, facts, registry)).verdict
               /\ d.controls = {o.control : o \in SelectControls(i, s)}
               /\ d.evidence = Assessed(i, s, facts, registry).evidence
<1>1. Evaluate(i, s, facts, registry) = DecisionFrom(i, s, facts, registry)
  BY DEF Evaluate
<1>2. LET composed == Compose(SelectControls(i, s), Assessed(i, s, facts, registry))
      IN  /\ composed.controls = {o.control : o \in SelectControls(i, s)}
          /\ composed.evidence = Assessed(i, s, facts, registry).evidence
  BY DEF Compose
<1> QED
  BY <1>1, <1>2, DecisionFromFields

\* Every control of a permissive decision had its own effect, and of that
\* effect no approval was missing and all evidence is owed.
LEMMA PermissiveDecision ==
    ASSUME NEW i, NEW s, NEW facts, NEW registry, Evaluate(i, s, facts, registry) # None,
           Evaluate(i, s, facts, registry).verdict \in Permissive,
           \A c \in s.controls : WellFormedControl(c),
           NEW o \in SelectControls(i, s)
    PROVE  /\ o.outcome = o.control.effect
           /\ ~ WellFormedFailure(o.outcome)
           /\ \A r \in o.control.effect.requirements :
                  /\ WellFormedRequirement(r)
                  /\ r.type = "approval" => ~ ApprovalMissing(r, i, s, facts)
                  /\ r.type = "evidence" => r \in Assessed(i, s, facts, registry).evidence
           /\ ~ Assessed(i, s, facts, registry).independence_failed
<1> DEFINE outcomes == SelectControls(i, s)
           a == Assessed(i, s, facts, registry)
<1>1. /\ ~ a.independence_failed /\ \A v \in Values(outcomes, a) : ~ WellFormedFailure(v)
  BY DecisionFields, PermissiveComposition
<1>2. o.control \in s.controls /\ o.outcome \in {o.control.on_unknown, o.control.effect}
  BY DEF SelectControls, Applicable
<1>3. WellFormedControl(o.control)
  BY <1>2
<1>4. ~ WellFormedFailure(o.outcome)
  BY <1>1 DEF Values
<1>5. o.outcome = o.control.effect
  BY <1>2, <1>3, <1>4 DEF WellFormedControl
<1>6. o \in Effects(outcomes)
  BY <1>3, <1>5 DEF Effects, WellFormedControl, WellFormedEffect
<1>7. ASSUME NEW r \in o.control.effect.requirements
      PROVE  /\ WellFormedRequirement(r)
             /\ r.type = "approval" => ~ ApprovalMissing(r, i, s, facts)
             /\ r.type = "evidence" => r \in a.evidence
  <2>1. WellFormedRequirement(r)
    BY <1>3 DEF WellFormedControl, WellFormedEffect
  <2>2. r \in Required(o, r.type)
    BY <1>5 DEF Required
  <2>3. ASSUME r.type = "approval", ApprovalMissing(r, i, s, facts) PROVE FALSE
    <3>1. r.failure \in a.failures
      BY <1>6, <2>2, <2>3 DEF Assessed, AssessRequirements
    <3> QED
      BY <1>1, <2>1, <3>1 DEF Values, WellFormedRequirement
  <2>4. r.type = "evidence" => r \in a.evidence
    BY <1>6, <2>2 DEF Assessed, AssessRequirements
  <2> QED
    BY <2>1, <2>3, <2>4
<1> QED
  BY <1>1, <1>4, <1>5, <1>7

\* A control of a permissive decision and what became of it.
LEMMA AppliedControl ==
    ASSUME NEW d, NEW registry, d # None, d = Evaluate(d.intent, d.snapshot, d.facts, registry),
           d.verdict \in Permissive, \A c \in d.snapshot.controls : WellFormedControl(c),
           NEW c \in d.controls
    PROVE  \A r \in c.effect.requirements :
              /\ WellFormedRequirement(r)
              /\ r.type = "approval" =>
                    ~ ApprovalMissing(r, d.intent, d.snapshot, d.facts)
              /\ r.type = "evidence" => r \in d.evidence
<1>1. PICK o \in SelectControls(d.intent, d.snapshot) : c = o.control
  BY DecisionFields
<1>2. d.evidence = Assessed(d.intent, d.snapshot, d.facts, registry).evidence
  BY DecisionFields
<1> QED
  BY <1>1, <1>2, PermissiveDecision

-----------------------------------------------------------------------------
(* What is composed *)

WellFormedInputs(s, facts) ==
    /\ \A c \in s.controls : WellFormedControl(c)
    /\ \A f \in facts.profiles : WellFormedProfile(f)

\* A value is an effect, a failure some control falls back to, or the failure
\* a profile stands for, which never routes to a default route.
Sourced(v, s) ==
    \/ WellFormedEffect(v)
    \/ /\ WellFormedFailure(v)
       /\ \/ \E c \in s.controls : v \in FailureEffects(c)
          \/ v.verdict = "route" => v.route.kind \notin DefaultKinds

LEMMA EffectOfControl ==
    ASSUME NEW i, NEW s, \A c \in s.controls : WellFormedControl(c),
           NEW o \in SelectControls(i, s)
    PROVE  /\ o.control \in s.controls
           /\ WellFormedEffect(o.control.effect) /\ WellFormedFailure(o.control.on_unknown)
           /\ o.outcome \in {o.control.on_unknown, o.control.effect}
           /\ o.outcome.class = "effect" => o.outcome = o.control.effect
<1>1. o.control \in s.controls /\ o.outcome \in {o.control.on_unknown, o.control.effect}
  BY DEF SelectControls, Applicable
<1>2. WellFormedEffect(o.control.effect) /\ WellFormedFailure(o.control.on_unknown)
  BY <1>1 DEF WellFormedControl
<1> QED
  BY <1>1, <1>2 DEF WellFormedFailure

LEMMA ProfileSourced ==
    ASSUME NEW f, NEW s, WellFormedProfile(f), ~ ProfileFault(f)
    PROVE  Sourced(ProfileOutcome(f), s)
<1>1. CASE f.verdict \in {"block", "conflict"}
  <2>1. ProfileOutcome(f) = [class |-> "failure", verdict |-> "block", route |-> f.route]
    BY <1>1 DEF ProfileOutcome
  <2>2. f.route.kind = "block"
    BY <1>1 DEF ProfileFault
  <2> QED
    BY <2>1, <2>2 DEF Sourced, WellFormedFailure, WellFormedProfile
<1>2. CASE f.verdict = "route"
  <2>1. ProfileOutcome(f) = [class |-> "failure", verdict |-> "route", route |-> f.route]
    BY <1>2 DEF ProfileOutcome
  <2>2. f.route.kind \notin DefaultKinds
    BY <1>2 DEF ProfileFault
  <2> QED
    BY <2>1, <2>2 DEF Sourced, WellFormedFailure, WellFormedProfile
<1>3. CASE f.verdict = "require_approval"
  <2>1. ProfileOutcome(f)
            = [class |-> "failure", verdict |-> "require_approval", route |-> None]
    BY <1>3 DEF ProfileOutcome
  <2> QED
    BY <2>1 DEF Sourced, WellFormedFailure
<1>4. CASE f.verdict \in Permissive
  <2>1. ProfileOutcome(f)
            = [class |-> "effect", verdict |-> f.verdict, route |-> f.route,
               requirements |-> {}, conditions |-> {}]
    BY <1>4 DEF ProfileOutcome, Permissive
  <2>2. f.route.kind # "block"
    BY <1>4 DEF ProfileFault, Permissive
  <2>3. WellFormedEffect(ProfileOutcome(f))
    BY <1>4, <2>1, <2>2 DEF WellFormedEffect, WellFormedProfile, Permissive
  <2> QED
    BY <2>3 DEF Sourced
<1> QED
  BY <1>1, <1>2, <1>3, <1>4 DEF WellFormedProfile

LEMMA ValuesSourced ==
    ASSUME NEW i, NEW s, NEW facts, NEW registry, WellFormedInputs(s, facts),
           ~ AssessmentFault(SelectControls(i, s), i, s, facts, registry),
           NEW v \in Values(SelectControls(i, s), Assessed(i, s, facts, registry))
    PROVE  Sourced(v, s)
<1> DEFINE outcomes == SelectControls(i, s)
           a == Assessed(i, s, facts, registry)
<1>1. ASSUME NEW o \in outcomes, v = o.outcome PROVE Sourced(v, s)
  BY <1>1, EffectOfControl DEF WellFormedInputs, Sourced, FailureEffects
<1>2. ASSUME v \in a.failures PROVE Sourced(v, s)
  <2>1. PICK o \in Effects(outcomes) :
            \/ \E k \in o.outcome.conditions : v = k.failure
            \/ \E r \in o.outcome.requirements : v = r.failure
    BY <1>2 DEF Assessed, AssessRequirements, Required
  <2>2. /\ o.control \in s.controls /\ o.outcome = o.control.effect
        /\ WellFormedEffect(o.outcome)
    BY EffectOfControl DEF Effects, WellFormedInputs
  <2>3. WellFormedFailure(v)
    BY <2>1, <2>2 DEF WellFormedEffect, WellFormedRequirement
  <2>4. v \in FailureEffects(o.control)
    BY <2>1, <2>2 DEF FailureEffects
  <2> QED
    BY <2>2, <2>3, <2>4 DEF Sourced
<1>3. ASSUME v \in a.profile_outcomes PROVE Sourced(v, s)
  <2>1. PICK f \in Profiles(outcomes, i, s, facts, registry) : v = ProfileOutcome(f)
    BY <1>3 DEF Assessed, AssessRequirements
  <2>2. f \in facts.profiles
    BY DEF Profiles, ProfileMatching
  <2> QED
    BY <2>1, <2>2, ProfileSourced DEF AssessmentFault, WellFormedInputs
<1> QED
  BY <1>1, <1>2, <1>3 DEF Values

LEMMA SourcedRoute ==
    ASSUME NEW v, NEW s, Sourced(v, s), v.verdict \in {"block", "route"}
    PROVE  v.route.order \in Nat /\ (v.verdict = "block" => v.route.kind = "block")
<1>1. CASE WellFormedEffect(v)
  BY <1>1 DEF WellFormedEffect, WellFormedRoute, Permissive
<1>2. CASE WellFormedFailure(v)
  BY <1>2 DEF WellFormedFailure, WellFormedRoute
<1> QED
  BY <1>1, <1>2 DEF Sourced

\* Whatever is composed of such values has a route that fits its verdict.
LEMMA ComposedShape ==
    ASSUME NEW outcomes, NEW a, NEW s, \A v \in Values(outcomes, a) : Sourced(v, s)
    PROVE  LET d == Compose(outcomes, a)
           IN  /\ d.verdict \in Permissive => d.controls # {} /\ d.route.kind # "block"
               /\ d.verdict \in {"block", "conflict"} => d.route.kind = "block"
               /\ d.verdict = "route" =>
                    \E v \in Values(outcomes, a) : v.verdict = "route" /\ v.route = d.route
<1> DEFINE values == Values(outcomes, a)
           blocks == IF outcomes = {} THEN {SafetyRoute(FALSE)} ELSE Blocks(values, a)
           verdict == ComposedVerdict(values, blocks)
           route == ComposedRoute(values, blocks, verdict)
           offered == {v.route : v \in {w \in values : w.class = "effect"}}
           d == Compose(outcomes, a)
<1>1. /\ d.verdict = verdict /\ d.route = route
      /\ d.controls = {o.control : o \in outcomes}
  BY DEF Compose
<1>2. /\ SafetyRoute(TRUE).kind = "block"
      /\ SafetyRoute(FALSE).kind = "block" /\ SafetyRoute(FALSE).order \in Nat
  BY EvaluationAssumption DEF SafetyRoute
<1>3. \A r \in RoutesOf(values, "block") : r.kind = "block" /\ r.order \in Nat
  BY SourcedRoute DEF RoutesOf
<1>4. \A r \in blocks : r.kind = "block" /\ r.order \in Nat
  BY <1>2, <1>3 DEF Blocks
<1>5. \A r \in RoutesOf(values, "route") : r.order \in Nat
  BY SourcedRoute DEF RoutesOf
<1>6. ASSUME verdict \in Permissive
      PROVE  outcomes # {} /\ route.kind # "block"
  <2>1. /\ outcomes # {} /\ blocks = {} /\ RoutesOf(values, "route") = {}
        /\ "require_approval" \notin {v.verdict : v \in values}
    <3> HIDE DEF values
    <3> QED
      BY <1>6 DEF ComposedVerdict, Permissive
  <2>2. \A v \in values : WellFormedEffect(v)
    BY <1>1, <1>6, PermissiveComposition DEF Sourced
  <2>3. \A v \in values : v.class = "effect" /\ WellFormedRoute(v.route)
                            /\ v.route.kind # "block"
    <3> SUFFICES ASSUME NEW v \in values
                 PROVE  v.class = "effect" /\ WellFormedRoute(v.route) /\ v.route.kind # "block"
      OBVIOUS
    <3>1. v.class = "effect" /\ WellFormedRoute(v.route) /\ v.route # None
      BY <2>2 DEF WellFormedEffect, WellFormedRoute
    <3>2. v.verdict \notin {"block", "route", "require_approval"}
      BY <2>1, <3>1 DEF RoutesOf, Blocks
    <3> QED
      BY <2>2, <3>1, <3>2 DEF WellFormedEffect, Permissive
  <2>4. offered # {} /\ \A r \in offered : r.order \in Nat /\ r.kind # "block"
    BY <2>1, <2>3 DEF Values, WellFormedRoute
  <2>5. First(offered) \in offered
    <3> HIDE DEF offered
    <3> QED
      BY <2>4, FirstIsOne
  <2>6. route = First(offered)
    BY <1>6, <2>4 DEF ComposedRoute, Permissive
  <2> QED
    BY <2>1, <2>4, <2>5, <2>6
<1>7. ASSUME verdict = "block" PROVE route.kind = "block"
  <2>1. blocks # {}
    <3> HIDE DEF values, blocks
    <3> QED
      BY <1>7 DEF ComposedVerdict
  <2>2. First(blocks) \in blocks
    <3> HIDE DEF blocks
    <3> QED
      BY <1>4, <2>1, FirstIsOne
  <2> QED
    BY <1>4, <1>7, <2>2 DEF ComposedRoute
<1>8. verdict = "conflict" => route.kind = "block"
  BY <1>2 DEF ComposedRoute
<1>9. ASSUME verdict = "route" PROVE \E v \in values : v.verdict = "route" /\ v.route = route
  <2>1. RoutesOf(values, "route") # {}
    <3> HIDE DEF values, blocks
    <3> QED
      BY <1>9 DEF ComposedVerdict
  <2>2. First(RoutesOf(values, "route")) \in RoutesOf(values, "route")
    BY <1>5, <2>1, FirstIsOne
  <2> QED
    BY <1>9, <2>2 DEF ComposedRoute, RoutesOf
<1> HIDE DEF verdict, route
<1> QED
  BY <1>1, <1>6, <1>7, <1>8, <1>9

\* The contract refuses a decision only for a route that a failure effect of a
\* control names and that is a default route.
LEMMA OnlyDefaultRoutesRefused ==
    ASSUME NEW i, NEW s, NEW facts, NEW registry,
           s.observed \in Nat, WellFormedInputs(s, facts),
           ~ InputFault(i, s, facts, registry),
           ~ AcceptableDecision(DecisionFrom(i, s, facts, registry))
    PROVE  /\ DecisionFrom(i, s, facts, registry).verdict = "route"
           /\ \E c \in s.controls : \E f \in FailureEffects(c) :
                  f.verdict = "route" /\ f.route.kind \in DefaultKinds
<1> DEFINE outcomes == SelectControls(i, s)
           a == Assessed(i, s, facts, registry)
           composed == Compose(outcomes, a)
           d == DecisionFrom(i, s, facts, registry)
<1>1. \A v \in Values(outcomes, a) : Sourced(v, s)
  BY ValuesSourced DEF InputFault
<1>2. /\ d.verdict = composed.verdict /\ d.route = composed.route
      /\ d.controls = composed.controls /\ d.expires = d.evaluated + DecisionTTL
      /\ d.evaluated \in Nat
  BY DecisionFromFields
<1>3. /\ composed.verdict \in Permissive =>
            composed.controls # {} /\ composed.route.kind # "block"
      /\ composed.verdict \in {"block", "conflict"} => composed.route.kind = "block"
      /\ composed.verdict = "route" =>
            \E v \in Values(outcomes, a) : v.verdict = "route" /\ v.route = composed.route
  BY <1>1, ComposedShape
<1> HIDE DEF outcomes, a, composed, d
<1>4. d.verdict = "route" /\ d.route.kind \in DefaultKinds
  BY <1>2, <1>3, EvaluationAssumption DEF AcceptableDecision, d
<1>5. PICK v \in Values(outcomes, a) : v.verdict = "route" /\ v.route.kind \in DefaultKinds
  BY <1>2, <1>3, <1>4
<1>6. ~ WellFormedEffect(v)
  BY <1>5 DEF WellFormedEffect, Permissive
<1> QED
  BY <1>1, <1>4, <1>5, <1>6 DEF Sourced, d

\* A profile that an applied effect rests on was satisfied, and said to permit.
LEMMA PermissiveProfiles ==
    ASSUME NEW i, NEW s, NEW facts, NEW registry,
           Evaluate(i, s, facts, registry) # None,
           Evaluate(i, s, facts, registry).verdict \in Permissive,
           WellFormedInputs(s, facts),
           NEW o \in SelectControls(i, s),
           NEW r \in o.control.effect.requirements, r.type = "profile"
    PROVE  /\ ~ ProfileMissing(o, r, i, s, facts, registry)
           /\ \A f \in ProfileMatching(o, r, i, s, facts) : f.verdict \in Permissive
<1> DEFINE outcomes == SelectControls(i, s)
           a == Assessed(i, s, facts, registry)
<1>1. \A v \in Values(outcomes, a) : ~ WellFormedFailure(v)
  BY DecisionFields, PermissiveComposition
<1>2. /\ o.outcome = o.control.effect /\ WellFormedRequirement(r)
      /\ WellFormedEffect(o.outcome)
  BY PermissiveDecision, EffectOfControl DEF WellFormedInputs
<1>3. o \in Effects(outcomes) /\ r \in Required(o, "profile")
  BY <1>2 DEF Effects, Required, WellFormedEffect
<1>4. ASSUME ProfileMissing(o, r, i, s, facts, registry) PROVE FALSE
  <2>1. r.failure \in a.failures
    BY <1>3, <1>4 DEF Assessed, AssessRequirements
  <2> QED
    BY <1>1, <1>2, <2>1 DEF Values, WellFormedRequirement
<1>5. ASSUME NEW f \in ProfileMatching(o, r, i, s, facts) PROVE f.verdict \in Permissive
  <2>1. f \in Profiles(outcomes, i, s, facts, registry)
    BY <1>3, <1>4 DEF Profiles
  <2>2. WellFormedProfile(f) /\ ~ ProfileFault(f)
    BY <2>1 DEF ProfileMatching, WellFormedInputs, Evaluate, InputFault, AssessmentFault
  <2>3. ProfileOutcome(f) \in a.profile_outcomes
    BY <2>1 DEF Assessed, AssessRequirements
  <2>4. ~ WellFormedFailure(ProfileOutcome(f))
    BY <1>1, <2>3 DEF Values
  <2>5. f.verdict \in {"block", "conflict", "route", "require_approval"} =>
            WellFormedFailure(ProfileOutcome(f))
    BY <2>2 DEF ProfileOutcome, ProfileFault, WellFormedProfile, WellFormedFailure
  <2> QED
    BY <2>2, <2>4, <2>5 DEF WellFormedProfile
<1> QED
  BY <1>4, <1>5

-----------------------------------------------------------------------------
(* More controls *)

\* The same profile assessment, made for one snapshot and for another.
SameProfile(f, s, g, t) ==
    /\ g.verifier = f.verifier /\ g.intent = f.intent /\ g.control = f.control
    /\ g.status = f.status /\ g.verdict = f.verdict /\ g.route = f.route
    /\ g.sealed = f.sealed /\ (g.snapshot = t <=> f.snapshot = s)

\* Another snapshot of the same instant has every control of the first, and the
\* facts at hand are the same.
Grows(s, facts, t, more) ==
    /\ s.controls \subseteq t.controls /\ t.observed = s.observed
    /\ t.supported = s.supported /\ t.sealed = s.sealed
    /\ more.basis = facts.basis
    /\ more.approvals = facts.approvals /\ more.evidence = facts.evidence
    /\ \A f \in facts.profiles : \E g \in more.profiles : SameProfile(f, s, g, t)
    /\ \A g \in more.profiles : \E f \in facts.profiles : SameProfile(f, s, g, t)

LEMMA SelectionGrows ==
    ASSUME NEW i, NEW s, NEW t, NEW facts, NEW more, Grows(s, facts, t, more)
    PROVE  /\ SelectControls(i, s) \subseteq SelectControls(i, t)
           /\ SelectionFault(i, s) => SelectionFault(i, t)
<1>1. Applicable(i, s) \subseteq Applicable(i, t)
  BY DEF Applicable, Grows
<1>2. SelectControls(i, s) \subseteq SelectControls(i, t)
  BY <1>1 DEF SelectControls
<1>3. ValidSnapshot(t) => ValidSnapshot(s)
  BY DEF ValidSnapshot, Grows
<1> QED
  BY <1>1, <1>2, <1>3 DEF SelectionFault

LEMMA MatchingGrows ==
    ASSUME NEW i, NEW s, NEW t, NEW facts, NEW more, Grows(s, facts, t, more),
           NEW registry, NEW o, NEW r
    PROVE  /\ ApprovalMissing(r, i, t, more) <=> ApprovalMissing(r, i, s, facts)
           /\ Matching(r, i, t, more) = Matching(r, i, s, facts)
           /\ ProfileMissing(o, r, i, t, more, registry)
                <=> ProfileMissing(o, r, i, s, facts, registry)
           /\ \A f \in ProfileMatching(o, r, i, s, facts) :
                \E g \in ProfileMatching(o, r, i, t, more) : SameProfile(f, s, g, t)
<1>1. Matching(r, i, t, more) = Matching(r, i, s, facts)
  BY DEF Grows, Matching, ApprovalMatches
<1>2. \A f \in ProfileMatching(o, r, i, s, facts) :
        \E g \in ProfileMatching(o, r, i, t, more) : SameProfile(f, s, g, t)
  BY DEF Grows, ProfileMatching, SameProfile
<1>3. \A g \in ProfileMatching(o, r, i, t, more) :
        \E f \in ProfileMatching(o, r, i, s, facts) : SameProfile(f, s, g, t)
  BY DEF Grows, ProfileMatching, SameProfile
<1>4. ProfileMissing(o, r, i, t, more, registry) <=> ProfileMissing(o, r, i, s, facts, registry)
  BY <1>2, <1>3 DEF ProfileMissing, SameProfile
<1> QED
  BY <1>1, <1>2, <1>4 DEF ApprovalMissing

LEMMA ProfilesGrow ==
    ASSUME NEW i, NEW s, NEW t, NEW facts, NEW more, Grows(s, facts, t, more),
           NEW registry, NEW f \in Profiles(SelectControls(i, s), i, s, facts, registry)
    PROVE  \E g \in Profiles(SelectControls(i, t), i, t, more, registry) :
                SameProfile(f, s, g, t)
<1>1. PICK o \in Effects(SelectControls(i, s)) :
        \E r \in Required(o, "profile") :
            /\ ~ ProfileMissing(o, r, i, s, facts, registry)
            /\ f \in ProfileMatching(o, r, i, s, facts)
  BY DEF Profiles
<1>2. o \in Effects(SelectControls(i, t))
  BY SelectionGrows DEF Effects
<1>3. \E r \in Required(o, "profile") :
        /\ ~ ProfileMissing(o, r, i, t, more, registry)
        /\ \E g \in ProfileMatching(o, r, i, t, more) : SameProfile(f, s, g, t)
  BY <1>1, MatchingGrows
<1> QED
  BY <1>2, <1>3 DEF Profiles

\* What raised before raises still.
LEMMA FaultsGrow ==
    ASSUME NEW i, NEW s, NEW t, NEW facts, NEW more, Grows(s, facts, t, more),
           NEW registry, InputFault(i, s, facts, registry)
    PROVE  InputFault(i, t, more, registry)
<1>1. CASE ~ i.sealed
  BY <1>1 DEF InputFault
<1>2. CASE SelectionFault(i, s)
  BY <1>2, SelectionGrows DEF InputFault
<1>3. ASSUME NEW f \in facts.approvals \cup facts.evidence \cup facts.profiles, ~ f.sealed
      PROVE  InputFault(i, t, more, registry)
  BY <1>3 DEF InputFault, AssessmentFault, Grows, SameProfile
<1>4. ASSUME NEW f \in Profiles(SelectControls(i, s), i, s, facts, registry), ProfileFault(f)
      PROVE  InputFault(i, t, more, registry)
  <2>1. PICK g \in Profiles(SelectControls(i, t), i, t, more, registry) : SameProfile(f, s, g, t)
    BY ProfilesGrow
  <2>2. ProfileFault(g)
    BY <1>4, <2>1 DEF ProfileFault, SameProfile
  <2> QED
    BY <2>2 DEF InputFault, AssessmentFault
<1> QED
  BY <1>1, <1>2, <1>3, <1>4 DEF InputFault, AssessmentFault

\* What was composed before is composed still.
LEMMA ValuesGrow ==
    ASSUME NEW i, NEW s, NEW t, NEW facts, NEW more, Grows(s, facts, t, more), NEW registry
    PROVE  LET now == Assessed(i, s, facts, registry)
               after == Assessed(i, t, more, registry)
           IN  /\ now.independence_failed => after.independence_failed
               /\ Values(SelectControls(i, s), now) \subseteq Values(SelectControls(i, t), after)
<1> DEFINE outcomes == SelectControls(i, s)
           others == SelectControls(i, t)
           now == Assessed(i, s, facts, registry)
           after == Assessed(i, t, more, registry)
<1>1. outcomes \subseteq others /\ Effects(outcomes) \subseteq Effects(others)
  BY SelectionGrows DEF Effects
<1>2. ASSUME now.independence_failed PROVE after.independence_failed
  <2>1. \E o \in Effects(outcomes) : \E r \in Required(o, "approval") :
            \E f \in Matching(r, i, s, facts) : IndependenceFails(r, f, i)
    <3>1. \E r \in UNION {Required(o, "approval") : o \in Effects(outcomes)} :
              \E f \in Matching(r, i, s, facts) : IndependenceFails(r, f, i)
      BY <1>2 DEF Assessed, AssessRequirements
    <3> HIDE DEF outcomes, others, now, after
    <3> QED
      BY <3>1
  <2>2. \E r \in UNION {Required(o, "approval") : o \in Effects(others)} :
            \E f \in Matching(r, i, t, more) : IndependenceFails(r, f, i)
    <3> HIDE DEF outcomes, others, now, after
    <3>1. PICK o \in Effects(outcomes) : \E r \in Required(o, "approval") :
                    \E f \in Matching(r, i, s, facts) : IndependenceFails(r, f, i)
      BY <2>1
    <3>2. PICK r \in Required(o, "approval") :
                    \E f \in Matching(r, i, s, facts) : IndependenceFails(r, f, i)
      BY <3>1
    <3>3. o \in Effects(others)
      BY <1>1
    <3>4. Matching(r, i, t, more) = Matching(r, i, s, facts)
      BY MatchingGrows
    <3> QED
      BY <3>2, <3>3, <3>4
  <2> QED
    BY <2>2 DEF Assessed, AssessRequirements
<1>3. ASSUME NEW v \in now.failures PROVE v \in after.failures
  <2>1. \/ \E o \in Effects(outcomes) : \E k \in o.outcome.conditions :
              ~ ConditionSatisfied(k, i, registry) /\ v = k.failure
        \/ \E o \in Effects(outcomes) : \E r \in Required(o, "approval") :
              ApprovalMissing(r, i, s, facts) /\ v = r.failure
        \/ \E o \in Effects(outcomes) : \E r \in Required(o, "profile") :
              ProfileMissing(o, r, i, s, facts, registry) /\ v = r.failure
    BY <1>3 DEF Assessed, AssessRequirements
  <2>2. \/ \E o \in Effects(others) : \E k \in o.outcome.conditions :
              ~ ConditionSatisfied(k, i, registry) /\ v = k.failure
        \/ \E o \in Effects(others) : \E r \in Required(o, "approval") :
              ApprovalMissing(r, i, t, more) /\ v = r.failure
        \/ \E o \in Effects(others) : \E r \in Required(o, "profile") :
              ProfileMissing(o, r, i, t, more, registry) /\ v = r.failure
    BY <1>1, <2>1, MatchingGrows
  <2> QED
    BY <2>2 DEF Assessed, AssessRequirements
<1>4. ASSUME NEW v \in now.profile_outcomes PROVE v \in after.profile_outcomes
  <2>1. PICK f \in Profiles(outcomes, i, s, facts, registry) : v = ProfileOutcome(f)
    BY <1>4 DEF Assessed, AssessRequirements
  <2>2. PICK g \in Profiles(others, i, t, more, registry) : SameProfile(f, s, g, t)
    BY ProfilesGrow
  <2>3. ProfileOutcome(g) = ProfileOutcome(f)
    BY <2>2 DEF ProfileOutcome, SameProfile
  <2> QED
    BY <2>1, <2>3 DEF Assessed, AssessRequirements
<1> QED
  BY <1>1, <1>2, <1>3, <1>4 DEF Values
=============================================================================
