----------------------- MODULE ReferenceService_proofs -----------------------
(***************************************************************************)
(* The reference service keeps nothing, and its callers bring decisions    *)
(* they may have edited.  For any catalog, scenarios, edits and times, it  *)
(* vouches only for what it would say again: a recheck decides anew at the *)
(* instant the decision names, and compares.                               *)
(***************************************************************************)
EXTENDS ReferenceService, ControlEvaluation_proofs, FiniteSetTheorems, TLAPS

-----------------------------------------------------------------------------
(* Decisions and rechecks *)

Bound(d, i, instant) ==
    /\ {"evaluated", "expires"} \subseteq DOMAIN d
    /\ d.intent = i /\ d.sealed = TRUE
    /\ d.evaluated = instant /\ d.expires = instant + DecisionTTL
    /\ \A c \in d.controls : Effective(c, instant)

\* A decision names what it was made of, and its controls were in force.
LEMMA DecisionIsBound ==
    ASSUME NEW i, NEW s, NEW facts, NEW registry, Evaluate(i, s, facts, registry) # None
    PROVE  Bound(Evaluate(i, s, facts, registry), i, s.observed)
<1> DEFINE d == Evaluate(i, s, facts, registry)
<1>1. d = DecisionFrom(i, s, facts, registry)
  BY DEF Evaluate
<1>2. {"evaluated", "expires"} \subseteq DOMAIN d /\ d.sealed = TRUE
  BY <1>1, DecisionHasWindow
<1>3. /\ d.intent = i /\ d.evaluated = s.observed /\ d.expires = s.observed + DecisionTTL
      /\ d.controls = {o.control : o \in SelectControls(i, s)}
  BY DecisionFields
<1>4. \A c \in d.controls : Effective(c, s.observed)
  BY <1>3 DEF SelectControls, Applicable
<1> QED
  BY <1>2, <1>3, <1>4 DEF Bound

\* A valid recheck has decided the same anew.
LEMMA ValidRecheck ==
    ASSUME NEW prior, NEW i, NEW s, NEW facts, NEW registry,
           Recheck(prior, i, s, facts, registry).valid
    PROVE  /\ Evaluate(i, s, facts, registry) # None
           /\ Evaluate(i, s, facts, registry) = prior
BY DEF Recheck, RecheckReason

LEMMA ValidStands ==
    ASSUME NEW prior, prior.evaluated \in Nat, prior.expires \in Nat,
           NEW current, NEW sel, NEW t \in Nat,
           RecheckResponse(prior, current, sel, t).valid
    PROVE  Standing(prior, sel, t)
<1> DEFINE s == Resolve(sel, prior.evaluated)
           facts == FactsFor(current, sel, prior.evaluated)
<1>1. ~ (t >= prior.expires) /\ ControlsStand(prior, Resolve(sel, t), t)
  BY DEF RecheckResponse
<1>2. Recheck(prior, current, s, facts, sel.supported).valid
  BY <1>1 DEF RecheckResponse
<1>3. s.observed = prior.evaluated
  BY DEF Resolve
<1> HIDE DEF s, facts
<1>4. /\ Evaluate(current, s, facts, sel.supported) # None
      /\ Evaluate(current, s, facts, sel.supported) = prior
  BY <1>2, ValidRecheck
<1>5. Bound(prior, current, prior.evaluated)
  <2>1. Bound(Evaluate(current, s, facts, sel.supported), current, s.observed)
    BY <1>4, DecisionIsBound
  <2> QED
    BY <1>3, <1>4, <2>1
<1>6. prior = Decision(prior.intent, sel, prior.evaluated)
  BY <1>4, <1>5 DEF Bound, Decision, s, facts
<1>7. t < prior.expires
  BY <1>1
<1>8. \A c \in prior.controls : Effective(c, t)
  BY <1>1 DEF ControlsStand
<1> QED
  BY <1>5, <1>6, <1>7, <1>8 DEF Bound, Standing

-----------------------------------------------------------------------------
(* The invariant *)

ReturnedInv ==
    \A d \in returned :
        /\ {"evaluated", "expires"} \subseteq DOMAIN d
        /\ d.evaluated \in Nat /\ d.expires \in Nat

HeldInv == \A d \in held : d.evaluated \in Nat /\ d.expires \in Nat

AnswersInv ==
    \A a \in answers :
        a.selection \in Selections /\ (a.result.valid => a.result.prior # None)

ServiceInv ==
    /\ ReturnedInv /\ HeldInv /\ AnswersInv
    /\ ValidMeansStanding /\ IncompleteMeansStanding

LEMMA InitServiceInv == Init => ServiceInv
BY DEF Init, ServiceInv, ReturnedInv, HeldInv, AnswersInv,
       ValidMeansStanding, IncompleteMeansStanding

LEMMA DecideKeeps ==
    ASSUME ServiceInv, NEW i, NEW sel, NEW t \in Times, Decide(i, sel, t)
    PROVE  ServiceInv'
<1>1. PICK d : d = Decision(i, sel, t) /\ d # None /\ held' = held \cup {d}
               /\ returned' = returned \cup {d} /\ UNCHANGED <<answers, receipts>>
  BY DEF Decide
<1>2. Resolve(sel, t).observed = t
  BY DEF Resolve
<1>3. Bound(d, i, t)
  <2>1. Bound(Decision(i, sel, t), i, Resolve(sel, t).observed)
    BY <1>1, DecisionIsBound DEF Decision
  <2> QED
    BY <1>1, <1>2, <2>1
<1>4. d.evaluated \in Nat /\ d.expires \in Nat
  BY <1>3, ServiceAssumption, EvaluationAssumption DEF Bound, Times
<1>5. ReturnedInv' /\ HeldInv'
  BY <1>1, <1>3, <1>4 DEF Bound, ServiceInv, ReturnedInv, HeldInv
<1>6. AnswersInv' /\ ValidMeansStanding' /\ IncompleteMeansStanding'
  BY <1>1 DEF ServiceInv, AnswersInv, ValidMeansStanding, IncompleteMeansStanding
<1> QED
  BY <1>5, <1>6 DEF ServiceInv

LEMMA EditKeeps ==
    ASSUME ServiceInv, NEW d \in returned, NEW e \in Claimed(d), Edit(d, e)
    PROVE  ServiceInv'
<1>1. {"evaluated", "expires"} \subseteq DOMAIN d /\ d.evaluated \in Nat /\ d.expires \in Nat
  BY DEF ServiceInv, ReturnedInv
<1>2. e.evaluated \in Nat /\ e.expires \in Nat
  <2>1. CASE e = [d EXCEPT !.sealed = FALSE]
    BY <1>1, <2>1
  <2>2. CASE e = [d EXCEPT !.expires = @ + 1]
    BY <1>1, <2>2
  <2>3. ASSUME NEW c \in d.snapshot.controls,
               e = [d EXCEPT !.verdict = "allow", !.route = c.effect.route]
        PROVE  e.evaluated \in Nat /\ e.expires \in Nat
    BY <1>1, <2>3
  <2> QED
    BY <2>1, <2>2, <2>3 DEF Claimed
<1>3. ReturnedInv' /\ HeldInv'
  BY <1>2 DEF Edit, ServiceInv, ReturnedInv, HeldInv
<1>4. AnswersInv' /\ ValidMeansStanding' /\ IncompleteMeansStanding'
  BY DEF Edit, ServiceInv, AnswersInv, ValidMeansStanding, IncompleteMeansStanding
<1> QED
  BY <1>3, <1>4 DEF ServiceInv

LEMMA AnswerKeeps ==
    ASSUME ServiceInv, NEW prior \in held, NEW original, NEW current, NEW sel \in Selections,
           NEW t \in Times, AnswerRecheck(original, prior, current, sel, t)
    PROVE  ServiceInv'
<1> DEFINE result == RecheckResponse(prior, current, sel, t)
           a == [result |-> result, selection |-> sel, at |-> t]
<1>1. answers' = answers \cup {a} /\ UNCHANGED <<held, returned, receipts>>
  BY DEF AnswerRecheck
<1>2. a.result = result /\ a.selection = sel /\ a.at = t
  OBVIOUS
<1>3. result.prior = prior
  BY DEF RecheckResponse, Recheck
<1>4. result.valid => Standing(prior, sel, t)
  BY ValidStands, ServiceAssumption DEF Times, ServiceInv, HeldInv
<1>5. result.valid => prior # None
  BY ValidRecheck DEF RecheckResponse
<1> HIDE DEF result, a
<1>6. AnswersInv'
  BY <1>1, <1>2, <1>3, <1>5 DEF ServiceInv, AnswersInv
<1>7. ValidMeansStanding'
  BY <1>1, <1>2, <1>3, <1>4 DEF ServiceInv, ValidMeansStanding
<1>8. ReturnedInv' /\ HeldInv' /\ IncompleteMeansStanding'
  BY <1>1 DEF ServiceInv, ReturnedInv, HeldInv, IncompleteMeansStanding
<1> QED
  BY <1>6, <1>7, <1>8 DEF ServiceInv

LEMMA ReceiptKeeps ==
    ASSUME ServiceInv, NEW d \in held, NEW i, NEW sel \in Selections, NEW t \in Times,
           NEW route, NEW occurred \in Times,
           AnswerReceipt(d, i, sel, [route |-> route, occurred |-> occurred], t)
    PROVE  ServiceInv'
<1> DEFINE report == [route |-> route, occurred |-> occurred]
           seen == Observation(report, t)
           checked == RecheckResponse(d, i, sel, t)
           facts == FactsFor(i, sel, d.evaluated)
           x == AssessReceipt(d, i, checked, facts, seen)
<1>1. x # None /\ receipts' = receipts \cup {x} /\ t >= report.occurred
      /\ UNCHANGED <<held, returned, answers>>
  BY DEF AnswerReceipt
<1>2. report.occurred = occurred /\ seen.occurred = occurred /\ seen.recorded = t
  BY DEF Observation
<1> HIDE DEF report, seen, checked, facts
<1>3. x.decision = d /\ x.seen = seen /\ ~ ReceiptRefused(d, i, checked, facts, seen)
  BY <1>1 DEF AssessReceipt
<1>4. ASSUME x.status = "incomplete"
      PROVE  /\ d.verdict \in Permissive /\ seen.route = d.route
             /\ seen.occurred >= d.evaluated /\ seen.recorded >= seen.occurred
             /\ Standing(d, sel, seen.recorded)
  <2>1. ReceiptStatus(d, i, checked, facts, seen) = "incomplete"
    BY <1>1, <1>4 DEF AssessReceipt
  <2>2. checked.valid /\ d.verdict \in Permissive /\ seen.route = d.route
    BY <2>1 DEF ReceiptStatus
  <2>3. d.evaluated \in Nat /\ d.expires \in Nat /\ t \in Nat /\ occurred \in Nat
    BY ServiceAssumption DEF ServiceInv, HeldInv, Times
  <2>4. Standing(d, sel, t)
    BY <2>2, <2>3, ValidStands DEF checked
  <2>5. ~ (seen.occurred < d.evaluated)
    BY <1>3 DEF ReceiptRefused
  <2>6. seen.occurred >= d.evaluated /\ seen.recorded >= seen.occurred
    BY <1>1, <1>2, <2>3, <2>5
  <2> QED
    BY <1>2, <2>2, <2>4, <2>6
<1> HIDE DEF x
<1>5. IncompleteMeansStanding'
  BY <1>1, <1>3, <1>4 DEF ServiceInv, IncompleteMeansStanding
<1>6. ReturnedInv' /\ HeldInv' /\ AnswersInv' /\ ValidMeansStanding'
  BY <1>1 DEF ServiceInv, ReturnedInv, HeldInv, AnswersInv, ValidMeansStanding
<1> QED
  BY <1>5, <1>6 DEF ServiceInv

LEMMA NextServiceInv == ServiceInv /\ [Next]_vars => ServiceInv'
<1> SUFFICES ASSUME ServiceInv, [Next]_vars PROVE ServiceInv'
  OBVIOUS
<1>1. ASSUME NEW i \in Intents, NEW sel \in Selections, NEW t \in Times, Decide(i, sel, t)
      PROVE  ServiceInv'
  BY <1>1, DecideKeeps
<1>2. ASSUME NEW d \in returned, NEW e \in Claimed(d), Edit(d, e) PROVE ServiceInv'
  BY <1>2, EditKeeps
<1>3. ASSUME NEW prior \in held, NEW original \in Intents, NEW current \in Intents,
             NEW sel \in Selections, NEW t \in Times,
             AnswerRecheck(original, prior, current, sel, t)
      PROVE  ServiceInv'
  BY <1>3, AnswerKeeps
<1>4. ASSUME NEW d \in held, NEW i \in Intents, NEW sel \in Selections, NEW t \in Times,
             NEW route \in {d.route, SafetyRoute(FALSE)}, NEW occurred \in Times,
             AnswerReceipt(d, i, sel, [route |-> route, occurred |-> occurred], t)
      PROVE  ServiceInv'
  BY <1>4, ReceiptKeeps
<1>5. CASE UNCHANGED vars
  BY <1>5
     DEF vars, ServiceInv, ReturnedInv, HeldInv, AnswersInv,
         ValidMeansStanding, IncompleteMeansStanding
<1> QED
  BY <1>1, <1>2, <1>3, <1>4, <1>5 DEF Next

LEMMA AlwaysServiceInv == Spec => []ServiceInv
BY InitServiceInv, NextServiceInv, PTL DEF Spec

-----------------------------------------------------------------------------
(* The properties *)

\* A valid recheck is of a decision the service itself would return, whose
\* window is open and whose controls are in force then and now.
THEOREM ValidStanding == Spec => []ValidMeansStanding
<1>1. ServiceInv => ValidMeansStanding
  BY DEF ServiceInv
<1> QED
  BY <1>1, AlwaysServiceInv, PTL

\* So is the decision of a receipt that finds nothing but evidence missing.
THEOREM IncompleteStanding == Spec => []IncompleteMeansStanding
<1>1. ServiceInv => IncompleteMeansStanding
  BY DEF ServiceInv
<1> QED
  BY <1>1, AlwaysServiceInv, PTL

\* The scenario behind an answer that answers what a requirement asks of people.
Behind(a, r) ==
    \E x \in Scenarios :
        /\ x.intent = a.result.prior.intent /\ x.time = a.result.prior.evaluated
        /\ x.selection = a.selection
        /\ \E given \in SUBSET x.facts.approvals :
            /\ Cardinality(given) >= r.minimum_count
            /\ \A f \in given :
                /\ f.requirement = r.id /\ f.intent = a.result.prior.intent
                /\ f.from <= a.result.prior.evaluated
                /\ a.result.prior.evaluated < f.until
                /\ r.separate_from_actor =>
                      Disjoint(f.lineage, a.result.prior.intent.lineage)

\* What a valid permissive decision asks of people was answered in the scenario
\* that has its intent, its selection and its instant: the decision is the
\* service's own, of the facts of that scenario or of none, and with none nothing
\* that is asked for is there.
THEOREM ApprovalsStay == Spec => []ApprovalsStayInTheirScenario
<1>1. ServiceInv => ApprovalsStayInTheirScenario
  <2> SUFFICES ASSUME ServiceInv, NEW a \in answers, a.result.valid,
                      a.result.prior.verdict \in Permissive,
                      NEW c \in a.result.prior.controls,
                      NEW r \in {q \in c.effect.requirements : q.type = "approval"}
               PROVE  Behind(a, r)
    <3>1. ApprovalsStayInTheirScenario <=>
            \A a \in answers : a.result.valid /\ a.result.prior.verdict \in Permissive =>
                \A c \in a.result.prior.controls :
                    \A r \in {q \in c.effect.requirements : q.type = "approval"} : Behind(a, r)
      BY DEF ApprovalsStayInTheirScenario, Behind
    <3> QED
      BY <3>1
  <2> DEFINE d == a.result.prior
             i == d.intent
             sel == a.selection
             s == Resolve(sel, d.evaluated)
             facts == FactsFor(i, sel, d.evaluated)
             given == {f \in Matching(r, i, s, facts) : ~ IndependenceFails(r, f, i)}
  <2>1. sel \in Selections /\ d # None /\ d = Evaluate(i, s, facts, sel.supported)
    BY DEF ServiceInv, AnswersInv, ValidMeansStanding, Standing, Decision
  <2>2. s.controls = sel.controls /\ s.observed = d.evaluated
    BY DEF Resolve
  <2>3. \A b \in s.controls : WellFormedControl(b)
    BY <2>1, <2>2, ServiceAssumption
  <2> HIDE DEF i, sel, s, facts
  <2>4. d.snapshot = s /\ d.facts = facts
    BY <2>1, DecisionFields
  <2>5. WellFormedRequirement(r) /\ ~ ApprovalMissing(r, i, s, facts)
    BY <2>1, <2>3, <2>4, AppliedControl DEF i
  <2>6. given \subseteq facts.approvals
    BY DEF Matching
  <2>7. r.minimum_count \in Nat \ {0} /\ ~ (Cardinality(given) < r.minimum_count)
    BY <2>5 DEF WellFormedRequirement, ApprovalMissing
  <2>8. Matches(i, sel, d.evaluated) # {}
    <3> SUFFICES ASSUME Matches(i, sel, d.evaluated) = {} PROVE FALSE
      OBVIOUS
    <3>1. facts.approvals = {}
      BY DEF facts, i, sel, FactsFor, EmptyFacts
    <3>2. given = {}
      BY <2>6, <3>1
    <3>3. Cardinality(given) = 0
      BY <3>2, FS_EmptySet
    <3> QED
      BY <2>7, <3>3
  <2> DEFINE x == CHOOSE y \in Matches(i, sel, d.evaluated) : TRUE
  <2>9. x \in Matches(i, sel, d.evaluated) /\ facts = x.facts
    BY <2>8 DEF facts, i, sel, FactsFor
  <2>10. /\ x \in Scenarios /\ x.intent = i /\ x.time = d.evaluated /\ x.selection = sel
    BY <2>9 DEF Matches
  <2> HIDE DEF x
  <2>11. Cardinality(given) >= r.minimum_count
    <3>1. IsFiniteSet(given)
      BY <2>6, <2>9, <2>10, FS_Subset, ServiceAssumption
    <3> QED
      BY <2>7, <3>1, FS_CardinalityType
  <2>12. ASSUME NEW f \in given
         PROVE  /\ f.requirement = r.id /\ f.intent = i
                /\ f.from <= d.evaluated /\ d.evaluated < f.until
                /\ r.separate_from_actor => Disjoint(f.lineage, i.lineage)
    BY <2>2 DEF Matching, ApprovalMatches, IndependenceFails, Related, Disjoint
  <2> HIDE DEF given
  <2> QED
    BY <2>6, <2>9, <2>10, <2>11, <2>12 DEF Behind, i, sel
<1> QED
  BY <1>1, AlwaysServiceInv, PTL
=============================================================================
