---------------------- MODULE EvaluationSession_proofs ----------------------
(***************************************************************************)
(* What a decision, a recheck and a receipt promise between the calls of   *)
(* the core, for any host, controls, intents, approvals and evidence.  The *)
(* heart of it is the reduction: a permissive verdict leaves no room for   *)
(* a failure, so everything that could have failed was there.              *)
(***************************************************************************)
EXTENDS EvaluationSession, ControlEvaluation_proofs, FiniteSetTheorems, TLAPS

-----------------------------------------------------------------------------
(* The invariant *)

SnapshotInv ==
    /\ clock \in Nat /\ host \in Hosts /\ published \subseteq host.controls
    /\ IsFiniteSet(approvals) /\ IsFiniteSet(evidence)

IssuedInv ==
    \A d \in issued :
        /\ d # None /\ d = Evaluate(d.intent, d.snapshot, d.facts, Registry)
        /\ \A c \in d.snapshot.controls : WellFormedControl(c)
        /\ d.facts.approvals \subseteq approvals
        /\ d.evaluated \in 0 .. clock /\ d.expires = d.evaluated + DecisionTTL

ApprovalInv ==
    \A f \in approvals :
        /\ f.basis \in issued /\ f.intent = f.basis.intent
        /\ f.from \in Nat /\ f.until = f.from + Validity /\ f.basis.evaluated <= f.from

CheckInv == \A k \in checks : k.result.prior \in issued

SessionInv ==
    /\ SnapshotInv /\ IssuedInv /\ ApprovalInv /\ CheckInv
    /\ RecheckOnlyInTheInstant /\ CompletionIsEarned

LEMMA InitSessionInv == Init => SessionInv
BY SessionAssumption, FS_EmptySet
   DEF Init, SessionInv, SnapshotInv, IssuedInv, ApprovalInv, CheckInv,
       RecheckOnlyInTheInstant, CompletionIsEarned

LEMMA TickKeeps == SessionInv /\ Tick => SessionInv'
<1> SUFFICES ASSUME SessionInv, Tick PROVE SessionInv'
  OBVIOUS
<1>1. SnapshotInv'
  BY DEF Tick, SessionInv, SnapshotInv
<1>2. IssuedInv'
  BY DEF Tick, SessionInv, SnapshotInv, IssuedInv
<1>3. ApprovalInv' /\ CheckInv' /\ RecheckOnlyInTheInstant' /\ CompletionIsEarned'
  BY DEF Tick, SessionInv, ApprovalInv, CheckInv, RecheckOnlyInTheInstant, CompletionIsEarned
<1> QED
  BY <1>1, <1>2, <1>3 DEF SessionInv

LEMMA PublicationKeeps ==
    ASSUME SessionInv, NEW c \in Controls, Publish(c) \/ Retire(c)
    PROVE  SessionInv'
<1>1. SnapshotInv'
  BY DEF Publish, Retire, Controls, SessionInv, SnapshotInv
<1>2. IssuedInv' /\ ApprovalInv' /\ CheckInv'
  BY DEF Publish, Retire, SessionInv, IssuedInv, ApprovalInv, CheckInv
<1>3. RecheckOnlyInTheInstant' /\ CompletionIsEarned'
  BY DEF Publish, Retire, SessionInv, RecheckOnlyInTheInstant, CompletionIsEarned
<1> QED
  BY <1>1, <1>2, <1>3 DEF SessionInv

LEMMA ApproveKeeps ==
    ASSUME SessionInv, NEW form \in host.approvals, NEW d \in issued, Approve(form, d)
    PROVE  SessionInv'
<1> DEFINE f == [form EXCEPT !.basis = d, !.intent = d.intent,
                             !.from = clock, !.until = clock + Validity]
<1>1. approvals' = approvals \cup {f}
      /\ UNCHANGED <<host, clock, published, evidence, issued, checks, receipts>>
  BY DEF Approve
<1>2. {"basis", "intent", "from", "until"} \subseteq DOMAIN form
  BY SessionAssumption DEF SessionInv, SnapshotInv
<1>3. f.basis = d /\ f.intent = d.intent /\ f.from = clock /\ f.until = clock + Validity
  BY <1>2
<1> HIDE DEF f
<1>4. SnapshotInv'
  <2>1. IsFiniteSet(approvals')
    BY <1>1, FS_AddElement DEF SessionInv, SnapshotInv
  <2> QED
    BY <1>1, <2>1 DEF SessionInv, SnapshotInv
<1>5. ApprovalInv'
  <2>1. clock \in Nat /\ d.evaluated <= clock
    BY DEF SessionInv, SnapshotInv, IssuedInv
  <2> QED
    BY <1>1, <1>3, <2>1 DEF SessionInv, ApprovalInv
<1>6. IssuedInv' /\ CheckInv'
  BY <1>1 DEF SessionInv, IssuedInv, CheckInv
<1>7. RecheckOnlyInTheInstant' /\ CompletionIsEarned'
  BY <1>1 DEF SessionInv, RecheckOnlyInTheInstant, CompletionIsEarned
<1> QED
  BY <1>4, <1>5, <1>6, <1>7 DEF SessionInv

LEMMA CertifyKeeps ==
    ASSUME SessionInv, NEW form, NEW i, Certify(form, i)
    PROVE  SessionInv'
<1>1. PICK f : evidence' = evidence \cup {f}
  BY DEF Certify
<1>2. UNCHANGED <<host, clock, published, approvals, issued, checks, receipts>>
  BY DEF Certify
<1>3. SnapshotInv'
  <2>1. IsFiniteSet(evidence')
    BY <1>1, FS_AddElement DEF SessionInv, SnapshotInv
  <2> QED
    BY <1>2, <2>1 DEF SessionInv, SnapshotInv
<1>4. IssuedInv' /\ ApprovalInv' /\ CheckInv' /\ RecheckOnlyInTheInstant'
  BY <1>2 DEF SessionInv, IssuedInv, ApprovalInv, CheckInv, RecheckOnlyInTheInstant
<1>5. CompletionIsEarned'
  BY <1>1, <1>2 DEF SessionInv, CompletionIsEarned
<1> QED
  BY <1>3, <1>4, <1>5 DEF SessionInv

LEMMA EvaluateKeeps ==
    ASSUME SessionInv, NEW i, NEW basis, EvaluateNow(i, basis)
    PROVE  SessionInv'
<1> DEFINE d == DecisionNow(i, basis)
           s == SnapshotOf(published)
           facts == FactsFor(i, s, basis)
<1>1. d # None /\ issued' = issued \cup {d}
      /\ UNCHANGED <<host, clock, published, approvals, evidence, checks, receipts>>
  BY DEF EvaluateNow
<1>2. d = Evaluate(i, s, facts, Registry)
  BY DEF DecisionNow, Snapshot
<1>3. s.controls = published /\ s.observed = clock /\ facts.approvals = approvals
  BY DEF SnapshotOf, FactsFor
<1> HIDE DEF d, s, facts
<1>4. /\ d.intent = i /\ d.snapshot = s /\ d.facts = facts
      /\ d.evaluated = clock /\ d.expires = clock + DecisionTTL
  BY <1>1, <1>2, <1>3, DecisionFields
<1>5. \A c \in s.controls : WellFormedControl(c)
  BY <1>3, SessionAssumption DEF SessionInv, SnapshotInv
<1>6. IssuedInv'
  BY <1>1, <1>2, <1>3, <1>4, <1>5 DEF SessionInv, SnapshotInv, IssuedInv
<1>7. SnapshotInv' /\ ApprovalInv' /\ CheckInv'
  BY <1>1 DEF SessionInv, SnapshotInv, ApprovalInv, CheckInv
<1>8. RecheckOnlyInTheInstant' /\ CompletionIsEarned'
  BY <1>1 DEF SessionInv, RecheckOnlyInTheInstant, CompletionIsEarned
<1> QED
  BY <1>6, <1>7, <1>8 DEF SessionInv

LEMMA RecheckKeeps ==
    ASSUME SessionInv, NEW p \in issued, NEW i, RecheckNow(p, i)
    PROVE  SessionInv'
<1> DEFINE s == Snapshot
           facts == FactsFor(i, s, p.predecessor)
           result == Recheck(p, i, s, facts, Registry)
           k == [result |-> result, at |-> clock]
<1>1. checks' = checks \cup {k}
      /\ UNCHANGED <<host, clock, published, approvals, evidence, issued, receipts>>
  BY DEF RecheckNow
<1>2. s.observed = clock
  BY DEF Snapshot, SnapshotOf
<1>3. k.result = result /\ k.at = clock
  OBVIOUS
<1> HIDE DEF s, facts, k
<1>4. result.prior = p
  BY DEF Recheck
<1>5. ASSUME result.valid PROVE clock = p.evaluated /\ clock < p.expires
  <2>1. /\ ~ (s.observed >= p.expires)
        /\ Evaluate(i, s, facts, Registry) # None
        /\ Evaluate(i, s, facts, Registry) = p
    BY <1>5 DEF Recheck, RecheckReason
  <2>2. p.evaluated = s.observed
    BY <2>1, DecisionFields
  <2>3. clock \in Nat /\ p.expires = p.evaluated + DecisionTTL
    BY DEF SessionInv, SnapshotInv, IssuedInv
  <2> QED
    BY <1>2, <2>1, <2>2, <2>3, EvaluationAssumption
<1> HIDE DEF result
<1>6. RecheckOnlyInTheInstant'
  BY <1>1, <1>3, <1>4, <1>5 DEF SessionInv, RecheckOnlyInTheInstant
<1>7. CheckInv'
  BY <1>1, <1>3, <1>4 DEF SessionInv, CheckInv
<1>8. SnapshotInv' /\ IssuedInv' /\ ApprovalInv'
  BY <1>1 DEF SessionInv, SnapshotInv, IssuedInv, ApprovalInv
<1>9. CompletionIsEarned'
  BY <1>1 DEF SessionInv, CompletionIsEarned
<1> QED
  BY <1>6, <1>7, <1>8, <1>9 DEF SessionInv

\* What a complete receipt was made of.
LEMMA CompleteReceipt ==
    ASSUME NEW d, NEW i, NEW checked, NEW facts, NEW seen,
           AssessReceipt(d, i, checked, facts, seen) # None,
           AssessReceipt(d, i, checked, facts, seen).status = "complete"
    PROVE  /\ checked.valid /\ checked.prior = d /\ d.intent = i
           /\ d.verdict \in Permissive /\ seen.route = d.route /\ seen.outcome = "succeeded"
           /\ ~ (seen.occurred < d.evaluated) /\ ~ (seen.occurred >= d.expires)
           /\ MissingEvidence(d, i, facts, seen.recorded) = {}
<1>1. ~ ReceiptRefused(d, i, checked, facts, seen)
  BY DEF AssessReceipt
<1>2. ReceiptStatus(d, i, checked, facts, seen) = "complete"
  BY <1>1 DEF AssessReceipt
<1>3. /\ checked.valid /\ d.verdict \in Permissive /\ seen.route = d.route
      /\ seen.outcome = "succeeded" /\ MissingEvidence(d, i, facts, seen.recorded) = {}
  BY <1>2 DEF ReceiptStatus
<1> QED
  BY <1>1, <1>3 DEF ReceiptRefused

LEMMA ReceiptKeeps ==
    ASSUME SessionInv, NEW k \in checks, NEW i, NEW route, NEW outcome,
           NEW occurred \in 0 .. clock, ReceiptNow(k, i, route, outcome, occurred)
    PROVE  SessionInv'
<1> DEFINE seen == [route |-> route, outcome |-> outcome, occurred |-> occurred,
                    recorded |-> clock, sealed |-> TRUE]
           d == k.result.prior
           facts == FactsFor(i, Snapshot, d.predecessor)
           x == AssessReceipt(d, i, k.result, facts, seen)
<1>1. x # None /\ receipts' = receipts \cup {x}
      /\ UNCHANGED <<host, clock, published, approvals, evidence, issued, checks>>
  BY DEF ReceiptNow
<1>2. /\ seen.route = route /\ seen.outcome = outcome /\ seen.occurred = occurred
      /\ seen.recorded = clock
  OBVIOUS
<1>3. facts.evidence = evidence
  BY DEF FactsFor
<1> HIDE DEF seen, facts
<1>4. x.decision = d /\ x.seen = seen
  BY <1>1 DEF AssessReceipt
<1>5. /\ d \in issued /\ d # None /\ d = Evaluate(d.intent, d.snapshot, d.facts, Registry)
      /\ \A c \in d.snapshot.controls : WellFormedControl(c)
      /\ d.evaluated \in Nat /\ d.expires \in Nat
  BY EvaluationAssumption DEF SessionInv, SnapshotInv, IssuedInv, CheckInv
<1>6. ASSUME x.status = "complete"
      PROVE  /\ k.result.valid /\ d.verdict \in Permissive
             /\ seen.outcome = "succeeded" /\ seen.route = d.route
             /\ seen.occurred \in d.evaluated..(d.expires - 1)
             /\ MissingEvidence(d, i, facts, seen.recorded) = {} /\ d.intent = i
  <2>1. occurred \in Nat
    BY DEF SessionInv, SnapshotInv
  <2>2. ~ (seen.occurred < d.evaluated) /\ ~ (seen.occurred >= d.expires)
    BY <1>1, <1>6, CompleteReceipt
  <2>3. seen.occurred \in d.evaluated..(d.expires - 1)
    BY <1>2, <1>5, <2>1, <2>2
  <2> QED
    BY <1>1, <1>6, <2>3, CompleteReceipt
<1>7. ASSUME x.status = "complete", NEW c \in d.controls,
             NEW r \in {q \in c.effect.requirements : q.type = "evidence"}
      PROVE  \E proofs \in SUBSET evidence :
                /\ Cardinality(proofs) >= r.minimum_count
                /\ \A f \in proofs :
                    /\ f.intent = d.intent /\ f.kind = r.kind
                    /\ f.verified_at <= seen.recorded
                    /\ r.producer_not_actor => Disjoint(f.producer, f.intent.lineage)
  <2> DEFINE proofs == EvidenceFor(r, i, facts, seen.recorded)
  <2>1. r \in d.evidence /\ WellFormedRequirement(r)
    BY <1>5, <1>6, <1>7, AppliedControl
  <2>2. r.minimum_count \in Nat
    BY <1>7, <2>1 DEF WellFormedRequirement
  <2>3. proofs \in SUBSET evidence /\ IsFiniteSet(proofs)
    BY <1>3, FS_Subset DEF EvidenceFor, SessionInv, SnapshotInv
  <2>4. ~ (Cardinality(proofs) < r.minimum_count)
    BY <1>6, <1>7, <2>1 DEF MissingEvidence
  <2>5. Cardinality(proofs) >= r.minimum_count
    BY <2>2, <2>3, <2>4, FS_CardinalityType
  <2>6. \A f \in proofs : EvidenceMatches(f, r, i, seen.recorded)
    BY DEF EvidenceFor
  <2>7. \A f \in proofs :
          /\ f.intent = d.intent /\ f.kind = r.kind /\ f.verified_at <= seen.recorded
          /\ r.producer_not_actor => Disjoint(f.producer, f.intent.lineage)
    BY <1>6, <1>7, <2>6 DEF EvidenceMatches, Disjoint
  <2> QED
    BY <2>3, <2>5, <2>7
<1> HIDE DEF x
<1>8. CompletionIsEarned'
  BY <1>1, <1>4, <1>6, <1>7 DEF SessionInv, CompletionIsEarned
<1>9. SnapshotInv' /\ IssuedInv' /\ ApprovalInv' /\ CheckInv' /\ RecheckOnlyInTheInstant'
  BY <1>1
     DEF SessionInv, SnapshotInv, IssuedInv, ApprovalInv, CheckInv, RecheckOnlyInTheInstant
<1> QED
  BY <1>8, <1>9 DEF SessionInv

LEMMA NextSessionInv == SessionInv /\ [Next]_vars => SessionInv'
<1> SUFFICES ASSUME SessionInv, [Next]_vars PROVE SessionInv'
  OBVIOUS
<1>1. CASE Tick
  BY <1>1, TickKeeps
<1>2. ASSUME NEW c \in Controls \ published, Publish(c) PROVE SessionInv'
  BY <1>2, PublicationKeeps
<1>3. ASSUME NEW c \in published, Retire(c) PROVE SessionInv'
  BY <1>3, PublicationKeeps DEF Controls, SessionInv, SnapshotInv
<1>4. ASSUME NEW form \in host.approvals, NEW d \in issued, Approve(form, d) PROVE SessionInv'
  BY <1>4, ApproveKeeps
<1>5. ASSUME NEW form \in host.certificates, NEW i \in Intents, Certify(form, i)
      PROVE  SessionInv'
  BY <1>5, CertifyKeeps
<1>6. ASSUME NEW i \in Intents, NEW basis \in issued \cup {None}, EvaluateNow(i, basis)
      PROVE  SessionInv'
  BY <1>6, EvaluateKeeps
<1>7. ASSUME NEW d \in issued, NEW i \in Intents, RecheckNow(d, i) PROVE SessionInv'
  BY <1>7, RecheckKeeps
<1>8. ASSUME NEW k \in checks, NEW i \in Intents, NEW d \in issued,
             NEW outcome \in {"succeeded", "aborted"}, NEW occurred \in 0..clock,
             ReceiptNow(k, i, d.route, outcome, occurred)
      PROVE  SessionInv'
  BY <1>8, ReceiptKeeps
<1>9. CASE UNCHANGED vars
  BY <1>9
     DEF vars, SessionInv, SnapshotInv, IssuedInv, ApprovalInv, CheckInv,
         RecheckOnlyInTheInstant, CompletionIsEarned
<1> QED
  BY <1>1, <1>2, <1>3, <1>4, <1>5, <1>6, <1>7, <1>8, <1>9 DEF Next

LEMMA AlwaysSessionInv == Spec => []SessionInv
BY InitSessionInv, NextSessionInv, PTL DEF Spec

-----------------------------------------------------------------------------
(* The properties *)

\* A valid recheck is of the very instant of the decision.
THEOREM RecheckInTheInstant == Spec => []RecheckOnlyInTheInstant
<1>1. SessionInv => RecheckOnlyInTheInstant
  BY DEF SessionInv
<1> QED
  BY <1>1, AlwaysSessionInv, PTL

\* A complete receipt is of a permissive, rechecked decision and has all the
\* evidence that the controls of the decision require.
THEOREM CompletionEarned == Spec => []CompletionIsEarned
<1>1. SessionInv => CompletionIsEarned
  BY DEF SessionInv
<1> QED
  BY <1>1, AlwaysSessionInv, PTL

\* A control that applies and cannot be decided does not let a permissive
\* decision through: its on_unknown is a failure, and a permissive composition
\* has none.
THEOREM UnknownBlocks == Spec => []UnknownNeverPermits
<1>1. SessionInv => UnknownNeverPermits
  <2> SUFFICES ASSUME SessionInv, NEW d \in issued, d.verdict \in Permissive,
                      NEW c \in Applicable(d.intent, d.snapshot),
                      "unknown" \in PredicateResults(c, d.intent),
                      "false" \notin PredicateResults(c, d.intent)
               PROVE  FALSE
    BY DEF UnknownNeverPermits
  <2>1. /\ d # None /\ d = Evaluate(d.intent, d.snapshot, d.facts, Registry)
        /\ \A b \in d.snapshot.controls : WellFormedControl(b)
    BY DEF SessionInv, IssuedInv
  <2>2. PICK o \in SelectControls(d.intent, d.snapshot) :
            o.control = c /\ o.outcome = c.on_unknown
    <3> DEFINE o == [control |-> c,
                     outcome |-> IF "unknown" \in PredicateResults(c, d.intent)
                                 THEN c.on_unknown ELSE c.effect]
    <3>1. o \in SelectControls(d.intent, d.snapshot)
      BY DEF SelectControls
    <3>2. o.control = c /\ o.outcome = c.on_unknown
      OBVIOUS
    <3> QED
      BY <3>1, <3>2
  <2>3. WellFormedFailure(o.outcome)
    BY <2>1, <2>2 DEF Applicable, WellFormedControl
  <2> QED
    BY <2>1, <2>3, PermissiveDecision
<1> QED
  BY <1>1, AlwaysSessionInv, PTL

\* What an applied control asks of people was answered, for the very intent, by
\* enough facts of those who may answer, and had not run out.
THEOREM PermissionConsented == Spec => []PermissionIsConsented
<1>1. SessionInv => PermissionIsConsented
  <2> SUFFICES ASSUME SessionInv, NEW d \in issued, d.verdict \in Permissive,
                      NEW c \in d.controls,
                      NEW r \in {q \in c.effect.requirements : q.type = "approval"}
               PROVE  \E given \in SUBSET approvals :
                        /\ Cardinality(given) >= r.minimum_count
                        /\ \A f \in given :
                            /\ f.requirement = r.id
                            /\ f.basis \in issued /\ f.basis = d.predecessor
                            /\ f.basis.intent = d.intent /\ f.basis.evaluated <= f.from
                            /\ f.from <= d.evaluated /\ d.evaluated < f.from + Validity
                            /\ r.separate_from_actor => Disjoint(f.lineage, d.intent.lineage)
    BY DEF PermissionIsConsented
  <2> DEFINE given == {f \in Matching(r, d.intent, d.snapshot, d.facts) :
                         ~ IndependenceFails(r, f, d.intent)}
  <2>1. /\ d # None /\ d = Evaluate(d.intent, d.snapshot, d.facts, Registry)
        /\ \A b \in d.snapshot.controls : WellFormedControl(b)
        /\ d.facts.approvals \subseteq approvals
    BY DEF SessionInv, IssuedInv
  <2>2. d.evaluated = d.snapshot.observed /\ d.predecessor = d.facts.basis
    BY <2>1, DecisionFields
  <2>3. WellFormedRequirement(r) /\ ~ ApprovalMissing(r, d.intent, d.snapshot, d.facts)
    BY <2>1, AppliedControl
  <2>4. given \subseteq approvals /\ IsFiniteSet(given)
    BY <2>1, FS_Subset DEF Matching, SessionInv, SnapshotInv
  <2>5. Cardinality(given) >= r.minimum_count
    <3>1. r.minimum_count \in Nat
      BY <2>3 DEF WellFormedRequirement
    <3>2. ~ (Cardinality(given) < r.minimum_count)
      BY <2>3 DEF ApprovalMissing
    <3> QED
      BY <2>4, <3>1, <3>2, FS_CardinalityType
  <2>6. ASSUME NEW f \in given
        PROVE  /\ f.requirement = r.id
               /\ f.basis \in issued /\ f.basis = d.predecessor
               /\ f.basis.intent = d.intent /\ f.basis.evaluated <= f.from
               /\ f.from <= d.evaluated /\ d.evaluated < f.from + Validity
               /\ r.separate_from_actor => Disjoint(f.lineage, d.intent.lineage)
    <3>1. ApprovalMatches(r, f, d.intent, d.facts, d.snapshot.observed)
      BY DEF Matching
    <3>2. f.basis \in issued /\ f.intent = f.basis.intent /\ f.until = f.from + Validity
          /\ f.basis.evaluated <= f.from
      BY <2>4 DEF SessionInv, ApprovalInv
    <3>3. r.separate_from_actor => Disjoint(f.lineage, d.intent.lineage)
      BY DEF IndependenceFails, Related, Disjoint
    <3> QED
      BY <2>2, <3>1, <3>2, <3>3 DEF ApprovalMatches
  <2> QED
    BY <2>4, <2>5, <2>6
<1> QED
  BY <1>1, AlwaysSessionInv, PTL

-----------------------------------------------------------------------------
(* What evaluate would return *)

\* The profiles of two snapshots are the same forms.
LEMMA ProfileOfForm ==
    ASSUME NEW i, NEW s, NEW form, ProfileFields \subseteq DOMAIN form
    PROVE  LET f == [form EXCEPT !.intent = i, !.snapshot = s]
           IN  /\ f.intent = i /\ f.snapshot = s
               /\ f.verifier = form.verifier /\ f.control = form.control
               /\ f.status = form.status /\ f.verdict = form.verdict
               /\ f.route = form.route /\ f.sealed = form.sealed
BY DEF ProfileFields

LEMMA SessionInputs ==
    ASSUME SnapshotInv, NEW controls \in SUBSET Controls, NEW i, NEW basis
    PROVE  LET s == SnapshotOf(controls)
           IN  /\ WellFormedInputs(s, FactsFor(i, s, basis))
               /\ s.controls = controls /\ s.observed = clock /\ s.observed \in Nat
<1> DEFINE s == SnapshotOf(controls)
<1>1. s.controls = controls /\ s.observed = clock /\ s.observed \in Nat
  BY DEF SnapshotOf, SnapshotInv
<1>2. \A c \in controls : WellFormedControl(c)
  BY SessionAssumption DEF SnapshotInv, Controls
<1>3. FactsFor(i, s, basis).profiles
        = {[form EXCEPT !.intent = i, !.snapshot = s] : form \in host.profiles}
  BY DEF FactsFor
<1> HIDE DEF s
<1>4. ASSUME NEW form \in host.profiles
      PROVE  WellFormedProfile([form EXCEPT !.intent = i, !.snapshot = s])
  <2>1. ProfileFields \subseteq DOMAIN form /\ WellFormedProfile(form)
    BY SessionAssumption DEF SnapshotInv
  <2> DEFINE f == [form EXCEPT !.intent = i, !.snapshot = s]
  <2>2. f.verdict = form.verdict /\ f.route = form.route
    BY <2>1, ProfileOfForm
  <2> HIDE DEF f
  <2>3. WellFormedProfile(f)
    BY <2>1, <2>2 DEF WellFormedProfile
  <2> QED
    BY <2>3 DEF f
<1> QED
  BY <1>1, <1>2, <1>3, <1>4 DEF WellFormedInputs, s

LEMMA SessionGrows ==
    ASSUME SnapshotInv, NEW controls, NEW others, controls \subseteq others, NEW i, NEW basis
    PROVE  LET s == SnapshotOf(controls)
               t == SnapshotOf(others)
           IN  Grows(s, FactsFor(i, s, basis), t, FactsFor(i, t, basis))
<1> DEFINE s == SnapshotOf(controls)
           t == SnapshotOf(others)
           facts == FactsFor(i, s, basis)
           more == FactsFor(i, t, basis)
<1>1. /\ s.controls \subseteq t.controls /\ t.observed = s.observed
      /\ t.supported = s.supported /\ t.sealed = s.sealed
  BY DEF SnapshotOf
<1>2. /\ more.basis = facts.basis
      /\ more.approvals = facts.approvals /\ more.evidence = facts.evidence
  BY DEF FactsFor
<1>3. /\ facts.profiles
            = {[form EXCEPT !.intent = i, !.snapshot = s] : form \in host.profiles}
      /\ more.profiles
            = {[form EXCEPT !.intent = i, !.snapshot = t] : form \in host.profiles}
  BY DEF FactsFor
<1> HIDE DEF s, t, facts, more
<1>4. ASSUME NEW form \in host.profiles
      PROVE  SameProfile([form EXCEPT !.intent = i, !.snapshot = s], s,
                         [form EXCEPT !.intent = i, !.snapshot = t], t)
  <2>1. ProfileFields \subseteq DOMAIN form
    BY SessionAssumption DEF SnapshotInv
  <2> DEFINE f == [form EXCEPT !.intent = i, !.snapshot = s]
             g == [form EXCEPT !.intent = i, !.snapshot = t]
  <2>2. /\ g.verifier = f.verifier /\ g.intent = f.intent /\ g.control = f.control
        /\ g.status = f.status /\ g.verdict = f.verdict /\ g.route = f.route
        /\ g.sealed = f.sealed /\ g.snapshot = t /\ f.snapshot = s
    BY <2>1, ProfileOfForm
  <2> HIDE DEF f, g
  <2>3. SameProfile(f, s, g, t)
    BY <2>2 DEF SameProfile
  <2> QED
    BY <2>3 DEF f, g
<1> DEFINE Over(form, u) == [form EXCEPT !.intent = i, !.snapshot = u]
<1>5. /\ facts.profiles = {Over(form, s) : form \in host.profiles}
      /\ more.profiles = {Over(form, t) : form \in host.profiles}
      /\ \A form \in host.profiles : SameProfile(Over(form, s), s, Over(form, t), t)
  BY <1>3, <1>4
<1> HIDE DEF Over
<1>6. /\ \A f \in facts.profiles : \E g \in more.profiles : SameProfile(f, s, g, t)
      /\ \A g \in more.profiles : \E f \in facts.profiles : SameProfile(f, s, g, t)
  BY <1>5
<1>7. Grows(s, facts, t, more)
  BY <1>1, <1>2, <1>6 DEF Grows
<1> QED
  BY <1>7 DEF s, t, facts, more

\* The order of the reduction is the order of strictness.
LEMMA VerdictGrows ==
    ASSUME NEW values, NEW more, values \subseteq more,
           NEW blocks, NEW others, blocks \subseteq others
    PROVE  Strictness(ComposedVerdict(values, blocks))
                <= Strictness(ComposedVerdict(more, others))
<1>1. RoutesOf(values, "route") \subseteq RoutesOf(more, "route")
  BY DEF RoutesOf
<1>2. {v.verdict : v \in values} \subseteq {v.verdict : v \in more}
  OBVIOUS
<1> DEFINE now == ComposedVerdict(values, blocks)
           after == ComposedVerdict(more, others)
<1>3. CASE others # {}
  BY <1>3 DEF ComposedVerdict, Strictness
<1>4. CASE others = {} /\ \E a, b \in RoutesOf(more, "route") : a # b
  BY <1>4 DEF ComposedVerdict, Strictness
<1>5. CASE /\ others = {} /\ ~ \E a, b \in RoutesOf(more, "route") : a # b
           /\ RoutesOf(more, "route") # {}
  BY <1>1, <1>5 DEF ComposedVerdict, Strictness
<1>6. CASE others = {} /\ RoutesOf(more, "route") = {}
  <2>1. blocks = {} /\ RoutesOf(values, "route") = {}
    BY <1>1, <1>6
  <2> QED
    BY <1>2, <1>6, <2>1 DEF ComposedVerdict, Strictness
<1> QED
  BY <1>3, <1>4, <1>5, <1>6

LEMMA StrictnessRange ==
    ASSUME NEW values, NEW blocks
    PROVE  /\ Strictness(ComposedVerdict(values, blocks)) \in 0 .. 5
           /\ ComposedVerdict(values, blocks) # "raised"
BY DEF ComposedVerdict, Strictness

\* What evaluate raises on is either an input at fault or a default route.
THEOREM RefusedOnlyForThose == Spec => []RefusedOnlyForDefaultRoutes
<1>1. SessionInv => RefusedOnlyForDefaultRoutes
  <2> SUFFICES ASSUME SessionInv, NEW i \in Intents, NEW basis \in issued \cup {None},
                      LET facts == FactsFor(i, Snapshot, basis)
                      IN  /\ ~ InputFault(i, Snapshot, facts, Registry)
                          /\ ~ AcceptableDecision(DecisionFrom(i, Snapshot, facts, Registry))
               PROVE  \E c \in published : \E f \in FailureEffects(c) :
                            f.verdict = "route" /\ f.route.kind \in DefaultKinds
    BY DEF RefusedOnlyForDefaultRoutes
  <2>1. SnapshotInv /\ published \in SUBSET Controls
    BY DEF SessionInv, SnapshotInv, Controls
  <2>2. /\ WellFormedInputs(Snapshot, FactsFor(i, Snapshot, basis))
        /\ Snapshot.controls = published /\ Snapshot.observed \in Nat
    BY <2>1, SessionInputs DEF Snapshot
  <2> QED
    BY <2>2, OnlyDefaultRoutesRefused
<1> QED
  BY <1>1, AlwaysSessionInv, PTL

\* Publishing a control never loosens the verdict on an intent it applies to.
THEOREM PublicationNeverLoosens == Spec => []PublishingNeverLoosens
<1>1. SessionInv => PublishingNeverLoosens
  <2> SUFFICES ASSUME SessionInv, NEW i \in Intents, NEW basis \in issued \cup {None},
                      NEW c \in Controls \ published,
                      SelectControls(i, Snapshot) # {},
                      VerdictUnder(published \cup {c}, i, basis) # "raised"
               PROVE  Strictness(VerdictUnder(published, i, basis))
                        <= Strictness(VerdictUnder(published \cup {c}, i, basis))
    BY DEF PublishingNeverLoosens
  <2> DEFINE s == SnapshotOf(published)
             t == SnapshotOf(published \cup {c})
             facts == FactsFor(i, s, basis)
             more == FactsFor(i, t, basis)
             a == Assessed(i, s, facts, Registry)
             b == Assessed(i, t, more, Registry)
             values == Values(SelectControls(i, s), a)
             others == Values(SelectControls(i, t), b)
             blocks == Blocks(values, a)
             stops == Blocks(others, b)
             d == DecisionFrom(i, s, facts, Registry)
             e == DecisionFrom(i, t, more, Registry)
             now == ComposedVerdict(values, blocks)
             after == ComposedVerdict(others, stops)
  <2>1. SnapshotInv /\ published \in SUBSET Controls
    BY DEF SessionInv, SnapshotInv, Controls
  <2>2. /\ WellFormedInputs(s, facts) /\ s.controls = published /\ s.observed \in Nat
    BY <2>1, SessionInputs
  <2>3. Grows(s, facts, t, more)
    BY <2>1, SessionGrows
  <2>4. values \subseteq others /\ blocks \subseteq stops
        /\ SelectControls(i, s) # {} /\ SelectControls(i, t) # {}
    <3>1. (a.independence_failed => b.independence_failed) /\ values \subseteq others
      BY <2>3, ValuesGrow
    <3>2. RoutesOf(values, "block") \subseteq RoutesOf(others, "block")
      BY <3>1 DEF RoutesOf
    <3>3. blocks \subseteq stops
      BY <3>1, <3>2 DEF Blocks
    <3>4. SelectControls(i, s) # {} /\ SelectControls(i, t) # {}
      BY <2>3, SelectionGrows DEF Snapshot
    <3> QED
      BY <3>1, <3>3, <3>4
  <2>5. d.verdict = now /\ e.verdict = after
    <3>1. /\ d.verdict = Compose(SelectControls(i, s), a).verdict
          /\ e.verdict = Compose(SelectControls(i, t), b).verdict
      BY DecisionFromFields
    <3>2. /\ Compose(SelectControls(i, s), a).verdict = now
          /\ Compose(SelectControls(i, t), b).verdict = after
      BY <2>4 DEF Compose
    <3> QED
      BY <3>1, <3>2
  <2>6. VerdictUnder(published \cup {c}, i, basis) = after
        /\ ~ InputFault(i, t, more, Registry)
    BY <2>5 DEF VerdictUnder
  <2>7. ~ InputFault(i, s, facts, Registry)
    BY <2>3, <2>6, FaultsGrow
  <2>8. Strictness(now) <= Strictness(after)
    BY <2>4, VerdictGrows
  <2>9. CASE AcceptableDecision(d)
    BY <2>5, <2>6, <2>7, <2>8, <2>9 DEF VerdictUnder
  <2>10. CASE ~ AcceptableDecision(d)
    <3>1. now = "route"
      BY <2>2, <2>5, <2>7, <2>10, OnlyDefaultRoutesRefused
    <3>2. VerdictUnder(published, i, basis) = "raised"
      BY <2>10 DEF VerdictUnder
    <3>3. Strictness("raised") = Strictness("route")
      BY DEF Strictness
    <3> QED
      BY <2>6, <2>8, <3>1, <3>2, <3>3
  <2> QED
    BY <2>9, <2>10
<1> QED
  BY <1>1, AlwaysSessionInv, PTL
-----------------------------------------------------------------------------
(* Permission, control by control *)

\* A control that speaks has an outcome, and no other control has.
LEMMA SpeakingHasOutcome ==
    ASSUME NEW i, NEW s
    PROVE  /\ \A c \in Speaking(i, s) : \E o \in SelectControls(i, s) :
                /\ o.control = c
                /\ o.outcome = IF "unknown" \in PredicateResults(c, i)
                               THEN c.on_unknown ELSE c.effect
           /\ \A o \in SelectControls(i, s) :
                /\ o.control \in Speaking(i, s)
                /\ o.outcome = IF "unknown" \in PredicateResults(o.control, i)
                               THEN o.control.on_unknown ELSE o.control.effect
           /\ SelectControls(i, s) # {} <=> Speaking(i, s) # {}
<1> DEFINE Outcome(c) == IF "unknown" \in PredicateResults(c, i)
                         THEN c.on_unknown ELSE c.effect
           O(c) == [control |-> c, outcome |-> Outcome(c)]
<1>1. SelectControls(i, s) = {O(c) : c \in Speaking(i, s)}
  BY DEF SelectControls, Speaking
<1>2. \A c : O(c).control = c /\ O(c).outcome = Outcome(c)
  OBVIOUS
<1> HIDE DEF O, Outcome
<1>3. \A c \in Speaking(i, s) : \E o \in SelectControls(i, s) :
            o.control = c /\ o.outcome = Outcome(c)
  BY <1>1, <1>2
<1>4. \A o \in SelectControls(i, s) :
            o.control \in Speaking(i, s) /\ o.outcome = Outcome(o.control)
  BY <1>1, <1>2
<1>5. SelectControls(i, s) # {} <=> Speaking(i, s) # {}
  BY <1>1
<1> QED
  BY <1>3, <1>4, <1>5 DEF Outcome

\* The profiles of an outcome are those of its control.
LEMMA ProfilesOfControl ==
    ASSUME NEW o, NEW r, NEW i, NEW s, NEW facts, NEW registry
    PROVE  /\ ProfileMatching([control |-> o.control], r, i, s, facts)
                = ProfileMatching(o, r, i, s, facts)
           /\ ProfileMissing(o, r, i, s, facts, registry) <=>
                \/ r.verifier \notin registry
                \/ ProfileMatching(o, r, i, s, facts) = {}
                \/ \E f \in ProfileMatching(o, r, i, s, facts) : f.status # "satisfied"
BY DEF ProfileMatching, ProfileMissing

\* A profile that permits is composed as an effect with its verdict.
LEMMA PermittingProfile ==
    ASSUME NEW f, f.verdict \in Permissive
    PROVE  ProfileOutcome(f).verdict = f.verdict
BY DEF ProfileOutcome, Permissive

LEMMA PermissionNeedsAll ==
    ASSUME NEW i, NEW s, NEW facts, WellFormedInputs(s, facts),
           ~ AssessmentFault(SelectControls(i, s), i, s, facts, Registry),
           Compose(SelectControls(i, s), Assessed(i, s, facts, Registry)).verdict \in Permissive,
           NEW c \in Speaking(i, s)
    PROVE  Cleared(c, i, s, facts)
<1> DEFINE outcomes == SelectControls(i, s)
           a == Assessed(i, s, facts, Registry)
<1>1. PICK o \in outcomes :
            /\ o.control = c
            /\ o.outcome = IF "unknown" \in PredicateResults(c, i)
                           THEN c.on_unknown ELSE c.effect
  BY SpeakingHasOutcome
<1>2. WellFormedEffect(c.effect) /\ WellFormedFailure(c.on_unknown)
  BY <1>1, EffectOfControl DEF WellFormedInputs
<1>3. /\ ~ a.independence_failed
      /\ \A v \in Values(outcomes, a) :
            ~ WellFormedFailure(v) /\ (WellFormedEffect(v) => v.verdict \in Permissive)
  BY PermissiveComposition, PermissiveEffects
<1>4. o.outcome \in Values(outcomes, a)
  BY DEF Values
<1>5. "unknown" \notin PredicateResults(c, i) /\ o.outcome = c.effect
  BY <1>1, <1>2, <1>3, <1>4
<1>6. c.effect.verdict \in Permissive
  BY <1>2, <1>3, <1>4, <1>5
<1>7. o \in Effects(outcomes)
  BY <1>2, <1>5 DEF Effects, WellFormedEffect
<1>8. \A v \in a.failures : ~ WellFormedFailure(v)
  BY <1>3 DEF Values
<1> HIDE DEF outcomes, a
<1>9. ASSUME NEW k \in c.effect.conditions PROVE ConditionSatisfied(k, i, Registry)
  <2>1. WellFormedFailure(k.failure)
    BY <1>2 DEF WellFormedEffect
  <2>2. ~ ConditionSatisfied(k, i, Registry) => k.failure \in a.failures
    BY <1>5, <1>7, AssessedMembers DEF a, outcomes
  <2> QED
    BY <1>8, <2>1, <2>2
<1>10. ASSUME NEW r \in c.effect.requirements PROVE WellFormedFailure(r.failure)
  BY <1>2 DEF WellFormedEffect, WellFormedRequirement
<1>11. ASSUME NEW r \in c.effect.requirements, r.type = "approval"
       PROVE  /\ ~ ApprovalMissing(r, i, s, facts)
              /\ \A f \in Matching(r, i, s, facts) : ~ IndependenceFails(r, f, i)
  <2>1. r \in Required(o, "approval")
    BY <1>5, <1>11 DEF Required
  <2>2. ApprovalMissing(r, i, s, facts) => r.failure \in a.failures
    BY <1>7, <2>1, AssessedMembers DEF a, outcomes
  <2>3. \A f \in Matching(r, i, s, facts) : ~ IndependenceFails(r, f, i)
    BY <1>3, <1>7, <2>1, AssessedMembers DEF a, outcomes
  <2> QED
    BY <1>8, <1>10, <2>2, <2>3
<1>12. ASSUME NEW r \in c.effect.requirements, r.type = "profile"
       PROVE  LET assessed == ProfileMatching([control |-> c], r, i, s, facts)
              IN  /\ r.verifier \in Registry /\ assessed # {}
                  /\ \A f \in assessed : f.status = "satisfied" /\ f.verdict \in Permissive
  <2>1. r \in Required(o, "profile")
    BY <1>5, <1>12 DEF Required
  <2>2. ~ ProfileMissing(o, r, i, s, facts, Registry)
    <3>1. ProfileMissing(o, r, i, s, facts, Registry) => r.failure \in a.failures
      BY <1>7, <2>1, AssessedMembers DEF a, outcomes
    <3> QED
      BY <1>8, <1>10, <3>1
  <2>3. ASSUME NEW f \in ProfileMatching(o, r, i, s, facts) PROVE f.verdict \in Permissive
    <3>1. f \in Profiles(outcomes, i, s, facts, Registry)
      BY <1>7, <2>1, <2>2 DEF Profiles
    <3>2. WellFormedProfile(f) /\ ~ ProfileFault(f)
      BY <3>1 DEF ProfileMatching, WellFormedInputs, AssessmentFault, outcomes
    <3>3. ProfileOutcome(f) \in Values(outcomes, a)
      BY <3>1, AssessedMembers DEF Values, a, outcomes
    <3>4. f.verdict \in {"block", "conflict", "route", "require_approval"} =>
              WellFormedFailure(ProfileOutcome(f))
      BY <3>2 DEF ProfileOutcome, ProfileFault, WellFormedProfile, WellFormedFailure
    <3> QED
      BY <1>3, <3>2, <3>3, <3>4 DEF WellFormedProfile
  <2> QED
    BY <1>1, <2>2, <2>3, ProfilesOfControl
<1> QED
  BY <1>5, <1>6, <1>9, <1>11, <1>12 DEF Cleared

LEMMA PermissionNeedsNoMore ==
    ASSUME NEW i, NEW s, NEW facts, WellFormedInputs(s, facts), Speaking(i, s) # {},
           \A c \in Speaking(i, s) : Cleared(c, i, s, facts)
    PROVE  Compose(SelectControls(i, s), Assessed(i, s, facts, Registry)).verdict \in Permissive
<1> DEFINE outcomes == SelectControls(i, s)
           a == Assessed(i, s, facts, Registry)
<1>1. outcomes # {}
  BY SpeakingHasOutcome
<1>2. ASSUME NEW o \in outcomes
      PROVE  o.outcome = o.control.effect /\ Cleared(o.control, i, s, facts)
  <2>1. /\ o.control \in Speaking(i, s)
        /\ o.outcome = IF "unknown" \in PredicateResults(o.control, i)
                       THEN o.control.on_unknown ELSE o.control.effect
    BY SpeakingHasOutcome
  <2>2. Cleared(o.control, i, s, facts)
    BY <2>1
  <2> QED
    BY <2>1, <2>2 DEF Cleared
<1> HIDE DEF outcomes
<1>3. \A o \in Effects(outcomes) : o \in outcomes
  BY DEF Effects
<1>4. \A o \in outcomes : \A k \in o.outcome.conditions : ConditionSatisfied(k, i, Registry)
  BY <1>2 DEF Cleared
<1>5. \A o \in outcomes : \A r \in Required(o, "approval") :
            /\ ~ ApprovalMissing(r, i, s, facts)
            /\ \A f \in Matching(r, i, s, facts) : ~ IndependenceFails(r, f, i)
  BY <1>2 DEF Cleared, Required
<1>6. ASSUME NEW o \in outcomes, NEW r \in Required(o, "profile")
      PROVE  /\ ~ ProfileMissing(o, r, i, s, facts, Registry)
             /\ \A f \in ProfileMatching(o, r, i, s, facts) : f.verdict \in Permissive
  <2> DEFINE assessed == ProfileMatching([control |-> o.control], r, i, s, facts)
  <2>1. r.verifier \in Registry /\ assessed # {}
        /\ \A f \in assessed : f.status = "satisfied" /\ f.verdict \in Permissive
    BY <1>2 DEF Cleared, Required
  <2> HIDE DEF assessed
  <2>2. assessed = ProfileMatching(o, r, i, s, facts)
    BY DEF assessed, ProfileMatching
  <2>3. \A f \in ProfileMatching(o, r, i, s, facts) : f.status = "satisfied" /\ f.verdict \in Permissive
    BY <2>1, <2>2
  <2>4. r.verifier \in Registry /\ ProfileMatching(o, r, i, s, facts) # {}
    BY <2>1, <2>2
  <2>5. ~ ProfileMissing(o, r, i, s, facts, Registry)
    BY <2>3, <2>4 DEF ProfileMissing
  <2> QED
    BY <2>3, <2>5
<1> HIDE DEF a
<1>7. ~ a.independence_failed
  BY <1>3, <1>5, AssessedMembers DEF a, outcomes
<1>8. \A v : v \notin a.failures
  BY <1>3, <1>4, <1>5, <1>6, AssessedMembers DEF a, outcomes
<1>9. ASSUME NEW v \in a.profile_outcomes PROVE v.verdict \in Permissive
  <2>1. PICK f \in Profiles(outcomes, i, s, facts, Registry) : v = ProfileOutcome(f)
    BY AssessedMembers DEF a, outcomes
  <2>2. \E o \in Effects(outcomes) : \E r \in Required(o, "profile") :
            f \in ProfileMatching(o, r, i, s, facts)
    BY DEF Profiles
  <2>3. f.verdict \in Permissive
    BY <1>3, <1>6, <2>2
  <2> QED
    BY <2>1, <2>3, PermittingProfile
<1>10. \A o \in outcomes : o.outcome.verdict \in Permissive
  BY <1>2 DEF Cleared
<1>11. \A v \in Values(outcomes, a) : v.verdict \in Permissive
  BY <1>8, <1>9, <1>10 DEF Values
<1>12. Compose(outcomes, a).verdict \in Permissive
  BY <1>1, <1>7, <1>11, PermissiveValuesCompose
<1> QED
  BY <1>12 DEF outcomes, a

\* Evaluate says yes exactly when every control that speaks does, for any host,
\* controls, profiles and facts.  In the one direction a failure of any control
\* would be among the values the reduction reads, in the other there is no value
\* but permissive effects, and what raises then raises before the reduction.
THEOREM PermissionExact == Spec => []PermittedExactly
<1>1. SessionInv => PermittedExactly
  <2> SUFFICES ASSUME SessionInv, NEW i \in Intents, NEW basis \in issued \cup {None},
                      ~ InputFault(i, Snapshot, FactsFor(i, Snapshot, basis), Registry)
               PROVE  VerdictUnder(published, i, basis) \in Permissive <=>
                        /\ Speaking(i, Snapshot) # {}
                        /\ \A c \in Speaking(i, Snapshot) :
                              Cleared(c, i, Snapshot, FactsFor(i, Snapshot, basis))
    BY DEF PermittedExactly
  <2> DEFINE facts == FactsFor(i, Snapshot, basis)
             composed == Compose(SelectControls(i, Snapshot),
                                 Assessed(i, Snapshot, facts, Registry))
             d == DecisionFrom(i, Snapshot, facts, Registry)
  <2>1. SnapshotInv /\ published \in SUBSET Controls
    BY DEF SessionInv, SnapshotInv, Controls
  <2>2. WellFormedInputs(Snapshot, facts) /\ Snapshot.observed \in Nat
    BY <2>1, SessionInputs DEF Snapshot
  <2>3. ~ AssessmentFault(SelectControls(i, Snapshot), i, Snapshot, facts, Registry)
    BY DEF InputFault
  <2>4. VerdictUnder(published, i, basis) =
            IF AcceptableDecision(d) THEN d.verdict ELSE "raised"
    BY DEF VerdictUnder, Snapshot
  <2>5. d.verdict = composed.verdict
    BY DecisionFromFields
  <2>6. ~ AcceptableDecision(d) => d.verdict = "route"
    BY <2>2, OnlyDefaultRoutesRefused
  <2> HIDE DEF facts, composed, d
  <2>7. VerdictUnder(published, i, basis) \in Permissive <=> composed.verdict \in Permissive
    BY <2>4, <2>5, <2>6 DEF Permissive
  <2>8. composed.verdict \in Permissive => Speaking(i, Snapshot) # {}
    BY PermissiveEffects, SpeakingHasOutcome DEF composed
  <2>9. composed.verdict \in Permissive =>
            \A c \in Speaking(i, Snapshot) : Cleared(c, i, Snapshot, facts)
    BY <2>2, <2>3, PermissionNeedsAll DEF composed
  <2>10. /\ Speaking(i, Snapshot) # {}
         /\ \A c \in Speaking(i, Snapshot) : Cleared(c, i, Snapshot, facts)
         => composed.verdict \in Permissive
    BY <2>2, PermissionNeedsNoMore DEF composed
  <2> QED
    BY <2>7, <2>8, <2>9, <2>10 DEF facts
<1> QED
  BY <1>1, AlwaysSessionInv, PTL
=============================================================================
