------------------------ MODULE AdvancementContracts ------------------------
(***************************************************************************)
(* The contracts of the records that lead a corrected draft from the state *)
(* drafted to reviewed: which single record is well-formed.  The service   *)
(* that files them is not in the repository.                               *)
(*                                                                         *)
(* A reference, an id and a hash, stands for the very record it names.     *)
(* `named' are the tenants of the references of a record whose targets do  *)
(* not matter.  Content hashes are what they are computed of.              *)
(***************************************************************************)
EXTENDS Naturals, FiniteSets

CONSTANTS
    PolicyModules,  \* the modules the correction is about
    Home,           \* the one tenant the contracts are pinned to
    DecidedAt,      \* when the review was decided, by the authority's clock
    ValidUntil      \* and until when it may be acted on, exclusive

ASSUME AdvancementAssumption ==
    /\ DecidedAt \in Nat /\ ValidUntil \in Nat /\ DecidedAt < ValidUntil

InWindow(instant) == DecidedAt <= instant /\ instant < ValidUntil

-----------------------------------------------------------------------------
(* The pinned tables *)

\* Every module has a stream with the defective draft and one with its correction.
Defective(m) == <<m, "activate">>
Correction(m) == <<m, "correction-002">>
Streams == {Defective(m) : m \in PolicyModules} \cup {Correction(m) : m \in PolicyModules}

RestrictionExpectation(s) ==
    IF s \in {Defective(m) : m \in PolicyModules}
    THEN [hold |-> "PERMANENT_FREEZE", release |-> "NEVER"]
    ELSE [hold |-> "EXACT_DECISION_HOLD", release |-> "FUTURE_EXACT_HUMAN_DECISION"]

\* Fault: the table holds the streams of the defective drafts too.
ReviewableEvery == Streams

\* The streams with an expectation of what is reviewed, issued and consumed.
Reviewable == {Correction(m) : m \in PolicyModules}

DraftHead(s) == <<"draft head", s>>
Nonce(s) == <<"nonce", s>>

\* A principal is known by the version `name' names; a record that names it
\* says also which domain it is of.
Principal(name, domain) == [name |-> name, domain |-> domain]
Reviewer == Principal("reviewer", "domain-reviewer")

Operations == {"RECORD_ARTIFACT", "RECORD_GATE", "ISSUE_PERMIT"}
Assigned(operation) ==
    CASE operation = "RECORD_ARTIFACT" ->
            Principal("independent-assessor-1", "domain-independent-assessor")
      [] operation = "RECORD_GATE" -> Principal("policy-approver-1", "domain-policy-approver")
      [] operation = "ISSUE_PERMIT" ->
            Principal("advancement-approver-1", "domain-advancement-approver")

\* The restriction the pinned hash of a stream is of.
Restriction(s) ==
    [kind |-> "restriction", id |-> s, tenant |-> Home, named |-> {Home}, stream |-> s,
     hold |-> RestrictionExpectation(s).hold, release |-> RestrictionExpectation(s).release]

RestrictionOK(r) ==
    /\ r.kind = "restriction"
    /\ r.tenant = Home /\ r.named = {r.tenant}
    /\ r.stream \in Streams /\ r.id = r.stream
    /\ [hold |-> r.hold, release |-> r.release] = RestrictionExpectation(r.stream)

-----------------------------------------------------------------------------
(* Decisions *)

\* These decisions get their ids from when they are decided.
DecisionId(d) == <<d.semantics, d.decided_at>>

\* The pinned decision on the review, and the one it corrects.
ReviewDecision == <<"review", DecidedAt>>
GoverningDecision == <<"governing", DecidedAt>>

ActorAssignmentOK(a) == a.principal = Assigned(a.operation) /\ a.named = {Home}

\* One actor for each operation; with the reviewer they are of four domains.
ScopeOK(assignments) ==
    /\ \A a \in assignments : ActorAssignmentOK(a)
    /\ Cardinality(assignments) = 3
    /\ {a.operation : a \in assignments} = Operations
    /\ Cardinality({a.principal.domain : a \in assignments} \cup {Reviewer.domain}) = 4

AdministrationOK(b) ==
    /\ b.tenant = Home /\ b.named = {b.tenant}
    /\ b.decided_at < b.valid_until /\ b.valid_until = ValidUntil
    /\ b.review = ReviewDecision /\ b.governing = GoverningDecision
    /\ b.modules = PolicyModules
    /\ ScopeOK(b.assignments)

\* An item of the decision on the review is one of the table, in every detail.
ReviewItemOK(i) ==
    /\ i.stream \in Reviewable
    /\ i.named = {Home}
    /\ i.head = DraftHead(i.stream) /\ i.nonce = Nonce(i.stream)
    /\ i.governing = GoverningDecision /\ i.reviewer = Reviewer
    /\ i.valid_from = DecidedAt /\ i.valid_until = ValidUntil

HumanDecisionOK(d) ==
    /\ d.kind = "decision"
    /\ d.human /\ d.named = {d.tenant} /\ d.id = DecisionId(d)
    /\ d.semantics = "review" =>
        /\ d.tenant = Home /\ d.decided_at = DecidedAt
        /\ \A i \in d.items : ReviewItemOK(i)
        /\ {i.stream : i \in d.items} = Reviewable
    /\ d.semantics = "administration" =>
        /\ d.tenant = Home /\ d.decided_at < ValidUntil
        /\ ScopeOK(d.assignments)

-----------------------------------------------------------------------------
(* What was verified *)

\* The realm and the observation get their ids from what they are about.
RealmId(r) == <<r.tenant, r.store, r.administration>>
RealmOK(r) ==
    /\ r.kind = "realm"
    /\ r.tenant = Home /\ r.named = {r.tenant} /\ r.id = RealmId(r)

\* The observed paths are all of the pinned ones, none of them empty.
ManifestOK(m) == m.complete
ManifestHash(m) == <<"manifest of", m.content>>

ObservationId(o) == <<o.tenant, o.store, o.manifest.hash, o.snapshot, o.observed_at>>
ObservationOK(o) ==
    /\ o.kind = "observation"
    /\ o.tenant = Home /\ o.named = {o.tenant}
    /\ o.review = ReviewDecision
    /\ ManifestOK(o.manifest) /\ o.manifest.hash = ManifestHash(o.manifest)
    /\ o.id = ObservationId(o)

\* An observation is signed with the archive its snapshot is the hash of;
\* that what it lists as observed is in the archive is not looked at.
SignedObservationOK(s) ==
    ObservationOK(s.observation) /\ s.archive # "" /\ s.observation.snapshot = s.archive

Protected ==
    {"BUILDER", "GOVERNING_DECISION_PROPOSER", "GOVERNING_DECISION_RESOLVER",
     "REVIEW_DECISION_PROPOSER", "REVIEW_DECISION_RESOLVER", "REVIEWER", "ASSESSOR"}

\* Separation is claimed completely; that the domains differ is not looked at.
SeparationOK(s) ==
    /\ \A b, c \in s.bindings : b.role = c.role => b = c
    /\ Protected \subseteq {b.role : b \in s.bindings}
    /\ s.assessor_from = Protected \ {"REVIEWER", "ASSESSOR"}
    /\ s.reviewer_from = Protected \ {"REVIEWER"}

\* Fault: any actor of the administration may act.
ActsForAny(authority, administration, operation) == authority \in administration.assignments

\* An assignment of the administration for the operation it is used for.
ActsFor(authority, administration, operation) ==
    authority.operation = operation /\ authority \in administration.assignments

\* The report is about the observation, by the assessor, at that instant.
ReportOK(a) ==
    a.report = [observation |-> a.observation, snapshot |-> a.snapshot,
                assessor |-> a.assessor.principal.name,
                assessed_at |-> a.assessed_at, verdict |-> "PASS"]

ArtifactId(a) == <<a.review, a.manifest.hash, a.report.assessor, a.assessed_at>>
ArtifactOK(a) ==
    /\ a.kind = "artifact"
    /\ a.tenant = Home /\ a.named = {a.tenant}
    /\ AdministrationOK(a.administration)
    /\ ActsFor(a.authority, a.administration, "RECORD_ARTIFACT")
    /\ ManifestOK(a.manifest)
    /\ SeparationOK(a.separation)
    /\ a.review_decided_at = DecidedAt
    /\ a.assessor.role = "ASSESSOR"
    /\ a.valid_from = DecidedAt /\ a.valid_until = ValidUntil /\ InWindow(a.assessed_at)
    /\ ReportOK(a)
    /\ a.id = ArtifactId(a)

\* The gate is valid as long as its own assessment, which need not be the
\* artifact's, nor inside the window of the review.
GateId(g) == <<g.review, g.manifest.hash, g.artifact, g.assessment.assessed_at>>
GateOK(g) ==
    /\ g.kind = "gate"
    /\ g.tenant = Home /\ g.named = {g.tenant}
    /\ AdministrationOK(g.administration)
    /\ ActsFor(g.authority, g.administration, "RECORD_GATE")
    /\ SeparationOK(g.separation)
    /\ g.review_decided_at = DecidedAt
    /\ g.assessor.role = "ASSESSOR"
    /\ g.assessment.valid_from <= g.assessment.assessed_at
    /\ g.assessment.assessed_at < g.assessment.valid_until
    /\ g.valid_from = g.assessment.valid_from /\ g.valid_until = g.assessment.valid_until
    /\ ManifestOK(g.manifest) /\ g.manifest.hash = ManifestHash(g.manifest)
    /\ g.id = GateId(g)

-----------------------------------------------------------------------------
(* Permit, consumption and result *)

PermitProtected ==
    {"SPEC_CREATOR", "DRAFT_HEAD_ACTOR", "GOVERNING_DECISION_PROPOSER",
     "GOVERNING_DECISION_RESOLVER", "REVIEW_DECISION_PROPOSER", "REVIEW_DECISION_RESOLVER"}

\* The permit's own decision on the review is a reference of the tenant, no more.
PermitId(p) == <<p.review, p.stream, p.head, p.nonce>>

\* Fault: the identifier is taken as given.
IdentifiedAnyhow(p) == p.id # <<>>

Identified(p) == p.id = PermitId(p)

\* The issuer must be the principal with the authority, of whatever domain the
\* permit says it is.
PermitOK(p) ==
    /\ p.kind = "permit"
    /\ p.stream \in Reviewable
    /\ p.tenant = Home /\ p.named = {p.tenant}
    /\ AdministrationOK(p.administration)
    /\ ActsFor(p.authority, p.administration, "ISSUE_PERMIT")
    /\ p.issuer.name = p.authority.principal.name
    /\ p.restriction = Restriction(p.stream)
    /\ p.head = DraftHead(p.stream) /\ p.nonce = Nonce(p.stream) /\ p.reviewer = Reviewer
    /\ p.valid_from = DecidedAt /\ p.valid_until = ValidUntil
    /\ Identified(p)
    /\ PermitProtected \subseteq {b.role : b \in p.protected}
    /\ \/ p.issuer.name \in {b.principal.name : b \in p.protected}
       \/ "PERMIT_ISSUER" \in {b.role : b \in p.protected}
    /\ InWindow(p.issued_at_instant)

\* A consumption is compared with the pins, not with the permit it names.  Of
\* its two instants the window is about the authority's.
ConsumptionId(c) == <<c.permit.id, c.event>>
ConsumptionOK(c) ==
    /\ c.kind = "consumption"
    /\ c.tenant = Home /\ c.named = {c.tenant}
    /\ c.actor = Reviewer
    /\ c.valid_from = DecidedAt /\ c.valid_until = ValidUntil /\ InWindow(c.consumed_at_instant)
    /\ c.id = ConsumptionId(c)

ResultOK(r) ==
    /\ r.kind = "result"
    /\ r.named = {r.tenant} /\ r.consumption.tenant = r.tenant
    /\ r.event = r.consumption.event /\ r.permit = r.consumption.permit
    /\ r.request = r.consumption.request /\ r.completed_at = r.consumption.consumed_at
=============================================================================
