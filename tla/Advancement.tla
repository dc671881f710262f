----------------------------- MODULE Advancement -----------------------------
(***************************************************************************)
(* How corrected drafts come to be reviewed: the decisions, the realm and  *)
(* the observation, then artifact, gate, permit, consumption and result.   *)
(* The service that files the records is not in the repository: what is    *)
(* asked of it is that a record is well-formed by its contract, that what  *)
(* it names is filed, and that no identifier is taken twice.  The rest is  *)
(* open, so what holds of the files holds by the contracts.                *)
(***************************************************************************)
EXTENDS AdvancementContracts

CONSTANTS
    Other,   \* another tenant
    MaxEach  \* how many records of a kind are filed

ASSUME StoreAssumption == Other # Home /\ MaxEach \in Nat

VARIABLES filed  \* the records

Filed(kind) == {r \in filed : r.kind = kind}

\* The expected record, and those with one field replaced.
Drafted(expected, alternatives) ==
    {expected} \cup UNION {{[expected EXCEPT ![f] = v] : v \in alternatives[f]} :
                              f \in DOMAIN alternatives}

File(r) ==
    /\ Cardinality(Filed(r.kind)) < MaxEach
    /\ \A s \in Filed(r.kind) : s.id # r.id
    /\ filed' = filed \cup {r}

Elsewhere == {{Other}, {Home, Other}}
Instants == DecidedAt - 1 .. ValidUntil

-----------------------------------------------------------------------------
(* What is decided and observed first *)

FileRestriction ==
    \E s \in Streams :
        \E r \in Drafted(Restriction(s),
                [hold |-> {"PERMANENT_FREEZE", "EXACT_DECISION_HOLD"}, named |-> Elsewhere]) :
            RestrictionOK(r) /\ File(r)

ReviewItem(s) ==
    [stream |-> s, named |-> {Home}, head |-> DraftHead(s), nonce |-> Nonce(s),
     governing |-> GoverningDecision, reviewer |-> Reviewer,
     valid_from |-> DecidedAt, valid_until |-> ValidUntil]
ReviewItems == {ReviewItem(s) : s \in Reviewable}
Review ==
    [kind |-> "decision", id |-> ReviewDecision, tenant |-> Home, named |-> {Home}, human |-> TRUE,
     semantics |-> "review", decided_at |-> DecidedAt, items |-> ReviewItems, assignments |-> {}]

FileReview ==
    \E r \in Drafted(Review,
            [items |-> {ReviewItems \ {i} : i \in ReviewItems}
                       \cup {{[i EXCEPT !.nonce = Nonce(<<"none">>)] : i \in ReviewItems}},
             human |-> {FALSE}, decided_at |-> Instants]) :
        HumanDecisionOK(r) /\ File(r)

Assignments == {[operation |-> o, principal |-> Assigned(o), named |-> {Home}] : o \in Operations}
Assignment(operation) == CHOOSE a \in Assignments : a.operation = operation
AdministrationDecision(at) ==
    [kind |-> "decision", id |-> <<"administration", at>>, tenant |-> Home, named |-> {Home},
     human |-> TRUE, semantics |-> "administration", decided_at |-> at, items |-> {},
     assignments |-> Assignments]

\* Assignments that give every operation to one actor.
Doubled == {[a EXCEPT !.principal = Assigned("RECORD_ARTIFACT")] : a \in Assignments}

FileAdministration ==
    /\ Review \in filed
    /\ \E at \in Instants :
        \E r \in Drafted(AdministrationDecision(at), [assignments |-> {Doubled}, human |-> {FALSE}]) :
            HumanDecisionOK(r) /\ File(r)

Realm(decision) ==
    LET r == [kind |-> "realm", tenant |-> Home, named |-> {Home}, store |-> "the store",
              administration |-> decision.id]
    IN  [f \in DOMAIN r \cup {"id"} |-> IF f = "id" THEN RealmId(r) ELSE r[f]]

FileRealm ==
    \E decision \in {d \in Filed("decision") : d.semantics = "administration"} :
        \E r \in Drafted(Realm(decision), [named |-> Elsewhere, store |-> {"another store"}]) :
            RealmOK(r) /\ File(r)

Manifest == [complete |-> TRUE, content |-> "the code", hash |-> ManifestHash([content |-> "the code"])]
Partial == [Manifest EXCEPT !.complete = FALSE]
Another == [complete |-> TRUE, content |-> "other code", hash |-> ManifestHash([content |-> "other code"])]

Observation(realm) ==
    LET o == [kind |-> "observation", tenant |-> Home, named |-> {Home}, store |-> realm.store,
              review |-> ReviewDecision, manifest |-> Manifest, snapshot |-> "archive",
              observed_at |-> DecidedAt]
    IN  [f \in DOMAIN o \cup {"id"} |-> IF f = "id" THEN ObservationId(o) ELSE o[f]]

\* An observation is filed as it is signed: with the archive that was taken.
ArchivedOK(o) == SignedObservationOK([observation |-> o, archive |-> "archive"])

FileObservation ==
    \E realm \in Filed("realm") :
        \E r \in Drafted(Observation(realm),
                [manifest |-> {Partial, Another, [Manifest EXCEPT !.content = "other code"]},
                 snapshot |-> {"another archive"}, review |-> {GoverningDecision}]) :
            ArchivedOK(r) /\ File(r)

-----------------------------------------------------------------------------
(* From the artifact to the result *)

Administration ==
    [tenant |-> Home, named |-> {Home}, decided_at |-> DecidedAt, valid_until |-> ValidUntil,
     review |-> ReviewDecision, governing |-> GoverningDecision, modules |-> PolicyModules,
     assignments |-> Assignments]
Late == [Administration EXCEPT !.decided_at = ValidUntil]
Shared == [Administration EXCEPT !.assignments = Doubled]

Bindings(roles) == {[role |-> r, principal |-> Principal("someone", "domain-of-someone")] : r \in roles}
Separation ==
    [bindings |-> Bindings(Protected), assessor_from |-> Protected \ {"REVIEWER", "ASSESSOR"},
     reviewer_from |-> Protected \ {"REVIEWER"}]
Unseparated == [Separation EXCEPT !.bindings = Bindings(Protected \ {"ASSESSOR"})]

Artifact(observation, at) ==
    LET assessor == Assigned("RECORD_ARTIFACT")
        a == [kind |-> "artifact", tenant |-> Home, named |-> {Home},
              administration |-> Administration, authority |-> Assignment("RECORD_ARTIFACT"),
              observation |-> observation.id, snapshot |-> observation.snapshot,
              manifest |-> observation.manifest,
              separation |-> Separation, review |-> ReviewDecision, review_decided_at |-> DecidedAt,
              assessor |-> [role |-> "ASSESSOR", principal |-> assessor],
              assessed_at |-> at, valid_from |-> DecidedAt, valid_until |-> ValidUntil,
              report |-> [observation |-> observation.id, snapshot |-> observation.snapshot,
                          assessor |-> assessor.name, assessed_at |-> at, verdict |-> "PASS"]]
    IN  [f \in DOMAIN a \cup {"id"} |-> IF f = "id" THEN ArtifactId(a) ELSE a[f]]

FileArtifact ==
    \E observation \in Filed("observation"), at \in Instants :
        \E r \in Drafted(Artifact(observation, at),
                [authority |-> Assignments, administration |-> {Late, Shared}, named |-> Elsewhere,
                 separation |-> {Unseparated}, manifest |-> {Partial}]) :
            ArtifactOK(r) /\ File(r)

\* The gate's manifest and assessor are not compared with the artifact's; here
\* the manifest is another.
Gate(artifact, at) ==
    LET g == [kind |-> "gate", tenant |-> Home, named |-> {Home}, artifact |-> artifact,
              administration |-> Administration, authority |-> Assignment("RECORD_GATE"),
              manifest |-> Another, separation |-> Separation, assessor |-> artifact.assessor,
              review |-> ReviewDecision, review_decided_at |-> DecidedAt,
              assessment |-> [assessed_at |-> at, valid_from |-> at, valid_until |-> at + 1],
              valid_from |-> at, valid_until |-> at + 1]
    IN  [f \in DOMAIN g \cup {"id"} |-> IF f = "id" THEN GateId(g) ELSE g[f]]

FileGate ==
    \E artifact \in Filed("artifact"), at \in Instants :
        \E r \in Drafted(Gate(artifact, at),
                [authority |-> Assignments, administration |-> {Late, Shared}, named |-> Elsewhere,
                 separation |-> {Unseparated}, valid_until |-> {ValidUntil + 1}]) :
            GateOK(r) /\ File(r)

Permit(gate, s, review, at) ==
    LET p == [kind |-> "permit", tenant |-> Home, named |-> {Home}, gate |-> gate, stream |-> s,
              administration |-> Administration, authority |-> Assignment("ISSUE_PERMIT"),
              issuer |-> Assigned("ISSUE_PERMIT"), restriction |-> Restriction(s),
              head |-> DraftHead(s), nonce |-> Nonce(s), reviewer |-> Reviewer,
              review |-> review, issued_at_instant |-> at,
              valid_from |-> DecidedAt, valid_until |-> ValidUntil,
              protected |-> Bindings(PermitProtected \cup {"PERMIT_ISSUER"})]
    IN  [f \in DOMAIN p \cup {"id"} |-> IF f = "id" THEN PermitId(p) ELSE p[f]]

\* Another principal, and the assigned one under the reviewer's domain.
Issuers ==
    {Assigned("RECORD_GATE"), Principal(Assigned("ISSUE_PERMIT").name, Reviewer.domain)}

FilePermit ==
    \E gate \in Filed("gate"), s \in Streams, decision \in Filed("decision"), at \in Instants :
        /\ Restriction(s) \in filed
        /\ \E r \in Drafted(Permit(gate, s, decision.id, at),
                   [authority |-> Assignments, administration |-> {Late, Shared}, named |-> Elsewhere,
                    issuer |-> Issuers, reviewer |-> {Assigned("ISSUE_PERMIT")},
                    id |-> {<<"another">>}, protected |-> {Bindings(PermitProtected)}]) :
               PermitOK(r) /\ File(r)

\* The event that says reviewed, for which the contract names no permit.
Consumption(permit, event, at) ==
    LET c == [kind |-> "consumption", tenant |-> Home, named |-> {Home}, permit |-> permit,
              event |-> event, actor |-> Reviewer, consumed_at |-> at, consumed_at_instant |-> at,
              request |-> "request",
              valid_from |-> DecidedAt, valid_until |-> ValidUntil]
    IN  [f \in DOMAIN c \cup {"id"} |-> IF f = "id" THEN ConsumptionId(c) ELSE c[f]]

FileConsumption ==
    \E permit \in Filed("permit"), event \in {"reviewed", "reviewed again"}, at \in Instants :
        \E r \in Drafted(Consumption(permit, event, at),
                [actor |-> {permit.issuer}, consumed_at |-> {ValidUntil}, named |-> Elsewhere]) :
            ConsumptionOK(r) /\ File(r)

Result(consumption) ==
    [kind |-> "result", id |-> <<consumption.request>>, tenant |-> Home, named |-> {Home},
     consumption |-> consumption, event |-> consumption.event, permit |-> consumption.permit,
     request |-> consumption.request, completed_at |-> consumption.consumed_at]

FileResult ==
    \E consumption \in Filed("consumption") :
        \E r \in Drafted(Result(consumption), [completed_at |-> Instants, request |-> {"another"}]) :
            ResultOK(r) /\ File(r)

-----------------------------------------------------------------------------

AdvInit == filed = {}

AdvNext ==
    \/ FileRestriction \/ FileReview \/ FileAdministration
    \/ FileRealm \/ FileObservation \/ FileArtifact \/ FileGate
    \/ FilePermit \/ FileConsumption \/ FileResult

AdvSpec == AdvInit /\ [][AdvNext]_filed

-----------------------------------------------------------------------------
(* Properties *)

(***************************************************************************)
(* A draft that is frozen for good never advances: no permit is issued     *)
(* for it and none consumed, whatever is filed in which order.             *)
(***************************************************************************)
FrozenNeverAdvance ==
    \A r \in Filed("restriction") : r.hold = "PERMANENT_FREEZE" =>
        /\ \A p \in Filed("permit") : p.stream # r.stream
        /\ \A c \in Filed("consumption") : c.permit.stream # r.stream

(***************************************************************************)
(* Who reviews, who issues the permit, who records its gate and who        *)
(* records the artifact the gate is about are four principals, and of four *)
(* domains by their assignments, though each record's contract looks at    *)
(* its own actor alone and the permit may say any domain of its issuer.    *)
(***************************************************************************)
FourHands ==
    \A c \in Filed("consumption") :
        LET permit   == c.permit
            gate     == permit.gate
            artifact == gate.artifact
        IN  /\ Cardinality({c.actor.name, permit.issuer.name,
                            gate.authority.principal.name,
                            artifact.authority.principal.name}) = 4
            /\ Cardinality({c.actor.domain, permit.authority.principal.domain,
                            gate.authority.principal.domain,
                            artifact.authority.principal.domain}) = 4

(***************************************************************************)
(* One decision on the review yields one permit for a stream, however      *)
(* often and by whichever gate it is asked for: the identifier a permit    *)
(* must have leaves no room for a second.                                  *)
(***************************************************************************)
OnePermitPerReview ==
    \A p, q \in Filed("permit") : p.stream = q.stream /\ p.review = q.review => p = q
=============================================================================
