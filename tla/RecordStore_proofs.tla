-------------------------- MODULE RecordStore_proofs --------------------------
(***************************************************************************)
(* What is proved of the parts holds of the store they are composed in: a  *)
(* history of the store is a history of the advancement records, and the   *)
(* invariant of the item decisions holds whatever the store is about.      *)
(*                                                                         *)
(* The advancement records come first, for any modules, any window and any *)
(* number of records.  A record's contract looks at that record alone, so  *)
(* the properties, which relate records, rest on two facts about the file: *)
(* all that is in it is well-formed, and what a record names is in it.     *)
(*                                                                         *)
(* Then the items, for any modules, decisions and edits.  That two         *)
(* decisions do not both claim an item rests on when they were taken: a    *)
(* decision keeps copies of the modules it was about, and a copy can cite  *)
(* only what was decided before, so of two decisions at most one has a     *)
(* copy that cites the other.                                              *)
(*                                                                         *)
(* Then the records of actions, for any agenda and any slips.  What a      *)
(* record names of its own tenant was filed before it, so a chain of       *)
(* references goes down the file, and of the records that break the        *)
(* closure the first one would have to break it in its own references.     *)
(***************************************************************************)
EXTENDS RecordStore, FiniteSetTheorems, WellFoundedInduction, TLAPS

-----------------------------------------------------------------------------
(* The advancement records *)

AllWellFormed ==
    /\ \A r \in Filed("restriction") : RestrictionOK(r)
    /\ \A r \in Filed("artifact") : ArtifactOK(r)
    /\ \A r \in Filed("gate") : GateOK(r)
    /\ \A r \in Filed("permit") : PermitOK(r)
    /\ \A r \in Filed("consumption") : ConsumptionOK(r)

NamesFiled ==
    /\ \A g \in Filed("gate") : g.artifact \in Filed("artifact")
    /\ \A p \in Filed("permit") : p.gate \in Filed("gate")
    /\ \A c \in Filed("consumption") : c.permit \in Filed("permit")

FileInv == AllWellFormed /\ NamesFiled /\ OnePermitPerReview

-----------------------------------------------------------------------------
(* Filing *)

\* A draft differs from what is expected at most where alternatives are given.
LEMMA DraftedKeeps ==
    ASSUME NEW e, NEW alternatives, NEW r \in Drafted(e, alternatives),
           NEW g \in DOMAIN e, g \notin DOMAIN alternatives
    PROVE  r[g] = e[g]
BY DEF Drafted

\* A record of another kind leaves the records of a kind alone.
LEMMA FiledOther ==
    ASSUME NEW r, File(r), NEW kind, r.kind # kind
    PROVE  Filed(kind)' = Filed(kind)
BY DEF File, Filed

\* A record joins those of its kind, and nothing is taken out.
LEMMA FiledSame ==
    ASSUME NEW r, File(r), NEW kind, r.kind = kind
    PROVE  Filed(kind)' = Filed(kind) \cup {r}
BY DEF File, Filed

\* A record that is none of the chain's keeps the invariant.
LEMMA OtherKinds ==
    ASSUME FileInv, NEW r, File(r),
           r.kind \notin {"restriction", "artifact", "gate", "permit", "consumption"}
    PROVE  FileInv'
<1>1. \A kind \in {"restriction", "artifact", "gate", "permit", "consumption"} :
        Filed(kind)' = Filed(kind)
  BY FiledOther
<1> QED
  BY <1>1 DEF FileInv, AllWellFormed, NamesFiled, OnePermitPerReview

-----------------------------------------------------------------------------
(* What each of the chain's actions files *)

\* The action that files a gate names an artifact that is filed.
LEMMA GateNamesFiled ==
    ASSUME NEW artifact \in Filed("artifact"), NEW at,
           NEW r \in Drafted(Gate(artifact, at),
                [authority |-> Assignments, administration |-> {Late, Shared}, named |-> Elsewhere,
                 separation |-> {Unseparated}, valid_until |-> {ValidUntil + 1}])
    PROVE  r.artifact = artifact
<1> DEFINE e == Gate(artifact, at)
<1>1. "artifact" \in DOMAIN e /\ e["artifact"] = artifact
  BY DEF Gate
<1> HIDE DEF e
<1>2. r["artifact"] = e["artifact"]
  BY <1>1, DraftedKeeps DEF e
<1> QED
  BY <1>1, <1>2

\* The action that files a permit names a gate that is filed.
LEMMA PermitNamesFiled ==
    ASSUME NEW gate \in Filed("gate"), NEW s, NEW review, NEW at,
           NEW r \in Drafted(Permit(gate, s, review, at),
                [authority |-> Assignments, administration |-> {Late, Shared}, named |-> Elsewhere,
                 issuer |-> Issuers,
                 reviewer |-> {Assigned("ISSUE_PERMIT")}, id |-> {<<"another">>}, protected |-> {Bindings(PermitProtected)}])
    PROVE  r.gate = gate
<1> DEFINE e == Permit(gate, s, review, at)
<1>1. "gate" \in DOMAIN e /\ e["gate"] = gate
  BY DEF Permit
<1> HIDE DEF e
<1>2. r["gate"] = e["gate"]
  BY <1>1, DraftedKeeps DEF e
<1> QED
  BY <1>1, <1>2

\* The action that files a consumption names a permit that is filed.
LEMMA ConsumptionNamesFiled ==
    ASSUME NEW permit \in Filed("permit"), NEW event, NEW at,
           NEW r \in Drafted(Consumption(permit, event, at),
                [actor |-> {permit.issuer}, consumed_at |-> {ValidUntil}, named |-> Elsewhere])
    PROVE  r.permit = permit
<1> DEFINE e == Consumption(permit, event, at)
<1>1. "permit" \in DOMAIN e /\ e["permit"] = permit
  BY DEF Consumption
<1> HIDE DEF e
<1>2. r["permit"] = e["permit"]
  BY <1>1, DraftedKeeps DEF e
<1> QED
  BY <1>1, <1>2

\* Two permits for one stream by one decision have one identifier.
LEMMA PermitIdentity ==
    ASSUME NEW p, NEW q, PermitOK(p), PermitOK(q), p.stream = q.stream, p.review = q.review
    PROVE  p.id = q.id
<1>1. p.id = PermitId(p) /\ q.id = PermitId(q)
  BY DEF PermitOK, Identified
<1>2. /\ p.head = DraftHead(p.stream) /\ p.nonce = Nonce(p.stream)
      /\ q.head = DraftHead(q.stream) /\ q.nonce = Nonce(q.stream)
  BY DEF PermitOK
<1>3. p.head = q.head /\ p.nonce = q.nonce
  BY <1>2
<1> QED
  BY <1>1, <1>3 DEF PermitId

-----------------------------------------------------------------------------
(* The invariant *)

LEMMA InitFileInv == AdvInit => FileInv
BY DEF AdvInit, FileInv, AllWellFormed, NamesFiled, OnePermitPerReview, Filed

LEMMA NextFileInv == FileInv /\ [AdvNext]_filed => FileInv'
<1> SUFFICES ASSUME FileInv, [AdvNext]_filed PROVE FileInv'
  OBVIOUS
<1>1. CASE FileRestriction
  <2>1. PICK r : RestrictionOK(r) /\ File(r)
    BY <1>1 DEF FileRestriction
  <2>2. r.kind = "restriction"
    BY <2>1 DEF RestrictionOK
  <2>3. Filed("restriction")' = Filed("restriction") \cup {r}
    BY <2>1, <2>2, FiledSame
  <2>4. \A kind \in {"artifact", "gate", "permit", "consumption"} : Filed(kind)' = Filed(kind)
    BY <2>1, <2>2, FiledOther
  <2> QED
    BY <2>1, <2>3, <2>4 DEF FileInv, AllWellFormed, NamesFiled, OnePermitPerReview
<1>2. CASE FileReview
  <2>1. PICK r : HumanDecisionOK(r) /\ File(r)
    BY <1>2 DEF FileReview
  <2> QED
    BY <2>1, OtherKinds DEF HumanDecisionOK
<1>3. CASE FileAdministration
  <2>1. PICK r : HumanDecisionOK(r) /\ File(r)
    BY <1>3 DEF FileAdministration
  <2> QED
    BY <2>1, OtherKinds DEF HumanDecisionOK
<1>4. CASE FileRealm
  <2>1. PICK r : RealmOK(r) /\ File(r)
    BY <1>4 DEF FileRealm
  <2> QED
    BY <2>1, OtherKinds DEF RealmOK
<1>5. CASE FileObservation
  <2>1. PICK r : ArchivedOK(r) /\ File(r)
    BY <1>5 DEF FileObservation
  <2>2. r.kind = "observation"
    BY <2>1 DEF ArchivedOK, SignedObservationOK, ObservationOK
  <2> QED
    BY <2>1, <2>2, OtherKinds
<1>6. CASE FileArtifact
  <2>1. PICK r : ArtifactOK(r) /\ File(r)
    BY <1>6 DEF FileArtifact
  <2>2. r.kind = "artifact"
    BY <2>1 DEF ArtifactOK
  <2>3. Filed("artifact")' = Filed("artifact") \cup {r}
    BY <2>1, <2>2, FiledSame
  <2>4. \A kind \in {"restriction", "gate", "permit", "consumption"} : Filed(kind)' = Filed(kind)
    BY <2>1, <2>2, FiledOther
  <2> QED
    BY <2>1, <2>3, <2>4 DEF FileInv, AllWellFormed, NamesFiled, OnePermitPerReview
<1>7. CASE FileGate
  <2>1. PICK r : r.artifact \in Filed("artifact") /\ GateOK(r) /\ File(r)
    <3>1. \E artifact \in Filed("artifact") : \E r : r.artifact = artifact /\ GateOK(r) /\ File(r)
      BY <1>7, GateNamesFiled DEF FileGate
    <3> QED
      BY <3>1
  <2>2. r.kind = "gate"
    BY <2>1 DEF GateOK
  <2>3. Filed("gate")' = Filed("gate") \cup {r}
    BY <2>1, <2>2, FiledSame
  <2>4. \A kind \in {"restriction", "artifact", "permit", "consumption"} : Filed(kind)' = Filed(kind)
    BY <2>1, <2>2, FiledOther
  <2> QED
    BY <2>1, <2>3, <2>4 DEF FileInv, AllWellFormed, NamesFiled, OnePermitPerReview
<1>8. CASE FilePermit
  <2>1. PICK r : r.gate \in Filed("gate") /\ PermitOK(r) /\ File(r)
    <3>1. PICK gate \in Filed("gate"), s \in Streams, decision \in Filed("decision"),
               at \in Instants :
              \E r \in Drafted(Permit(gate, s, decision.id, at),
                   [authority |-> Assignments, administration |-> {Late, Shared},
                    named |-> Elsewhere, issuer |-> Issuers,
                    reviewer |-> {Assigned("ISSUE_PERMIT")}, id |-> {<<"another">>},
                    protected |-> {Bindings(PermitProtected)}]) :
                  PermitOK(r) /\ File(r)
      BY <1>8 DEF FilePermit
    <3>2. \E r : r.gate = gate /\ PermitOK(r) /\ File(r)
      BY <3>1, PermitNamesFiled
    <3>3. gate \in Filed("gate")
      OBVIOUS
    <3> QED
      BY <3>2, <3>3
  <2>2. r.kind = "permit"
    BY <2>1 DEF PermitOK
  <2>3. Filed("permit")' = Filed("permit") \cup {r}
    BY <2>1, <2>2, FiledSame
  <2>4. \A kind \in {"restriction", "artifact", "gate", "consumption"} : Filed(kind)' = Filed(kind)
    BY <2>1, <2>2, FiledOther
  <2>5. \A s \in Filed("permit") : s.id # r.id
    BY <2>1, <2>2 DEF File
  <2>6. \A s \in Filed("permit") : ~ (s.stream = r.stream /\ s.review = r.review)
    BY <2>1, <2>5, PermitIdentity DEF FileInv, AllWellFormed
  <2>7. OnePermitPerReview'
    BY <2>3, <2>6 DEF FileInv, OnePermitPerReview
  <2> QED
    BY <2>1, <2>3, <2>4, <2>7 DEF FileInv, AllWellFormed, NamesFiled
<1>9. CASE FileConsumption
  <2>1. PICK r : r.permit \in Filed("permit") /\ ConsumptionOK(r) /\ File(r)
    <3>1. \E permit \in Filed("permit") : \E r : r.permit = permit /\ ConsumptionOK(r) /\ File(r)
      BY <1>9, ConsumptionNamesFiled DEF FileConsumption
    <3> QED
      BY <3>1
  <2>2. r.kind = "consumption"
    BY <2>1 DEF ConsumptionOK
  <2>3. Filed("consumption")' = Filed("consumption") \cup {r}
    BY <2>1, <2>2, FiledSame
  <2>4. \A kind \in {"restriction", "artifact", "gate", "permit"} : Filed(kind)' = Filed(kind)
    BY <2>1, <2>2, FiledOther
  <2> QED
    BY <2>1, <2>3, <2>4 DEF FileInv, AllWellFormed, NamesFiled, OnePermitPerReview
<1>10. CASE FileResult
  <2>1. PICK r : ResultOK(r) /\ File(r)
    BY <1>10 DEF FileResult
  <2> QED
    BY <2>1, OtherKinds DEF ResultOK
<1>11. CASE UNCHANGED filed
  BY <1>11 DEF FileInv, AllWellFormed, NamesFiled, OnePermitPerReview, Filed
<1> QED
  BY <1>1, <1>2, <1>3, <1>4, <1>5, <1>6, <1>7, <1>8, <1>9, <1>10, <1>11 DEF AdvNext

LEMMA AlwaysFileInv == AdvSpec => []FileInv
BY InitFileInv, NextFileInv, PTL DEF AdvSpec

-----------------------------------------------------------------------------
(* The properties *)

\* The table holds no stream that is frozen for good.
LEMMA ReviewableIsHeld ==
    ASSUME NEW s \in Reviewable PROVE RestrictionExpectation(s).hold = "EXACT_DECISION_HOLD"
<1>1. s \notin {Defective(m) : m \in PolicyModules}
  BY DEF Reviewable, Correction, Defective
<1> QED
  BY <1>1 DEF RestrictionExpectation

\* An authority of a well-formed administration is the actor the table assigns.
LEMMA AuthorityIsAssigned ==
    ASSUME NEW authority, NEW administration, NEW operation,
           AdministrationOK(administration), ActsFor(authority, administration, operation)
    PROVE  authority.principal = Assigned(operation)
BY DEF AdministrationOK, ActsFor, ScopeOK, ActorAssignmentOK

\* Four different things are four.
LEMMA FourDifferent ==
    ASSUME NEW a, NEW b, NEW c, NEW d, c # d, b # c, b # d, a # b, a # c, a # d
    PROVE  Cardinality({a, b, c, d}) = 4
<1>1. IsFiniteSet({d}) /\ Cardinality({d}) = 1
  BY FS_Singleton
<1>2. IsFiniteSet({c, d}) /\ Cardinality({c, d}) = 2
  <2>1. {c, d} = {d} \cup {c}
    OBVIOUS
  <2> QED
    BY <1>1, <2>1, FS_AddElement
<1>3. IsFiniteSet({b, c, d}) /\ Cardinality({b, c, d}) = 3
  <2>1. {b, c, d} = {c, d} \cup {b}
    OBVIOUS
  <2> QED
    BY <1>2, <2>1, FS_AddElement
<1> QED
  <2>1. {a, b, c, d} = {b, c, d} \cup {a}
    OBVIOUS
  <2> QED
    BY <1>3, <2>1, FS_AddElement

\* The reviewer and the assigned actors are four principals of four domains.
LEMMA FourAssigned ==
    /\ Cardinality({Reviewer.name, Assigned("ISSUE_PERMIT").name,
                    Assigned("RECORD_GATE").name, Assigned("RECORD_ARTIFACT").name}) = 4
    /\ Cardinality({Reviewer.domain, Assigned("ISSUE_PERMIT").domain,
                    Assigned("RECORD_GATE").domain, Assigned("RECORD_ARTIFACT").domain}) = 4
<1>1. /\ Reviewer.name = "reviewer" /\ Reviewer.domain = "domain-reviewer"
      /\ Assigned("ISSUE_PERMIT").name = "advancement-approver-1"
      /\ Assigned("ISSUE_PERMIT").domain = "domain-advancement-approver"
      /\ Assigned("RECORD_GATE").name = "policy-approver-1"
      /\ Assigned("RECORD_GATE").domain = "domain-policy-approver"
      /\ Assigned("RECORD_ARTIFACT").name = "independent-assessor-1"
      /\ Assigned("RECORD_ARTIFACT").domain = "domain-independent-assessor"
  BY DEF Reviewer, Assigned, Principal
<1>2. Cardinality({"reviewer", "advancement-approver-1", "policy-approver-1",
                   "independent-assessor-1"}) = 4
  BY FourDifferent
<1>3. Cardinality({"domain-reviewer", "domain-advancement-approver", "domain-policy-approver",
                   "domain-independent-assessor"}) = 4
  BY FourDifferent
<1> QED
  BY <1>1, <1>2, <1>3

\* No permit is ever issued or consumed for a draft that is frozen for good:
\* a permit is for a stream of the table, and the table has none of these.
THEOREM AdvancementFrozen == AdvSpec => []FrozenNeverAdvance
<1>1. FileInv => FrozenNeverAdvance
  <2> SUFFICES ASSUME FileInv, NEW r \in Filed("restriction"), r.hold = "PERMANENT_FREEZE"
               PROVE  /\ \A p \in Filed("permit") : p.stream # r.stream
                      /\ \A c \in Filed("consumption") : c.permit.stream # r.stream
    BY DEF FrozenNeverAdvance
  <2>1. RestrictionOK(r)
    BY DEF FileInv, AllWellFormed
  <2>2. RestrictionExpectation(r.stream).hold = "PERMANENT_FREEZE"
    BY <2>1 DEF RestrictionOK, RestrictionExpectation
  <2>3. r.stream \notin Reviewable
    BY <2>2, ReviewableIsHeld
  <2>4. \A p \in Filed("permit") : p.stream # r.stream
    BY <2>3 DEF FileInv, AllWellFormed, PermitOK
  <2>5. \A c \in Filed("consumption") : c.permit.stream # r.stream
    BY <2>4 DEF FileInv, NamesFiled
  <2> QED
    BY <2>4, <2>5
<1> QED
  BY <1>1, AlwaysFileInv, PTL

\* The reviewer, the issuer of the permit and the recorders of the gate and the
\* artifact behind a consumption are four principals, assigned to four domains,
\* for every file.
THEOREM AdvancementFourHands == AdvSpec => []FourHands
<1>1. FileInv => FourHands
  <2> SUFFICES ASSUME FileInv, NEW c \in Filed("consumption")
               PROVE  /\ Cardinality({c.actor.name, c.permit.issuer.name,
                                      c.permit.gate.authority.principal.name,
                                      c.permit.gate.artifact.authority.principal.name}) = 4
                      /\ Cardinality({c.actor.domain, c.permit.authority.principal.domain,
                                      c.permit.gate.authority.principal.domain,
                                      c.permit.gate.artifact.authority.principal.domain}) = 4
    BY DEF FourHands
  <2>1. c.actor = Reviewer
    BY DEF FileInv, AllWellFormed, ConsumptionOK
  <2>2. c.permit \in Filed("permit") /\ c.permit.gate \in Filed("gate")
        /\ c.permit.gate.artifact \in Filed("artifact")
    BY DEF FileInv, NamesFiled
  <2>3. /\ c.permit.authority.principal = Assigned("ISSUE_PERMIT")
        /\ c.permit.issuer.name = Assigned("ISSUE_PERMIT").name
    BY <2>2, AuthorityIsAssigned DEF FileInv, AllWellFormed, PermitOK
  <2>4. c.permit.gate.authority.principal = Assigned("RECORD_GATE")
    BY <2>2, AuthorityIsAssigned DEF FileInv, AllWellFormed, GateOK
  <2>5. c.permit.gate.artifact.authority.principal = Assigned("RECORD_ARTIFACT")
    BY <2>2, AuthorityIsAssigned DEF FileInv, AllWellFormed, ArtifactOK
  <2> QED
    BY <2>1, <2>3, <2>4, <2>5, FourAssigned
<1> QED
  BY <1>1, AlwaysFileInv, PTL

\* One decision on the review yields one permit for a stream, whatever gates
\* there are and in whatever order it is asked for.
THEOREM AdvancementOnePermit == AdvSpec => []OnePermitPerReview
<1>1. FileInv => OnePermitPerReview
  BY DEF FileInv
<1> QED
  BY <1>1, AlwaysFileInv, PTL

-----------------------------------------------------------------------------
(* What is kept of the items *)

Known(t) == t.of \in DecisionIds => \E d \in decisions : d.id = t.of

CopyCites(d, id) ==
    \E s \in d.selections : \E c \in s.module.carriers : \E t \in c.traces : t.of = id

LiveInv ==
    \A m \in modules :
        /\ "carriers" \in DOMAIN m
        /\ \A c \in m.carriers : "traces" \in DOMAIN c /\ \A t \in c.traces : Known(t)

DecisionInv ==
    \A d \in decisions :
        /\ d.id \in DecisionIds /\ DecisionOK(d)
        /\ \A s \in d.selections : \A c \in s.module.carriers : \A t \in c.traces : Known(t)

OrderInv ==
    \A d, e \in decisions :
        /\ d.id = e.id => d = e
        /\ ~ (CopyCites(d, e.id) /\ CopyCites(e, d.id))

VersionInv == \A v \in versions : VersionTraced(v) /\ v.module.carriers # {}

ItemInv == LiveInv /\ DecisionInv /\ OrderInv /\ VersionInv

-----------------------------------------------------------------------------
(* Items *)

\* A carrier is an item of its module, with its own citations.
LEMMA CarrierIsItem ==
    ASSUME NEW m, NEW c \in m.carriers, NEW decision
    PROVE  /\ CarrierItem(c, decision) \in Items(m, decision)
           /\ CarrierItem(c, decision).path = <<c.kind, c.key>>
           /\ CarrierItem(c, decision).traces = c.traces
           /\ CarrierItem(c, decision).value.traces = {t \in c.traces : t.of # decision}
<1>1. CarrierItem(c, decision) \in Items(m, decision)
  BY DEF Items
<1>2. CarrierItem(c, decision).path = <<c.kind, c.key>>
  BY DEF CarrierItem
<1>3. CarrierItem(c, decision).traces = c.traces
  BY DEF CarrierItem
<1>4. CarrierItem(c, decision).value.traces = Compared(c.traces, decision)
  BY DEF CarrierItem
<1> QED
  BY <1>1, <1>2, <1>3, <1>4 DEF Compared

\* An item is a carrier or a part of one, has the carrier's citations and is
\* found by its kind and key; of a part no citation is compared.
LEMMA ItemHasCarrier ==
    ASSUME NEW m, NEW decision, NEW i \in Items(m, decision)
    PROVE  \E c \in m.carriers :
             /\ i.traces = c.traces /\ i.path[1] = c.kind /\ i.path[2] = c.key
             /\ i = CarrierItem(c, decision) \/ i.value.traces = {}
<1>1. PICK c \in m.carriers : i \in {CarrierItem(c, decision)} \cup PartItems(m.form, c)
  BY DEF Items
<1>2. CASE i = CarrierItem(c, decision)
  <2>1. i.path = <<c.kind, c.key>> /\ i.traces = c.traces
    BY <1>2, CarrierIsItem
  <2> QED
    BY <1>2, <2>1
<1>3. CASE i \in PartItems(m.form, c)
  BY <1>3 DEF PartItems
<1> QED
  BY <1>1, <1>2, <1>3

\* Which items there are does not depend on the decision they are compared for.
LEMMA PathsAreFixed ==
    ASSUME NEW m, NEW decision PROVE PathsOf(Items(m, decision)) = PathsOf(Items(m, "none"))
<1>1. ASSUME NEW a, NEW b PROVE PathsOf(Items(m, a)) \subseteq PathsOf(Items(m, b))
  <2> SUFFICES ASSUME NEW i \in Items(m, a) PROVE \E j \in Items(m, b) : j.path = i.path
    BY DEF PathsOf
  <2>1. PICK c \in m.carriers : i = CarrierItem(c, a) \/ i \in PartItems(m.form, c)
    BY DEF Items
  <2>2. CASE i = CarrierItem(c, a)
    BY <2>2, CarrierIsItem
  <2>3. CASE i \in PartItems(m.form, c)
    BY <2>3 DEF Items
  <2> QED
    BY <2>1, <2>2, <2>3
<1> QED
  BY <1>1

-----------------------------------------------------------------------------
(* The invariant *)

LEMMA NothingYet ==
    ASSUME modules = {} \/ modules \in FirstModules, decisions = {}, versions = {}
    PROVE  ItemInv
BY ItemAssumption DEF ItemInv, LiveInv, DecisionInv, OrderInv, VersionInv, Known

\* The copy of a selection is a live module, as it is at the moment.
LEMMA CopyIsLive ==
    ASSUME NEW ms, NEW s \in Selections(ms)
    PROVE  s.module \in ms
BY DEF Selections

\* A module with a carrier replaced keeps what the carriers of a file have in
\* common, if the replacement cites nothing unknown.
LEMMA ChangeKeeps ==
    ASSUME ItemInv, NEW m \in modules, NEW c \in m.carriers, NEW changed, Change(m, c, changed),
           "traces" \in DOMAIN changed, \A t \in changed.traces : Known(t)
    PROVE  ItemInv'
<1>1. decisions' = decisions /\ versions' = versions
  BY DEF Change
<1>2. "carriers" \in DOMAIN m
  BY DEF ItemInv, LiveInv
<1> DEFINE n == [m EXCEPT !.carriers = (@ \ {c}) \cup {changed}]
<1>3. modules' = (modules \ {m}) \cup {n}
  BY DEF Change
<1>4. "carriers" \in DOMAIN n /\ n.carriers = (m.carriers \ {c}) \cup {changed}
  BY <1>2
<1> HIDE DEF n
<1>5. LiveInv'
  BY <1>1, <1>3, <1>4 DEF ItemInv, LiveInv, Known
<1>6. (DecisionInv /\ OrderInv /\ VersionInv)'
  BY <1>1 DEF ItemInv, DecisionInv, OrderInv, VersionInv, Known
<1> QED
  BY <1>5, <1>6 DEF ItemInv

LEMMA DecideKeeps ==
    ASSUME ItemInv, NEW id \in DecisionIds, Decide(id)
    PROVE  ItemInv'
<1>1. PICK selections \in SUBSET Selections(modules) :
        /\ DecisionOK([id |-> id, selections |-> selections])
        /\ decisions' = decisions \cup {[id |-> id, selections |-> selections]}
  BY DEF Decide, kSubset
<1> DEFINE e == [id |-> id, selections |-> selections]
<1>2. e.id = id /\ e.selections = selections /\ DecisionOK(e) /\ decisions' = decisions \cup {e}
  BY <1>1
<1> HIDE DEF e
<1>3. \A d \in decisions : d.id # id
  BY DEF Decide
<1>4. modules' = modules /\ versions' = versions
  BY DEF Decide
<1>5. \A s \in e.selections : s.module \in modules
  BY <1>2, CopyIsLive
<1>6. ASSUME NEW t, Known(t) PROVE Known(t)'
  BY <1>2, <1>6 DEF Known
<1>7. LiveInv'
  BY <1>4, <1>6 DEF ItemInv, LiveInv
<1>8. \A s \in e.selections : \A c \in s.module.carriers : \A t \in c.traces : Known(t)
  BY <1>5 DEF ItemInv, LiveInv
<1>9. DecisionInv'
  BY <1>2, <1>6, <1>8 DEF ItemInv, DecisionInv
<1>10. \A d \in decisions : ~ CopyCites(d, id)
  BY <1>3 DEF ItemInv, DecisionInv, CopyCites, Known
<1>11. ~ CopyCites(e, id)
  BY <1>2, CarrierIsItem DEF CopyCites, DecisionOK
<1>12. OrderInv'
  BY <1>2, <1>3, <1>10, <1>11 DEF ItemInv, OrderInv
<1>13. VersionInv'
  BY <1>4 DEF ItemInv, VersionInv
<1> QED
  BY <1>7, <1>9, <1>12, <1>13 DEF ItemInv

LEMMA NextItemInv == ItemInv /\ [ItemNext]_itemVars => ItemInv'
<1> SUFFICES ASSUME ItemInv, [ItemNext]_itemVars PROVE ItemInv'
  OBVIOUS
<1>1. ASSUME NEW id \in DecisionIds, Decide(id) PROVE ItemInv'
  BY <1>1, DecideKeeps
<1>2. CASE Cite
  <2>1. PICK m \in modules : \E c \in m.carriers, d \in decisions, exact \in BOOLEAN :
            Change(m, c, [c EXCEPT !.traces = @ \cup {Cites(d.id, exact)}])
    BY <1>2 DEF Cite
  <2>2. PICK c \in m.carriers, d \in decisions, exact \in BOOLEAN :
            Change(m, c, [c EXCEPT !.traces = @ \cup {Cites(d.id, exact)}])
    BY <2>1
  <2> DEFINE changed == [c EXCEPT !.traces = @ \cup {Cites(d.id, exact)}]
  <2>3. "traces" \in DOMAIN c /\ \A t \in c.traces : Known(t)
    BY DEF ItemInv, LiveInv
  <2>4. "traces" \in DOMAIN changed /\ changed.traces = c.traces \cup {Cites(d.id, exact)}
    BY <2>3
  <2>5. Known(Cites(d.id, exact))
    BY DEF Known, Cites
  <2> HIDE DEF changed
  <2> QED
    BY <2>2, <2>3, <2>4, <2>5, ChangeKeeps DEF changed
<1>3. CASE Uncite
  <2>1. PICK m \in modules : \E c \in m.carriers : \E t \in c.traces :
            Change(m, c, [c EXCEPT !.traces = @ \ {t}])
    BY <1>3 DEF Uncite
  <2>2. PICK c \in m.carriers : \E t \in c.traces : Change(m, c, [c EXCEPT !.traces = @ \ {t}])
    BY <2>1
  <2>3. PICK t \in c.traces : Change(m, c, [c EXCEPT !.traces = @ \ {t}])
    BY <2>2
  <2> DEFINE changed == [c EXCEPT !.traces = @ \ {t}]
  <2>4. "traces" \in DOMAIN c /\ \A u \in c.traces : Known(u)
    BY DEF ItemInv, LiveInv
  <2>5. "traces" \in DOMAIN changed /\ changed.traces = c.traces \ {t}
    BY <2>4
  <2> HIDE DEF changed
  <2> QED
    BY <2>3, <2>4, <2>5, ChangeKeeps DEF changed
<1>4. CASE Edit
  <2>1. PICK m \in modules : \E c \in m.carriers : \E p \in DOMAIN c.parts :
            Change(m, c, [c EXCEPT !.parts[p] = "edited"])
    BY <1>4 DEF Edit
  <2>2. PICK c \in m.carriers : \E p \in DOMAIN c.parts :
            Change(m, c, [c EXCEPT !.parts[p] = "edited"])
    BY <2>1
  <2>3. PICK p \in DOMAIN c.parts : Change(m, c, [c EXCEPT !.parts[p] = "edited"])
    BY <2>2
  <2> DEFINE changed == [c EXCEPT !.parts[p] = "edited"]
  <2>4. "traces" \in DOMAIN c /\ \A u \in c.traces : Known(u)
    BY DEF ItemInv, LiveInv
  <2>5. "traces" \in DOMAIN changed /\ changed.traces = c.traces
    BY <2>4
  <2> HIDE DEF changed
  <2> QED
    BY <2>3, <2>4, <2>5, ChangeKeeps DEF changed
<1>5. CASE FileVersion
  <2>1. PICK m \in modules : \E traces \in {c.traces : c \in m.carriers} :
            \E v \in {[module |-> m, traces |-> traces,
                       item_traces |-> {[path |-> p, traces |-> traces] :
                                           p \in PathsOf(Items(m, "none"))}]} :
                VersionTraced(v) /\ versions' = versions \cup {v}
    BY <1>5 DEF FileVersion
  <2>2. PICK v : VersionTraced(v) /\ v.module = m /\ versions' = versions \cup {v}
    BY <2>1
  <2>3. m.carriers # {}
    BY <2>1
  <2>4. VersionInv'
    BY <2>2, <2>3 DEF ItemInv, VersionInv
  <2>5. (LiveInv /\ DecisionInv /\ OrderInv)'
    BY <1>5 DEF FileVersion, ItemInv, LiveInv, DecisionInv, OrderInv, Known
  <2> QED
    BY <2>4, <2>5 DEF ItemInv
<1>6. CASE UNCHANGED itemVars
  BY <1>6 DEF itemVars, ItemInv, LiveInv, DecisionInv, OrderInv, VersionInv, Known
<1> QED
  BY <1>1, <1>2, <1>3, <1>4, <1>5, <1>6 DEF ItemNext

-----------------------------------------------------------------------------
(* The properties *)

\* A decision that matches a live module and selected items of it selected
\* exactly those that cite it, and its copy says what they say.
LEMMA MatchedSelection ==
    ASSUME NEW d, DecisionOK(d), NEW m, ModuleMatches(d, m),
           NEW s \in d.selections, s.module_key = m.key
    PROVE  /\ s.paths = CitedPaths(Items(m, d.id), d.id)
           /\ s.paths \subseteq PathsOf(Items(s.module, "none"))
           /\ \A i \in Items(m, d.id), j \in Items(s.module, "none") :
                  i.path = j.path /\ i.path \in s.paths => i.value = j.value
BY DEF DecisionOK, SelectionOK, ModuleMatches

\* If a carrier of the live module cites a decision that matches it, the
\* decision's copy has every other decision that the carrier cites.
LEMMA CopySawCitation ==
    ASSUME NEW d, DecisionOK(d), NEW m, ModuleMatches(d, m),
           NEW s \in d.selections, s.module_key = m.key,
           NEW c \in m.carriers, Cites(d.id, TRUE) \in c.traces,
           NEW t \in c.traces, t.of # d.id
    PROVE  CopyCites(d, t.of)
<1> DEFINE i == CarrierItem(c, d.id)
<1>1. /\ i \in Items(m, d.id) /\ i.path = <<c.kind, c.key>> /\ i.traces = c.traces
      /\ t \in i.value.traces
  BY CarrierIsItem
<1> HIDE DEF i
<1>2. i.path \in s.paths
  <2>1. i.path \in CitedPaths(Items(m, d.id), d.id)
    BY <1>1 DEF CitedPaths
  <2>2. s.paths = CitedPaths(Items(m, d.id), d.id)
    BY MatchedSelection
  <2> QED
    BY <2>1, <2>2
<1>3. PICK j \in Items(s.module, "none") : j.path = i.path
  BY <1>2, MatchedSelection DEF PathsOf
<1>4. t \in j.value.traces
  <2>1. i.value = j.value
    BY <1>1, <1>2, <1>3, MatchedSelection
  <2> QED
    BY <1>1, <2>1
<1>5. PICK k \in s.module.carriers : j = CarrierItem(k, "none")
  <2>1. \E k \in s.module.carriers : j = CarrierItem(k, "none") \/ j.value.traces = {}
    BY ItemHasCarrier
  <2> QED
    BY <1>4, <2>1
<1>6. t \in k.traces
  BY <1>4, <1>5, CarrierIsItem
<1> QED
  BY <1>6 DEF CopyCites

\* Two matching decisions with an item in common have each seen the other.
LEMMA OverlapIsMutual ==
    ASSUME NEW d, DecisionOK(d), NEW e, DecisionOK(e), d.id # e.id,
           NEW m, ModuleMatches(d, m), ModuleMatches(e, m),
           NEW s \in d.selections, NEW t \in e.selections,
           s.module_key = m.key, t.module_key = m.key,
           NEW p \in s.paths \cap t.paths
    PROVE  CopyCites(d, e.id) /\ CopyCites(e, d.id)
<1>1. PICK i \in Items(m, d.id) : Cites(d.id, TRUE) \in i.traces /\ i.path = p
  <2>1. s.paths = CitedPaths(Items(m, d.id), d.id)
    BY MatchedSelection
  <2> QED
    BY <2>1 DEF CitedPaths
<1>2. PICK j \in Items(m, e.id) : Cites(e.id, TRUE) \in j.traces /\ j.path = p
  <2>1. t.paths = CitedPaths(Items(m, e.id), e.id)
    BY MatchedSelection
  <2> QED
    BY <2>1 DEF CitedPaths
<1>3. PICK c \in m.carriers : i.traces = c.traces /\ p[1] = c.kind /\ p[2] = c.key
  BY <1>1, ItemHasCarrier
<1>4. PICK k \in m.carriers : j.traces = k.traces /\ p[1] = k.kind /\ p[2] = k.key
  BY <1>2, ItemHasCarrier
<1>5. c.traces = k.traces
  <2> DEFINE x == CarrierItem(c, "none")
             y == CarrierItem(k, "none")
  <2>1. /\ x \in Items(m, "none") /\ x.path = <<c.kind, c.key>> /\ x.traces = c.traces
        /\ y \in Items(m, "none") /\ y.path = <<k.kind, k.key>> /\ y.traces = k.traces
    BY CarrierIsItem
  <2> HIDE DEF x, y
  <2>2. Traversable(m)
    BY DEF ModuleMatches
  <2>3. x = y
    BY <1>3, <1>4, <2>1, <2>2 DEF Traversable
  <2> QED
    BY <2>1, <2>3
<1>6. /\ Cites(d.id, TRUE) \in c.traces /\ Cites(d.id, TRUE).of = d.id
      /\ Cites(e.id, TRUE) \in c.traces /\ Cites(e.id, TRUE).of = e.id
  BY <1>1, <1>2, <1>3, <1>4, <1>5 DEF Cites
<1>7. CopyCites(d, e.id)
  BY <1>6, CopySawCitation
<1>8. CopyCites(e, d.id)
  BY <1>6, CopySawCitation
<1> QED
  BY <1>7, <1>8

LEMMA InvOneDecisionPerItem == ItemInv => OneDecisionPerItem
<1> SUFFICES ASSUME ItemInv, NEW d \in decisions, NEW e \in decisions, d # e,
                    SemanticsMatch(d, modules), SemanticsMatch(e, modules),
                    NEW s \in d.selections, NEW t \in e.selections, s.module_key = t.module_key,
                    NEW p \in s.paths \cap t.paths
             PROVE  FALSE
  BY DEF OneDecisionPerItem
<1>1. PICK m \in modules : m.key = s.module_key
  BY DEF SemanticsMatch
<1>2. ModuleMatches(d, m) /\ ModuleMatches(e, m)
  BY DEF SemanticsMatch
<1>3. DecisionOK(d) /\ DecisionOK(e)
  BY DEF ItemInv, DecisionInv
<1>4. d.id # e.id /\ ~ (CopyCites(d, e.id) /\ CopyCites(e, d.id))
  BY DEF ItemInv, OrderInv
<1>5. s.module_key = m.key /\ t.module_key = m.key
  BY <1>1
<1> QED
  BY <1>2, <1>3, <1>4, <1>5, OverlapIsMutual

LEMMA InvWholeOrNothing == ItemInv => WholeOrNothing
<1> SUFFICES ASSUME ItemInv, NEW v \in versions, NEW d \in decisions,
                    Cites(d.id, TRUE) \in v.traces, ModuleMatches(d, v.module)
             PROVE  \E s \in d.selections :
                        /\ s.module_key = v.module.key
                        /\ s.paths = PathsOf(Items(v.module, "none"))
  BY DEF WholeOrNothing
<1> DEFINE m == v.module
           live == Items(m, d.id)
<1>1. m.carriers # {} /\ \A c \in m.carriers : c.traces = v.traces
  BY DEF ItemInv, VersionInv, VersionTraced
<1>2. \A i \in live : Cites(d.id, TRUE) \in i.traces
  <2> SUFFICES ASSUME NEW i \in Items(m, d.id) PROVE Cites(d.id, TRUE) \in i.traces
    OBVIOUS
  <2> HIDE DEF m
  <2>1. \E c \in m.carriers : i.traces = c.traces
    BY ItemHasCarrier
  <2> QED
    BY <1>1, <2>1 DEF m
<1>3. CitedPaths(live, d.id) = PathsOf(live)
  BY <1>2 DEF CitedPaths, PathsOf
<1>4. PathsOf(live) # {}
  <2>1. PICK c \in m.carriers : TRUE
    BY <1>1
  <2>2. CarrierItem(c, d.id) \in live
    BY CarrierIsItem
  <2> QED
    BY <2>2 DEF PathsOf
<1>5. PICK s \in d.selections : s.module_key = m.key /\ s.paths = CitedPaths(live, d.id)
  BY <1>3, <1>4 DEF ModuleMatches
<1>6. PathsOf(live) = PathsOf(Items(m, "none"))
  BY PathsAreFixed
<1> QED
  BY <1>3, <1>5, <1>6

-----------------------------------------------------------------------------
(* Numbers *)

\* A set of numbers has a least one.
LEMMA LeastNatural ==
    ASSUME NEW T, T \subseteq Nat, T # {}
    PROVE  \E m \in T : \A k \in T : m <= k
<1> DEFINE R == OpToRel(<, Nat)
<1>1. IsWellFoundedOn(R, Nat)
  BY NatLessThanWellFounded
<1>2. \A x, y \in Nat : <<x, y>> \in R <=> x < y
  BY DEF OpToRel
<1> HIDE DEF R
<1>3. PICK m \in T : \A k \in T : ~ (<<k, m>> \in R)
  BY <1>1, WFMin
<1>4. \A k \in T : ~ (k < m)
  BY <1>2, <1>3
<1> QED
  BY <1>4

\* What holds of 0 and is handed on holds of every number up to a bound.
LEMMA HandedOn ==
    ASSUME NEW N \in Nat, NEW S, 0 \in S,
           \A n \in 0..N : n # 0 /\ n - 1 \in S => n \in S
    PROVE  \A n \in 0..N : n \in S
<1> DEFINE Left == {n \in 0..N : n \notin S}
<1>1. SUFFICES ASSUME Left # {} PROVE FALSE
  OBVIOUS
<1>2. PICK m \in Left : \A k \in Left : m <= k
  <2>1. Left \subseteq Nat
    OBVIOUS
  <2> HIDE DEF Left
  <2> QED
    BY <1>1, <2>1, LeastNatural
<1>3. m \in 0..N /\ m \notin S /\ m # 0
  OBVIOUS
<1>4. m - 1 \in Left
  BY <1>3
<1> HIDE DEF Left
<1> QED
  BY <1>2, <1>3, <1>4

\* The largest of some numbers up to a bound is one of them.
LEMMA LargestOfSome ==
    ASSUME NEW n \in Nat, NEW S, S \subseteq 0..n, S # {}
    PROVE  Max(S) \in S
<1> DEFINE T == {n - x : x \in S}
<1>1. T \subseteq Nat /\ T # {}
  <2>1. \A x \in S : x \in 0..n
    OBVIOUS
  <2>2. \A x \in S : n - x \in Nat
    BY <2>1
  <2> QED
    BY <2>2
<1>2. PICK m \in T : \A k \in T : m <= k
  <2> HIDE DEF T
  <2> QED
    BY <1>1, LeastNatural
<1>3. PICK x \in S : m = n - x
  OBVIOUS
<1>4. \A y \in S : x >= y
  <2> SUFFICES ASSUME NEW y \in S PROVE x >= y
    OBVIOUS
  <2>1. n - x <= n - y
    BY <1>2, <1>3
  <2>2. x \in 0..n /\ y \in 0..n
    OBVIOUS
  <2> QED
    BY <2>1, <2>2
<1> QED
  BY <1>3, <1>4 DEF Max

-----------------------------------------------------------------------------
(* What is kept of the records of actions: each is of the tenant that files *)
(* it, names what its contract vouches for of that tenant, and names of its *)
(* own tenant only what was filed before it.                                *)

NamesBefore(i) ==
    \A f \in DOMAIN records[i].links :
        LET n == records[i].links[f]
        IN  n.tenant = Mine /\ n.place > 0 =>
                n.place \in 1..(i - 1) /\ records[n.place].kind = n.kind

ActionsInv ==
    /\ records \in Seq({records[i] : i \in DOMAIN records})
    /\ \A i \in DOMAIN records :
        records[i].tenant = Mine /\ TenantBound(records[i]) /\ NamesBefore(i)

\* The latest record of a kind, where there is one, is of that kind.
LEMMA LatestOfKind ==
    ASSUME NEW R, records \in Seq(R), NEW kind
    PROVE  /\ Latest(kind) \in Nat
           /\ Latest(kind) > 0 =>
                Latest(kind) \in 1..Len(records) /\ records[Latest(kind)].kind = kind
<1> DEFINE S == {0} \cup {i \in DOMAIN records : records[i].kind = kind}
<1>1. Len(records) \in Nat /\ DOMAIN records = 1..Len(records)
  OBVIOUS
<1>2. S \subseteq 0..Len(records) /\ S # {}
  BY <1>1
<1>3. Max(S) \in S
  <2> HIDE DEF S
  <2> QED
    BY <1>1, <1>2, LargestOfSome
<1>4. Latest(kind) = Max(S)
  BY DEF Latest
<1> QED
  BY <1>1, <1>3, <1>4

\* A slip aside, a draft names the latest record of the kind it needs.
LEMMA NamesLatest ==
    ASSUME NEW kind, NEW links \in LinkChoices(kind), NEW f \in DOMAIN links,
           links[f].tenant = Mine
    PROVE  links[f] = Name(Schema[kind][f], Mine, Latest(Schema[kind][f]))
<1>1. PICK absent \in SUBSET OptionalLinks(kind) :
         links \in {ExactLinks(kind, absent)} \cup
            {[ExactLinks(kind, absent) EXCEPT ![g].tenant = Theirs] :
               g \in DOMAIN ExactLinks(kind, absent)}
  BY DEF LinkChoices
<1> DEFINE exact == ExactLinks(kind, absent)
<1>2. \A g \in DOMAIN exact : exact[g] = Name(Schema[kind][g], Mine, Latest(Schema[kind][g]))
  BY DEF ExactLinks
<1>3. \A g \in DOMAIN exact : DOMAIN exact[g] = {"kind", "tenant", "place"}
  BY <1>2 DEF Name
<1> HIDE DEF exact
<1>4. CASE links = exact
  BY <1>2, <1>4
<1>5. ASSUME NEW g \in DOMAIN exact, links = [exact EXCEPT ![g].tenant = Theirs]
      PROVE  links[f] = exact[f] /\ f \in DOMAIN exact
  <2>1. f \in DOMAIN exact
    BY <1>5
  <2>2. CASE f = g
    <3>1. links[f].tenant = Theirs
      BY <1>3, <1>5, <2>1, <2>2
    <3> QED
      BY <3>1, AgendaAssumption
  <2>3. CASE f # g
    BY <1>5, <2>1, <2>3
  <2> QED
    BY <2>1, <2>2, <2>3
<1> QED
  BY <1>1, <1>2, <1>4, <1>5 DEF exact

LEMMA NextActionsInv ==
    ActionsInv /\ [FileRecord]_records => ActionsInv'
<1> SUFFICES ASSUME ActionsInv, [FileRecord]_records PROVE ActionsInv'
  OBVIOUS
<1>1. CASE FileRecord
  <2> DEFINE R == {records[i] : i \in DOMAIN records}
             last == Len(records) + 1
             kind == Agenda[last]
  <2>1. PICK r \in Drafts(kind) :
          /\ WellFormed(r)
          /\ \A f \in DOMAIN r.links :
               r.links[f].tenant = Mine /\ r.links[f].kind # "Earlier" => r.links[f].place > 0
          /\ records' = Append(records, r)
    BY <1>1 DEF FileRecord
  <2>2. r.tenant = Mine /\ r.links \in LinkChoices(kind)
    BY DEF Drafts
  <2>3. records \in Seq(R)
    BY DEF ActionsInv
  <2> HIDE DEF R, kind
  <2>4. /\ records' \in Seq(R \cup {r}) /\ DOMAIN records' = 1..last
        /\ Len(records) \in Nat /\ DOMAIN records = 1..Len(records)
        /\ records'[last] = r
        /\ \A i \in DOMAIN records : i # last /\ records'[i] = records[i]
    <3>1. records \in Seq(R \cup {r})
      BY <2>3
    <3> QED
      BY <2>1, <2>3, <3>1
  <2>5. records' \in Seq({records'[i] : i \in DOMAIN records'})
    BY <2>4
  <2>6. ASSUME NEW f \in DOMAIN r.links, r.links[f].tenant = Mine, r.links[f].place > 0
        PROVE  /\ r.links[f].place \in 1..(last - 1)
               /\ records'[r.links[f].place].kind = r.links[f].kind
    <3> DEFINE k == Schema[kind][f]
    <3>1. r.links[f] = Name(k, Mine, Latest(k))
      BY <2>2, <2>6, NamesLatest
    <3>2. r.links[f].place = Latest(k) /\ r.links[f].kind = k
      BY <3>1 DEF Name
    <3>3. Latest(k) \in 1..Len(records) /\ records[Latest(k)].kind = k
      BY <2>3, <2>6, <3>2, LatestOfKind
    <3> QED
      BY <2>4, <3>2, <3>3
  <2>7. ASSUME NEW i \in DOMAIN records'
        PROVE  (records[i].tenant = Mine /\ TenantBound(records[i]) /\ NamesBefore(i))'
    <3>1. CASE i = last
      <4>1. TenantBound(r)
        BY <2>1 DEF WellFormed
      <4>2. NamesBefore(i)'
        BY <2>4, <2>6, <3>1 DEF NamesBefore
      <4> QED
        BY <2>2, <2>4, <3>1, <4>1, <4>2 DEF TenantBound
    <3>2. CASE i \in DOMAIN records
      <4>1. records[i].tenant = Mine /\ TenantBound(records[i]) /\ NamesBefore(i)
        BY <3>2 DEF ActionsInv
      <4>2. NamesBefore(i)'
        <5> SUFFICES ASSUME NEW f \in DOMAIN records[i].links,
                            records[i].links[f].tenant = Mine, records[i].links[f].place > 0
                     PROVE  /\ records[i].links[f].place \in 1..(i - 1)
                            /\ records'[records[i].links[f].place].kind = records[i].links[f].kind
          BY <2>4, <3>2 DEF NamesBefore
        <5>1. /\ records[i].links[f].place \in 1..(i - 1)
              /\ records[records[i].links[f].place].kind = records[i].links[f].kind
          BY <4>1 DEF NamesBefore
        <5>2. records[i].links[f].place \in DOMAIN records
          BY <2>4, <3>2, <5>1
        <5> QED
          BY <2>4, <5>1, <5>2
      <4> QED
        BY <2>4, <3>2, <4>1, <4>2 DEF TenantBound
    <3> QED
      BY <2>4, <3>1, <3>2
  <2> QED
    BY <2>5, <2>7 DEF ActionsInv
<1>2. CASE UNCHANGED records
  BY <1>2 DEF ActionsInv, TenantBound, NamesBefore
<1> QED
  BY <1>1, <1>2

-----------------------------------------------------------------------------
(* What is reached: a chain goes down the file, so following it ends. *)

NamesOf(i) == {records[i].links[f] : f \in Grounds \cap DOMAIN records[i].links}
Onward(i) == {m \in NamesOf(i) : m.tenant = Mine /\ m.place > 0 /\ m.kind \in Protecting}
ReachedVia(f, i) == NamesOf(i) \cup UNION {f[n.place] : n \in Onward(i)}
ReachedUpTo(f, n) == \A i \in 1..n : f[i] = ReachedVia(f, i)

LEMMA OnwardIsDown ==
    ASSUME ActionsInv, NEW i \in DOMAIN records, NEW m \in Onward(i)
    PROVE  m.place \in 1..(i - 1) /\ records[m.place].kind = m.kind
BY DEF ActionsInv, NamesBefore, Onward, NamesOf

\* What agrees below a record reaches the same from it.
LEMMA ReachedViaAgrees ==
    ASSUME ActionsInv, NEW i \in DOMAIN records, NEW f, NEW g,
           \A j \in 1..(i - 1) : f[j] = g[j]
    PROVE  ReachedVia(f, i) = ReachedVia(g, i)
<1>1. \A m \in Onward(i) : f[m.place] = g[m.place]
  BY OnwardIsDown
<1> QED
  BY <1>1 DEF ReachedVia

LEMMA ReachedExists ==
    ASSUME ActionsInv PROVE \E f : ReachedUpTo(f, Len(records))
<1> DEFINE N == Len(records)
           S == {n \in 0..N : \E f : ReachedUpTo(f, n)}
<1>1. N \in Nat /\ DOMAIN records = 1..N
  BY DEF ActionsInv
<1> HIDE DEF N
<1>2. 0 \in S
  <2>1. ReachedUpTo(<<>>, 0)
    BY DEF ReachedUpTo
  <2> QED
    BY <1>1, <2>1
<1>3. ASSUME NEW n \in 0..N, n # 0, n - 1 \in S PROVE n \in S
  <2>1. PICK f : ReachedUpTo(f, n - 1)
    BY <1>3
  <2> DEFINE g == [i \in 1..n |-> ReachedVia(f, i)]
  <2>2. \A i \in 1..n : g[i] = ReachedVia(f, i)
    OBVIOUS
  <2> HIDE DEF g
  <2>3. \A i \in 1..(n - 1) : f[i] = g[i]
    BY <1>1, <1>3, <2>1, <2>2 DEF ReachedUpTo
  <2>4. ASSUME NEW i \in 1..n PROVE g[i] = ReachedVia(g, i)
    <3>1. i \in DOMAIN records
      BY <1>1
    <3>2. \A j \in 1..(i - 1) : f[j] = g[j]
      BY <1>1, <2>3
    <3>3. ReachedVia(f, i) = ReachedVia(g, i)
      BY <3>1, <3>2, ReachedViaAgrees
    <3> QED
      BY <2>2, <3>3
  <2>5. ReachedUpTo(g, n)
    BY <2>4 DEF ReachedUpTo
  <2> QED
    BY <2>5
<1>4. \A n \in 0..N : n \in S
  <2> HIDE DEF S
  <2> QED
    BY <1>1, <1>2, <1>3, HandedOn
<1> QED
  BY <1>1, <1>4 DEF N

\* RestsOn is what its definition says.
LEMMA RestsOnSolves ==
    ASSUME ActionsInv PROVE ReachedUpTo(RestsOn, Len(records))
<1> DEFINE Function(f) == [i \in DOMAIN records |-> ReachedVia(f, i)]
           reached == CHOOSE f : f = Function(f)
<1>1. Len(records) \in Nat /\ DOMAIN records = 1..Len(records)
  BY DEF ActionsInv
<1>2. PICK f : ReachedUpTo(f, Len(records))
  BY ReachedExists
<1> DEFINE g == Function(f)
<1>3. \A i \in DOMAIN records : g[i] = f[i]
  BY <1>1, <1>2 DEF ReachedUpTo
<1>4. \A i \in DOMAIN records : ReachedVia(f, i) = ReachedVia(g, i)
  <2> SUFFICES ASSUME NEW i \in DOMAIN records PROVE ReachedVia(f, i) = ReachedVia(g, i)
    OBVIOUS
  <2> HIDE DEF g
  <2>1. \A j \in 1..(i - 1) : f[j] = g[j]
    BY <1>1, <1>3
  <2> QED
    BY <2>1, ReachedViaAgrees
<1>5. g = Function(g)
  <2> HIDE DEF g
  <2> QED
    BY <1>4 DEF g
<1>6. reached = Function(reached)
  <2> HIDE DEF Function, g
  <2> QED
    BY <1>5
<1>7. RestsOn = reached
  BY DEF RestsOn, ReachedVia, Onward, NamesOf
<1>8. ReachedUpTo(reached, Len(records))
  <2> HIDE DEF reached
  <2> QED
    BY <1>1, <1>6 DEF ReachedUpTo
<1> QED
  BY <1>7, <1>8

\* Of a record that protects, no reference to its grounds is left open.
LEMMA GroundsAreMine ==
    ASSUME ActionsInv, NEW i \in DOMAIN records, records[i].kind \in Protecting,
           NEW n \in NamesOf(i)
    PROVE  n.tenant = Mine
<1>1. OpenLinks(records[i].kind) \cap Grounds = {}
  BY DEF OpenLinks, Grounds, Protecting
<1>2. TenantBound(records[i]) /\ records[i].tenant = Mine
  BY DEF ActionsInv
<1> QED
  BY <1>1, <1>2 DEF TenantBound, NamesOf

LEMMA InvGroundedAtHome == ActionsInv => GroundedAtHome
<1> SUFFICES ASSUME ActionsInv PROVE GroundedAtHome
  OBVIOUS
<1> DEFINE Leaves(i) == records[i].kind \in Protecting /\ \E n \in RestsOn[i] : n.tenant # Mine
           T == {i \in DOMAIN records : Leaves(i)}
<1>1. Len(records) \in Nat /\ DOMAIN records = 1..Len(records)
  BY DEF ActionsInv
<1>2. T = {}
  <2> SUFFICES ASSUME T # {} PROVE FALSE
    OBVIOUS
  <2>1. PICK i \in T : \A j \in T : i <= j
    <3>1. T \subseteq Nat
      BY <1>1
    <3> HIDE DEF T
    <3> QED
      BY <3>1, LeastNatural
  <2>2. /\ i \in DOMAIN records /\ records[i].kind \in Protecting
        /\ \E n \in RestsOn[i] : n.tenant # Mine
    OBVIOUS
  <2>3. PICK n \in RestsOn[i] : n.tenant # Mine
    BY <2>2
  <2>4. RestsOn[i] = ReachedVia(RestsOn, i)
    BY <1>1, <2>2, RestsOnSolves DEF ReachedUpTo
  <2>5. n \notin NamesOf(i)
    BY <2>2, <2>3, GroundsAreMine
  <2>6. PICK m \in Onward(i) : n \in RestsOn[m.place]
    BY <2>3, <2>4, <2>5 DEF ReachedVia
  <2>7. m.place \in 1..(i - 1) /\ records[m.place].kind = m.kind
    BY <2>2, OnwardIsDown
  <2>8. records[m.place].kind \in Protecting
    BY <2>7 DEF Onward
  <2>9. m.place \in T
    BY <1>1, <2>2, <2>3, <2>6, <2>7, <2>8
  <2> HIDE DEF T
  <2> QED
    BY <1>1, <2>1, <2>2, <2>7, <2>9
<1>3. \A i \in DOMAIN records : records[i].tenant = Mine
  BY DEF ActionsInv
<1> QED
  BY <1>2, <1>3 DEF GroundedAtHome

-----------------------------------------------------------------------------
(* The composition *)

\* The store implements the file of advancement records: what it does besides
\* leaves that file alone.
THEOREM StoreFilesAdvancement == Spec => AdvSpec
<1>1. Init => AdvInit
  BY DEF Init
<1>2. [Next]_recordVars => [AdvNext]_filed
  BY DEF Next, recordVars
<1> QED
  BY <1>1, <1>2, PTL DEF Spec, AdvSpec

LEMMA StoreItemInv == Spec => []ItemInv
<1>1. Init => ItemInv
  BY NothingYet DEF Init, ItemInit
<1>2. ItemInv /\ [Next]_recordVars => ItemInv'
  <2>1. [Next]_recordVars => [ItemNext]_itemVars
    BY DEF Next, recordVars, itemVars
  <2> QED
    BY <2>1, NextItemInv
<1> QED
  BY <1>1, <1>2, PTL DEF Spec

\* No permit is issued or consumed for a draft that is frozen for good: a
\* permit is for a stream of the table, and the table has none of these.
THEOREM FrozenStaysFrozen == Spec => []FrozenNeverAdvance
BY StoreFilesAdvancement, AdvancementFrozen, PTL

\* The reviewer, the issuer of the permit and the recorders of the gate and
\* the artifact behind a consumption are four principals, assigned to four
\* domains, for every file.
THEOREM FourHandsAlways == Spec => []FourHands
BY StoreFilesAdvancement, AdvancementFourHands, PTL

\* One decision on the review yields one permit for a stream, whatever gates
\* there are and in whatever order it is asked for.
THEOREM OnePermitAlways == Spec => []OnePermitPerReview
BY StoreFilesAdvancement, AdvancementOnePermit, PTL

\* No item is claimed by two decisions that both say what the live modules
\* say, for any modules, edits, citations and decisions.
THEOREM ItemsDecidedOnce == Spec => []OneDecisionPerItem
BY StoreItemInv, InvOneDecisionPerItem, PTL

\* A decision that a version of the third form cites, and that matches it,
\* selected every item of it.
THEOREM VersionsDecidedWhole == Spec => []WholeOrNothing
BY StoreItemInv, InvWholeOrNothing, PTL

LEMMA StoreActionsInv == Spec => []ActionsInv
<1>1. Init => ActionsInv
  BY DEF Init, ActionsInv
<1>2. ActionsInv /\ [Next]_recordVars => ActionsInv'
  <2>1. [Next]_recordVars => [FileRecord]_records
    BY DEF Next, recordVars
  <2> QED
    BY <2>1, NextActionsInv
<1> QED
  BY <1>1, <1>2, PTL DEF Spec

\* What a protected execution rests on is of its tenant, however long the file
\* and the chain.
THEOREM GroundsStayAtHome == Spec => []GroundedAtHome
BY StoreActionsInv, InvGroundedAtHome, PTL
=============================================================================
