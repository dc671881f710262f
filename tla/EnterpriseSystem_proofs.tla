----------------------- MODULE EnterpriseSystem_proofs -----------------------
(***************************************************************************)
(* Proofs about the enterprise and the host that projects it, for any      *)
(* worlds: any versions, intents and environments, any length of run.      *)
(*                                                                         *)
(* What is retained, projected and filed comes with the invariants of the  *)
(* catalog and of the host.  Then the walk: its equation has a solution,   *)
(* what is wrong with a visit only if it is wrong with a visit below is    *)
(* wrong with none, and so all that is selected is fit to be.  Then the    *)
(* closure told without the walk, and that the walk finds just that.  Last *)
(* what a later catalog can tell of the past.                              *)
(***************************************************************************)
EXTENDS EnterpriseSystem, ControlEvaluation_proofs, FiniteSetTheorems, TLAPS

-----------------------------------------------------------------------------
(* Approvals and receipts *)

\* What a projected record says of what it was made of.
LEMMA ProjectedApproval ==
    ASSUME NEW a, NEW k, NEW p, ProjectApproval(a, k, p) # None
    PROVE  LET f == ProjectApproval(a, k, p)
           IN  /\ Bound(a, k, p) /\ f.source = a /\ f.decision = k /\ f.intent = p
               /\ "status" \notin DOMAIN f
BY DEF ProjectApproval

LEMMA ProjectedReceipt ==
    ASSUME NEW r, NEW k, NEW p, NEW missing, ProjectReceipt(r, k, p, missing) # None
    PROVE  LET f == ProjectReceipt(r, k, p, missing)
           IN  /\ Bound(r, k, p) /\ f.source = r /\ f.decision = k /\ f.intent = p
               /\ f.status = "complete" => f.execution = "succeeded" /\ f.missing = {}
<1> DEFINE status == ReceiptStatuses[r.assurance]
           route == IF r.route = None THEN None ELSE ProjectRoute(r.route)
           f == [decision |-> k, intent |-> p, route |-> route, execution |-> r.execution,
                 status |-> status, outcome |-> OutcomeOf(status), missing |-> missing,
                 verified |-> r.evidence, source |-> r]
<1>1. /\ Bound(r, k, p) /\ ProjectReceipt(r, k, p, missing) = f
      /\ status = "complete" => r.execution = "succeeded" /\ missing = {}
  BY DEF ProjectReceipt
<1> HIDE DEF status, route
<1> QED
  BY <1>1

\* What is filed under a retained decision is about the enterprise decision that
\* one was made of (mapping.py, project_approval and project_receipt).
THEOREM RecordsAnswer == Spec => []RecordsAnswerTheirDecision
<1>1. Init => RecordsAnswerTheirDecision
  BY DEF Init, RecordsAnswerTheirDecision
<1>2. RecordsAnswerTheirDecision /\ [Next]_vars => RecordsAnswerTheirDecision'
  <2> SUFFICES ASSUME RecordsAnswerTheirDecision, [Next]_vars
               PROVE  RecordsAnswerTheirDecision'
    OBVIOUS
  <2>1. ASSUME filed' = filed, decisions \subseteq decisions'
        PROVE  RecordsAnswerTheirDecision'
    BY <2>1 DEF RecordsAnswerTheirDecision
  <2>2. ASSUME NEW d \in decisions, NEW k, NEW outcome, FileApproval(d, k, outcome)
        PROVE  RecordsAnswerTheirDecision'
    <3> DEFINE a == ApprovalOf(d, outcome)
               f == ProjectApproval(a, k, ProjectIntent(d.intent))
    <3>1. f # None /\ filed' = filed \cup {f} /\ decisions' = decisions
      BY <2>2 DEF FileApproval, File
    <3>2. /\ a.decision = d /\ a.intent = d.intent
      BY DEF ApprovalOf
    <3>3. /\ Bound(a, k, ProjectIntent(d.intent)) /\ f.source = a /\ f.decision = k
          /\ f.intent = ProjectIntent(d.intent) /\ "status" \notin DOMAIN f
      BY <3>1, ProjectedApproval
    <3> HIDE DEF a, f
    <3> QED
      BY <3>1, <3>2, <3>3 DEF RecordsAnswerTheirDecision, Bound
  <2>3. ASSUME NEW d \in decisions, NEW k, NEW execution, NEW route, NEW missing,
               FileReceipt(d, k, execution, route, missing)
        PROVE  RecordsAnswerTheirDecision'
    <3> DEFINE r == ReceiptOf(d, execution, route)
               f == ProjectReceipt(r, k, ProjectIntent(d.intent), missing)
    <3>1. f # None /\ filed' = filed \cup {f} /\ decisions' = decisions
      BY <2>3 DEF FileReceipt, File
    <3>2. /\ r.decision = d /\ r.intent = d.intent
      BY DEF ReceiptOf
    <3>3. /\ Bound(r, k, ProjectIntent(d.intent)) /\ f.source = r /\ f.decision = k
          /\ f.intent = ProjectIntent(d.intent)
          /\ f.status = "complete" => f.execution = "succeeded" /\ f.missing = {}
      BY <3>1, ProjectedReceipt
    <3> HIDE DEF r, f
    <3> QED
      BY <3>1, <3>2, <3>3 DEF RecordsAnswerTheirDecision, Bound
  <2> QED
    BY <2>1, <2>2, <2>3
    DEF Next, vars, Tick, Release, Record, Damage, EnterpriseDecide, Project, Retain, EditCase
<1> QED
  BY <1>1, <1>2, PTL DEF Spec

-----------------------------------------------------------------------------
(* The catalog *)

EventFields ==
    {"id", "hash", "tenant", "spec", "content", "sequence", "prior", "prior_state",
     "next_state", "at", "effective"}

IsEvent(e) == e = [field \in EventFields |-> e[field]]

InTime(e) == e.at \in Nat /\ e.at <= clock /\ (e.effective # None => e.effective \in Nat)

WorldInv ==
    /\ world \in Worlds /\ clock \in Nat /\ damaged \in Nat
    /\ DOMAIN catalog = {"versions", "events"}
    /\ catalog.versions \subseteq world.versions

\* Whatever is done to the events, none of them follows a retirement.
EventsInv ==
    \A e \in catalog.events :
        /\ IsEvent(e) /\ InTime(e)
        /\ e.id \in Nat /\ e.sequence \in Nat \ {0} /\ e.prior_state # "retired"
        /\ \E v \in catalog.versions : e.spec = SpecRef(v) /\ e.tenant = v.tenant

DistinctInv ==
    \A e, f \in catalog.events : e.spec.id = f.spec.id /\ e.sequence = f.sequence => e = f

LengthInv == \E n \in Nat : \A e \in catalog.events : e.sequence <= n

\* While no event was touched, the states follow one another.
OrderInv ==
    damaged = 0 => \A e \in catalog.events : Predecessor[e.next_state] = e.prior_state

CatalogInv == WorldInv /\ EventsInv /\ DistinctInv /\ LengthInv /\ OrderInv

\* The last event of some is one of them.
LEMMA LastIsOne ==
    ASSUME NEW chain, chain # {}, NEW n \in Nat,
           \A e \in chain : e.sequence \in Nat /\ e.sequence <= n,
           \A e, f \in chain : e.sequence = f.sequence => e = f
    PROVE  /\ LastOf(chain) \in chain
           /\ \A f \in chain : f = LastOf(chain) \/ f.sequence < LastOf(chain).sequence
<1> DEFINE left == {n - e.sequence : e \in chain}
<1>1. left \subseteq Nat /\ left # {}
  OBVIOUS
<1>2. PICK least \in left : \A k \in left : least <= k
  <2> HIDE DEF left
  <2> QED
    BY <1>1, LeastNatural
<1>3. PICK e \in chain : least = n - e.sequence
  OBVIOUS
<1>4. ASSUME NEW f \in chain PROVE f.sequence <= e.sequence
  <2>1. n - f.sequence \in left /\ e.sequence \in Nat /\ f.sequence \in Nat
    OBVIOUS
  <2> HIDE DEF left
  <2>2. n - e.sequence <= n - f.sequence
    BY <1>2, <1>3, <2>1
  <2> QED
    BY <2>1, <2>2
<1>5. \A f \in chain : f = e \/ Before(f, e)
  BY <1>4 DEF Before
<1>6. /\ LastOf(chain) \in chain
      /\ \A f \in chain : f = LastOf(chain) \/ Before(f, LastOf(chain))
  BY <1>5 DEF LastOf
<1> QED
  BY <1>6 DEF Before

LEMMA LastIs ==
    ASSUME NEW chain, \A e \in chain : e.sequence \in Nat,
           \A e, f \in chain : e.sequence = f.sequence => e = f,
           NEW e \in chain, \A f \in chain : f = e \/ f.sequence < e.sequence
    PROVE  LastOf(chain) = e
<1>1. e.sequence \in Nat /\ \A f \in chain : f.sequence \in Nat /\ f.sequence <= e.sequence
  OBVIOUS
<1>2. /\ LastOf(chain) \in chain
      /\ e = LastOf(chain) \/ e.sequence < LastOf(chain).sequence
  BY <1>1, LastIsOne
<1> QED
  BY <1>1, <1>2

\* Sealing changes the hash of an event, and makes it that of its content.
LEMMA Sealed ==
    ASSUME NEW e, DOMAIN e \cup {"hash"} = EventFields
    PROVE  /\ IsEvent(Seal(e)) /\ Seal(e).hash = ContentOf(Seal(e))
           /\ \A field \in EventFields \ {"hash"} : Seal(e)[field] = e[field]
<1>1. /\ Seal(e) = [field \in EventFields |-> IF field = "hash" THEN ContentOf(e) ELSE e[field]]
      /\ DOMAIN Seal(e) \ {"hash"} = DOMAIN e \ {"hash"}
  BY DEF Seal
<1>2. /\ \A field \in EventFields \ {"hash"} : Seal(e)[field] = e[field]
      /\ "hash" \in EventFields /\ Seal(e)["hash"] = ContentOf(e)
  BY <1>1 DEF EventFields
<1>3. ContentOf(Seal(e)) = ContentOf(e)
  BY <1>1, <1>2 DEF ContentOf
<1>4. IsEvent(Seal(e))
  BY <1>1 DEF IsEvent
<1> QED
  BY <1>2, <1>3, <1>4

LEMMA EventShape ==
    ASSUME NEW spec, NEW sequence, NEW prior, NEW state, NEW next, NEW effective
    PROVE  LET e == Event(spec, sequence, prior, state, next, effective)
           IN  /\ IsEvent(e) /\ e.sequence = sequence /\ e.prior_state = state
               /\ e.next_state = next /\ e.at = clock /\ e.effective = effective
               /\ e.spec = SpecRef(spec) /\ e.tenant = spec.tenant /\ e.content = spec.hash
               /\ e.id = 10 * spec.id + sequence /\ e.prior = prior /\ e.hash = ContentOf(e)
<1> DEFINE content ==
              [id |-> 10 * spec.id + sequence, tenant |-> spec.tenant,
               spec |-> SpecRef(spec), content |-> spec.hash, sequence |-> sequence,
               prior |-> prior, prior_state |-> state, next_state |-> next,
               at |-> clock, effective |-> effective]
           e == Seal(content)
<1>1. DOMAIN content \cup {"hash"} = EventFields
  BY DEF EventFields
<1>2. /\ content.sequence = sequence /\ content.prior_state = state
      /\ content.next_state = next /\ content.at = clock /\ content.effective = effective
      /\ content.spec = SpecRef(spec) /\ content.tenant = spec.tenant
      /\ content.content = spec.hash
      /\ content.id = 10 * spec.id + sequence /\ content.prior = prior
  OBVIOUS
<1>3. Event(spec, sequence, prior, state, next, effective) = e
  BY DEF Event
<1> HIDE DEF content
<1>4. /\ IsEvent(e) /\ e.hash = ContentOf(e)
      /\ \A field \in EventFields \ {"hash"} : e[field] = content[field]
  BY <1>1, Sealed
<1> HIDE DEF e
<1> QED
  BY <1>2, <1>3, <1>4 DEF EventFields

\* What a new event is, apart from its place in the chain.
Recent(e, spec) ==
    /\ IsEvent(e) /\ InTime(e) /\ e.at = clock /\ (e.effective # None => clock <= e.effective)
    /\ e.id \in Nat /\ e.sequence \in Nat \ {0}
    /\ Predecessor[e.next_state] = e.prior_state /\ e.prior_state # "retired"
    /\ e.spec = SpecRef(spec) /\ e.tenant = spec.tenant /\ e.content = spec.hash
    /\ e.hash = ContentOf(e)

LEMMA ApprovedEvents ==
    ASSUME NEW spec, spec.id \in Nat, clock \in Nat
    PROVE  /\ \A e \in Approved(spec) : Recent(e, spec) /\ e.sequence <= 3
           /\ \A e, f \in Approved(spec) : e.sequence = f.sequence => e = f
<1> DEFINE first == Event(spec, 1, None, None, "draft", None)
           second == NextEvent(spec, first, "reviewed", None)
           third == NextEvent(spec, second, "approved", None)
<1>1. Approved(spec) = {first, second, third}
  BY DEF Approved
<1>2. /\ IsEvent(first) /\ first.sequence = 1 /\ first.prior_state = None
      /\ first.next_state = "draft" /\ first.at = clock /\ first.effective = None
      /\ first.spec = SpecRef(spec) /\ first.tenant = spec.tenant /\ first.content = spec.hash
      /\ first.id = 10 * spec.id + 1 /\ first.hash = ContentOf(first)
  BY EventShape
<1> HIDE DEF first
<1>3. /\ IsEvent(second) /\ second.sequence = 2 /\ second.prior_state = "draft"
      /\ second.next_state = "reviewed" /\ second.at = clock /\ second.effective = None
      /\ second.spec = SpecRef(spec) /\ second.tenant = spec.tenant
      /\ second.content = spec.hash
      /\ second.id = 10 * spec.id + 2 /\ second.hash = ContentOf(second)
  BY <1>2, EventShape DEF NextEvent
<1> HIDE DEF second
<1>4. /\ IsEvent(third) /\ third.sequence = 3 /\ third.prior_state = "reviewed"
      /\ third.next_state = "approved" /\ third.at = clock /\ third.effective = None
      /\ third.spec = SpecRef(spec) /\ third.tenant = spec.tenant
      /\ third.content = spec.hash
      /\ third.id = 10 * spec.id + 3 /\ third.hash = ContentOf(third)
  BY <1>3, EventShape DEF NextEvent
<1> HIDE DEF third
<1>5. /\ Predecessor["draft"] = None /\ Predecessor["reviewed"] = "draft"
      /\ Predecessor["approved"] = "reviewed" /\ None # "retired"
  BY StatesAssumption DEF Predecessor
<1>6. Recent(first, spec)
  BY <1>2, <1>5 DEF Recent, InTime
<1>7. Recent(second, spec)
  BY <1>3, <1>5 DEF Recent, InTime
<1>8. Recent(third, spec)
  BY <1>4, <1>5 DEF Recent, InTime
<1> QED
  BY <1>1, <1>2, <1>3, <1>4, <1>6, <1>7, <1>8

\* In one world a number names one version.
LEMMA OneVersion ==
    ASSUME WorldInv, NEW v \in world.versions, NEW u \in world.versions, u.id = v.id
    PROVE  u = v
BY EnterpriseAssumption DEF WorldInv

\* What an alteration of an event keeps, and where it may put it.
Altered(e, f) ==
    /\ IsEvent(f) /\ f # e
    /\ f.id = e.id /\ f.tenant = e.tenant /\ f.spec = e.spec
    /\ f.prior_state = e.prior_state /\ f.at = e.at
    /\ f.sequence \in Nat \ {0} /\ f.sequence <= e.sequence + 6
    /\ f.effective # None => f.effective \in Nat
    /\ f.sequence = e.sequence \/
          \A g \in Relevant(e.spec, catalog.events) : g.sequence # f.sequence

\* An event with another value in one field.
Changed(e, name, value) == [field \in EventFields |-> IF field = name THEN value ELSE e[field]]

LEMMA OneField ==
    ASSUME NEW e, NEW name \in EventFields, NEW value
    PROVE  /\ IsEvent(Changed(e, name, value)) /\ Changed(e, name, value)[name] = value
           /\ \A field \in EventFields \ {name} : Changed(e, name, value)[field] = e[field]
<1> DEFINE new == Changed(e, name, value)
<1>1. DOMAIN new = EventFields /\ new = [field \in DOMAIN new |-> new[field]]
  BY DEF Changed
<1>2. /\ new[name] = value
      /\ \A field \in EventFields \ {name} : new[field] = e[field]
  BY DEF Changed
<1> HIDE DEF new
<1>3. IsEvent(new)
  BY <1>1, Zenon DEF IsEvent
<1> QED
  BY <1>2, <1>3 DEF new

LEMMA AlteredEvent ==
    ASSUME CatalogInv, NEW e \in catalog.events, NEW f \in Alterations(e)
    PROVE  Altered(e, f)
<1> DEFINE places == 1..6 \ {g.sequence : g \in Relevant(e.spec, catalog.events)}
           altered == {[e EXCEPT !.next_state = s] : s \in DOMAIN Predecessor}
                        \cup {[e EXCEPT !.effective = t] : t \in {None} \cup 0..world.max_time}
                        \cup {[e EXCEPT !.sequence = n] : n \in places}
           Like(g) == /\ g.id = e.id /\ g.tenant = e.tenant /\ g.spec = e.spec
                      /\ g.prior_state = e.prior_state /\ g.at = e.at
                      /\ g.sequence \in Nat \ {0} /\ g.sequence <= e.sequence + 6
                      /\ g.effective # None => g.effective \in Nat
                      /\ g.sequence = e.sequence \/
                            \A h \in Relevant(e.spec, catalog.events) : h.sequence # g.sequence
<1>1. /\ IsEvent(e) /\ e.sequence \in Nat \ {0}
      /\ e.effective # None => e.effective \in Nat
  BY DEF CatalogInv, EventsInv, InTime
<1>2. /\ IsEvent(e)
      /\ {"next_state", "effective", "sequence"} \subseteq EventFields
      /\ {"id", "tenant", "spec", "prior_state", "at", "sequence"} \subseteq
            EventFields \ {"next_state", "effective"}
      /\ {"id", "tenant", "spec", "prior_state", "at", "effective"} \subseteq
            EventFields \ {"sequence"}
      /\ "effective" \in EventFields \ {"next_state"}
  BY <1>1 DEF EventFields
<1>3. DOMAIN e = EventFields
  <2>1. DOMAIN [field \in EventFields |-> e[field]] = EventFields
    OBVIOUS
  <2> QED
    BY <1>1, <2>1, Zenon DEF IsEvent
<1>4. ASSUME NEW g \in altered PROVE IsEvent(g) /\ Like(g)
  <2>1. CASE g \in {[e EXCEPT !.next_state = s] : s \in DOMAIN Predecessor}
    <3>1. PICK s : g = [e EXCEPT !["next_state"] = s]
      BY <2>1
    <3>2. "next_state" \in EventFields
      BY <1>2
    <3>3. g = Changed(e, "next_state", s)
      BY <1>3, <3>1 DEF Changed
    <3>4. IsEvent(g) /\ \A field \in EventFields \ {"next_state"} : g[field] = e[field]
      BY <3>2, <3>3, OneField
    <3>5. /\ g.id = e.id /\ g.tenant = e.tenant /\ g.spec = e.spec /\ g.effective = e.effective
          /\ g.prior_state = e.prior_state /\ g.at = e.at /\ g.sequence = e.sequence
      BY <1>2, <3>4
    <3> QED
      BY <1>1, <3>4, <3>5
  <2>2. CASE g \in {[e EXCEPT !.effective = t] : t \in {None} \cup 0..world.max_time}
    <3>1. PICK t \in {None} \cup 0..world.max_time : g = [e EXCEPT !["effective"] = t]
      BY <2>2
    <3>2. "effective" \in EventFields
      BY <1>2
    <3>3. g = Changed(e, "effective", t)
      BY <1>3, <3>1 DEF Changed
    <3>4. /\ IsEvent(g) /\ g["effective"] = t
          /\ \A field \in EventFields \ {"effective"} : g[field] = e[field]
      BY <3>2, <3>3, OneField
    <3>5. /\ g.id = e.id /\ g.tenant = e.tenant /\ g.spec = e.spec
          /\ g.prior_state = e.prior_state /\ g.at = e.at /\ g.sequence = e.sequence
      BY <1>2, <3>4
    <3>6. g.effective # None => g.effective \in Nat
      BY <3>1, <3>4
    <3> QED
      BY <1>1, <3>4, <3>5, <3>6
  <2>3. CASE g \in {[e EXCEPT !.sequence = n] : n \in places}
    <3>1. PICK n \in places : g = [e EXCEPT !["sequence"] = n]
      BY <2>3
    <3>2. n \in 1..6 /\ \A h \in Relevant(e.spec, catalog.events) : h.sequence # n
      OBVIOUS
    <3> HIDE DEF places
    <3>3. "sequence" \in EventFields
      BY <1>2
    <3>4. g = Changed(e, "sequence", n)
      BY <1>3, <3>1 DEF Changed
    <3>5. /\ IsEvent(g) /\ g["sequence"] = n
          /\ \A field \in EventFields \ {"sequence"} : g[field] = e[field]
      BY <3>3, <3>4, OneField
    <3>6. /\ g.id = e.id /\ g.tenant = e.tenant /\ g.spec = e.spec
          /\ g.prior_state = e.prior_state /\ g.at = e.at /\ g.effective = e.effective
      BY <1>2, <3>5
    <3>7. g.sequence \in Nat \ {0} /\ g.sequence <= e.sequence + 6
      BY <1>1, <3>2, <3>5
    <3> QED
      BY <1>1, <3>2, <3>5, <3>6, <3>7
  <2> QED
    BY <2>1, <2>2, <2>3
<1>5. ASSUME NEW g \in altered PROVE IsEvent(Seal(g)) /\ Like(Seal(g))
  <2>1. IsEvent(g) /\ Like(g)
    BY <1>4
  <2> HIDE DEF altered
  <2>2. DOMAIN g \cup {"hash"} = EventFields
    BY <2>1 DEF IsEvent, EventFields
  <2>3. IsEvent(Seal(g)) /\ \A field \in EventFields \ {"hash"} : Seal(g)[field] = g[field]
    BY <2>2, Sealed
  <2>4. /\ Seal(g).id = g.id /\ Seal(g).tenant = g.tenant /\ Seal(g).spec = g.spec
        /\ Seal(g).prior_state = g.prior_state /\ Seal(g).at = g.at
        /\ Seal(g).sequence = g.sequence /\ Seal(g).effective = g.effective
    BY <2>3 DEF EventFields
  <2> QED
    BY <2>1, <2>3, <2>4
<1>6. f # e /\ (f \in altered \/ \E g \in altered : f = Seal(g))
  BY DEF Alterations
<1> HIDE DEF altered, Like
<1>7. IsEvent(f) /\ Like(f)
  BY <1>4, <1>5, <1>6
<1> QED
  BY <1>6, <1>7 DEF Altered, Like

\* What the record of an event does to the catalog.
RecordedAfter(spec, new, last) ==
    /\ UNCHANGED <<world, clock, damaged>> /\ catalog'.versions = catalog.versions
    /\ catalog'.events = catalog.events \cup {new} /\ Recent(new, spec)
    /\ last \in Relevant(spec, catalog.events) /\ new.sequence = last.sequence + 1
    /\ new.prior = EventRef(last) /\ new.prior_state = last.next_state
    /\ \A f \in Relevant(spec, catalog.events) : f = last \/ f.sequence < last.sequence

LEMMA Recorded ==
    ASSUME CatalogInv,
           NEW spec \in catalog.versions, NEW next \in {"published", "retired"},
           NEW delay \in world.delays, Record(spec, next, IF delay = 0 THEN None ELSE clock + delay)
    PROVE  \E new, last : RecordedAfter(spec, new, last)
<1> USE DEF CatalogInv
<1> DEFINE chain == Relevant(spec, catalog.events)
           last == LastOf(chain)
           effective == IF delay = 0 THEN None ELSE clock + delay
           new == NextEvent(spec, last, next, effective)
<1>1. /\ UNCHANGED <<world, clock, damaged>> /\ catalog'.versions = catalog.versions
      /\ catalog'.events = catalog.events \cup {new}
      /\ chain # {} /\ Predecessor[next] = last.next_state
  <2>1. catalog' = [catalog EXCEPT !.events = @ \cup {new}]
    BY DEF Record
  <2> QED
    BY <2>1 DEF Record, WorldInv
<1>2. /\ IsEvent(new) /\ new.sequence = last.sequence + 1
      /\ new.prior_state = last.next_state /\ new.next_state = next
      /\ new.at = clock /\ new.effective = effective
      /\ new.spec = SpecRef(spec) /\ new.tenant = spec.tenant /\ new.content = spec.hash
      /\ new.id = 10 * spec.id + (last.sequence + 1) /\ new.prior = EventRef(last)
      /\ new.hash = ContentOf(new)
  BY EventShape DEF NextEvent
<1>3. /\ last \in chain /\ last.sequence \in Nat \ {0}
      /\ \A f \in chain : f = last \/ f.sequence < last.sequence
  <2>1. PICK n \in Nat : \A e \in catalog.events : e.sequence <= n
    BY DEF LengthInv
  <2>2. /\ \A e \in chain : e.sequence \in Nat /\ e.sequence <= n
        /\ \A e, f \in chain : e.sequence = f.sequence => e = f
    BY <2>1 DEF DistinctInv, EventsInv, Relevant
  <2>3. last \in chain /\ \A f \in chain : f = last \/ f.sequence < last.sequence
    BY <1>1, <2>2, LastIsOne
  <2>4. \A e \in chain : e.sequence \in Nat \ {0}
    BY DEF EventsInv, Relevant
  <2> HIDE DEF last, chain
  <2> QED
    BY <2>3, <2>4
<1> HIDE DEF new, last
<1>4. InTime(new) /\ (new.effective # None => clock <= new.effective)
  <2>1. world.delays \subseteq Nat
    BY EnterpriseAssumption DEF WorldInv
  <2> QED
    BY <1>2, <2>1 DEF InTime, WorldInv
<1>5. new.id \in Nat /\ new.sequence \in Nat \ {0}
  <2>1. spec.id \in Nat
    BY EnterpriseAssumption DEF WorldInv
  <2> QED
    BY <1>2, <1>3, <2>1
<1>6. Predecessor[new.next_state] = new.prior_state /\ new.prior_state # "retired"
  BY <1>1, <1>2 DEF Predecessor
<1>7. Recent(new, spec)
  BY <1>2, <1>4, <1>5, <1>6 DEF Recent
<1> QED
  BY <1>1, <1>2, <1>3, <1>7 DEF RecordedAfter

LEMMA CatalogInitially == Init => CatalogInv
BY DEF Init, CatalogInv, WorldInv, EventsInv, DistinctInv, LengthInv, OrderInv

LEMMA CatalogStep == CatalogInv /\ [Next]_vars => CatalogInv'
<1> SUFFICES ASSUME CatalogInv, [Next]_vars PROVE CatalogInv'
  OBVIOUS
<1> USE DEF CatalogInv
<1>1. ASSUME UNCHANGED <<world, clock, catalog, damaged>> PROVE CatalogInv'
  BY <1>1 DEF WorldInv, EventsInv, DistinctInv, LengthInv, OrderInv, InTime
<1>2. ASSUME Tick PROVE CatalogInv'
  <2>1. WorldInv'
    BY <1>2 DEF Tick, WorldInv
  <2>2. ASSUME NEW e, InTime(e) PROVE InTime(e)'
    BY <1>2, <2>2 DEF Tick, InTime, WorldInv
  <2> QED
    BY <1>2, <2>1, <2>2 DEF Tick, EventsInv, DistinctInv, LengthInv, OrderInv
<1>3. ASSUME NEW spec \in world.versions, Release(spec) PROVE CatalogInv'
  <2>1. /\ UNCHANGED <<world, clock, damaged>> /\ spec \notin catalog.versions
        /\ catalog'.versions = catalog.versions \cup {spec}
        /\ catalog'.events = catalog.events \cup Approved(spec)
    BY <1>3 DEF Release
  <2>2. /\ \A e \in Approved(spec) : Recent(e, spec) /\ e.sequence <= 3
        /\ \A e, f \in Approved(spec) : e.sequence = f.sequence => e = f
    BY ApprovedEvents, EnterpriseAssumption DEF WorldInv
  <2>3. ASSUME NEW e \in catalog.events, e.spec.id = spec.id PROVE FALSE
    <3>1. PICK v \in catalog.versions : e.spec = SpecRef(v)
      BY DEF EventsInv
    <3>2. v \in world.versions /\ v.id = spec.id
      BY <2>3, <3>1 DEF WorldInv, SpecRef
    <3> QED
      BY <2>1, <3>2, OneVersion
  <2>4. \A e : InTime(e)' <=> InTime(e)
    BY <2>1 DEF InTime
  <2>5. WorldInv'
    BY <1>3, <2>1 DEF WorldInv, Release
  <2>6. EventsInv'
    BY <2>1, <2>2, <2>4 DEF EventsInv, Recent
  <2>7. DistinctInv'
    BY <2>1, <2>2, <2>3 DEF DistinctInv, SpecRef, Recent
  <2>8. LengthInv'
    <3>1. PICK n \in Nat : \A e \in catalog.events : e.sequence <= n
      BY DEF LengthInv
    <3>2. \A e \in catalog'.events : e.sequence <= n + 3
      BY <2>1, <2>2, <3>1 DEF EventsInv, Recent
    <3> QED
      BY <3>2 DEF LengthInv
  <2>9. OrderInv'
    BY <2>1, <2>2 DEF OrderInv, Recent
  <2> QED
    BY <2>5, <2>6, <2>7, <2>8, <2>9
<1>4. ASSUME NEW spec \in catalog.versions, NEW next \in {"published", "retired"},
             NEW delay \in world.delays,
             Record(spec, next, IF delay = 0 THEN None ELSE clock + delay)
      PROVE  CatalogInv'
  <2>1. PICK new, last : RecordedAfter(spec, new, last)
    BY <1>4, Recorded
  <2>2. /\ UNCHANGED <<world, clock, damaged>> /\ catalog'.versions = catalog.versions
        /\ catalog'.events = catalog.events \cup {new} /\ Recent(new, spec)
    BY <2>1 DEF RecordedAfter
  <2>3. \A e : InTime(e)' <=> InTime(e)
    BY <2>2 DEF InTime
  <2>4. \A e \in catalog.events : e.spec.id = spec.id => e.sequence < new.sequence
    BY <2>1 DEF RecordedAfter, Relevant, EventsInv
  <2>5. WorldInv'
    BY <1>4, <2>2 DEF WorldInv, Record
  <2>6. EventsInv'
    BY <2>2, <2>3 DEF EventsInv, Recent
  <2>7. DistinctInv'
    BY <2>2, <2>4 DEF DistinctInv, SpecRef, EventsInv, Recent
  <2>8. LengthInv'
    <3>1. PICK n \in Nat : \A e \in catalog.events : e.sequence <= n
      BY DEF LengthInv
    <3>2. new.sequence \in Nat
      BY <2>2 DEF Recent
    <3> DEFINE m == n + new.sequence
    <3>3. m \in Nat /\ \A e \in catalog'.events : e.sequence <= m
      BY <2>2, <3>1, <3>2 DEF EventsInv
    <3> HIDE DEF m
    <3> QED
      BY <3>3 DEF LengthInv
  <2>9. OrderInv'
    BY <2>2 DEF OrderInv, Recent
  <2> QED
    BY <2>5, <2>6, <2>7, <2>8, <2>9
<1>5. ASSUME NEW e \in catalog.events, NEW left \in {{}} \cup {{f} : f \in Alterations(e)},
             Damage(e, left)
      PROVE  CatalogInv'
  <2>1. /\ UNCHANGED <<world, clock>> /\ catalog'.versions = catalog.versions
        /\ catalog'.events = (catalog.events \ {e}) \cup left /\ damaged' = damaged + 1
    BY <1>5 DEF Damage, WorldInv
  <2>2. \A f \in left : Altered(e, f)
    BY AlteredEvent
  <2>3. WorldInv'
    BY <1>5, <2>1 DEF WorldInv, Damage
  <2>4. EventsInv'
    <3>1. \A f : InTime(f)' <=> InTime(f)
      BY <2>1 DEF InTime
    <3>2. ASSUME NEW f \in left
          PROVE  /\ IsEvent(f) /\ InTime(f) /\ f.id \in Nat /\ f.sequence \in Nat \ {0}
                 /\ f.prior_state # "retired"
                 /\ \E v \in catalog.versions : f.spec = SpecRef(v) /\ f.tenant = v.tenant
      BY <2>2, <3>2 DEF Altered, EventsInv, InTime
    <3> QED
      BY <2>1, <3>1, <3>2 DEF EventsInv
  <2>5. DistinctInv'
    <3>1. ASSUME NEW f \in left, NEW g \in catalog.events, g # e, g.spec.id = f.spec.id,
                 g.sequence = f.sequence
          PROVE  FALSE
      <4>1. Altered(e, f)
        BY <2>2
      <4>2. g \in Relevant(e.spec, catalog.events)
        BY <3>1, <4>1 DEF Relevant, Altered
      <4>3. f.sequence = e.sequence /\ g.spec.id = e.spec.id
        BY <3>1, <4>1, <4>2 DEF Altered
      <4> QED
        BY <3>1, <4>3 DEF DistinctInv
    <3> QED
      BY <2>1, <3>1 DEF DistinctInv
  <2>6. LengthInv'
    <3>1. PICK n \in Nat : \A f \in catalog.events : f.sequence <= n
      BY DEF LengthInv
    <3> DEFINE m == n + 6
    <3>2. m \in Nat /\ \A f \in catalog'.events : f.sequence <= m
      BY <2>1, <2>2, <3>1 DEF EventsInv, Altered
    <3> HIDE DEF m
    <3> QED
      BY <3>2 DEF LengthInv
  <2>7. OrderInv'
    BY <2>1 DEF OrderInv, WorldInv
  <2> QED
    BY <2>3, <2>4, <2>5, <2>6, <2>7
<1> QED
  BY <1>1, <1>2, <1>3, <1>4, <1>5
  DEF Next, vars, EnterpriseDecide, Project, Retain, EditCase, File, FileApproval, FileReceipt

LEMMA CatalogInvariant == Spec => []CatalogInv
BY CatalogInitially, CatalogStep, PTL DEF Spec

-----------------------------------------------------------------------------
(* Chains of events *)

\* The events of a version, in an order, and each sealed and linked.
Orderly(chain) ==
    /\ \A e \in chain : IsEvent(e) /\ e.id \in Nat /\ e.sequence \in Nat \ {0}
    /\ \A e, f \in chain : e.sequence = f.sequence => e = f
LinkedChain(v, chain) == \A e \in chain : Linked(v, chain, e)

LEMMA ChainsAreOrderly ==
    ASSUME CatalogInv, NEW v
    PROVE  /\ Orderly(Relevant(v, catalog.events))
           /\ ChainIntact(v, catalog.events) <=> LinkedChain(v, Relevant(v, catalog.events))
BY DEF CatalogInv, EventsInv, DistinctInv, Orderly, Relevant, ChainIntact, LinkedChain

LEMMA BeforeIs ==
    ASSUME NEW chain, Orderly(chain), NEW e \in chain, NEW f \in chain
    PROVE  Before(e, f) <=> e.sequence < f.sequence
BY DEF Orderly, Before

\* What comes after an event in a chain names it and carries its state on.
LEMMA NextInChain ==
    ASSUME NEW v, NEW chain, Orderly(chain), LinkedChain(v, chain),
           NEW e \in chain, NEW h \in chain, e.sequence < h.sequence
    PROVE  \E g \in chain : /\ e.sequence < g.sequence /\ g.sequence <= h.sequence
                            /\ g.sequence # 1
                            /\ g.prior = EventRef(e) /\ g.prior_state = e.next_state
<1> DEFINE later == {f.sequence : f \in {g \in chain : e.sequence < g.sequence}}
<1>1. \A f \in chain : f.sequence \in Nat \ {0}
  BY DEF Orderly
<1>2. PICK least \in later : \A k \in later : least <= k
  <2>1. later \subseteq Nat /\ later # {}
    BY <1>1
  <2> HIDE DEF later
  <2> QED
    BY <2>1, LeastNatural
<1>3. PICK g \in chain : e.sequence < g.sequence /\ g.sequence = least
  OBVIOUS
<1>4. \A f \in chain : e.sequence < f.sequence => g.sequence <= f.sequence
  BY <1>2, <1>3
<1> HIDE DEF later
<1>5. /\ Before(e, g)
      /\ ~ \E f \in chain : Before(e, f) /\ Before(f, g)
  BY <1>1, <1>3, <1>4, BeforeIs
<1>6. g.prior = EventRef(e) /\ g.prior_state = e.next_state
  <2> DEFINE prior == {p \in chain : Before(p, g) /\ ~ \E q \in chain : Before(p, q) /\ Before(q, g)}
  <2>1. e \in prior
    BY <1>5
  <2>2. Linked(v, chain, g)
    BY DEF LinkedChain
  <2> QED
    BY <2>1, <2>2 DEF Linked
<1> QED
  BY <1>1, <1>3, <1>4, <1>6

\* An event of a chain that is not the first names one of it, which is sealed.
LEMMA NamedInChain ==
    ASSUME NEW v, NEW chain, LinkedChain(v, chain), NEW g \in chain, g.sequence # 1
    PROVE  \E p \in chain : g.prior = EventRef(p) /\ p.hash = ContentOf(p)
<1> DEFINE prior == {p \in chain : Before(p, g) /\ ~ \E q \in chain : Before(p, q) /\ Before(q, g)}
<1>1. Linked(v, chain, g)
  BY DEF LinkedChain
<1>2. PICK p \in prior : g.prior = EventRef(p)
  BY <1>1 DEF Linked
<1>3. p \in chain /\ Linked(v, chain, p)
  BY DEF LinkedChain
<1> QED
  BY <1>2, <1>3 DEF Linked

\* Two events with one hash that are sealed are one event.
LEMMA OneContent ==
    ASSUME NEW e, NEW f, IsEvent(e), IsEvent(f), EventRef(e) = EventRef(f),
           e.hash = ContentOf(e), f.hash = ContentOf(f)
    PROVE  e = f
<1>1. e.hash = f.hash /\ ContentOf(e) = ContentOf(f)
  BY DEF EventRef
<1>2. DOMAIN e = EventFields /\ DOMAIN f = EventFields
  BY DEF IsEvent
<1>3. ASSUME NEW field \in EventFields PROVE e[field] = f[field]
  <2>1. CASE field = "hash"
    BY <1>1, <2>1
  <2>2. CASE field # "hash"
    <3>1. ContentOf(e)[field] = e[field] /\ ContentOf(f)[field] = f[field]
      BY <1>2, <2>2 DEF ContentOf
    <3> QED
      BY <1>1, <3>1
  <2> QED
    BY <2>1, <2>2
<1>4. [field \in EventFields |-> e[field]] = [field \in EventFields |-> f[field]]
  BY <1>3
<1> QED
  BY <1>4 DEF IsEvent

\* An intact chain that holds the last event of another holds all of it.
LEMMA LastCommits ==
    ASSUME NEW v, NEW chain, NEW next, Orderly(chain), Orderly(next),
           LinkedChain(v, chain), LinkedChain(v, next),
           NEW head \in chain, head \in next, \A f \in chain : f.sequence <= head.sequence
    PROVE  chain \subseteq next
<1> SUFFICES ASSUME chain \ next # {} PROVE FALSE
  OBVIOUS
<1> DEFINE left == {head.sequence - f.sequence : f \in chain \ next}
<1>1. \A f \in chain : f.sequence \in Nat \ {0} /\ IsEvent(f) /\ f.hash = ContentOf(f)
  BY DEF Orderly, LinkedChain, Linked
<1>2. \A f \in next : IsEvent(f)
  BY DEF Orderly
<1>3. PICK least \in left : \A k \in left : least <= k
  <2>1. left \subseteq Nat /\ left # {}
    BY <1>1
  <2> HIDE DEF left
  <2> QED
    BY <2>1, LeastNatural
<1>4. PICK e \in chain \ next : least = head.sequence - e.sequence
  OBVIOUS
<1>5. ASSUME NEW f \in chain, e.sequence < f.sequence PROVE f \in next
  <2> SUFFICES ASSUME f \notin next PROVE FALSE
    OBVIOUS
  <2>1. head.sequence - f.sequence \in left
    OBVIOUS
  <2> HIDE DEF left
  <2>2. head.sequence - e.sequence <= head.sequence - f.sequence
    BY <1>3, <1>4, <2>1
  <2> QED
    BY <1>1, <1>5, <2>2
<1> HIDE DEF left
<1>6. e.sequence < head.sequence
  BY <1>1 DEF Orderly
<1>7. PICK g \in chain : e.sequence < g.sequence /\ g.sequence # 1 /\ g.prior = EventRef(e)
  BY <1>6, NextInChain
<1>8. PICK p \in next : g.prior = EventRef(p) /\ p.hash = ContentOf(p)
  BY <1>5, <1>7, NamedInChain
<1>9. p = e
  BY <1>1, <1>2, <1>7, <1>8, OneContent
<1> QED
  BY <1>9

-----------------------------------------------------------------------------
(* Projection and selection *)

\* Once all events of a version have taken effect, what a projection goes by and
\* what the selector goes by are the same
\* (mapping.py, _validate_lifecycle_status; selection.py, _state_at).
THEOREM ProjectionAgrees == Spec => []ProjectionAgreesInTheEnd
<1>1. CatalogInv => ProjectionAgreesInTheEnd
  <2> SUFFICES ASSUME CatalogInv, NEW spec \in catalog.versions,
                      \A e \in Relevant(spec, catalog.events) : AppliesAt(e) <= clock,
                      NEW status \in {"published", "retired"}
               PROVE  LET proven == StatusProven(spec, status, catalog.events)
                          derived == ChainIntact(spec, Relevant(spec, catalog.events))
                                        /\ StateAt(spec, catalog.events, clock) = status
                      IN  (proven => derived) /\ (damaged = 0 /\ derived => proven)
    BY DEF ProjectionAgreesInTheEnd
  <2> DEFINE chain == Relevant(spec, catalog.events)
  <2>1. Applied(spec, catalog.events, clock) = chain
    BY DEF Applied
  <2>2. damaged = 0 => \A e \in chain : Predecessor[e.next_state] = e.prior_state
    BY DEF CatalogInv, OrderInv, Relevant
  <2>3. CASE chain = {}
    BY <2>1, <2>3, StatesAssumption DEF StatusProven, StateAt
  <2>4. CASE chain # {}
    <3>1. StateAt(spec, catalog.events, clock) = LastOf(chain).next_state
      BY <2>1, <2>4 DEF StateAt, LastOf
    <3> QED
      BY <2>2, <2>4, <3>1 DEF StatusProven
  <2> QED
    BY <2>3, <2>4
<1> QED
  BY <1>1, CatalogInvariant, PTL

-----------------------------------------------------------------------------
(* Decisions, published controls and cases *)

Verdicts == Permissive \cup {"require_approval", "route", "block", "conflict"}

DecisionsInv == \A e \in decisions : e.verdict \in Verdicts /\ e.intent \in world.intents

\* Every published control is a projection: its one requirement is the profile's.
PublishedInv ==
    \A c \in published :
        /\ WellFormedControl(c)
        /\ c.effect.requirements = {ProfileRequirement}
        /\ c.source.spec \in world.versions /\ c.source.rule \in c.source.spec.rules

\* A case keeps the decision it was made of, and says what that one says or that
\* the action is allowed.
CasesInv ==
    \A k \in cases :
        /\ DOMAIN k = {"intent", "verdict", "route", "evaluated", "expires", "predecessor",
                       "controls", "approvals", "evidence", "recheck", "sealed", "source"}
        /\ k.source \in decisions /\ k.source.intent = k.intent.source
        /\ ExactIntent(k.intent)
        /\ WellFormedRoute(k.route) /\ k.verdict \in Verdicts
        /\ \/ k.verdict = "allow"
           \/ k \in {ProjectDecision(k.source, k.intent, k.controls, k.route)} \ {None}

HostInv == DecisionsInv /\ PublishedInv /\ CasesInv

LEMMA RouteShapes ==
    /\ \A id \in DOMAIN RouteKinds :
          WellFormedRoute(ProjectRoute(id)) /\ ProjectRoute(id).kind = RouteKinds[id]
    /\ WellFormedRoute(BlockRoute) /\ BlockRoute.kind = "block"
<1>1. /\ \A id : ProjectRoute(id).order \in Nat /\ ProjectRoute(id).kind = RouteKinds[id]
      /\ BlockRoute.order \in Nat /\ BlockRoute.kind = "block"
  BY EvaluationAssumption DEF ProjectRoute, BlockRoute, SafetyRoute
<1> QED
  BY <1>1, RoutesAssumption DEF WellFormedRoute

LEMMA RequestedRoute ==
    ASSUME NEW i, i.route \in DOMAIN RouteKinds, ProjectIntent(i) # None
    PROVE  /\ ProjectIntent(i).source = i
           /\ ExactIntent(ProjectIntent(i)) /\ WellFormedRoute(ProjectIntent(i).requested)
<1>1. /\ ProjectIntent(i).source = i
      /\ ProjectIntent(i).requested = ProjectRoute(i.route)
  BY DEF ProjectIntent
<1> QED
  BY <1>1, RouteShapes DEF ExactIntent

\* The published window of a control is that of its version.
LEMMA ProjectedRule ==
    ASSUME NEW spec, NEW rule, NEW status, NEW events,
           spec.from # None /\ spec.until # None => spec.from < spec.until
    PROVE  LET c == ProjectRule(spec, rule, status, events)
           IN  /\ WellFormedControl(c) /\ c.effect.requirements = {ProfileRequirement}
               /\ c.source.spec = spec /\ c.source.rule = rule
<1> DEFINE c == ProjectRule(spec, rule, status, events)
           effect == [class |-> "effect", verdict |-> "allow",
                      route |-> ProjectRoute("autonomous"),
                      requirements |-> {ProfileRequirement}, conditions |-> {}]
           unknown == [class |-> "failure", verdict |-> "block", route |-> BlockRoute]
<1>1. /\ c.from = spec.from /\ c.until = spec.until /\ c.predicates = {}
      /\ c.match = [actor |-> {spec.covers.actor}, verb |-> {spec.covers.verb}]
      /\ c.on_unknown = unknown /\ c.effect = effect
      /\ c.source.spec = spec /\ c.source.rule = rule
  BY DEF ProjectRule
<1>2. WellFormedFailure(unknown)
  BY RouteShapes DEF WellFormedFailure
<1>3. WellFormedEffect(effect)
  <2>1. WellFormedRequirement(ProfileRequirement)
    BY <1>2 DEF WellFormedRequirement, ProfileRequirement
  <2>2. WellFormedRoute(ProjectRoute("autonomous"))
        /\ ProjectRoute("autonomous").kind = "continue"
    BY RouteShapes DEF RouteKinds
  <2> QED
    BY <2>1, <2>2 DEF WellFormedEffect, Permissive
<1>4. effect.requirements = {ProfileRequirement}
  OBVIOUS
<1> HIDE DEF c, effect, unknown
<1>5. \A field \in DOMAIN c.match : c.match[field] # {}
  BY <1>1
<1> QED
  BY <1>1, <1>2, <1>3, <1>4, <1>5 DEF WellFormedControl, c

\* A decision that could be projected, and the case it became.
LEMMA ProjectedDecision ==
    ASSUME NEW e, NEW p, NEW controls, NEW route,
           ProjectDecision(e, p, controls, route) # None
    PROVE  LET k == ProjectDecision(e, p, controls, route)
           IN  /\ ExactIntent(p) /\ e.intent = p.source
               /\ CoversSelection(e, controls) /\ RouteFits(e, p, route)
               /\ k.intent = p /\ k.verdict = e.verdict /\ k.route = route
               /\ k.controls = controls /\ k.source = e
BY DEF ProjectDecision

LEMMA ProjectedFields ==
    ASSUME NEW e, NEW p, NEW controls, NEW route,
           ProjectDecision(e, p, controls, route) # None
    PROVE  DOMAIN ProjectDecision(e, p, controls, route) =
              {"intent", "verdict", "route", "evaluated", "expires", "predecessor",
               "controls", "approvals", "evidence", "recheck", "sealed", "source"}
BY DEF ProjectDecision

LEMMA HostInitially == Init => HostInv
BY DEF Init, HostInv, DecisionsInv, PublishedInv, CasesInv

LEMMA HostStep == HostInv /\ CatalogInv /\ [Next]_vars => HostInv'
<1> SUFFICES ASSUME HostInv, CatalogInv, [Next]_vars PROVE HostInv'
  OBVIOUS
<1> USE DEF HostInv
<1>1. ASSUME UNCHANGED <<world, decisions, published, cases>> PROVE HostInv'
  BY <1>1 DEF DecisionsInv, PublishedInv, CasesInv
<1>2. ASSUME NEW i \in world.intents, NEW environment \in world.environments,
             NEW verdict \in world.verdicts, EnterpriseDecide(i, environment, verdict)
      PROVE  HostInv'
  <2>1. PICK e : /\ decisions' = decisions \cup {e} /\ e.verdict = verdict /\ e.intent = i
                 /\ UNCHANGED <<world, published, cases>>
    <3> DEFINE selection == SelectionFor(i, clock, environment)
               e == [intent |-> i, verdict |-> verdict, evaluated |-> clock,
                     expires |-> clock + TTL, specs |-> {SpecRef(v) : v \in selection.specs},
                     feasible |-> {"human"}, reauthorize |-> FALSE]
    <3>1. decisions' = decisions \cup {e} /\ UNCHANGED <<world, published, cases>>
      BY <1>2 DEF EnterpriseDecide
    <3>2. e.verdict = verdict /\ e.intent = i
      OBVIOUS
    <3> HIDE DEF e
    <3> QED
      BY <3>1, <3>2
  <2>2. verdict \in Verdicts
    BY EnterpriseAssumption DEF CatalogInv, WorldInv, Verdicts
  <2>3. DecisionsInv'
    BY <2>1, <2>2 DEF DecisionsInv
  <2> QED
    BY <2>1, <2>3 DEF PublishedInv, CasesInv
<1>3. ASSUME NEW spec \in catalog.versions, NEW status, Project(spec, status) PROVE HostInv'
  <2>1. PICK controls : /\ controls = ProjectControls(spec, status, catalog.events)
                        /\ controls # None
                        /\ published' = (published \ ControlsOf(spec)) \cup controls
                        /\ UNCHANGED <<world, decisions, cases>>
    BY <1>3 DEF Project
  <2>2. controls = {ProjectRule(spec, r, status, catalog.events) : r \in spec.rules}
    BY <2>1 DEF ProjectControls
  <2>3. /\ spec \in world.versions
        /\ spec.from # None /\ spec.until # None => spec.from < spec.until
    BY EnterpriseAssumption DEF CatalogInv, WorldInv
  <2>4. ASSUME NEW c \in controls
        PROVE  /\ WellFormedControl(c) /\ c.effect.requirements = {ProfileRequirement}
               /\ c.source.spec \in world.versions /\ c.source.rule \in c.source.spec.rules
    BY <2>2, <2>3, ProjectedRule
  <2>5. PublishedInv'
    BY <2>1, <2>4 DEF PublishedInv
  <2> QED
    BY <2>1, <2>5 DEF DecisionsInv, CasesInv
<1>4. ASSUME NEW e \in decisions, NEW route \in Routes, Retain(e, route) PROVE HostInv'
  <2>1. PICK controls :
            LET k == ProjectDecision(e, ProjectIntent(e.intent), controls, route)
            IN  /\ k # None /\ cases' = cases \cup {k}
                /\ UNCHANGED <<world, decisions, published>>
    BY <1>4 DEF Retain
  <2> DEFINE k == ProjectDecision(e, ProjectIntent(e.intent), controls, route)
  <2>2. /\ ExactIntent(k.intent) /\ k.intent.source = e.intent /\ k.source = e
        /\ k.verdict = e.verdict /\ k.route = route
        /\ k = ProjectDecision(k.source, k.intent, k.controls, k.route)
    BY <2>1, ProjectedDecision
  <2>3. DOMAIN k = {"intent", "verdict", "route", "evaluated", "expires", "predecessor",
                    "controls", "approvals", "evidence", "recheck", "sealed", "source"}
    BY <2>1, ProjectedFields
  <2>4. WellFormedRoute(route)
    BY RouteShapes DEF Routes, RouteKinds
  <2>5. k.verdict \in Verdicts
    BY <2>2 DEF DecisionsInv
  <2> HIDE DEF k
  <2>6. CasesInv'
    BY <2>1, <2>2, <2>3, <2>4, <2>5 DEF CasesInv, k
  <2> QED
    BY <2>1, <2>6 DEF DecisionsInv, PublishedInv
<1>5. ASSUME NEW k \in cases, EditCase(k) PROVE HostInv'
  <2> DEFINE edited == [k EXCEPT !.verdict = "allow", !.route = k.intent.requested]
  <2>1. cases' = (cases \ {k}) \cup {edited} /\ UNCHANGED <<world, decisions, published>>
    BY <1>5 DEF EditCase
  <2>2. /\ DOMAIN edited = DOMAIN k /\ edited.verdict = "allow"
        /\ edited.route = k.intent.requested /\ edited.source = k.source
        /\ edited.intent = k.intent
    BY DEF CasesInv
  <2>3. WellFormedRoute(k.intent.requested)
    <3>1. k.intent.source \in world.intents /\ ExactIntent(k.intent)
      BY DEF CasesInv, DecisionsInv
    <3>2. world \in Worlds
      BY DEF CatalogInv, WorldInv
    <3>3. \A i \in world.intents : i.route \in DOMAIN RouteKinds
      BY <3>2, EnterpriseAssumption
    <3> QED
      BY <3>1, <3>3, RequestedRoute DEF ExactIntent
  <2> HIDE DEF edited
  <2>4. CasesInv'
    BY <2>1, <2>2, <2>3 DEF CasesInv, Verdicts, Permissive
  <2> QED
    BY <2>1, <2>4 DEF DecisionsInv, PublishedInv
<1> QED
  BY <1>1, <1>2, <1>3, <1>4, <1>5
  DEF Next, vars, Tick, Release, Record, Damage, File, FileApproval, FileReceipt

LEMMA HostInvariant == Spec => []HostInv
BY CatalogInvariant, HostInitially, HostStep, PTL DEF Spec

-----------------------------------------------------------------------------
(* The host never permits more *)

\* Facts whose every profile assessment is of a case that attests it.
AttestedFacts(p, facts) ==
    \A f \in facts.profiles : \E k \in cases :
        \E b \in k.controls : Attests(p, b, Snapshot, k) /\ f = Assess(p, b, Snapshot, k)

LEMMA AssessedFields ==
    ASSUME NEW p, NEW c, NEW s, NEW k
    PROVE  LET f == Assess(p, c, s, k)
           IN  /\ f.verifier = D001 /\ f.intent = p /\ f.control = c /\ f.snapshot = s
               /\ f.verdict = k.verdict /\ f.route = k.route
BY DEF Assess

LEMMA AttestedInputs ==
    ASSUME HostInv, NEW p, NEW facts, AttestedFacts(p, facts)
    PROVE  WellFormedInputs(Snapshot, facts)
<1>1. Snapshot.controls = published
  BY DEF Snapshot
<1>2. ASSUME NEW f \in facts.profiles PROVE WellFormedProfile(f)
  <2>1. PICK k \in cases : f.verdict = k.verdict /\ f.route = k.route
    BY AssessedFields DEF AttestedFacts
  <2> QED
    BY <2>1 DEF HostInv, CasesInv, WellFormedProfile, Verdicts, Permissive
<1> QED
  BY <1>1, <1>2 DEF WellFormedInputs, HostInv, PublishedInv

\* A case that attests says what the decision it was made of says, over the
\* controls of the snapshot that it has.
LEMMA AttestedCase ==
    ASSUME NEW p, NEW c, NEW k, Attests(p, c, Snapshot, k)
    PROVE  /\ c \in published \cap k.controls
           /\ k.verdict = k.source.verdict /\ k.source.intent = p.source
           /\ CoversSelection(k.source, published \cap k.controls)
<1> DEFINE controls == Snapshot.controls \cap k.controls
<1>1. Snapshot.controls = published
  BY DEF Snapshot
<1>2. /\ k = ProjectDecision(k.source, p, controls, k.route)
      /\ ProjectDecision(k.source, p, controls, k.route) # None
      /\ c \in controls
  BY DEF Attests
<1>3. /\ ProjectDecision(k.source, p, controls, k.route).verdict = k.source.verdict
      /\ k.source.intent = p.source /\ CoversSelection(k.source, controls)
  BY <1>2, ProjectedDecision
<1> QED
  BY <1>1, <1>2, <1>3

\* A decision covers a version with all of its rules or not at all.
LEMMA CoveredRules ==
    ASSUME NEW e, NEW controls, CoversSelection(e, controls), NEW c \in controls
    PROVE  /\ SpecRef(c.source.spec) \in e.specs
           /\ \A r \in c.source.spec.rules : \E q \in controls :
                  SpecRef(q.source.spec) = SpecRef(c.source.spec) /\ q.source.rule = r
<1>1. SpecRef(c.source.spec) \in e.specs
  BY DEF CoversSelection
<1>2. ASSUME NEW r \in c.source.spec.rules
      PROVE  \E q \in controls :
                  SpecRef(q.source.spec) = SpecRef(c.source.spec) /\ q.source.rule = r
  <2>1. <<SpecRef(c.source.spec), r>> \in RulesDue(controls)
    BY DEF RulesDue
  <2>2. <<SpecRef(c.source.spec), r>> \in RulesOf(controls)
    BY <2>1 DEF CoversSelection
  <2> QED
    BY <2>2 DEF RulesOf
<1> QED
  BY <1>1, <1>2

\* The enterprise permitted the intent under the version of a control, and all
\* of that version is published.
Warranted(p, c) ==
    \E e \in decisions :
        /\ e.intent = p.source /\ e.verdict \in Permissive
        /\ SpecRef(c.source.spec) \in e.specs
        /\ \A r \in c.source.spec.rules :
              \E q \in published : q.source.spec = c.source.spec /\ q.source.rule = r

LEMMA PermittedControls ==
    ASSUME HostInv, CatalogInv, NEW p, NEW facts, AttestedFacts(p, facts),
           NEW d, d # None, d = Evaluate(p, Snapshot, facts, {D001}),
           d.verdict \in Permissive, NEW c \in d.controls
    PROVE  Warranted(p, c)
<1>1. WellFormedInputs(Snapshot, facts)
  BY AttestedInputs
<1>2. PICK o \in SelectControls(p, Snapshot) : o.control = c
  BY DecisionFields
<1>3. c \in published
  BY <1>2 DEF SelectControls, Applicable, Snapshot
<1>4. /\ ProfileRequirement \in c.effect.requirements /\ ProfileRequirement.type = "profile"
      /\ ProfileRequirement.verifier = D001
  BY <1>3 DEF HostInv, PublishedInv, ProfileRequirement
<1>5. /\ ~ ProfileMissing(o, ProfileRequirement, p, Snapshot, facts, {D001})
      /\ \A f \in ProfileMatching(o, ProfileRequirement, p, Snapshot, facts) :
            f.verdict \in Permissive
  BY <1>1, <1>2, <1>4, PermissiveProfiles
<1>6. PICK f \in facts.profiles : f.control = c /\ f.verdict \in Permissive
  BY <1>2, <1>5 DEF ProfileMissing, ProfileMatching
<1>7. PICK k \in cases :
        Attests(p, c, Snapshot, k) /\ k.verdict \in Permissive
  BY <1>6, AssessedFields DEF AttestedFacts
<1>8. /\ c \in published \cap k.controls
      /\ k.verdict = k.source.verdict /\ k.source.intent = p.source
      /\ CoversSelection(k.source, published \cap k.controls)
  BY <1>7, AttestedCase
<1>9. ASSUME NEW r \in c.source.spec.rules
      PROVE  \E q \in published : q.source.spec = c.source.spec /\ q.source.rule = r
  <2>1. PICK q \in published :
            SpecRef(q.source.spec) = SpecRef(c.source.spec) /\ q.source.rule = r
    BY <1>8, CoveredRules
  <2>2. /\ q.source.spec.id = c.source.spec.id
        /\ q.source.spec \in world.versions /\ c.source.spec \in world.versions
    BY <1>3, <2>1 DEF SpecRef, HostInv, PublishedInv
  <2> QED
    BY <2>1, <2>2, OneVersion DEF CatalogInv
<1> QED
  BY <1>7, <1>8, <1>9, CoveredRules DEF HostInv, CasesInv, Warranted

LEMMA ProfileFactsAttested ==
    ASSUME NEW p
    PROVE  AttestedFacts(p, ProfileFacts(cases, p, Snapshot))
BY DEF AttestedFacts, ProfileFacts, AssessAll

LEMMA ScenarioFactsAttested ==
    ASSUME NEW k \in cases, NEW scenario, scenario.retained = k, NEW p,
           ScenarioFacts(scenario, p, Snapshot) # None
    PROVE  AttestedFacts(p, ScenarioFacts(scenario, p, Snapshot))
<1>1. /\ \A c \in Snapshot.controls : Attests(p, c, Snapshot, k)
      /\ ScenarioFacts(scenario, p, Snapshot).profiles =
            {Assess(p, c, Snapshot, k) : c \in Snapshot.controls}
  BY DEF ScenarioFacts
<1>2. \A c \in Snapshot.controls : c \in k.controls
  BY <1>1 DEF Attests
<1> QED
  BY <1>1, <1>2 DEF AttestedFacts

\* A permissive decision of the core applies only controls of versions that the
\* enterprise selected for that very intent and permitted, whatever was done to
\* the cases (profiles/riskspec.py, assess; mapping.py, project_decision).
THEOREM PermitsPermitted == Spec => []PermitsWhatWasPermitted
<1>1. HostInv /\ CatalogInv => PermitsWhatWasPermitted
  <2> SUFFICES ASSUME HostInv, CatalogInv, NEW d \in PortableDecisions, d.verdict \in Permissive,
                      NEW c \in d.controls
               PROVE  \E e \in decisions :
                        /\ e.intent = d.intent.source /\ e.verdict \in Permissive
                        /\ SpecRef(c.source.spec) \in e.specs
                        /\ \A r \in c.source.spec.rules : \E q \in published :
                                q.source.spec = c.source.spec /\ q.source.rule = r
    BY DEF PermitsWhatWasPermitted
  <2>1. \E p, facts : /\ AttestedFacts(p, facts) /\ d # None
                      /\ d = Evaluate(p, Snapshot, facts, {D001})
    <3>1. CASE \E i \in world.intents : d = PortableDecision(i) /\ d # None
      <4>1. PICK i \in world.intents : d = PortableDecision(i) /\ d # None
        BY <3>1
      <4> DEFINE facts == ProfileFacts(cases, ProjectIntent(i), Snapshot)
      <4>2. d = Evaluate(ProjectIntent(i), Snapshot, facts, {D001})
        BY <4>1 DEF PortableDecision, Decided
      <4>3. AttestedFacts(ProjectIntent(i), facts)
        BY ProfileFactsAttested
      <4> HIDE DEF facts
      <4> QED
        BY <4>1, <4>2, <4>3
    <3>2. CASE \E k \in cases : d = ScenarioDecision(k) /\ d # None
      <4>1. PICK k \in cases : d = ScenarioDecision(k) /\ d # None
        BY <3>2
      <4> DEFINE scenario == [retained |-> k, intent |-> k.intent, controls |-> k.controls,
                              basis |-> None, approvals |-> {}]
                 facts == ScenarioFacts(scenario, k.intent, Snapshot)
      <4>2. facts # None /\ d = Evaluate(k.intent, Snapshot, facts, {D001})
        BY <4>1 DEF ScenarioDecision, Decided
      <4>3. scenario.retained = k
        OBVIOUS
      <4>4. AttestedFacts(k.intent, facts)
        BY <4>2, <4>3, ScenarioFactsAttested
      <4> HIDE DEF facts
      <4> QED
        BY <4>1, <4>2, <4>4
    <3>3. \/ \E i \in world.intents : d = PortableDecision(i) /\ d # None
          \/ \E k \in cases : d = ScenarioDecision(k) /\ d # None
      BY DEF PortableDecisions
    <3> QED
      BY <3>1, <3>2, <3>3
  <2>2. PICK p, facts : /\ AttestedFacts(p, facts) /\ d # None
                        /\ d = Evaluate(p, Snapshot, facts, {D001})
    BY <2>1
  <2>3. d.intent = p
    BY <2>2, DecisionFields
  <2>4. Warranted(p, c)
    BY <2>2, PermittedControls
  <2> QED
    BY <2>3, <2>4 DEF Warranted
<1> QED
  BY <1>1, CatalogInvariant, HostInvariant, PTL

LEMMA ProjectedIsSealed ==
    ASSUME NEW e, NEW p, NEW controls, NEW route,
           ProjectDecision(e, p, controls, route) # None
    PROVE  ProjectDecision(e, p, controls, route).sealed
BY DEF ProjectDecision

LEMMA ExactIntentShape ==
    ASSUME NEW p, ExactIntent(p)
    PROVE  p.kind.verb = "advance" /\ p.sealed
<1>1. p = ProjectIntent(p.source) /\ ProjectIntent(p.source) # None
  BY DEF ExactIntent
<1>2. /\ ProjectIntent(p.source).sealed = TRUE
      /\ ProjectIntent(p.source).kind.verb = "advance"
  BY <1>1 DEF ProjectIntent
<1> QED
  BY <1>1, <1>2

\* An unedited case whose controls are all published attests each of them.
LEMMA UneditedAttests ==
    ASSUME HostInv, NEW k \in cases, k.verdict # "allow", k.controls \subseteq published,
           NEW c \in k.controls
    PROVE  Attests(k.intent, c, Snapshot, k)
<1>1. /\ k = ProjectDecision(k.source, k.intent, k.controls, k.route)
      /\ ProjectDecision(k.source, k.intent, k.controls, k.route) # None
  BY DEF HostInv, CasesInv
<1>2. k.sealed /\ CoversSelection(k.source, k.controls) /\ ExactIntent(k.intent)
  BY <1>1, ProjectedDecision, ProjectedIsSealed
<1>3. c.sealed
  BY <1>2 DEF CoversSelection, Covering
<1>4. Snapshot.controls = published
  BY DEF Snapshot
<1>5. published \cap k.controls = k.controls
  OBVIOUS
<1> QED
  BY <1>1, <1>2, <1>3, <1>4, <1>5, ExactIntentShape DEF Attests

\* While the snapshot holds all controls of an unedited case that does not
\* permit, no other case makes the core permit under one of them
\* (requirements.py and composition.py).
THEOREM RefusalIsEnough == Spec => []RefusalPrevails
<1>1. HostInv /\ CatalogInv => RefusalPrevails
  <2> SUFFICES ASSUME HostInv, CatalogInv, NEW k \in cases, k.verdict \notin Permissive,
                      k.controls \subseteq published,
                      NEW d, d = PortableDecision(k.intent.source), d # None,
                      NEW c \in d.controls \cap k.controls, d.verdict \in Permissive
               PROVE  FALSE
    BY DEF RefusalPrevails
  <2> DEFINE p == k.intent
             facts == ProfileFacts(cases, p, Snapshot)
  <2>1. p = ProjectIntent(k.intent.source)
    BY DEF HostInv, CasesInv, ExactIntent
  <2>2. d = Evaluate(p, Snapshot, facts, {D001})
    BY <2>1 DEF PortableDecision, Decided
  <2>3. Attests(p, c, Snapshot, k)
    BY UneditedAttests DEF Permissive
  <2>4. Assess(p, c, Snapshot, k) \in facts.profiles
    <3>1. k.controls \subseteq Snapshot.controls
      BY DEF Snapshot
    <3> QED
      BY <2>3, <3>1 DEF ProfileFacts, AssessAll
  <2>5. WellFormedInputs(Snapshot, facts)
    BY ProfileFactsAttested, AttestedInputs
  <2> HIDE DEF facts
  <2>6. PICK o \in SelectControls(p, Snapshot) : o.control = c
    BY <2>2, DecisionFields
  <2>7. /\ ProfileRequirement \in c.effect.requirements /\ ProfileRequirement.type = "profile"
        /\ ProfileRequirement.verifier = D001
    <3>1. c \in published
      BY <2>6 DEF SelectControls, Applicable, Snapshot
    <3> QED
      BY <3>1 DEF HostInv, PublishedInv, ProfileRequirement
  <2>8. Assess(p, c, Snapshot, k)
            \in ProfileMatching(o, ProfileRequirement, p, Snapshot, facts)
    BY <2>4, <2>6, <2>7, AssessedFields DEF ProfileMatching
  <2>9. Assess(p, c, Snapshot, k).verdict \in Permissive
    BY <2>2, <2>5, <2>6, <2>7, <2>8, PermissiveProfiles
  <2> QED
    BY <2>9, AssessedFields
<1> QED
  BY <1>1, CatalogInvariant, HostInvariant, PTL

-----------------------------------------------------------------------------
(* The walk of the closure.  Its recursion ends because every visit is     *)
(* made with a longer path than the one that asked for it: the equation it *)
(* is defined by has a solution, so that it may be used.                   *)

\* One visit of add_closure, given what the visits below it find.
Targets(own, spec, k) == {v \in own.versions : SpecRef(v) = spec.links[k]}
Target(own, spec, k) == CHOOSE v \in Targets(own, spec, k) : TRUE
Below(own, walk, spec, path) ==
    [k \in DOMAIN spec.links |->
        IF Targets(own, spec, k) = {} THEN Nothing("no_safe_policy")
        ELSE walk[<<Target(own, spec, k), path \cup {spec}>>]]
Visit(own, time, environment, walk, spec, path) ==
    LET below == Below(own, walk, spec, path)
        wrong == {k \in DOMAIN spec.links : below[k].outcome # "selected"}
    IN  IF spec \in path \/ ~ InEnvironment(spec, environment)
        THEN Nothing("no_safe_policy")
        ELSE IF ~ Authentic(spec, own.events) THEN Nothing("rejected")
        ELSE IF ~ InForce(spec, own.events, time) THEN Nothing("no_safe_policy")
        ELSE IF wrong # {} THEN below[CHOOSE k \in wrong : \A j \in wrong : k <= j]
        ELSE [outcome |-> "selected", events |-> {},
              specs |-> {spec} \cup UNION {below[k].specs : k \in DOMAIN spec.links}]

Visits(own, time, environment, walk) ==
    [at \in own.versions \X SUBSET own.versions |->
        Visit(own, time, environment, walk, at[1], at[2])]

LEMMA WalkChosen ==
    ASSUME NEW own, NEW time, NEW environment
    PROVE  Walk(own, time, environment) = CHOOSE w : w = Visits(own, time, environment, w)
BY DEF Walk, Visits, Visit, Below, Target, Targets

\* A visit depends on the visits one step below it, if on any.
LEMMA VisitIsLocal ==
    ASSUME NEW own, NEW time, NEW environment, NEW spec, NEW path, NEW w, NEW x,
           spec \in path \/ \A v \in own.versions :
                w[<<v, path \cup {spec}>>] = x[<<v, path \cup {spec}>>]
    PROVE  Visit(own, time, environment, w, spec, path)
                = Visit(own, time, environment, x, spec, path)
<1>1. CASE spec \in path
  BY <1>1 DEF Visit
<1>2. CASE \A v \in own.versions : w[<<v, path \cup {spec}>>] = x[<<v, path \cup {spec}>>]
  <2>1. \A k : Targets(own, spec, k) # {} => Target(own, spec, k) \in own.versions
    BY DEF Target, Targets
  <2>2. Below(own, w, spec, path) = Below(own, x, spec, path)
    BY <1>2, <2>1 DEF Below
  <2> QED
    BY <2>2 DEF Visit
<1> QED
  BY <1>1, <1>2

LEMMA LongerPath ==
    ASSUME NEW V, IsFiniteSet(V), NEW path \in SUBSET V, NEW spec \in V, spec \notin path
    PROVE  /\ Cardinality(V \ path) \in Nat
           /\ Cardinality(V \ (path \cup {spec})) = Cardinality(V \ path) - 1
<1>1. IsFiniteSet(V \ path) /\ spec \in V \ path
  <2>1. V \ path \in SUBSET V
    OBVIOUS
  <2> QED
    BY <2>1, FS_Subset
<1>2. V \ (path \cup {spec}) = (V \ path) \ {spec}
  OBVIOUS
<1>3. Cardinality((V \ path) \ {spec}) = Cardinality(V \ path) - 1
  BY <1>1, FS_RemoveElement
<1>4. Cardinality(V \ path) \in Nat
  BY <1>1, FS_CardinalityType
<1> QED
  BY <1>2, <1>3, <1>4

\* Nothing is wrong with any visit, if what is wrong with one is wrong with a
\* visit below it.
LEMMA PathInduction ==
    ASSUME NEW V, IsFiniteSet(V), NEW Bad \in SUBSET (V \X SUBSET V),
           \A spec \in V, path \in SUBSET V : <<spec, path>> \in Bad =>
                spec \notin path /\ \E t \in V : <<t, path \cup {spec}>> \in Bad
    PROVE  Bad = {}
<1> DEFINE Left(at) == Cardinality(V \ at[2])
           left == {Left(at) : at \in Bad}
<1>1. SUFFICES ASSUME Bad # {} PROVE FALSE
  OBVIOUS
<1>2. ASSUME NEW at \in Bad PROVE Left(at) \in Nat
  <2>1. V \ at[2] \in SUBSET V
    OBVIOUS
  <2> QED
    BY <2>1, FS_Subset, FS_CardinalityType
<1>3. PICK m \in left : \A k \in left : m <= k
  <2> HIDE DEF Left
  <2>1. left \subseteq Nat /\ left # {}
    BY <1>1, <1>2
  <2> HIDE DEF left
  <2> QED
    BY <2>1, LeastNatural
<1>4. PICK at \in Bad : m = Left(at)
  OBVIOUS
<1>5. PICK spec \in V, path \in SUBSET V : at = <<spec, path>>
  OBVIOUS
<1>6. PICK t \in V : spec \notin path /\ <<t, path \cup {spec}>> \in Bad
  BY <1>4, <1>5
<1> DEFINE b == <<t, path \cup {spec}>>
<1>7. Left(b) \in left
  <2> HIDE DEF Left
  <2> QED
    BY <1>6
<1>8. Left(at) \in Nat /\ Left(b) = Left(at) - 1
  BY <1>5, <1>6, LongerPath
<1> HIDE DEF left, Left
<1> QED
  BY <1>3, <1>4, <1>7, <1>8

\* The equation holds where the path leaves fewer than n versions.
Solves(own, time, environment, w, n) ==
    \A spec \in own.versions, path \in SUBSET own.versions :
        Cardinality(own.versions \ path) < n =>
            w[<<spec, path>>] = Visit(own, time, environment, w, spec, path)

LEMMA SolvedFurther ==
    ASSUME NEW own, NEW time, NEW environment, IsFiniteSet(own.versions),
           NEW w, NEW n \in Nat, Solves(own, time, environment, w, n)
    PROVE  Solves(own, time, environment, Visits(own, time, environment, w), n + 1)
<1> DEFINE V == own.versions
           x == Visits(own, time, environment, w)
<1>1. ASSUME NEW spec \in V, NEW path \in SUBSET V, Cardinality(V \ path) < n + 1
      PROVE  x[<<spec, path>>] = Visit(own, time, environment, x, spec, path)
  <2>1. \A v \in V, p \in SUBSET V : x[<<v, p>>] = Visit(own, time, environment, w, v, p)
    BY DEF Visits
  <2>2. ASSUME spec \notin path, NEW v \in V
        PROVE  w[<<v, path \cup {spec}>>] = x[<<v, path \cup {spec}>>]
    <3>1. path \cup {spec} \in SUBSET V
      OBVIOUS
    <3>2. Cardinality(V \ (path \cup {spec})) < n
      BY <1>1, <2>2, LongerPath
    <3>3. w[<<v, path \cup {spec}>>]
            = Visit(own, time, environment, w, v, path \cup {spec})
      BY <3>1, <3>2 DEF Solves
    <3> QED
      BY <2>1, <3>1, <3>3
  <2> HIDE DEF x
  <2>3. Visit(own, time, environment, w, spec, path)
            = Visit(own, time, environment, x, spec, path)
    BY <2>2, VisitIsLocal
  <2> QED
    BY <2>1, <2>3
<1> QED
  BY <1>1 DEF Solves

LEMMA SolutionExists ==
    ASSUME NEW own, NEW time, NEW environment, IsFiniteSet(own.versions), NEW n \in Nat
    PROVE  \E w : Solves(own, time, environment, w, n)
<1> DEFINE Unsolved == {m \in Nat : ~ \E w : Solves(own, time, environment, w, m)}
<1>1. SUFFICES ASSUME Unsolved # {} PROVE FALSE
  OBVIOUS
<1>2. PICK m \in Unsolved : \A k \in Unsolved : m <= k
  <2>1. Unsolved \subseteq Nat
    OBVIOUS
  <2> HIDE DEF Unsolved
  <2> QED
    BY <1>1, <2>1, LeastNatural
<1>3. m # 0
  <2>1. ASSUME NEW path \in SUBSET own.versions
        PROVE  ~ (Cardinality(own.versions \ path) < 0)
    BY FS_Subset, FS_CardinalityType
  <2>2. Solves(own, time, environment, {}, 0)
    BY <2>1 DEF Solves
  <2> QED
    BY <2>2
<1>4. m - 1 \in Nat /\ m - 1 \notin Unsolved
  <2>1. m \in Nat
    OBVIOUS
  <2> HIDE DEF Unsolved
  <2> QED
    BY <1>2, <1>3, <2>1
<1>5. PICK w : Solves(own, time, environment, w, m - 1)
  BY <1>4
<1>6. Solves(own, time, environment, Visits(own, time, environment, w), m)
  <2>1. m = (m - 1) + 1
    OBVIOUS
  <2> QED
    BY <1>4, <1>5, <2>1, SolvedFurther
<1> QED
  BY <1>6

\* What a walk finds at a version is what a visit of it finds.
LEMMA WalkVisits ==
    ASSUME NEW own, NEW time, NEW environment, IsFiniteSet(own.versions),
           NEW spec \in own.versions, NEW path \in SUBSET own.versions
    PROVE  Walk(own, time, environment)[<<spec, path>>]
                = Visit(own, time, environment, Walk(own, time, environment), spec, path)
<1> DEFINE V == own.versions
           n == Cardinality(V) + 1
           walk == Walk(own, time, environment)
<1>1. n \in Nat
  BY FS_CardinalityType
<1>2. PICK w : Solves(own, time, environment, w, n)
  BY <1>1, SolutionExists
<1> DEFINE x == Visits(own, time, environment, w)
<1>3. \A v \in V, p \in SUBSET V : Cardinality(V \ p) < n
  <2> SUFFICES ASSUME NEW p \in SUBSET V PROVE Cardinality(V \ p) < n
    OBVIOUS
  <2>1. Cardinality(V \ p) <= Cardinality(V) /\ Cardinality(V \ p) \in Nat
    BY FS_Subset, FS_CardinalityType
  <2> QED
    BY <2>1, FS_CardinalityType
<1>4. \A v \in V, p \in SUBSET V :
        w[<<v, p>>] = Visit(own, time, environment, w, v, p)
  BY <1>2, <1>3 DEF Solves
<1>5. \A v \in V, p \in SUBSET V : x[<<v, p>>] = w[<<v, p>>]
  BY <1>4 DEF Visits
<1>6. ASSUME NEW v \in V, NEW p \in SUBSET V
      PROVE  Visit(own, time, environment, w, v, p) = Visit(own, time, environment, x, v, p)
  <2>1. p \cup {v} \in SUBSET V
    OBVIOUS
  <2> HIDE DEF x
  <2>2. \A u \in V : w[<<u, p \cup {v}>>] = x[<<u, p \cup {v}>>]
    BY <1>5, <2>1
  <2> QED
    BY <2>2, VisitIsLocal
<1>7. x = Visits(own, time, environment, x)
  <2>1. \A at \in V \X SUBSET V :
            Visit(own, time, environment, w, at[1], at[2])
                = Visit(own, time, environment, x, at[1], at[2])
    BY <1>6
  <2> QED
    BY <2>1 DEF Visits
<1>8. walk = Visits(own, time, environment, walk)
  BY <1>7, WalkChosen
<1> HIDE DEF walk
<1> QED
  BY <1>8 DEF Visits, walk

-----------------------------------------------------------------------------
(* What a walk finds *)

\* What is read of a catalog: each number names one version, and the links of a
\* version are in an order.
Readable(own) ==
    /\ IsFiniteSet(own.versions)
    /\ \A v \in own.versions :
        /\ v.id \in Nat /\ DOMAIN v.links \subseteq Nat
        /\ \A u \in own.versions : u.id = v.id => u = v

LEMMA LeastOf ==
    ASSUME NEW T, T \subseteq Nat, T # {}
    PROVE  /\ (CHOOSE k \in T : \A j \in T : k <= j) \in T
           /\ \A j \in T : (CHOOSE k \in T : \A l \in T : k <= l) <= j
BY LeastNatural

LEMMA TargetIs ==
    ASSUME NEW own, NEW spec, NEW k
    PROVE  /\ Targets(own, spec, k) \subseteq own.versions
           /\ Targets(own, spec, k) # {} =>
                /\ Target(own, spec, k) \in own.versions
                /\ SpecRef(Target(own, spec, k)) = spec.links[k]
BY DEF Targets, Target

\* A version is selected after everything it links to was.
LEMMA SelectedVisit ==
    ASSUME NEW own, NEW time, NEW environment, Readable(own),
           NEW spec \in own.versions, NEW path \in SUBSET own.versions
    PROVE  LET walk == Walk(own, time, environment)
               found == walk[<<spec, path>>]
               below == Below(own, walk, spec, path)
           IN  /\ found.outcome = "selected" <=>
                    /\ spec \notin path /\ InEnvironment(spec, environment)
                    /\ Authentic(spec, own.events) /\ InForce(spec, own.events, time)
                    /\ \A k \in DOMAIN spec.links : below[k].outcome = "selected"
               /\ found.outcome = "selected" =>
                    found.specs = {spec} \cup UNION {below[k].specs : k \in DOMAIN spec.links}
<1> DEFINE walk == Walk(own, time, environment)
           found == walk[<<spec, path>>]
           below == Below(own, walk, spec, path)
           wrong == {k \in DOMAIN spec.links : below[k].outcome # "selected"}
           first == CHOOSE k \in wrong : \A j \in wrong : k <= j
           all == {spec} \cup UNION {below[k].specs : k \in DOMAIN spec.links}
<1>1. found = Visit(own, time, environment, walk, spec, path)
  BY WalkVisits DEF Readable
<1>2. Nothing("no_safe_policy").outcome # "selected" /\ Nothing("rejected").outcome # "selected"
  BY DEF Nothing
<1>3. wrong # {} => below[first].outcome # "selected"
  <2>1. wrong \subseteq Nat
    BY DEF Readable
  <2>2. wrong # {} => first \in wrong
    <3> HIDE DEF wrong
    <3> QED
      BY <2>1, LeastOf
  <2> QED
    BY <2>2
<1>4. found = IF spec \in path \/ ~ InEnvironment(spec, environment)
              THEN Nothing("no_safe_policy")
              ELSE IF ~ Authentic(spec, own.events) THEN Nothing("rejected")
              ELSE IF ~ InForce(spec, own.events, time) THEN Nothing("no_safe_policy")
              ELSE IF wrong # {} THEN below[first]
              ELSE [outcome |-> "selected", events |-> {}, specs |-> all]
  BY <1>1 DEF Visit
<1>5. wrong = {} <=> \A k \in DOMAIN spec.links : below[k].outcome = "selected"
  OBVIOUS
<1> HIDE DEF walk, found, below, wrong, first, all
<1> QED
  BY <1>2, <1>3, <1>4, <1>5 DEF all, below, walk, found

LEMMA LinkVisited ==
    ASSUME NEW own, NEW walk, NEW spec, NEW path, NEW k \in DOMAIN spec.links,
           Targets(own, spec, k) # {}
    PROVE  Below(own, walk, spec, path)[k] = walk[<<Target(own, spec, k), path \cup {spec}>>]
BY DEF Below

LEMMA SelectedTarget ==
    ASSUME NEW own, NEW walk, NEW spec, NEW path, NEW k \in DOMAIN spec.links,
           Below(own, walk, spec, path)[k].outcome = "selected"
    PROVE  Targets(own, spec, k) # {} /\ Target(own, spec, k) \in own.versions
<1>1. Nothing("no_safe_policy").outcome # "selected"
  BY DEF Nothing
<1>2. Targets(own, spec, k) # {}
  BY <1>1 DEF Below
<1> QED
  BY <1>2, TargetIs

LEMMA SelectedLink ==
    ASSUME NEW own, NEW walk, NEW spec, NEW path, NEW k \in DOMAIN spec.links,
           Below(own, walk, spec, path)[k].outcome = "selected"
    PROVE  Below(own, walk, spec, path)[k] = walk[<<Target(own, spec, k), path \cup {spec}>>]
BY SelectedTarget, LinkVisited

\* A version that may be selected.
Fit(own, time, environment, v) ==
    /\ v \in own.versions /\ InEnvironment(v, environment)
    /\ Authentic(v, own.events) /\ InForce(v, own.events, time)

\* Whatever a walk selects, at any depth, was fit to be.
LEMMA SelectedAreFit ==
    ASSUME NEW own, NEW time, NEW environment, Readable(own),
           NEW spec \in own.versions, NEW path \in SUBSET own.versions,
           Walk(own, time, environment)[<<spec, path>>].outcome = "selected"
    PROVE  LET found == Walk(own, time, environment)[<<spec, path>>]
           IN  spec \in found.specs /\ \A v \in found.specs : Fit(own, time, environment, v)
<1> DEFINE V == own.versions
           walk == Walk(own, time, environment)
           Holds(s, p) == walk[<<s, p>>].outcome = "selected" =>
                \A v \in walk[<<s, p>>].specs : Fit(own, time, environment, v)
           Bad == {at \in V \X SUBSET V : ~ Holds(at[1], at[2])}
<1>1. ASSUME NEW s \in V, NEW p \in SUBSET V, <<s, p>> \in Bad
      PROVE  s \notin p /\ \E t \in V : <<t, p \cup {s}>> \in Bad
  <2> DEFINE below == Below(own, walk, s, p)
  <2>1. /\ walk[<<s, p>>].outcome = "selected"
        /\ \E v \in walk[<<s, p>>].specs : ~ Fit(own, time, environment, v)
    BY <1>1
  <2>2. /\ s \notin p /\ Fit(own, time, environment, s)
        /\ \A k \in DOMAIN s.links : below[k].outcome = "selected"
        /\ walk[<<s, p>>].specs = {s} \cup UNION {below[k].specs : k \in DOMAIN s.links}
    BY <2>1, SelectedVisit DEF Fit
  <2>3. PICK k \in DOMAIN s.links : \E v \in below[k].specs : ~ Fit(own, time, environment, v)
    BY <2>1, <2>2
  <2>4. /\ Target(own, s, k) \in V /\ p \cup {s} \in SUBSET V
        /\ below[k] = walk[<<Target(own, s, k), p \cup {s}>>]
    <3>1. p \cup {s} \in SUBSET V
      OBVIOUS
    <3>2. below[k].outcome = "selected"
      BY <2>2
    <3> HIDE DEF walk
    <3>3. Target(own, s, k) \in own.versions
      BY <3>2, SelectedTarget
    <3>4. below[k] = walk[<<Target(own, s, k), p \cup {s}>>]
      BY <3>2, SelectedLink
    <3> QED
      BY <3>1, <3>3, <3>4
  <2>5. ~ Holds(Target(own, s, k), p \cup {s})
    BY <2>2, <2>3, <2>4
  <2>6. <<Target(own, s, k), p \cup {s}>> \in Bad
    <3> HIDE DEF Holds
    <3> QED
      BY <2>4, <2>5
  <2> QED
    BY <2>2, <2>4, <2>6
<1>2. Bad = {}
  <2>1. Bad \in SUBSET (V \X SUBSET V)
    OBVIOUS
  <2>2. \A s \in V, p \in SUBSET V : <<s, p>> \in Bad =>
            s \notin p /\ \E t \in V : <<t, p \cup {s}>> \in Bad
    BY <1>1
  <2>3. IsFiniteSet(V)
    BY DEF Readable
  <2> HIDE DEF Bad, V
  <2> QED
    BY <2>1, <2>2, <2>3, PathInduction
<1>3. Holds(spec, path)
  BY <1>2
<1> QED
  BY <1>3, SelectedVisit

-----------------------------------------------------------------------------
(* What is selected *)

Roots(own, i, time, environment) ==
    {v \in Claimants(own, i, time, environment) : InForce(v, own.events, time)}
FoundAt(own, time, environment, v) == Walk(own, time, environment)[<<v, {}>>]
FoundSpecs(own, time, environment, roots) ==
    UNION {FoundAt(own, time, environment, v).specs : v \in roots}

\* Nothing stands against the selection.
Complete(own, i, time, environment) ==
    LET roots == Roots(own, i, time, environment)
    IN  /\ \A v \in Claimants(own, i, time, environment) : Authentic(v, own.events)
        /\ roots # {} /\ ~ TwoOfAModule(roots)
        /\ \A v \in roots : FoundAt(own, time, environment, v).outcome = "selected"
        /\ ~ TwoOfAModule(FoundSpecs(own, time, environment, roots))

\* The walks of the roots, the wrong ones among them and the first of these.
Walks(own, i, time, environment) ==
    {[root |-> v, found |-> FoundAt(own, time, environment, v)] :
        v \in Roots(own, i, time, environment)}
Wrong(own, i, time, environment) ==
    {w \in Walks(own, i, time, environment) : w.found.outcome # "selected"}
FirstWrong(own, i, time, environment) ==
    CHOOSE w \in Wrong(own, i, time, environment) :
        \A x \in Wrong(own, i, time, environment) : w.root.id <= x.root.id

LEMMA SelectCompleteIs ==
    ASSUME NEW c, NEW i, NEW time, NEW environment
    PROVE  LET own == CatalogOf(c, i.tenant)
               roots == Roots(own, i, time, environment)
               specs == FoundSpecs(own, time, environment, roots)
           IN  SelectComplete(c, i, time, environment) =
                 IF \E v \in Claimants(own, i, time, environment) : ~ Authentic(v, own.events)
                 THEN Nothing("rejected")
                 ELSE IF roots = {} THEN Nothing("no_safe_policy")
                 ELSE IF TwoOfAModule(roots) THEN Nothing("ambiguous")
                 ELSE IF Wrong(own, i, time, environment) # {}
                 THEN Nothing(FirstWrong(own, i, time, environment).found.outcome)
                 ELSE IF TwoOfAModule(specs) THEN Nothing("ambiguous")
                 ELSE Chosen(specs, own.events, time)
<1> DEFINE own == CatalogOf(c, i.tenant)
           roots == Roots(own, i, time, environment)
           walks == Walks(own, i, time, environment)
<1>1. FoundSpecs(own, time, environment, roots) = UNION {w.found.specs : w \in walks}
  <2>1. \A v \in roots :
          [root |-> v, found |-> FoundAt(own, time, environment, v)].found
                = FoundAt(own, time, environment, v)
    OBVIOUS
  <2>2. {w.found.specs : w \in walks} = {FoundAt(own, time, environment, v).specs : v \in roots}
    BY <2>1 DEF Walks
  <2> QED
    BY <2>2 DEF FoundSpecs
<1>2. SelectComplete(c, i, time, environment) =
         IF \E v \in Claimants(own, i, time, environment) : ~ Authentic(v, own.events)
         THEN Nothing("rejected")
         ELSE IF roots = {} THEN Nothing("no_safe_policy")
         ELSE IF TwoOfAModule(roots) THEN Nothing("ambiguous")
         ELSE IF Wrong(own, i, time, environment) # {}
         THEN Nothing(FirstWrong(own, i, time, environment).found.outcome)
         ELSE IF TwoOfAModule(UNION {w.found.specs : w \in walks}) THEN Nothing("ambiguous")
         ELSE Chosen(UNION {w.found.specs : w \in walks}, own.events, time)
  BY DEF SelectComplete, Roots, Walks, Wrong, FirstWrong, FoundAt
<1> HIDE DEF own, roots, walks
<1> QED
  BY <1>1, <1>2 DEF own, roots

LEMMA FirstIsWrong ==
    ASSUME NEW own, NEW i, NEW time, NEW environment, Readable(own),
           Wrong(own, i, time, environment) # {}
    PROVE  LET first == FirstWrong(own, i, time, environment)
           IN  /\ first \in Wrong(own, i, time, environment)
               /\ \A w \in Wrong(own, i, time, environment) : first.root.id <= w.root.id
<1> DEFINE wrong == Wrong(own, i, time, environment)
           ids == {w.root.id : w \in wrong}
<1>1. \A w \in wrong : w.root.id \in Nat
  BY DEF Wrong, Walks, Roots, Claimants, Readable
<1> HIDE DEF wrong
<1>2. ids \subseteq Nat /\ ids # {}
  BY <1>1 DEF wrong
<1>3. PICK least \in ids : \A k \in ids : least <= k
  <2> HIDE DEF ids
  <2> QED
    BY <1>2, LeastNatural
<1>4. PICK w \in wrong : \A x \in wrong : w.root.id <= x.root.id
  BY <1>3
<1> QED
  BY <1>4 DEF FirstWrong, wrong

LEMMA SelectionIs ==
    ASSUME NEW c, NEW i, NEW time, NEW environment, Readable(CatalogOf(c, i.tenant))
    PROVE  LET own == CatalogOf(c, i.tenant)
               found == SelectComplete(c, i, time, environment)
               specs == FoundSpecs(own, time, environment, Roots(own, i, time, environment))
           IN  /\ found.outcome = "selected" <=> Complete(own, i, time, environment)
               /\ found.outcome = "selected" => found = Chosen(specs, own.events, time)
               /\ found.outcome # "selected" => found.specs = {} /\ found.events = {}
<1> DEFINE own == CatalogOf(c, i.tenant)
           found == SelectComplete(c, i, time, environment)
           roots == Roots(own, i, time, environment)
           specs == FoundSpecs(own, time, environment, roots)
           wrong == Wrong(own, i, time, environment)
           first == FirstWrong(own, i, time, environment)
<1>1. found = IF \E v \in Claimants(own, i, time, environment) : ~ Authentic(v, own.events)
              THEN Nothing("rejected")
              ELSE IF roots = {} THEN Nothing("no_safe_policy")
              ELSE IF TwoOfAModule(roots) THEN Nothing("ambiguous")
              ELSE IF wrong # {} THEN Nothing(first.found.outcome)
              ELSE IF TwoOfAModule(specs) THEN Nothing("ambiguous")
              ELSE Chosen(specs, own.events, time)
  BY SelectCompleteIs
<1>2. \A outcome : /\ Nothing(outcome).outcome = outcome
                  /\ Nothing(outcome).specs = {} /\ Nothing(outcome).events = {}
  BY DEF Nothing
<1>3. Chosen(specs, own.events, time).outcome = "selected"
  BY DEF Chosen
<1>4. wrong # {} => first.found.outcome # "selected"
  BY FirstIsWrong DEF Wrong
<1>5. wrong = {} <=> \A v \in roots : FoundAt(own, time, environment, v).outcome = "selected"
  <2> DEFINE Walked(v) == [root |-> v, found |-> FoundAt(own, time, environment, v)]
  <2>1. \A v : Walked(v).found = FoundAt(own, time, environment, v)
    OBVIOUS
  <2>2. wrong = {w \in {Walked(v) : v \in roots} : w.found.outcome # "selected"}
    BY DEF Wrong, Walks
  <2> HIDE DEF wrong, roots, Walked
  <2> QED
    BY <2>1, <2>2
<1> HIDE DEF own, found, roots, specs, wrong, first
<1>6. /\ found.outcome = "selected" <=>
            /\ \A v \in Claimants(own, i, time, environment) : Authentic(v, own.events)
            /\ roots # {} /\ ~ TwoOfAModule(roots) /\ wrong = {} /\ ~ TwoOfAModule(specs)
      /\ found.outcome = "selected" => found = Chosen(specs, own.events, time)
      /\ found.outcome # "selected" => found.specs = {} /\ found.events = {}
  BY <1>1, <1>2, <1>3, <1>4
<1> QED
  BY <1>5, <1>6 DEF Complete, own, found, roots, specs

LEMMA ChosenFields ==
    ASSUME NEW specs, NEW events, NEW time
    PROVE  /\ Chosen(specs, events, time).specs = specs
           /\ Chosen(specs, events, time).events = UNION {Applied(s, events, time) : s \in specs}
BY DEF Chosen

\* Every event is of a version of the catalog and its tenant.
Owned(c) ==
    /\ \A e \in c.events : \E v \in c.versions : e.spec = SpecRef(v) /\ e.tenant = v.tenant
    /\ \A u, v \in c.versions : u.id = v.id => u = v

LEMMA WithinWorld ==
    ASSUME CatalogInv, NEW c, c.versions \subseteq world.versions,
           \A e \in c.events : \E v \in c.versions : e.spec = SpecRef(v) /\ e.tenant = v.tenant,
           NEW tenant
    PROVE  Owned(c) /\ Readable(CatalogOf(c, tenant))
<1> DEFINE own == CatalogOf(c, tenant)
<1>1. own.versions \in SUBSET world.versions /\ world \in Worlds
  BY DEF CatalogInv, WorldInv, CatalogOf
<1>2. IsFiniteSet(world.versions)
  BY <1>1, EnterpriseAssumption
<1>3. \A v \in world.versions :
        /\ v.id \in Nat /\ DOMAIN v.links \subseteq Nat
        /\ \A u \in world.versions : u.id = v.id => u = v
  BY <1>1, EnterpriseAssumption
<1> HIDE DEF own
<1>4. IsFiniteSet(own.versions)
  BY <1>1, <1>2, FS_Subset
<1>5. Readable(own)
  BY <1>1, <1>3, <1>4 DEF Readable
<1> QED
  BY <1>3, <1>5 DEF Owned, own

\* A reader of one tenant's catalog sees all events of the tenant's versions.
LEMMA OwnChain ==
    ASSUME NEW c, Owned(c), NEW tenant, NEW v \in CatalogOf(c, tenant).versions
    PROVE  /\ v \in c.versions
           /\ Relevant(v, CatalogOf(c, tenant).events) = Relevant(v, c.events)
<1>1. v \in c.versions /\ v.tenant = tenant
  BY DEF CatalogOf
<1>2. ASSUME NEW e \in c.events, e.spec.id = v.id PROVE e.tenant = tenant
  <2>1. PICK u \in c.versions : e.spec = SpecRef(u) /\ e.tenant = u.tenant
    BY DEF Owned
  <2>2. u = v
    BY <1>1, <1>2, <2>1 DEF Owned, SpecRef
  <2> QED
    BY <1>1, <2>1, <2>2
<1> QED
  BY <1>1, <1>2 DEF Relevant, CatalogOf

\* What is read of the catalog in a run.
LEMMA CatalogIsReadable ==
    ASSUME CatalogInv, NEW tenant
    PROVE  Owned(catalog) /\ Readable(CatalogOf(catalog, tenant))
BY WithinWorld DEF CatalogInv, WorldInv, EventsInv

\* What select finds in one namespace, select_complete finds, too, when both
\* select (selection.py, select and select_complete).
THEOREM EntrancesDoAgree == Spec => []EntrancesAgree
<1>1. CatalogInv => EntrancesAgree
  <2> SUFFICES ASSUME CatalogInv, NEW i \in world.intents, NEW time \in Times,
                      NEW environment \in world.environments, NEW namespace,
                      SelectionFor(i, time, environment).outcome = "selected"
               PROVE  LET narrow == Select(catalog, i, time, namespace, environment)
                          whole == SelectionFor(i, time, environment)
                      IN  narrow.specs \subseteq whole.specs /\ narrow.events \subseteq whole.events
    BY DEF EntrancesAgree
  <2> DEFINE own == CatalogOf(catalog, i.tenant)
             narrow == Select(catalog, i, time, namespace, environment)
             whole == SelectionFor(i, time, environment)
             roots == Roots(own, i, time, environment)
             specs == FoundSpecs(own, time, environment, roots)
             candidates == Candidates(own, i, time, namespace, environment)
  <2>1. Readable(own)
    BY CatalogIsReadable
  <2>2. /\ Complete(own, i, time, environment) /\ whole.specs = specs
        /\ whole.events = UNION {Applied(s, own.events, time) : s \in specs}
    BY <2>1, SelectionIs, ChosenFields DEF SelectionFor
  <2>3. \/ narrow.specs = {} /\ narrow.events = {}
        \/ /\ narrow.specs = candidates
           /\ narrow.events = UNION {Applied(s, own.events, time) : s \in candidates}
    <3>1. \A outcome : Nothing(outcome).specs = {} /\ Nothing(outcome).events = {}
      BY DEF Nothing
    <3> HIDE DEF own, candidates
    <3> QED
      BY <3>1, ChosenFields DEF Select, own, candidates
  <2>4. candidates \subseteq specs
    <3>1. candidates \subseteq roots
      BY DEF Candidates, Roots, Claimants, InForce
    <3>2. \A v \in roots : v \in own.versions /\ {} \in SUBSET own.versions
      BY DEF Roots, Claimants
    <3>3. \A v \in roots : v \in FoundAt(own, time, environment, v).specs
      BY <2>1, <2>2, <3>2, SelectedAreFit DEF Complete, FoundAt
    <3> QED
      BY <3>1, <3>3 DEF FoundSpecs
  <2> HIDE DEF narrow, whole, candidates, specs
  <2> QED
    BY <2>2, <2>3, <2>4 DEF narrow, whole
<1> QED
  BY <1>1, CatalogInvariant, PTL

-----------------------------------------------------------------------------
(* Retirement *)

\* In an intact chain nothing follows a retirement, so that it stays.
LEMMA RetiredState ==
    ASSUME CatalogInv, NEW spec, NEW events, NEW time \in Nat, time >= clock,
           Relevant(spec, events) = Relevant(spec, catalog.events),
           ChainIntact(spec, events), Retired(spec) # {}
    PROVE  StateAt(spec, events, time) = "retired"
<1> DEFINE chain == Relevant(spec, catalog.events)
           applied == Applied(spec, events, time)
<1>1. PICK e \in chain : e.next_state = "retired" /\ AppliesAt(e) <= clock
  BY DEF Retired
<1>2. applied = {f \in chain : AppliesAt(f) <= time}
  BY DEF Applied
<1>3. e \in applied
  <2>1. AppliesAt(e) \in Nat /\ clock \in Nat
    BY <1>1 DEF CatalogInv, WorldInv, EventsInv, InTime, AppliesAt, Relevant
  <2> QED
    BY <1>1, <1>2, <2>1
<1>4. Orderly(chain) /\ LinkedChain(spec, chain)
  BY ChainsAreOrderly DEF ChainIntact, LinkedChain
<1>5. \A f \in chain : f.prior_state # "retired"
  BY DEF CatalogInv, EventsInv, Relevant
<1> HIDE DEF chain, applied
<1>6. \A h \in chain : ~ (e.sequence < h.sequence)
  BY <1>1, <1>4, <1>5, NextInChain
<1>7. /\ \A f \in applied : f.sequence \in Nat
      /\ \A f, g \in applied : f.sequence = g.sequence => f = g
      /\ \A f \in applied : f = e \/ f.sequence < e.sequence
  BY <1>1, <1>2, <1>4, <1>6 DEF Orderly
<1>8. LastOf(applied) = e
  BY <1>3, <1>7, LastIs
<1>9. StateAt(spec, events, time) = LastOf(applied).next_state
  BY <1>3 DEF StateAt, LastOf, applied
<1> QED
  BY <1>1, <1>8, <1>9

\* Whatever is selected, at any depth, was fit to be.
LEMMA SelectionIsFit ==
    ASSUME NEW c, NEW i, NEW time, NEW environment, Readable(CatalogOf(c, i.tenant)),
           NEW v \in SelectComplete(c, i, time, environment).specs
    PROVE  Fit(CatalogOf(c, i.tenant), time, environment, v)
<1> DEFINE own == CatalogOf(c, i.tenant)
           found == SelectComplete(c, i, time, environment)
           roots == Roots(own, i, time, environment)
           specs == FoundSpecs(own, time, environment, roots)
<1>1. found.outcome = "selected"
  BY SelectionIs
<1>2. found = Chosen(specs, own.events, time) /\ Complete(own, i, time, environment)
  BY <1>1, SelectionIs
<1>3. v \in specs
  BY <1>2, ChosenFields
<1>4. PICK r \in roots : v \in FoundAt(own, time, environment, r).specs
  BY <1>3 DEF FoundSpecs
<1>5. r \in own.versions /\ {} \in SUBSET own.versions
  BY <1>4 DEF Roots, Claimants
<1>6. FoundAt(own, time, environment, r).outcome = "selected"
  BY <1>2, <1>4 DEF Complete
<1> HIDE DEF own, roots
<1> QED
  BY <1>4, <1>5, <1>6, SelectedAreFit DEF FoundAt, own

\* A version whose retirement has taken effect is in no selection any more
\* (selection.py, _state_at).
THEOREM RetiredForGood == Spec => []RetirementIsFinal
<1>1. CatalogInv => RetirementIsFinal
  <2> SUFFICES ASSUME CatalogInv, NEW spec \in catalog.versions, Retired(spec) # {},
                      NEW i \in world.intents, NEW time \in clock..world.max_time,
                      NEW environment \in world.environments,
                      spec \in SelectionFor(i, time, environment).specs
               PROVE  FALSE
    BY DEF RetirementIsFinal
  <2> DEFINE own == CatalogOf(catalog, i.tenant)
  <2>1. Fit(own, time, environment, spec)
    BY CatalogIsReadable, SelectionIsFit DEF SelectionFor
  <2>2. /\ spec \in own.versions /\ StateAt(spec, own.events, time) = "published"
        /\ ChainIntact(spec, own.events)
    BY <2>1 DEF Fit, InForce, Authentic
  <2>3. time \in Nat /\ time >= clock
    BY DEF CatalogInv, WorldInv
  <2>4. Relevant(spec, own.events) = Relevant(spec, catalog.events)
    BY <2>2, CatalogIsReadable, OwnChain
  <2> HIDE DEF own
  <2>5. StateAt(spec, own.events, time) = "retired"
    BY <2>2, <2>3, <2>4, RetiredState
  <2> QED
    BY <2>2, <2>5
<1> QED
  BY <1>1, CatalogInvariant, PTL

-----------------------------------------------------------------------------
(* What is linked to a root, directly or not: the least set that holds the *)
(* roots and every version linked from one of its own.                     *)

LEMMA FromZero ==
    ASSUME NEW N \in Nat, NEW S, 0 \in S,
           \A n \in 0..N : n # 0 /\ n - 1 \in S => n \in S
    PROVE  \A n \in 0..N : n \in S
<1> DEFINE Left == {n \in 0..N : n \notin S}
<1>1. SUFFICES ASSUME Left # {} PROVE FALSE
  OBVIOUS
<1>2. Left \subseteq Nat
  OBVIOUS
<1>3. PICK m \in Left : \A k \in Left : m <= k
  <2> HIDE DEF Left
  <2> QED
    BY <1>1, <1>2, LeastNatural
<1>4. m \in 0..N /\ m \notin S /\ m # 0
  OBVIOUS
<1>5. m - 1 \in 0..N /\ m - 1 \notin S
  BY <1>4
<1>6. m - 1 \in Left
  BY <1>5
<1> HIDE DEF Left
<1> QED
  BY <1>3, <1>4, <1>6

\* The first n steps of the search.
NextStep(versions, roots, f, m) == IF m = 0 THEN roots ELSE LinkedFrom(versions, f[m - 1])
Steps(versions, roots, f, n) ==
    \A m \in 0..n : f[m] = NextStep(versions, roots, f, m)

LEMMA StepsExist ==
    ASSUME NEW V, NEW roots, NEW N \in Nat
    PROVE  \E f : Steps(V, roots, f, N)
<1> DEFINE S == {n \in 0..N : \E f : Steps(V, roots, f, n)}
<1>1. 0 \in S
  <2>1. Steps(V, roots, [m \in {0} |-> roots], 0)
    BY DEF Steps, NextStep
  <2> QED
    BY <2>1
<1>2. ASSUME NEW n \in 0..N, n # 0, n - 1 \in S PROVE n \in S
  <2>1. PICK f : Steps(V, roots, f, n - 1)
    BY <1>2
  <2> DEFINE g == [m \in 0..n |-> NextStep(V, roots, f, m)]
  <2>2. \A m \in 0..(n - 1) : g[m] = f[m]
    BY <2>1 DEF Steps
  <2>3. ASSUME NEW m \in 0..n PROVE g[m] = NextStep(V, roots, g, m)
    <3>1. CASE m = 0
      BY <3>1 DEF NextStep
    <3>2. CASE m # 0
      <4>1. m - 1 \in 0..(n - 1)
        BY <3>2
      <4>2. g[m - 1] = f[m - 1]
        BY <2>2, <4>1
      <4>3. g[m] = LinkedFrom(V, f[m - 1])
        BY <3>2 DEF NextStep
      <4> HIDE DEF g
      <4> QED
        BY <3>2, <4>2, <4>3 DEF NextStep
    <3> QED
      BY <3>1, <3>2
  <2>4. Steps(V, roots, g, n)
    <3> HIDE DEF g
    <3> QED
      BY <2>3 DEF Steps
  <2> QED
    BY <2>4
<1>3. \A n \in 0..N : n \in S
  <2> HIDE DEF S
  <2> QED
    BY <1>1, <1>2, FromZero
<1>4. N \in S
  <2> HIDE DEF S
  <2> QED
    BY <1>3
<1> QED
  BY <1>4

LEMMA ReachSteps ==
    ASSUME NEW V, NEW roots, IsFiniteSet(V)
    PROVE  \E f : Steps(V, roots, f, Cardinality(V)) /\ Reach(V, roots) = f[Cardinality(V)]
<1> DEFINE N == Cardinality(V)
           Function(f) == [n \in 0..N |-> NextStep(V, roots, f, n)]
           after == CHOOSE f : f = Function(f)
<1>1. N \in Nat
  BY FS_CardinalityType
<1>2. PICK f : Steps(V, roots, f, N)
  BY <1>1, StepsExist
<1> DEFINE g == Function(f)
<1>3. \A n \in 0..N : g[n] = f[n]
  BY <1>2 DEF Steps
<1>4. \A n \in 0..N : NextStep(V, roots, f, n) = NextStep(V, roots, g, n)
  <2> SUFFICES ASSUME NEW n \in 0..N
               PROVE  NextStep(V, roots, f, n) = NextStep(V, roots, g, n)
    OBVIOUS
  <2>1. n # 0 => n - 1 \in 0..N
    BY <1>1
  <2> HIDE DEF g
  <2> QED
    BY <1>3, <2>1 DEF NextStep
<1>5. g = Function(g)
  <2> HIDE DEF g
  <2> QED
    BY <1>4 DEF g
<1>6. after = Function(after)
  <2> HIDE DEF Function, g
  <2> QED
    BY <1>5
<1>7. Reach(V, roots) = after[N]
  BY DEF Reach, NextStep
<1>8. Steps(V, roots, after, N)
  <2> HIDE DEF after
  <2> QED
    BY <1>6 DEF Steps
<1> HIDE DEF after
<1> QED
  BY <1>7, <1>8

ClosedUnder(versions, S) == \A s \in S : LinkedBy(versions, s) \subseteq S

LEMMA ReachWithin ==
    ASSUME NEW V, NEW roots, IsFiniteSet(V),
           NEW C, roots \subseteq C, ClosedUnder(V, C)
    PROVE  Reach(V, roots) \subseteq C
<1>1. PICK f : Steps(V, roots, f, Cardinality(V)) /\ Reach(V, roots) = f[Cardinality(V)]
  BY ReachSteps
<1> DEFINE N == Cardinality(V)
           S == {n \in 0..N : f[n] \subseteq C}
<1>2. N \in Nat
  BY FS_CardinalityType
<1>3. 0 \in S
  BY <1>1, <1>2 DEF Steps, NextStep
<1>4. ASSUME NEW n \in 0..N, n # 0, n - 1 \in S PROVE n \in S
  <2>1. f[n] = LinkedFrom(V, f[n - 1]) /\ f[n - 1] \subseteq C
    BY <1>1, <1>4 DEF Steps, NextStep
  <2>2. LinkedFrom(V, f[n - 1]) \subseteq C
    BY <2>1 DEF LinkedFrom, ClosedUnder
  <2> QED
    BY <2>1, <2>2
<1>5. \A n \in 0..N : n \in S
  <2> HIDE DEF S, N
  <2> QED
    BY <1>2, <1>3, <1>4, FromZero
<1> QED
  BY <1>1, <1>2, <1>5

LEMMA ReachIsClosed ==
    ASSUME NEW V, IsFiniteSet(V), NEW roots \in SUBSET V
    PROVE  /\ roots \subseteq Reach(V, roots) /\ Reach(V, roots) \subseteq V
           /\ ClosedUnder(V, Reach(V, roots))
<1>1. PICK f : Steps(V, roots, f, Cardinality(V)) /\ Reach(V, roots) = f[Cardinality(V)]
  BY ReachSteps
<1> DEFINE N == Cardinality(V)
           Known(n) == roots \subseteq f[n] /\ f[n] \subseteq V
           Grown(n) == ClosedUnder(V, f[n]) \/ n < Cardinality(f[n])
           S == {n \in 0..N : Known(n) /\ Grown(n)}
<1>2. N \in Nat
  BY FS_CardinalityType
<1>3. 0 \in S
  <2>1. f[0] = roots
    BY <1>1, <1>2 DEF Steps, NextStep
  <2>2. CASE roots = {}
    BY <1>2, <2>1, <2>2 DEF ClosedUnder
  <2>3. CASE roots # {}
    <3>1. IsFiniteSet(roots)
      BY FS_Subset
    <3>2. Cardinality(roots) \in Nat /\ Cardinality(roots) # 0
      BY <2>3, <3>1, FS_CardinalityType, FS_EmptySet
    <3> QED
      BY <1>2, <2>1, <3>2
  <2> QED
    BY <2>2, <2>3
<1>4. ASSUME NEW n \in 0..N, n # 0, n - 1 \in S PROVE n \in S
  <2>1. f[n] = LinkedFrom(V, f[n - 1]) /\ Known(n - 1) /\ Grown(n - 1)
    BY <1>1, <1>4 DEF Steps, NextStep
  <2>2. f[n - 1] \subseteq f[n] /\ Known(n)
    BY <2>1 DEF LinkedFrom, LinkedBy
  <2>3. CASE ClosedUnder(V, f[n - 1])
    <3>1. f[n] = f[n - 1]
      BY <2>1, <2>3 DEF LinkedFrom, ClosedUnder
    <3> QED
      BY <2>2, <2>3, <3>1
  <2>4. CASE ~ ClosedUnder(V, f[n - 1])
    <3>1. PICK s \in f[n - 1] : ~ (LinkedBy(V, s) \subseteq f[n - 1])
      BY <2>4 DEF ClosedUnder
    <3>2. f[n] # f[n - 1]
      BY <2>1, <3>1 DEF LinkedFrom
    <3>3. IsFiniteSet(f[n])
      BY <2>2, FS_Subset
    <3>4. Cardinality(f[n - 1]) < Cardinality(f[n])
          /\ Cardinality(f[n - 1]) \in Nat /\ Cardinality(f[n]) \in Nat
      <4>1. Cardinality(f[n - 1]) <= Cardinality(f[n])
            /\ (Cardinality(f[n - 1]) = Cardinality(f[n]) => f[n - 1] = f[n])
        BY <2>2, <3>3, FS_Subset
      <4>2. IsFiniteSet(f[n - 1])
        BY <2>2, <3>3, FS_Subset
      <4> QED
        BY <3>2, <3>3, <4>1, <4>2, FS_CardinalityType
    <3>5. n - 1 < Cardinality(f[n - 1])
      BY <2>1, <2>4
    <3>6. n < Cardinality(f[n])
      BY <3>4, <3>5
    <3> QED
      BY <2>2, <3>6
  <2> QED
    BY <2>3, <2>4
<1>5. \A n \in 0..N : n \in S
  <2> HIDE DEF S, N
  <2> QED
    BY <1>2, <1>3, <1>4, FromZero
<1>6. Known(N) /\ Grown(N)
  BY <1>2, <1>5
<1>7. Cardinality(f[N]) <= N
  BY <1>6, FS_Subset
<1>8. Cardinality(f[N]) \in Nat
  <2>1. IsFiniteSet(f[N])
    BY <1>6, FS_Subset
  <2> QED
    BY <2>1, FS_CardinalityType
<1>9. ClosedUnder(V, f[N])
  BY <1>2, <1>6, <1>7, <1>8
<1> QED
  BY <1>1, <1>6, <1>9

-----------------------------------------------------------------------------
(* What a walk selects is what is linked to where it began *)

LEMMA LinkedAreTargets ==
    ASSUME NEW own, Readable(own), NEW s, NEW t
    PROVE  t \in LinkedBy(own.versions, s) <=>
                \E k \in DOMAIN s.links : Targets(own, s, k) # {} /\ t = Target(own, s, k)
<1>1. ASSUME NEW k, NEW u \in Targets(own, s, k), NEW v \in Targets(own, s, k) PROVE u = v
  <2>1. u \in own.versions /\ v \in own.versions /\ u.id = v.id
    BY DEF Targets, SpecRef
  <2> QED
    BY <2>1 DEF Readable
<1>2. t \in LinkedBy(own.versions, s) <=> \E k \in DOMAIN s.links : t \in Targets(own, s, k)
  BY DEF LinkedBy, Targets
<1>3. \A k : Targets(own, s, k) # {} => Target(own, s, k) \in Targets(own, s, k)
  BY DEF Target
<1> QED
  BY <1>1, <1>2, <1>3

Selected(own, time, environment, spec, path) ==
    Walk(own, time, environment)[<<spec, path>>].outcome = "selected"
SelectedSpecs(own, time, environment, spec, path) ==
    Walk(own, time, environment)[<<spec, path>>].specs

\* A selected version has all its links, each selected with a longer path.
LEMMA SelectedBelow ==
    ASSUME NEW own, NEW time, NEW environment, Readable(own),
           NEW s \in own.versions, NEW p \in SUBSET own.versions,
           Selected(own, time, environment, s, p)
    PROVE  /\ s \notin p /\ Fit(own, time, environment, s)
           /\ p \cup {s} \in SUBSET own.versions
           /\ \A k \in DOMAIN s.links : Targets(own, s, k) # {}
           /\ \A t \in LinkedBy(own.versions, s) :
                t \in own.versions /\ Selected(own, time, environment, t, p \cup {s})
           /\ \A v : v \in SelectedSpecs(own, time, environment, s, p) <=>
                \/ v = s
                \/ \E t \in LinkedBy(own.versions, s) :
                        v \in SelectedSpecs(own, time, environment, t, p \cup {s})
<1> DEFINE walk == Walk(own, time, environment)
           below == Below(own, walk, s, p)
           Found(t) == walk[<<t, p \cup {s}>>]
           L == LinkedBy(own.versions, s)
<1>1. /\ s \notin p /\ Fit(own, time, environment, s)
      /\ \A k \in DOMAIN s.links : below[k].outcome = "selected"
      /\ walk[<<s, p>>].specs = {s} \cup UNION {below[k].specs : k \in DOMAIN s.links}
  BY SelectedVisit DEF Fit, Selected
<1>2. ASSUME NEW k \in DOMAIN s.links
      PROVE  /\ Targets(own, s, k) # {} /\ Target(own, s, k) \in own.versions
             /\ below[k] = Found(Target(own, s, k))
  <2>1. below[k].outcome = "selected"
    BY <1>1
  <2> HIDE DEF walk
  <2>2. Targets(own, s, k) # {} /\ Target(own, s, k) \in own.versions
    BY <2>1, SelectedTarget
  <2>3. Below(own, walk, s, p)[k] = walk[<<Target(own, s, k), p \cup {s}>>]
    BY <2>2, LinkVisited
  <2> QED
    BY <2>2, <2>3
<1>3. \A t : t \in L <=> \E k \in DOMAIN s.links : t = Target(own, s, k)
  <2>1. \A k \in DOMAIN s.links : Targets(own, s, k) # {}
    BY <1>2
  <2>2. \A t : t \in L <=> \E k \in DOMAIN s.links : Targets(own, s, k) # {} /\ t = Target(own, s, k)
    BY LinkedAreTargets
  <2> HIDE DEF L
  <2> QED
    BY <2>1, <2>2
<1> HIDE DEF walk, below, Found, L
<1>4. \A v : v \in walk[<<s, p>>].specs <=> v = s \/ \E t \in L : v \in Found(t).specs
  <2>1. UNION {below[k].specs : k \in DOMAIN s.links} = UNION {Found(t).specs : t \in L}
    BY <1>2, <1>3
  <2>2. walk[<<s, p>>].specs = {s} \cup UNION {Found(t).specs : t \in L}
    BY <1>1, <2>1
  <2> QED
    BY <2>2
<1>5. \A t \in L : t \in own.versions /\ Found(t).outcome = "selected"
  BY <1>1, <1>2, <1>3
<1>6. /\ \A t \in L :
            t \in own.versions /\ Selected(own, time, environment, t, p \cup {s})
      /\ \A v : v \in SelectedSpecs(own, time, environment, s, p) <=>
            \/ v = s
            \/ \E t \in L : v \in SelectedSpecs(own, time, environment, t, p \cup {s})
  BY <1>4, <1>5 DEF Selected, SelectedSpecs, walk, Found
<1> QED
  BY <1>1, <1>2, <1>6 DEF L

\* It keeps off the versions being visited.
LEMMA SelectedOffPath ==
    ASSUME NEW own, NEW time, NEW environment, Readable(own),
           NEW spec \in own.versions, NEW path \in SUBSET own.versions,
           Selected(own, time, environment, spec, path)
    PROVE  SelectedSpecs(own, time, environment, spec, path) \cap path = {}
<1> DEFINE V == own.versions
           F(s, p) == SelectedSpecs(own, time, environment, s, p)
           Chosen1(s, p) == Selected(own, time, environment, s, p)
           Bad == {at \in V \X SUBSET V :
                        Chosen1(at[1], at[2]) /\ F(at[1], at[2]) \cap at[2] # {}}
<1>1. ASSUME NEW s \in V, NEW p \in SUBSET V, <<s, p>> \in Bad
      PROVE  s \notin p /\ \E t \in V : <<t, p \cup {s}>> \in Bad
  <2>1. PICK v \in F(s, p) : v \in p /\ Chosen1(s, p)
    BY <1>1
  <2>2. /\ s \notin p /\ p \cup {s} \in SUBSET V
        /\ \A t \in LinkedBy(V, s) : t \in V /\ Chosen1(t, p \cup {s})
        /\ \A u : u \in F(s, p) <=> u = s \/ \E t \in LinkedBy(V, s) : u \in F(t, p \cup {s})
    BY <2>1, SelectedBelow
  <2> HIDE DEF F, Chosen1
  <2>3. PICK t \in LinkedBy(V, s) : v \in F(t, p \cup {s})
    BY <2>1, <2>2
  <2>4. <<t, p \cup {s}>> \in Bad
    BY <2>1, <2>2, <2>3
  <2> QED
    BY <2>2, <2>3, <2>4
<1>2. Bad = {}
  <2>1. Bad \in SUBSET (V \X SUBSET V)
    OBVIOUS
  <2>2. \A s \in V, p \in SUBSET V : <<s, p>> \in Bad =>
            s \notin p /\ \E t \in V : <<t, p \cup {s}>> \in Bad
    BY <1>1
  <2>3. IsFiniteSet(V)
    BY DEF Readable
  <2> HIDE DEF Bad, V
  <2> QED
    BY <2>1, <2>2, <2>3, PathInduction
<1>3. ASSUME F(spec, path) \cap path # {} PROVE <<spec, path>> \in Bad
  <2>1. Chosen1(spec, path)
    OBVIOUS
  <2> HIDE DEF F, Chosen1
  <2> QED
    BY <1>3, <2>1
<1> HIDE DEF Bad
<1> QED
  BY <1>2, <1>3

\* It holds all that its versions are linked to, and every link leads somewhere.
LEMMA SelectedIsClosed ==
    ASSUME NEW own, NEW time, NEW environment, Readable(own),
           NEW spec \in own.versions, NEW path \in SUBSET own.versions,
           Selected(own, time, environment, spec, path)
    PROVE  LET found == SelectedSpecs(own, time, environment, spec, path)
           IN  /\ spec \in found /\ ClosedUnder(own.versions, found)
               /\ \A v \in found : \A k \in DOMAIN v.links : Targets(own, v, k) # {}
<1> DEFINE V == own.versions
           F(s, p) == SelectedSpecs(own, time, environment, s, p)
           Chosen1(s, p) == Selected(own, time, environment, s, p)
           Fine(v, S) == /\ LinkedBy(V, v) \subseteq S
                         /\ \A k \in DOMAIN v.links : Targets(own, v, k) # {}
           Bad == {at \in V \X SUBSET V :
                        /\ Chosen1(at[1], at[2])
                        /\ \E v \in F(at[1], at[2]) : ~ Fine(v, F(at[1], at[2]))}
<1>1. \A s \in V, p \in SUBSET V : Chosen1(s, p) => s \in F(s, p)
  BY SelectedBelow
<1>2. ASSUME NEW s \in V, NEW p \in SUBSET V, <<s, p>> \in Bad
      PROVE  s \notin p /\ \E t \in V : <<t, p \cup {s}>> \in Bad
  <2>1. PICK v \in F(s, p) : ~ Fine(v, F(s, p)) /\ Chosen1(s, p)
    BY <1>2
  <2>2. /\ s \notin p /\ p \cup {s} \in SUBSET V
        /\ \A k \in DOMAIN s.links : Targets(own, s, k) # {}
        /\ \A t \in LinkedBy(V, s) : t \in V /\ Chosen1(t, p \cup {s})
        /\ \A u : u \in F(s, p) <=> u = s \/ \E t \in LinkedBy(V, s) : u \in F(t, p \cup {s})
    BY <2>1, SelectedBelow
  <2> HIDE DEF F, Chosen1
  <2>3. Fine(s, F(s, p))
    BY <1>1, <2>2
  <2>4. PICK t \in LinkedBy(V, s) : v \in F(t, p \cup {s})
    BY <2>1, <2>2, <2>3
  <2>5. F(t, p \cup {s}) \subseteq F(s, p)
    BY <2>2
  <2>6. ~ Fine(v, F(t, p \cup {s}))
    BY <2>1, <2>5
  <2>7. <<t, p \cup {s}>> \in Bad
    <3> HIDE DEF Fine
    <3> QED
      BY <2>2, <2>4, <2>6
  <2> QED
    BY <2>2, <2>4, <2>7
<1>3. Bad = {}
  <2>1. Bad \in SUBSET (V \X SUBSET V)
    OBVIOUS
  <2>2. \A s \in V, p \in SUBSET V : <<s, p>> \in Bad =>
            s \notin p /\ \E t \in V : <<t, p \cup {s}>> \in Bad
    BY <1>2
  <2>3. IsFiniteSet(V)
    BY DEF Readable
  <2> HIDE DEF Bad, V
  <2> QED
    BY <2>1, <2>2, <2>3, PathInduction
<1>4. ASSUME NEW v \in F(spec, path), ~ Fine(v, F(spec, path)) PROVE <<spec, path>> \in Bad
  <2>1. Chosen1(spec, path)
    OBVIOUS
  <2> HIDE DEF F, Chosen1, Fine
  <2> QED
    BY <1>4, <2>1
<1>5. \A v \in F(spec, path) : Fine(v, F(spec, path))
  <2> HIDE DEF Bad, F, Fine
  <2> QED
    BY <1>3, <1>4
<1>6. spec \in F(spec, path)
  BY <1>1
<1> HIDE DEF Bad
<1> QED
  BY <1>5, <1>6 DEF ClosedUnder

\* It is within every closed set that it began in.
LEMMA SelectedWithin ==
    ASSUME NEW own, NEW time, NEW environment, Readable(own),
           NEW spec \in own.versions, NEW path \in SUBSET own.versions,
           Selected(own, time, environment, spec, path),
           NEW C, spec \in C, ClosedUnder(own.versions, C)
    PROVE  SelectedSpecs(own, time, environment, spec, path) \subseteq C
<1> DEFINE V == own.versions
           F(s, p) == SelectedSpecs(own, time, environment, s, p)
           Chosen1(s, p) == Selected(own, time, environment, s, p)
           Bad == {at \in V \X SUBSET V :
                        /\ Chosen1(at[1], at[2]) /\ at[1] \in C
                        /\ ~ (F(at[1], at[2]) \subseteq C)}
<1>1. ASSUME NEW s \in V, NEW p \in SUBSET V, <<s, p>> \in Bad
      PROVE  s \notin p /\ \E t \in V : <<t, p \cup {s}>> \in Bad
  <2>1. PICK v \in F(s, p) : v \notin C /\ s \in C /\ Chosen1(s, p)
    BY <1>1
  <2>2. /\ s \notin p /\ p \cup {s} \in SUBSET V
        /\ \A t \in LinkedBy(V, s) : t \in V /\ Chosen1(t, p \cup {s})
        /\ \A u : u \in F(s, p) <=> u = s \/ \E t \in LinkedBy(V, s) : u \in F(t, p \cup {s})
    BY <2>1, SelectedBelow
  <2> HIDE DEF F, Chosen1
  <2>3. PICK t \in LinkedBy(V, s) : v \in F(t, p \cup {s})
    BY <2>1, <2>2
  <2>4. t \in C
    BY <2>1, <2>3 DEF ClosedUnder
  <2>5. <<t, p \cup {s}>> \in Bad
    BY <2>1, <2>2, <2>3, <2>4
  <2> QED
    BY <2>2, <2>3, <2>5
<1>2. Bad = {}
  <2>1. Bad \in SUBSET (V \X SUBSET V)
    OBVIOUS
  <2>2. \A s \in V, p \in SUBSET V : <<s, p>> \in Bad =>
            s \notin p /\ \E t \in V : <<t, p \cup {s}>> \in Bad
    BY <1>1
  <2>3. IsFiniteSet(V)
    BY DEF Readable
  <2> HIDE DEF Bad, V
  <2> QED
    BY <2>1, <2>2, <2>3, PathInduction
<1>3. ASSUME ~ (F(spec, path) \subseteq C) PROVE <<spec, path>> \in Bad
  <2>1. Chosen1(spec, path)
    OBVIOUS
  <2> HIDE DEF F, Chosen1
  <2> QED
    BY <1>3, <2>1
<1> HIDE DEF Bad
<1> QED
  BY <1>2, <1>3

\* None of its versions is linked to itself, however far around.
LEMMA SelectedHasNoCircle ==
    ASSUME NEW own, NEW time, NEW environment, Readable(own),
           NEW spec \in own.versions, NEW path \in SUBSET own.versions,
           Selected(own, time, environment, spec, path),
           NEW c \in SelectedSpecs(own, time, environment, spec, path)
    PROVE  c \notin Reach(own.versions, LinkedBy(own.versions, c))
<1> DEFINE V == own.versions
           F(s, p) == SelectedSpecs(own, time, environment, s, p)
           Chosen1(s, p) == Selected(own, time, environment, s, p)
           Circles == {v \in V : v \in Reach(V, LinkedBy(V, v))}
           Bad == {at \in V \X SUBSET V :
                        Chosen1(at[1], at[2]) /\ F(at[1], at[2]) \cap Circles # {}}
<1>1. ASSUME NEW s \in V, NEW p \in SUBSET V, <<s, p>> \in Bad
      PROVE  s \notin p /\ \E t \in V : <<t, p \cup {s}>> \in Bad
  <2>1. PICK v \in F(s, p) : v \in Circles /\ Chosen1(s, p)
    BY <1>1
  <2>2. /\ s \notin p /\ p \cup {s} \in SUBSET V
        /\ \A t \in LinkedBy(V, s) : t \in V /\ Chosen1(t, p \cup {s})
        /\ \A u : u \in F(s, p) <=> u = s \/ \E t \in LinkedBy(V, s) : u \in F(t, p \cup {s})
    BY <2>1, SelectedBelow
  <2> DEFINE C == UNION {F(t, p \cup {s}) : t \in LinkedBy(V, s)}
  <2>3. ASSUME NEW t \in LinkedBy(V, s)
        PROVE  /\ t \in F(t, p \cup {s}) /\ ClosedUnder(V, F(t, p \cup {s}))
               /\ s \notin F(t, p \cup {s})
    BY <2>2, SelectedIsClosed, SelectedOffPath
  <2>4. s \notin Circles
    <3> HIDE DEF F, Chosen1
    <3>1. LinkedBy(V, s) \subseteq C /\ s \notin C
      BY <2>3
    <3>2. ClosedUnder(V, C)
      BY <2>3 DEF ClosedUnder
    <3>3. IsFiniteSet(V)
      BY DEF Readable
    <3> HIDE DEF C, V
    <3> QED
      BY <3>1, <3>2, <3>3, ReachWithin
  <2> HIDE DEF F, Chosen1, C, Circles
  <2>5. PICK t \in LinkedBy(V, s) : v \in F(t, p \cup {s})
    BY <2>1, <2>2, <2>4
  <2>6. <<t, p \cup {s}>> \in Bad
    BY <2>1, <2>2, <2>5
  <2> QED
    BY <2>2, <2>5, <2>6
<1>2. Bad = {}
  <2>1. Bad \in SUBSET (V \X SUBSET V)
    OBVIOUS
  <2>2. \A s \in V, p \in SUBSET V : <<s, p>> \in Bad =>
            s \notin p /\ \E t \in V : <<t, p \cup {s}>> \in Bad
    BY <1>1
  <2>3. IsFiniteSet(V)
    BY DEF Readable
  <2> HIDE DEF Bad, V
  <2> QED
    BY <2>1, <2>2, <2>3, PathInduction
<1>3. ASSUME c \in Circles PROVE <<spec, path>> \in Bad
  <2>1. Chosen1(spec, path) /\ c \in F(spec, path)
    OBVIOUS
  <2> HIDE DEF F, Chosen1, Circles
  <2> QED
    BY <1>3, <2>1
<1>4. c \in V
  BY SelectedAreFit DEF Fit, Selected, SelectedSpecs
<1> HIDE DEF Bad
<1> QED
  BY <1>2, <1>3, <1>4

\* Versions that may be selected together: each is fit, all its links lead to
\* some of them, and it is not linked to itself, however far around.
Together(own, time, environment, W) ==
    /\ ClosedUnder(own.versions, W)
    /\ \A v \in W : /\ Fit(own, time, environment, v)
                    /\ \A k \in DOMAIN v.links : Targets(own, v, k) # {}
                    /\ v \notin Reach(own.versions, LinkedBy(own.versions, v))

\* They are selected from any of them, unless one it leads to is being visited.
LEMMA TogetherSelected ==
    ASSUME NEW own, NEW time, NEW environment, Readable(own),
           NEW W, Together(own, time, environment, W),
           NEW spec \in W, NEW path \in SUBSET own.versions,
           path \cap Reach(own.versions, {spec}) = {}
    PROVE  Selected(own, time, environment, spec, path)
<1> DEFINE V == own.versions
           R(s) == Reach(V, {s})
           Chosen1(s, p) == Selected(own, time, environment, s, p)
           Bad == {at \in V \X SUBSET V :
                        at[1] \in W /\ at[2] \cap R(at[1]) = {} /\ ~ Chosen1(at[1], at[2])}
<1>1. ASSUME NEW s \in V, NEW p \in SUBSET V, <<s, p>> \in Bad
      PROVE  s \notin p /\ \E t \in V : <<t, p \cup {s}>> \in Bad
  <2>1. s \in W /\ p \cap R(s) = {} /\ ~ Chosen1(s, p)
    <3> HIDE DEF R, Chosen1
    <3> QED
      BY <1>1
  <2>2. IsFiniteSet(V)
    BY DEF Readable
  <2>3. s \in R(s) /\ R(s) \subseteq V /\ ClosedUnder(V, R(s))
    BY <2>2, ReachIsClosed
  <2>4. s \notin p /\ p \cup {s} \in SUBSET V
    BY <2>1, <2>3
  <2>5. PICK k \in DOMAIN s.links :
            Below(own, Walk(own, time, environment), s, p)[k].outcome # "selected"
    BY <2>1, <2>4, SelectedVisit DEF Selected, Together, Fit
  <2> DEFINE t == Target(own, s, k)
  <2>6. Targets(own, s, k) # {} /\ t \in LinkedBy(V, s) /\ t \in V
    <3>1. Targets(own, s, k) # {}
      BY <2>1 DEF Together
    <3> QED
      BY <3>1, LinkedAreTargets, TargetIs
  <2>7. Below(own, Walk(own, time, environment), s, p)[k]
            = Walk(own, time, environment)[<<t, p \cup {s}>>]
    BY <2>6, LinkVisited
  <2> HIDE DEF t
  <2>8. t \in W /\ ~ Chosen1(t, p \cup {s})
    BY <2>1, <2>5, <2>6, <2>7 DEF Together, ClosedUnder, Selected
  <2>9. R(t) \subseteq R(s)
    <3>1. {t} \subseteq R(s)
      BY <2>3, <2>6 DEF ClosedUnder
    <3> QED
      BY <2>2, <2>3, <3>1, ReachWithin
  <2>10. s \notin R(t)
    <3> DEFINE L == LinkedBy(V, s)
    <3>1. L \in SUBSET V
      BY DEF LinkedBy
    <3>2. L \subseteq Reach(V, L) /\ ClosedUnder(V, Reach(V, L))
      BY <2>2, <3>1, ReachIsClosed
    <3>3. {t} \subseteq Reach(V, L)
      BY <2>6, <3>2
    <3> HIDE DEF L
    <3>4. R(t) \subseteq Reach(V, L)
      BY <2>2, <3>2, <3>3, ReachWithin
    <3> QED
      BY <2>1, <3>4 DEF Together, L
  <2> HIDE DEF R, Chosen1
  <2>11. <<t, p \cup {s}>> \in Bad
    BY <2>1, <2>4, <2>6, <2>8, <2>9, <2>10
  <2> QED
    BY <2>4, <2>6, <2>11
<1>2. Bad = {}
  <2>1. Bad \in SUBSET (V \X SUBSET V)
    OBVIOUS
  <2>2. \A s \in V, p \in SUBSET V : <<s, p>> \in Bad =>
            s \notin p /\ \E t \in V : <<t, p \cup {s}>> \in Bad
    BY <1>1
  <2>3. IsFiniteSet(V)
    BY DEF Readable
  <2> HIDE DEF Bad, V
  <2> QED
    BY <2>1, <2>2, <2>3, PathInduction
<1>3. ASSUME ~ Chosen1(spec, path) PROVE <<spec, path>> \in Bad
  <2>1. path \cap R(spec) = {} /\ spec \in V
    BY DEF Together, Fit
  <2> HIDE DEF R, Chosen1
  <2> QED
    BY <1>3, <2>1
<1> HIDE DEF Bad
<1> QED
  BY <1>2, <1>3

\* Roots that are selected find what is linked to them, and no more.
LEMMA FoundIsReach ==
    ASSUME NEW own, NEW time, NEW environment, Readable(own),
           NEW roots \in SUBSET own.versions,
           \A v \in roots : FoundAt(own, time, environment, v).outcome = "selected"
    PROVE  FoundSpecs(own, time, environment, roots) = Reach(own.versions, roots)
<1> DEFINE V == own.versions
           F(v) == SelectedSpecs(own, time, environment, v, {})
           W == Reach(V, roots)
           specs == UNION {F(v) : v \in roots}
<1>1. IsFiniteSet(V)
  BY DEF Readable
<1>2. \A v \in roots : v \in V /\ Selected(own, time, environment, v, {})
  BY DEF FoundAt, Selected
<1>3. {} \in SUBSET V
  OBVIOUS
<1>4. roots \subseteq W /\ ClosedUnder(V, W)
  BY <1>1, ReachIsClosed
<1>5. \A v \in roots : v \in F(v) /\ ClosedUnder(V, F(v))
  BY <1>2, <1>3, SelectedIsClosed
<1>6. \A v \in roots : F(v) \subseteq W
  <2> HIDE DEF W
  <2> QED
    BY <1>2, <1>3, <1>4, SelectedWithin
<1>7. roots \subseteq specs /\ ClosedUnder(V, specs)
  <2> HIDE DEF F
  <2> QED
    BY <1>5 DEF ClosedUnder
<1>8. W \subseteq specs
  <2> HIDE DEF specs
  <2> QED
    BY <1>1, <1>7, ReachWithin
<1>9. FoundSpecs(own, time, environment, roots) = specs
  BY DEF FoundSpecs, FoundAt, SelectedSpecs
<1> HIDE DEF F, W
<1> QED
  BY <1>6, <1>8, <1>9 DEF W

LEMMA SoundIsTogether ==
    ASSUME NEW own, NEW time, NEW environment, Readable(own), NEW roots \in SUBSET own.versions
    PROVE  LET whole == Reach(own.versions, roots)
           IN  Sound(own, whole, time, environment) <=>
                    Together(own, time, environment, whole) /\ ~ TwoOfAModule(whole)
<1> DEFINE whole == Reach(own.versions, roots)
<1>1. ClosedUnder(own.versions, whole) /\ whole \subseteq own.versions
  BY ReachIsClosed DEF Readable
<1>2. \A s, k : (\E v \in own.versions : s.links[k] = SpecRef(v)) <=> Targets(own, s, k) # {}
  BY DEF Targets
<1> HIDE DEF whole
<1>3. Sound(own, whole, time, environment) <=>
            Together(own, time, environment, whole) /\ ~ TwoOfAModule(whole)
  BY <1>1, <1>2 DEF Sound, Together, Fit
<1> QED
  BY <1>3 DEF whole

LEMMA SelectedTogether ==
    ASSUME NEW own, NEW time, NEW environment, Readable(own),
           NEW roots \in SUBSET own.versions,
           \A v \in roots : FoundAt(own, time, environment, v).outcome = "selected"
    PROVE  Together(own, time, environment, Reach(own.versions, roots))
<1> DEFINE V == own.versions
           W == Reach(V, roots)
<1>1. ClosedUnder(V, W)
  BY ReachIsClosed DEF Readable
<1>2. ASSUME NEW v \in W
      PROVE  /\ Fit(own, time, environment, v)
             /\ \A k \in DOMAIN v.links : Targets(own, v, k) # {}
             /\ v \notin Reach(V, LinkedBy(V, v))
  <2>1. PICK r \in roots : v \in FoundAt(own, time, environment, r).specs
    <3>1. v \in FoundSpecs(own, time, environment, roots)
      BY FoundIsReach
    <3> QED
      BY <3>1 DEF FoundSpecs
  <2>2. /\ r \in V /\ {} \in SUBSET V /\ Selected(own, time, environment, r, {})
        /\ v \in SelectedSpecs(own, time, environment, r, {})
    BY <2>1 DEF FoundAt, Selected, SelectedSpecs
  <2>3. Fit(own, time, environment, v)
    BY <2>2, SelectedAreFit DEF Selected, SelectedSpecs
  <2>4. \A k \in DOMAIN v.links : Targets(own, v, k) # {}
    BY <2>2, SelectedIsClosed
  <2>5. v \notin Reach(V, LinkedBy(V, v))
    BY <2>2, SelectedHasNoCircle
  <2> QED
    BY <2>3, <2>4, <2>5
<1> HIDE DEF W
<1> QED
  BY <1>1, <1>2 DEF Together, W

LEMMA TogetherFound ==
    ASSUME NEW own, NEW time, NEW environment, Readable(own),
           NEW roots \in SUBSET own.versions,
           Together(own, time, environment, Reach(own.versions, roots)),
           NEW v \in roots
    PROVE  FoundAt(own, time, environment, v).outcome = "selected"
<1>1. v \in Reach(own.versions, roots)
  BY ReachIsClosed DEF Readable
<1>2. {} \in SUBSET own.versions /\ {} \cap Reach(own.versions, {v}) = {}
  OBVIOUS
<1>3. Selected(own, time, environment, v, {})
  BY <1>1, <1>2, TogetherSelected
<1> QED
  BY <1>3 DEF Selected, FoundAt

\* A set of versions is selected if and only if it is the whole closure of the
\* roots and every version of it is sound
\* (selection.py, select_complete and add_closure).
THEOREM SelectsAllOrNothing == Spec => []SelectsTheWholeClosure
<1>1. CatalogInv => SelectsTheWholeClosure
  <2> SUFFICES ASSUME CatalogInv, NEW i \in world.intents, NEW time \in Times,
                      NEW environment \in world.environments
               PROVE  LET found == SelectionFor(i, time, environment)
                          own == CatalogOf(catalog, i.tenant)
                          claimants == Claimants(own, i, time, environment)
                          roots == {v \in claimants : InForce(v, own.events, time)}
                          whole == Reach(own.versions, roots)
                      IN  IF /\ roots # {} /\ Sound(own, whole, time, environment)
                             /\ \A v \in claimants : Authentic(v, own.events)
                          THEN found.outcome = "selected" /\ found.specs = whole
                          ELSE found.outcome # "selected" /\ found.specs = {}
    BY DEF SelectsTheWholeClosure
  <2> DEFINE found == SelectionFor(i, time, environment)
             own == CatalogOf(catalog, i.tenant)
             claimants == Claimants(own, i, time, environment)
             roots == Roots(own, i, time, environment)
             whole == Reach(own.versions, roots)
             specs == FoundSpecs(own, time, environment, roots)
             AllFound == \A v \in roots : FoundAt(own, time, environment, v).outcome = "selected"
             Authenticated == \A v \in claimants : Authentic(v, own.events)
  <2>1. Readable(own)
    BY CatalogIsReadable
  <2>2. roots \in SUBSET own.versions /\ roots \subseteq whole
    <3>1. roots \in SUBSET own.versions
      BY DEF Roots, Claimants
    <3> HIDE DEF own, roots
    <3> QED
      BY <2>1, <3>1, ReachIsClosed DEF Readable
  <2>3. /\ found.outcome = "selected" <=> Complete(own, i, time, environment)
        /\ found.outcome = "selected" => found.specs = specs
        /\ found.outcome # "selected" => found.specs = {}
    BY <2>1, SelectionIs, ChosenFields DEF SelectionFor
  <2>4. Complete(own, i, time, environment) <=>
            /\ Authenticated /\ roots # {} /\ ~ TwoOfAModule(roots)
            /\ AllFound /\ ~ TwoOfAModule(specs)
    BY DEF Complete
  <2> HIDE DEF found, own, roots
  <2>5. AllFound => specs = whole
    BY <2>1, <2>2, FoundIsReach
  <2>6. AllFound <=> Together(own, time, environment, whole)
    BY <2>1, <2>2, SelectedTogether, TogetherFound
  <2>7. Sound(own, whole, time, environment) <=>
            Together(own, time, environment, whole) /\ ~ TwoOfAModule(whole)
    BY <2>1, <2>2, SoundIsTogether
  <2>8. TwoOfAModule(roots) => TwoOfAModule(whole)
    BY <2>2 DEF TwoOfAModule
  <2> HIDE DEF whole, specs, AllFound, Authenticated, claimants
  <2>9. IF roots # {} /\ Sound(own, whole, time, environment) /\ Authenticated
        THEN found.outcome = "selected" /\ found.specs = whole
        ELSE found.outcome # "selected" /\ found.specs = {}
    BY <2>3, <2>4, <2>5, <2>6, <2>7, <2>8
  <2> QED
    BY <2>9 DEF found, own, claimants, roots, whole, Authenticated, Roots
<1> QED
  BY <1>1, CatalogInvariant, PTL

-----------------------------------------------------------------------------
(* Selections of the past *)

\* What a catalog becomes, as far as a selection for one instant can tell: its
\* versions keep their chains up to there, and later versions are not in force.
Later(own, next, time) ==
    /\ own.versions \subseteq next.versions
    /\ \A v \in own.versions :
        /\ StateAt(v, next.events, time) = StateAt(v, own.events, time)
        /\ Authentic(v, next.events) <=> Authentic(v, own.events)
        /\ Applied(v, next.events, time) = Applied(v, own.events, time)
    /\ \A v \in next.versions \ own.versions : StateAt(v, next.events, time) # "published"

LEMMA LaterInForce ==
    ASSUME NEW own, NEW next, NEW time, Later(own, next, time)
    PROVE  /\ \A v \in own.versions :
                InForce(v, next.events, time) <=> InForce(v, own.events, time)
           /\ \A v \in next.versions \ own.versions : ~ InForce(v, next.events, time)
BY DEF Later, InForce

LEMMA LaterRoots ==
    ASSUME NEW own, NEW next, NEW time, Later(own, next, time), NEW i, NEW environment
    PROVE  /\ Claimants(next, i, time, environment) = Claimants(own, i, time, environment)
           /\ Roots(next, i, time, environment) = Roots(own, i, time, environment)
<1>1. Claimants(next, i, time, environment) = Claimants(own, i, time, environment)
  BY DEF Later, Claimants
<1>2. Claimants(own, i, time, environment) \subseteq own.versions
  BY DEF Claimants
<1> QED
  BY <1>1, <1>2, LaterInForce DEF Roots

\* Both select, and the same versions, or neither does.
Alike(found, again) ==
    /\ found.outcome = "selected" <=> again.outcome = "selected"
    /\ found.outcome = "selected" => found.specs = again.specs

\* What is found below a version is alike if what is found of its targets is.
LEMMA LaterBelow ==
    ASSUME NEW own, NEW next, NEW time, NEW environment, Later(own, next, time),
           Readable(own), Readable(next),
           NEW s \in own.versions, NEW p \in SUBSET own.versions,
           NEW k \in DOMAIN s.links,
           \A t \in own.versions :
                Alike(Walk(own, time, environment)[<<t, p \cup {s}>>],
                      Walk(next, time, environment)[<<t, p \cup {s}>>])
    PROVE  Alike(Below(own, Walk(own, time, environment), s, p)[k],
                 Below(next, Walk(next, time, environment), s, p)[k])
<1> DEFINE walk == Walk(own, time, environment)
           later == Walk(next, time, environment)
<1>1. Targets(own, s, k) \subseteq Targets(next, s, k)
  BY DEF Targets, Later
<1>2. CASE Targets(next, s, k) = {}
  BY <1>1, <1>2 DEF Below, Alike
<1>3. CASE Targets(own, s, k) # {}
  <2>1. Target(own, s, k) \in own.versions /\ Target(own, s, k) \in Targets(next, s, k)
    BY <1>1, <1>3 DEF Target, Targets
  <2>2. Target(next, s, k) \in Targets(next, s, k)
    BY <1>1, <1>3 DEF Target
  <2>3. Target(next, s, k) = Target(own, s, k)
    BY <2>1, <2>2 DEF Targets, SpecRef, Readable
  <2> HIDE DEF walk, later
  <2>4. Below(own, walk, s, p)[k] = walk[<<Target(own, s, k), p \cup {s}>>]
    BY <1>3, LinkVisited
  <2>5. Below(next, later, s, p)[k] = later[<<Target(next, s, k), p \cup {s}>>]
    BY <2>2, LinkVisited
  <2> QED
    BY <2>1, <2>3, <2>4, <2>5 DEF walk, later
<1>4. CASE Targets(own, s, k) = {} /\ Targets(next, s, k) # {}
  <2> DEFINE t == Target(next, s, k)
             q == p \cup {s}
  <2>1. t \in next.versions \ own.versions /\ q \in SUBSET next.versions
    BY <1>4, TargetIs DEF Later, Targets
  <2>2. Below(own, walk, s, p)[k].outcome # "selected"
    BY <1>4 DEF Below, Nothing
  <2> HIDE DEF walk, later
  <2>3. Below(next, later, s, p)[k] = later[<<Target(next, s, k), p \cup {s}>>]
    BY <1>4, LinkVisited
  <2>4. ~ InForce(t, next.events, time)
    BY <2>1, LaterInForce
  <2> HIDE DEF t, q
  <2>5. later[<<t, q>>].outcome # "selected"
    BY <2>1, <2>4, SelectedVisit DEF later
  <2> QED
    BY <2>2, <2>3, <2>5 DEF walk, later, t, q, Alike
<1> QED
  BY <1>2, <1>3, <1>4

LEMMA LaterVisit ==
    ASSUME NEW own, NEW next, NEW time, NEW environment, Later(own, next, time),
           Readable(own), Readable(next),
           NEW s \in own.versions, NEW p \in SUBSET own.versions,
           s \notin p => \A t \in own.versions :
                Alike(Walk(own, time, environment)[<<t, p \cup {s}>>],
                      Walk(next, time, environment)[<<t, p \cup {s}>>])
    PROVE  Alike(Walk(own, time, environment)[<<s, p>>],
                 Walk(next, time, environment)[<<s, p>>])
<1> DEFINE K == DOMAIN s.links
           before == Below(own, Walk(own, time, environment), s, p)
           after == Below(next, Walk(next, time, environment), s, p)
           found == Walk(own, time, environment)[<<s, p>>]
           again == Walk(next, time, environment)[<<s, p>>]
           all == {s} \cup UNION {before[k].specs : k \in K}
           alls == {s} \cup UNION {after[k].specs : k \in K}
<1>1. /\ found.outcome = "selected" <=>
            /\ s \notin p /\ InEnvironment(s, environment)
            /\ Authentic(s, own.events) /\ InForce(s, own.events, time)
            /\ \A k \in K : before[k].outcome = "selected"
      /\ found.outcome = "selected" => found.specs = all
  BY SelectedVisit
<1>2. /\ again.outcome = "selected" <=>
            /\ s \notin p /\ InEnvironment(s, environment)
            /\ Authentic(s, next.events) /\ InForce(s, next.events, time)
            /\ \A k \in K : after[k].outcome = "selected"
      /\ again.outcome = "selected" => again.specs = alls
  <2>1. s \in next.versions /\ p \in SUBSET next.versions
    BY DEF Later
  <2> QED
    BY <2>1, SelectedVisit
<1>3. /\ InForce(s, next.events, time) <=> InForce(s, own.events, time)
      /\ Authentic(s, next.events) <=> Authentic(s, own.events)
  BY LaterInForce DEF Later
<1>4. s \notin p => \A k \in K : Alike(before[k], after[k])
  BY LaterBelow
<1>5. s \notin p /\ (\A k \in K : before[k].outcome = "selected") => all = alls
  <2> SUFFICES ASSUME s \notin p, \A k \in K : before[k].outcome = "selected"
               PROVE  all = alls
    OBVIOUS
  <2> HIDE DEF before, after, K
  <2>1. \A k \in K : before[k].specs = after[k].specs
    BY <1>4 DEF Alike
  <2> QED
    BY <2>1
<1> HIDE DEF found, again, before, after, all, alls, K
<1>6. Alike(found, again)
  BY <1>1, <1>2, <1>3, <1>4, <1>5 DEF Alike
<1> QED
  BY <1>6 DEF found, again

LEMMA LaterWalk ==
    ASSUME NEW own, NEW next, NEW time, NEW environment, Later(own, next, time),
           Readable(own), Readable(next),
           NEW spec \in own.versions, NEW path \in SUBSET own.versions
    PROVE  Alike(Walk(own, time, environment)[<<spec, path>>],
                 Walk(next, time, environment)[<<spec, path>>])
<1> DEFINE V == own.versions
           Same(s, p) == Alike(Walk(own, time, environment)[<<s, p>>],
                               Walk(next, time, environment)[<<s, p>>])
           Bad == {at \in V \X SUBSET V : ~ Same(at[1], at[2])}
<1>1. ASSUME NEW s \in V, NEW p \in SUBSET V, <<s, p>> \in Bad
      PROVE  s \notin p /\ \E t \in V : <<t, p \cup {s}>> \in Bad
  <2>1. ~ Same(s, p)
    <3> HIDE DEF Same
    <3> QED
      BY <1>1
  <2>2. s \notin p /\ \E t \in V : ~ Same(t, p \cup {s})
    BY <2>1, LaterVisit
  <2>3. p \cup {s} \in SUBSET V
    OBVIOUS
  <2> HIDE DEF Same
  <2> QED
    BY <2>2, <2>3
<1>2. Bad = {}
  <2>1. Bad \in SUBSET (V \X SUBSET V)
    OBVIOUS
  <2>2. \A s \in V, p \in SUBSET V : <<s, p>> \in Bad =>
            s \notin p /\ \E t \in V : <<t, p \cup {s}>> \in Bad
    BY <1>1
  <2>3. IsFiniteSet(V)
    BY DEF Readable
  <2> HIDE DEF Bad, V
  <2> QED
    BY <2>1, <2>2, <2>3, PathInduction
<1>3. ASSUME ~ Same(spec, path) PROVE <<spec, path>> \in Bad
  <2> HIDE DEF Same
  <2> QED
    BY <1>3
<1> HIDE DEF Bad
<1> QED
  BY <1>2, <1>3

\* What is selected from a later catalog is what was selected.
LEMMA LaterSelection ==
    ASSUME NEW c, NEW d, NEW i, NEW time, NEW environment,
           Later(CatalogOf(c, i.tenant), CatalogOf(d, i.tenant), time),
           Readable(CatalogOf(c, i.tenant)), Readable(CatalogOf(d, i.tenant))
    PROVE  /\ SelectComplete(d, i, time, environment).specs
                = SelectComplete(c, i, time, environment).specs
           /\ SelectComplete(d, i, time, environment).events
                = SelectComplete(c, i, time, environment).events
<1> DEFINE own == CatalogOf(c, i.tenant)
           next == CatalogOf(d, i.tenant)
           claimants == Claimants(own, i, time, environment)
           roots == Roots(own, i, time, environment)
           specs == FoundSpecs(own, time, environment, roots)
           again == FoundSpecs(next, time, environment, roots)
           before == SelectComplete(c, i, time, environment)
           after == SelectComplete(d, i, time, environment)
<1>1. /\ Claimants(next, i, time, environment) = claimants
      /\ Roots(next, i, time, environment) = roots
  BY LaterRoots
<1>2. claimants \subseteq own.versions /\ roots \subseteq own.versions
  BY DEF Roots, Claimants
<1>3. ASSUME NEW v \in roots
      PROVE  Alike(FoundAt(own, time, environment, v), FoundAt(next, time, environment, v))
  <2>1. v \in own.versions /\ {} \in SUBSET own.versions
    BY <1>2
  <2> QED
    BY <2>1, LaterWalk DEF FoundAt
<1>4. /\ before.outcome = "selected" <=> Complete(own, i, time, environment)
      /\ before.outcome = "selected" => before = Chosen(specs, own.events, time)
      /\ before.outcome # "selected" => before.specs = {} /\ before.events = {}
  BY SelectionIs
<1>5. /\ after.outcome = "selected" <=> Complete(next, i, time, environment)
      /\ after.outcome = "selected" => after = Chosen(again, next.events, time)
      /\ after.outcome # "selected" => after.specs = {} /\ after.events = {}
  BY <1>1, SelectionIs
<1>6. \A v \in own.versions : /\ Authentic(v, next.events) <=> Authentic(v, own.events)
                              /\ Applied(v, next.events, time) = Applied(v, own.events, time)
  BY DEF Later
<1>7. (\A v \in roots : FoundAt(own, time, environment, v).outcome = "selected") => again = specs
  BY <1>3 DEF Alike, FoundSpecs
<1>8. Complete(own, i, time, environment) <=> Complete(next, i, time, environment)
  <2> HIDE DEF own, next, specs, again
  <2>1. Complete(own, i, time, environment) <=>
            /\ \A v \in claimants : Authentic(v, own.events)
            /\ roots # {} /\ ~ TwoOfAModule(roots)
            /\ \A v \in roots : FoundAt(own, time, environment, v).outcome = "selected"
            /\ ~ TwoOfAModule(specs)
    BY DEF Complete, specs
  <2>2. Complete(next, i, time, environment) <=>
            /\ \A v \in claimants : Authentic(v, next.events)
            /\ roots # {} /\ ~ TwoOfAModule(roots)
            /\ \A v \in roots : FoundAt(next, time, environment, v).outcome = "selected"
            /\ ~ TwoOfAModule(again)
    BY <1>1 DEF Complete, again
  <2> HIDE DEF claimants, roots
  <2> QED
    BY <1>2, <1>3, <1>6, <1>7, <2>1, <2>2 DEF Alike
<1>9. CASE Complete(own, i, time, environment)
  <2>1. again = specs
    BY <1>7, <1>9 DEF Complete
  <2>2. specs \subseteq own.versions
    <3>1. ASSUME NEW r \in roots, NEW v \in FoundAt(own, time, environment, r).specs
          PROVE  v \in own.versions
      <4>1. r \in own.versions /\ {} \in SUBSET own.versions
        BY <1>2
      <4>2. FoundAt(own, time, environment, r).outcome = "selected"
        BY <1>9 DEF Complete
      <4> QED
        BY <4>1, <4>2, <3>1, SelectedAreFit DEF FoundAt, Fit
    <3> HIDE DEF own, roots
    <3> QED
      BY <3>1 DEF FoundSpecs, specs
  <2> HIDE DEF own, next, specs, again, before, after
  <2>3. before = Chosen(specs, own.events, time) /\ after = Chosen(specs, next.events, time)
    BY <1>4, <1>5, <1>8, <1>9, <2>1
  <2>4. before.specs = specs /\ after.specs = specs
    BY <2>3, ChosenFields
  <2>5. /\ before.events = UNION {Applied(s, own.events, time) : s \in specs}
        /\ after.events = UNION {Applied(s, next.events, time) : s \in specs}
    BY <2>3, ChosenFields
  <2>6. \A s \in specs : Applied(s, next.events, time) = Applied(s, own.events, time)
    BY <1>6, <2>2
  <2>7. before.events = after.events
    BY <2>5, <2>6
  <2> QED
    BY <2>4, <2>7 DEF before, after
<1>10. CASE ~ Complete(own, i, time, environment)
  BY <1>4, <1>5, <1>8, <1>10
<1> QED
  BY <1>9, <1>10

\* The chain is all that is read of the events.
LEMMA SameChain ==
    ASSUME NEW v, NEW E, NEW F, Relevant(v, E) = Relevant(v, F), NEW time
    PROVE  /\ StateAt(v, E, time) = StateAt(v, F, time)
           /\ Authentic(v, E) <=> Authentic(v, F)
           /\ Applied(v, E, time) = Applied(v, F, time)
<1>1. Applied(v, E, time) = Applied(v, F, time)
  BY DEF Applied
<1>2. ChainIntact(v, E) <=> ChainIntact(v, F)
  BY DEF ChainIntact
<1>3. StateAt(v, E, time) = StateAt(v, F, time)
  BY <1>1 DEF StateAt
<1> QED
  BY <1>1, <1>2, <1>3 DEF Authentic

LEMMA LaterForTenant ==
    ASSUME NEW c, Owned(c), NEW d, Owned(d), NEW time, Later(c, d, time), NEW tenant
    PROVE  Later(CatalogOf(c, tenant), CatalogOf(d, tenant), time)
<1> DEFINE own == CatalogOf(c, tenant)
           next == CatalogOf(d, tenant)
<1>1. own.versions \subseteq next.versions /\ next.versions \ own.versions \subseteq d.versions \ c.versions
  BY DEF CatalogOf, Later
<1>2. ASSUME NEW v \in own.versions
      PROVE  /\ v \in c.versions /\ Relevant(v, own.events) = Relevant(v, c.events)
             /\ Relevant(v, next.events) = Relevant(v, d.events)
  BY <1>1, OwnChain
<1>3. ASSUME NEW v \in next.versions
      PROVE  Relevant(v, next.events) = Relevant(v, d.events)
  BY OwnChain
<1> HIDE DEF own, next
<1>4. ASSUME NEW v \in own.versions
      PROVE  /\ StateAt(v, next.events, time) = StateAt(v, own.events, time)
             /\ Authentic(v, next.events) <=> Authentic(v, own.events)
             /\ Applied(v, next.events, time) = Applied(v, own.events, time)
  <2>1. /\ StateAt(v, own.events, time) = StateAt(v, c.events, time)
        /\ Authentic(v, own.events) <=> Authentic(v, c.events)
        /\ Applied(v, own.events, time) = Applied(v, c.events, time)
    BY <1>2, SameChain
  <2>2. /\ StateAt(v, next.events, time) = StateAt(v, d.events, time)
        /\ Authentic(v, next.events) <=> Authentic(v, d.events)
        /\ Applied(v, next.events, time) = Applied(v, d.events, time)
    BY <1>2, SameChain
  <2>3. /\ StateAt(v, d.events, time) = StateAt(v, c.events, time)
        /\ Authentic(v, d.events) <=> Authentic(v, c.events)
        /\ Applied(v, d.events, time) = Applied(v, c.events, time)
    BY <1>2 DEF Later
  <2> QED
    BY <2>1, <2>2, <2>3
<1>5. ASSUME NEW v \in next.versions \ own.versions
      PROVE  StateAt(v, next.events, time) # "published"
  <2>1. StateAt(v, next.events, time) = StateAt(v, d.events, time)
    BY <1>3, SameChain
  <2> QED
    BY <1>1, <2>1 DEF Later
<1> QED
  BY <1>1, <1>4, <1>5 DEF Later, own, next

LEMMA LaterRelease ==
    ASSUME CatalogInv, NEW spec \in world.versions, Release(spec),
           NEW time \in Nat, time < clock
    PROVE  Later(catalog, catalog', time)
<1>1. /\ spec \notin catalog.versions
      /\ catalog'.versions = catalog.versions \cup {spec}
      /\ catalog'.events = catalog.events \cup Approved(spec)
  BY DEF Release
<1>2. \A e \in Approved(spec) : Recent(e, spec)
  BY ApprovedEvents, EnterpriseAssumption DEF CatalogInv, WorldInv
<1>3. ASSUME NEW v \in catalog.versions
      PROVE  Relevant(v, catalog'.events) = Relevant(v, catalog.events)
  <2>1. v.id # spec.id
    BY <1>1, OneVersion DEF CatalogInv, WorldInv
  <2> QED
    BY <1>1, <1>2, <2>1 DEF Relevant, Recent, SpecRef
<1>4. Applied(spec, catalog'.events, time) = {}
  <2>1. ASSUME NEW e \in catalog.events, e.spec.id = spec.id PROVE FALSE
    <3>1. PICK v \in catalog.versions : e.spec = SpecRef(v)
      BY DEF CatalogInv, EventsInv
    <3>2. v \in world.versions /\ v.id = spec.id
      BY <2>1, <3>1 DEF CatalogInv, WorldInv, SpecRef
    <3> QED
      BY <1>1, <3>2, OneVersion DEF CatalogInv
  <2>2. ASSUME NEW e \in Approved(spec) PROVE ~ (AppliesAt(e) <= time)
    BY <1>2 DEF Recent, InTime, AppliesAt, CatalogInv, WorldInv
  <2> QED
    BY <1>1, <2>1, <2>2 DEF Applied, Relevant
<1>5. StateAt(spec, catalog'.events, time) # "published"
  BY <1>4, StatesAssumption DEF StateAt
<1> QED
  BY <1>1, <1>3, <1>5, SameChain DEF Later

LEMMA LaterRecord ==
    ASSUME CatalogInv, NEW spec \in catalog.versions, NEW new, NEW last,
           RecordedAfter(spec, new, last), NEW time \in Nat, time < clock
    PROVE  Later(catalog, catalog', time)
<1> DEFINE chain == Relevant(spec, catalog.events)
           longer == Relevant(spec, catalog'.events)
           Prior(events, e) ==
                {p \in events : Before(p, e) /\ ~ \E q \in events : Before(p, q) /\ Before(q, e)}
<1>1. /\ catalog'.versions = catalog.versions /\ catalog'.events = catalog.events \cup {new}
      /\ Recent(new, spec)
  BY DEF RecordedAfter
<1>2. ASSUME NEW v \in catalog.versions, v # spec
      PROVE  Relevant(v, catalog'.events) = Relevant(v, catalog.events)
  <2>1. v.id # spec.id
    BY <1>2, OneVersion DEF CatalogInv, WorldInv
  <2> QED
    BY <1>1, <2>1 DEF Relevant, Recent, SpecRef
<1>3. longer = chain \cup {new} /\ Orderly(chain)
  BY <1>1, ChainsAreOrderly DEF Relevant, Recent, SpecRef
<1>4. /\ last \in chain /\ new.sequence = last.sequence + 1
      /\ \A f \in chain : f.sequence \in Nat /\ (f = last \/ f.sequence < last.sequence)
      /\ new.id \in Nat /\ new.sequence \in Nat
  BY <1>1, <1>3 DEF RecordedAfter, Orderly, Recent
<1>5. Applied(spec, catalog'.events, time) = Applied(spec, catalog.events, time)
  <2>1. ~ (AppliesAt(new) <= time)
    BY <1>1 DEF Recent, InTime, AppliesAt, CatalogInv, WorldInv
  <2> QED
    BY <1>3, <2>1 DEF Applied
<1>6. StateAt(spec, catalog'.events, time) = StateAt(spec, catalog.events, time)
  BY <1>5 DEF StateAt
<1>7. ASSUME NEW e \in chain PROVE Linked(spec, longer, e) <=> Linked(spec, chain, e)
  <2>1. \A f \in chain : ~ Before(new, f)
    BY <1>4 DEF Before
  <2>2. Prior(longer, e) = Prior(chain, e)
    <3> HIDE DEF chain, longer
    <3> QED
      BY <1>3, <2>1
  <2> HIDE DEF chain, longer
  <2> QED
    BY <2>2 DEF Linked
<1>8. Linked(spec, longer, new)
  <2>1. /\ Before(last, new) /\ ~ Before(new, new)
        /\ \A f \in chain : ~ Before(new, f) /\ ~ Before(last, f)
        /\ \A f \in chain : f # last => Before(f, last)
    <3>1. /\ Before(last, new) /\ ~ Before(new, new)
          /\ \A f \in chain : ~ Before(new, f)
      BY <1>4 DEF Before
    <3>2. \A f \in chain : (f # last => Before(f, last)) /\ ~ Before(last, f)
      <4> HIDE DEF chain
      <4> QED
        BY <1>3, <1>4, BeforeIs
    <3> QED
      BY <3>1, <3>2
  <2>2. Prior(longer, new) = {last}
    <3> HIDE DEF chain, longer
    <3> QED
      BY <1>3, <1>4, <2>1
  <2>3. /\ new.spec = SpecRef(spec) /\ new.content = spec.hash /\ new.hash = ContentOf(new)
        /\ new.prior = EventRef(last) /\ new.prior_state = last.next_state
    BY <1>1 DEF RecordedAfter, Recent
  <2> HIDE DEF chain, longer
  <2> QED
    BY <1>4, <2>2, <2>3 DEF Linked
<1>9. ChainIntact(spec, catalog'.events) <=> ChainIntact(spec, catalog.events)
  <2>1. /\ ChainIntact(spec, catalog'.events) <=> \A e \in longer : Linked(spec, longer, e)
        /\ ChainIntact(spec, catalog.events) <=> \A e \in chain : Linked(spec, chain, e)
    BY DEF ChainIntact
  <2> HIDE DEF chain, longer
  <2> QED
    BY <1>3, <1>7, <1>8, <2>1
<1> QED
  BY <1>1, <1>2, <1>5, <1>6, <1>9, SameChain DEF Later, Authentic

\* Damage that leaves the last event of an intact chain, and an intact chain,
\* has left the chain alone.
LEMMA DamageElsewhere ==
    ASSUME CatalogInv, CatalogInv', NEW e \in catalog.events, NEW left,
           left \subseteq Alterations(e), Damage(e, left), NEW v,
           ChainIntact(v, catalog.events), ChainIntact(v, catalog'.events),
           NEW head \in Relevant(v, catalog.events), head \in catalog'.events,
           IsHead(head, Relevant(v, catalog.events))
    PROVE  Relevant(v, catalog'.events) = Relevant(v, catalog.events)
<1> DEFINE chain == Relevant(v, catalog.events)
           next == Relevant(v, catalog'.events)
<1>1. catalog'.events = (catalog.events \ {e}) \cup left
  BY DEF Damage, CatalogInv, WorldInv
<1>2. \A f \in left : f # e /\ f.spec = e.spec
  BY AlteredEvent DEF Altered
<1>3. Orderly(chain) /\ LinkedChain(v, chain)
  BY ChainsAreOrderly
<1>4. Orderly(next) /\ LinkedChain(v, next)
  BY DEF CatalogInv, EventsInv, DistinctInv, Orderly, Relevant, ChainIntact, LinkedChain
<1>5. head \in chain /\ head \in next
  BY DEF Relevant
<1>6. \A f \in chain : f.sequence <= head.sequence
  <2>1. \A f \in chain : f = head \/ Before(f, head)
    BY DEF IsHead
  <2> HIDE DEF chain
  <2> QED
    BY <1>3, <1>5, <2>1, BeforeIs DEF Orderly
<1>7. chain \subseteq next
  <2> HIDE DEF chain, next
  <2> QED
    BY <1>3, <1>4, <1>5, <1>6, LastCommits
<1>8. e.spec.id # v.id
  BY <1>1, <1>2, <1>7 DEF Relevant
<1> QED
  BY <1>1, <1>2, <1>8 DEF Relevant

\* A step that is no damage leaves the catalog alone or makes a later one of it.
LEMMA CatalogLater ==
    ASSUME CatalogInv, [Next]_vars, NEW time \in Nat, time < clock, damaged' = damaged
    PROVE  catalog' = catalog \/ Later(catalog, catalog', time)
<1>1. ASSUME NEW spec \in world.versions, Release(spec)
      PROVE  Later(catalog, catalog', time)
  BY <1>1, LaterRelease
<1>2. ASSUME NEW spec \in catalog.versions, NEW next \in {"published", "retired"},
             NEW delay \in world.delays,
             Record(spec, next, IF delay = 0 THEN None ELSE clock + delay)
      PROVE  Later(catalog, catalog', time)
  BY <1>2, Recorded, LaterRecord
<1>3. ASSUME NEW e, NEW left, Damage(e, left) PROVE FALSE
  BY <1>3 DEF Damage, CatalogInv, WorldInv
<1> QED
  BY <1>1, <1>2, <1>3
  DEF Next, vars, Tick, EnterpriseDecide, Project, Retain, EditCase, File, FileApproval,
      FileReceipt

\* Versions and events that are added later leave what is selected for an earlier
\* instant as it was; damage puts no version into force that was not, whose chain
\* was intact and has its last event left (selection.py, _state_at).
THEOREM HistoryIsKept == Spec => HistoryStands
<1> DEFINE Stands ==
        \A i \in world.intents, environment \in world.environments, time \in 0..(clock - 1) :
            LET own == CatalogOf(catalog, i.tenant)
                next == CatalogOf(catalog', i.tenant)
                before == SelectComplete(catalog, i, time, environment)
                after == SelectComplete(catalog', i, time, environment)
            IN  IF damaged' = damaged
                THEN after.specs = before.specs /\ after.events = before.events
                ELSE \A v \in after.specs :
                        (/\ ChainIntact(v, own.events)
                         /\ \E e \in Relevant(v, own.events) \cap next.events :
                                IsHead(e, Relevant(v, own.events))) =>
                            InForce(v, own.events, time)
<1>1. CatalogInv /\ CatalogInv' /\ [Next]_vars => Stands
  <2> SUFFICES ASSUME CatalogInv, CatalogInv', [Next]_vars, NEW i \in world.intents,
                      NEW environment \in world.environments, NEW time \in 0..(clock - 1)
               PROVE  LET own == CatalogOf(catalog, i.tenant)
                          next == CatalogOf(catalog', i.tenant)
                          before == SelectComplete(catalog, i, time, environment)
                          after == SelectComplete(catalog', i, time, environment)
                      IN  IF damaged' = damaged
                          THEN after.specs = before.specs /\ after.events = before.events
                          ELSE \A v \in after.specs :
                                  (/\ ChainIntact(v, own.events)
                                   /\ \E e \in Relevant(v, own.events) \cap next.events :
                                          IsHead(e, Relevant(v, own.events))) =>
                                      InForce(v, own.events, time)
    OBVIOUS
  <2> DEFINE own == CatalogOf(catalog, i.tenant)
             next == CatalogOf(catalog', i.tenant)
             before == SelectComplete(catalog, i, time, environment)
             after == SelectComplete(catalog', i, time, environment)
  <2>1. time \in Nat /\ time < clock
    BY DEF CatalogInv, WorldInv
  <2>2. Owned(catalog) /\ Readable(own)
    BY CatalogIsReadable
  <2>3. Owned(catalog') /\ Readable(next)
    <3>1. world' = world
      BY DEF Next, vars, Tick, Release, Record, Damage, EnterpriseDecide, Project, Retain,
             EditCase, File, FileApproval, FileReceipt
    <3>2. catalog'.versions \subseteq world.versions
      BY <3>1 DEF CatalogInv, WorldInv
    <3>3. \A e \in catalog'.events :
              \E v \in catalog'.versions : e.spec = SpecRef(v) /\ e.tenant = v.tenant
      BY DEF CatalogInv, EventsInv
    <3> QED
      BY <3>2, <3>3, WithinWorld
  <2>4. ASSUME damaged' = damaged
        PROVE  after.specs = before.specs /\ after.events = before.events
    <3>1. CASE catalog' = catalog
      BY <3>1
    <3>2. CASE Later(catalog, catalog', time)
      <4>1. Later(own, next, time)
        BY <2>2, <2>3, <3>2, LaterForTenant
      <4> QED
        BY <2>2, <2>3, <4>1, LaterSelection
    <3> QED
      BY <2>1, <2>4, <3>1, <3>2, CatalogLater
  <2>5. ASSUME damaged' # damaged, NEW v \in after.specs, ChainIntact(v, own.events),
               NEW head \in Relevant(v, own.events), head \in next.events,
               IsHead(head, Relevant(v, own.events))
        PROVE  InForce(v, own.events, time)
    <3>1. PICK e \in catalog.events : \E left : left \subseteq Alterations(e) /\ Damage(e, left)
      <4>1. PICK d \in catalog.events :
                \E left \in {{}} \cup {{f} : f \in Alterations(d)} : Damage(d, left)
        BY <2>5 DEF Next, vars, Tick, Release, Record, EnterpriseDecide, Project, Retain,
              EditCase, File, FileApproval, FileReceipt
      <4> QED
        BY <4>1
    <3>2. PICK left : left \subseteq Alterations(e) /\ Damage(e, left)
      BY <3>1
    <3>3. catalog'.versions = catalog.versions
      BY <3>2 DEF Damage, CatalogInv, WorldInv
    <3>4. Fit(next, time, environment, v)
      BY <2>3, <2>5, SelectionIsFit
    <3>5. v \in next.versions /\ v \in own.versions
      BY <3>3, <3>4 DEF Fit, CatalogOf
    <3>6. ChainIntact(v, next.events) /\ InForce(v, next.events, time)
      BY <3>4 DEF Fit, Authentic
    <3>7. /\ Relevant(v, own.events) = Relevant(v, catalog.events)
          /\ Relevant(v, next.events) = Relevant(v, catalog'.events)
      BY <2>2, <2>3, <3>5, OwnChain
    <3>8. /\ ChainIntact(v, catalog.events) /\ ChainIntact(v, catalog'.events)
          /\ head \in Relevant(v, catalog.events) /\ head \in catalog'.events
          /\ IsHead(head, Relevant(v, catalog.events))
      BY <2>5, <3>6, <3>7 DEF ChainIntact, CatalogOf
    <3> HIDE DEF own, next
    <3>9. Relevant(v, catalog'.events) = Relevant(v, catalog.events)
      BY <3>2, <3>8, DamageElsewhere
    <3>10. Relevant(v, own.events) = Relevant(v, next.events)
      BY <3>7, <3>9
    <3> QED
      BY <3>6, <3>10, SameChain DEF InForce
  <2> HIDE DEF own, next, before, after
  <2>6. IF damaged' = damaged
        THEN after.specs = before.specs /\ after.events = before.events
        ELSE \A v \in after.specs :
                (/\ ChainIntact(v, own.events)
                 /\ \E e \in Relevant(v, own.events) \cap next.events :
                        IsHead(e, Relevant(v, own.events))) =>
                    InForce(v, own.events, time)
    BY <2>4, <2>5
  <2> QED
    BY <2>6 DEF own, next, before, after
<1> HIDE DEF Stands
<1>2. Spec => [][Stands]_vars
  BY <1>1, CatalogInvariant, PTL DEF Spec
<1> QED
  BY <1>2 DEF HistoryStands, Stands
=============================================================================
