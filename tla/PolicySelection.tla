-------------------------- MODULE PolicySelection --------------------------
(***************************************************************************)
(* Which immutable policy versions are in force for an action: a catalog   *)
(* holds versions and a hash-linked chain of lifecycle events for each,    *)
(* and the selector derives the state of a version at a trusted time from  *)
(* its chain, then collects roots and their dependency closure.            *)
(*                                                                         *)
(* The hash of an event is the content it was made of, so that it differs  *)
(* when the content does; of a version `sealed' says that its own hashes   *)
(* are those of its content.  Canonical order is the order of identifiers, *)
(* which are numbers.                                                      *)
(***************************************************************************)
EXTENDS PortableContracts, FiniteSets

\* The states of a version are not the absent value.
ASSUME StatesAssumption == None \notin {"draft", "reviewed", "approved", "published", "retired"}

-----------------------------------------------------------------------------
(* References and the chain of a version *)

SpecRef(spec) == [id |-> spec.id, hash |-> spec.hash]
EventRef(e) == [id |-> e.id, hash |-> e.hash]
ContentOf(e) == [field \in DOMAIN e \ {"hash"} |-> e[field]]

\* What a reader of one tenant's catalog is given.
CatalogOf(catalog, tenant) ==
    [versions |-> {v \in catalog.versions : v.tenant = tenant},
     events |-> {e \in catalog.events : e.tenant = tenant}]

Relevant(spec, events) == {e \in events : e.spec.id = spec.id}

Before(e, f) == e.sequence < f.sequence \/ (e.sequence = f.sequence /\ e.id < f.id)

\* Fault: the events are in order, but what one refers to is not compared.
LinkedInOrder(spec, events, e) ==
    LET prior == {p \in events : Before(p, e) /\ ~\E q \in events : Before(p, q) /\ Before(q, e)}
    IN  /\ e.spec = SpecRef(spec) /\ e.content = spec.hash /\ e.hash = ContentOf(e)
        /\ IF prior = {} THEN e.sequence = 1 /\ e.prior_state = None
           ELSE \A p \in prior : e.sequence = p.sequence + 1 /\ e.prior_state = p.next_state

\* An event carries on from the one before it in sequence, or starts the chain.
Linked(spec, events, e) ==
    LET prior == {p \in events : Before(p, e) /\ ~\E q \in events : Before(p, q) /\ Before(q, e)}
    IN  /\ e.spec = SpecRef(spec) /\ e.content = spec.hash /\ e.hash = ContentOf(e)
        /\ IF prior = {}
           THEN e.sequence = 1 /\ e.prior = None /\ e.prior_state = None
           ELSE \A p \in prior : /\ e.sequence = p.sequence + 1
                                 /\ e.prior = EventRef(p) /\ e.prior_state = p.next_state

ChainIntact(spec, events) ==
    LET relevant == Relevant(spec, events)
    IN  \A e \in relevant : Linked(spec, relevant, e)

AppliesAt(e) == IF e.effective = None THEN e.at ELSE e.effective
Applied(spec, events, time) == {e \in Relevant(spec, events) : AppliesAt(e) <= time}

\* Fault: of the events that apply, the one that took effect last speaks.
StateByTime(spec, events, time) ==
    LET applied == Applied(spec, events, time)
    IN  IF applied = {} THEN None
        ELSE (CHOOSE e \in applied : \A f \in applied :
                    f = e \/ AppliesAt(f) < AppliesAt(e)
                          \/ (AppliesAt(f) = AppliesAt(e) /\ Before(f, e))).next_state

\* The last event of the chain that applies speaks for the version, whatever
\* the order in which the events take effect.
StateAt(spec, events, time) ==
    LET applied == Applied(spec, events, time)
    IN  IF applied = {} THEN None
        ELSE (CHOOSE e \in applied : \A f \in applied : f = e \/ Before(f, e)).next_state

Authentic(spec, events) == spec.sealed /\ ChainIntact(spec, events)

InForce(spec, events, time) ==
    /\ StateAt(spec, events, time) = "published"
    /\ spec.from # None => spec.from <= time
    /\ spec.until # None => time < spec.until

\* A correction names its environments, the other versions hold in all.
InEnvironment(spec, environment) ==
    spec.environments # None => environment # None /\ environment \in spec.environments

Covers(spec, intent) == spec.covers = intent.kind

-----------------------------------------------------------------------------
(* Selection: [outcome, specs, events], where the outcome is `selected',   *)
(* `no_safe_policy', `ambiguous', or `rejected' when the selector raises.  *)

Nothing(outcome) == [outcome |-> outcome, specs |-> {}, events |-> {}]
Chosen(specs, events, time) ==
    [outcome |-> "selected", specs |-> specs,
     events |-> UNION {Applied(spec, events, time) : spec \in specs}]

TwoOfAModule(specs) == \E a, b \in specs : a # b /\ a.module = b.module

\* Fault: a published version holds outside its validity, too.
CandidatesPublished(own, intent, time, namespace, environment) ==
    {v \in own.versions : /\ StateAt(v, own.events, time) = "published"
                          /\ Covers(v, intent) /\ v.namespace = namespace
                          /\ InEnvironment(v, environment)}

Candidates(own, intent, time, namespace, environment) ==
    {v \in own.versions : /\ InForce(v, own.events, time)
                          /\ Covers(v, intent) /\ v.namespace = namespace
                          /\ InEnvironment(v, environment)}

\* select: every version of the tenant must be authentic, and what is selected
\* must hold its own dependencies.
Select(catalog, intent, time, namespace, environment) ==
    LET own == CatalogOf(catalog, intent.tenant)
        candidates == Candidates(own, intent, time, namespace, environment)
        refs == {SpecRef(v) : v \in candidates}
    IN  IF \E v \in own.versions : ~Authentic(v, own.events) THEN Nothing("rejected")
        ELSE IF TwoOfAModule(candidates) THEN Nothing("ambiguous")
        ELSE IF candidates = {} \/ \E v \in candidates : \E k \in DOMAIN v.links : v.links[k] \notin refs
        THEN Nothing("no_safe_policy")
        ELSE Chosen(candidates, own.events, time)

\* Roots of select_complete: versions that claim to be published and cover the
\* intent, in any namespace.
Claimants(own, intent, time, environment) ==
    {v \in own.versions : /\ Covers(v, intent) /\ InEnvironment(v, environment)
                          /\ StateAt(v, own.events, time) = "published"}

\* Fault: a dependency need not hold in the environment.
WalkEverywhere(own, time, environment) ==
    LET walk[at \in own.versions \X SUBSET own.versions] ==
            LET spec == at[1]
                path == at[2]
                met == {v \in own.versions : \E k \in DOMAIN spec.links : spec.links[k] = SpecRef(v)}
                below == {walk[<<v, path \cup {spec}>>] : v \in met}
            IN  IF spec \in path \/ ~InForce(spec, own.events, time)
                THEN Nothing("no_safe_policy")
                ELSE IF ~Authentic(spec, own.events) THEN Nothing("rejected")
                ELSE IF \E b \in below : b.outcome # "selected" THEN Nothing("no_safe_policy")
                ELSE [outcome |-> "selected",
                      specs |-> {spec} \cup UNION {b.specs : b \in below}]
    IN  walk

\* add_closure, depth first along the links in their order: the first thing
\* that is wrong decides.  `path' is the set of versions being visited.
Walk(own, time, environment) ==
    LET walk[at \in own.versions \X SUBSET own.versions] ==
            LET spec == at[1]
                path == at[2]
                targets(k) == {v \in own.versions : SpecRef(v) = spec.links[k]}
                below == [k \in DOMAIN spec.links |->
                            IF targets(k) = {} THEN Nothing("no_safe_policy")
                            ELSE walk[<<CHOOSE v \in targets(k) : TRUE, path \cup {spec}>>]]
                wrong == {k \in DOMAIN spec.links : below[k].outcome # "selected"}
            IN  IF spec \in path \/ ~InEnvironment(spec, environment)
                THEN Nothing("no_safe_policy")
                ELSE IF ~Authentic(spec, own.events) THEN Nothing("rejected")
                ELSE IF ~InForce(spec, own.events, time) THEN Nothing("no_safe_policy")
                ELSE IF wrong # {} THEN below[CHOOSE k \in wrong : \A j \in wrong : k <= j]
                ELSE [outcome |-> "selected", events |-> {},
                      specs |-> {spec} \cup UNION {below[k].specs : k \in DOMAIN spec.links}]
    IN  walk

SelectComplete(catalog, intent, time, environment) ==
    LET own == CatalogOf(catalog, intent.tenant)
        claimants == Claimants(own, intent, time, environment)
        roots == {v \in claimants : InForce(v, own.events, time)}
        walk == Walk(own, time, environment)
        walks == {[root |-> v, found |-> walk[<<v, {}>>]] : v \in roots}
        wrong == {w \in walks : w.found.outcome # "selected"}
        first == CHOOSE w \in wrong : \A x \in wrong : w.root.id <= x.root.id
        specs == UNION {w.found.specs : w \in walks}
    IN  IF \E v \in claimants : ~Authentic(v, own.events) THEN Nothing("rejected")
        ELSE IF roots = {} THEN Nothing("no_safe_policy")
        ELSE IF TwoOfAModule(roots) THEN Nothing("ambiguous")
        ELSE IF wrong # {} THEN Nothing(first.found.outcome)
        ELSE IF TwoOfAModule(specs) THEN Nothing("ambiguous")
        ELSE Chosen(specs, own.events, time)
=============================================================================
