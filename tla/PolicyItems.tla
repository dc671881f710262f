----------------------------- MODULE PolicyItems -----------------------------
(***************************************************************************)
(* Human decisions about single items of a policy module: which items a    *)
(* module has, what a decision selects of them, and when the modules that  *)
(* cite a decision say exactly what it selected.                           *)
(*                                                                         *)
(* A module is a set of carriers of citations: a rule, or a requirement,   *)
(* prohibition, route constraint, condition or cap of one.  `parts' is     *)
(* what it says besides its citations.  A citation names a decision and    *)
(* the hash it had; `exact' says that the hash is right.                   *)
(***************************************************************************)
EXTENDS FiniteSets

Source == [of |-> "source", exact |-> TRUE]
Cites(decision, exact) == [of |-> decision, exact |-> exact]

\* Citations as they are compared: without those of one decision.
Compared(traces, decision) == {t \in traces : t.of # decision}

\* The parts that are items of their own and inherit their carrier's citations.
OwnParts(form, kind) ==
    CASE kind = "rule" -> IF form = "v3" THEN {"on_unknown"} ELSE {"on_unknown", "when"}
      [] kind = "prohibition" -> {"on_unknown", "when"}
      [] kind = "requirement" -> {"failure_effect"}
      [] kind = "economic_cap" -> {"breach_effect"}
      [] OTHER -> {}

\* A carrier as an item: a rule stands for its citations alone.
CarrierItem(c, decision) ==
    [path |-> <<c.kind, c.key>>, traces |-> c.traces,
     value |-> [parts |-> IF c.kind = "rule" THEN {} ELSE {<<p, c.parts[p]>> : p \in DOMAIN c.parts},
                traces |-> Compared(c.traces, decision)]]

PartItems(form, c) ==
    {[path |-> <<c.kind, c.key, p>>, traces |-> c.traces,
      value |-> [parts |-> {<<p, c.parts[p]>>}, traces |-> {}]] :
        p \in OwnParts(form, c.kind) \cap DOMAIN c.parts}

\* Fault: citations of every decision are left out of the comparison.
ItemsUncited(module, decision) ==
    UNION {{[CarrierItem(c, decision) EXCEPT !.value.traces = {}]}
            \cup PartItems(module.form, c) : c \in module.carriers}

\* Every item of a module.
Items(module, decision) ==
    UNION {{CarrierItem(c, decision)} \cup PartItems(module.form, c) : c \in module.carriers}

PathsOf(items) == {i.path : i \in items}

\* The traversal raises for what the third form leaves out, and for a path
\* that two items have.
Traversable(module) ==
    /\ module.form = "v3" =>
        \A c \in module.carriers :
            /\ c.kind \notin {"prohibition", "economic_cap"}
            /\ c.kind = "rule" => "when" \notin DOMAIN c.parts
            /\ c.kind = "route_constraint" => Cardinality(c.parts.routes) = 1
    /\ \A i, j \in Items(module, "none") : i.path = j.path => i = j

-----------------------------------------------------------------------------
(* Decisions *)

\* A selection takes items of the module it keeps a copy of.
SelectionOK(s) ==
    /\ s.module_key = s.module.key
    /\ Traversable(s.module)
    /\ s.paths # {} /\ s.paths \subseteq PathsOf(Items(s.module, "none"))

\* One selection per module, and no copy cites the decision itself.
DecisionOK(d) ==
    /\ d.selections # {}
    /\ \A s \in d.selections :
        /\ SelectionOK(s)
        /\ \A i \in Items(s.module, "none") : \A t \in i.traces : t.of # d.id
    /\ \A s, t \in d.selections : s.module_key = t.module_key => s = t

CitedPaths(items, decision) ==
    {i.path : i \in {j \in items : Cites(decision, TRUE) \in j.traces}}

\* Fault: the items that cite the decision may be more than it selected.
ModuleMatchesAtLeast(d, module) ==
    /\ Traversable(module)
    /\ \E s \in d.selections :
        /\ s.paths \subseteq CitedPaths(Items(module, d.id), d.id)
        /\ \A i \in Items(module, d.id), j \in Items(s.module, "none") :
                i.path = j.path /\ i.path \in s.paths => i.value = j.value

\* One module against what the decision selected of it.
ModuleMatches(d, module) ==
    \E live \in {Items(module, d.id)} :
        /\ Traversable(module)
        /\ \A i \in live : Cites(d.id, FALSE) \notin i.traces
        /\ IF \A s \in d.selections : s.module_key # module.key
           THEN CitedPaths(live, d.id) = {}
           ELSE \E s \in d.selections :
                    /\ s.module_key = module.key
                    /\ s.paths = CitedPaths(live, d.id)
                    /\ \A i \in live, j \in Items(s.module, "none") :
                            i.path = j.path /\ i.path \in s.paths => i.value = j.value

SemanticsMatch(d, modules) ==
    /\ {s.module_key : s \in d.selections} \subseteq {module.key : module \in modules}
    /\ \A module \in modules : ModuleMatches(d, module)

-----------------------------------------------------------------------------
(* Versions *)

\* A version of the third form: every item is traced, and every carrier and
\* every trace carries the very citations of the version, of both types.
VersionTraced(v) ==
    /\ {t.path : t \in v.item_traces} = PathsOf(Items(v.module, "none"))
    /\ \A t \in v.item_traces : t.traces = v.traces
    /\ \A c \in v.module.carriers : c.traces = v.traces
    /\ Source \in v.traces /\ \E t \in v.traces : t.of # "source"
=============================================================================
