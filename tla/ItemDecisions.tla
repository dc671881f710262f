---------------------------- MODULE ItemDecisions ----------------------------
(***************************************************************************)
(* Live policy modules, human decisions about their items, and versions    *)
(* filed of them.  Modules are edited and cited in any order, so that a    *)
(* decision is about what a module was when it was taken.                  *)
(***************************************************************************)
EXTENDS PolicyItems, Naturals, FiniteSetsExt

CONSTANTS
    FirstModules, \* sets of modules to begin with
    DecisionIds,
    MaxChanges,   \* how often a module is edited or cited
    MaxVersions   \* how many versions are filed

\* The modules to begin with cite none of the decisions that are still to come.
ASSUME ItemAssumption ==
    /\ MaxChanges \in Nat /\ MaxVersions \in Nat
    /\ \A ms \in FirstModules : \A m \in ms :
        /\ "carriers" \in DOMAIN m
        /\ \A c \in m.carriers :
            "traces" \in DOMAIN c /\ \A t \in c.traces : t.of \notin DecisionIds

VARIABLES
    modules,    \* the live modules
    decisions,  \* the decisions about their items
    versions,   \* what was filed of the third form
    changes     \* how often a module was edited or cited

itemVars == <<modules, decisions, versions, changes>>

\* What a decision may be asked to select: the items of some carriers, or all
\* items but one.
PathChoices(m) ==
    LET all == Items(m, "none")
        of(cs) == PathsOf({i \in all : \E c \in cs : i.path[1] = c.kind /\ i.path[2] = c.key})
    IN  {of(cs) : cs \in SUBSET m.carriers} \cup {PathsOf(all) \ {p} : p \in PathsOf(all)}

Selections(ms) ==
    UNION {[module_key : {m.key}, module : {m}, paths : PathChoices(m)] : m \in ms}

Decide(id) ==
    /\ \A d \in decisions : d.id # id
    /\ \E selections \in UNION {kSubset(k, Selections(modules)) : k \in 1 .. Cardinality(modules)} :
        \E d \in {[id |-> id, selections |-> selections]} :
            /\ DecisionOK(d)
            /\ decisions' = decisions \cup {d}
    /\ UNCHANGED <<modules, versions, changes>>

\* A carrier of a live module is replaced.
Change(m, c, changed) ==
    /\ changes < MaxChanges /\ changed # c
    /\ modules' = (modules \ {m}) \cup {[m EXCEPT !.carriers = (@ \ {c}) \cup {changed}]}
    /\ changes' = changes + 1
    /\ UNCHANGED <<decisions, versions>>

\* A citation has the decision's hash, or one it does not have.
Cite ==
    \E m \in modules : \E c \in m.carriers, d \in decisions, exact \in BOOLEAN :
        Change(m, c, [c EXCEPT !.traces = @ \cup {Cites(d.id, exact)}])

Uncite ==
    \E m \in modules : \E c \in m.carriers : \E t \in c.traces :
        t # Source /\ Change(m, c, [c EXCEPT !.traces = @ \ {t}])

Edit ==
    \E m \in modules : \E c \in m.carriers : \E p \in DOMAIN c.parts :
        p # "routes" /\ Change(m, c, [c EXCEPT !.parts[p] = "edited"])

\* A version traces every item of a module to the same citations.
FileVersion ==
    \E m \in modules :
        /\ m.form = "v3" /\ Cardinality(versions) < MaxVersions
        /\ \E traces \in {c.traces : c \in m.carriers} :
            \E v \in {[module |-> m, traces |-> traces,
                       item_traces |-> {[path |-> p, traces |-> traces] :
                                           p \in PathsOf(Items(m, "none"))}]} :
                VersionTraced(v) /\ versions' = versions \cup {v}
        /\ UNCHANGED <<modules, decisions, changes>>

ItemInit == modules \in FirstModules /\ decisions = {} /\ versions = {} /\ changes = 0

ItemNext ==
    \/ \E id \in DecisionIds : Decide(id)
    \/ Cite \/ Uncite \/ Edit \/ FileVersion

-----------------------------------------------------------------------------
(* Properties *)

(***************************************************************************)
(* Of two decisions that both say exactly what the live modules say, no    *)
(* item was selected by both: the later one saw the earlier one's          *)
(* citation, so the earlier one no longer matches.                         *)
(***************************************************************************)
OneDecisionPerItem ==
    \A d, e \in decisions : d # e /\ SemanticsMatch(d, modules) /\ SemanticsMatch(e, modules) =>
        \A s \in d.selections, t \in e.selections :
            s.module_key = t.module_key => s.paths \cap t.paths = {}

(***************************************************************************)
(* A version of the third form is decided as a whole: a decision that it   *)
(* cites and that matches it selected every one of its items, for each     *)
(* carries the citations of the version.                                   *)
(***************************************************************************)
WholeOrNothing ==
    \A v \in versions, d \in decisions :
        Cites(d.id, TRUE) \in v.traces /\ ModuleMatches(d, v.module) =>
            \E s \in d.selections :
                s.module_key = v.module.key /\ s.paths = PathsOf(Items(v.module, "none"))
=============================================================================
