---------------------------- MODULE MCEnterprise ----------------------------
(***************************************************************************)
(* A base version that is a correction for one environment (or a plain one, *)
(* for projection), a version that rests on it, and a rival of the base's  *)
(* module with a limited validity.                                         *)
(***************************************************************************)
EXTENDS EnterpriseSystem

Advance == [actor |-> "agent", verb |-> "advance"]
Activate == [actor |-> "agent", verb |-> "activate"]

Intent(id, kind, route) ==
    [id |-> id, tenant |-> "acme", verb |-> kind.verb, kind |-> kind, route |-> route]

Plain(key) == [key |-> key, approvals |-> {}, post_action |-> {}]
Guarded(key) ==
    [key |-> key,
     approvals |-> {[key |-> "risk", role |-> "officer", scope |-> "supplier", minimum_count |-> 1,
                     separate_from |-> {"actor", "proposer"},
                     failure |-> [kind |-> kind, targets |-> {"human"}]] :
                        kind \in {"require_approval", "switch_route", "block"}},
     post_action |-> {[key |-> "bank", kind |-> "bank_check"]}]

Version(id, module, rules, links) ==
    [id |-> id, tenant |-> "acme", module |-> module, rules |-> rules, links |-> links,
     hash |-> 0, sealed |-> TRUE, covers |-> Advance, namespace |-> "supplier",
     environments |-> None, from |-> None, until |-> None]
Ref(id) == [id |-> id, hash |-> 0]

Base ==
    [Version(1, "base", {Plain("r1")}, <<>>)
        EXCEPT !.covers = Activate, !.environments = {"production"}]
Ground == Version(1, "base", {Plain("r1")}, <<>>)
Rules == Version(2, "rules", {Plain("r1"), Guarded("r2")}, <<Ref(1)>>)
Rival == [Version(3, "base", {Plain("r1")}, <<>>) EXCEPT !.until = 1, !.namespace = "other"]

\* Versions only, none of them damaged.
Closure ==
    [versions |-> {Base, Rules, Rival}, released_by |-> 0, delays |-> {0, 1},
     intents |-> {Intent("i1", Advance, "autonomous")}, environments |-> {None, "production"},
     verdicts |-> {}, max_time |-> 1, max_damage |-> 0, max_projections |-> 0,
     max_decisions |-> 0, max_cases |-> 0,
     max_filed |-> 0]

\* Two of them, and an event is altered.
Altered == [Closure EXCEPT !.versions = {Base, Rules}, !.max_damage = 1]

\* Decisions, projections and cases.
Projected ==
    [versions |-> {Ground, Rules}, released_by |-> 0, delays |-> {0},
     intents |-> {Intent("i1", Advance, "autonomous"), Intent("i2", Activate, "autonomous")},
     environments |-> {"production"}, verdicts |-> {"allow", "block", "route"},
     max_time |-> 0, max_damage |-> 0, max_projections |-> 3, max_decisions |-> 2, max_cases |-> 2,
     max_filed |-> 1]

MCWorlds == {Closure, Altered, Projected}
=============================================================================
