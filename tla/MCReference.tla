---------------------------- MODULE MCReference ----------------------------
(***************************************************************************)
(* A sales pack in two versions: small discounts need proof of the offer,  *)
(* large ones a manager; one scenario holds the manager's approval.        *)
(***************************************************************************)
EXTENDS ReferenceService, TLC

Continue == [kind |-> "continue", order |-> 5, recheck |-> FALSE]
Stop == [kind |-> "block", order |-> 4, recheck |-> FALSE]
Failure(verdict, route) == [class |-> "failure", verdict |-> verdict, route |-> route]

Discount == "/context/discount"
Intent(id, points) ==
    [id |-> id, namespace |-> "sales", kind |-> [actor |-> "agent"], sealed |-> TRUE,
     lineage |-> {"agent"}, document |-> Discount :> <<"int", points>>]
Small == Intent("small", 8)
Large == Intent("large", 15)
MCIntents == {Small, Large}

Requirement(type, id) ==
    [type |-> type, id |-> id, verifier |-> "offer_sent", minimum_count |-> 1,
     role |-> "manager", scope |-> "exact", separate_from_actor |-> TRUE,
     separate_from_roles |-> {}, kind |-> "offer", subject |-> "customer", max_age |-> None,
     producer_not_actor |-> TRUE, certifier_not_actor |-> FALSE,
     producer_certifier_distinct |-> FALSE, failure |-> Failure("require_approval", None)]
Control(id, operator, requirement, from, until) ==
    [id |-> id, namespace |-> "sales", status |-> "published", from |-> from, until |-> until,
     match |-> [actor |-> {"agent"}], extensions |-> {}, sealed |-> TRUE,
     predicates |-> {[operator |-> operator, path |-> Discount, value |-> <<"int", 10>>]},
     on_unknown |-> Failure("block", Stop),
     effect |-> [class |-> "effect", verdict |-> "allow_with_conditions", route |-> Continue,
                 requirements |-> {requirement}, conditions |-> {}]]
Within == Control("within", "lte", Requirement("evidence", "offer"), None, 2)
Beyond == Control("beyond", "gt", Requirement("approval", "manager"), None, None)
BeyondV2 == Control("beyond", "gt", Requirement("approval", "manager"), 1, None)

Selection(controls) ==
    [controls |-> controls, supported |-> {"offer_sent"}, enabled |-> TRUE, digest_matches |-> TRUE]
V1 == Selection({Within, Beyond})
V2 == Selection({Within, BeyondV2})
MCSelections == {V1, V2, [V1 EXCEPT !.enabled = FALSE]}

\* The approval a scenario retains, given to the decision made without it.
Basis == Evaluate(Large, Resolve(V1, 1), EmptyFacts, {"offer_sent"})
Approval ==
    [basis |-> Basis, intent |-> Large, requirement |-> "manager", scope |-> "exact",
     lineage |-> {"manager"}, lineage_complete |-> TRUE, roles |-> {"manager"},
     separated |-> <<>>, approved |-> TRUE, authority_exact |-> TRUE,
     from |-> 0, until |-> 3, sealed |-> TRUE]
MCScenarios ==
    {[intent |-> Large, selection |-> V1, time |-> 1,
      facts |-> [EmptyFacts EXCEPT !.basis = Basis, !.approvals = {Approval}]]}
=============================================================================
