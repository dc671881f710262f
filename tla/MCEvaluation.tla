---------------------------- MODULE MCEvaluation ----------------------------
(***************************************************************************)
(* A small payments pack: amounts up to 75 are allowed against a receipt,  *)
(* larger ones need a manager who is not the proposing agent.              *)
(***************************************************************************)
EXTENDS EvaluationSession, TLC

Route(kind, order) == [kind |-> kind, order |-> order, recheck |-> FALSE]
Continue == Route("continue", 5)
Ask == [kind |-> "ask_user", order |-> 0, recheck |-> TRUE]
Human == [kind |-> "human_review", order |-> 6, recheck |-> TRUE]
Stop == Route("block", 4)

Amount == "/context/amount"
Intent(id, document) ==
    [id |-> id, namespace |-> "pay", kind |-> [actor |-> "agent"], sealed |-> TRUE,
     lineage |-> {"agent", "service"}, document |-> document]
Small == Intent("small", Amount :> <<"int", 40>>)
Large == Intent("large", Amount :> <<"int", 90>>)
Vague == Intent("vague", <<>>)

Failure(verdict, route) == [class |-> "failure", verdict |-> verdict, route |-> route]
NeedsApproval == Failure("require_approval", None)

AmountIs(operator, limit) == [operator |-> operator, path |-> Amount, value |-> <<"int", limit>>]
Effect(verdict, route, requirements, conditions) ==
    [class |-> "effect", verdict |-> verdict, route |-> route,
     requirements |-> requirements, conditions |-> conditions]
Control(id, predicates, effect, unknown) ==
    [id |-> id, namespace |-> "pay", status |-> "published", from |-> None, until |-> None,
     match |-> [actor |-> {"agent"}], predicates |-> predicates, effect |-> effect,
     on_unknown |-> unknown, extensions |-> {}, sealed |-> TRUE]

Receipt ==
    [type |-> "evidence", id |-> "receipt", kind |-> "receipt", subject |-> "purchase",
     minimum_count |-> 1, max_age |-> 1, verifier |-> "receipt_valid",
     producer_not_actor |-> TRUE, certifier_not_actor |-> FALSE,
     producer_certifier_distinct |-> FALSE, failure |-> Failure("block", Stop)]
Manager(count) ==
    [type |-> "approval", id |-> "manager", role |-> "manager", scope |-> "exact",
     minimum_count |-> count, separate_from_actor |-> TRUE, separate_from_roles |-> {"proposer"},
     failure |-> NeedsApproval]

WithinLimit == Control("within_limit", {AmountIs("lte", 75)},
    Effect("allow", Continue, {Receipt}, {}), Failure("block", Stop))
OverLimit == Control("over_limit", {AmountIs("gt", 75)},
    Effect("allow_with_conditions", Continue, {Manager(1)}, {}), NeedsApproval)
\* Asks for the same evidence once more.
Booked == Control("booked", {AmountIs("lte", 75)},
    Effect("allow", Continue, {[Receipt EXCEPT !.id = "booking"]}, {}), Failure("block", Stop))
Forbidden == Control("forbidden", {AmountIs("gt", 80)},
    Effect("block", Stop, {}, {}), Failure("block", Stop))
Reviewed == Control("reviewed", {}, Effect("route", Human, {}, {}), NeedsApproval)
Asked == [Control("asked", {}, Effect("route", Ask, {}, {}), NeedsApproval)
            EXCEPT !.from = 1, !.until = 2]
\* An effect that rests on a profile, which sends the action to review.
Profiled == Control("profiled", {},
    Effect("allow", Continue, {[type |-> "profile", id |-> "risk", verifier |-> "risk_profile",
                                failure |-> NeedsApproval]}, {}),
    NeedsApproval)
Profile(status, verdict, route) ==
    [verifier |-> "risk_profile", intent |-> None, control |-> Profiled, snapshot |-> None,
     status |-> status, verdict |-> verdict, route |-> route,
     approvals |-> {}, evidence |-> {}, sealed |-> TRUE]
\* A condition whose failure routes to a default route.
Settled == Control("settled", {},
    Effect("allow", Ask, {},
           {[id |-> "settled", verifier |-> "controlspec.core.verifier.predicate",
             predicate |-> AmountIs("lt", 50), failure |-> Failure("route", Continue)]}),
    NeedsApproval)

Approval(approver, lineage) ==
    [basis |-> None, intent |-> None, requirement |-> "manager", scope |-> "exact",
     approver |-> approver, lineage |-> lineage, lineage_complete |-> TRUE,
     roles |-> {"manager"}, separated |-> [proposer |-> {"agent"}], approved |-> TRUE,
     authority_exact |-> TRUE, from |-> 0, until |-> 0, sealed |-> TRUE]
ByManager == Approval("manager", {"manager"})
BySecond == Approval("second", {"second"})
ByDelegate == Approval("delegate", {"delegate", "service"})

Certificate(producer) ==
    [ref |-> producer, intent |-> None, namespace |-> "pay", kind |-> "receipt", subject |-> "purchase",
     producer |-> {producer}, producer_complete |-> TRUE,
     certifier |-> {"bank"}, certifier_complete |-> TRUE, verified_at |-> 0, sealed |-> TRUE]

Verifiers == {"receipt_valid", "risk_profile", "controlspec.core.verifier.predicate"}

\* Publication: controls of every verdict come and go.
Publication ==
    [controls |-> {OverLimit, Forbidden, Profiled, Asked, Settled},
     intents |-> {Small, Large, Vague},
     approvals |-> {ByManager}, certificates |-> {},
     profiles |-> {Profile("satisfied", "route", Human)},
     max_decisions |-> 1, max_checks |-> 0, max_receipts |-> 0, max_facts |-> 1]
\* Consent: two approvals are needed, of independent and related approvers.
Consent ==
    [controls |-> {[OverLimit EXCEPT !.effect.requirements = {Manager(2)}], Reviewed},
     intents |-> {Large, Vague},
     approvals |-> {ByManager, BySecond, ByDelegate}, certificates |-> {}, profiles |-> {},
     max_decisions |-> 2, max_checks |-> 0, max_receipts |-> 0, max_facts |-> 2]
\* Purchase: an allowed action is carried out, certified and recorded.
Purchase ==
    [controls |-> {WithinLimit, Forbidden},
     intents |-> {Small, Large},
     approvals |-> {}, certificates |-> {Certificate("shop"), Certificate("service")},
     profiles |-> {},
     max_decisions |-> 1, max_checks |-> 2, max_receipts |-> 1, max_facts |-> 1]
\* Booking: one certificate may have to serve two controls.
Booking ==
    [Purchase EXCEPT !.controls = {WithinLimit, Booked}, !.intents = {Small},
                     !.certificates = {Certificate("shop")}, !.max_checks = 1]
AllHosts == {Publication, Consent, Purchase, Booking}
=============================================================================
