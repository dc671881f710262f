------------------------- MODULE PortableContracts -------------------------
(***************************************************************************)
(* What the validators of the portable contracts let through.  No value    *)
(* that breaks one of these reaches the core, and an operation that would  *)
(* produce such a value raises instead.  Titles, versions, references and  *)
(* explanation codes are left out.                                         *)
(***************************************************************************)
EXTENDS Integers

CONSTANT None    \* an absent optional value, and the result of a raise

Permissive == {"allow", "allow_with_conditions"}
DefaultKinds == {"continue", "record_only", "block"}

\* A predicate has the operands of its operator and no others.
WellFormedPredicate(p) ==
    CASE p.operator = "in" -> DOMAIN p = {"operator", "path", "values"} /\ p.values # {}
      [] p.operator = "exists" -> DOMAIN p = {"operator", "path", "expected"}
      [] OTHER -> DOMAIN p = {"operator", "path", "value"}

\* A route that is there has a place in the canonical order of routes.
WellFormedRoute(route) == route # None /\ route.order \in Nat

\* A failure may route anywhere, the default routes included.
WellFormedFailure(f) ==
    /\ f.class = "failure"
    /\ CASE f.verdict = "route" -> WellFormedRoute(f.route)
         [] f.verdict = "block" -> WellFormedRoute(f.route) /\ f.route.kind = "block"
         [] f.verdict = "require_approval" -> f.route = None
         [] OTHER -> FALSE

WellFormedRequirement(r) ==
    /\ WellFormedFailure(r.failure)
    /\ r.type # "profile" => r.minimum_count \in Nat \ {0}

WellFormedEffect(e) ==
    /\ e.class = "effect" /\ WellFormedRoute(e.route)
    /\ CASE e.verdict = "block" -> e.route.kind = "block"
         [] e.verdict \in {"route", "require_approval"} -> e.route.kind \notin DefaultKinds
         [] e.verdict \in Permissive -> e.route.kind # "block"
         [] OTHER -> FALSE
    /\ \A r \in e.requirements : WellFormedRequirement(r)
    /\ \A k \in e.conditions : WellFormedFailure(k.failure)

WellFormedControl(c) ==
    /\ c.from # None /\ c.until # None => c.from < c.until
    /\ \A field \in DOMAIN c.match : c.match[field] # {}
    /\ \A p \in c.predicates : WellFormedPredicate(p)
    /\ WellFormedFailure(c.on_unknown)
    /\ WellFormedEffect(c.effect)

\* Everything a control falls back to.
FailureEffects(c) ==
    {c.on_unknown} \cup {k.failure : k \in c.effect.conditions}
                   \cup {r.failure : r \in c.effect.requirements}

\* A profile's own rules pair its verdict with its route, not the contract.
WellFormedProfile(f) ==
    /\ f.verdict \in Permissive \cup {"require_approval", "route", "block", "conflict"}
    /\ WellFormedRoute(f.route)

\* Fault: an approval decision, too, must name an alternate route.
ApprovalNeedsRoute(d) ==
    /\ d.verdict \in Permissive => d.controls # {} /\ d.route.kind # "block"
    /\ d.verdict \in {"block", "conflict"} => d.route.kind = "block"
    /\ d.verdict \in {"route", "require_approval"} => d.route.kind \notin DefaultKinds

AcceptableDecision(d) ==
    /\ d.expires > d.evaluated
    /\ d.verdict \in Permissive => d.controls # {} /\ d.route.kind # "block"
    /\ d.verdict \in {"block", "conflict"} => d.route.kind = "block"
    /\ d.verdict = "route" => d.route.kind \notin DefaultKinds

\* Success is for the system to determine.
AcceptableReceipt(r) ==
    /\ r.status = "complete" =>
        r.seen.outcome = "succeeded" /\ r.seen.route # None /\ r.missing = {}
    /\ r.status = "complete" <=> r.outcome = "completed"
    /\ r.outcome \in {"approved", "rejected"} => r.seen.outcome # "succeeded"
=============================================================================
