--------------------------- MODULE SyntheticPolicy ---------------------------
(***************************************************************************)
(* The example control set: within_limit, above_limit, recurring_blocked.  *)
(* A policy is given by its one-time limit and by whether the controls are *)
(* PUBLISHED; controls in any other status select nothing.                 *)
(***************************************************************************)
EXTENDS Naturals

\* Controls of the set whose predicates a request satisfies.
Selected(p, r) ==
    {name \in {"within_limit", "above_limit", "recurring_blocked"} :
        /\ p.published
        /\ CASE name = "within_limit" -> ~r.recurring /\ r.amount <= p.limit
             [] name = "above_limit" -> ~r.recurring /\ r.amount > p.limit
             [] OTHER -> r.recurring}

\* The verdict with no facts: nothing selected blocks, a block dominates, and
\* the approval above_limit requires is missing.
SyntheticVerdict(p, r) ==
    LET names == Selected(p, r)
    IN  IF names = {} \/ "recurring_blocked" \in names THEN "block"
        ELSE IF "above_limit" \in names THEN "require_approval"
        ELSE "allow"
=============================================================================
