--------------------------- MODULE OneUseAuthority ---------------------------
(***************************************************************************)
(* What the engine and the target together promise of one action key,      *)
(* without clocks, calls, messages or processes:                           *)
(*   - the first request filed under a key, and the policy it is filed     *)
(*     under, stay;                                                        *)
(*   - a key is granted at most once, for the filed request, and only if   *)
(*     that policy allows it, or asks for an approval and a human other    *)
(*     than the actor consented to that request;                           *)
(*   - a key is spent at most once, by its grant (or by the baseline that  *)
(*     takes no part in the protocol), and for the filed request;          *)
(*   - a key is confirmed only after its grant was spent.                  *)
(***************************************************************************)
EXTENDS PurchaseDomain

VARIABLES
    filed,      \* [request, policy] of each key
    agreed,     \* request a human consented to
    granted,    \* nonce of the key's grant
    spent,      \* [request, nonce] recorded by the target
    confirmed   \* last answer to whether the grant was spent

authorityVars == <<filed, agreed, granted, spent, confirmed>>

Init ==
    /\ filed = [k \in Keys |-> None]
    /\ agreed = [k \in Keys |-> None]
    /\ granted = [k \in Keys |-> None]
    /\ spent = [k \in Keys |-> None]
    /\ confirmed = [k \in Keys |-> None]

\* f is what is filed under k, or may be filed now.
Files(k, f) ==
    /\ KeyOf(k[1], f.request) = k
    /\ filed[k] \in {None, f}
    /\ filed' = [filed EXCEPT ![k] = f]

Filings == [request : Requests, policy : Policies]

File(k) ==
    /\ \E f \in Filings : Files(k, f)
    /\ UNCHANGED <<agreed, granted, spent, confirmed>>

Consent(k) ==
    /\ filed[k] # None
    /\ k[1] \notin OperatorScopes
    /\ agreed' = [agreed EXCEPT ![k] = filed[k].request]
    /\ UNCHANGED <<filed, granted, spent, confirmed>>

Permitted(k, f) ==
    CASE Verdict(f.policy, f.request) = "allow" -> TRUE
      [] Verdict(f.policy, f.request) = "require_approval" -> agreed[k] = f.request
      [] OTHER -> FALSE

Grant(k) ==
    /\ granted[k] = None
    /\ \E f \in Filings : Files(k, f) /\ Permitted(k, f)
    /\ \E n \in Nonces :
         /\ \A j \in Keys : granted[j] # n
         /\ granted' = [granted EXCEPT ![k] = n]
    /\ UNCHANGED <<agreed, spent, confirmed>>

Spend(k) ==
    /\ spent[k] = None
    /\ granted[k] # None
    /\ spent' = [spent EXCEPT ![k] = [request |-> filed[k].request, nonce |-> granted[k]]]
    /\ UNCHANGED <<filed, agreed, granted, confirmed>>

SpendUnguarded(k) ==
    /\ spent[k] = None
    /\ \E r \in Requests :
         /\ KeyOf(k[1], r) = k
         /\ spent' = [spent EXCEPT ![k] = [request |-> r, nonce |-> Unguarded]]
    /\ UNCHANGED <<filed, agreed, granted, confirmed>>

Confirm(k) ==
    /\ \E answer \in BOOLEAN :
         /\ answer => granted[k] # None /\ spent[k] # None /\ spent[k].nonce = granted[k]
         /\ confirmed' = [confirmed EXCEPT ![k] = answer]
    /\ UNCHANGED <<filed, agreed, granted, spent>>

Next == \E k \in Keys : File(k) \/ Consent(k) \/ Grant(k) \/ Spend(k)
                          \/ SpendUnguarded(k) \/ Confirm(k)

Spec == Init /\ [][Next]_authorityVars
=============================================================================
