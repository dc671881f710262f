---------------------------- MODULE AtomicLedger ----------------------------
(***************************************************************************)
(* What a transaction of the event ledger promises to the handlers that    *)
(* run in one, without rows, hashes, locks or an order of appends: a call  *)
(* asks for a batch, and at one instant before the call ends either the    *)
(* whole batch joins the log or nothing of it does, for good.              *)
(***************************************************************************)
EXTENDS Sequences

CONSTANTS
    Connections,  \* who calls
    Batches       \* what a call may ask for

VARIABLES
    log,      \* everything written, in order
    calling,  \* whose call has not ended
    wanted    \* the batch each call asks for

atomicVars == <<log, calling, wanted>>

Init ==
    /\ log = <<>>
    /\ calling = {}
    /\ wanted = [c \in Connections |-> <<>>]

Ask(c, batch) ==
    /\ c \notin calling
    /\ calling' = calling \cup {c}
    /\ wanted' = [wanted EXCEPT ![c] = batch]
    /\ UNCHANGED log

Leave(c) ==
    /\ c \in calling
    /\ calling' = calling \ {c}
    /\ wanted' = [wanted EXCEPT ![c] = <<>>]

Write(c) == Leave(c) /\ log' = log \o wanted[c]
GiveUp(c) == Leave(c) /\ UNCHANGED log

Next ==
    \E c \in Connections :
        \/ \E batch \in Batches : Ask(c, batch)
        \/ Write(c)
        \/ GiveUp(c)

Spec == Init /\ [][Next]_atomicVars
=============================================================================
