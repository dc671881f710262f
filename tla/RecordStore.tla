----------------------------- MODULE RecordStore -----------------------------
(***************************************************************************)
(* The files of a store: the advancement of corrected drafts, the records  *)
(* of actions and workflows, or decisions about policy items.  None of     *)
(* these names a record of another at the level of detail modelled, so a   *)
(* history is about one of them.                                           *)
(***************************************************************************)
EXTENDS Advancement, ActionRecords, ItemDecisions

VARIABLES subject

recordVars == <<filed, records, modules, decisions, versions, changes, subject>>

Init ==
    /\ AdvInit /\ records = <<>>
    /\ subject \in {"advancement", "actions", "items"}
    /\ IF subject = "items" THEN ItemInit
       ELSE modules = {} /\ decisions = {} /\ versions = {} /\ changes = 0

Next ==
    \/ subject = "advancement" /\ AdvNext /\ UNCHANGED <<records, itemVars, subject>>
    \/ subject = "actions" /\ FileRecord /\ UNCHANGED <<filed, itemVars, subject>>
    \/ subject = "items" /\ ItemNext /\ UNCHANGED <<filed, records, subject>>

Spec == Init /\ [][Next]_recordVars
=============================================================================
