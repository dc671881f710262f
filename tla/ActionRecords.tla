---------------------------- MODULE ActionRecords ----------------------------
(***************************************************************************)
(* The records of an action from its decisions to its receipts, filed one  *)
(* after the other.  A draft names the latest record of each kind it needs *)
(* or, by a slip, one record of another tenant; it is filed if its         *)
(* contract finds it well-formed.  The service that files the records is   *)
(* not in the repository, so nothing more is asked of it.                  *)
(***************************************************************************)
EXTENDS WorkflowContracts, Sequences, FiniteSetsExt

CONSTANTS
    Agenda,     \* the kinds of the records, in the order they are filed
    MaxSlips,   \* how many filed records name another tenant's
    Mine, Theirs

ASSUME AgendaAssumption ==
    /\ Mine # Theirs /\ MaxSlips \in Nat
    /\ \A i \in DOMAIN Agenda : Agenda[i] \in DOMAIN Schema

VARIABLES records  \* what the tenant Mine has filed; all of Theirs is filed before

\* A record is named by its tenant, its kind and its place in the file.
Name(kind, tenant, place) == [kind |-> kind, tenant |-> tenant, place |-> place]
Latest(kind) == Max({0} \cup {i \in DOMAIN records : records[i].kind = kind})

\* References that may be absent.
OptionalLinks(kind) ==
    CASE kind \in {"ProductionAssuranceReceipt", "ProductionReceiptStreamEvent"} ->
            {"predecessor_receipt_ref", "predecessor_event_ref"} \cap DOMAIN Schema[kind]
      [] kind \in {"ProductionAssuranceReceiptPayload", "ProductionReconciliationSnapshot"} ->
            {"evidence_binding_refs"}
      [] kind = "DeploymentReadinessReport" -> {"blocking_gap_refs", "exception_refs"}
      [] kind \in {"ControlDecision", "WorkflowControlDecision"} -> {"approval_refs", "evidence_refs"}
      [] OTHER -> {}

\* The references of a draft: to what is filed, with one slip at most.
ExactLinks(kind, absent) ==
    [f \in DOMAIN Schema[kind] \ absent |-> Name(Schema[kind][f], Mine, Latest(Schema[kind][f]))]
LinkChoices(kind) ==
    UNION {{exact} \cup {[exact EXCEPT ![f].tenant = Theirs] : f \in DOMAIN exact} :
              exact \in {ExactLinks(kind, absent) : absent \in SUBSET OptionalLinks(kind)}}

\* What else a validator looks at: a proper choice and improper ones, for
\* readiness two proper ones and for receipts every one.
DataChoices(kind, links) ==
    CASE kind = "TargetKeyBinding" ->
            [valid_from : {1}, valid_until : {1, 2}, revoked_at : {None, 0}]
      [] kind = "TargetAuthorization" ->
            [issued_at : {1}, expires_at : {1, 2}, authorization_key : {"key"},
             result_key : {"key", "result key"}]
      [] kind = "TargetDispatchEvent" ->
            [event_kind : {"LEASED", "DELIVERED"}, lease_owner : {"worker"}, lease_expires_at : {None, 2}]
      [] kind = "AuthenticatedTargetResult" ->
            [authorized_route : {"A"}, actual_route : {"A", "B"}, completed_at : {1},
             received_at : {0, 1}, verified_at : {0, 1}]
      [] kind \in {"ProductionExecutionRecordBridge", "ProductionAssuranceReceiptPayload"} ->
            [currency : {"EUR"}, charged_in : {"EUR", "USD"}, estimate : {-1, 0}, charge : {0, 1},
             meters : {1, 2}]
      [] kind = "ProductionReconciliationSnapshot" ->
            [currency : {"EUR"}, charged_in : {"EUR", "USD"}, estimate : {-1, 0}, charge : {0, 1}]
      [] kind = "ProductionAssuranceReceipt" ->
            [receipt_kind : {"INITIAL", "CORRECTION", "REVERSAL"}, sequence : {1, 2},
             superseded : {None} \cup {links[f] : f \in {"predecessor_receipt_ref"} \cap DOMAIN links},
             reasons : {{}, {"CORRECTION"}, {"REVERSAL"}, {"CORRECTION", "REVERSAL"}}]
      [] kind = "ProductionReceiptStreamEvent" -> [sequence : {1, 2}]
      [] kind = "DeploymentReadinessReport" ->
            [valid_from : {1}, valid_until : {1, 2}, ready : {TRUE},
             unsettled : {{}, {"a readiness code"}, {"a judgment"}}]
            \cup [valid_from : {1}, valid_until : {2}, ready : {FALSE}, unsettled : {{"a judgment"}}]
      [] OTHER -> [valid_from : {1}, valid_until : IF kind \in FiniteKinds THEN {1, 2} ELSE {2}]

Slipped(r) == \E f \in DOMAIN r.links : r.links[f].tenant # r.tenant

Drafts(kind) ==
    UNION {[kind : {kind}, tenant : {Mine}, links : {links}, data : DataChoices(kind, links)] :
              links \in LinkChoices(kind)}

FileRecord ==
    /\ Len(records) < Len(Agenda)
    /\ \E r \in Drafts(Agenda[Len(records) + 1]) :
        /\ WellFormed(r)
        /\ Slipped(r) => Cardinality({i \in DOMAIN records : Slipped(records[i])}) < MaxSlips
        \* What it names of its own tenant is filed.
        /\ \A f \in DOMAIN r.links :
            LET named == r.links[f]
            IN  named.tenant = Mine /\ named.kind # "Earlier" => named.place > 0
        /\ records' = Append(records, r)

-----------------------------------------------------------------------------
(* Properties *)

\* The references to what a record rests on: who decided, what was evaluated
\* under which policies, what was permitted, in which deployment.
Grounds ==
    {"human_decision_ref", "human_decision_refs", "predecessor", "dependencies", "selected_specs",
     "intent_ref", "source_intent_ref", "evaluation_manifest_ref", "source_manifest_ref",
     "decision_ref", "source_decision_ref", "target_authorization_ref",
     "delivered_dispatch_ref", "authenticated_result_ref", "bridge_ref",
     "workflow_ref", "deployment_ref", "enforcement_point_ref", "policy_coverage_ref",
     "readiness_report_ref", "shadow_run_ref", "mode_transition_ref", "deployment_approval_refs"}

\* The records of a protected execution, from who decided to what is certified,
\* and of the deployment it runs in.  The decision and the intent are among them
\* although they hold references nobody compares.
Protecting ==
    {"HumanDecision", "RiskSpecVersion", "ActionIntent", "EvaluationInputManifest",
     "ControlDecision", "Approval", "EvidenceItem",
     "TargetAuthorization", "TargetDispatchEvent", "AuthenticatedTargetResult",
     "ProductionExecutionRecordBridge", "ProductionResultEvidenceBinding",
     "ProductionRequiredEvidenceEntry", "ProductionAssuranceReceiptPayload",
     "ProductionReconciliationSnapshot",
     "ProtectedWorkflow", "WorkflowDeploymentRevision", "EnforcementPoint",
     "PolicyCoverageBinding", "ShadowModeRun", "DeploymentReadinessReport",
     "EnforcementModeTransition", "DeploymentApproval", "WorkflowActionIntent",
     "WorkflowEvaluationInputManifest", "WorkflowControlDecision"}

\* What the i-th record rests on, by way of such records.
RestsOn ==
    LET rests[i \in DOMAIN records] ==
            LET names == {records[i].links[f] : f \in Grounds \cap DOMAIN records[i].links}
            IN  names \cup UNION {rests[n.place] :
                    n \in {m \in names : m.tenant = Mine /\ m.place > 0 /\ m.kind \in Protecting}}
    IN  rests

(***************************************************************************)
(* What a protected execution rests on, however many records away, is of   *)
(* its tenant: no decision, policy, manifest, permit or deployment of      *)
(* another comes in through a record on the way.  A validator sees the     *)
(* references of its own record only, and decisions and intents hold       *)
(* others, to approvals, evidence and facts, that none of them compares.   *)
(***************************************************************************)
GroundedAtHome ==
    \A i \in DOMAIN records : records[i].kind \in Protecting =>
        \A n \in RestsOn[i] : n.tenant = records[i].tenant
=============================================================================
