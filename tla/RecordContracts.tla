--------------------------- MODULE RecordContracts ---------------------------
(***************************************************************************)
(* The contracts of the records about actions, their production execution, *)
(* and the workflows that protect them: which records each names, and what *)
(* its own validator demands.  A record is                                 *)
(*     [kind, tenant, links, data]                                         *)
(* where `links' gives the records its references name and `data' what     *)
(* else the validator looks at.  A kind lists every reference whose tenant *)
(* no validator compares, and most of those that one compares with the     *)
(* record's own; "Earlier" is a record of a kind that is not here.  The    *)
(* sources of a policy are named without a tenant and are left out.        *)
(***************************************************************************)
EXTENDS Integers, FiniteSets, TLC

CONSTANTS None

-----------------------------------------------------------------------------
(* What each kind names *)

HumanDecision == [source_refs |-> "Earlier", resolver_authority_grant_ref |-> "Earlier"]
RiskSpecVersion == [predecessor |-> "Earlier", dependencies |-> "Earlier"]
LifecycleEvent ==
    [spec_version_ref |-> "RiskSpecVersion", accepted_decision_refs |-> "HumanDecision",
     prior_event_ref |-> "Earlier", authority_grant_ref |-> "Earlier"]
ActionIntent ==
    [human_decision_ref |-> "HumanDecision", server_meter_refs |-> "Earlier",
     authoritative_fact_ref |-> "Earlier", prior_execution_ref |-> "Earlier"]
EvaluationInputManifest ==
    [intent_ref |-> "ActionIntent", selected_specs |-> "RiskSpecVersion",
     lifecycle_event_refs |-> "LifecycleEvent", human_decision_refs |-> "HumanDecision"]
ControlDecision ==
    [intent_ref |-> "ActionIntent", evaluation_manifest_ref |-> "EvaluationInputManifest",
     predecessor_decision_ref |-> "Earlier", selected_specs |-> "RiskSpecVersion",
     origin_specs |-> "RiskSpecVersion", approval_refs |-> "Approval",
     evidence_refs |-> "EvidenceItem", meter_refs |-> "Earlier"]
Approval ==
    [decision_ref |-> "ControlDecision", intent_ref |-> "ActionIntent",
     authority_grant_ref |-> "Earlier"]
EvidenceProductionEvent == [subject_ref |-> "ActionIntent", decision_ref |-> "ControlDecision"]
EvidenceCertificationEvent ==
    [production_event_ref |-> "EvidenceProductionEvent", authority_grant_ref |-> "Earlier"]
EvidenceVerificationEvent ==
    [production_event_ref |-> "EvidenceProductionEvent",
     certification_event_ref |-> "EvidenceCertificationEvent"]
EvidenceItem ==
    [subject_ref |-> "ActionIntent", decision_ref |-> "ControlDecision",
     production_event_ref |-> "EvidenceProductionEvent",
     certification_event_refs |-> "EvidenceCertificationEvent",
     verification_event_refs |-> "EvidenceVerificationEvent"]
ExecutionRecord ==
    [intent_ref |-> "ActionIntent", decision_ref |-> "ControlDecision",
     predecessor_event_ref |-> "Earlier"]

\* The execution at a target.
ProductionExecutionAttempt ==
    [semantic_action_group_ref |-> "SemanticActionGroup", execution_request_ref |-> "Earlier"]
TargetKeyBinding == [target_connector_ref |-> "Connector", target_registry_ref |-> "ProtectedTargetRegistryEntry"]
AtTarget ==
    [semantic_action_group_ref |-> "SemanticActionGroup",
     execution_attempt_ref |-> "ProductionExecutionAttempt",
     target_connector_ref |-> "Connector", target_registry_ref |-> "ProtectedTargetRegistryEntry",
     authorization_key_binding_ref |-> "TargetKeyBinding", result_key_binding_ref |-> "TargetKeyBinding"]
TargetAuthorization == AtTarget @@ [intent_ref |-> "ActionIntent", decision_ref |-> "ControlDecision"]
TargetDispatchEvent == AtTarget @@ [target_authorization_ref |-> "TargetAuthorization"]
AuthenticatedTargetResult == AtTarget @@ [target_authorization_ref |-> "TargetAuthorization"]
ReferenceSafeReplayProofAuthenticationInputV1 ==
    [result_binding_ref |-> "Earlier", result_binding_status_ref |-> "Earlier",
     target_authorization_ref |-> "TargetAuthorization", execution_request_ref |-> "Earlier"]
ProductionExecutionRecordBridge ==
    [intent_ref |-> "ActionIntent", evaluation_manifest_ref |-> "EvaluationInputManifest",
     selected_specs |-> "RiskSpecVersion", decision_ref |-> "ControlDecision",
     execution_attempt_ref |-> "ProductionExecutionAttempt",
     target_authorization_ref |-> "TargetAuthorization",
     delivered_dispatch_ref |-> "TargetDispatchEvent",
     authenticated_result_ref |-> "AuthenticatedTargetResult",
     meter_event_refs |-> "Earlier", execution_record_ref |-> "ExecutionRecord"]
ProductionResultEvidenceBinding ==
    [execution_attempt_ref |-> "ProductionExecutionAttempt",
     bridge_ref |-> "ProductionExecutionRecordBridge",
     authenticated_result_ref |-> "AuthenticatedTargetResult", evidence_item_ref |-> "EvidenceItem",
     production_event_ref |-> "EvidenceProductionEvent",
     verification_event_ref |-> "EvidenceVerificationEvent"]
ProductionRequiredEvidenceEntry ==
    [source_decision_ref |-> "ControlDecision", source_intent_ref |-> "ActionIntent",
     source_manifest_ref |-> "EvaluationInputManifest", evidence_item_ref |-> "EvidenceItem",
     production_event_ref |-> "EvidenceProductionEvent",
     certification_event_ref |-> "EvidenceCertificationEvent",
     verification_event_ref |-> "EvidenceVerificationEvent", certifier_grant_ref |-> "Earlier"]
ProductionAssuranceReceiptPayload ==
    [intent_ref |-> "ActionIntent", decision_ref |-> "ControlDecision",
     selected_specs |-> "RiskSpecVersion", execution_record_ref |-> "ExecutionRecord",
     bridge_ref |-> "ProductionExecutionRecordBridge",
     authenticated_result_ref |-> "AuthenticatedTargetResult",
     evidence_binding_refs |-> "ProductionResultEvidenceBinding",
     required_evidence |-> "ProductionRequiredEvidenceEntry",
     meter_event_refs |-> "Earlier", assessor_authority_grant_ref |-> "Earlier"]
ProductionAssuranceReceipt ==
    [payload |-> "ProductionAssuranceReceiptPayload",
     predecessor_receipt_ref |-> "ProductionAssuranceReceipt"]
ProductionReconciliationSnapshot ==
    [receipt_ref |-> "ProductionAssuranceReceipt", execution_attempt_ref |-> "ProductionExecutionAttempt",
     bridge_ref |-> "ProductionExecutionRecordBridge",
     evidence_binding_refs |-> "ProductionResultEvidenceBinding",
     required_evidence |-> "ProductionRequiredEvidenceEntry",
     assessor_authority_grant_ref |-> "Earlier"]
ProductionReceiptStreamEvent ==
    [execution_attempt_ref |-> "ProductionExecutionAttempt", receipt_ref |-> "ProductionAssuranceReceipt",
     predecessor_event_ref |-> "ProductionReceiptStreamEvent",
     predecessor_receipt_ref |-> "ProductionAssuranceReceipt"]
AssuranceReceipt ==
    [intent_ref |-> "ActionIntent", decision_ref |-> "ControlDecision",
     selected_specs |-> "RiskSpecVersion", execution_ref |-> "ExecutionRecord",
     approval_refs |-> "Approval", override_refs |-> "Earlier",
     supplied_evidence |-> "EvidenceItem", human_intervention_refs |-> "Earlier",
     predecessor_receipt_ref |-> "Earlier", superseded_receipt_ref |-> "Earlier"]

Kinds ==
    [HumanDecision |-> HumanDecision, RiskSpecVersion |-> RiskSpecVersion,
     LifecycleEvent |-> LifecycleEvent, ActionIntent |-> ActionIntent,
     EvaluationInputManifest |-> EvaluationInputManifest, ControlDecision |-> ControlDecision,
     Approval |-> Approval, EvidenceProductionEvent |-> EvidenceProductionEvent,
     EvidenceCertificationEvent |-> EvidenceCertificationEvent,
     EvidenceVerificationEvent |-> EvidenceVerificationEvent, EvidenceItem |-> EvidenceItem,
     ExecutionRecord |-> ExecutionRecord, SemanticActionGroup |-> <<>>,
     ProductionExecutionAttempt |-> ProductionExecutionAttempt,
     TargetKeyBinding |-> TargetKeyBinding, TargetAuthorization |-> TargetAuthorization,
     TargetDispatchEvent |-> TargetDispatchEvent,
     AuthenticatedTargetResult |-> AuthenticatedTargetResult,
     ReferenceSafeReplayProofAuthenticationInputV1 |-> ReferenceSafeReplayProofAuthenticationInputV1,
     ProductionExecutionRecordBridge |-> ProductionExecutionRecordBridge,
     ProductionResultEvidenceBinding |-> ProductionResultEvidenceBinding,
     ProductionRequiredEvidenceEntry |-> ProductionRequiredEvidenceEntry,
     ProductionAssuranceReceiptPayload |-> ProductionAssuranceReceiptPayload,
     ProductionAssuranceReceipt |-> ProductionAssuranceReceipt,
     ProductionReconciliationSnapshot |-> ProductionReconciliationSnapshot,
     ProductionReceiptStreamEvent |-> ProductionReceiptStreamEvent,
     AssuranceReceipt |-> AssuranceReceipt]

-----------------------------------------------------------------------------
(* What a record's own validator demands of the rest *)

TargetKeyBindingOK(d) ==
    d.valid_from < d.valid_until /\ (d.revoked_at # None => d.valid_from <= d.revoked_at)
TargetAuthorizationOK(d) == d.issued_at < d.expires_at

\* A leased dispatch, and no other, has both an owner and an expiry.
TargetDispatchEventOK(d) ==
    d.event_kind = "LEASED" <=> d.lease_owner # None /\ d.lease_expires_at # None

AuthenticatedTargetResultOK(d) ==
    /\ d.actual_route = d.authorized_route
    /\ d.completed_at <= d.received_at /\ d.received_at <= d.verified_at

\* Costs are estimates: nothing was charged.
Honest(d) == d.currency = d.charged_in /\ d.estimate >= 0 /\ d.charge = 0

\* What is settled was met by evidence of the result and, but in the snapshot,
\* by exactly two meter events.
BridgeOK(d) == Honest(d) /\ d.meters = 2
SnapshotOK(d, links) == Honest(d) /\ "evidence_binding_refs" \in DOMAIN links
PayloadOK(d, links) == BridgeOK(d) /\ SnapshotOK(d, links)

Finite(d) == d.valid_from < d.valid_until

\* The first receipt starts the stream, and every later one replaces the one
\* before it for exactly the reason of its kind.
ReceiptOK(d, links) ==
    /\ IF d.receipt_kind = "INITIAL"
       THEN d.sequence = 1 /\ "predecessor_receipt_ref" \notin DOMAIN links /\ d.superseded = None
       ELSE /\ d.sequence > 1 /\ "predecessor_receipt_ref" \in DOMAIN links
            /\ d.superseded = links.predecessor_receipt_ref
    /\ d.reasons = {d.receipt_kind} \ {"INITIAL"}

\* The sequence is not compared with the predecessors' own.
StreamEventOK(d, links) ==
    LET predecessors == {"predecessor_event_ref", "predecessor_receipt_ref"} \cap DOMAIN links
    IN  Cardinality(predecessors) = IF d.sequence = 1 THEN 0 ELSE 2
=============================================================================
