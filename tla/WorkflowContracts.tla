-------------------------- MODULE WorkflowContracts --------------------------
(***************************************************************************)
(* The contracts of protected workflows: their components, how they are    *)
(* deployed and judged ready, and the second forms of intent, manifest,    *)
(* decision, execution and receipt that bind an action to its workflow.    *)
(***************************************************************************)
EXTENDS RecordContracts

ProtectedWorkflow == [human_decision_refs |-> "HumanDecision"]
Connector ==
    [workflow_ref |-> "ProtectedWorkflow", configuration_predecessor_ref |-> "Earlier",
     human_decision_refs |-> "HumanDecision"]
ProtectedTargetRegistryEntry ==
    [target_connector_ref |-> "Connector", attestation_ref |-> "Earlier",
     human_decision_refs |-> "HumanDecision"]
EnforcementPoint ==
    [workflow_ref |-> "ProtectedWorkflow", inbound_connector_ref |-> "Connector",
     target_connector_ref |-> "Connector",
     protected_target_registry_ref |-> "ProtectedTargetRegistryEntry",
     fallback_bindings |-> "HumanDecision"]
ActionMapping ==
    [accepted_action_decision_ref |-> "HumanDecision", human_decision_refs |-> "HumanDecision"]
OutcomeEvidenceMapping ==
    [accepted_outcome_decision_ref |-> "HumanDecision", human_decision_refs |-> "HumanDecision"]
WorkflowDeploymentRevision ==
    [workflow_ref |-> "ProtectedWorkflow", enforcement_point_ref |-> "EnforcementPoint",
     connector_refs |-> "Connector", action_mapping_refs |-> "ActionMapping",
     outcome_evidence_mapping_refs |-> "OutcomeEvidenceMapping",
     protected_target_registry_ref |-> "ProtectedTargetRegistryEntry",
     human_decision_refs |-> "HumanDecision"]
PolicyCoverageBinding ==
    [workflow_ref |-> "ProtectedWorkflow", deployment_ref |-> "WorkflowDeploymentRevision",
     action_mapping_ref |-> "ActionMapping", selected_specs |-> "RiskSpecVersion",
     lifecycle_event_refs |-> "LifecycleEvent"]
ShadowModeRun ==
    [workflow_ref |-> "ProtectedWorkflow", deployment_ref |-> "WorkflowDeploymentRevision",
     action_mapping_ref |-> "ActionMapping", outcome_mapping_ref |-> "OutcomeEvidenceMapping",
     source_connector_ref |-> "Connector", population_decision_ref |-> "HumanDecision"]
ShadowObservation ==
    [run_ref |-> "ShadowModeRun", deployment_ref |-> "WorkflowDeploymentRevision",
     action_mapping_ref |-> "ActionMapping", mapped_intent_ref |-> "ActionIntent",
     policy_coverage_ref |-> "PolicyCoverageBinding"]
DeploymentReadinessReport ==
    [workflow_ref |-> "ProtectedWorkflow", deployment_ref |-> "WorkflowDeploymentRevision",
     components |-> "Connector", policy_coverage_ref |-> "PolicyCoverageBinding",
     shadow_run_ref |-> "ShadowModeRun", blocking_gap_refs |-> "ShadowObservation",
     exception_refs |-> "Earlier"]
EnforcementModeTransition ==
    [workflow_ref |-> "ProtectedWorkflow", deployment_ref |-> "WorkflowDeploymentRevision",
     authority_grant_ref |-> "Earlier", readiness_report_ref |-> "DeploymentReadinessReport"]
DeploymentApproval ==
    [workflow_ref |-> "ProtectedWorkflow", deployment_ref |-> "WorkflowDeploymentRevision",
     readiness_report_ref |-> "DeploymentReadinessReport", authority_grant_ref |-> "Earlier"]

\* The second forms: those of the first, and what they add.
WorkflowActionIntent ==
    ActionIntent @@ [workflow_ref |-> "ProtectedWorkflow", source_event_ref |-> "Earlier",
        published_action_mapping_ref |-> "ActionMapping", inbound_connector_ref |-> "Connector",
        accepted_canonical_action_decision_ref |-> "HumanDecision"]
WorkflowEvaluationInputManifest ==
    EvaluationInputManifest @@ [workflow_ref |-> "ProtectedWorkflow",
        deployment_ref |-> "WorkflowDeploymentRevision", enforcement_point_ref |-> "EnforcementPoint",
        action_mapping_refs |-> "ActionMapping", connector_refs |-> "Connector",
        outcome_evidence_mapping_refs |-> "OutcomeEvidenceMapping",
        protected_target_registry_ref |-> "ProtectedTargetRegistryEntry",
        mode_transition_ref |-> "EnforcementModeTransition",
        readiness_report_ref |-> "DeploymentReadinessReport",
        policy_coverage_ref |-> "PolicyCoverageBinding",
        deployment_approval_refs |-> "DeploymentApproval"]
WorkflowControlDecision ==
    ControlDecision @@ [workflow_ref |-> "ProtectedWorkflow",
        deployment_ref |-> "WorkflowDeploymentRevision", enforcement_point_ref |-> "EnforcementPoint",
        policy_coverage_ref |-> "PolicyCoverageBinding"]
WorkflowExecutionRecord ==
    ExecutionRecord @@ [workflow_ref |-> "ProtectedWorkflow", source_event_ref |-> "Earlier",
        deployment_ref |-> "WorkflowDeploymentRevision", enforcement_point_ref |-> "EnforcementPoint",
        action_mapping_ref |-> "ActionMapping", outcome_mapping_ref |-> "OutcomeEvidenceMapping",
        target_authorization_ref |-> "TargetAuthorization",
        target_result_ref |-> "AuthenticatedTargetResult"]
WorkflowAssuranceReceipt ==
    AssuranceReceipt @@ [workflow_ref |-> "ProtectedWorkflow", source_event_ref |-> "Earlier",
        deployment_ref |-> "WorkflowDeploymentRevision", enforcement_point_ref |-> "EnforcementPoint",
        action_mapping_ref |-> "ActionMapping", outcome_mapping_ref |-> "OutcomeEvidenceMapping",
        evaluation_manifest_ref |-> "EvaluationInputManifest",
        policy_coverage_ref |-> "PolicyCoverageBinding", connector_refs |-> "Connector",
        authenticated_outcome_ref |-> "Earlier"]

WorkflowKinds ==
    [ProtectedWorkflow |-> ProtectedWorkflow, Connector |-> Connector,
     ProtectedTargetRegistryEntry |-> ProtectedTargetRegistryEntry,
     EnforcementPoint |-> EnforcementPoint, ActionMapping |-> ActionMapping,
     OutcomeEvidenceMapping |-> OutcomeEvidenceMapping,
     WorkflowDeploymentRevision |-> WorkflowDeploymentRevision,
     PolicyCoverageBinding |-> PolicyCoverageBinding, ShadowModeRun |-> ShadowModeRun,
     ShadowObservation |-> ShadowObservation,
     DeploymentReadinessReport |-> DeploymentReadinessReport,
     EnforcementModeTransition |-> EnforcementModeTransition,
     DeploymentApproval |-> DeploymentApproval, WorkflowActionIntent |-> WorkflowActionIntent,
     WorkflowEvaluationInputManifest |-> WorkflowEvaluationInputManifest,
     WorkflowControlDecision |-> WorkflowControlDecision,
     WorkflowExecutionRecord |-> WorkflowExecutionRecord,
     WorkflowAssuranceReceipt |-> WorkflowAssuranceReceipt]

Schema == Kinds @@ WorkflowKinds

-----------------------------------------------------------------------------
(* Which records are well-formed *)

\* The references whose tenant no validator compares with the record's own.
OpenLinks(kind) ==
    CASE kind \in {"LifecycleEvent", "EvidenceProductionEvent", "EvidenceCertificationEvent",
                   "EvidenceVerificationEvent", "ExecutionRecord", "AssuranceReceipt"} ->
            DOMAIN Schema[kind]
      [] kind \in {"ActionIntent", "WorkflowActionIntent"} ->
            {"authoritative_fact_ref", "prior_execution_ref"}
      [] kind \in {"ControlDecision", "WorkflowControlDecision"} ->
            {"origin_specs", "approval_refs", "evidence_refs", "meter_refs"}
      [] kind = "ProductionAssuranceReceipt" -> {"payload"}
      [] kind = "WorkflowExecutionRecord" -> DOMAIN ExecutionRecord
      [] kind = "WorkflowAssuranceReceipt" ->
            DOMAIN AssuranceReceipt \cup {"authenticated_outcome_ref"}
      [] OTHER -> {}

\* Fault: the decision a record is about is not compared.
TenantBoundButDecision(r) ==
    \A f \in DOMAIN r.links \ OpenLinks(r.kind) :
        f = "decision_ref" \/ r.links[f].tenant = r.tenant

TenantBound(r) ==
    \A f \in DOMAIN r.links \ OpenLinks(r.kind) : r.links[f].tenant = r.tenant

\* A readiness report says ready only if nothing stands against it: no code, no
\* judgment that is unresolved, no gap and no exception.
ReadinessOK(d, links) ==
    d.ready => d.unsettled = {} /\ DOMAIN links \cap {"blocking_gap_refs", "exception_refs"} = {}

\* The kinds whose validity must end after it begins.
FiniteKinds ==
    {"ControlDecision", "WorkflowControlDecision", "Approval", "ProductionResultEvidenceBinding",
     "ProductionRequiredEvidenceEntry", "ProtectedTargetRegistryEntry",
     "WorkflowDeploymentRevision", "ActionMapping", "OutcomeEvidenceMapping", "ShadowModeRun",
     "DeploymentApproval"}

WellFormed(r) ==
    /\ TenantBound(r)
    /\ CASE r.kind = "TargetKeyBinding" -> TargetKeyBindingOK(r.data)
         [] r.kind = "TargetAuthorization" ->
                /\ TargetAuthorizationOK(r.data)
                /\ r.data.authorization_key # r.data.result_key
         [] r.kind = "TargetDispatchEvent" -> TargetDispatchEventOK(r.data)
         [] r.kind = "AuthenticatedTargetResult" -> AuthenticatedTargetResultOK(r.data)
         [] r.kind = "ProductionExecutionRecordBridge" -> BridgeOK(r.data)
         [] r.kind = "ProductionAssuranceReceiptPayload" -> PayloadOK(r.data, r.links)
         [] r.kind = "ProductionReconciliationSnapshot" -> SnapshotOK(r.data, r.links)
         [] r.kind \in FiniteKinds -> Finite(r.data)
         [] r.kind = "ProductionAssuranceReceipt" -> ReceiptOK(r.data, r.links)
         [] r.kind = "ProductionReceiptStreamEvent" -> StreamEventOK(r.data, r.links)
         [] r.kind = "DeploymentReadinessReport" -> Finite(r.data) /\ ReadinessOK(r.data, r.links)
         [] OTHER -> TRUE
=============================================================================
