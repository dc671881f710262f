------------------------------ MODULE MCRecords ------------------------------
(***************************************************************************)
(* Small files: one policy module with its two streams and a window of one *)
(* instant; one record of every kind, and of decisions and receipts two,   *)
(* in an order in which each finds what it names; two decisions about one  *)
(* or two modules.                                                         *)
(***************************************************************************)
EXTENDS RecordStore

MCAgenda ==
    <<"HumanDecision", "RiskSpecVersion", "LifecycleEvent", "ProtectedWorkflow", "Connector",
      "ProtectedTargetRegistryEntry", "EnforcementPoint", "ActionMapping",
      "OutcomeEvidenceMapping", "WorkflowDeploymentRevision", "PolicyCoverageBinding",
      "ActionIntent", "ShadowModeRun", "ShadowObservation", "DeploymentReadinessReport",
      "EnforcementModeTransition", "DeploymentApproval", "WorkflowActionIntent",
      "EvaluationInputManifest", "WorkflowEvaluationInputManifest", "ControlDecision",
      "WorkflowControlDecision", "Approval", "EvidenceProductionEvent",
      "EvidenceCertificationEvent", "EvidenceVerificationEvent", "EvidenceItem",
      "ControlDecision", "ExecutionRecord", "SemanticActionGroup", "ProductionExecutionAttempt",
      "TargetKeyBinding", "TargetAuthorization", "TargetDispatchEvent",
      "ReferenceSafeReplayProofAuthenticationInputV1", "AuthenticatedTargetResult",
      "WorkflowExecutionRecord", "AssuranceReceipt", "WorkflowAssuranceReceipt",
      "ProductionExecutionRecordBridge", "ProductionResultEvidenceBinding",
      "ProductionRequiredEvidenceEntry", "ProductionAssuranceReceiptPayload",
      "ProductionAssuranceReceipt", "ProductionReconciliationSnapshot",
      "ProductionReceiptStreamEvent", "ProductionAssuranceReceipt",
      "ProductionReceiptStreamEvent">>

Carrier(kind, key, parts) ==
    [kind |-> kind, key |-> key, parts |-> [p \in parts |-> "first"], traces |-> {Source}]
Rule == Carrier("rule", "rule", {"on_unknown"})
Requirement == Carrier("requirement", "control", {"control", "failure_effect"})
Prohibition == Carrier("prohibition", "prohibition", {"when", "on_unknown"})
Module(key, form, carriers) == [key |-> key, form |-> form, carriers |-> carriers]

\* A module of the third form, one that it leaves no room for, and an older
\* one beside a newer one.
MCFirstModules ==
    {{Module("new", "v3", {Rule, Requirement})}, {Module("new", "v3", {Prohibition})},
     {Module("old", "v1", {Prohibition}), Module("new", "v3", {Rule})}}
=============================================================================
