----------------------------- MODULE PolicyGate -----------------------------
(****************************************************************************)
(* LocalPolicyEngine.evaluate (policy/engine.py): the pure function every   *)
(* autonomous step of a run must pass.  A request is the PolicyInput record *)
(* with its maps flattened to sets:                                         *)
(*                                                                          *)
(*   action           a PolicyAction, or any other string (default deny)    *)
(*   readiness        ImplementationReadiness                               *)
(*   overall          OverallRisk                                           *)
(*   areas            the sensitive areas whose PolicyRisk flag is true     *)
(*   confidence       repository match confidence, 0..100                   *)
(*   repoRoles        PolicyRepo.required_roles                             *)
(*   approval         the roles granted by the recorded approvers           *)
(*   approvalPresent  whether any human approved at all                     *)
(*   attempt, maxAttempts            PolicyRetry                            *)
(*   cost, pending, maxCost          PolicyBudget, in whole currency units  *)
(*                                                                          *)
(* The reason strings are abstracted to one tag per rule; the reason for a  *)
(* missing role is the role itself.                                         *)
(****************************************************************************)
EXTENDS Integers

CONSTANTS
  ConfidenceThreshold   \* repo_confidence_threshold, 70 unless configured

ASSUME ThresholdAssumption == ConfidenceThreshold \in 0..100

\* PolicyBudget.max_cost_usd = None: no cap configured.  A configured cap is
\* strictly positive (Field(gt=0)), so zero is free to stand for "none".
NoCap == 0

ApprovalRoles == {"product", "engineering", "security", "qa"}

SensitiveAreas ==
  {"auth", "payments", "customer_data", "pii", "database_migration",
   "infrastructure", "production_deploy"}

Readiness == {"ready", "needs_clarification", "not_suitable"}

OverallRisks == {"low", "medium", "high", "blocked"}

AgentModes == {"analysis_only", "draft_pr", "human_only"}

ForbiddenActions == {"auto_merge", "production_deploy"}

AutonomousActions ==
  {"start_agent", "create_branch", "open_pr", "retry_agent", "mark_complete"}

SpendActions == {"start_agent", "retry_agent"}

AdvisoryActions ==
  {"analyse_ticket", "create_plan", "request_approval", "request_changes"}

PolicyActions == ForbiddenActions \cup AutonomousActions \cup AdvisoryActions

\* PolicyInput after validation, of an action out of some set; and out of those
\* the schema names, with one that no family lists for those that may be added.
RequestsOn(actions) ==
  [action : actions, readiness : Readiness, overall : OverallRisks,
   areas : SUBSET SensitiveAreas, confidence : 0..100,
   repoRoles : SUBSET ApprovalRoles, approval : SUBSET ApprovalRoles,
   approvalPresent : BOOLEAN, attempt : Nat, maxAttempts : Nat,
   cost : Nat, pending : Nat, maxCost : Nat]

Requests == RequestsOn(PolicyActions \cup {"unlisted"})

\* Slip: the repository's roles replace the roles its areas imply.
RepoRolesReplace(areas, repoRoles) ==
  IF repoRoles # {} THEN repoRoles
  ELSE {role \in {"engineering", "security"} :
          areas \cap (IF role = "engineering" THEN {"auth", "infrastructure"}
                      ELSE {"customer_data", "pii", "payments"}) # {}}

(****************************************************************************)
(* required_approvals: the roles the flagged areas imply, united with the   *)
(* roles resolved for the repository and the custom risk categories.        *)
(****************************************************************************)
RequiredApprovals(areas, repoRoles) ==
  {role \in ApprovalRoles :
     \/ role = "engineering" /\ areas \cap {"auth", "infrastructure"} # {}
     \/ role = "security" /\ areas \cap {"customer_data", "pii", "payments"} # {}
     \/ role \in repoRoles}

\* Slip: only what has been spent counts, not what is about to be.
OverBudgetTooLate(in) ==
  /\ in.action \in SpendActions
  /\ in.maxCost # NoCap
  /\ in.cost >= in.maxCost

\* Spend so far plus the dispatch at hand would reach the cap.
OverBudget(in) ==
  /\ in.action \in SpendActions
  /\ in.maxCost # NoCap
  /\ in.cost + in.pending >= in.maxCost

\* The rules an autonomous action is held against.
AutonomousDenials(in) ==
  {d \in {"no_approval", "production_deploy", "database_migration",
          "confidence", "readiness", "risk_blocked", "retry_cap", "budget"} :
     \/ d = "no_approval" /\ ~in.approvalPresent
     \/ d \in {"production_deploy", "database_migration"} /\ d \in in.areas
     \/ d = "confidence" /\ in.confidence < ConfidenceThreshold
     \/ d = "readiness" /\ in.readiness # "ready"
     \/ d = "risk_blocked" /\ in.overall = "blocked"
     \/ d = "retry_cap" /\ in.action = "retry_agent" /\ in.attempt > in.maxAttempts
     \/ d = "budget" /\ OverBudget(in)}
  \cup (RequiredApprovals(in.areas, in.repoRoles) \ in.approval)

\* The early returns of evaluate, in order, then the accumulated reasons.
DenyReasons(in) ==
  IF in.action \in ForbiddenActions THEN {"forbidden_action"}
  ELSE IF in.action \in AdvisoryActions THEN {}
  ELSE IF in.action \notin AutonomousActions THEN {"unknown_action"}
  ELSE AutonomousDenials(in)

Allowed(in) == DenyReasons(in) = {}

\* _allowed_mode: a draft pull request for low or medium risk, else a human.
AllowedMode(in) ==
  IF Allowed(in) /\ in.overall \in {"low", "medium"}
  THEN "draft_pr" ELSE "human_only"
=============================================================================
