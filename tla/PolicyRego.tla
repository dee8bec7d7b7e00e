----------------------------- MODULE PolicyRego -----------------------------
(****************************************************************************)
(* The policy bundle foundry.rego, the gate that OpaPolicyEngine asks.  A   *)
(* Rego document is a set of independent rules: a message is in             *)
(* deny_reasons when any rule with that head holds, whatever the others     *)
(* say.  There are no early returns, and each family of actions is spelled  *)
(* out again, so that nothing but care keeps it in step with the Python     *)
(* engine of PolicyGate.  Requests and reasons are those of PolicyGate.     *)
(****************************************************************************)
EXTENDS PolicyGate

RegoAutonomousActions ==
  {"start_agent", "create_branch", "open_pr", "retry_agent", "mark_complete"}

RegoAdvisoryActions ==
  {"analyse_ticket", "create_plan", "request_approval", "request_changes"}

RegoForbiddenActions == {"auto_merge", "production_deploy"}

RegoSpendActions == {"start_agent", "retry_agent"}

IsAutonomous(in) == in.action \in RegoAutonomousActions

IsAdvisory(in) == in.action \in RegoAdvisoryActions

IsForbidden(in) == in.action \in RegoForbiddenActions

IsUnknown(in) == ~IsAutonomous(in) /\ ~IsAdvisory(in) /\ ~IsForbidden(in)

\* required_approvals contains ... if ...
RegoRequiredApprovals(in) ==
  UNION {
    IF "auth" \in in.areas THEN {"engineering"} ELSE {},
    IF "infrastructure" \in in.areas THEN {"engineering"} ELSE {},
    IF "customer_data" \in in.areas THEN {"security"} ELSE {},
    IF "pii" \in in.areas THEN {"security"} ELSE {},
    IF "payments" \in in.areas THEN {"security"} ELSE {},
    in.repoRoles}

\* Slip: spend is checked on retries only, as both engines once did.
RegoRetryBudgetRule(in) ==
  /\ in.action = "retry_agent"
  /\ in.maxCost # NoCap
  /\ in.cost + in.pending >= in.maxCost

RegoBudgetRule(in) ==
  /\ in.action \in RegoSpendActions
  /\ in.maxCost # NoCap
  /\ in.cost + in.pending >= in.maxCost

RegoRetryRule(in) ==
  /\ in.action = "retry_agent"
  /\ in.attempt > in.maxAttempts

\* deny_reasons: the rules with a fixed message, then one per missing role.
RegoDenyReasons(in) ==
  {d \in {"forbidden_action", "unknown_action", "no_approval",
          "production_deploy", "database_migration", "confidence",
          "readiness", "risk_blocked", "retry_cap", "budget"} :
     \/ d = "forbidden_action" /\ IsForbidden(in)
     \/ d = "unknown_action" /\ IsUnknown(in)
     \/ d = "no_approval" /\ IsAutonomous(in) /\ ~in.approvalPresent
     \/ d = "production_deploy" /\ IsAutonomous(in) /\ "production_deploy" \in in.areas
     \/ d = "database_migration" /\ IsAutonomous(in) /\ "database_migration" \in in.areas
     \/ d = "confidence" /\ IsAutonomous(in) /\ in.confidence < ConfidenceThreshold
     \/ d = "readiness" /\ IsAutonomous(in) /\ in.readiness # "ready"
     \/ d = "risk_blocked" /\ IsAutonomous(in) /\ in.overall = "blocked"
     \/ d = "retry_cap" /\ RegoRetryRule(in)
     \/ d = "budget" /\ RegoBudgetRule(in)}
  \cup {role \in RegoRequiredApprovals(in) : IsAutonomous(in) /\ role \notin in.approval}

RegoAllow(in) ==
  \/ IsAdvisory(in)
  \/ IsAutonomous(in) /\ RegoDenyReasons(in) = {}

RegoAllowedMode(in) ==
  IF RegoAllow(in) /\ in.overall \in {"low", "medium"}
  THEN "draft_pr" ELSE "human_only"

(****************************************************************************)
(* Lock-step: on this request the two engines return the same decision,     *)
(* its reasons, mode and required approvals included                        *)
(* (tests/test_policy_parity.py asks it of the vectors in tests/data).      *)
(****************************************************************************)
EnginesAgreeOn(in) ==
  /\ RegoAllow(in) <=> Allowed(in)
  /\ RegoAllowedMode(in) = AllowedMode(in)
  /\ RegoDenyReasons(in) = DenyReasons(in)
  /\ RegoRequiredApprovals(in) = RequiredApprovals(in.areas, in.repoRoles)

(****************************************************************************)
(* A request that asks at least as much of the gate as another: the same    *)
(* action with more risk, less readiness, fewer approvals, more spend or a  *)
(* lower cap.                                                               *)
(****************************************************************************)
TighterRequest(in, tighter) ==
  /\ tighter.action = in.action
  /\ in.areas \subseteq tighter.areas
  /\ in.repoRoles \subseteq tighter.repoRoles
  /\ tighter.approval \subseteq in.approval
  /\ tighter.approvalPresent => in.approvalPresent
  /\ tighter.confidence <= in.confidence
  /\ tighter.readiness = "ready" => in.readiness = "ready"
  /\ in.overall = "blocked" => tighter.overall = "blocked"
  /\ tighter.overall \in {"low", "medium"} => in.overall \in {"low", "medium"}
  /\ in.attempt <= tighter.attempt /\ tighter.maxAttempts <= in.maxAttempts
  /\ in.cost <= tighter.cost /\ in.pending <= tighter.pending
  /\ in.maxCost # NoCap => tighter.maxCost # NoCap /\ tighter.maxCost <= in.maxCost

\* Invariant #1 of the project, for the gate: tightening only ever denies.
GateOnlyTightens(in, tighter) ==
  TighterRequest(in, tighter) =>
    /\ Allowed(tighter) => Allowed(in)
    /\ AllowedMode(tighter) = "draft_pr" => AllowedMode(in) = "draft_pr"
    /\ DenyReasons(in) \subseteq DenyReasons(tighter)
=============================================================================
