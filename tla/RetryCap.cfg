\* Two threads serve deliveries of one failing check suite.
SPECIFICATION Spec
CONSTANTS
  Runs = {r1}
  NoRun = NoRun
  Issues = {"issue"}
  IssueOf <- MCIssueOf
  Users <- MCUsers
  GrantedRoles <- MCGrantedRoles
  Workers = {w1, w2}
  Tickets <- MCRoutineOnly
  PrEvents <- MCFailingChecks
  MinApprovals = 1
  MaxRetries = 1
  RetryOn = {"ci_failed", "changes_requested"}
  FreezeStates = {FALSE, TRUE}
  CostPerDispatch = 1
  MaxCost = 0
  Faults = {}
  MaxDecisions = 4
  ConfidenceThreshold = 70
INVARIANT
  RetryCapHolds
SYMMETRY RunsAndWorkers
CHECK_DEADLOCK FALSE
