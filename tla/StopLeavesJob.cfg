\* Two approvers, two threads that both dispatch, then a rejection.
SPECIFICATION Spec
CONSTANTS
  Runs = {r1}
  NoRun = NoRun
  Issues = {"issue"}
  IssueOf <- MCIssueOf
  Users <- MCUsers
  GrantedRoles <- MCGrantedRoles
  Workers = {w1, w2}
  Tickets <- MCRoutineOnly
  PrEvents <- MCFailingChecks
  MinApprovals = 2
  MaxRetries = 0
  RetryOn = {"ci_failed", "changes_requested"}
  FreezeStates = {FALSE, TRUE}
  CostPerDispatch = 1
  MaxCost = 0
  Faults = {}
  MaxDecisions = 4
  ConfidenceThreshold = 70
INVARIANT
  StoppedRunsHaveNoLiveJob
SYMMETRY RunsAndWorkers
CHECK_DEADLOCK FALSE
