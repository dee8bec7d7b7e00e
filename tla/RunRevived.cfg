\* A provider that may raise, and a human who stops the run meanwhile.
SPECIFICATION Spec
CONSTANTS
  Runs = {r1, r2}
  NoRun = NoRun
  Issues = {"issue"}
  IssueOf <- MCIssueOf
  Users <- MCUsers
  GrantedRoles <- MCGrantedRoles
  Workers = {w1, w2}
  Tickets <- MCRoutineOnly
  PrEvents <- MCFailingChecks
  MinApprovals = 1
  MaxRetries = 1
  RetryOn = {"ci_failed", "changes_requested"}
  FreezeStates = {FALSE, TRUE}
  CostPerDispatch = 1
  MaxCost = 0
  Faults = {"provider"}
  MaxDecisions = 4
  ConfidenceThreshold = 70
PROPERTY
  TerminalNeverActive
SYMMETRY RunsAndWorkers
CHECK_DEADLOCK FALSE
