\* Dying workers, lost answers, raising providers; the server and its workers are fair.
SPECIFICATION FairDurableSpec
CONSTANTS
  Runs = {r1, r2}
  NoRun = NoRun
  Issues = {"issue"}
  IssueOf <- MCIssueOf
  Users <- MCSolo
  GrantedRoles <- MCGrantedRoles
  Workers = {w1, w2}
  Tickets <- MCRoutineOnly
  PrEvents <- MCFewPrEvents
  MinApprovals = 1
  MaxRetries = 1
  RetryOn = {"ci_failed", "changes_requested"}
  FreezeStates = {FALSE}
  CostPerDispatch = 1
  MaxCost = 0
  Faults = {"crash", "provider"}
  MaxDecisions = 9
  ConfidenceThreshold = 70
  Issue = "issue"
  NoThread = NoThread
  NoInput = NoInput
  Malformed = Malformed
  MaxAttempts <- MCTwoAttempts
  MaxEvents = 1
PROPERTY
  WorkflowCloses
CHECK_DEADLOCK FALSE
