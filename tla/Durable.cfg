\* Dying workers, lost answers, overlapping attempts; providers answer.
SPECIFICATION DurableSpec
CONSTANTS
  Runs = {r1, r2}
  NoRun = NoRun
  Issues = {"issue"}
  IssueOf <- MCIssueOf
  Users <- MCUsers
  GrantedRoles <- MCGrantedRoles
  Workers = {w1, w2}
  Tickets <- MCPairedRoutineRisky
  PrEvents <- MCPrEvents
  MinApprovals = 1
  MaxRetries = 1
  RetryOn = {"ci_failed", "changes_requested"}
  FreezeStates = {FALSE}
  CostPerDispatch = 1
  MaxCost = 0
  Faults = {"crash"}
  MaxDecisions = 9
  ConfidenceThreshold = 70
  Issue = "issue"
  NoThread = NoThread
  NoInput = NoInput
  Malformed = Malformed
  MaxAttempts <- MCTwoAttempts
  MaxEvents = 2
INVARIANTS
  CompletedRunsAreSettled
  ResultMatchesRun
  DispatchKeepsOneJob
PROPERTY
  WorkflowImplementsContract
SYMMETRY Threads
CHECK_DEADLOCK FALSE
