\* Two threads, in processes that live, and outcome rows that fail: every
\* interleaving of the split methods.
SPECIFICATION ServingSpec
CONSTANTS
  Runs = {r1, r2}
  NoRun = NoRun
  Issues = {"issue"}
  IssueOf <- MCIssueOf
  Users <- MCUsers
  GrantedRoles <- MCGrantedRoles
  Workers = {w1, w2}
  Tickets <- MCContended
  PrEvents <- MCPrEvents
  MinApprovals = 1
  MaxRetries = 1
  RetryOn = {"ci_failed", "changes_requested"}
  FreezeStates = {FALSE, TRUE}
  CostPerDispatch = 1
  MaxCost = 0
  Faults = {"memory"}
  MaxDecisions = 4
  ConfidenceThreshold = 70
INVARIANTS
  TypeOK
  OneActiveRunPerIssue
  LaunchAuthorised
  EveryLaunchWasDecided
  LiveJobsAreRecorded
  RetryOvershootBounded
  EscalationHolds
  OutcomeMatchesStatus
PROPERTIES
  TerminalIsFinal
  ImplementsContract
SYMMETRY RunsAndWorkers
CHECK_DEADLOCK FALSE
