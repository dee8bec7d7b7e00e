\* Fair threads, a provider that may raise or refuse to cancel, nobody dies;
\* a budget cap that binds before the retry cap.
SPECIFICATION FairSpec
CONSTANTS
  Runs = {r1}
  NoRun = NoRun
  Issues = {"issue"}
  IssueOf <- MCIssueOf
  Users <- MCUsers
  GrantedRoles <- MCGrantedRoles
  Workers = {w1, w2}
  Tickets <- MCPairedOrRisky
  PrEvents <- MCFewPrEvents
  MinApprovals = 1
  MaxRetries = 3
  RetryOn = {"ci_failed", "changes_requested"}
  FreezeStates = {FALSE, TRUE}
  CostPerDispatch = 2
  MaxCost = 5
  Faults = {"provider", "cancel"}
  MaxDecisions = 5
  ConfidenceThreshold = 70
INVARIANT
  SpendOvershootBounded
PROPERTY
  ApprovedRunsMoveOn
CHECK_DEADLOCK FALSE
