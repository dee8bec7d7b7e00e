--------------------------- MODULE MCRunLifecycle ---------------------------
(****************************************************************************)
(* Constants for model checking RunLifecycle.  The two runs are for one     *)
(* ticket, so that they compete for it; `routine' work needs no special     *)
(* role, `payments' needs security, `risky' is work the gate refuses only   *)
(* at dispatch (high risk is human-only), `migration' is refused at intake. *)
(****************************************************************************)
EXTENDS RunLifecycle, TLC

\* Threads and run ids are interchangeable: nothing orders them.
RunsAndWorkers == Permutations(Runs) \cup Permutations(Workers)

MCIssueOf == [r \in Runs |-> "issue"]

\* "sec" signs with the security role, the others with engineering.
MCUsers == {"ana", "sec"}
MCSolo == {"ana"}
MCGrantedRoles ==
  [u \in Users |-> IF u = "sec" THEN {"engineering", "security"} ELSE {"engineering"}]

Routine ==
  [readiness |-> "ready", criteria |-> TRUE, overall |-> "low", areas |-> {},
   confidence |-> 90, repoRoles |-> {}, customRoles |-> {}, repoMinApprovals |-> 0]
Payments == [Routine EXCEPT !.overall = "medium", !.areas = {"payments"}]
\* A repository that raises the floor: the two-person rule.
Paired == [Routine EXCEPT !.repoMinApprovals = 2]
Risky == [Routine EXCEPT !.overall = "high"]
Migration == [Routine EXCEPT !.areas = {"database_migration"}]
Unclear == [Routine EXCEPT !.criteria = FALSE]

MCTickets == {Routine, Payments, Paired, Risky, Migration, Unclear}
MCContended == {Payments, Paired, Migration}
MCPairedOrRisky == {Paired, Risky}
MCPairedRoutineRisky == {Paired, Routine, Risky}
MCRoutineOnly == {Routine}

PrEvent(state, diff, failing, changes) ==
  [state |-> state, diff |-> diff, ciFailing |-> failing, changesRequested |-> changes]

MCPrEvents ==
  {PrEvent("open", "clean", FALSE, FALSE),     \* a push
   PrEvent("open", "clean", TRUE, FALSE),      \* a push whose checks fail
   PrEvent("open", "escalates", FALSE, FALSE),
   PrEvent("open", "forbidden", FALSE, FALSE),
   PrEvent("open", "none", TRUE, FALSE),       \* a failing check suite
   PrEvent("open", "none", FALSE, TRUE),       \* changes requested
   PrEvent("merged", "none", FALSE, FALSE),
   PrEvent("closed", "none", FALSE, FALSE)}

MCFewPrEvents ==
  {PrEvent("open", "clean", TRUE, FALSE),
   PrEvent("open", "escalates", FALSE, FALSE),
   PrEvent("merged", "none", FALSE, FALSE)}

\* Duplicate deliveries of one failing check suite, and the push before it.
MCFailingChecks ==
  {PrEvent("open", "none", TRUE, FALSE), PrEvent("open", "clean", FALSE, FALSE)}
=============================================================================
