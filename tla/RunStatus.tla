------------------------------ MODULE RunStatus ------------------------------
(****************************************************************************)
(* The vocabulary every other module shares: the statuses of a run, the     *)
(* three families the code groups them in, and the statuses of the rows     *)
(* that record provider jobs (schemas/common.py).                           *)
(*                                                                          *)
(* "analysing" is the status an intake gives a run object before it plans;  *)
(* the transaction that inserts the row has overwritten it by the time it   *)
(* commits, and no code sets "plan_ready".  Both are kept because the       *)
(* partial unique index and the refusals are written over the whole set.    *)
(****************************************************************************)

\* A run a later delivery may not duplicate: still in flight.
ActiveStatuses ==
  {"analysing", "plan_ready", "waiting_approval", "approved",
   "agent_running", "pr_open", "review_required"}

\* Slip: a blocked run still listens to its pull request.
PrObservableOrBlocked == {"agent_running", "pr_open", "review_required", "blocked"}

\* An agent has been dispatched, so pull request events mean something.
PrObservableStatuses == {"agent_running", "pr_open", "review_required"}

\* Finished: a fresh trigger starts a new run.
TerminalStatuses ==
  {"needs_clarification", "complete", "blocked", "execution_failed",
   "rejected"}

RunStatuses == ActiveStatuses \cup TerminalStatuses

\* A run id that no intake has inserted yet.
NoStatus == "absent"

\* Rows of foundry_agent_jobs.  "created" is never written: a row is inserted
\* once the provider has answered, as "running".
JobStatuses == {"created", "running", "succeeded", "failed", "cancelled"}

\* The rows a cancellation may still reach.
CancellableJobStatuses == {"created", "running"}
=============================================================================
