------------------------------ MODULE PrStatus ------------------------------
(****************************************************************************)
(* What a pull request event makes of a run's status, given the verdict on  *)
(* its file list.  PrGuardrails says how the verdict comes about.           *)
(****************************************************************************)

\* A diff is "none" when the event lists no files, "forbidden" when a file
\* matches a forbidden glob, "escalates" when any later guardrail of
\* _next_status_for_pr sends the pull request to a human, else "clean".
Diffs == {"none", "clean", "forbidden", "escalates"}

\* A pull request that is neither merged nor closed is "open": draft, open,
\* approved and changes_requested take the same branch.
PrEventRecords ==
  [state : {"open", "merged", "closed"}, diff : Diffs,
   ciFailing : BOOLEAN, changesRequested : BOOLEAN]

\* Slips: an event without files reopens the pull request; the status of the
\* pull request is stored as the status of the run.
ForgetfulStatusForPr(s, e) ==
  IF e.state = "merged" THEN "complete"
  ELSE IF e.state = "closed" \/ e.diff = "forbidden" THEN "blocked"
  ELSE IF e.diff = "escalates" THEN "review_required"
  ELSE "pr_open"

VerbatimStatusForPr(s, e) ==
  IF e.state # "open" THEN e.state ELSE ForgetfulStatusForPr(s, e)

\* _next_status_for_pr, with the guardrails over the file list abstracted to
\* the event's diff.
NextStatusForPr(s, e) ==
  IF e.state = "merged" THEN "complete"
  ELSE IF e.state = "closed" THEN "blocked"
  ELSE IF e.diff = "none" THEN (IF s = "agent_running" THEN "pr_open" ELSE s)
  ELSE IF e.diff = "forbidden" THEN "blocked"
  ELSE IF e.diff = "escalates" THEN "review_required"
  ELSE "pr_open"
=============================================================================
