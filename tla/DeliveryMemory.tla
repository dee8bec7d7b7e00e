---------------------------- MODULE DeliveryMemory ----------------------------
(****************************************************************************)
(* What a run leaves behind: the audit events its transactions add, and the *)
(* outcome row that memory/outcomes.py derives from them when it ends.      *)
(*                                                                          *)
(* The transactions are those of RunLifecycle, seen by one thread; the call *)
(* of the provider stays a gap, because a run may end in it.  Here they     *)
(* keep what RunLifecycle abstracts: times, events, repositories, spend.    *)
(* Deriving a row may fail; the transaction goes on without it, and the     *)
(* command `foundry-memory backfill' makes up for it.                       *)
(****************************************************************************)
EXTENDS Integers, Sequences, FiniteSets, FiniteSetsExt, RunStatus, PrStatus

CONSTANTS
  MemoryRuns,     \* runs
  MemoryTickets,  \* ticket name -> what the intake engines make of it
  Providers,      \* coding agents
  Costs,          \* what a provider may report a job has cost, NoCost included
  PrReports,      \* pull request events, a subset of PrEventRecords
  LastDay,        \* bound: the clock stops here
  MaxTrail,       \* bound: events of a run
  NoCost, NoRepo

ASSUME MemoryAssumption ==
  /\ IsFiniteSet(MemoryRuns) /\ DOMAIN MemoryTickets # {}
  /\ PrReports \subseteq PrEventRecords
  /\ LastDay \in Nat \ {0} /\ MaxTrail \in Nat
  /\ Costs \subseteq Nat \cup {NoCost}

VARIABLES
  book,        \* each run with its jobs and its audit events
  outcomeRow,  \* foundry_run_outcomes
  lost,        \* runs whose last ending was logged as not recorded
  today        \* the clock

memoryVars == <<book, outcomeRow, lost, today>>

\* A run without an outcome row.
NoRow == [outcome |-> "none"]

NoTicket == CHOOSE t \in DOMAIN MemoryTickets : TRUE

Unborn ==
  [status |-> NoStatus, ticket |-> NoTicket, created |-> 0, since |-> 0,
   approved |-> 0, calling |-> "no", jobs |-> <<>>, trail |-> <<>>]

InitMemory ==
  /\ book = [r \in MemoryRuns |-> Unborn]
  /\ outcomeRow = [r \in MemoryRuns |-> NoRow]
  /\ lost = {}
  /\ today = 1

----------------------------------------------------------------------------
(* Reading a trail.                                                         *)

\* The sequence numbers of a run's events of these types, and the last one.
EventsOf(run, types) == {i \in DOMAIN run.trail : run.trail[i].type \in types}
LatestOf(run, types) == run.trail[Max(EventsOf(run, types))]

\* func.max(created_at) of the events of these types, or the default.
LatestAt(run, types, default) ==
  IF EventsOf(run, types) = {} THEN default ELSE LatestOf(run, types).at

LastOf(jobs) == jobs[Len(jobs)]

\* The repository of the latest job.
RepoOf(run) == IF run.jobs = <<>> THEN NoRepo ELSE LastOf(run.jobs).repo

----------------------------------------------------------------------------
(* memory/outcomes.py                                                       *)

BlockCategories ==
  {"forbidden_paths", "pr_closed_unmerged", "policy_denied", "human_stopped",
   "unroutable"}

\* _classify_block, by the latest run.blocked event: its category if that is
\* a known one, else what its metadata shows.
ClassifyBlock(run) ==
  LET why == LatestOf(run, {"run_blocked"}).why
  IN  IF EventsOf(run, {"run_blocked"}) = {} THEN "unroutable"
      ELSE IF why \in BlockCategories THEN why
      ELSE IF why = "remediation_denied" THEN "policy_denied"
      ELSE "unroutable"

OutcomeFor(status) ==
  CASE status = "complete" -> "merged"
    [] status = "blocked" -> "blocked"
    [] status = "rejected" -> "rejected"
    [] status = "execution_failed" -> "failed"
    [] status = "needs_clarification" -> "needs_clarification"

TerminalEvents == {"run_completed", "run_blocked", "approval_rejected", "agent_failed"}

CostOf(jobs) ==
  LET reported == SelectSeq(jobs, LAMBDA j : j.cost # NoCost)
      sum[i \in 0..Len(reported)] == IF i = 0 THEN 0 ELSE sum[i - 1] + reported[i].cost
  IN  IF reported = <<>> THEN NoCost ELSE sum[Len(reported)]

\* derive_outcome.  A run without a terminal event ended at intake.
DeriveOutcome(run) ==
  LET outcome == OutcomeFor(run.status)
      completed == LatestAt(run, TerminalEvents, run.created)
  IN  [outcome |-> outcome,
       ticket |-> run.ticket,
       workType |-> MemoryTickets[run.ticket].workType,
       confidence |-> MemoryTickets[run.ticket].confidence,
       created |-> run.created,
       approved |-> run.approved,
       completed |-> completed,
       escalations |-> Cardinality(EventsOf(run, {"risk_escalated"})),
       ciFailures |-> Cardinality(EventsOf(run, {"ci_failed"})),
       category |-> IF outcome = "blocked" THEN ClassifyBlock(run) ELSE "none",
       repo |-> RepoOf(run),
       provider |-> IF run.jobs = <<>> THEN NoRepo ELSE LastOf(run.jobs).provider,
       jobs |-> Len(run.jobs),
       cost |-> CostOf(run.jobs)]

----------------------------------------------------------------------------
(* Transactions.                                                            *)

Event(type, why) == [type |-> type, why |-> why, at |-> today]

\* The run as a transaction leaves it: its clock restarts if it changes status.
Moved(run, status, events) ==
  [run EXCEPT !.status = status,
              !.since = IF run.status = status THEN @ ELSE today,
              !.trail = @ \o events]

\* record_outcome: an upsert.
WriteOutcome(r, run) ==
  outcomeRow' = [outcomeRow EXCEPT ![r] = DeriveOutcome(run)] /\ lost' = lost \ {r}

\* Slip: the row is written once.
RecordOnce(r, run) ==
  IF run.status \in TerminalStatuses /\ outcomeRow[r] = NoRow
  THEN WriteOutcome(r, run) ELSE UNCHANGED <<outcomeRow, lost>>

\* _record_outcome_if_terminal: the row is written, or an exception is logged
\* and the row stays as it was.
RecordOutcome(r, run) ==
  IF run.status \notin TerminalStatuses THEN UNCHANGED <<outcomeRow, lost>>
  ELSE WriteOutcome(r, run) \/ (lost' = lost \cup {r} /\ UNCHANGED outcomeRow)

Commit(r, run) ==
  /\ Len(run.trail) <= MaxTrail
  /\ book' = [book EXCEPT ![r] = run]
  /\ RecordOutcome(r, run)
  /\ UNCHANGED today

\* intake_and_plan.
PlanRun(r, t) ==
  LET lands == MemoryTickets[t].lands
      born == [Unborn EXCEPT !.ticket = t, !.created = today]
  IN  /\ book[r].status = NoStatus
      /\ CASE lands = "unclear" -> Commit(r, Moved(born, "needs_clarification", <<>>))
           [] lands = "ready" ->
                Commit(r, Moved(born, "waiting_approval", <<Event("approval_requested", "none")>>))
           [] OTHER -> Commit(r, Moved(born, "blocked", <<Event("run_blocked", lands)>>))

\* approve and the gate of dispatch_agent, which refuses or commits to a call.
ApproveRun(r) ==
  LET signed == [book[r] EXCEPT !.approved = today]
  IN  /\ book[r].status = "waiting_approval"
      /\ \/ Commit(r, Moved(signed, "blocked", <<Event("run_blocked", "policy_denied")>>))
         \/ Commit(r, [Moved(signed, "approved", <<>>) EXCEPT !.calling = "dispatch"])

\* Phase 3 of a dispatch and of a remediation: the job and its event are
\* recorded, whatever has become of the run; no outcome is.
AgentAnswers(r, provider) ==
  LET run == book[r]
      expected == IF run.calling = "dispatch" THEN "approved" ELSE "agent_running"
      event == IF run.calling = "dispatch" THEN "agent_started" ELSE "remediation_requested"
      job == [repo |-> MemoryTickets[run.ticket].repo, provider |-> provider, cost |-> NoCost]
  IN  /\ run.calling # "no"
      /\ run.calling = "retry" => provider = run.jobs[1].provider
      /\ Len(run.trail) < MaxTrail
      /\ book' = [book EXCEPT ![r] =
           [run EXCEPT !.calling = "no",
                       !.jobs = Append(@, job),
                       !.trail = Append(@, Event(event, "none")),
                       !.status = IF @ = expected THEN "agent_running" ELSE @,
                       !.since = IF run.status = expected THEN today ELSE @]]
      /\ UNCHANGED <<outcomeRow, lost, today>>

\* _record_dispatch_failure.
AgentRefuses(r) ==
  LET status == IF book[r].calling = "dispatch" THEN "execution_failed" ELSE "review_required"
  IN  /\ book[r].calling # "no"
      /\ Commit(r, [Moved(book[r], status, <<Event("agent_failed", "provider dispatch failed")>>)
                     EXCEPT !.calling = "no"])

\* The events a pull request event adds: it was seen, what _next_status_for_pr
\* made of it, and a failing check.
EventsFor(run, e) ==
  LET seen == IF EventsOf(run, {"pr_opened"}) = {} THEN "pr_opened" ELSE "pr_updated"
      verdict ==
        IF e.state = "merged" THEN <<Event("run_completed", "none")>>
        ELSE IF e.state = "closed" THEN <<Event("run_blocked", "pr_closed_unmerged")>>
        ELSE IF e.diff = "forbidden" THEN <<Event("run_blocked", "forbidden_paths")>>
        ELSE IF e.diff = "escalates" THEN <<Event("risk_escalated", "diff")>>
        ELSE <<>>
      ci == IF e.ciFailing THEN <<Event("ci_failed", "none")>> ELSE <<>>
  IN  <<Event(seen, "none")>> \o verdict \o ci

Observed(r, e) == Moved(book[r], NextStatusForPr(book[r].status, e), EventsFor(book[r], e))

\* record_pr, of an event that asks for no remediation.
ObservePr(r, e) ==
  /\ book[r].status \in PrObservableStatuses
  /\ ~(e.ciFailing /\ Observed(r, e).status = "pr_open")
  /\ Commit(r, Observed(r, e))

\* record_pr and _attempt_remediation: held by a change freeze, denied by the
\* gate once the jobs' spend is refreshed, or claimed for a call.  A second
\* remediation beside one in flight is RunLifecycle's matter.
ObserveFailure(r, e, cost) ==
  LET open == Observed(r, e)
      spent == [open EXCEPT !.jobs =
                  [i \in DOMAIN @ |-> IF cost = NoCost THEN @[i] ELSE [@[i] EXCEPT !.cost = cost]]]
  IN  /\ book[r].status \in PrObservableStatuses
      /\ book[r].calling = "no"
      /\ e.ciFailing /\ open.status = "pr_open"
      /\ \/ Commit(r, Moved(open, "review_required", <<Event("risk_escalated", "change_freeze")>>))
         \/ Commit(r, Moved(spent, "review_required", <<Event("run_blocked", "remediation_denied")>>))
         \/ Commit(r, [Moved(spent, "agent_running", <<>>) EXCEPT !.calling = "retry"])

\* reject, stop, the two expiries, fail_run and mark_agent_failed.
EndMemoryRun(r) ==
  LET run == book[r]
  IN  \/ /\ run.status \in ActiveStatuses
         /\ \/ Commit(r, Moved(run, "rejected", <<Event("approval_rejected", "none")>>))
            \/ Commit(r, Moved(run, "blocked", <<Event("run_blocked", "human_stopped")>>))
            \/ Commit(r, Moved(run, "execution_failed", <<Event("agent_failed", "agent error")>>))
      \/ /\ run.status = "waiting_approval"
         /\ Commit(r, Moved(run, "blocked", <<Event("run_blocked", "approval_window_expired")>>))
      \/ /\ run.status = "agent_running"
         /\ Commit(r, Moved(run, "execution_failed", <<Event("agent_failed", "pr_window_expired")>>))

\* foundry-memory backfill: the ended runs that lack a row, or all of them
\* with --recompute; one that cannot be derived is skipped.
Backfill(recompute) ==
  LET ended == {r \in MemoryRuns : /\ book[r].status \in TerminalStatuses
                                   /\ recompute \/ outcomeRow[r] = NoRow}
  IN  \E told \in SUBSET ended :
        /\ outcomeRow' = [r \in MemoryRuns |->
             IF r \in told THEN DeriveOutcome(book[r]) ELSE outcomeRow[r]]
        /\ lost' = lost \ told
        /\ UNCHANGED <<book, today>>

DayPasses ==
  /\ today < LastDay
  /\ today' = today + 1
  /\ UNCHANGED <<book, outcomeRow, lost>>

NextMemory ==
  \/ \E r \in MemoryRuns :
       \/ \E t \in DOMAIN MemoryTickets : PlanRun(r, t)
       \/ ApproveRun(r) \/ AgentRefuses(r) \/ EndMemoryRun(r)
       \/ \E p \in Providers : AgentAnswers(r, p)
       \/ \E e \in PrReports : ObservePr(r, e)
       \/ \E e \in PrReports, c \in Costs : ObserveFailure(r, e, c)
  \/ \E recompute \in BOOLEAN : Backfill(recompute)
  \/ DayPasses

----------------------------------------------------------------------------
MemoryTypeOK ==
  /\ today \in 1..LastDay /\ lost \subseteq MemoryRuns
  /\ \A r \in MemoryRuns :
       /\ book[r].status \in RunStatuses \cup {NoStatus}
       /\ book[r].ticket \in DOMAIN MemoryTickets
       /\ book[r].calling \in {"no", "dispatch", "retry"}
       /\ {book[r].created, book[r].since, book[r].approved} \subseteq 0..LastDay
       /\ Len(book[r].trail) <= MaxTrail
       /\ outcomeRow[r] # NoRow => outcomeRow[r].completed \in 1..LastDay

\* What depends on jobs that are recorded after the run has ended.
ApartFromJobs(row) ==
  [column \in DOMAIN row \ {"repo", "provider", "jobs", "cost"} |-> row[column]]

\* The provider refused a dispatch, and the failure path wrote over whatever
\* the run had become.
Overwritten(run) ==
  \E i \in EventsOf(run, {"agent_failed"}) : run.trail[i].why = "provider dispatch failed"

\* A run that has ended has an outcome row unless recording it failed, and a
\* backfill would derive the same one again, its job columns apart if a job
\* was recorded after the end.  A row that should be there and is not is
\* missing, not wrong: a run has the row of an ending that no longer stands
\* only after a failed dispatch wrote over it (record_outcome,
\* _record_outcome_if_terminal).
OutcomeRowsHold ==
  \A r \in MemoryRuns :
    /\ book[r].status \in TerminalStatuses /\ r \notin lost =>
         /\ outcomeRow[r] # NoRow
         /\ ApartFromJobs(outcomeRow[r]) = ApartFromJobs(DeriveOutcome(book[r]))
         /\ outcomeRow[r].jobs = Len(book[r].jobs) => outcomeRow[r] = DeriveOutcome(book[r])
    /\ book[r].status \notin TerminalStatuses \/ r \in lost =>
         outcomeRow[r] = NoRow \/ Overwritten(book[r])
=============================================================================
