---------------------------- MODULE RunLifecycle ----------------------------
(****************************************************************************)
(* The life of a run under FoundryOrchestrator (orchestrator.py), driven by *)
(* the in-process InlineDriver (drivers.py) and by the expiry and           *)
(* compensation calls of the durable driver.                                *)
(*                                                                          *)
(* One action is one database transaction.  Every method takes the run row  *)
(* FOR UPDATE and commits before it lets go, so transactions on a run are   *)
(* serialised; what interleaves is the code BETWEEN transactions.  Four     *)
(* methods have such gaps and are therefore split at each commit, and run   *)
(* by a worker with a program counter:                                      *)
(*                                                                          *)
(*   intake_and_plan     pre-check | insert                                 *)
(*   submit_decision     approve | dispatch_agent                           *)
(*   dispatch_agent      gate | provider.create_job | record, or failure    *)
(*   record_pr           record | remediation gate and claim |              *)
(*                       provider.create_job | record, or failure           *)
(*                                                                          *)
(* A refused call (OrchestratorError before any write) changes nothing and  *)
(* has no action.  Notifications and audit wording are left out; the audit  *)
(* rows a property needs survive as `decisions' and `lastDiff'.             *)
(****************************************************************************)
EXTENDS Naturals, FiniteSets, Sequences, PolicyGate, PrStatus, RunStatus

CONSTANTS
  Runs,            \* run ids an intake may allocate
  NoRun,           \* what an idle worker works on
  Issues,          \* upstream tickets
  IssueOf,         \* the ticket a run id is allocated for
  Users,           \* authorised approvers
  GrantedRoles,    \* the approval roles each approver signs with
  Workers,         \* threads that serve API calls and webhooks
  Tickets,         \* what analysis, routing and risk can make of a ticket
  PrEvents,        \* what a pull request webhook can report
  MinApprovals,    \* policy.min_approvals: the global floor
  MaxRetries,      \* remediation.max_agent_retries
  RetryOn,         \* remediation.retry_on
  FreezeStates,    \* {FALSE} without change-freeze windows, else {FALSE, TRUE}
  CostPerDispatch, \* budget.estimated_cost_per_dispatch
  MaxCost,         \* budget.max_cost_per_run, or NoCap
  Faults,          \* which of "crash", "provider", "cancel" and "memory" may happen
  MaxDecisions     \* bound of the model: a run with this many allowing decisions
                   \* gets no further event that asks for remediation

TicketProfiles ==
  [readiness : Readiness, criteria : BOOLEAN, overall : OverallRisks,
   areas : SUBSET SensitiveAreas, confidence : 0..100,
   repoRoles : SUBSET ApprovalRoles, customRoles : SUBSET ApprovalRoles,
   repoMinApprovals : Nat]

ASSUME LifecycleAssumption ==
  /\ IsFiniteSet(Workers)
  /\ NoRun \notin Runs
  /\ IssueOf \in [Runs -> Issues]
  /\ GrantedRoles \in [Users -> SUBSET ApprovalRoles]
  /\ Tickets \subseteq TicketProfiles
  /\ PrEvents \subseteq PrEventRecords
  /\ MinApprovals \in Nat \ {0}
  /\ MaxRetries \in Nat
  /\ RetryOn \subseteq {"ci_failed", "changes_requested"}
  /\ FreezeStates \subseteq BOOLEAN
  /\ CostPerDispatch \in Nat
  /\ MaxCost \in Nat
  /\ Faults \subseteq {"crash", "provider", "cancel", "memory"}
  /\ MaxDecisions \in Nat

VARIABLES
  status,     \* foundry_runs.status
  ticket,     \* the run's analysis, context and risk artifacts
  approvers,  \* users of its APPROVAL_RECORD artifacts
  jobs,       \* its foundry_agent_jobs rows, in started_at order
  lastDiff,   \* verdict on the latest PR_STATE artifact that lists files
  outcome,    \* its foundry_run_outcomes row
  missed,     \* runs whose last ending was logged as "outcome recording failed"
  decisions,  \* allowing rows of foundry_policy_decisions for a dispatch
  launched,   \* provider side: jobs created for the run, numbered 1, 2, ...
  live,       \* provider side: those nobody has cancelled
  worker      \* what each thread is in the middle of

vars == <<status, ticket, approvers, jobs, lastDiff, outcome, missed,
          decisions, launched, live, worker>>

-----------------------------------------------------------------------------
(* Workers                                                                   *)

\* "intake"    pre-check passed, engines running, row not inserted
\* "dispatch"  approve() committed, dispatch_agent not entered
\* "launch"    allow decision committed, provider.create_job not returned
\* "record"    the provider has created job number `job'
\* "failed"    provider.create_job raised
\* "remediate" record_pr committed PR_OPEN and found a reason to remediate
WorkerPcs ==
  {"idle", "intake", "dispatch", "launch", "record", "failed", "remediate"}

Idle == [pc |-> "idle", run |-> NoRun, retry |-> FALSE, job |-> 0]

WorkerStates ==
  [pc : WorkerPcs, run : Runs \cup {NoRun}, retry : BOOLEAN, job : Nat]

Free(w) == worker[w].pc = "idle"

Begin(w, pc, r) == worker' = [worker EXCEPT ![w] = [Idle EXCEPT !.pc = pc, !.run = r]]

Release(w) == worker' = [worker EXCEPT ![w] = Idle]

-----------------------------------------------------------------------------
(* Reading a run                                                             *)

\* find_active_run_id_for_issue, for the ticket that r belongs to.
ActiveRunsOf(issue) ==
  {r \in Runs : IssueOf[r] = issue /\ status[r] \in ActiveStatuses}

\* Slip: the index is missing, the pre-check stands alone.
NoIndex(r, s) == TRUE

\* The partial unique index: one active run per issue.
IndexAllows(r, s) == s \in ActiveStatuses => ActiveRunsOf(IssueOf[r]) \subseteq {r}

\* _resolved_required_roles: per-repo roles and fired custom categories.
ResolvedRequiredRoles(t) == t.repoRoles \cup t.customRoles

\* What approve() and the gate alike hold an approver to.
RolesRequired(t) == RequiredApprovals(t.areas, ResolvedRequiredRoles(t))

\* _min_approvals_for: the floor, which a repository can only raise.
MinApprovalsFor(t) ==
  IF t.repoMinApprovals > MinApprovals THEN t.repoMinApprovals ELSE MinApprovals

\* _approval_summary: the union of the roles the recorded approvers granted.
RolesGranted(users) == UNION {GrantedRoles[u] : u \in users}

\* _accumulated_cost when no provider reports usage: the estimate per row.
AccumulatedCost(r) == CostPerDispatch * Len(jobs[r])

\* _policy_input.
PolicyInput(action, t, users, attempt, cost, cap) ==
  [action |-> action, readiness |-> t.readiness, overall |-> t.overall,
   areas |-> t.areas, confidence |-> t.confidence,
   repoRoles |-> ResolvedRequiredRoles(t), approval |-> RolesGranted(users),
   approvalPresent |-> users # {}, attempt |-> attempt,
   maxAttempts |-> MaxRetries, cost |-> cost,
   pending |-> CostPerDispatch, maxCost |-> cap]

\* The dispatch and retry requests of a run, with its recorded approvals.
DispatchRequest(r) ==
  PolicyInput("start_agent", ticket[r], approvers[r], 0, AccumulatedCost(r), MaxCost)

\* Slip: a retry counted as if no job had run.
UncountedRetryRequest(r) ==
  PolicyInput("retry_agent", ticket[r], approvers[r], 0, AccumulatedCost(r), MaxCost)

\* Attempt N is the N-th re-dispatch: the number of job rows so far.
RetryRequest(r) ==
  PolicyInput("retry_agent", ticket[r], approvers[r], Len(jobs[r]),
              AccumulatedCost(r), MaxCost)

\* dispatch_agent goes ahead only for an allowed, non-human-only decision;
\* a retry looks at `allowed' alone.
DispatchAllowed(r) ==
  Allowed(DispatchRequest(r)) /\ AllowedMode(DispatchRequest(r)) # "human_only"

RetryAllowed(r) == Allowed(RetryRequest(r))
-----------------------------------------------------------------------------
(* Writing a run                                                             *)

\* The row of an ending: an upsert in the transaction that ends the run.
RecordOutcome(r, s) ==
  outcome' = [outcome EXCEPT ![r] = s] /\ missed' = missed \ {r}

\* Slip: an ending by failure forgets its outcome row.
SetStatusForgetsFailures(r, s) ==
  /\ status' = [status EXCEPT ![r] = s]
  /\ IF s \in TerminalStatuses \ {"execution_failed"}
     THEN RecordOutcome(r, s) ELSE UNCHANGED <<outcome, missed>>

\* Every site that sets a terminal status calls _record_outcome_if_terminal,
\* which records the outcome or logs why it could not and goes on: memory
\* "must never break the governance path".
SetStatus(r, s) ==
  /\ status' = [status EXCEPT ![r] = s]
  /\ IF s \notin TerminalStatuses THEN UNCHANGED <<outcome, missed>>
     ELSE \/ RecordOutcome(r, s)
          \/ "memory" \in Faults /\ missed' = missed \cup {r} /\ UNCHANGED outcome

KeepStatus == UNCHANGED <<status, outcome, missed>>

\* The row order_by(started_at.desc()).first() returns, when there is one.
LatestJob(r) == jobs[r][Len(jobs[r])]

SetLatestJob(r, s) == jobs' = [jobs EXCEPT ![r][Len(jobs[r])].status = s]

\* _cancel_active_job: only the latest row, only while it may be running; a
\* provider that refuses leaves the row as it was and the caller carries on.
CancelActiveJob(r) ==
  IF Len(jobs[r]) > 0 /\ LatestJob(r).status \in CancellableJobStatuses
  THEN \/ /\ SetLatestJob(r, "cancelled")
          /\ live' = [live EXCEPT ![r] = @ \ {LatestJob(r).id}]
       \/ "cancel" \in Faults /\ UNCHANGED <<jobs, live>>
  ELSE UNCHANGED <<jobs, live>>

AddJob(r, n, s) == jobs' = [jobs EXCEPT ![r] = Append(@, [id |-> n, status |-> s])]

\* Slip: the decision row is lost with the transaction it was added in.
LoseAllow(r) == UNCHANGED decisions

\* The allowing decision is committed before the provider is called.
CommitAllow(r) == decisions' = [decisions EXCEPT ![r] = @ + 1]

\* Slip: a job that is no longer wanted is dropped on the floor.
DropSuperseded(r, n) == UNCHANGED <<jobs, live>>

\* Slip: a job that is no longer wanted is recorded and left to run.
KeepSuperseded(r, n) == AddJob(r, n, "running") /\ UNCHANGED live

\* _cancel_superseded_job: a job nobody wants any more is recorded all the
\* same, and cancelled, best effort.
RecordSuperseded(r, n) ==
  \/ /\ AddJob(r, n, "cancelled")
     /\ live' = [live EXCEPT ![r] = @ \ {n}]
  \/ "cancel" \in Faults /\ AddJob(r, n, "running") /\ UNCHANGED live

\* Phase 3 of a dispatch or a remediation.  The run is advanced only if it is
\* still in the status the worker left it in.
RecordJob(w, expected) ==
  LET r == worker[w].run
      n == worker[w].job
  IN  /\ IF status[r] = expected
         THEN SetStatus(r, "agent_running") /\ AddJob(r, n, "running") /\ UNCHANGED live
         ELSE KeepStatus /\ RecordSuperseded(r, n)
      /\ Release(w)
      /\ UNCHANGED <<ticket, approvers, lastDiff, decisions, launched>>

-----------------------------------------------------------------------------
(* intake_and_plan                                                           *)

IntakeRequest(t) == PolicyInput("start_agent", t, {}, 0, 0, NoCap)

\* The probe: would the gate still refuse if every required role had signed?
PermanentlyBlocked(t) ==
  ~ Allowed([IntakeRequest(t) EXCEPT
               !.approvalPresent = TRUE,
               !.approval = RolesRequired(t)])

PostPlanStatus(t) ==
  IF ~(t.readiness = "ready" /\ t.criteria) THEN "needs_clarification"
  ELSE IF t.overall = "blocked" \/ PermanentlyBlocked(t) THEN "blocked"
  ELSE "waiting_approval"

\* The pre-check finds no active run; the engines then run outside any
\* transaction.  Run ids are fresh.
IntakeStart(w, r) ==
  /\ Free(w)
  /\ status[r] = NoStatus
  /\ \A v \in Workers : worker[v].run # r
  /\ ActiveRunsOf(IssueOf[r]) = {}
  /\ Begin(w, "intake", r)
  /\ UNCHANGED <<status, ticket, approvers, jobs, lastDiff, outcome, missed,
                 decisions, launched, live>>

\* The insert.  IntegrityError rolls everything back, and the caller attaches
\* to the run that won (or fails, if that one has ended in the meantime).
IntakeInsert(w, t) ==
  LET r == worker[w].run
      s == PostPlanStatus(t)
  IN  /\ worker[w].pc = "intake"
      /\ IF IndexAllows(r, s)
         THEN SetStatus(r, s) /\ ticket' = [ticket EXCEPT ![r] = t]
         ELSE KeepStatus /\ UNCHANGED ticket
      /\ Release(w)
      /\ UNCHANGED <<approvers, jobs, lastDiff, decisions, launched, live>>

-----------------------------------------------------------------------------
(* submit_decision(approve): approve() and then dispatch_agent()             *)

\* Slip: nobody checks whether the approver has signed already.
ApproveAgain(r, u) ==
  /\ status[r] = "waiting_approval"
  /\ RolesRequired(ticket[r]) \subseteq GrantedRoles[u]

\* The refusals of approve(): an approver must hold every required role, and
\* may sign once.
MayApprove(r, u) ==
  /\ status[r] = "waiting_approval"
  /\ RolesRequired(ticket[r]) \subseteq GrantedRoles[u]
  /\ u \notin approvers[r]

\* Slip: the driver records the sign-off and leaves dispatching to others.
ThenReturn(w, r) == UNCHANGED worker

\* The driver enters dispatch_agent after every sign-off, enough or not.
ThenDispatch(w, r) == Begin(w, "dispatch", r)

\* approve(): the run leaves waiting_approval when enough people have signed.
SignOff(r, u) ==
  /\ MayApprove(r, u)
  /\ approvers' = [approvers EXCEPT ![r] = @ \cup {u}]
  /\ IF Cardinality(approvers[r]) + 1 >= MinApprovalsFor(ticket[r])
     THEN SetStatus(r, "approved") ELSE KeepStatus
  /\ UNCHANGED <<ticket, jobs, lastDiff, decisions, launched, live>>

Approve(w, r, u) == Free(w) /\ SignOff(r, u) /\ ThenDispatch(w, r)

\* Phase 1: refuse unless approved, evaluate the gate, commit the decision.
\* An allowed run is NOT claimed: it stays approved.
DispatchGate(w) ==
  LET r == worker[w].run
  IN  /\ worker[w].pc = "dispatch"
      /\ \/ /\ status[r] # "approved"
            /\ KeepStatus /\ Release(w) /\ UNCHANGED decisions
         \/ /\ status[r] = "approved"
            /\ ~DispatchAllowed(r)
            /\ SetStatus(r, "blocked") /\ Release(w) /\ UNCHANGED decisions
         \/ /\ status[r] = "approved"
            /\ DispatchAllowed(r)
            /\ CommitAllow(r)
            /\ Begin(w, "launch", r)
            /\ KeepStatus
      /\ UNCHANGED <<ticket, approvers, jobs, lastDiff, launched, live>>

\* Phase 2, shared by dispatch and remediation: provider.create_job.
DispatchToProvider(w) ==
  LET r == worker[w].run
  IN  /\ worker[w].pc = "launch"
      /\ \/ /\ launched' = [launched EXCEPT ![r] = @ + 1]
            /\ live' = [live EXCEPT ![r] = @ \cup {launched[r] + 1}]
            /\ worker' = [worker EXCEPT ![w].pc = "record", ![w].job = launched[r] + 1]
         \/ /\ "provider" \in Faults
            /\ worker' = [worker EXCEPT ![w].pc = "failed"]
            /\ UNCHANGED <<launched, live>>
      /\ UNCHANGED <<status, ticket, approvers, jobs, lastDiff, outcome, missed, decisions>>

\* _record_dispatch_failure: writes the failure status over whatever the run
\* has become.  Making a finished run active again is refused by the index
\* when the ticket already has another active run.
RecordDispatchFailure(w) ==
  LET r == worker[w].run
      s == IF worker[w].retry THEN "review_required" ELSE "execution_failed"
  IN  /\ worker[w].pc = "failed"
      /\ IF IndexAllows(r, s) THEN SetStatus(r, s) ELSE KeepStatus
      /\ Release(w)
      /\ UNCHANGED <<ticket, approvers, jobs, lastDiff, decisions, launched, live>>

RecordDispatch(w) ==
  /\ worker[w].pc = "record" /\ ~worker[w].retry
  /\ RecordJob(w, "approved")

-----------------------------------------------------------------------------
(* record_pr and the remediation loop                                        *)

\* _remediation_reason, empty when the event asks for nothing or the operator
\* does not remediate what it asks for.
RemediationReasons(e) ==
  RetryOn \cap (IF e.ciFailing THEN {"ci_failed"}
                ELSE IF e.changesRequested THEN {"changes_requested"} ELSE {})

RecordPr(w, r, e) ==
  LET s == NextStatusForPr(status[r], e)
  IN  /\ Free(w)
      /\ status[r] \in PrObservableStatuses
      /\ RemediationReasons(e) # {} => decisions[r] < MaxDecisions
      /\ SetStatus(r, s)
      /\ lastDiff' = [lastDiff EXCEPT ![r] = IF e.diff = "none" THEN @ ELSE e.diff]
      /\ IF s = "complete" /\ Len(jobs[r]) > 0
         THEN SetLatestJob(r, "succeeded") ELSE UNCHANGED jobs
      /\ IF s = "pr_open" /\ RemediationReasons(e) # {}
         THEN Begin(w, "remediate", r) ELSE UNCHANGED worker
      /\ UNCHANGED <<ticket, approvers, decisions, launched, live>>

\* _attempt_remediation up to its first commit: bail out unless the pull
\* request is still open, hold the retry in a change freeze, hand a denied
\* retry to a human, or claim the run for this retry.
Remediate(w, frozen) ==
  LET r == worker[w].run
  IN  /\ worker[w].pc = "remediate"
      /\ \/ /\ status[r] # "pr_open"
            /\ KeepStatus /\ Release(w) /\ UNCHANGED decisions
         \/ /\ status[r] = "pr_open"
            /\ frozen \/ ~RetryAllowed(r)
            /\ SetStatus(r, "review_required") /\ Release(w) /\ UNCHANGED decisions
         \/ /\ status[r] = "pr_open"
            /\ ~frozen /\ RetryAllowed(r)
            /\ SetStatus(r, "agent_running")
            /\ CommitAllow(r)
            /\ worker' = [worker EXCEPT ![w].pc = "launch", ![w].retry = TRUE]
      /\ UNCHANGED <<ticket, approvers, jobs, lastDiff, launched, live>>

RecordRemediation(w) ==
  /\ worker[w].pc = "record" /\ worker[w].retry
  /\ RecordJob(w, "agent_running")

-----------------------------------------------------------------------------
(* Endings: one transaction each, by any thread or by the durable driver     *)

\* Slip: an expiry that does not look whether the run has moved on.
ExpireBlindly(r, expected, s) ==
  /\ status[r] # NoStatus
  /\ SetStatus(r, s)
  /\ UNCHANGED <<ticket, approvers, jobs, lastDiff, decisions, launched, live, worker>>

\* What a single-transaction ending leaves alone.
EndingFrame == UNCHANGED <<ticket, approvers, lastDiff, decisions, launched, worker>>

\* _terminate: reject() and stop(), refused for a finished run.
Terminate(r, s) ==
  /\ status[r] \in ActiveStatuses
  /\ SetStatus(r, s)
  /\ CancelActiveJob(r)
  /\ EndingFrame

Reject(r) == Terminate(r, "rejected")

Stop(r) == Terminate(r, "blocked")

\* _expire_wait: a run that has moved on is left alone.
ExpireWait(r, expected, s) ==
  /\ status[r] = expected
  /\ SetStatus(r, s)
  /\ CancelActiveJob(r)
  /\ EndingFrame

ExpirePendingApproval(r) == ExpireWait(r, "waiting_approval", "blocked")

ExpirePendingPr(r) == ExpireWait(r, "agent_running", "execution_failed")

\* fail_run: the durable workflow's compensation.
FailRun(r) ==
  /\ status[r] \in ActiveStatuses
  /\ SetStatus(r, "execution_failed")
  /\ CancelActiveJob(r)
  /\ EndingFrame

\* mark_agent_failed: the agent itself has died, so its job is not live.
MarkAgentFailed(r) ==
  /\ status[r] \in ActiveStatuses
  /\ SetStatus(r, "execution_failed")
  /\ IF Len(jobs[r]) > 0
     THEN /\ SetLatestJob(r, "failed")
          /\ live' = [live EXCEPT ![r] = @ \ {LatestJob(r).id}]
     ELSE UNCHANGED <<jobs, live>>
  /\ EndingFrame

\* The process serving a call dies between two of its transactions.
Crash(w) ==
  /\ "crash" \in Faults
  /\ ~Free(w)
  /\ Release(w)
  /\ UNCHANGED <<status, ticket, approvers, jobs, lastDiff, outcome, missed,
                 decisions, launched, live>>

-----------------------------------------------------------------------------
(* The specification                                                         *)

NoTicket == [readiness |-> "needs_clarification", criteria |-> FALSE,
             overall |-> "medium", areas |-> {}, confidence |-> 0,
             repoRoles |-> {}, customRoles |-> {}, repoMinApprovals |-> 0]

Init ==
  /\ status = [r \in Runs |-> NoStatus]
  /\ ticket = [r \in Runs |-> NoTicket]
  /\ approvers = [r \in Runs |-> {}]
  /\ jobs = [r \in Runs |-> <<>>]
  /\ lastDiff = [r \in Runs |-> "none"]
  /\ outcome = [r \in Runs |-> NoStatus]
  /\ missed = {}
  /\ decisions = [r \in Runs |-> 0]
  /\ launched = [r \in Runs |-> 0]
  /\ live = [r \in Runs |-> {}]
  /\ worker = [w \in Workers |-> Idle]

\* A step of a call that has started.
Continue(w) ==
  \/ \E t \in Tickets : IntakeInsert(w, t)
  \/ DispatchGate(w)
  \/ DispatchToProvider(w)
  \/ RecordDispatchFailure(w)
  \/ RecordDispatch(w)
  \/ \E frozen \in FreezeStates : Remediate(w, frozen)
  \/ RecordRemediation(w)

\* A call that starts.
Call(w) ==
  \E r \in Runs :
    \/ IntakeStart(w, r)
    \/ \E u \in Users : Approve(w, r, u)
    \/ \E e \in PrEvents : RecordPr(w, r, e)

Ending(r) ==
  \/ Reject(r)
  \/ Stop(r)
  \/ ExpirePendingApproval(r)
  \/ ExpirePendingPr(r)
  \/ FailRun(r)
  \/ MarkAgentFailed(r)

\* What happens while every process lives.
ServingNext ==
  \/ \E w \in Workers : Call(w) \/ Continue(w)
  \/ \E r \in Runs : Ending(r)

Next == ServingNext \/ \E w \in Workers : Crash(w)

Spec == Init /\ [][Next]_vars

\* Spec for processes that live: the same where "crash" is not in Faults.
ServingSpec == Init /\ [][ServingNext]_vars

\* A thread that has started a call runs it to its end; nothing obliges
\* anybody to start one.
Fairness == \A w \in Workers : WF_vars(Continue(w))

FairSpec == ServingSpec /\ Fairness

-----------------------------------------------------------------------------
(* Properties                                                                *)

JobRows == [id : Nat, status : JobStatuses]

\* Every variable keeps its type; the only invariant that says no more.
TypeOK ==
  /\ status \in [Runs -> RunStatuses \cup {NoStatus}]
  /\ ticket \in [Runs -> TicketProfiles]
  /\ approvers \in [Runs -> SUBSET Users]
  /\ jobs \in [Runs -> Seq(JobRows)]
  /\ lastDiff \in [Runs -> Diffs]
  /\ outcome \in [Runs -> TerminalStatuses \cup {NoStatus}]
  /\ missed \subseteq Runs
  /\ decisions \in [Runs -> Nat]
  /\ launched \in [Runs -> Nat]
  /\ live \in [Runs -> SUBSET Nat]
  /\ worker \in [Workers -> WorkerStates]

\* However intakes, revivals and endings interleave, an issue never has two
\* runs in flight: the promise of uq_foundry_runs_one_active_per_issue and of
\* the pre-check that it backstops (db/models.py, intake_and_plan).
OneActiveRunPerIssue ==
  \A r, q \in Runs :
    /\ IssueOf[r] = IssueOf[q]
    /\ status[r] \in ActiveStatuses /\ status[q] \in ActiveStatuses
    => r = q

\* In these statuses a run has an agent, or gets one without another human.
ClearedStatuses == {"approved"} \cup PrObservableStatuses

\* Work of a kind the gate never refuses for good.
Launchable(t) ==
  /\ t.readiness = "ready"
  /\ t.areas \cap {"database_migration", "production_deploy"} = {}

Authorised(r) ==
  /\ Cardinality(approvers[r]) >= MinApprovals
  /\ Cardinality(approvers[r]) >= ticket[r].repoMinApprovals
  /\ \A u \in approvers[r] : RolesRequired(ticket[r]) \subseteq GrantedRoles[u]
  /\ Launchable(ticket[r])

\* The human gate.  Once an agent has been launched for a run, or may be at
\* any moment, enough distinct people have signed it off, each of them
\* holding every role its areas, repository and categories require
\* (approve), and the work is of a kind the gate lets an agent do at all.
LaunchAuthorised ==
  \A r \in Runs :
    launched[r] > 0 \/ status[r] \in ClearedStatuses => Authorised(r)

\* Issue #13: the audit trail is never behind reality.  Every provider job
\* has its own allowing policy decision, committed before the provider call.
EveryLaunchWasDecided == \A r \in Runs : launched[r] <= decisions[r]

\* Issue #13 from the other end: while nobody crashes, a job that may still
\* be running is on a row of the run or in the hands of the worker that is
\* about to write that row.
LiveJobsAreRecorded ==
  \A r \in Runs : \A n \in live[r] :
    \/ \E i \in 1..Len(jobs[r]) : jobs[r][i].id = n
    \/ \E w \in Workers :
         worker[w].pc = "record" /\ worker[w].run = r /\ worker[w].job = n

\* The retry cap is read from the job rows and only later consumed.  The
\* workers that may hold a claim bound by how much it can be overshot.
RetryOvershootBounded ==
  \A r \in Runs : launched[r] <= MaxRetries + Cardinality(Workers)

\* The cap as the code states it: duplicate CI-failure events "can neither
\* double-dispatch nor undercount the retry cap" (_attempt_remediation).
RetryCapHolds == \A r \in Runs : launched[r] <= MaxRetries + 1

\* The budget gate counts a job as pending before it launches it, so that one
\* thread never reaches the cap; each other thread may add the one dispatch
\* it was allowed before the rows of its rivals were written (dispatch_agent,
\* _attempt_remediation).
SpendOvershootBounded ==
  \A r \in Runs :
    MaxCost # NoCap /\ launched[r] > 0 =>
      CostPerDispatch * launched[r] < MaxCost + CostPerDispatch * (Cardinality(Workers) - 1)

\* A diff that went to a human stays with a human: events without a file
\* list (reviews, check suites), late retries and raced dispatches never put
\* the run back to pr_open or hand it to an agent until a clean diff arrives.
EscalationHolds ==
  \A r \in Runs :
    lastDiff[r] = "escalates" /\ status[r] \in ActiveStatuses
    => status[r] = "review_required"

\* Delivery memory: a run has an outcome row exactly when it is finished and
\* the log does not say that recording it failed; the row says how it finished
\* (_record_outcome_if_terminal).
OutcomeMatchesStatus ==
  \A r \in Runs :
    outcome[r] = IF status[r] \in TerminalStatuses /\ r \notin missed
                 THEN status[r] ELSE NoStatus

\* "A run in one of these states never re-enters an active state", and its
\* recorded outcome is the only one it ever gets (schemas/common.py).
TerminalIsFinal ==
  [][\A r \in Runs : status[r] \in TerminalStatuses => status'[r] = status[r]]_vars

\* The same sentence, without the outcome: no way back from terminal to active.
TerminalNeverActive ==
  [][\A r \in Runs :
       status[r] \in TerminalStatuses => status'[r] \notin ActiveStatuses]_vars

\* "Stop"/"reject" must also stop the agent working and spending (_terminate):
\* a run a human ended has no job left running that nobody is about to cancel.
StoppedRunsHaveNoLiveJob ==
  \A r \in Runs :
    status[r] = "rejected"
    => \A n \in live[r] : \E w \in Workers :
         worker[w].pc = "record" /\ worker[w].run = r /\ worker[w].job = n

\* The documented lifecycle (orchestrator.py, header) is what runs go through.
Contract == INSTANCE RunContract WITH
  phase <- status,
  signers <- approvers,
  quorum <- [r \in Runs |-> MinApprovalsFor(ticket[r])]

ImplementsContract == Contract!Spec

\* While no process dies, an approved run does not wait for anybody else: the
\* thread whose sign-off completed the quorum dispatches or blocks it.
ApprovedRunsMoveOn ==
  \A r \in Runs : status[r] = "approved" ~> status[r] # "approved"
=============================================================================
