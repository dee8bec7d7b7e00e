-------------------------- MODULE DurableWorkflow --------------------------
(****************************************************************************)
(* TicketToPrWorkflow (workflows/workflow.py): one durable execution that   *)
(* drives one ticket through the orchestrator of RunLifecycle.              *)
(*                                                                          *)
(* The workflow itself never fails: it is replayed.  It asks for activities *)
(* (workflows/activities.py) one at a time.  An attempt of an activity runs *)
(* on a thread of an activity worker, where it takes the steps of           *)
(* RunLifecycle; the server hands the answer to the workflow, or, when the  *)
(* attempt raises or its start_to_close_timeout passes, schedules another   *)
(* attempt, up to maximum_attempts.  An activity is a blocking Python call, *)
(* so a timed-out attempt is not stopped: it runs on, beside its successor, *)
(* and may not even have begun when its successor answers.                  *)
(*                                                                          *)
(* An activity that fails for good is followed by the compensating fail_run *)
(* when a run is known, and the workflow closes as failed.                  *)
(****************************************************************************)
EXTENDS RunLifecycle

CONSTANTS
  Issue,        \* the ticket the workflow was started for
  NoThread,     \* the thread of an attempt nobody has picked up
  NoInput,      \* the input of an activity that takes only the run
  Malformed,    \* a pull request event that does not validate
  MaxAttempts,  \* ACTIVITY_OPTIONS: maximum_attempts of each activity
  MaxEvents     \* bound of the model: pull request signals

\* expire counts twice: its two phases end different waits.
Activities ==
  {"intake_and_plan", "approve", "dispatch_agent", "reject", "stop",
   "record_pr", "expire_approval", "expire_pr", "fail_run"}

ASSUME WorkflowAssumption ==
  /\ Issue \in Issues
  /\ NoThread \notin Workers
  /\ MaxAttempts \in [Activities -> Nat \ {0}]
  /\ MaxEvents \in Nat

VARIABLES
  at,         \* the activity the workflow awaits, or how it waits or closed
  run,        \* self._run_id
  known,      \* self._status
  decision,   \* self._decision and self._decision_user
  signalled,  \* len(self._pr_events)
  processed,  \* self._pr_processed
  task,       \* the activity's current attempt, as the server sees it
  held        \* per thread, the call of a lost attempt it has yet to begin

workflowVars == <<at, run, known, decision, signalled, processed, task, held>>

durableVars == <<vars, workflowVars>>

Open == at \notin {"completed", "failed"}

NoDecision == [verb |-> "none", user |-> NoInput]

Decisions ==
  {[verb |-> "approve", user |-> u] : u \in Users}
  \cup {[verb |-> v, user |-> NoInput] : v \in {"reject", "stop"}}

-----------------------------------------------------------------------------
(* Activities                                                                *)

\* "scheduled"  an attempt is due
\* "running"    a thread has begun it
\* "returned"   it has returned `answer', which is not delivered yet
\* "raised"     it raised an error that may be retried
\* "refused"    it raised one of DETERMINISTIC_ERRORS
NoTask == [state |-> "none", attempt |-> 0, thread |-> NoThread,
           input |-> NoInput, answer |-> NoStatus]

\* execute_activity_method.
Execute(activity, input) ==
  /\ at' = activity
  /\ task' = [NoTask EXCEPT !.state = "scheduled", !.attempt = 1, !.input = input]

\* A wait_condition, or the end of run().
Become(phase) == at' = phase /\ task' = NoTask

Running(w) == task' = [task EXCEPT !.state = "running", !.thread = w]

Returned(answer) == task' = [task EXCEPT !.state = "returned", !.answer = answer]

Refused == task' = [task EXCEPT !.state = "refused"] /\ UNCHANGED vars

NoCall == [at |-> "none", input |-> NoInput]

\* A thread picks the attempt up and takes its first transaction.  Time may
\* pass between the two: AttemptStalls says what happens if it is too much.
PickUp(w, activity) ==
  /\ at = activity
  /\ task.state = "scheduled"
  /\ Free(w) /\ held[w] = NoCall
  /\ UNCHANGED <<at, run, known, decision, signalled, processed, held>>

\* intake_and_plan attaches to an active run of the ticket instead of failing.
StartIntake(w) ==
  /\ PickUp(w, "intake_and_plan")
  /\ \/ \E r \in Runs : IssueOf[r] = Issue /\ IntakeStart(w, r) /\ Running(w)
     \/ \E r \in ActiveRunsOf(Issue) : Returned(r) /\ UNCHANGED vars

StartApprove(w) ==
  /\ PickUp(w, "approve")
  /\ \/ SignOff(run, task.input) /\ Returned(NoStatus) /\ UNCHANGED worker
     \/ ~MayApprove(run, task.input) /\ Refused

EnterDispatch(w) ==
  /\ Free(w)
  /\ Begin(w, "dispatch", run)
  /\ UNCHANGED <<status, ticket, approvers, jobs, lastDiff, outcome, missed,
                 decisions, launched, live>>

StartDispatch(w) == PickUp(w, "dispatch_agent") /\ EnterDispatch(w) /\ Running(w)

StartTerminate(w) ==
  \/ PickUp(w, "reject") /\ Reject(run) /\ Returned(NoStatus)
  \/ PickUp(w, "stop") /\ Stop(run) /\ Returned(NoStatus)
  \/ /\ PickUp(w, "reject") \/ PickUp(w, "stop")
     /\ status[run] \notin ActiveStatuses
     /\ Refused

StartRecordPr(w) ==
  /\ PickUp(w, "record_pr")
  /\ \/ /\ task.input = Malformed \/ status[run] \notin PrObservableStatuses
        /\ Refused
     \/ /\ task.input # Malformed
        /\ RecordPr(w, run, task.input)
        /\ IF worker'[w].pc = "idle" THEN Returned(status'[run]) ELSE Running(w)

StartExpire(w) ==
  \/ /\ PickUp(w, "expire_approval")
     /\ \/ ExpirePendingApproval(run)
        \/ status[run] # "waiting_approval" /\ UNCHANGED vars
     /\ Returned(status'[run])
  \/ /\ PickUp(w, "expire_pr")
     /\ \/ ExpirePendingPr(run)
        \/ status[run] # "agent_running" /\ UNCHANGED vars
     /\ Returned(status'[run])

StartFailRun(w) ==
  /\ PickUp(w, "fail_run")
  /\ \/ FailRun(run)
     \/ status[run] \in TerminalStatuses /\ UNCHANGED vars
  /\ Returned(status'[run])

Start(w) ==
  \/ StartIntake(w) \/ StartApprove(w) \/ StartDispatch(w) \/ StartTerminate(w)
  \/ StartRecordPr(w) \/ StartExpire(w) \/ StartFailRun(w)

\* A call finds its run where it refuses to touch it, or has nothing to do.
ComesTooLate(activity, input) ==
  \/ activity = "intake_and_plan" /\ ActiveRunsOf(Issue) # {}
  \/ activity = "approve" /\ ~MayApprove(run, input)
  \/ activity \in {"reject", "stop", "fail_run"} /\ status[run] \notin ActiveStatuses
  \/ /\ activity = "record_pr"
     /\ input = Malformed \/ status[run] \notin PrObservableStatuses
  \/ activity = "expire_approval" /\ status[run] # "waiting_approval"
  \/ activity = "expire_pr" /\ status[run] # "agent_running"

\* What an attempt returns when thread w takes its last step: the run of the
\* ticket for an intake, which may have lost the insert; else its status.
LastAnswer(w) ==
  LET r == worker[w].run
  IN  IF worker[w].pc # "intake" THEN status'[r]
      ELSE IF status'[r] # NoStatus THEN r
      ELSE CHOOSE q \in ActiveRunsOf(Issue) : TRUE

\* The call of an attempt that was given up for lost begins after all, on the
\* run as it has become.  Nobody waits for its answer or its refusal.
BeginLate(w) ==
  LET activity == held[w].at
      input == held[w].input
  IN  /\ held[w] # NoCall
      /\ \/ /\ activity = "intake_and_plan"
            /\ \E r \in Runs : IssueOf[r] = Issue /\ IntakeStart(w, r)
         \/ activity = "approve" /\ SignOff(run, input) /\ UNCHANGED worker
         \/ activity = "dispatch_agent" /\ EnterDispatch(w)
         \/ activity = "reject" /\ Reject(run)
         \/ activity = "stop" /\ Stop(run)
         \/ /\ activity = "record_pr" /\ input # Malformed
            /\ RecordPr(w, run, input)
         \/ activity = "expire_approval" /\ ExpirePendingApproval(run)
         \/ activity = "expire_pr" /\ ExpirePendingPr(run)
         \/ activity = "fail_run" /\ FailRun(run)
         \/ ComesTooLate(activity, input) /\ UNCHANGED vars
      /\ held' = [held EXCEPT ![w] = NoCall]
      /\ UNCHANGED <<at, run, known, decision, signalled, processed, task>>

\* A thread goes on with the call it is in: the current attempt's, or that of
\* an attempt given up for lost.
ThreadStep(w) ==
  /\ Continue(w)
  /\ IF task.thread = w /\ task.state = "running" /\ worker'[w].pc = "idle"
     THEN IF worker[w].pc = "failed"
          THEN task' = [task EXCEPT !.state = "raised"]
          ELSE Returned(LastAnswer(w))
     ELSE UNCHANGED task
  /\ UNCHANGED <<at, run, known, decision, signalled, processed, held>>

\* The process of a thread dies; only a timeout will tell.
ThreadDies(w) == Crash(w) /\ UNCHANGED workflowVars

\* It may die before its call has begun.
LateCallDies(w) ==
  /\ "crash" \in Faults
  /\ held[w] # NoCall
  /\ held' = [held EXCEPT ![w] = NoCall]
  /\ UNCHANGED <<vars, at, run, known, decision, signalled, processed, task>>

-----------------------------------------------------------------------------
(* The server's verdict on an attempt                                        *)

\* ActivityError reaches run(): compensate if there is a run to compensate.
ActivityFails ==
  IF run # NoRun /\ at # "fail_run" THEN Execute("fail_run", NoInput)
  ELSE Become("failed")

\* Slip: no maximum_attempts.
RetryForever ==
  /\ task' = [task EXCEPT !.state = "scheduled", !.thread = NoThread, !.answer = NoStatus]
  /\ UNCHANGED <<vars, at, run, known, decision, signalled, processed>>

\* The next attempt runs with the same input.
RetryOrFail ==
  /\ IF task.attempt < MaxAttempts[at]
     THEN /\ task' = [task EXCEPT !.state = "scheduled", !.attempt = @ + 1,
                                  !.thread = NoThread, !.answer = NoStatus]
          /\ UNCHANGED at
     ELSE ActivityFails
  /\ UNCHANGED <<vars, run, known, decision, signalled, processed>>

\* start_to_close_timeout: the attempt is slow, or its worker or its answer is
\* lost, while or after it did its work.
AttemptTimesOut ==
  /\ task.state \in {"running", "returned", "refused"}
  /\ RetryOrFail
  /\ UNCHANGED held

\* The same, but the thread that picked the attempt up has not begun.
AttemptStalls(w) ==
  /\ task.state = "scheduled"
  /\ Free(w) /\ held[w] = NoCall
  /\ held' = [held EXCEPT ![w] = [at |-> at, input |-> task.input]]
  /\ RetryOrFail

AttemptRaised == task.state = "raised" /\ RetryOrFail /\ UNCHANGED held

AttemptRefused ==
  /\ task.state = "refused"
  /\ ActivityFails
  /\ UNCHANGED <<vars, run, known, decision, signalled, processed, held>>

\* The thread of the attempt is gone, so that nothing but the timeout is left.
AttemptIsDead == task.state = "running" /\ Free(task.thread)

-----------------------------------------------------------------------------
(* run(): what an answer leads to                                            *)

Answered(activity) ==
  /\ at = activity
  /\ task.state = "returned"
  /\ UNCHANGED <<vars, decision, signalled, processed, held>>

IntakeAnswered ==
  /\ Answered("intake_and_plan")
  /\ run' = task.answer
  /\ known' = status[task.answer]
  /\ Become(IF known' = "waiting_approval" THEN "await_approval" ELSE "completed")

\* What approve answers is not looked at: dispatch_agent follows.
ApproveAnswered ==
  /\ Answered("approve")
  /\ Execute("dispatch_agent", NoInput)
  /\ UNCHANGED <<run, known>>

\* A refused dispatch is an answer like another: the run's status tells.
DispatchAnswered ==
  /\ Answered("dispatch_agent")
  /\ known' = status[run]
  /\ Become(IF known' = "agent_running" THEN "await_pr" ELSE "completed")
  /\ UNCHANGED run

\* keep_observing_pr.
KeepObserving(s) == s \in PrObservableStatuses

RecordPrAnswered ==
  /\ Answered("record_pr")
  /\ known' = task.answer
  /\ Become(IF KeepObserving(known') THEN "await_pr" ELSE "completed")
  /\ UNCHANGED run

\* Slip: what the ending answers is thrown away.
EndingUnread ==
  /\ \E e \in {"reject", "stop", "expire_approval", "expire_pr"} : Answered(e)
  /\ Become("completed")
  /\ UNCHANGED <<run, known>>

EndingAnswered ==
  /\ \/ (Answered("reject") \/ Answered("stop")) /\ known' = status[run]
     \/ (Answered("expire_approval") \/ Answered("expire_pr")) /\ known' = task.answer
  /\ Become("completed")
  /\ UNCHANGED run

CompensationAnswered ==
  /\ Answered("fail_run")
  /\ known' = task.answer
  /\ Become("failed")
  /\ UNCHANGED run

-----------------------------------------------------------------------------
(* Waits, timers and signals                                                 *)

HandleDecision ==
  /\ at = "await_approval"
  /\ decision # NoDecision
  /\ Execute(decision.verb, decision.user)
  /\ UNCHANGED <<vars, run, known, decision, signalled, processed, held>>

ApprovalWindowCloses ==
  /\ at = "await_approval"
  /\ decision = NoDecision
  /\ Execute("expire_approval", NoInput)
  /\ UNCHANGED <<vars, run, known, decision, signalled, processed, held>>

\* Nothing looks at an event before its turn, so it is chosen here.
HandlePr(e) ==
  /\ at = "await_pr"
  /\ processed < signalled
  /\ processed' = processed + 1
  /\ Execute("record_pr", e)
  /\ UNCHANGED <<vars, run, known, decision, signalled, held>>

\* Slip: observation ends whether a pull request came or not.
PrWindowForgets ==
  /\ at = "await_pr"
  /\ processed = signalled
  /\ Become("completed")
  /\ UNCHANGED <<vars, run, known, decision, signalled, processed, held>>

\* The timer of the observation loop fires only while the queue is empty.
\* With no event at all the wait expires; after one, observation just ends.
PrWindowCloses ==
  /\ at = "await_pr"
  /\ processed = signalled
  /\ IF processed = 0 THEN Execute("expire_pr", NoInput) ELSE Become("completed")
  /\ UNCHANGED <<vars, run, known, decision, signalled, processed, held>>

\* A signal is taken at any time while the workflow is open.  The latest
\* decision replaces the one before it, read or not.
SubmitDecision(d) ==
  /\ Open
  /\ decision' = d
  /\ UNCHANGED <<vars, at, run, known, signalled, processed, task, held>>

PrObserved ==
  /\ Open
  /\ signalled < MaxEvents
  /\ signalled' = signalled + 1
  /\ UNCHANGED <<vars, at, run, known, decision, processed, task, held>>

-----------------------------------------------------------------------------
(* The specification                                                         *)

WorkflowInit ==
  /\ Init
  /\ at = "intake_and_plan"
  /\ run = NoRun
  /\ known = "analysing"
  /\ decision = NoDecision
  /\ signalled = 0
  /\ processed = 0
  /\ task = [NoTask EXCEPT !.state = "scheduled", !.attempt = 1]
  /\ held = [w \in Workers |-> NoCall]

\* What the server and its workers owe the workflow.
Progress ==
  \/ \E w \in Workers : Start(w)
  \/ AttemptIsDead /\ AttemptTimesOut
  \/ AttemptRaised \/ AttemptRefused
  \/ IntakeAnswered \/ ApproveAnswered \/ DispatchAnswered \/ RecordPrAnswered
  \/ EndingAnswered \/ CompensationAnswered
  \/ HandleDecision \/ ApprovalWindowCloses
  \/ (\E e \in PrEvents \cup {Malformed} : HandlePr(e)) \/ PrWindowCloses

WorkflowNext ==
  \/ Progress
  \/ AttemptTimesOut
  \/ \E w \in Workers :
       AttemptStalls(w) \/ BeginLate(w) \/ ThreadStep(w) \/ ThreadDies(w) \/ LateCallDies(w)
  \/ \E d \in Decisions : SubmitDecision(d)
  \/ PrObserved

DurableSpec == WorkflowInit /\ [][WorkflowNext]_durableVars

DurableFairness ==
  /\ WF_durableVars(Progress)
  /\ \A w \in Workers : WF_durableVars(BeginLate(w) \/ ThreadStep(w))

FairDurableSpec == DurableSpec /\ DurableFairness

-----------------------------------------------------------------------------
(* Properties                                                                *)

\* No call is in flight, not even one that was given up for lost.
Quiet == \A w \in Workers : Free(w) /\ held[w] = NoCall

\* A workflow that completes leaves its run finished or with a delivered pull
\* request, but for two cases: sign-offs of an N-of-M matrix are still missing,
\* or the pull request went quiet while a remediation was running (run,
\* phase_after_dispatch, keep_observing_pr).
CompletedRunsAreSettled ==
  at = "completed" /\ Quiet =>
    \/ status[run] \in TerminalStatuses \cup {"pr_open", "review_required"}
    \/ /\ status[run] = "waiting_approval"
       /\ Cardinality(approvers[run]) \in 1..(MinApprovalsFor(ticket[run]) - 1)
    \/ status[run] = "agent_running" /\ processed > 0

\* The status a closed workflow reports is the status its run stays in, though
\* attempts were repeated and some of them are only now finishing
\* (current_status, _result).  There are two exceptions: the compensation of a
\* failed workflow may fail as well, and an attempt to record a pull request
\* that was given up for lost may record it again, or remediate, after the
\* workflow reported the pull request delivered; it never ends the run.
ResultMatchesRun ==
  at \in {"completed", "failed"} /\ Quiet /\ run # NoRun =>
    \/ known = status[run]
    \/ at = "failed" /\ known \notin TerminalStatuses
    \/ processed > 0 /\ {known, status[run]} \subseteq PrObservableStatuses

\* However many attempts a dispatch takes, and however they overlap, at most
\* one of the agents they launch is left running on the books ("a safe no-op
\* rather than a double-dispatch", activity_options.py).
DispatchKeepsOneJob ==
  at = "dispatch_agent" =>
    Cardinality({i \in 1..Len(jobs[run]) : jobs[run][i].status = "running"}) <= 1

\* The documented lifecycle again, now under the durable driver.
WorkflowImplementsContract == Contract!Spec

\* No signal that never comes, no lost answer, no dead worker and no repeated
\* failure keeps the workflow open for ever: every wait has a timer and every
\* activity a last attempt.
WorkflowCloses == <>(at \in {"completed", "failed"})

\* "Once a PR exists, a quiet period simply ends observation at that
\* (delivered) state" (_observe_pr): no agent is at work any more.
QuietMeansDelivered ==
  at = "completed" /\ processed > 0 /\ Quiet => status[run] # "agent_running"
=============================================================================
