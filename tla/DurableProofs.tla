---------------------------- MODULE DurableProofs ----------------------------
(****************************************************************************)
(* DurableWorkflow, for every value of its constants: the durable driver,   *)
(* with its retries, overlapping attempts and lost answers, keeps what the  *)
(* orchestrator of RunLifecycle promises.                                   *)
(*                                                                          *)
(* The invariants of RunLifecycle do not carry over by themselves: this     *)
(* driver takes a sign-off and enters dispatch_agent in two activities,     *)
(* where the inline driver of Next does both in one step, and it enters     *)
(* dispatch_agent for the run it has on its own books.  WorkflowInv says    *)
(* that those books are right; DriverStep says what is then left of a step  *)
(* of the workflow as the orchestrator sees it.                             *)
(*                                                                          *)
(* What the workflow promises of its own run needs more: PhaseFacts says,   *)
(* for each activity and each wait, how far the run can be while attempts   *)
(* that were given up for lost still work on it.                            *)
(****************************************************************************)
EXTENDS DurableWorkflow, RunContractProofs

Phases == Activities \cup {"await_approval", "await_pr", "completed", "failed"}

TaskStates == {"none", "scheduled", "running", "returned", "raised", "refused"}

Inputs == Users \cup PrEvents \cup {Malformed, NoInput}

TaskRecords ==
  [state : TaskStates, attempt : Nat, thread : Workers \cup {NoThread},
   input : Inputs, answer : Runs \cup RunStatuses \cup {NoStatus}]

LateCalls == [at : Activities \cup {"none"}, input : Inputs]

WorkflowTypeOK ==
  /\ at \in Phases
  /\ run \in Runs \cup {NoRun}
  /\ decision \in Decisions \cup {NoDecision}
  /\ task \in TaskRecords

\* The workflow knows its run from the end of intake, and the run exists.
RunIsKnown ==
  /\ run # NoRun => status[run] # NoStatus
  /\ at \notin {"intake_and_plan", "completed", "failed"} => run # NoRun

\* Every activity was asked for with an input that it takes.
InputFits ==
  /\ at \notin Activities => task.state = "none"
  /\ at = "approve" => task.input \in Users
  /\ at = "record_pr" => task.input \in PrEvents \cup {Malformed}

\* The thread of an attempt at an intake is in the intake or dead, and what an
\* intake returned exists.
IntakeAnswers ==
  /\ task.state = "running" =>
       /\ task.thread \in Workers
       /\ worker[task.thread].pc = "intake" => IssueOf[worker[task.thread].run] = Issue
       /\ at = "intake_and_plan" => worker[task.thread].pc \in {"idle", "intake"}
  /\ at = "intake_and_plan" /\ task.state = "returned" =>
       task.answer \in Runs /\ status[task.answer] # NoStatus

\* So was every one that has yet to begin; the thread of the current attempt
\* has none.
HeldFits ==
  /\ held \in [Workers -> LateCalls]
  /\ \A w \in Workers :
       /\ held[w].at = "approve" => held[w].input \in Users
       /\ held[w].at = "record_pr" => held[w].input \in PrEvents \cup {Malformed}
       /\ held[w].at \notin {"none", "intake_and_plan"} => run # NoRun
  /\ task.state = "running" => held[task.thread] = NoCall

WorkflowInv == WorkflowTypeOK /\ RunIsKnown /\ InputFits /\ IntakeAnswers /\ HeldFits
-----------------------------------------------------------------------------
(* The orchestrator under this driver                                        *)

\* dispatch_agent is entered by itself, for a run that exists.
EntersDispatch(w, r) ==
  /\ Free(w)
  /\ status[r] # NoStatus
  /\ Begin(w, "dispatch", r)
  /\ UNCHANGED <<status, ticket, approvers, jobs, lastDiff, outcome, missed,
                 decisions, launched, live>>

\* What a step of the workflow is to the orchestrator.
DriverStep ==
  \/ [Next]_vars
  \/ \E r \in Runs, u \in Users : SignOff(r, u) /\ UNCHANGED worker
  \/ \E w \in Workers, r \in Runs : EntersDispatch(w, r)

LEMMA TypeInvSignOff ==
  ASSUME TypeInv, NEW r \in Runs, NEW u \in Users, SignOff(r, u), UNCHANGED worker
  PROVE  TypeInv'
<1> USE DEF TypeInv
<1>1. worker' \in [Workers -> WorkerStates] /\ BusyWorkersHaveARun'
  BY KeepWorkerType
<1>2. "approved" \in RunStatuses
  BY DEF RunStatuses, ActiveStatuses
<1>3. /\ status' \in [Runs -> RunStatuses \cup {NoStatus}]
      /\ outcome' \in [Runs -> TerminalStatuses \cup {NoStatus}]
      /\ missed' \subseteq Runs
  BY <1>2, SetStatusType, KeepStatusType DEF SignOff
<1>4. approvers' \in [Runs -> SUBSET Users]
  BY DEF SignOff, TypeOK
<1> QED
  BY <1>1, <1>3, <1>4 DEF SignOff, TypeOK

LEMMA TypeInvEnters ==
  ASSUME TypeInv, NEW w \in Workers, NEW r \in Runs, EntersDispatch(w, r)
  PROVE  TypeInv'
<1> USE DEF TypeInv
<1>1. worker' \in [Workers -> WorkerStates] /\ BusyWorkersHaveARun'
  BY BeginType DEF EntersDispatch, WorkerPcs
<1> QED
  BY <1>1 DEF EntersDispatch, TypeOK

LEMMA AuthorityEnters ==
  ASSUME AuthorityInv, NEW w \in Workers, NEW r \in Runs, EntersDispatch(w, r)
  PROVE  AuthorityInv'
<1> DEFINE x == [Idle EXCEPT !.pc = "dispatch", !.run = r]
<1>1. \A q \in Runs : /\ RunFacts(q)'
                      /\ Authorised(q)' <=> Authorised(q)
                      /\ status'[q] = NoStatus <=> status[q] = NoStatus
  BY RestKeepsRunFacts DEF EntersDispatch
<1>2. x \in WorkerStates /\ x.pc = "dispatch" /\ x.run = r
  BY DEF Idle, WorkerStates, WorkerPcs
<1>3. worker' = [worker EXCEPT ![w] = x] /\ status[r] # NoStatus
  BY DEF EntersDispatch, Begin
<1> HIDE DEF x
<1>4. (\A v \in Workers : WorkerFacts(v)') /\ IntakesApart'
  BY <1>1, <1>2, <1>3, WorkersKeepFacts
<1> QED
  BY <1>1, <1>4, TypeInvEnters DEF AuthorityInv

LEMMA AuthorityDriver == AuthorityInv /\ DriverStep => AuthorityInv'
<1> SUFFICES ASSUME AuthorityInv, DriverStep PROVE AuthorityInv'
  OBVIOUS
<1>1. ASSUME NEW r \in Runs, NEW u \in Users, SignOff(r, u), UNCHANGED worker
      PROVE  AuthorityInv'
  <2>1. TypeInv'
    BY <1>1, TypeInvSignOff DEF AuthorityInv
  <2>2. \A q \in Runs : /\ RunFacts(q)'
                        /\ Authorised(q) => Authorised(q)'
                        /\ status'[q] = NoStatus <=> status[q] = NoStatus
    BY <1>1, SignOffKeepsRunFacts
  <2>3. (\A v \in Workers : WorkerFacts(v)') /\ IntakesApart'
    BY <1>1, <2>2, StillKeepsFacts
  <2> QED
    BY <2>1, <2>2, <2>3 DEF AuthorityInv
<1> QED
  BY <1>1, AuthorityEnters, AuthorityNext DEF DriverStep

LEMMA OneActiveDriver ==
  TypeInv /\ OneActiveRunPerIssue /\ DriverStep => OneActiveRunPerIssue'
<1> SUFFICES ASSUME TypeInv, OneActiveRunPerIssue, DriverStep PROVE OneActiveRunPerIssue'
  OBVIOUS
<1>1. ASSUME NEW r \in Runs, NEW u \in Users, SignOff(r, u) PROVE OneActiveRunPerIssue'
  <2>1. status[r] \in ActiveStatuses
    BY <1>1 DEF SignOff, MayApprove, ActiveStatuses
  <2> QED
    BY <1>1, <2>1, SetStatusOneActive, KeepStatusOneActive DEF SignOff, KeepStatus, TypeInv
<1>2. ASSUME NEW w \in Workers, NEW r \in Runs, EntersDispatch(w, r)
      PROVE  OneActiveRunPerIssue'
  BY <1>2, KeepStatusOneActive DEF EntersDispatch
<1> QED
  BY <1>1, <1>2, OneActiveNext DEF DriverStep

LEMMA SettledDriver ==
  ASSUME "provider" \notin Faults
  PROVE  SettledInv /\ DriverStep => SettledInv'
<1> SUFFICES ASSUME SettledInv, DriverStep PROVE SettledInv'
  OBVIOUS
<1>1. AuthorityInv'
  BY AuthorityDriver DEF SettledInv
<1>2. CASE [Next]_vars
  BY <1>2, SettledNext
<1>3. CASE UNCHANGED worker
  BY <1>1, <1>3 DEF SettledInv, NobodyFailed
<1>4. ASSUME NEW w \in Workers, NEW r \in Runs, EntersDispatch(w, r)
      PROVE  NobodyFailed'
  BY <1>4 DEF EntersDispatch, Begin, Idle, SettledInv, NobodyFailed, AuthorityInv,
              TypeInv, TypeOK
<1> QED
  BY <1>1, <1>2, <1>3, <1>4 DEF DriverStep, SettledInv

LEMMA ContractDriver == SettledInv /\ DriverStep => ContractStep
<1> SUFFICES ASSUME SettledInv, DriverStep PROVE ContractStep
  OBVIOUS
<1>1. ASSUME NEW w \in Workers, NEW r \in Runs, EntersDispatch(w, r)
      PROVE  ContractStep
  BY <1>1, ContractStutter DEF EntersDispatch
<1> QED
  BY <1>1, ContractSimulation, ContractSignOff DEF DriverStep, SettledInv

\* A run that exists goes on existing.
LEMMA RunsStay ==
  ASSUME AuthorityInv, DriverStep, NEW q \in Runs, status[q] # NoStatus
  PROVE  status'[q] # NoStatus
<1>1. ASSUME NEW r \in Runs, NEW u \in Users, SignOff(r, u) PROVE status'[q] # NoStatus
  BY <1>1, SignOffKeepsRunFacts
<1>2. ASSUME NEW w \in Workers, NEW r \in Runs, EntersDispatch(w, r)
      PROVE  status'[q] # NoStatus
  BY <1>2 DEF EntersDispatch
<1>3. CASE [Next]_vars
  <2>1. \A s \in {"waiting_approval", "needs_clarification", "approved", "agent_running",
                  "pr_open", "review_required", "complete", "rejected", "blocked",
                  "execution_failed"} : s # NoStatus
    BY DEF NoStatus
  <2>2. ASSUME NEW r \in Runs, Moves(r) \/ FailureMoves(r)
        PROVE  \E s : SetStatus(r, s) /\ s # NoStatus
    BY <2>1, <2>2 DEF Moves, FailureMoves, FailureStatuses
  <2>3. ASSUME NEW r \in Runs, NEW s, SetStatus(r, s), s # NoStatus
        PROVE  status'[q] # NoStatus
    BY <2>3, SetStatusEffect DEF AuthorityInv
  <2> QED
    BY <1>3, <2>2, <2>3, LifecycleStep DEF KeepStatus
<1> QED
  BY <1>1, <1>2, <1>3 DEF DriverStep

\* A signature is not taken back and a finished run stays as it is.
LEMMA RunsOnlyGrow ==
  ASSUME SettledInv, DriverStep, NEW q \in Runs
  PROVE  /\ approvers[q] \subseteq approvers'[q]
         /\ status[q] \in TerminalStatuses => status'[q] = status[q]
<1>t. TypeInv /\ AuthorityInv
  BY DEF SettledInv, AuthorityInv
<1>1. ASSUME NEW r \in Runs, NEW u \in Users, SignOff(r, u)
      PROVE  /\ approvers[q] \subseteq approvers'[q]
             /\ status[q] \in TerminalStatuses => status'[q] = status[q]
  <2>1. approvers[q] \subseteq approvers'[q]
    BY <1>1, <1>t DEF SignOff, TypeInv, TypeOK
  <2>2. status[r] \notin TerminalStatuses
    BY <1>1 DEF SignOff, MayApprove, TerminalStatuses
  <2>3. status'[q] = status[q] \/ q = r
    BY <1>1, <1>t, SetStatusEffect DEF SignOff, KeepStatus
  <2> QED
    BY <2>1, <2>2, <2>3
<1>2. ASSUME NEW w \in Workers, NEW r \in Runs, EntersDispatch(w, r)
      PROVE  UNCHANGED <<approvers, status>>
  BY <1>2 DEF EntersDispatch
<1>3. CASE [Next]_vars
  <2>1. status[q] \in TerminalStatuses => status'[q] = status[q]
    BY <1>3, FinishedStays
  <2>2. UNCHANGED approvers \/ \E r \in Runs, u \in Users : SignOff(r, u)
    BY <1>3
    DEF Next, ServingNext, vars, Call, Approve, IntakeStart, Continue, IntakeInsert, DispatchGate,
        DispatchToProvider, RecordDispatchFailure, RecordDispatch, RecordRemediation, RecordJob,
        Remediate, Crash, Ending, Reject, Stop, Terminate, ExpirePendingApproval,
        ExpirePendingPr, ExpireWait, FailRun, MarkAgentFailed, EndingFrame, RecordPr
  <2> QED
    BY <1>1, <2>1, <2>2
<1> QED
  BY <1>1, <1>2, <1>3 DEF DriverStep
-----------------------------------------------------------------------------
(* The books of the workflow                                                 *)

LEMMA DriverStepOfWorkflow ==
  ASSUME AuthorityInv, WorkflowInv, [WorkflowNext]_durableVars
  PROVE  DriverStep
<1> USE DEF WorkflowInv, WorkflowTypeOK
<1>1. ASSUME NEW w \in Workers, Start(w) PROVE DriverStep
  <2>k. at \notin {"intake_and_plan", "completed", "failed"} =>
          run \in Runs /\ status[run] # NoStatus
    BY DEF RunIsKnown
  <2>1. CASE StartIntake(w)
    <3>1. ASSUME NEW r \in Runs, IntakeStart(w, r) PROVE Next
      BY <3>1 DEF Next, ServingNext, Call
    <3> QED
      BY <2>1, <3>1 DEF StartIntake, DriverStep
  <2>2. CASE StartApprove(w)
    <3>1. at = "approve" /\ task.input \in Users
      BY <2>2 DEF StartApprove, PickUp, InputFits
    <3> QED
      BY <2>2, <2>k, <3>1 DEF StartApprove, Refused, DriverStep
  <2>3. CASE StartDispatch(w)
    <3>1. at = "dispatch_agent"
      BY <2>3 DEF StartDispatch, PickUp
    <3> QED
      BY <2>3, <2>k, <3>1 DEF StartDispatch, EnterDispatch, EntersDispatch, DriverStep
  <2>4. CASE StartTerminate(w)
    <3>1. at \in {"reject", "stop"}
      BY <2>4 DEF StartTerminate, PickUp
    <3>2. Reject(run) \/ Stop(run) \/ UNCHANGED vars
      BY <2>4 DEF StartTerminate, Refused
    <3> QED
      BY <2>k, <3>1, <3>2 DEF Next, ServingNext, Ending, DriverStep
  <2>5. CASE StartRecordPr(w)
    <3>1. at = "record_pr" /\ (task.input \in PrEvents \/ task.input = Malformed)
      BY <2>5 DEF StartRecordPr, PickUp, InputFits
    <3>2. UNCHANGED vars \/ (task.input # Malformed /\ RecordPr(w, run, task.input))
      BY <2>5 DEF StartRecordPr, Refused
    <3> QED
      BY <2>k, <3>1, <3>2 DEF Next, ServingNext, Call, DriverStep
  <2>6. CASE StartExpire(w)
    <3>1. at \in {"expire_approval", "expire_pr"}
      BY <2>6 DEF StartExpire, PickUp
    <3>2. ExpirePendingApproval(run) \/ ExpirePendingPr(run) \/ UNCHANGED vars
      BY <2>6 DEF StartExpire
    <3> QED
      BY <2>k, <3>1, <3>2 DEF Next, ServingNext, Ending, DriverStep
  <2>7. CASE StartFailRun(w)
    <3>1. at = "fail_run"
      BY <2>7 DEF StartFailRun, PickUp
    <3>2. FailRun(run) \/ UNCHANGED vars
      BY <2>7 DEF StartFailRun
    <3> QED
      BY <2>k, <3>1, <3>2 DEF Next, ServingNext, Ending, DriverStep
  <2> QED
    BY <1>1, <2>1, <2>2, <2>3, <2>4, <2>5, <2>6, <2>7 DEF Start
<1>2. ASSUME NEW w \in Workers, ThreadStep(w) \/ ThreadDies(w) PROVE DriverStep
  BY <1>2 DEF ThreadStep, ThreadDies, Next, ServingNext, DriverStep
<1>l. ASSUME NEW w \in Workers, BeginLate(w) PROVE DriverStep
  <2> DEFINE activity == held[w].at
             input == held[w].input
  <2>1. /\ activity = "approve" => input \in Users
        /\ activity = "record_pr" => input \in PrEvents \cup {Malformed}
        /\ activity \notin {"none", "intake_and_plan"} => run \in Runs /\ status[run] # NoStatus
    BY DEF HeldFits, RunIsKnown
  <2>2. ASSUME NEW r \in Runs, IntakeStart(w, r) PROVE Next
    BY <2>2 DEF Next, ServingNext, Call
  <2>3. CASE activity = "approve" /\ SignOff(run, input) /\ UNCHANGED worker
    BY <2>1, <2>3 DEF DriverStep
  <2>4. CASE activity = "dispatch_agent" /\ EnterDispatch(w)
    BY <2>1, <2>4 DEF EnterDispatch, EntersDispatch, DriverStep
  <2>5. CASE activity = "record_pr" /\ input # Malformed /\ RecordPr(w, run, input)
    BY <2>1, <2>5 DEF Next, ServingNext, Call, DriverStep
  <2>6. CASE \/ activity = "reject" /\ Reject(run)
             \/ activity = "stop" /\ Stop(run)
             \/ activity = "expire_approval" /\ ExpirePendingApproval(run)
             \/ activity = "expire_pr" /\ ExpirePendingPr(run)
             \/ activity = "fail_run" /\ FailRun(run)
    <3>1. run \in Runs /\ Ending(run)
      BY <2>1, <2>6 DEF Ending
    <3> QED
      BY <3>1 DEF Next, ServingNext, DriverStep
  <2> HIDE DEF activity, input
  <2>7. CASE UNCHANGED vars
    BY <2>7 DEF DriverStep
  <2> QED
    BY <1>l, <2>2, <2>3, <2>4, <2>5, <2>6, <2>7 DEF BeginLate, DriverStep, activity, input
<1>3. ASSUME \/ AttemptTimesOut \/ AttemptRaised \/ AttemptRefused
             \/ \E w \in Workers : AttemptStalls(w) \/ LateCallDies(w)
             \/ IntakeAnswered \/ ApproveAnswered \/ DispatchAnswered \/ RecordPrAnswered
             \/ EndingAnswered \/ CompensationAnswered
      PROVE  UNCHANGED vars
  BY <1>3 DEF AttemptTimesOut, AttemptStalls, LateCallDies, AttemptRaised, AttemptRefused,
              RetryOrFail, Answered,
              IntakeAnswered, ApproveAnswered, DispatchAnswered, RecordPrAnswered,
              EndingAnswered, CompensationAnswered
<1>4. ASSUME \/ HandleDecision \/ ApprovalWindowCloses \/ PrWindowCloses
             \/ \E e \in PrEvents \cup {Malformed} : HandlePr(e)
             \/ \E d \in Decisions : SubmitDecision(d)
             \/ PrObserved
      PROVE  UNCHANGED vars
  BY <1>4 DEF HandleDecision, ApprovalWindowCloses, PrWindowCloses, HandlePr,
              SubmitDecision, PrObserved
<1>5. CASE UNCHANGED durableVars
  BY <1>5 DEF durableVars, DriverStep
<1> QED
  BY <1>1, <1>2, <1>l, <1>3, <1>4, <1>5 DEF WorkflowNext, Progress, DriverStep

\* Unless an attempt is lost, the calls that have yet to begin get fewer.
LEMMA HeldStays ==
  ASSUME WorkflowInv, run' = run \/ run' # NoRun,
         \A v \in Workers : held'[v] = held[v] \/ held'[v] = NoCall,
         held' \in [Workers -> LateCalls],
         task'.state = "running" => \/ task'.thread = task.thread /\ task.state = "running"
                                    \/ held[task'.thread] = NoCall,
         task'.state = "running" => task'.thread \in Workers
  PROVE  HeldFits'
<1>1. HeldFits
  BY DEF WorkflowInv
<1>2. NoCall.at = "none"
  BY DEF NoCall
<1>3. ASSUME NEW v \in Workers
      PROVE  /\ held'[v].at = "approve" => held'[v].input \in Users
             /\ held'[v].at = "record_pr" => held'[v].input \in PrEvents \cup {Malformed}
             /\ held'[v].at \notin {"none", "intake_and_plan"} => run' # NoRun
  BY <1>1, <1>2 DEF HeldFits
<1>4. task'.state = "running" => held'[task'.thread] = NoCall
  BY <1>1 DEF HeldFits
<1> QED
  BY <1>3, <1>4 DEF HeldFits

\* The call of an attempt that stalls is one that was asked for.
LEMMA HeldGrows ==
  ASSUME WorkflowInv, NEW w \in Workers, AttemptStalls(w), task'.state # "running",
         at \in Activities, run' = run
  PROVE  HeldFits'
<1>1. /\ HeldFits /\ InputFits /\ task.input \in Inputs
      /\ at # "intake_and_plan" => run # NoRun
  BY DEF WorkflowInv, WorkflowTypeOK, TaskRecords, RunIsKnown, Activities
<1> DEFINE c == [at |-> at, input |-> task.input]
<1>2. held' = [held EXCEPT ![w] = c]
  BY DEF AttemptStalls
<1>3. c \in LateCalls /\ c.at = at /\ c.input = task.input
  BY <1>1 DEF LateCalls
<1> HIDE DEF c
<1>4. \A v \in Workers : held'[v] = IF v = w THEN c ELSE held[v]
  BY <1>1, <1>2 DEF HeldFits
<1>5. held' \in [Workers -> LateCalls]
  BY <1>1, <1>2, <1>3 DEF HeldFits
<1>6. ASSUME NEW v \in Workers
      PROVE  /\ held'[v].at = "approve" => held'[v].input \in Users
             /\ held'[v].at = "record_pr" => held'[v].input \in PrEvents \cup {Malformed}
             /\ held'[v].at \notin {"none", "intake_and_plan"} => run' # NoRun
  BY <1>1, <1>3, <1>4 DEF HeldFits, InputFits
<1> QED
  BY <1>5, <1>6 DEF HeldFits

\* The workflow asks for an activity of a run that exists.
LEMMA ExecuteKeeps ==
  ASSUME AuthorityInv, DriverStep, WorkflowInv,
         NEW a \in Activities \ {"intake_and_plan"},
         NEW i \in Inputs,
         Execute(a, i),
         a = "approve" => i \in Users,
         a = "record_pr" => i \in PrEvents \cup {Malformed},
         run' \in Runs, status[run'] # NoStatus, HeldFits',
         decision' \in Decisions \cup {NoDecision}
  PROVE  WorkflowInv'
<1>1. status'[run'] # NoStatus
  BY RunsStay
<1>2. /\ task' = [state |-> "scheduled", attempt |-> 1, thread |-> NoThread,
                  input |-> i, answer |-> NoStatus]
      /\ at' = a
  BY DEF Execute, NoTask
<1>3. task' \in TaskRecords
  BY <1>2 DEF TaskRecords, TaskStates
<1>4. at' \in Phases \ {"intake_and_plan", "completed", "failed"} /\ run' # NoRun
  BY <1>2, LifecycleAssumption DEF Phases, Activities
<1> QED
  BY <1>1, <1>2, <1>3, <1>4
  DEF WorkflowInv, WorkflowTypeOK, RunIsKnown, InputFits, IntakeAnswers

\* The workflow waits, or is over.
LEMMA BecomeKeeps ==
  ASSUME AuthorityInv, DriverStep, WorkflowInv,
         NEW p \in {"await_approval", "await_pr", "completed", "failed"}, Become(p),
         run' \in Runs \cup {NoRun}, run' # NoRun => status[run'] # NoStatus,
         p \in {"await_approval", "await_pr"} => run' # NoRun, HeldFits',
         decision' = decision
  PROVE  WorkflowInv'
<1>1. run' # NoRun => status'[run'] # NoStatus
  BY RunsStay
<1>2. /\ task' = [state |-> "none", attempt |-> 0, thread |-> NoThread,
                  input |-> NoInput, answer |-> NoStatus]
      /\ at' = p
  BY DEF Become, NoTask
<1>3. task' \in TaskRecords
  BY <1>2 DEF TaskRecords, TaskStates, Inputs
<1> QED
  BY <1>1, <1>2, <1>3
  DEF WorkflowInv, WorkflowTypeOK, RunIsKnown, InputFits, IntakeAnswers, Phases

\* The attempt alone moves on.
LEMMA TaskKeeps ==
  ASSUME AuthorityInv, DriverStep, WorkflowInv, UNCHANGED <<at, run>>,
         decision' \in Decisions \cup {NoDecision},
         task' \in TaskRecords, task'.input = task.input, IntakeAnswers', HeldFits',
         at \in Activities \/ task' = task
  PROVE  WorkflowInv'
<1>1. run \in Runs => (status[run] # NoStatus => status'[run] # NoStatus)
  BY RunsStay
<1> QED
  BY <1>1 DEF WorkflowInv, WorkflowTypeOK, RunIsKnown, InputFits

\* One thread takes one step in the call it is in, and never into another.
LEMMA ContinueMoves ==
  ASSUME TypeInv, NEW w \in Workers, Continue(w)
  PROVE  /\ worker[w].pc # "idle"
         /\ \E x : /\ Becomes(w, x)
                   /\ x.pc \notin {"intake", "remediate"}
                   /\ worker[w].pc = "intake" => x.pc = "idle"
                   /\ x.pc # "idle" => x.run = worker[w].run
                   /\ x.retry => worker[w].retry \/ worker[w].pc = "remediate"
<1> USE DEF TypeInv, TypeOK, Becomes
<1> DEFINE Fits(x) ==
      /\ Becomes(w, x)
      /\ x.pc \notin {"intake", "remediate"}
      /\ worker[w].pc = "intake" => x.pc = "idle"
      /\ x.pc # "idle" => x.run = worker[w].run
      /\ x.retry => worker[w].retry \/ worker[w].pc = "remediate"
<1>i. Idle.pc = "idle" /\ Idle.retry = FALSE
  BY DEF Idle
<1>1. ASSUME Release(w)
      PROVE  \E x : Fits(x)
  BY <1>1, <1>i DEF Release
<1>2. ASSUME NEW t \in Tickets, IntakeInsert(w, t)
      PROVE  worker[w].pc = "intake" /\ Release(w)
  BY <1>2 DEF IntakeInsert
<1>3. CASE DispatchGate(w)
  <2>1. CASE Begin(w, "launch", worker[w].run)
    <3> DEFINE x == [Idle EXCEPT !.pc = "launch", !.run = worker[w].run]
    <3>1. Becomes(w, x) /\ x.pc = "launch" /\ x.run = worker[w].run /\ ~x.retry
      BY <2>1 DEF Begin, Idle
    <3>2. worker[w].pc = "dispatch"
      BY <1>3 DEF DispatchGate
    <3> HIDE DEF x
    <3>3. Fits(x)
      BY <3>1, <3>2
    <3> QED
      BY <3>2, <3>3
  <2> QED
    BY <1>1, <1>3, <2>1 DEF DispatchGate
<1>4. CASE DispatchToProvider(w)
  <2> DEFINE x == [worker[w] EXCEPT !.pc = "record", !.job = launched[worker[w].run] + 1]
             y == [worker[w] EXCEPT !.pc = "failed"]
  <2>1. Becomes(w, x) \/ Becomes(w, y)
    BY <1>4 DEF DispatchToProvider
  <2>2. /\ x.pc = "record" /\ x.run = worker[w].run /\ x.retry = worker[w].retry
        /\ y.pc = "failed" /\ y.run = worker[w].run /\ y.retry = worker[w].retry
    BY DEF WorkerStates
  <2>3. worker[w].pc = "launch"
    BY <1>4 DEF DispatchToProvider
  <2> HIDE DEF x, y
  <2>4. Fits(x) \/ Fits(y)
    BY <2>1, <2>2, <2>3
  <2> QED
    BY <2>3, <2>4
<1>5. ASSUME NEW frozen \in FreezeStates, Remediate(w, frozen)
      PROVE  worker[w].pc = "remediate" /\ \E x : Fits(x)
  <2> DEFINE x == [worker[w] EXCEPT !.pc = "launch", !.retry = TRUE]
  <2>1. Release(w) \/ Becomes(w, x)
    BY <1>5 DEF Remediate
  <2>2. x.pc = "launch" /\ x.run = worker[w].run
    BY DEF WorkerStates
  <2>3. worker[w].pc = "remediate"
    BY <1>5 DEF Remediate
  <2> HIDE DEF x
  <2>4. Becomes(w, x) => Fits(x)
    BY <2>2, <2>3
  <2> QED
    BY <1>1, <2>1, <2>3, <2>4
<1>6. ASSUME RecordDispatchFailure(w) \/ RecordDispatch(w) \/ RecordRemediation(w)
      PROVE  worker[w].pc # "idle" /\ Release(w)
  BY <1>6 DEF RecordDispatchFailure, RecordDispatch, RecordRemediation, RecordJob
<1> HIDE DEF TypeInv, TypeOK, Becomes
<1> QED
  BY <1>1, <1>2, <1>3, <1>4, <1>5, <1>6 DEF Continue

\* What the last step of a thread returns is a run of the ticket or a status.
LEMMA LastAnswerType ==
  ASSUME AuthorityInv, TypeInv', NEW w \in Workers, Continue(w),
         worker[w].pc = "intake" => IssueOf[worker[w].run] = Issue
  PROVE  /\ LastAnswer(w) \in Runs \cup RunStatuses \cup {NoStatus}
         /\ worker[w].pc = "intake" =>
              LastAnswer(w) \in Runs /\ status'[LastAnswer(w)] # NoStatus
<1> USE DEF AuthorityInv
<1> DEFINE r == worker[w].run
<1>1. r \in Runs
  BY ContinueMoves DEF TypeInv, BusyWorkersHaveARun
<1>2. status'[r] \in RunStatuses \cup {NoStatus}
  BY <1>1 DEF TypeInv, TypeOK
<1>3. CASE worker[w].pc # "intake"
  BY <1>2, <1>3 DEF LastAnswer
<1>4. CASE worker[w].pc = "intake" /\ status'[r] # NoStatus
  BY <1>1, <1>4 DEF LastAnswer
<1>5. CASE worker[w].pc = "intake" /\ status'[r] = NoStatus
  <2> PICK t \in Tickets : IntakeInsert(w, t)
    BY <1>5 DEF Continue, DispatchGate, DispatchToProvider, RecordDispatchFailure,
                RecordDispatch, Remediate, RecordRemediation
  <2> DEFINE s == PostPlanStatus(t)
  <2>1. s # NoStatus
    BY DEF PostPlanStatus, NoStatus
  <2>2. ~IndexAllows(r, s) /\ status' = status
    <3>1. SetStatus(r, s) => status'[r] = s
      BY <1>1, SetStatusEffect
    <3> QED
      BY <1>5, <2>1, <3>1 DEF IntakeInsert, KeepStatus
  <2>3. \E q : q \in ActiveRunsOf(Issue)
    BY <1>5, <2>2 DEF IndexAllows
  <2> DEFINE a == CHOOSE q \in ActiveRunsOf(Issue) : TRUE
  <2>4. a \in ActiveRunsOf(Issue)
    BY <2>3
  <2>5. LastAnswer(w) = a
    BY <1>5 DEF LastAnswer
  <2> HIDE DEF a
  <2>6. a \in Runs /\ status'[a] # NoStatus
    BY <2>2, <2>4 DEF ActiveRunsOf, ActiveStatuses, NoStatus
  <2> QED
    BY <2>5, <2>6
<1> QED
  BY <1>3, <1>4, <1>5

LEMMA WorkflowStart ==
  ASSUME AuthorityInv, AuthorityInv', DriverStep, WorkflowInv, NEW w \in Workers, Start(w)
  PROVE  WorkflowInv'
<1>f. /\ UNCHANGED <<at, run, decision, held>>
      /\ task.state = "scheduled"
      /\ at \in Activities
      /\ Free(w) /\ held[w] = NoCall
  BY DEF Start, StartIntake, StartApprove, StartDispatch, StartTerminate, StartRecordPr,
         StartExpire, StartFailRun, PickUp, Activities
<1>k. at # "intake_and_plan" => run \in Runs
  BY <1>f DEF WorkflowInv, WorkflowTypeOK, RunIsKnown, Activities
<1>t. task \in TaskRecords /\ decision' \in Decisions \cup {NoDecision}
  BY <1>f DEF WorkflowInv, WorkflowTypeOK
<1>h. (task'.state = "running" => task'.thread = w) => HeldFits'
  BY <1>f, HeldStays DEF WorkflowInv, HeldFits
<1>1. ASSUME Running(w),
             worker'[w].pc # "intake",
             at # "intake_and_plan"
      PROVE  WorkflowInv'
  <2>1. task' \in TaskRecords /\ task'.input = task.input
        /\ task'.state = "running" /\ task'.thread = w
    BY <1>1, <1>t DEF Running, TaskRecords, TaskStates
  <2> QED
    BY <1>1, <1>f, <1>t, <1>h, <2>1, TaskKeeps DEF IntakeAnswers
<1>2. ASSUME NEW a \in Runs \cup RunStatuses \cup {NoStatus}, Returned(a),
             at = "intake_and_plan" => a \in Runs /\ status'[a] # NoStatus
      PROVE  WorkflowInv'
  <2>1. task' \in TaskRecords /\ task'.input = task.input
        /\ task'.state = "returned" /\ task'.answer = a
    BY <1>2, <1>t DEF Returned, TaskRecords, TaskStates
  <2> QED
    BY <1>2, <1>f, <1>t, <1>h, <2>1, TaskKeeps DEF IntakeAnswers
<1>3. ASSUME Refused PROVE WorkflowInv'
  <2>1. task' \in TaskRecords /\ task'.input = task.input /\ task'.state = "refused"
    BY <1>3, <1>t DEF Refused, TaskRecords, TaskStates
  <2> QED
    BY <1>f, <1>t, <1>h, <2>1, TaskKeeps DEF IntakeAnswers
<1>4. at # "intake_and_plan" => status'[run] \in RunStatuses \cup {NoStatus}
  BY <1>k DEF AuthorityInv, TypeInv, TypeOK
<1>5. CASE StartIntake(w)
  <2>1. ASSUME NEW r \in Runs, IssueOf[r] = Issue, IntakeStart(w, r), Running(w)
        PROVE  WorkflowInv'
    <3>1. worker'[w] = [Idle EXCEPT !.pc = "intake", !.run = r]
      BY <2>1 DEF IntakeStart, Begin, AuthorityInv, TypeInv, TypeOK
    <3>2. worker'[w].pc = "intake" /\ worker'[w].run = r
      BY <3>1 DEF Idle
    <3>3. task' \in TaskRecords /\ task'.input = task.input
          /\ task'.state = "running" /\ task'.thread = w
      BY <2>1, <1>t DEF Running, TaskRecords, TaskStates
    <3>4. IntakeAnswers'
      BY <2>1, <3>2, <3>3 DEF IntakeAnswers
    <3> QED
      BY <1>f, <1>t, <1>h, <3>3, <3>4, TaskKeeps
  <2>2. ASSUME NEW r \in ActiveRunsOf(Issue), Returned(r), UNCHANGED vars
        PROVE  WorkflowInv'
    <3>1. r \in Runs /\ status'[r] # NoStatus
      BY <2>2 DEF ActiveRunsOf, ActiveStatuses, NoStatus, vars
    <3> QED
      BY <1>2, <2>2, <3>1
  <2> QED
    BY <1>5, <2>1, <2>2 DEF StartIntake
<1>6. CASE StartApprove(w)
  BY <1>2, <1>3, <1>6 DEF StartApprove, PickUp
<1>7. CASE StartDispatch(w)
  <2>1. worker'[w].pc = "dispatch" /\ at # "intake_and_plan" /\ Running(w)
    BY <1>7 DEF StartDispatch, EnterDispatch, PickUp, Begin, Idle, AuthorityInv, TypeInv, TypeOK
  <2> QED
    BY <1>1, <2>1
<1>8. CASE StartTerminate(w)
  BY <1>2, <1>3, <1>8 DEF StartTerminate, PickUp
<1>9. CASE StartRecordPr(w)
  <2>1. at # "intake_and_plan"
    BY <1>9 DEF StartRecordPr, PickUp
  <2>2. ASSUME RecordPr(w, run, task.input) PROVE worker'[w].pc # "intake"
    <3>1. w \in DOMAIN worker
      BY DEF AuthorityInv, TypeInv, TypeOK
    <3>2. Begin(w, "remediate", run) => worker'[w].pc = "remediate"
      BY <3>1 DEF Begin, Idle
    <3>3. worker[w].pc = "idle"
      BY <1>f DEF Free
    <3> QED
      BY <2>2, <3>2, <3>3 DEF RecordPr
  <2>3. \/ Refused
        \/ RecordPr(w, run, task.input) /\ (Returned(status'[run]) \/ Running(w))
    BY <1>9 DEF StartRecordPr
  <2> QED
    BY <1>1, <1>2, <1>3, <1>4, <2>1, <2>2, <2>3
<1>10. CASE StartExpire(w) \/ StartFailRun(w)
  <2>1. at # "intake_and_plan" /\ Returned(status'[run])
    BY <1>10 DEF StartExpire, StartFailRun, PickUp
  <2> QED
    BY <1>2, <1>4, <2>1
<1> QED
  BY <1>5, <1>6, <1>7, <1>8, <1>9, <1>10 DEF Start

LEMMA WorkflowThread ==
  ASSUME AuthorityInv, AuthorityInv', DriverStep, WorkflowInv, NEW w \in Workers,
         ThreadStep(w) \/ ThreadDies(w)
  PROVE  WorkflowInv'
<1>f. UNCHANGED <<at, run, decision, held>> /\ decision' \in Decisions \cup {NoDecision}
  BY DEF ThreadStep, ThreadDies, workflowVars, WorkflowInv, WorkflowTypeOK
<1>t. task \in TaskRecords
  BY DEF WorkflowInv, WorkflowTypeOK
<1>a. task.state = "running" => at \in Activities
  BY DEF WorkflowInv, InputFits
<1>h. task' = task \/ task'.state # "running" => HeldFits'
  BY <1>f, HeldStays DEF WorkflowInv, HeldFits, IntakeAnswers
<1>s. \A q \in Runs : status[q] # NoStatus => status'[q] # NoStatus
  BY RunsStay
<1>1. ASSUME NEW x, Becomes(w, x), x.pc # "intake",
             worker[w].pc \in {"idle", "intake"} => x.pc = "idle", UNCHANGED task
      PROVE  WorkflowInv'
  <2>1. \A v \in Workers : worker'[v] = IF v = w THEN x ELSE worker[v]
    BY <1>1 DEF Becomes, AuthorityInv, TypeInv, TypeOK
  <2>2. IntakeAnswers
    BY DEF WorkflowInv
  <2>3. IntakeAnswers'
    BY <1>1, <1>f, <1>s, <2>1, <2>2 DEF IntakeAnswers
  <2> QED
    BY <1>1, <1>f, <1>t, <1>h, <2>3, TaskKeeps
<1>2. CASE ThreadDies(w)
  <2>1. Becomes(w, Idle) /\ Idle.pc = "idle" /\ UNCHANGED task
    BY <1>2 DEF ThreadDies, workflowVars, Crash, Release, Becomes, Idle
  <2> QED
    BY <1>1, <2>1
<1>3. CASE ThreadStep(w) /\ UNCHANGED task
  <2>1. Continue(w)
    BY <1>3 DEF ThreadStep
  <2> QED
    BY <1>1, <1>3, <2>1, ContinueMoves DEF AuthorityInv
<1>4. CASE /\ ThreadStep(w)
           /\ task.thread = w /\ task.state = "running"
           /\ task' = [task EXCEPT !.state = "raised"]
  <2>1. task' \in TaskRecords /\ task'.input = task.input /\ task'.state = "raised"
    BY <1>4, <1>t DEF TaskRecords, TaskStates
  <2> QED
    BY <1>4, <1>f, <1>t, <1>h, <1>a, <2>1, TaskKeeps DEF IntakeAnswers
<1>5. CASE /\ ThreadStep(w)
           /\ task.thread = w /\ task.state = "running"
           /\ Returned(LastAnswer(w))
  <2>1. /\ Continue(w)
        /\ worker[w].pc = "intake" => IssueOf[worker[w].run] = Issue
        /\ at = "intake_and_plan" => worker[w].pc \in {"idle", "intake"}
    BY <1>5 DEF ThreadStep, WorkflowInv, IntakeAnswers
  <2>2. worker[w].pc # "idle"
    BY <2>1, ContinueMoves DEF AuthorityInv
  <2>3. /\ LastAnswer(w) \in Runs \cup RunStatuses \cup {NoStatus}
        /\ at = "intake_and_plan" =>
             LastAnswer(w) \in Runs /\ status'[LastAnswer(w)] # NoStatus
    BY <2>1, <2>2, LastAnswerType DEF AuthorityInv
  <2>4. /\ task' \in TaskRecords /\ task'.input = task.input
        /\ task'.state = "returned" /\ task'.answer = LastAnswer(w)
    BY <1>5, <1>t, <2>3 DEF Returned, TaskRecords, TaskStates
  <2> QED
    BY <1>5, <1>f, <1>t, <1>h, <1>a, <2>3, <2>4, TaskKeeps DEF IntakeAnswers
<1> QED
  BY <1>2, <1>3, <1>4, <1>5 DEF ThreadStep

\* A call that was given up for lost begins, or never will.
LEMMA WorkflowLate ==
  ASSUME AuthorityInv, AuthorityInv', DriverStep, WorkflowInv, NEW w \in Workers,
         BeginLate(w) \/ LateCallDies(w)
  PROVE  WorkflowInv'
<1>f. /\ UNCHANGED <<at, run, decision, task>> /\ decision' \in Decisions \cup {NoDecision}
      /\ held[w] # NoCall /\ held' = [held EXCEPT ![w] = NoCall]
  BY DEF BeginLate, LateCallDies, WorkflowInv, WorkflowTypeOK
<1>t. /\ task \in TaskRecords /\ IntakeAnswers /\ HeldFits
      /\ task.state = "running" => task.thread \in Workers /\ task.thread # w
  BY <1>f DEF WorkflowInv, WorkflowTypeOK, IntakeAnswers, HeldFits
<1>1. HeldFits'
  <2>1. NoCall \in LateCalls
    BY DEF NoCall, LateCalls, Inputs
  <2>2. /\ held' \in [Workers -> LateCalls]
        /\ \A v \in Workers : held'[v] = held[v] \/ held'[v] = NoCall
    BY <1>f, <1>t, <2>1 DEF HeldFits
  <2> QED
    BY <1>f, <1>t, <2>2, HeldStays
<1>2. \A v \in Workers : v # w => worker'[v] = worker[v]
  <2>1. worker \in [Workers -> WorkerStates]
    BY DEF AuthorityInv, TypeInv, TypeOK
  <2>2. UNCHANGED worker \/ \E x : worker' = [worker EXCEPT ![w] = x]
    BY DEF BeginLate, LateCallDies, vars, IntakeStart, EnterDispatch, Begin, RecordPr, Reject,
           Stop, Terminate, ExpirePendingApproval, ExpirePendingPr, ExpireWait, FailRun,
           EndingFrame
  <2> QED
    BY <2>1, <2>2
<1>3. IntakeAnswers'
  <2>1. \A q \in Runs : status[q] # NoStatus => status'[q] # NoStatus
    BY RunsStay
  <2> QED
    BY <1>f, <1>t, <1>2, <2>1 DEF IntakeAnswers
<1> QED
  BY <1>f, <1>t, <1>1, <1>3, TaskKeeps

LEMMA ActivityFailsKeeps ==
  ASSUME AuthorityInv, DriverStep, WorkflowInv, ActivityFails, UNCHANGED <<run, decision>>,
         HeldFits'
  PROVE  WorkflowInv'
<1> USE DEF WorkflowInv, WorkflowTypeOK, RunIsKnown
<1>1. CASE Execute("fail_run", NoInput) /\ run # NoRun
  BY <1>1, ExecuteKeeps DEF Activities, Inputs
<1>2. CASE Become("failed")
  BY <1>2, BecomeKeeps
<1> QED
  BY <1>1, <1>2 DEF ActivityFails

LEMMA WorkflowVerdict ==
  ASSUME AuthorityInv, DriverStep, WorkflowInv,
         \/ AttemptTimesOut \/ AttemptRaised \/ AttemptRefused
         \/ \E w \in Workers : AttemptStalls(w)
  PROVE  WorkflowInv'
<1>t. task \in TaskRecords /\ held \in [Workers -> LateCalls]
  BY DEF WorkflowInv, WorkflowTypeOK, HeldFits
<1>f. ActivityFails => task'.state # "running"
  <2>1. Execute("fail_run", NoInput) => task'.state # "running"
    BY DEF Execute, NoTask
  <2>2. Become("failed") => task'.state # "running"
    BY DEF Become, NoTask
  <2> QED
    BY <2>1, <2>2 DEF ActivityFails
<1>5. task.state # "none" => at \in Activities
  BY DEF WorkflowInv, InputFits
<1>1. CASE AttemptRefused
  <2>1. HeldFits'
    BY <1>1, <1>t, <1>f, HeldStays DEF AttemptRefused
  <2> QED
    BY <1>1, <2>1, ActivityFailsKeeps DEF AttemptRefused
<1>2. ASSUME RetryOrFail, at \in Activities,
             task'.state # "running" => HeldFits'
      PROVE  WorkflowInv'
  <2>1. UNCHANGED <<run, decision>> /\ decision' \in Decisions \cup {NoDecision}
    BY <1>2 DEF RetryOrFail, WorkflowInv, WorkflowTypeOK
  <2>2. CASE /\ task' = [task EXCEPT !.state = "scheduled", !.attempt = @ + 1,
                                     !.thread = NoThread, !.answer = NoStatus]
             /\ UNCHANGED at
    <3> DEFINE n == task.attempt + 1
    <3>n. n \in Nat /\ task' = [task EXCEPT !.state = "scheduled", !.attempt = n,
                                       !.thread = NoThread, !.answer = NoStatus]
      BY <2>2, <1>t DEF TaskRecords
    <3> HIDE DEF n
    <3>2. task' \in TaskRecords /\ task'.input = task.input /\ task'.state = "scheduled"
      BY <1>t, <3>n DEF TaskRecords, TaskStates
    <3> QED
      BY <1>2, <2>1, <2>2, <3>2, TaskKeeps DEF IntakeAnswers
  <2> QED
    BY <1>2, <1>f, <2>1, <2>2, ActivityFailsKeeps DEF RetryOrFail
<1>3. CASE AttemptTimesOut \/ AttemptRaised
  <2>1. RetryOrFail /\ UNCHANGED <<run, held>> /\ at \in Activities
    BY <1>3, <1>5 DEF AttemptTimesOut, AttemptRaised, RetryOrFail
  <2>2. task'.state # "running" => HeldFits'
    BY <1>t, <2>1, HeldStays
  <2> QED
    BY <1>2, <2>1, <2>2
<1>4. ASSUME NEW w \in Workers, AttemptStalls(w), at \in Activities PROVE WorkflowInv'
  <2>1. RetryOrFail /\ UNCHANGED run
    BY <1>4 DEF AttemptStalls, RetryOrFail
  <2>2. task'.state # "running" => HeldFits'
    BY <1>4, <2>1, HeldGrows
  <2> QED
    BY <1>2, <1>4, <2>1, <2>2
<1> QED
  BY <1>1, <1>3, <1>4, <1>5 DEF AttemptStalls

LEMMA WorkflowAnswered ==
  ASSUME AuthorityInv, DriverStep, WorkflowInv,
         \/ IntakeAnswered \/ ApproveAnswered \/ DispatchAnswered \/ RecordPrAnswered
         \/ EndingAnswered \/ CompensationAnswered
  PROVE  WorkflowInv'
<1>k. /\ run \in Runs \cup {NoRun}
      /\ run # NoRun => status[run] # NoStatus
      /\ at \notin {"intake_and_plan", "completed", "failed"} => run # NoRun
      /\ decision \in Decisions \cup {NoDecision}
  BY DEF WorkflowInv, WorkflowTypeOK, RunIsKnown
<1>h. ASSUME UNCHANGED held, task'.state # "running", run' = run \/ run' # NoRun
      PROVE  HeldFits'
  BY <1>h, HeldStays DEF WorkflowInv, HeldFits
<1>b. \A p : Become(p) => task'.state # "running"
  BY DEF Become, NoTask
<1>e. \A a, i : Execute(a, i) => task'.state # "running"
  BY DEF Execute, NoTask
<1>u. NoInput \in Inputs /\ Users \subseteq Inputs /\ PrEvents \cup {Malformed} \subseteq Inputs
  BY DEF Inputs
<1>1. CASE IntakeAnswered
  <2>1. task.answer \in Runs /\ status[task.answer] # NoStatus
    BY <1>1 DEF IntakeAnswered, Answered, WorkflowInv, IntakeAnswers
  <2>2. run' = task.answer /\ run' # NoRun /\ decision' = decision /\ held' = held
    BY <1>1, <2>1, LifecycleAssumption DEF IntakeAnswered, Answered
  <2>3. Become("await_approval") \/ Become("completed")
    BY <1>1 DEF IntakeAnswered
  <2> QED
    BY <1>h, <1>b, <2>1, <2>2, <2>3, BecomeKeeps
<1>2. CASE ApproveAnswered
  <2>1. /\ Execute("dispatch_agent", NoInput)
        /\ run' = run /\ run # NoRun /\ decision' = decision /\ held' = held
    BY <1>2, <1>k DEF ApproveAnswered, Answered
  <2> QED
    BY <1>k, <2>1, <1>h, <1>e, <1>u, ExecuteKeeps DEF Activities
<1>3. CASE DispatchAnswered \/ RecordPrAnswered \/ EndingAnswered \/ CompensationAnswered
  <2>1. \E p \in {"await_pr", "completed", "failed"} : Become(p)
    BY <1>3 DEF DispatchAnswered, RecordPrAnswered, EndingAnswered, CompensationAnswered
  <2>2. run' = run /\ run # NoRun /\ decision' = decision /\ held' = held
    BY <1>3, <1>k
    DEF DispatchAnswered, RecordPrAnswered, EndingAnswered, CompensationAnswered, Answered
  <2> QED
    BY <1>k, <1>h, <1>b, <2>1, <2>2, BecomeKeeps
<1> QED
  BY <1>1, <1>2, <1>3

LEMMA WorkflowWaits ==
  ASSUME AuthorityInv, DriverStep, WorkflowInv,
         \/ HandleDecision \/ ApprovalWindowCloses \/ PrWindowCloses
         \/ \E e \in PrEvents \cup {Malformed} : HandlePr(e)
         \/ \E d \in Decisions : SubmitDecision(d)
         \/ PrObserved
         \/ UNCHANGED durableVars
  PROVE  WorkflowInv'
<1>k. /\ run \in Runs \cup {NoRun}
      /\ run # NoRun => status[run] # NoStatus
      /\ at \notin {"intake_and_plan", "completed", "failed"} => run # NoRun
      /\ decision \in Decisions \cup {NoDecision}
  BY DEF WorkflowInv, WorkflowTypeOK, RunIsKnown
<1>h. ASSUME UNCHANGED <<held, run>>, task'.state # "running" \/ task' = task PROVE HeldFits'
  BY <1>h, HeldStays DEF WorkflowInv, HeldFits, IntakeAnswers
<1>b. \A p : Become(p) => task'.state # "running"
  BY DEF Become, NoTask
<1>e. \A a, i : Execute(a, i) => task'.state # "running"
  BY DEF Execute, NoTask
<1>u. NoInput \in Inputs /\ Users \subseteq Inputs /\ PrEvents \cup {Malformed} \subseteq Inputs
  BY DEF Inputs
<1>1. CASE HandleDecision
  <2>1. /\ Execute(decision.verb, decision.user)
        /\ decision \in Decisions
        /\ run' = run /\ run # NoRun /\ decision' = decision /\ held' = held
    BY <1>1, <1>k DEF HandleDecision
  <2>2. /\ decision.verb \in {"approve", "reject", "stop"}
        /\ decision.user \in Users \cup {NoInput}
        /\ decision.verb = "approve" => decision.user \in Users
    BY <2>1 DEF Decisions
  <2> QED
    BY <1>k, <2>1, <2>2, <1>h, <1>e, <1>u, ExecuteKeeps DEF Activities
<1>2. CASE ApprovalWindowCloses
  <2>1. /\ Execute("expire_approval", NoInput)
        /\ run' = run /\ run # NoRun /\ decision' = decision /\ held' = held
    BY <1>2, <1>k DEF ApprovalWindowCloses
  <2> QED
    BY <1>k, <2>1, <1>h, <1>e, <1>u, ExecuteKeeps DEF Activities
<1>3. CASE PrWindowCloses
  <2>1. /\ Execute("expire_pr", NoInput) \/ Become("completed")
        /\ run' = run /\ run # NoRun /\ decision' = decision /\ held' = held
    BY <1>3, <1>k DEF PrWindowCloses
  <2> QED
    BY <1>k, <2>1, <1>h, <1>b, <1>e, <1>u, ExecuteKeeps, BecomeKeeps DEF Activities
<1>4. ASSUME NEW e \in PrEvents \cup {Malformed}, HandlePr(e) PROVE WorkflowInv'
  <2>1. /\ Execute("record_pr", e)
        /\ run' = run /\ run # NoRun /\ decision' = decision /\ held' = held
    BY <1>4, <1>k DEF HandlePr
  <2> QED
    BY <1>k, <2>1, <1>h, <1>e, <1>u, ExecuteKeeps DEF Activities
<1>5. CASE (\E d \in Decisions : SubmitDecision(d)) \/ PrObserved \/ UNCHANGED durableVars
  <2>1. /\ UNCHANGED <<status, worker, at, run, task, held>>
        /\ decision' \in Decisions \cup {NoDecision}
    BY <1>5, <1>k DEF SubmitDecision, PrObserved, durableVars, workflowVars, vars
  <2> QED
    BY <1>h, <2>1, TaskKeeps DEF WorkflowInv, WorkflowTypeOK, IntakeAnswers
<1> QED
  BY <1>1, <1>2, <1>3, <1>4, <1>5

-----------------------------------------------------------------------------
(* The promises of the orchestrator                                          *)

DurableInv == AuthorityInv /\ OneActiveRunPerIssue /\ WorkflowInv

LEMMA DurableInit == WorkflowInit => DurableInv
<1> SUFFICES ASSUME WorkflowInit PROVE DurableInv
  OBVIOUS
<1>1. AuthorityInv /\ OneActiveRunPerIssue
  BY AuthorityInit
  DEF WorkflowInit, Init, OneActiveRunPerIssue, ActiveStatuses, NoStatus
<1>2. task = [state |-> "scheduled", attempt |-> 1, thread |-> NoThread,
              input |-> NoInput, answer |-> NoStatus]
  BY DEF WorkflowInit, NoTask
<1>3. task \in TaskRecords /\ NoCall \in LateCalls /\ NoCall.at = "none"
  BY <1>2 DEF TaskRecords, TaskStates, NoCall, LateCalls, Inputs
<1>5. held = [w \in Workers |-> NoCall]
  BY DEF WorkflowInit
<1>6. HeldFits
  BY <1>2, <1>3, <1>5 DEF HeldFits
<1>4. WorkflowInv
  BY <1>2, <1>3, <1>6
  DEF WorkflowInit, WorkflowInv, WorkflowTypeOK, RunIsKnown, InputFits, IntakeAnswers,
      Phases, Activities
<1> QED
  BY <1>1, <1>4 DEF DurableInv

\* A step of the workflow keeps its books, and is one that the orchestrator
\* may take.
LEMMA DurableNext ==
  DurableInv /\ [WorkflowNext]_durableVars => DurableInv' /\ DriverStep
<1> SUFFICES ASSUME DurableInv, [WorkflowNext]_durableVars
             PROVE  DurableInv' /\ DriverStep
  OBVIOUS
<1> USE DEF DurableInv
<1>1. DriverStep
  BY DriverStepOfWorkflow
<1>2. AuthorityInv' /\ OneActiveRunPerIssue'
  BY <1>1, AuthorityDriver, OneActiveDriver DEF AuthorityInv
<1>3. WorkflowInv'
  BY <1>1, <1>2, WorkflowStart, WorkflowThread, WorkflowLate, WorkflowVerdict,
     WorkflowAnswered, WorkflowWaits
  DEF WorkflowNext, Progress
<1> QED
  BY <1>1, <1>2, <1>3

\* The human gate and the one active run per issue under the durable driver:
\* no retry, no overlapping attempt, no lost answer and no dead worker gets an
\* agent launched without its quorum, or a second run of a ticket started.
THEOREM DurableKeepsThePromises == DurableSpec => []LaunchAuthorised /\ []OneActiveRunPerIssue
<1>1. AuthorityInv => LaunchAuthorised
  BY DEF AuthorityInv, RunFacts, LaunchAuthorised
<1>2. DurableInv => LaunchAuthorised /\ OneActiveRunPerIssue
  BY <1>1 DEF DurableInv
<1>3. DurableInv /\ [WorkflowNext]_durableVars => DurableInv'
  BY DurableNext
<1> QED
  BY <1>2, <1>3, DurableInit, PTL DEF DurableSpec

\* The durable driver takes a run through the documented lifecycle and no
\* other way, as long as no provider call raises: the refinement of
\* RunContractProofs holds of every step the workflow makes.
THEOREM DurableImplementsContract ==
  ASSUME "provider" \notin Faults
  PROVE  DurableSpec => WorkflowImplementsContract
<1>1. DurableInv /\ SettledInv /\ [WorkflowNext]_durableVars => DurableInv' /\ SettledInv'
  BY DurableNext, SettledDriver
<1>2. DurableInv /\ SettledInv /\ [WorkflowNext]_durableVars =>
        [Contract!ContractNext]_(Contract!contractVars)
  BY DurableNext, ContractDriver DEF ContractStep
<1>3. WorkflowInit => SettledInv /\ Contract!ContractInit
  BY SettledInit, ContractInitially DEF WorkflowInit
<1> QED
  BY <1>1, <1>2, <1>3, DurableInit, PTL
  DEF DurableSpec, WorkflowImplementsContract, Contract!Spec
-----------------------------------------------------------------------------
(* What each phase of the workflow knows of its run                          *)

\* One of the two things a run may still be waiting for at the end: people.
PartlySigned(r) ==
  /\ status[r] = "waiting_approval"
  /\ Cardinality(approvers[r]) \in 1..(MinApprovalsFor(ticket[r]) - 1)

\* What the workflow believes of its run, and what has become of it since: an
\* attempt given up for lost may only change how its pull request stands.
StillTrue(believed, s) == believed = s \/ {believed, s} \subseteq PrObservableStatuses

BeforeDispatch ==
  {"intake_and_plan", "await_approval", "approve", "reject", "stop", "expire_approval"}

Compensating == {"fail_run", "failed"}

\* An event that leaves an observed run observed: it does not validate, or it
\* neither ends the pull request nor breaks a guardrail that blocks.
Harmless(e) ==
  e = Malformed \/ (e.state \notin {"merged", "closed"} /\ e.diff # "forbidden")

OnlyIntakes == \A w \in Workers : worker[w].pc \in {"idle", "intake"} /\ ~worker[w].retry

NoRetries == \A w \in Workers : worker[w].pc # "remediate" /\ ~worker[w].retry

\* Only three activities outlive their first transaction; their thread works
\* on the run of the workflow.
TaskFacts ==
  /\ at \notin Activities => task.state = "none"
  /\ task.state = "running" => at \in {"intake_and_plan", "dispatch_agent", "record_pr"}
  /\ at \in {"dispatch_agent", "record_pr"} /\ task.state = "running" =>
       /\ worker[task.thread].pc # "intake"
       /\ worker[task.thread].pc # "idle" => worker[task.thread].run = run

BeforeApproval ==
  /\ at = "intake_and_plan" =>
       \A r \in Runs : status[r] \in {NoStatus, "waiting_approval",
                                      "needs_clarification", "blocked"}
  /\ at = "await_approval" => status[run] = "waiting_approval"
  /\ at \in {"reject", "stop", "expire_approval"} =>
       status[run] \in {"waiting_approval"} \cup TerminalStatuses
  /\ at \in {"intake_and_plan", "await_approval", "approve", "reject", "stop",
             "expire_approval"} => OnlyIntakes

AfterApproval ==
  /\ at = "approve" =>
       /\ status[run] \in {"waiting_approval", "approved"}
       /\ task.state = "returned" =>
            /\ task.input \in approvers[run]
            /\ status[run] = "approved" \/ PartlySigned(run)
  /\ at = "dispatch_agent" =>
       /\ NoRetries
       /\ \/ PartlySigned(run)
          \/ status[run] \in {"approved", "agent_running"} \cup TerminalStatuses
       /\ task.state = "returned" => status[run] # "approved"

AfterDispatch ==
  /\ at = "await_pr" =>
       /\ known \in PrObservableStatuses
       /\ StillTrue(known, status[run])
       /\ processed = 0 => status[run] = "agent_running"
  /\ at = "record_pr" =>
       /\ processed > 0
       /\ status[run] \in PrObservableStatuses \cup TerminalStatuses
       /\ task.state = "returned" => StillTrue(task.answer, status[run])
       /\ \/ task.state = "running"
          \/ task.state = "returned" /\ task.answer \in PrObservableStatuses
          => Harmless(task.input)
  /\ at = "expire_pr" => status[run] \in {"agent_running"} \cup TerminalStatuses

\* The calls that end a run have ended it when they return.
EndingsEnd ==
  at \in {"reject", "stop", "expire_approval", "expire_pr", "fail_run"}
  /\ task.state = "returned" =>
    /\ status[run] \in TerminalStatuses
    /\ at \in {"expire_approval", "expire_pr", "fail_run"} => task.answer = status[run]

\* What a closed workflow says of its run, and an open one not yet.
Closing ==
  /\ Open => known \notin TerminalStatuses
  /\ at = "failed" /\ run # NoRun => known \notin TerminalStatuses \/ known = status[run]
  /\ at = "completed" =>
       /\ run # NoRun
       /\ StillTrue(known, status[run])
       /\ \/ status[run] \in TerminalStatuses
          \/ PartlySigned(run)
          \/ status[run] \in PrObservableStatuses /\ processed > 0

\* Pull request events are looked at after dispatch and before any expiry.
EventsComeLast ==
  /\ processed \in Nat
  /\ at \in BeforeDispatch \cup {"dispatch_agent", "expire_pr"} => processed = 0

StageFacts ==
  /\ EventsComeLast
  /\ TaskFacts
  /\ BeforeApproval
  /\ AfterApproval
  /\ AfterDispatch
  /\ EndingsEnd
  /\ Closing

\* A call that has yet to begin is of the activity at hand, or of one that was
\* answered since.  What the answer tells of the run leaves the call nothing
\* to do: the signature is there, the run is over, the event was harmless.
LateCallFits(c) ==
  /\ at \in BeforeDispatch => c.at \in {"none", "intake_and_plan", at}
  /\ c.at = "approve" =>
       \/ at = "approve" /\ c.input = task.input
       \/ c.input \in approvers[run]
       \/ at \in Compensating
  /\ c.at \in {"reject", "stop", "expire_approval", "expire_pr", "fail_run"} =>
       \/ at \in {c.at} \cup Compensating
       \/ status[run] \in TerminalStatuses
  /\ c.at = "record_pr" =>
       /\ processed > 0
       /\ \/ Harmless(c.input)
          \/ at = "record_pr" /\ c.input = task.input
          \/ at \in Compensating
          \/ status[run] \in TerminalStatuses

HeldFacts == \A w \in Workers, c \in LateCalls : held[w] = c => LateCallFits(c)

PhaseFacts == StageFacts /\ HeldFacts

-----------------------------------------------------------------------------
(* What threads do to a run                                                  *)

\* While no provider call raises, the threads of started calls take a run from
\* few statuses on, and leave every other where it is.
LEMMA ThreadDrift ==
  ASSUME SettledInv, NEW w \in Workers, Continue(w), NEW q \in Runs
  PROVE  /\ approvers'[q] = approvers[q]
         /\ status[q] # NoStatus => ticket'[q] = ticket[q]
         /\ \/ status'[q] = status[q]
            \/ /\ status[q] = NoStatus
               /\ status'[q] \in {"waiting_approval", "needs_clarification", "blocked"}
            \/ /\ status[q] = "approved" /\ worker[w].pc # "intake"
               /\ status'[q] \in {"blocked", "agent_running"}
            \/ /\ status[q] = "pr_open" /\ worker[w].pc # "intake"
               /\ status'[q] \in {"review_required", "agent_running"}
<1> USE DEF SettledInv, AuthorityInv
<1> DEFINE r == worker[w].run
<1>r. r \in Runs
  BY ContinueMoves DEF TypeInv, BusyWorkersHaveARun
<1>1. ASSUME NEW t \in Tickets, IntakeInsert(w, t)
      PROVE  /\ status[r] = NoStatus /\ worker[w].pc = "intake" /\ approvers' = approvers
             /\ status[q] # NoStatus => ticket'[q] = ticket[q]
             /\ \/ KeepStatus
                \/ \E s \in {"waiting_approval", "needs_clarification", "blocked"} :
                     SetStatus(r, s)
  <2>1. status[r] = NoStatus /\ worker[w].pc = "intake" /\ approvers' = approvers
    BY <1>1 DEF IntakeInsert, WorkerFacts
  <2>2. PostPlanStatus(t) \in {"waiting_approval", "needs_clarification", "blocked"}
    BY DEF PostPlanStatus
  <2>3. status[q] # NoStatus => ticket'[q] = ticket[q]
    BY <1>1, <2>1 DEF IntakeInsert, TypeInv, TypeOK
  <2> QED
    BY <1>1, <2>1, <2>2, <2>3 DEF IntakeInsert
<1>2. ASSUME \/ DispatchGate(w) \/ DispatchToProvider(w) \/ RecordDispatchFailure(w)
             \/ RecordDispatch(w) \/ RecordRemediation(w)
             \/ \E frozen \in FreezeStates : Remediate(w, frozen)
      PROVE  /\ worker[w].pc # "intake" /\ UNCHANGED <<approvers, ticket>>
             /\ \/ KeepStatus
                \/ /\ status[r] = "approved"
                   /\ SetStatus(r, "blocked") \/ SetStatus(r, "agent_running")
                \/ /\ status[r] = "pr_open"
                   /\ SetStatus(r, "review_required") \/ SetStatus(r, "agent_running")
                \/ status[r] = "agent_running" /\ SetStatus(r, "agent_running")
  <2>1. ~RecordDispatchFailure(w)
    BY DEF RecordDispatchFailure, NobodyFailed
  <2>2. CASE DispatchGate(w)
    BY <2>2 DEF DispatchGate
  <2>3. CASE DispatchToProvider(w)
    BY <2>3 DEF DispatchToProvider, KeepStatus
  <2>4. CASE RecordDispatch(w) \/ RecordRemediation(w)
    BY <2>4 DEF RecordDispatch, RecordRemediation, RecordJob
  <2>5. ASSUME NEW frozen \in FreezeStates, Remediate(w, frozen)
        PROVE  /\ worker[w].pc # "intake" /\ UNCHANGED <<approvers, ticket>>
               /\ \/ KeepStatus
                  \/ /\ status[r] = "pr_open"
                     /\ SetStatus(r, "review_required") \/ SetStatus(r, "agent_running")
    BY <2>5 DEF Remediate
  <2> QED
    BY <1>2, <2>1, <2>2, <2>3, <2>4, <2>5
<1>3. KeepStatus => status'[q] = status[q]
  BY DEF KeepStatus
<1>4. \A s : SetStatus(r, s) => status'[q] = IF q = r THEN s ELSE status[q]
  BY <1>r, SetStatusEffect
<1> HIDE DEF r
<1>5. ASSUME NEW t \in Tickets, IntakeInsert(w, t)
      PROVE  /\ approvers'[q] = approvers[q]
             /\ status[q] # NoStatus => ticket'[q] = ticket[q]
             /\ \/ status'[q] = status[q]
                \/ /\ status[q] = NoStatus
                   /\ status'[q] \in {"waiting_approval", "needs_clarification", "blocked"}
  BY <1>1, <1>3, <1>4, <1>5
<1> QED
  BY <1>2, <1>3, <1>4, <1>5 DEF Continue

\* A dispatch that is over has not left its run approved.
LEMMA DispatchDone ==
  ASSUME SettledInv, NEW w \in Workers, Continue(w), worker[w].pc \notin {"intake", "remediate"},
         ~worker[w].retry, worker'[w].pc = "idle"
  PROVE  status'[worker[w].run] # "approved"
<1> USE DEF SettledInv, AuthorityInv
<1> DEFINE r == worker[w].run
<1>r. r \in Runs
  BY ContinueMoves DEF TypeInv, BusyWorkersHaveARun
<1>d. w \in DOMAIN worker /\ worker[w] \in WorkerStates
  BY DEF TypeInv, TypeOK
<1>4. \A s : SetStatus(r, s) => status'[r] = s
  BY <1>r, SetStatusEffect
<1>1. CASE DispatchGate(w)
  <2>1. ~Begin(w, "launch", r)
    BY <1>d DEF Begin, Idle
  <2>2. (status[r] # "approved" /\ KeepStatus) \/ SetStatus(r, "blocked")
    BY <1>1, <2>1 DEF DispatchGate
  <2> QED
    BY <1>4, <2>2 DEF KeepStatus
<1>2. CASE RecordDispatch(w)
  <2>1. SetStatus(r, "agent_running") \/ (status[r] # "approved" /\ KeepStatus)
    BY <1>2 DEF RecordDispatch, RecordJob
  <2> QED
    BY <1>4, <2>1 DEF KeepStatus
<1>3. ~DispatchToProvider(w)
  BY <1>d DEF DispatchToProvider, WorkerStates
<1> QED
  BY <1>1, <1>2, <1>3
  DEF Continue, IntakeInsert, RecordDispatchFailure, Remediate, RecordRemediation, NobodyFailed

-----------------------------------------------------------------------------
(* Phases through the steps of the workflow                                  *)

PhaseInv == SettledInv /\ WorkflowInv /\ PhaseFacts

\* Status families that the arguments below tell apart.
LEMMA Families ==
  /\ PrObservableStatuses \cap TerminalStatuses = {}
  /\ {"waiting_approval", "approved", "analysing", NoStatus}
       \cap (PrObservableStatuses \cup TerminalStatuses) = {}
  /\ {"agent_running", "pr_open", "review_required"} = PrObservableStatuses
  /\ {"blocked", "rejected", "execution_failed", "complete", "needs_clarification"}
       \subseteq TerminalStatuses
BY DEF PrObservableStatuses, TerminalStatuses, NoStatus

LEMMA KnownRun ==
  ASSUME PhaseInv
  PROVE  /\ run # NoRun => run \in Runs /\ status[run] # NoStatus
         /\ at \notin {"intake_and_plan", "completed", "failed"} => run # NoRun
BY DEF PhaseInv, WorkflowInv, WorkflowTypeOK, RunIsKnown

\* A thread steps or dies.
LEMMA PhaseThread ==
  ASSUME PhaseInv, NEW w \in Workers, ThreadStep(w) \/ ThreadDies(w)
  PROVE  StageFacts'
<1> DEFINE s == status[run]
           z == status'[run]
<1>f. UNCHANGED <<at, run, known, processed>>
  BY DEF ThreadStep, ThreadDies, workflowVars
<1>k. /\ run # NoRun => run \in Runs /\ s # NoStatus
      /\ at \notin {"intake_and_plan", "completed", "failed"} => run # NoRun
  BY KnownRun
<1>d. \A q \in Runs :
        /\ approvers'[q] = approvers[q]
        /\ status[q] # NoStatus => ticket'[q] = ticket[q]
        /\ \/ status'[q] = status[q]
           \/ /\ status[q] = NoStatus
              /\ status'[q] \in {"waiting_approval", "needs_clarification", "blocked"}
           \/ /\ status[q] = "approved" /\ worker[w].pc # "intake"
              /\ status'[q] \in {"blocked", "agent_running"}
           \/ /\ status[q] = "pr_open" /\ worker[w].pc # "intake"
              /\ status'[q] \in {"review_required", "agent_running"}
  <2>1. CASE ThreadDies(w)
    BY <2>1 DEF ThreadDies, Crash
  <2>2. CASE Continue(w)
    BY <2>2, ThreadDrift DEF PhaseInv
  <2> QED
    BY <2>1, <2>2 DEF ThreadStep
<1>x. /\ worker[w].pc # "idle"
      /\ \E x : /\ Becomes(w, x)
                /\ x.pc \notin {"intake", "remediate"}
                /\ worker[w].pc = "intake" => x.pc = "idle"
                /\ x.pc # "idle" => x.run = worker[w].run
                /\ x.retry => worker[w].retry \/ worker[w].pc = "remediate"
  <2>1. CASE ThreadDies(w)
    <3>1. worker[w].pc # "idle" /\ Becomes(w, Idle)
      BY <2>1 DEF ThreadDies, Crash, Free, Release, Becomes
    <3>2. Idle.pc = "idle" /\ ~Idle.retry
      BY DEF Idle
    <3> QED
      BY <3>1, <3>2
  <2>2. CASE Continue(w)
    BY <2>2, ContinueMoves DEF PhaseInv, SettledInv, AuthorityInv
  <2> QED
    BY <2>1, <2>2 DEF ThreadStep
<1> PICK x : /\ Becomes(w, x)
             /\ x.pc \notin {"intake", "remediate"}
             /\ worker[w].pc = "intake" => x.pc = "idle"
             /\ x.pc # "idle" => x.run = worker[w].run
             /\ x.retry => worker[w].retry \/ worker[w].pc = "remediate"
  BY <1>x
<1>w. \A v \in Workers : worker'[v] = IF v = w THEN x ELSE worker[v]
  BY DEF Becomes, PhaseInv, SettledInv, AuthorityInv, TypeInv, TypeOK
<1>t. \/ task' = task
      \/ /\ task.thread = w /\ task.state = "running" /\ Continue(w)
         /\ worker'[w].pc = "idle"
         /\ \/ task'.state = "raised"
            \/ task'.state = "returned" /\ task'.answer = LastAnswer(w)
  <2>1. task \in TaskRecords
    BY DEF PhaseInv, WorkflowInv, WorkflowTypeOK
  <2> QED
    BY <2>1 DEF ThreadStep, ThreadDies, workflowVars, Returned, TaskRecords
<1>i. task'.input = task.input
  <2>1. task \in TaskRecords
    BY DEF PhaseInv, WorkflowInv, WorkflowTypeOK
  <2> QED
    BY <2>1 DEF ThreadStep, ThreadDies, workflowVars, Returned, TaskRecords
<1> USE <1>f, <1>k
<1>o. /\ OnlyIntakes => OnlyIntakes' /\ worker[w].pc = "intake"
      /\ NoRetries => NoRetries'
  <2>1. OnlyIntakes => worker[w].pc = "intake" /\ x.pc = "idle" /\ ~x.retry
    BY <1>x DEF OnlyIntakes
  <2>2. NoRetries => x.pc # "remediate" /\ ~x.retry
    BY DEF NoRetries
  <2> QED
    BY <1>w, <2>1, <2>2 DEF OnlyIntakes, NoRetries
<1>p. run # NoRun =>
        /\ z \in {s, "blocked", "agent_running", "review_required"}
        /\ s \notin {"approved", "pr_open"} => z = s
        /\ s = "approved" => z \in {"approved", "blocked", "agent_running"}
        /\ s = "pr_open" => z \in {"pr_open", "review_required", "agent_running"}
        /\ OnlyIntakes => z = s
  BY <1>d, <1>o
<1>q. run # NoRun => (PartlySigned(run) => z = s /\ approvers'[run] = approvers[run]
                                                /\ ticket'[run] = ticket[run])
  BY <1>d, <1>p DEF PartlySigned
<1>1. TaskFacts'
  <2>1. TaskFacts /\ (task.state = "running" => task.thread \in Workers)
    BY DEF PhaseInv, PhaseFacts, StageFacts, WorkflowInv, IntakeAnswers
  <2>2. CASE task' = task
    <3>1. ASSUME at \in {"dispatch_agent", "record_pr"}, task.state = "running"
          PROVE  /\ worker'[task.thread].pc # "intake"
                 /\ worker'[task.thread].pc # "idle" => worker'[task.thread].run = run
      BY <1>w, <1>x, <2>1, <3>1 DEF TaskFacts
    <3> QED
      BY <2>1, <2>2, <3>1 DEF TaskFacts
  <2>3. CASE task.state = "running" /\ task'.state \in {"raised", "returned"}
    BY <2>1, <2>3 DEF TaskFacts, Activities
  <2> QED
    BY <1>t, <2>2, <2>3
<1>2. BeforeApproval'
  <2>1. at = "intake_and_plan" =>
          \A r \in Runs : status'[r] \in {NoStatus, "waiting_approval",
                                          "needs_clarification", "blocked"}
    <3> SUFFICES ASSUME at = "intake_and_plan", NEW r \in Runs
                 PROVE  status'[r] \in {NoStatus, "waiting_approval",
                                       "needs_clarification", "blocked"}
      OBVIOUS
    <3>1. status[r] \in {NoStatus, "waiting_approval", "needs_clarification", "blocked"}
      BY DEF PhaseInv, PhaseFacts, StageFacts, BeforeApproval
    <3>2. status[r] \notin {"approved", "pr_open"}
      BY <3>1 DEF NoStatus
    <3> QED
      BY <1>d, <3>1, <3>2
  <2> QED
    BY <1>o, <1>p, <2>1 DEF PhaseInv, PhaseFacts, StageFacts, BeforeApproval
<1>3. AfterApproval'
  <2>1. CASE at = "approve"
    <3>1. task' = task /\ z = s
      BY <1>t, <1>o, <1>p, <2>1 DEF PhaseInv, PhaseFacts, StageFacts, BeforeApproval, TaskFacts
    <3>2. approvers'[run] = approvers[run]
      BY <1>d, <2>1
    <3> QED
      BY <1>q, <2>1, <3>1, <3>2
      DEF PhaseInv, PhaseFacts, StageFacts, AfterApproval, PartlySigned
  <2>2. CASE at = "dispatch_agent"
    <3>1. NoRetries' /\ NoRetries
      BY <1>o, <2>2 DEF PhaseInv, PhaseFacts, StageFacts, AfterApproval
    <3>2. \/ PartlySigned(run) /\ z = s
          \/ z \in {"approved", "agent_running"} \cup TerminalStatuses
      BY <1>p, <1>q, <2>2, Families DEF PhaseInv, PhaseFacts, StageFacts, AfterApproval
    <3>3. task'.state = "returned" => z # "approved"
      <4>1. CASE task' = task
        BY <1>p, <2>2, <4>1 DEF PhaseInv, PhaseFacts, StageFacts, AfterApproval
      <4>2. CASE task.thread = w /\ task.state = "running" /\ Continue(w)
                 /\ worker'[w].pc = "idle"
        <5>1. worker[w].pc \notin {"idle", "intake"} /\ worker[w].run = run
          BY <1>x, <2>2, <4>2 DEF PhaseInv, PhaseFacts, StageFacts, TaskFacts
        <5>2. worker[w].pc # "remediate" /\ ~worker[w].retry
          BY <3>1 DEF NoRetries
        <5> QED
          BY <4>2, <5>1, <5>2, DispatchDone DEF PhaseInv
      <4> QED
        BY <1>t, <4>1, <4>2
    <3>4. PartlySigned(run) /\ z = s =>
            /\ status'[run] = "waiting_approval"
            /\ Cardinality(approvers'[run]) \in 1..(MinApprovalsFor(ticket'[run]) - 1)
      BY <1>q, <2>2 DEF PartlySigned
    <3> QED
      BY <2>2, <3>1, <3>2, <3>3, <3>4 DEF AfterApproval, PartlySigned
  <2> QED
    BY <2>1, <2>2 DEF AfterApproval
<1>4. AfterDispatch'
  <2>1. CASE at = "await_pr"
    BY <1>p, <2>1, Families DEF PhaseInv, PhaseFacts, StageFacts, AfterDispatch, StillTrue
  <2>2. CASE at = "record_pr"
    <3>1. z \in PrObservableStatuses \cup TerminalStatuses
      BY <1>p, <2>2, Families DEF PhaseInv, PhaseFacts, StageFacts, AfterDispatch
    <3>2. CASE task' = task
      <4>1. processed > 0 /\ (task.state = "returned" => StillTrue(task.answer, s))
        BY <2>2 DEF PhaseInv, PhaseFacts, StageFacts, AfterDispatch
      <4>2. \A b : StillTrue(b, s) => StillTrue(b, z)
        <5>1. s # "approved"
          BY <2>2, Families DEF PhaseInv, PhaseFacts, StageFacts, AfterDispatch
        <5> QED
          BY <1>p, <2>2, <5>1, Families DEF StillTrue
      <4>3. \/ task.state = "running"
            \/ task.state = "returned" /\ task.answer \in PrObservableStatuses
            => Harmless(task.input)
        BY <2>2 DEF PhaseInv, PhaseFacts, StageFacts, AfterDispatch
      <4> QED
        BY <2>2, <3>1, <3>2, <4>1, <4>2, <4>3 DEF AfterDispatch
    <3>3. CASE task.thread = w /\ task.state = "running"
               /\ (task'.state = "returned" => task'.answer = LastAnswer(w))
      <4>1. worker[w].pc # "intake" /\ worker[w].run = run
        BY <1>x, <2>2, <3>3 DEF PhaseInv, PhaseFacts, StageFacts, TaskFacts
      <4>2. LastAnswer(w) = z
        BY <4>1 DEF LastAnswer
      <4>3. processed > 0 /\ Harmless(task.input) /\ task'.input = task.input
        BY <1>i, <2>2, <3>3 DEF PhaseInv, PhaseFacts, StageFacts, AfterDispatch
      <4>4. task'.state = "returned" => StillTrue(task'.answer, z)
        BY <3>3, <4>2 DEF StillTrue
      <4> QED
        BY <2>2, <3>1, <4>3, <4>4 DEF AfterDispatch
    <3> QED
      BY <1>t, <3>2, <3>3
  <2>3. CASE at = "expire_pr"
    BY <1>p, <2>3, Families DEF PhaseInv, PhaseFacts, StageFacts, AfterDispatch
  <2> QED
    BY <2>1, <2>2, <2>3 DEF AfterDispatch
<1>5. EndingsEnd'
  <2>1. at \in {"reject", "stop", "expire_approval", "expire_pr", "fail_run"} => task' = task
    BY <1>t DEF PhaseInv, PhaseFacts, StageFacts, TaskFacts
  <2> QED
    BY <1>p, <2>1, Families DEF PhaseInv, PhaseFacts, StageFacts, EndingsEnd
<1>6. Closing'
  <2>1. Open => known \notin TerminalStatuses
    BY DEF PhaseInv, PhaseFacts, StageFacts, Closing
  <2>2. at = "failed" /\ run # NoRun => known \notin TerminalStatuses \/ known = z
    BY <1>p, Families DEF PhaseInv, PhaseFacts, StageFacts, Closing
  <2>3. ASSUME at = "completed"
        PROVE  /\ run # NoRun
               /\ StillTrue(known, z)
               /\ \/ z \in TerminalStatuses
                  \/ PartlySigned(run) /\ z = s
                  \/ z \in PrObservableStatuses /\ processed > 0
    BY <1>p, <1>q, <2>3, Families DEF PhaseInv, PhaseFacts, StageFacts, Closing, StillTrue
  <2>4. run # NoRun /\ PartlySigned(run) /\ z = s =>
          /\ status'[run] = "waiting_approval"
          /\ Cardinality(approvers'[run]) \in 1..(MinApprovalsFor(ticket'[run]) - 1)
    BY <1>q DEF PartlySigned
  <2> QED
    BY <2>1, <2>2, <2>3, <2>4 DEF Closing, EventsComeLast, BeforeDispatch, Open, PartlySigned
<1>7. EventsComeLast'
  BY DEF PhaseInv, PhaseFacts, StageFacts, EventsComeLast
<1> QED
  BY <1>1, <1>2, <1>3, <1>4, <1>5, <1>6, <1>7 DEF StageFacts

\* A thread picks up an attempt of an activity.
LEMMA PhaseStartIntake ==
  ASSUME PhaseInv, NEW w \in Workers, StartIntake(w)
  PROVE  StageFacts'
<1>1. /\ at = "intake_and_plan" /\ Free(w)
      /\ UNCHANGED <<at, run, known, processed, status>>
  BY DEF StartIntake, PickUp, IntakeStart, vars
<1>2. task'.state \in {"running", "returned"}
  BY DEF StartIntake, Running, Returned, PhaseInv, WorkflowInv, WorkflowTypeOK, TaskRecords
<1>3. OnlyIntakes'
  <2>1. OnlyIntakes
    BY <1>1 DEF PhaseInv, PhaseFacts, StageFacts, BeforeApproval
  <2>2. ASSUME NEW r \in Runs, Begin(w, "intake", r) PROVE OnlyIntakes'
    <3>1. /\ worker'[w].pc = "intake" /\ ~worker'[w].retry
          /\ \A v \in Workers : v # w => worker'[v] = worker[v]
      BY <2>2 DEF Begin, Idle, PhaseInv, SettledInv, AuthorityInv, TypeInv, TypeOK
    <3> QED
      BY <2>1, <3>1 DEF OnlyIntakes
  <2>3. UNCHANGED worker => OnlyIntakes'
    BY <2>1 DEF OnlyIntakes
  <2> QED
    BY <2>2, <2>3 DEF StartIntake, IntakeStart, vars
<1> QED
  BY <1>1, <1>2, <1>3
  DEF PhaseInv, PhaseFacts, StageFacts, TaskFacts, BeforeApproval, AfterApproval, AfterDispatch,
      EndingsEnd, Closing, EventsComeLast, BeforeDispatch, Open, Activities

LEMMA PhaseStartApprove ==
  ASSUME PhaseInv, NEW w \in Workers, StartApprove(w)
  PROVE  StageFacts'
<1>1. /\ at = "approve" /\ run \in Runs
      /\ UNCHANGED <<at, run, known, processed, worker>>
  BY KnownRun DEF StartApprove, PickUp, Refused, vars
<1>2. \/ task'.state = "returned" /\ SignOff(run, task.input)
      \/ task'.state = "refused" /\ UNCHANGED status
  BY DEF StartApprove, Refused, Returned, vars, PhaseInv, WorkflowInv, WorkflowTypeOK,
         TaskRecords
<1>i. task'.input = task.input /\ (SignOff(run, task.input) => task.input \in approvers'[run])
  <2>1. task'.input = task.input
    BY DEF StartApprove, Refused, Returned, PhaseInv, WorkflowInv, WorkflowTypeOK, TaskRecords
  <2> QED
    BY <1>1, <2>1 DEF SignOff, PhaseInv, SettledInv, AuthorityInv, TypeInv, TypeOK
<1>3. OnlyIntakes /\ OnlyIntakes' /\ status[run] \in {"waiting_approval", "approved"}
  BY <1>1 DEF PhaseInv, PhaseFacts, StageFacts, BeforeApproval, AfterApproval, OnlyIntakes
<1>4. ASSUME SignOff(run, task.input)
      PROVE  \/ status'[run] = "approved"
             \/ /\ status'[run] = "waiting_approval"
                /\ Cardinality(approvers'[run]) \in 1..(MinApprovalsFor(ticket'[run]) - 1)
  <2> DEFINE n == Cardinality(approvers[run])
             m == MinApprovalsFor(ticket[run])
  <2>1. /\ status[run] = "waiting_approval" /\ task.input \notin approvers[run]
        /\ approvers' = [approvers EXCEPT ![run] = @ \cup {task.input}]
        /\ ticket' = ticket
    BY <1>4 DEF SignOff, MayApprove
  <2>2. /\ IsFiniteSet(approvers[run])
        /\ approvers'[run] = approvers[run] \cup {task.input}
    BY <1>1, <2>1 DEF PhaseInv, SettledInv, AuthorityInv, TypeInv, TypeOK, RunFacts
  <2>3. n \in Nat /\ Cardinality(approvers'[run]) = n + 1
    BY <2>1, <2>2, FS_AddElement, FS_CardinalityType
  <2>4. m \in Nat /\ ticket'[run] = ticket[run]
    BY <1>1, <2>1, LifecycleAssumption
    DEF MinApprovalsFor, TicketProfiles, PhaseInv, SettledInv, AuthorityInv, TypeInv, TypeOK
  <2>5. IF n + 1 >= m THEN status'[run] = "approved" ELSE status'[run] = status[run]
    <3>1. TypeInv
      BY DEF PhaseInv, SettledInv, AuthorityInv
    <3> QED
      BY <1>1, <1>4, <3>1, SetStatusEffect DEF SignOff, KeepStatus
  <2>6. MinApprovalsFor(ticket'[run]) = m
    BY <2>4
  <2> HIDE DEF n, m
  <2> QED
    BY <2>1, <2>3, <2>4, <2>5, <2>6
<1> QED
  BY <1>1, <1>2, <1>i, <1>3, <1>4
  DEF PhaseInv, PhaseFacts, StageFacts, TaskFacts, BeforeApproval, AfterApproval, AfterDispatch,
      EndingsEnd, Closing, EventsComeLast, BeforeDispatch, Open, Activities, PartlySigned

LEMMA PhaseStartDispatch ==
  ASSUME PhaseInv, NEW w \in Workers, StartDispatch(w)
  PROVE  StageFacts'
<1>1. /\ at = "dispatch_agent" /\ run \in Runs
      /\ UNCHANGED <<at, run, known, processed, status, approvers, ticket>>
  BY KnownRun DEF StartDispatch, EnterDispatch, PickUp
<1>2. task'.state = "running" /\ task'.thread = w
  BY DEF StartDispatch, Running, PhaseInv, WorkflowInv, WorkflowTypeOK, TaskRecords
<1>3. /\ worker'[w].pc = "dispatch" /\ worker'[w].run = run /\ ~worker'[w].retry
      /\ \A v \in Workers : v # w => worker'[v] = worker[v]
  BY DEF StartDispatch, EnterDispatch, Begin, Idle, PhaseInv, SettledInv, AuthorityInv,
         TypeInv, TypeOK
<1>4. NoRetries'
  BY <1>1, <1>3 DEF PhaseInv, PhaseFacts, StageFacts, AfterApproval, NoRetries
<1>5. TaskFacts'
  BY <1>1, <1>2, <1>3 DEF TaskFacts, Activities
<1> QED
  BY <1>1, <1>2, <1>4, <1>5
  DEF PhaseInv, PhaseFacts, StageFacts, BeforeApproval, AfterApproval, AfterDispatch,
      EndingsEnd, Closing, EventsComeLast, BeforeDispatch, Open, PartlySigned

\* The calls that end the run of the workflow.
LEMMA PhaseStartEnding ==
  ASSUME PhaseInv, NEW w \in Workers,
         StartTerminate(w) \/ StartExpire(w) \/ StartFailRun(w)
  PROVE  StageFacts'
<1> USE DEF PhaseInv
<1>t. TypeInv /\ task \in TaskRecords
  BY DEF SettledInv, AuthorityInv, WorkflowInv, WorkflowTypeOK
<1>1. /\ at \in {"reject", "stop", "expire_approval", "expire_pr", "fail_run"}
      /\ run \in Runs /\ status[run] \in ActiveStatuses \cup TerminalStatuses
      /\ UNCHANGED <<at, run, known, processed>>
  <2>1. /\ at \in {"reject", "stop", "expire_approval", "expire_pr", "fail_run"}
        /\ UNCHANGED <<at, run, known, processed>>
    BY DEF StartTerminate, StartExpire, StartFailRun, PickUp
  <2> QED
    BY <1>t, <2>1, KnownRun DEF TypeInv, TypeOK, RunStatuses
<1>2. UNCHANGED worker
  BY DEF StartTerminate, StartExpire, StartFailRun, Refused, vars, Reject, Stop, Terminate,
         ExpirePendingApproval, ExpirePendingPr, ExpireWait, FailRun, EndingFrame
<1>3. \A s : SetStatus(run, s) => status'[run] = s
  BY <1>1, <1>t, SetStatusEffect
<1>4. CASE StartTerminate(w)
  <2>1. \/ task'.state = "refused" /\ UNCHANGED status
        \/ task'.state = "returned" /\ (SetStatus(run, "rejected") \/ SetStatus(run, "blocked"))
    BY <1>4, <1>t
    DEF StartTerminate, Refused, Returned, vars, Reject, Stop, Terminate, TaskRecords
  <2>2. at \in {"reject", "stop"}
    BY <1>4 DEF StartTerminate, PickUp
  <2>3. /\ status'[run] = status[run] \/ status'[run] \in TerminalStatuses
        /\ task'.state = "returned" => status'[run] \in TerminalStatuses
        /\ task'.state \in {"refused", "returned"}
    BY <1>3, <2>1, Families
  <2>4. OnlyIntakes'
    BY <1>2, <2>2 DEF PhaseFacts, StageFacts, BeforeApproval, OnlyIntakes
  <2> QED
    BY <1>1, <2>2, <2>3, <2>4
    DEF PhaseFacts, StageFacts, TaskFacts, BeforeApproval, AfterApproval, AfterDispatch,
        EndingsEnd, Closing, EventsComeLast, BeforeDispatch, Open, Activities
<1>5. CASE StartExpire(w) \/ StartFailRun(w)
  <2>1. /\ at \in {"expire_approval", "expire_pr", "fail_run"}
        /\ task'.state = "returned" /\ task'.answer = status'[run]
    BY <1>5, <1>t DEF StartExpire, StartFailRun, PickUp, Returned, TaskRecords
  <2>2. \/ /\ status[run] \in TerminalStatuses /\ UNCHANGED status
        \/ SetStatus(run, "blocked") \/ SetStatus(run, "execution_failed")
    BY <1>5
    DEF StartExpire, StartFailRun, PickUp, ExpirePendingApproval, ExpirePendingPr, ExpireWait,
        FailRun, vars, PhaseFacts, StageFacts, BeforeApproval, AfterDispatch
  <2>3. status'[run] \in TerminalStatuses
    BY <1>3, <2>2, Families
  <2>4. at = "expire_approval" => OnlyIntakes'
    BY <1>2 DEF PhaseFacts, StageFacts, BeforeApproval, OnlyIntakes
  <2> QED
    BY <1>1, <2>1, <2>3, <2>4
    DEF PhaseFacts, StageFacts, TaskFacts, BeforeApproval, AfterApproval, AfterDispatch,
        EndingsEnd, Closing, EventsComeLast, BeforeDispatch, Open, Activities
<1> QED
  BY <1>4, <1>5

\* What a pull request event makes of an observed run.
LEMMA EventEffect ==
  ASSUME NEW s \in PrObservableStatuses, NEW e, e # Malformed
  PROVE  IF Harmless(e) THEN NextStatusForPr(s, e) \in PrObservableStatuses
         ELSE NextStatusForPr(s, e) \in TerminalStatuses
<1>1. CASE e.state = "merged" \/ e.state = "closed"
  BY <1>1, Families DEF Harmless, NextStatusForPr
<1>2. CASE e.state \notin {"merged", "closed"} /\ e.diff = "forbidden"
  BY <1>2, Families DEF Harmless, NextStatusForPr
<1>3. CASE e.state \notin {"merged", "closed"} /\ e.diff # "forbidden"
  BY <1>3, Families DEF Harmless, NextStatusForPr
<1> QED
  BY <1>1, <1>2, <1>3

LEMMA PhaseStartRecordPr ==
  ASSUME PhaseInv, NEW w \in Workers, StartRecordPr(w)
  PROVE  StageFacts'
<1> USE DEF PhaseInv
<1>t. TypeInv /\ task \in TaskRecords /\ w \in DOMAIN worker
  BY DEF SettledInv, AuthorityInv, WorkflowInv, WorkflowTypeOK, TypeInv, TypeOK
<1>1. /\ at = "record_pr" /\ run \in Runs /\ Free(w)
      /\ UNCHANGED <<at, run, known, processed>>
      /\ status[run] \in PrObservableStatuses \cup TerminalStatuses
  BY KnownRun DEF StartRecordPr, PickUp, PhaseFacts, StageFacts, AfterDispatch
<1>2. CASE Refused
  BY <1>1, <1>2, <1>t
  DEF Refused, vars, TaskRecords, PhaseFacts, StageFacts, TaskFacts, BeforeApproval, AfterApproval,
      AfterDispatch, EndingsEnd, Closing, EventsComeLast, BeforeDispatch, Open, Activities
<1>3. CASE /\ task.input # Malformed
           /\ RecordPr(w, run, task.input)
           /\ IF worker'[w].pc = "idle" THEN Returned(status'[run]) ELSE Running(w)
  <2>1. status'[run] \in PrObservableStatuses \cup TerminalStatuses
    <3>1. NextStatusForPr(status[run], task.input)
            \in {"complete", "blocked", "pr_open", "review_required", status[run]}
      BY DEF NextStatusForPr
    <3>2. SetStatus(run, NextStatusForPr(status[run], task.input))
      BY <1>3 DEF RecordPr
    <3> DEFINE s == NextStatusForPr(status[run], task.input)
    <3> HIDE DEF s
    <3>3. status'[run] = s
      BY <1>1, <1>t, <3>2, SetStatusEffect DEF s
    <3> QED
      BY <1>1, <3>1, <3>3, Families DEF s
  <2>e. /\ task'.input = task.input /\ task.input # Malformed /\ processed > 0
        /\ status'[run] \in PrObservableStatuses => Harmless(task.input)
    <3> DEFINE s == NextStatusForPr(status[run], task.input)
    <3>1. status[run] \in PrObservableStatuses /\ SetStatus(run, s)
      BY <1>3 DEF RecordPr
    <3>2. /\ task'.input = task.input /\ task.input # Malformed /\ processed > 0
      BY <1>1, <1>3, <1>t DEF Returned, Running, TaskRecords, PhaseFacts, StageFacts, AfterDispatch
    <3>3. IF Harmless(task.input) THEN s \in PrObservableStatuses ELSE s \in TerminalStatuses
      BY <3>1, <3>2, EventEffect
    <3> HIDE DEF s
    <3>4. status'[run] = s
      BY <1>1, <1>t, <3>1, SetStatusEffect
    <3> QED
      BY <3>2, <3>3, <3>4, Families
  <2>r. worker'[w].pc # "idle" => status'[run] \in PrObservableStatuses
    <3>1. worker'[w].pc # "idle" =>
            /\ NextStatusForPr(status[run], task.input) = "pr_open"
            /\ SetStatus(run, "pr_open")
      BY <1>1, <1>3 DEF RecordPr, Free
    <3> QED
      BY <1>1, <1>t, <3>1, SetStatusEffect, Families
  <2>2. CASE worker'[w].pc = "idle"
    <3>1. task'.state = "returned" /\ task'.answer = status'[run]
      BY <1>3, <1>t, <2>2 DEF Returned, TaskRecords
    <3> QED
      BY <1>1, <2>1, <2>e, <3>1
      DEF PhaseFacts, StageFacts, TaskFacts, BeforeApproval, AfterApproval, AfterDispatch,
            StillTrue,
          EndingsEnd, Closing, EventsComeLast, BeforeDispatch, Open, Activities
  <2>3. CASE worker'[w].pc # "idle"
    <3>1. task'.state = "running" /\ task'.thread = w
      BY <1>3, <1>t, <2>3 DEF Running, TaskRecords
    <3>2. worker'[w].pc = "remediate" /\ worker'[w].run = run
      BY <1>1, <1>3, <1>t, <2>3 DEF RecordPr, Begin, Idle, Free
    <3> QED
      BY <1>1, <2>1, <2>e, <2>r, <3>1, <3>2
      DEF PhaseFacts, StageFacts, TaskFacts, BeforeApproval, AfterApproval, AfterDispatch,
          EndingsEnd, Closing, EventsComeLast, BeforeDispatch, Open, Activities
  <2> QED
    BY <2>2, <2>3
<1> QED
  BY <1>2, <1>3 DEF StartRecordPr

LEMMA PhaseStart ==
  ASSUME PhaseInv, NEW w \in Workers, Start(w)
  PROVE  StageFacts'
BY PhaseStartIntake, PhaseStartApprove, PhaseStartDispatch, PhaseStartEnding,
   PhaseStartRecordPr
DEF Start

\* What is left for a call that begins late, by what it does.
LateBeginning(w) ==
  /\ UNCHANGED <<status, approvers, ticket>>
  /\ \/ UNCHANGED worker
     \/ worker'[w].pc = "intake" /\ ~worker'[w].retry
     \/ worker'[w].pc = "dispatch" /\ ~worker'[w].retry /\ at \notin BeforeDispatch

LateSignOff(u) ==
  /\ at \in {"approve"} \cup Compensating
  /\ at = "approve" => u = task.input
  /\ SignOff(run, u)
  /\ UNCHANGED worker

LateEnding ==
  /\ at \in {"reject", "stop", "expire_approval", "expire_pr"} \cup Compensating
  /\ status[run] \notin TerminalStatuses
  /\ \E s \in TerminalStatuses : SetStatus(run, s)
  /\ UNCHANGED <<approvers, ticket, worker>>

LateEvent(w) ==
  /\ processed > 0
  /\ status[run] \in PrObservableStatuses
  /\ \/ \E s \in PrObservableStatuses : SetStatus(run, s)
     \/ /\ \E s \in TerminalStatuses : SetStatus(run, s)
        /\ at \in {"record_pr"} \cup Compensating
        /\ at = "record_pr" => ~Harmless(task.input)
  /\ UNCHANGED <<approvers, ticket>>

LEMMA LateEffect ==
  ASSUME PhaseInv, NEW w \in Workers, BeginLate(w)
  PROVE  \/ LateBeginning(w)
         \/ \E u \in Users : LateSignOff(u)
         \/ LateEnding
         \/ LateEvent(w)
<1> DEFINE a == held[w].at
           i == held[w].input
<1>f. LateCallFits(held[w]) /\ HeldFits
  BY DEF PhaseInv, PhaseFacts, HeldFacts, HeldFits, WorkflowInv
<1>w. worker \in [Workers -> WorkerStates]
  BY DEF PhaseInv, SettledInv, AuthorityInv, TypeInv, TypeOK
<1>n. \A s : s \in TerminalStatuses =>
        s \notin ActiveStatuses \cup {"waiting_approval", "agent_running"}
  BY DEF TerminalStatuses, ActiveStatuses
<1>1. ASSUME a = "intake_and_plan", NEW r \in Runs, IntakeStart(w, r)
      PROVE  LateBeginning(w)
  BY <1>1, <1>w DEF IntakeStart, Begin, Idle, LateBeginning
<1>2. CASE a = "approve" /\ SignOff(run, i) /\ UNCHANGED worker
  <2>1. i \in Users /\ i \notin approvers[run]
    BY <1>2, <1>f DEF HeldFits, SignOff, MayApprove
  <2>2. at \in {"approve"} \cup Compensating /\ (at = "approve" => i = task.input)
    BY <1>2, <1>f, <2>1 DEF LateCallFits, Compensating
  <2> QED
    BY <1>2, <2>1, <2>2 DEF LateSignOff
<1>3. CASE a = "dispatch_agent" /\ EnterDispatch(w)
  <2>1. at \notin BeforeDispatch
    BY <1>3, <1>f DEF LateCallFits, BeforeDispatch
  <2> QED
    BY <1>3, <1>w, <2>1 DEF EnterDispatch, Begin, Idle, LateBeginning
<1>4. CASE \/ a = "reject" /\ Reject(run)
           \/ a = "stop" /\ Stop(run)
           \/ a = "expire_approval" /\ ExpirePendingApproval(run)
           \/ a = "expire_pr" /\ ExpirePendingPr(run)
           \/ a = "fail_run" /\ FailRun(run)
  <2>1. /\ a \in {"reject", "stop", "expire_approval", "expire_pr", "fail_run"}
        /\ UNCHANGED <<approvers, ticket, worker>>
        /\ status[run] \in ActiveStatuses \cup {"waiting_approval", "agent_running"}
        /\ \/ SetStatus(run, "rejected") \/ SetStatus(run, "blocked")
           \/ SetStatus(run, "execution_failed")
    BY <1>4 DEF Reject, Stop, Terminate, ExpirePendingApproval, ExpirePendingPr, ExpireWait,
                FailRun, EndingFrame
  <2>2. status[run] \notin TerminalStatuses
    BY <1>n, <2>1
  <2>3. \E s \in TerminalStatuses : SetStatus(run, s)
    BY <2>1, Families
  <2>4. at \in {a} \cup Compensating
    BY <1>f, <2>1, <2>2 DEF LateCallFits
  <2> HIDE DEF a
  <2>5. at \in {"reject", "stop", "expire_approval", "expire_pr"} \cup Compensating
    BY <2>1, <2>4 DEF Compensating
  <2> QED
    BY <2>1, <2>2, <2>3, <2>5 DEF LateEnding
<1>5. CASE a = "record_pr" /\ i # Malformed /\ RecordPr(w, run, i)
  <2> DEFINE s == NextStatusForPr(status[run], i)
  <2>1. /\ status[run] \in PrObservableStatuses /\ SetStatus(run, s)
        /\ UNCHANGED <<approvers, ticket>>
    BY <1>5 DEF RecordPr
  <2>2. status[run] \notin TerminalStatuses
    BY <2>1, Families
  <2>3. IF Harmless(i) THEN s \in PrObservableStatuses ELSE s \in TerminalStatuses
    BY <1>5, <2>1, EventEffect
  <2>4. /\ processed > 0
        /\ \/ Harmless(i)
           \/ at = "record_pr" /\ i = task.input
           \/ at \in Compensating
    BY <1>5, <1>f, <2>2 DEF LateCallFits
  <2>5. at \in Compensating => at # "record_pr"
    BY DEF Compensating
  <2> HIDE DEF s, i
  <2>6. CASE Harmless(i)
    BY <2>1, <2>3, <2>4, <2>6 DEF LateEvent
  <2>7. CASE ~Harmless(i)
    BY <2>1, <2>3, <2>4, <2>5, <2>7 DEF LateEvent
  <2> QED
    BY <2>6, <2>7
<1>6. CASE UNCHANGED vars
  BY <1>6 DEF vars, LateBeginning
<1> HIDE DEF a, i
<1> QED
  BY <1>1, <1>2, <1>3, <1>4, <1>5, <1>6 DEF BeginLate, a, i

\* A call that was given up for lost begins, or never will.
LEMMA PhaseLate ==
  ASSUME PhaseInv, NEW w \in Workers, BeginLate(w) \/ LateCallDies(w)
  PROVE  StageFacts'
<1> USE DEF PhaseInv
<1>f. UNCHANGED <<at, run, known, processed, task>> /\ held[w] # NoCall
  BY DEF BeginLate, LateCallDies
<1>t. /\ TypeInv /\ worker \in [Workers -> WorkerStates]
      /\ task.state = "running" => task.thread \in Workers /\ task.thread # w
      /\ StageFacts
  BY <1>f DEF SettledInv, AuthorityInv, TypeInv, TypeOK, WorkflowInv, IntakeAnswers, HeldFits,
              PhaseFacts
<1>w. \A v \in Workers : v # w => worker'[v] = worker[v]
  <2>1. UNCHANGED worker \/ \E x : worker' = [worker EXCEPT ![w] = x]
    BY DEF BeginLate, LateCallDies, vars, IntakeStart, EnterDispatch, Begin, RecordPr, Reject,
           Stop, Terminate, ExpirePendingApproval, ExpirePendingPr, ExpireWait, FailRun,
           EndingFrame
  <2> QED
    BY <1>t, <2>1
<1>k. /\ run # NoRun => run \in Runs /\ status[run] # NoStatus
      /\ at \notin {"intake_and_plan", "completed", "failed"} => run # NoRun
  BY KnownRun
<1>1. TaskFacts'
  <2>1. task.state = "running" => worker'[task.thread] = worker[task.thread]
    BY <1>t, <1>w
  <2> QED
    BY <1>f, <1>t, <2>1 DEF StageFacts, TaskFacts
<1>2. EventsComeLast'
  BY <1>f, <1>t DEF StageFacts, EventsComeLast
<1>3. CASE LateBeginning(w)
  <2>1. UNCHANGED <<status, approvers, ticket>>
    BY <1>3 DEF LateBeginning
  <2>2. at \in BeforeDispatch /\ OnlyIntakes => OnlyIntakes'
    BY <1>3, <1>w DEF LateBeginning, OnlyIntakes
  <2>3. NoRetries => NoRetries'
    BY <1>3, <1>w DEF LateBeginning, NoRetries
  <2>4. BeforeApproval' /\ AfterApproval'
    BY <1>f, <1>t, <2>1, <2>2, <2>3
    DEF StageFacts, BeforeApproval, AfterApproval, BeforeDispatch, PartlySigned
  <2> QED
    BY <1>f, <1>t, <1>1, <1>2, <2>1, <2>4
    DEF StageFacts, AfterDispatch, EndingsEnd, Closing, Open, PartlySigned
<1>4. ASSUME NEW u \in Users, LateSignOff(u) PROVE StageFacts'
  <2>1. /\ at \in {"approve", "fail_run", "failed"} /\ SignOff(run, u) /\ UNCHANGED worker
        /\ at = "approve" => u = task.input
    BY <1>4 DEF LateSignOff, Compensating
  <2>2. status[run] = "waiting_approval" /\ u \notin approvers[run]
    BY <2>1 DEF SignOff, MayApprove
  <2>3. run \in Runs => status'[run] \in {"waiting_approval", "approved"}
    BY <1>t, <2>1, <2>2, SetStatusEffect DEF SignOff, KeepStatus
  <2>4. ~(at = "approve" /\ task.state = "returned")
    BY <1>t, <2>1, <2>2 DEF StageFacts, AfterApproval
  <2>5. ~(at = "fail_run" /\ task.state = "returned")
    BY <1>t, <2>2, Families DEF StageFacts, EndingsEnd
  <2>6. at = "failed" /\ run # NoRun => known \notin TerminalStatuses
    BY <1>t, <2>2, Families DEF StageFacts, Closing
  <2>7. OnlyIntakes => OnlyIntakes'
    BY <2>1 DEF OnlyIntakes
  <2> QED
    BY <1>f, <1>k, <1>t, <1>1, <1>2, <2>1, <2>3, <2>4, <2>5, <2>6, <2>7
    DEF StageFacts, BeforeApproval, AfterApproval, AfterDispatch, EndingsEnd, Closing, Open
<1>5. CASE LateEnding
  <2>1. /\ at \in {"reject", "stop", "expire_approval", "expire_pr", "fail_run", "failed"}
        /\ status[run] \notin TerminalStatuses /\ UNCHANGED <<approvers, ticket, worker>>
    BY <1>5 DEF LateEnding, Compensating
  <2>2. run \in Runs => status'[run] \in TerminalStatuses
    BY <1>5, <1>t, SetStatusEffect DEF LateEnding
  <2>3. ~(at \in {"reject", "stop", "expire_approval", "expire_pr", "fail_run"}
          /\ task.state = "returned")
    BY <1>t, <2>1 DEF StageFacts, EndingsEnd
  <2>4. at = "failed" /\ run # NoRun => known \notin TerminalStatuses
    BY <1>t, <2>1 DEF StageFacts, Closing
  <2>5. OnlyIntakes => OnlyIntakes'
    BY <2>1 DEF OnlyIntakes
  <2> QED
    BY <1>f, <1>k, <1>t, <1>1, <1>2, <2>1, <2>2, <2>3, <2>4, <2>5
    DEF StageFacts, BeforeApproval, AfterApproval, AfterDispatch, EndingsEnd, Closing, Open
<1>6. CASE LateEvent(w)
  <2>1. /\ at \notin BeforeDispatch \cup {"dispatch_agent", "expire_pr"}
        /\ processed > 0 /\ status[run] \in PrObservableStatuses
        /\ UNCHANGED <<approvers, ticket>>
    BY <1>6, <1>t DEF LateEvent, StageFacts, EventsComeLast
  <2>2. run \in Runs =>
          \/ status'[run] \in PrObservableStatuses
          \/ /\ status'[run] \in TerminalStatuses
             /\ at \in {"record_pr", "fail_run", "failed"}
             /\ at = "record_pr" => ~Harmless(task.input)
    BY <1>6, <1>t, SetStatusEffect DEF LateEvent, Compensating
  <2>3. status[run] \notin TerminalStatuses /\ ~PartlySigned(run)
    BY <2>1, Families DEF PartlySigned
  <2>4. at = "record_pr" => status'[run] \in PrObservableStatuses \cup TerminalStatuses
    BY <1>k, <2>2
  <2>5. ASSUME at = "record_pr", task.state = "returned"
        PROVE  StillTrue(task.answer, status'[run])
    <3>1. task.answer \in PrObservableStatuses /\ Harmless(task.input)
      BY <1>t, <2>1, <2>5 DEF StageFacts, AfterDispatch, StillTrue
    <3> QED
      BY <1>k, <2>2, <2>5, <3>1 DEF StillTrue
  <2>6. at \in {"await_pr", "completed"} /\ run # NoRun => StillTrue(known, status'[run])
                                               /\ status'[run] \in PrObservableStatuses
    BY <1>t, <1>k, <2>1, <2>2 DEF StageFacts, AfterDispatch, Closing, StillTrue
  <2>7. at = "failed" /\ run # NoRun => known \notin TerminalStatuses
    BY <1>t, <2>3 DEF StageFacts, Closing
  <2>8. ~(at = "fail_run" /\ task.state = "returned")
    BY <1>t, <2>3 DEF StageFacts, EndingsEnd
  <2>9. AfterDispatch'
    BY <1>f, <1>k, <1>t, <2>1, <2>4, <2>5, <2>6 DEF StageFacts, AfterDispatch
  <2>10. Closing'
    BY <1>f, <1>t, <2>1, <2>6, <2>7 DEF StageFacts, Closing, Open
  <2>11. EndingsEnd' /\ BeforeApproval' /\ AfterApproval'
    BY <1>f, <1>t, <2>1, <2>8, Families
    DEF StageFacts, EndingsEnd, BeforeApproval, AfterApproval, BeforeDispatch
  <2> QED
    BY <1>1, <1>2, <2>9, <2>10, <2>11 DEF StageFacts
<1>7. CASE LateCallDies(w)
  <2>1. UNCHANGED <<status, approvers, ticket, worker>>
    BY <1>7 DEF LateCallDies, vars
  <2> QED
    BY <1>3, <2>1 DEF LateBeginning
<1> QED
  BY <1>3, <1>4, <1>5, <1>6, <1>7, LateEffect

\* What a step of the workflow alone leaves as it is.
RunsRest == UNCHANGED <<status, ticket, approvers, worker>>

\* The server rules on an attempt.
LEMMA PhaseVerdict ==
  ASSUME PhaseInv,
         \/ AttemptTimesOut \/ AttemptRaised \/ AttemptRefused
         \/ \E w \in Workers : AttemptStalls(w)
  PROVE  StageFacts'
<1>1. /\ task.state # "none"
      /\ UNCHANGED <<run, known, processed, vars>>
      /\ ActivityFails \/ (task'.state = "scheduled" /\ at' = at)
  BY DEF AttemptTimesOut, AttemptStalls, AttemptRaised, AttemptRefused, RetryOrFail, PhaseInv,
         WorkflowInv, WorkflowTypeOK, TaskRecords
<1>2. RunsRest /\ UNCHANGED <<run, known, processed>>
  BY <1>1 DEF RunsRest, vars
<1>3. at \in Activities /\ Open /\ known \notin TerminalStatuses
  BY <1>1 DEF PhaseInv, PhaseFacts, StageFacts, TaskFacts, Closing, EventsComeLast,
        BeforeDispatch, Open, Activities
<1>4. CASE ActivityFails
  <2>1. \/ at' = "fail_run" /\ task'.state = "scheduled"
        \/ at' = "failed" /\ task'.state = "none"
    <3>1. Execute("fail_run", NoInput) \/ Become("failed")
      BY <1>4 DEF ActivityFails
    <3>2. Execute("fail_run", NoInput) => at' = "fail_run" /\ task'.state = "scheduled"
      BY DEF Execute, NoTask
    <3>3. Become("failed") => at' = "failed" /\ task'.state = "none"
      BY DEF Become, NoTask
    <3> QED
      BY <3>1, <3>2, <3>3
  <2> QED
    BY <1>2, <1>3, <2>1
    DEF PhaseInv, PhaseFacts, StageFacts, TaskFacts, BeforeApproval, AfterApproval, AfterDispatch,
        EndingsEnd, Closing, EventsComeLast, BeforeDispatch, Open, Activities
<1>5. CASE task'.state = "scheduled" /\ at' = at
  BY <1>2, <1>3, <1>5
  DEF PhaseInv, PhaseFacts, StageFacts, TaskFacts, BeforeApproval, AfterApproval, AfterDispatch,
      EndingsEnd, Closing, EventsComeLast, BeforeDispatch, Open, Activities, OnlyIntakes,
            NoRetries, PartlySigned, RunsRest
<1> QED
  BY <1>1, <1>4, <1>5

\* run() reads an answer.
LEMMA PhaseAnswered ==
  ASSUME PhaseInv,
         \/ IntakeAnswered \/ ApproveAnswered \/ DispatchAnswered \/ RecordPrAnswered
         \/ EndingAnswered \/ CompensationAnswered
  PROVE  StageFacts'
<1>1. task.state = "returned" /\ UNCHANGED <<processed, vars>>
  BY DEF IntakeAnswered, ApproveAnswered, DispatchAnswered, RecordPrAnswered, EndingAnswered,
         CompensationAnswered, Answered
<1>2. RunsRest /\ processed' = processed
  BY <1>1 DEF RunsRest, vars
<1>b. \A p : Become(p) => at' = p /\ task'.state = "none"
  BY DEF Become, NoTask
<1>e. \A a, i : Execute(a, i) => at' = a /\ task'.state = "scheduled"
  BY DEF Execute, NoTask
<1>k. at # "intake_and_plan" => run' = run /\ run # NoRun
  BY KnownRun DEF IntakeAnswered, ApproveAnswered, DispatchAnswered, RecordPrAnswered,
                  EndingAnswered, CompensationAnswered, Answered
<1> USE DEF PhaseInv, PhaseFacts, StageFacts
<1>3. CASE IntakeAnswered
  <2>1. /\ at = "intake_and_plan" /\ run' = task.answer /\ known' = status[task.answer]
        /\ \/ known' = "waiting_approval" /\ at' = "await_approval"
           \/ known' # "waiting_approval" /\ at' = "completed"
        /\ task'.state = "none"
    BY <1>3, <1>b DEF IntakeAnswered, Answered
  <2>2. task.answer \in Runs /\ status[task.answer] # NoStatus /\ run' # NoRun
    BY <1>1, <2>1, LifecycleAssumption DEF WorkflowInv, IntakeAnswers
  <2>3. known' \in {"waiting_approval", "needs_clarification", "blocked"}
    BY <2>1, <2>2 DEF BeforeApproval
  <2>4. OnlyIntakes' /\ status'[run'] = known'
    BY <1>2, <2>1 DEF BeforeApproval, OnlyIntakes, RunsRest
  <2> QED
    BY <1>2, <2>1, <2>2, <2>3, <2>4, Families
    DEF TaskFacts, BeforeApproval, AfterApproval, AfterDispatch, StillTrue, EndingsEnd,
        Closing, EventsComeLast, BeforeDispatch, Open, Activities
<1>4. CASE ApproveAnswered
  <2>1. /\ at = "approve" /\ known' = known
        /\ at' = "dispatch_agent" /\ task'.state = "scheduled"
    BY <1>4, <1>e DEF ApproveAnswered, Answered
  <2>2. NoRetries'
    BY <1>2, <2>1 DEF BeforeApproval, OnlyIntakes, NoRetries, RunsRest
  <2> QED
    BY <1>1, <1>2, <1>k, <2>1, <2>2
    DEF TaskFacts, BeforeApproval, AfterApproval, AfterDispatch, EndingsEnd,
        Closing, EventsComeLast, BeforeDispatch, Open, Activities, PartlySigned, RunsRest
<1>5. CASE DispatchAnswered
  <2>1. /\ at = "dispatch_agent" /\ known' = status[run]
        /\ \/ known' = "agent_running" /\ at' = "await_pr"
           \/ known' # "agent_running" /\ at' = "completed"
        /\ task'.state = "none"
    BY <1>5, <1>b DEF DispatchAnswered, Answered
  <2>2. PartlySigned(run) \/ status[run] \in {"agent_running"} \cup TerminalStatuses
    BY <1>1, <2>1 DEF AfterApproval
  <2> QED
    BY <1>2, <1>k, <2>1, <2>2, Families
    DEF TaskFacts, BeforeApproval, AfterApproval, AfterDispatch, StillTrue, EndingsEnd,
        Closing, EventsComeLast, BeforeDispatch, Open, Activities, PartlySigned, RunsRest
<1>6. CASE RecordPrAnswered
  <2>1. /\ at = "record_pr" /\ known' = task.answer
        /\ \/ known' \in PrObservableStatuses /\ at' = "await_pr"
           \/ known' \notin PrObservableStatuses /\ at' = "completed"
        /\ task'.state = "none"
    BY <1>6, <1>b DEF RecordPrAnswered, Answered, KeepObserving
  <2>2. /\ processed > 0 /\ StillTrue(known', status[run])
        /\ status[run] \in PrObservableStatuses \cup TerminalStatuses
    BY <1>1, <2>1 DEF AfterDispatch
  <2>3. status'[run'] = status[run]
    BY <1>2, <1>k, <2>1 DEF RunsRest
  <2> QED
    BY <1>2, <1>k, <2>1, <2>2, <2>3, Families
    DEF TaskFacts, BeforeApproval, AfterApproval, AfterDispatch, StillTrue, EndingsEnd,
        Closing, EventsComeLast, BeforeDispatch, Open, Activities
<1>7. CASE EndingAnswered \/ CompensationAnswered
  <2>1. /\ at \in {"reject", "stop", "expire_approval", "expire_pr", "fail_run"}
        /\ known' = status[run] \/ (known' = task.answer
                                    /\ at \in {"expire_approval", "expire_pr", "fail_run"})
        /\ at' \in {"completed", "failed"} /\ task'.state = "none"
    BY <1>7, <1>b DEF EndingAnswered, CompensationAnswered, Answered
  <2>2. status[run] \in TerminalStatuses /\ known' = status[run]
    BY <1>1, <2>1 DEF EndingsEnd
  <2>3. status'[run'] = status[run]
    BY <1>2, <1>k, <2>1 DEF RunsRest
  <2> QED
    BY <1>2, <1>k, <2>1, <2>2, <2>3
    DEF TaskFacts, BeforeApproval, AfterApproval, AfterDispatch, StillTrue, EndingsEnd,
        Closing, EventsComeLast, BeforeDispatch, Open, Activities
<1> QED
  BY <1>3, <1>4, <1>5, <1>6, <1>7

\* A wait ends, or a signal comes.
LEMMA PhaseWaits ==
  ASSUME PhaseInv,
         \/ HandleDecision \/ ApprovalWindowCloses \/ PrWindowCloses
         \/ \E e \in PrEvents \cup {Malformed} : HandlePr(e)
         \/ \E d \in Decisions : SubmitDecision(d)
         \/ PrObserved
         \/ UNCHANGED durableVars
  PROVE  StageFacts'
<1> USE DEF PhaseInv, PhaseFacts, StageFacts
<1>2. RunsRest /\ UNCHANGED <<run, known>>
  BY DEF RunsRest, vars, HandleDecision, ApprovalWindowCloses, PrWindowCloses, HandlePr,
         SubmitDecision, PrObserved, durableVars, workflowVars
<1>b. \A p : Become(p) => at' = p /\ task'.state = "none"
  BY DEF Become, NoTask
<1>e. \A a, i : Execute(a, i) => at' = a /\ task'.state = "scheduled"
  BY DEF Execute, NoTask
<1>k. at \in {"await_approval", "await_pr"} => run # NoRun
  BY KnownRun
<1>3. CASE HandleDecision \/ ApprovalWindowCloses
  <2>1. /\ at = "await_approval" /\ processed' = processed
        /\ at' \in {"approve", "reject", "stop", "expire_approval"}
        /\ task'.state = "scheduled"
    BY <1>3, <1>e
    DEF HandleDecision, ApprovalWindowCloses, WorkflowInv, WorkflowTypeOK, Decisions
  <2>2. OnlyIntakes' /\ status'[run'] = "waiting_approval"
    BY <1>2, <2>1 DEF BeforeApproval, OnlyIntakes, RunsRest
  <2> QED
    BY <1>2, <2>1, <2>2
    DEF TaskFacts, BeforeApproval, AfterApproval, AfterDispatch, EndingsEnd,
        Closing, EventsComeLast, BeforeDispatch, Open, Activities
<1>4. ASSUME NEW e \in PrEvents \cup {Malformed}, HandlePr(e) PROVE StageFacts'
  <2>1. /\ at = "await_pr" /\ processed' \in Nat /\ processed' > 0
        /\ at' = "record_pr" /\ task'.state = "scheduled"
    BY <1>4, <1>e DEF HandlePr, EventsComeLast
  <2>2. status'[run'] \in PrObservableStatuses
    BY <1>2, <2>1, Families DEF AfterDispatch, StillTrue, RunsRest
  <2> QED
    BY <1>2, <2>1, <2>2
    DEF TaskFacts, BeforeApproval, AfterApproval, AfterDispatch, EndingsEnd,
        Closing, EventsComeLast, BeforeDispatch, Open, Activities
<1>5. CASE PrWindowCloses
  <2>1. /\ at = "await_pr" /\ processed' = processed
        /\ \/ processed = 0 /\ at' = "expire_pr" /\ task'.state = "scheduled"
           \/ processed > 0 /\ at' = "completed" /\ task'.state = "none"
    BY <1>5, <1>b, <1>e DEF PrWindowCloses, EventsComeLast
  <2>2. /\ status[run] \in PrObservableStatuses /\ StillTrue(known, status[run])
        /\ processed = 0 => status[run] = "agent_running"
    BY <2>1, Families DEF AfterDispatch, StillTrue
  <2>3. status'[run'] = status[run]
    BY <1>2 DEF RunsRest
  <2> QED
    BY <1>2, <1>k, <2>1, <2>2, <2>3
    DEF TaskFacts, BeforeApproval, AfterApproval, AfterDispatch, StillTrue, EndingsEnd,
        Closing, EventsComeLast, BeforeDispatch, Open, Activities
<1>6. CASE (\E d \in Decisions : SubmitDecision(d)) \/ PrObserved \/ UNCHANGED durableVars
  <2>1. UNCHANGED <<at, task, processed>>
    BY <1>6 DEF SubmitDecision, PrObserved, durableVars, workflowVars
  <2> QED
    BY <1>2, <2>1
    DEF TaskFacts, BeforeApproval, AfterApproval, AfterDispatch, StillTrue, EndingsEnd,
        Closing, EventsComeLast, BeforeDispatch, Open, Activities, OnlyIntakes, NoRetries,
              PartlySigned, RunsRest
<1> QED
  BY <1>3, <1>4, <1>5, <1>6

-----------------------------------------------------------------------------
(* Calls that have yet to begin, through the steps of the workflow           *)

\* Whatever becomes of its run, a call goes on fitting while the workflow asks
\* for the same activity.
LEMMA HeldKeeps ==
  ASSUME PhaseInv, DriverStep, UNCHANGED <<at, run, processed>>,
         task'.input = task.input,
         \A v \in Workers : held'[v] = held[v] \/ held'[v] = NoCall
  PROVE  HeldFacts'
<1> SUFFICES ASSUME NEW v \in Workers, NEW c \in LateCalls, held'[v] = c
             PROVE  LateCallFits(c)'
  BY DEF HeldFacts
<1>1. CASE c = NoCall
  BY <1>1 DEF LateCallFits, NoCall
<1>2. CASE held[v] = c
  <2>1. LateCallFits(c) /\ (c.at \notin {"none", "intake_and_plan"} => run \in Runs)
    BY <1>2, KnownRun DEF PhaseInv, PhaseFacts, HeldFacts, WorkflowInv, HeldFits
  <2>2. run \in Runs => /\ approvers[run] \subseteq approvers'[run]
                        /\ status[run] \in TerminalStatuses => status'[run] = status[run]
    BY RunsOnlyGrow DEF PhaseInv
  <2> QED
    BY <2>1, <2>2 DEF LateCallFits
<1> QED
  BY <1>1, <1>2

\* A thread picks up an attempt, steps or dies, or a late call begins.
LEMMA HeldThreads ==
  ASSUME PhaseInv, DriverStep, NEW w \in Workers,
         \/ Start(w) \/ ThreadStep(w) \/ ThreadDies(w)
         \/ BeginLate(w) \/ LateCallDies(w)
  PROVE  HeldFacts'
<1>t. task \in TaskRecords /\ held \in [Workers -> LateCalls]
  BY DEF PhaseInv, WorkflowInv, WorkflowTypeOK, HeldFits
<1>1. UNCHANGED <<at, run, processed>>
  BY DEF Start, StartIntake, StartApprove, StartDispatch, StartTerminate, StartRecordPr,
         StartExpire, StartFailRun, PickUp, ThreadStep, ThreadDies, BeginLate, LateCallDies,
         workflowVars
<1>2. task'.input = task.input
  <2>1. CASE Start(w)
    <3>1. (\E x : Returned(x)) \/ Running(w) \/ Refused
      BY <2>1 DEF Start, StartIntake, StartApprove, StartDispatch, StartTerminate,
             StartRecordPr, StartExpire, StartFailRun
    <3> QED
      BY <1>t, <3>1 DEF Returned, Running, Refused, TaskRecords
  <2>2. CASE ThreadStep(w) \/ ThreadDies(w)
    BY <1>t, <2>2 DEF ThreadStep, ThreadDies, workflowVars, Returned, TaskRecords
  <2>3. CASE BeginLate(w) \/ LateCallDies(w)
    BY <2>3 DEF BeginLate, LateCallDies
  <2> QED
    BY <2>1, <2>2, <2>3
<1>3. held' = held \/ held' = [held EXCEPT ![w] = NoCall]
  BY DEF Start, StartIntake, StartApprove, StartDispatch, StartTerminate, StartRecordPr,
         StartExpire, StartFailRun, PickUp, ThreadStep, ThreadDies, BeginLate, LateCallDies,
         workflowVars
<1>4. \A v \in Workers : held'[v] = held[v] \/ held'[v] = NoCall
  BY <1>t, <1>3
<1> QED
  BY <1>1, <1>2, <1>4, HeldKeeps

\* An attempt is lost before it began, or given up for another reason.
LEMMA HeldVerdict ==
  ASSUME PhaseInv,
         \/ AttemptTimesOut \/ AttemptRaised \/ AttemptRefused
         \/ \E w \in Workers : AttemptStalls(w)
  PROVE  HeldFacts'
<1>t. task \in TaskRecords /\ held \in [Workers -> LateCalls] /\ StageFacts /\ HeldFacts
  BY DEF PhaseInv, WorkflowInv, WorkflowTypeOK, HeldFits, PhaseFacts
<1>1. /\ UNCHANGED <<run, processed, status, approvers>>
      /\ \/ ActivityFails
         \/ at' = at /\ task'.input = task.input
  BY <1>t DEF AttemptTimesOut, AttemptStalls, AttemptRaised, AttemptRefused, RetryOrFail, vars,
              TaskRecords
<1>2. ActivityFails => at' \in Compensating
  BY DEF ActivityFails, Execute, Become, Compensating
<1>3. at = "record_pr" => processed > 0
  BY <1>t DEF StageFacts, AfterDispatch
<1>4. at' \in Compensating => at' \notin BeforeDispatch \cup {"approve", "record_pr"}
  BY DEF Compensating, BeforeDispatch
<1> SUFFICES ASSUME NEW v \in Workers, NEW c \in LateCalls, held'[v] = c
             PROVE  LateCallFits(c)'
  BY DEF HeldFacts
<1>5. held[v] = c \/ (c.at = at /\ c.input = task.input)
  <2>1. held' = held \/ \E w \in Workers :
                          held' = [held EXCEPT ![w] = [at |-> at, input |-> task.input]]
    BY DEF AttemptTimesOut, AttemptStalls, AttemptRaised, AttemptRefused
  <2> QED
    BY <1>t, <2>1
<1>6. CASE c.at = at /\ c.input = task.input
  BY <1>1, <1>2, <1>3, <1>4, <1>6 DEF LateCallFits
<1>7. CASE held[v] = c
  <2>1. LateCallFits(c)
    BY <1>t, <1>7 DEF HeldFacts
  <2> QED
    BY <1>1, <1>2, <1>4, <2>1 DEF LateCallFits
<1> QED
  BY <1>5, <1>6, <1>7

\* run() reads an answer: what it tells of the run leaves the calls of the
\* activity that have yet to begin nothing to do.
LEMMA HeldAnswered ==
  ASSUME PhaseInv,
         \/ IntakeAnswered \/ ApproveAnswered \/ DispatchAnswered \/ RecordPrAnswered
         \/ EndingAnswered \/ CompensationAnswered
  PROVE  HeldFacts'
<1>1. /\ task.state = "returned" /\ UNCHANGED <<held, processed, status, approvers>>
      /\ at # "intake_and_plan" => run' = run
  BY DEF IntakeAnswered, ApproveAnswered, DispatchAnswered, RecordPrAnswered, EndingAnswered,
         CompensationAnswered, Answered, vars
<1>t. StageFacts /\ HeldFacts /\ HeldFits
  BY DEF PhaseInv, PhaseFacts, WorkflowInv
<1> SUFFICES ASSUME NEW v \in Workers, NEW c \in LateCalls, held[v] = c
             PROVE  LateCallFits(c)'
  BY <1>1 DEF HeldFacts
<1>2. LateCallFits(c) /\ c.at \in Activities \cup {"none"}
  BY <1>t DEF HeldFacts, LateCalls
<1>3. CASE IntakeAnswered
  <2>1. c.at \in {"none", "intake_and_plan"}
    BY <1>2, <1>3 DEF IntakeAnswered, Answered, LateCallFits, BeforeDispatch
  <2> QED
    BY <2>1 DEF LateCallFits
<1>4. CASE ApproveAnswered
  <2>1. at = "approve" /\ at' = "dispatch_agent" /\ run' = run
    BY <1>1, <1>4 DEF ApproveAnswered, Answered, Execute
  <2>2. c.at \in {"none", "intake_and_plan", "approve"}
    BY <1>2, <2>1 DEF LateCallFits, BeforeDispatch
  <2>3. c.at = "approve" => c.input \in approvers[run]
    BY <1>1, <1>2, <1>t, <2>1 DEF LateCallFits, StageFacts, AfterApproval, Compensating
  <2> QED
    BY <1>1, <2>1, <2>2, <2>3 DEF LateCallFits, BeforeDispatch
<1>5. CASE DispatchAnswered
  <2>1. at = "dispatch_agent" /\ at' \in {"await_pr", "completed"} /\ run' = run
    BY <1>1, <1>5 DEF DispatchAnswered, Answered, Become
  <2>2. at' \notin BeforeDispatch /\ at \notin {"approve", "record_pr"} \cup Compensating
    BY <2>1 DEF BeforeDispatch, Compensating
  <2>3. c.at \in {"reject", "stop", "expire_approval", "expire_pr", "fail_run"} => at # c.at
    BY <2>1
  <2> QED
    BY <1>1, <1>2, <2>1, <2>2, <2>3 DEF LateCallFits
<1>6. CASE RecordPrAnswered
  <2>1. at = "record_pr" /\ at' \in {"await_pr", "completed"} /\ run' = run
    BY <1>1, <1>6 DEF RecordPrAnswered, Answered, Become
  <2>2. at' \notin BeforeDispatch /\ at \notin {"approve"} \cup Compensating
    BY <2>1 DEF BeforeDispatch, Compensating
  <2>3. c.at \in {"reject", "stop", "expire_approval", "expire_pr", "fail_run"} => at # c.at
    BY <2>1
  <2>4. Harmless(task.input) \/ status[run] \in TerminalStatuses
    BY <1>1, <1>t, <2>1 DEF StageFacts, AfterDispatch, StillTrue
  <2> QED
    BY <1>1, <1>2, <2>1, <2>2, <2>3, <2>4 DEF LateCallFits
<1>7. CASE EndingAnswered \/ CompensationAnswered
  <2>1. /\ at \in {"reject", "stop", "expire_approval", "expire_pr", "fail_run"}
        /\ at' \in {"completed", "failed"} /\ run' = run
        /\ at = "fail_run" => at' = "failed"
    BY <1>1, <1>7 DEF EndingAnswered, CompensationAnswered, Answered, Become
  <2>2. status[run] \in TerminalStatuses
    BY <1>1, <1>t, <2>1 DEF StageFacts, EndingsEnd
  <2>3. at' \notin BeforeDispatch /\ (at \in Compensating => at' \in Compensating)
    BY <2>1 DEF BeforeDispatch, Compensating
  <2>4. at \notin {"approve", "record_pr"}
    BY <2>1
  <2> QED
    BY <1>1, <1>2, <2>1, <2>2, <2>3, <2>4 DEF LateCallFits
<1> QED
  BY <1>3, <1>4, <1>5, <1>6, <1>7

\* A wait ends, or a signal comes.
LEMMA HeldWaits ==
  ASSUME PhaseInv,
         \/ HandleDecision \/ ApprovalWindowCloses \/ PrWindowCloses
         \/ \E e \in PrEvents \cup {Malformed} : HandlePr(e)
         \/ \E d \in Decisions : SubmitDecision(d)
         \/ PrObserved
         \/ UNCHANGED durableVars
  PROVE  HeldFacts'
<1>1. UNCHANGED <<held, run, status, approvers>>
  BY DEF HandleDecision, ApprovalWindowCloses, PrWindowCloses, HandlePr, SubmitDecision,
         PrObserved, durableVars, workflowVars, vars
<1>t. StageFacts /\ HeldFacts /\ HeldFits
  BY DEF PhaseInv, PhaseFacts, WorkflowInv
<1> SUFFICES ASSUME NEW v \in Workers, NEW c \in LateCalls, held[v] = c
             PROVE  LateCallFits(c)'
  BY <1>1 DEF HeldFacts
<1>2. LateCallFits(c) /\ c.at \in Activities \cup {"none"}
  BY <1>t DEF HeldFacts, LateCalls
<1>3. CASE HandleDecision \/ ApprovalWindowCloses
  <2>1. at = "await_approval"
    BY <1>3 DEF HandleDecision, ApprovalWindowCloses
  <2>2. c.at \in {"none", "intake_and_plan"}
    BY <1>2, <2>1 DEF LateCallFits, BeforeDispatch, Activities
  <2> QED
    BY <2>2 DEF LateCallFits
<1>4. CASE PrWindowCloses \/ \E e \in PrEvents \cup {Malformed} : HandlePr(e)
  <2>1. /\ at = "await_pr" /\ at' \in {"record_pr", "expire_pr", "completed"}
        /\ processed' = processed \/ processed' = processed + 1
    BY <1>4 DEF PrWindowCloses, HandlePr, Execute, Become
  <2>2. processed > 0 => processed' > 0
    BY <1>t, <2>1 DEF StageFacts, EventsComeLast
  <2>3. at' \notin BeforeDispatch /\ at \notin {"approve", "record_pr"} \cup Compensating
    BY <2>1 DEF BeforeDispatch, Compensating
  <2>4. c.at \in {"reject", "stop", "expire_approval", "expire_pr", "fail_run"} => at # c.at
    BY <2>1
  <2> QED
    BY <1>1, <1>2, <2>2, <2>3, <2>4 DEF LateCallFits
<1>5. CASE (\E d \in Decisions : SubmitDecision(d)) \/ PrObserved \/ UNCHANGED durableVars
  <2>1. UNCHANGED <<at, task, processed>>
    BY <1>5 DEF SubmitDecision, PrObserved, durableVars, workflowVars
  <2> QED
    BY <1>1, <1>2, <2>1 DEF LateCallFits
<1> QED
  BY <1>3, <1>4, <1>5

LEMMA PhaseInit == WorkflowInit => PhaseFacts
<1> SUFFICES ASSUME WorkflowInit PROVE PhaseFacts
  OBVIOUS
<1>1. task.state = "scheduled"
  BY DEF WorkflowInit, NoTask
<1>2. OnlyIntakes
  BY DEF WorkflowInit, Init, OnlyIntakes, Idle
<1>3. known \notin TerminalStatuses
  BY DEF WorkflowInit, TerminalStatuses
<1>4. StageFacts
  BY <1>1, <1>2, <1>3
  DEF WorkflowInit, Init, StageFacts, EventsComeLast, TaskFacts, BeforeApproval, AfterApproval,
      AfterDispatch, EndingsEnd, Closing, Activities
<1>5. HeldFacts
  BY DEF WorkflowInit, HeldFacts, LateCallFits, NoCall
<1> QED
  BY <1>4, <1>5 DEF PhaseFacts

LEMMA PhaseNext ==
  ASSUME "provider" \notin Faults
  PROVE  DurableInv /\ SettledInv /\ PhaseFacts /\ [WorkflowNext]_durableVars
           => SettledInv' /\ PhaseFacts'
<1> SUFFICES ASSUME DurableInv, SettledInv, PhaseFacts, [WorkflowNext]_durableVars
             PROVE  SettledInv' /\ PhaseFacts'
  OBVIOUS
<1>1. SettledInv'
  BY DurableNext, SettledDriver
<1>2. PhaseInv
  BY DEF DurableInv, PhaseInv
<1>3. DriverStep
  BY DurableNext
<1>4. StageFacts'
  BY <1>2, PhaseStart, PhaseThread, PhaseLate, PhaseVerdict, PhaseAnswered, PhaseWaits
  DEF WorkflowNext, Progress
<1>5. HeldFacts'
  BY <1>2, <1>3, HeldThreads, HeldVerdict, HeldAnswered, HeldWaits DEF WorkflowNext, Progress
<1> QED
  BY <1>1, <1>4, <1>5 DEF PhaseFacts

-----------------------------------------------------------------------------
(* How the workflow ends                                                     *)

\* A workflow that completes leaves its run finished, or observed by a
\* delivered pull request, or waiting for the sign-offs that are missing: no
\* overlap of attempts and no lost answer makes it end with a run that is
\* approved and undispatched, or dispatched and unobserved.
THEOREM CompletedRunsSettle ==
  ASSUME "provider" \notin Faults
  PROVE  DurableSpec => []CompletedRunsAreSettled
<1>1. Closing => CompletedRunsAreSettled
  BY Families DEF Closing, PartlySigned, CompletedRunsAreSettled
<1>2. DurableInv /\ SettledInv /\ PhaseFacts /\ [WorkflowNext]_durableVars
        => DurableInv' /\ SettledInv' /\ PhaseFacts'
  BY DurableNext, PhaseNext
<1>3. WorkflowInit => SettledInv
  BY SettledInit DEF WorkflowInit
<1>4. PhaseFacts => Closing
  BY DEF PhaseFacts, StageFacts
<1> QED
  BY <1>1, <1>2, <1>3, <1>4, DurableInit, PhaseInit, PTL DEF DurableSpec

\* What a closed workflow reports of its run stays true of it, whatever the
\* attempts that were given up for lost still do, but for the two exceptions
\* that ResultMatchesRun names.
THEOREM ResultsMatch ==
  ASSUME "provider" \notin Faults
  PROVE  DurableSpec => []ResultMatchesRun
<1>1. Closing /\ processed \in Nat => ResultMatchesRun
  <2> SUFFICES ASSUME Closing, processed \in Nat, at \in {"completed", "failed"}, run # NoRun
               PROVE  \/ known = status[run]
                      \/ at = "failed" /\ known \notin TerminalStatuses
                      \/ processed > 0 /\ {known, status[run]} \subseteq PrObservableStatuses
    BY DEF ResultMatchesRun
  <2>1. CASE at = "failed"
    BY <2>1 DEF Closing
  <2>2. CASE at = "completed"
    BY <2>2, Families DEF Closing, StillTrue, PartlySigned
  <2> QED
    BY <2>1, <2>2
<1>2. DurableInv /\ SettledInv /\ PhaseFacts /\ [WorkflowNext]_durableVars
        => DurableInv' /\ SettledInv' /\ PhaseFacts'
  BY DurableNext, PhaseNext
<1>3. WorkflowInit => SettledInv
  BY SettledInit DEF WorkflowInit
<1>4. PhaseFacts => Closing /\ processed \in Nat
  BY DEF PhaseFacts, StageFacts, EventsComeLast
<1> QED
  BY <1>1, <1>2, <1>3, <1>4, DurableInit, PhaseInit, PTL DEF DurableSpec
-----------------------------------------------------------------------------
(* One agent per dispatch                                                    *)

LEMMA RowsFollowDispatchDriver ==
  ASSUME AuthorityInv, RowsFollowDispatch, DriverStep
  PROVE  RowsFollowDispatch'
<1> USE DEF AuthorityInv, TypeInv, TypeOK
<1>r. \A v \in Workers : worker[v].pc \in Claiming => worker[v].run \in Runs
  BY DEF BusyWorkersHaveARun, Claiming
<1>1. ASSUME NEW r \in Runs, NEW u \in Users, SignOff(r, u), UNCHANGED worker
      PROVE  RowsFollowDispatch'
  <2>1. /\ jobs' = jobs /\ status[r] = "waiting_approval"
        /\ \A q \in Runs : status'[q] = status[q] \/ (q = r /\ status'[q] = "approved")
    BY <1>1, SetStatusEffect DEF SignOff, MayApprove, KeepStatus
  <2>2. \A q \in Runs :
          /\ status'[q] \in Undispatched => status[q] \in Undispatched
          /\ status[q] \notin Unsigned => status'[q] = status[q]
    BY <2>1 DEF Undispatched, Unsigned
  <2>3. \A q \in Runs : status[q] \notin Undispatched => status'[q] = status[q]
    BY <2>2 DEF Undispatched
  <2> QED
    BY <1>1, <1>r, <2>1, <2>2, <2>3 DEF RowsFollowDispatch
<1>2. ASSUME NEW w \in Workers, NEW r \in Runs, EntersDispatch(w, r)
      PROVE  RowsFollowDispatch'
  <2>1. UNCHANGED <<status, jobs>>
    BY <1>2 DEF EntersDispatch
  <2>2. \A v \in Workers : worker'[v].pc \in Claiming => worker'[v] = worker[v]
    BY <1>2 DEF EntersDispatch, Begin, Idle, Claiming
  <2> QED
    BY <2>1, <2>2 DEF RowsFollowDispatch
<1> QED
  BY <1>1, <1>2, RowsFollowDispatchNext DEF DriverStep

\* No two rows of a run say that an agent is running.
OneRunning(r) ==
  \A i, j \in 1..Len(jobs[r]) :
    jobs[r][i].status = "running" /\ jobs[r][j].status = "running" => i = j

\* The claim that is recorded first gets the run; a job recorded later is
\* cancelled on the way.
LEMMA RecordKeepsOneRunning ==
  ASSUME "cancel" \notin Faults, TypeInv, RowsFollowDispatch, NoRetries,
         NEW w \in Workers, Continue(w), NEW q \in Runs, OneRunning(q)
  PROVE  OneRunning(q)'
<1> USE DEF TypeInv, TypeOK
<1>1. CASE UNCHANGED jobs
  BY <1>1 DEF OneRunning
<1>2. CASE RecordDispatch(w)
  <2> DEFINE r == worker[w].run
             n == worker[w].job
  <2>r. r \in Runs
    BY <1>2 DEF RecordDispatch, BusyWorkersHaveARun
  <2>1. \/ /\ status[r] = "approved" /\ AddJob(r, n, "running")
        \/ AddJob(r, n, "cancelled")
    BY <1>2 DEF RecordDispatch, RecordJob, RecordSuperseded
  <2>2. CASE q # r
    <3>1. jobs'[q] = jobs[q]
      BY <2>1, <2>2 DEF AddJob
    <3> QED
      BY <3>1 DEF OneRunning
  <2>3. CASE q = r /\ status[r] = "approved" /\ AddJob(r, n, "running")
    <3>1. jobs[q] = <<>>
      BY <2>3 DEF RowsFollowDispatch, Undispatched
    <3>2. jobs'[q] = Append(<<>>, [id |-> n, status |-> "running"])
      BY <2>r, <2>3, <3>1 DEF AddJob
    <3>3. Len(jobs'[q]) = 1
      BY <3>2
    <3> QED
      BY <3>3 DEF OneRunning
  <2>4. CASE q = r /\ AddJob(r, n, "cancelled")
    <3> DEFINE x == [id |-> n, status |-> "cancelled"]
               old == jobs[q]
    <3>1. old \in Seq(JobRows) /\ jobs'[q] = Append(old, x) /\ x.status = "cancelled"
      BY <2>r, <2>4 DEF AddJob
    <3>2. x \in JobRows
      BY <2>r DEF JobRows, JobStatuses, WorkerStates
    <3>3. \A i, j \in 1..Len(old) :
            old[i].status = "running" /\ old[j].status = "running" => i = j
      BY DEF OneRunning
    <3> HIDE DEF x, old
    <3>4. /\ Len(jobs'[q]) = Len(old) + 1
          /\ \A i \in 1..Len(old) : jobs'[q][i] = old[i]
          /\ jobs'[q][Len(old) + 1] = x
          /\ Len(old) \in Nat
      BY <3>1, <3>2, AppendProperties
    <3>5. \A i \in 1..Len(jobs'[q]) : i \in 1..Len(old) \/ i = Len(old) + 1
      BY <3>4
    <3>6. \A i \in 1..Len(jobs'[q]) :
            jobs'[q][i].status = "running" => i \in 1..Len(old) /\ old[i].status = "running"
      BY <3>1, <3>4, <3>5
    <3> QED
      BY <3>3, <3>6 DEF OneRunning
  <2> QED
    BY <2>1, <2>2, <2>3, <2>4
<1>3. ~RecordRemediation(w)
  BY DEF RecordRemediation, NoRetries
<1> QED
  BY <1>1, <1>2, <1>3
  DEF Continue, IntakeInsert, DispatchGate, DispatchToProvider, RecordDispatchFailure, Remediate

OneJobInv ==
  /\ RowsFollowDispatch
  /\ at = "dispatch_agent" => OneRunning(run)

LEMMA OneJobNext ==
  ASSUME "cancel" \notin Faults
  PROVE  DurableInv /\ PhaseInv /\ OneJobInv /\ [WorkflowNext]_durableVars => OneJobInv'
<1> SUFFICES ASSUME DurableInv, PhaseInv, OneJobInv, [WorkflowNext]_durableVars
             PROVE  OneJobInv'
  OBVIOUS
<1> USE DEF PhaseInv, PhaseFacts, StageFacts, OneJobInv
<1>a. AuthorityInv /\ TypeInv
  BY DEF SettledInv, AuthorityInv
<1>1. RowsFollowDispatch'
  BY <1>a, DurableNext, RowsFollowDispatchDriver
<1>2. ASSUME at' = "dispatch_agent" PROVE OneRunning(run)'
  <2>1. CASE at = "dispatch_agent" /\ UNCHANGED <<run, jobs>>
    BY <2>1 DEF OneRunning
  <2>2. ASSUME NEW w \in Workers, Continue(w), at = "dispatch_agent", run' = run
        PROVE  OneRunning(run)'
    <3>1. NoRetries /\ run \in Runs
      BY <2>2, KnownRun DEF AfterApproval
    <3>2. \A q \in Runs : OneRunning(q) => OneRunning(q)'
      BY <1>a, <2>2, <3>1, RecordKeepsOneRunning
    <3> QED
      BY <2>2, <3>1, <3>2 DEF OneRunning
  <2>3. CASE ApproveAnswered
    <3>1. at = "approve" /\ UNCHANGED <<run, jobs>> /\ run \in Runs
      BY <2>3, KnownRun DEF ApproveAnswered, Answered, vars
    <3>2. jobs[run] = <<>>
      BY <3>1 DEF AfterApproval, RowsFollowDispatch, Undispatched, Unsigned
    <3>3. Len(jobs'[run']) = 0
      BY <3>1, <3>2
    <3> QED
      BY <3>3 DEF OneRunning
  <2>4. ASSUME NEW w \in Workers, Start(w) PROVE at = "dispatch_agent" /\ UNCHANGED <<run, jobs>>
    <3>1. at = "dispatch_agent" /\ run' = run
      BY <1>2, <2>4 DEF Start, StartIntake, StartApprove, StartDispatch, StartTerminate,
             StartRecordPr, StartExpire, StartFailRun, PickUp
    <3>2. StartDispatch(w)
      BY <2>4, <3>1 DEF Start, StartIntake, StartApprove, StartTerminate,
             StartRecordPr, StartExpire, StartFailRun, PickUp
    <3> QED
      BY <3>1, <3>2 DEF StartDispatch, EnterDispatch
  <2>5. ASSUME NEW w \in Workers, ThreadStep(w) \/ ThreadDies(w)
        PROVE  /\ at = "dispatch_agent" /\ run' = run
               /\ Continue(w) \/ UNCHANGED jobs
    BY <1>2, <2>5 DEF ThreadStep, ThreadDies, Crash, workflowVars
  <2>6. ASSUME \/ AttemptTimesOut \/ AttemptRaised \/ AttemptRefused
               \/ \E w \in Workers : AttemptStalls(w)
        PROVE  at = "dispatch_agent" /\ UNCHANGED <<run, jobs>>
    BY <1>2, <2>6 DEF AttemptTimesOut, AttemptStalls, AttemptRaised, AttemptRefused, RetryOrFail,
           ActivityFails, Execute, Become, vars
  <2>7. ~IntakeAnswered /\ ~DispatchAnswered /\ ~RecordPrAnswered /\ ~EndingAnswered
        /\ ~CompensationAnswered
    BY <1>2 DEF IntakeAnswered, DispatchAnswered, RecordPrAnswered, EndingAnswered,
           CompensationAnswered, Become
  <2>8. /\ ~HandleDecision /\ ~ApprovalWindowCloses /\ ~PrWindowCloses
        /\ ~(\E e \in PrEvents \cup {Malformed} : HandlePr(e))
    BY <1>2 DEF HandleDecision, ApprovalWindowCloses, PrWindowCloses, HandlePr, Execute, Become,
           WorkflowInv, WorkflowTypeOK, Decisions, NoDecision
  <2>9. ASSUME (\E d \in Decisions : SubmitDecision(d)) \/ PrObserved \/ UNCHANGED durableVars
        PROVE  at = "dispatch_agent" /\ UNCHANGED <<run, jobs>>
    BY <1>2, <2>9 DEF SubmitDecision, PrObserved, durableVars, workflowVars, vars
  <2>10. ASSUME NEW w \in Workers, BeginLate(w) \/ LateCallDies(w)
         PROVE  at = "dispatch_agent" /\ UNCHANGED <<run, jobs>>
    <3>1. at = "dispatch_agent" /\ run' = run
      BY <1>2, <2>10 DEF BeginLate, LateCallDies
    <3>2. LateCallFits(held[w])
      BY DEF HeldFacts, HeldFits, WorkflowInv
    <3>3. \/ held[w].at \notin {"reject", "stop", "expire_approval", "expire_pr", "fail_run"}
          \/ status[run] \in TerminalStatuses
      BY <3>1, <3>2 DEF LateCallFits, Compensating
    <3>4. held[w].at # "record_pr"
      BY <3>1, <3>2 DEF LateCallFits, EventsComeLast
    <3>5. status[run] \in TerminalStatuses =>
            status[run] \notin ActiveStatuses \cup {"waiting_approval", "agent_running"}
      BY DEF TerminalStatuses, ActiveStatuses
    <3> QED
      BY <2>10, <3>1, <3>3, <3>4, <3>5
      DEF BeginLate, LateCallDies, vars, IntakeStart, SignOff, EnterDispatch, Reject, Stop,
          Terminate, ExpirePendingApproval, ExpirePendingPr, ExpireWait, FailRun
  <2> QED
    BY <2>1, <2>2, <2>3, <2>4, <2>5, <2>6, <2>7, <2>8, <2>9, <2>10 DEF WorkflowNext, Progress
<1> QED
  BY <1>1, <1>2

LEMMA OneRunningCounted ==
  ASSUME NEW r, OneRunning(r)
  PROVE  Cardinality({i \in 1..Len(jobs[r]) : jobs[r][i].status = "running"}) <= 1
<1> DEFINE S == {i \in 1..Len(jobs[r]) : jobs[r][i].status = "running"}
<1>1. \A i, j \in S : i = j
  BY DEF OneRunning
<1> HIDE DEF S
<1>2. CASE S = {}
  <2>1. Cardinality(S) = 0
    BY <1>2, FS_EmptySet
  <2> QED
    BY <2>1 DEF S
<1>3. CASE S # {}
  <2>1. PICK x : S = {x}
    BY <1>1, <1>3
  <2>2. Cardinality(S) = 1
    BY <2>1, FS_Singleton
  <2> QED
    BY <2>2 DEF S
<1> QED
  BY <1>2, <1>3

\* However many attempts a dispatch takes, and however they overlap, at most
\* one of the agents they launch is left running on the books, as long as the
\* provider answers and lets a job be cancelled.
THEOREM OneJobPerDispatch ==
  ASSUME "provider" \notin Faults, "cancel" \notin Faults
  PROVE  DurableSpec => []DispatchKeepsOneJob
<1>1. OneJobInv => DispatchKeepsOneJob
  BY OneRunningCounted DEF OneJobInv, DispatchKeepsOneJob
<1>2. DurableInv /\ PhaseInv /\ OneJobInv /\ [WorkflowNext]_durableVars
        => DurableInv' /\ PhaseInv' /\ OneJobInv'
  BY DurableNext, PhaseNext, OneJobNext DEF PhaseInv, DurableInv
<1>3. WorkflowInit => PhaseInv
  BY SettledInit, DurableInit, PhaseInit DEF WorkflowInit, PhaseInv, DurableInv
<1>4. WorkflowInit => OneJobInv
  BY DEF WorkflowInit, Init, OneJobInv, RowsFollowDispatch, Idle, Claiming
<1> QED
  BY <1>1, <1>2, <1>3, <1>4, DurableInit, PTL DEF DurableSpec
=============================================================================
