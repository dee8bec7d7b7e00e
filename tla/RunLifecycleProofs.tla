------------------------- MODULE RunLifecycleProofs -------------------------
(****************************************************************************)
(* Theorems about RunLifecycle, for every value of its constants.           *)
(****************************************************************************)
EXTENDS RunLifecycle, SequenceTheorems, FiniteSetTheorems, TLAPS

-----------------------------------------------------------------------------
(* Type correctness                                                          *)

\* A worker in the middle of a call works on some run.
BusyWorkersHaveARun ==
  \A w \in Workers : worker[w].pc # "idle" => worker[w].run \in Runs

TypeInv == TypeOK /\ BusyWorkersHaveARun

\* Changing the status of a run keeps the statuses and outcomes well typed.
LEMMA SetStatusType ==
  ASSUME TypeOK, NEW r \in Runs, NEW s \in RunStatuses, SetStatus(r, s)
  PROVE  /\ status' \in [Runs -> RunStatuses \cup {NoStatus}]
         /\ outcome' \in [Runs -> TerminalStatuses \cup {NoStatus}]
         /\ missed' \subseteq Runs
BY DEF TypeOK, SetStatus, RecordOutcome, RunStatuses

LEMMA KeepStatusType ==
  ASSUME TypeOK, KeepStatus
  PROVE  /\ status' \in [Runs -> RunStatuses \cup {NoStatus}]
         /\ outcome' \in [Runs -> TerminalStatuses \cup {NoStatus}]
         /\ missed' \subseteq Runs
BY DEF TypeOK, KeepStatus

\* Rewriting the status of the latest row of a run that has rows.
LEMMA SetLatestJobType ==
  ASSUME TypeOK, NEW r \in Runs, NEW s \in JobStatuses,
         Len(jobs[r]) > 0, SetLatestJob(r, s)
  PROVE  jobs' \in [Runs -> Seq(JobRows)]
<1> DEFINE i == Len(jobs[r])
           row == [jobs[r][i] EXCEPT !.status = s]
<1>1. jobs[r] \in Seq(JobRows) /\ i \in 1..Len(jobs[r])
  BY LenProperties DEF TypeOK
<1>2. jobs[r][i] \in JobRows
  BY <1>1
<1>3. row \in JobRows
  BY <1>2 DEF JobRows
<1>4. [jobs[r] EXCEPT ![i] = row] \in Seq(JobRows)
  BY <1>1, <1>3, ExceptSeq
<1>5. jobs' = [jobs EXCEPT ![r] = [jobs[r] EXCEPT ![i] = row]]
  BY <1>1 DEF SetLatestJob, TypeOK
<1> QED
  BY <1>4, <1>5 DEF TypeOK

\* Appending a row.
LEMMA AddJobType ==
  ASSUME TypeOK, NEW r \in Runs, NEW n \in Nat, NEW s \in JobStatuses, AddJob(r, n, s)
  PROVE  jobs' \in [Runs -> Seq(JobRows)]
<1>1. [id |-> n, status |-> s] \in JobRows
  BY DEF JobRows
<1>2. Append(jobs[r], [id |-> n, status |-> s]) \in Seq(JobRows)
  BY <1>1, AppendProperties DEF TypeOK
<1> QED
  BY <1>2 DEF AddJob, TypeOK

LEMMA AddLiveType ==
  ASSUME TypeOK, NEW r \in Runs, NEW n \in Nat,
         live' = [live EXCEPT ![r] = @ \cup {n}]
  PROVE  live' \in [Runs -> SUBSET Nat]
BY DEF TypeOK

\* Cancelling the active job of a run.
LEMMA CancelActiveJobType ==
  ASSUME TypeOK, NEW r \in Runs, CancelActiveJob(r)
  PROVE  /\ jobs' \in [Runs -> Seq(JobRows)]
         /\ live' \in [Runs -> SUBSET Nat]
<1>1. CASE UNCHANGED <<jobs, live>>
  BY <1>1 DEF TypeOK
<1>2. CASE /\ Len(jobs[r]) > 0
           /\ SetLatestJob(r, "cancelled")
           /\ live' = [live EXCEPT ![r] = @ \ {LatestJob(r).id}]
  <2>1. jobs' \in [Runs -> Seq(JobRows)]
    BY <1>2, SetLatestJobType DEF JobStatuses
  <2>2. live' \in [Runs -> SUBSET Nat]
    BY <1>2 DEF TypeOK
  <2> QED
    BY <2>1, <2>2
<1> QED
  BY <1>1, <1>2 DEF CancelActiveJob

\* Putting one worker in a state of its type.
LEMMA WorkerUpdate ==
  ASSUME TypeInv, NEW w \in Workers, NEW x \in WorkerStates,
         x.pc # "idle" => x.run \in Runs,
         worker' = [worker EXCEPT ![w] = x]
  PROVE  worker' \in [Workers -> WorkerStates] /\ BusyWorkersHaveARun'
BY DEF TypeInv, TypeOK, BusyWorkersHaveARun

LEMMA ReleaseType ==
  ASSUME TypeInv, NEW w \in Workers, Release(w)
  PROVE  worker' \in [Workers -> WorkerStates] /\ BusyWorkersHaveARun'
<1>1. Idle \in WorkerStates /\ Idle.pc = "idle"
  BY DEF Idle, WorkerStates, WorkerPcs
<1> QED
  BY <1>1, WorkerUpdate DEF Release

LEMMA BeginType ==
  ASSUME TypeInv, NEW w \in Workers, NEW r \in Runs, NEW pc \in WorkerPcs,
         Begin(w, pc, r)
  PROVE  worker' \in [Workers -> WorkerStates] /\ BusyWorkersHaveARun'
<1> DEFINE x == [Idle EXCEPT !.pc = pc, !.run = r]
<1>1. x \in WorkerStates /\ x.run \in Runs
  BY DEF Idle, WorkerStates
<1>2. worker' = [worker EXCEPT ![w] = x]
  BY DEF Begin
<1> QED
  BY <1>1, <1>2, WorkerUpdate

LEMMA KeepWorkerType ==
  ASSUME TypeInv, UNCHANGED worker
  PROVE  worker' \in [Workers -> WorkerStates] /\ BusyWorkersHaveARun'
BY DEF TypeInv, TypeOK, BusyWorkersHaveARun

LEMMA TypeInvInit == Init => TypeInv
<1> SUFFICES ASSUME Init PROVE TypeInv
  OBVIOUS
<1>1. NoTicket \in TicketProfiles
  BY DEF NoTicket, TicketProfiles, Readiness, OverallRisks
<1>2. <<>> \in Seq(JobRows)
  OBVIOUS
<1>3. Idle \in WorkerStates /\ Idle.pc = "idle"
  BY DEF Idle, WorkerStates, WorkerPcs
<1> QED
  BY <1>1, <1>2, <1>3 DEF Init, TypeInv, TypeOK, BusyWorkersHaveARun, Diffs

\* The status a planned run is given.
LEMMA PostPlanStatusType ==
  ASSUME NEW t
  PROVE  PostPlanStatus(t) \in RunStatuses
BY DEF PostPlanStatus, RunStatuses, ActiveStatuses, TerminalStatuses

\* A pull request event leaves the run in a status.
LEMMA NextStatusType ==
  ASSUME NEW s \in PrObservableStatuses, NEW e
  PROVE  NextStatusForPr(s, e) \in RunStatuses
BY DEF NextStatusForPr, PrObservableStatuses, RunStatuses, ActiveStatuses, TerminalStatuses

LEMMA TypeInvCall ==
  ASSUME TypeInv, NEW w \in Workers, Call(w)
  PROVE  TypeInv'
<1> USE DEF TypeInv
<1> PICK r \in Runs : \/ IntakeStart(w, r)
                      \/ \E u \in Users : Approve(w, r, u)
                      \/ \E e \in PrEvents : RecordPr(w, r, e)
  BY DEF Call
<1>1. CASE IntakeStart(w, r)
  <2>1. worker' \in [Workers -> WorkerStates] /\ BusyWorkersHaveARun'
    BY <1>1, BeginType DEF IntakeStart, WorkerPcs
  <2> QED
    BY <1>1, <2>1 DEF IntakeStart, TypeOK
<1>2. ASSUME NEW u \in Users, Approve(w, r, u) PROVE TypeInv'
  <2>1. worker' \in [Workers -> WorkerStates] /\ BusyWorkersHaveARun'
    BY <1>2, BeginType DEF Approve, SignOff, ThenDispatch, WorkerPcs
  <2>2. "approved" \in RunStatuses
    BY DEF RunStatuses, ActiveStatuses
  <2>3. /\ status' \in [Runs -> RunStatuses \cup {NoStatus}]
        /\ outcome' \in [Runs -> TerminalStatuses \cup {NoStatus}]
        /\ missed' \subseteq Runs
    BY <1>2, <2>2, SetStatusType, KeepStatusType DEF Approve, SignOff
  <2>4. approvers' \in [Runs -> SUBSET Users]
    BY <1>2 DEF Approve, SignOff, TypeOK
  <2> QED
    BY <1>2, <2>1, <2>3, <2>4 DEF Approve, SignOff, TypeOK
<1>3. ASSUME NEW e \in PrEvents, RecordPr(w, r, e) PROVE TypeInv'
  <2> DEFINE s == NextStatusForPr(status[r], e)
  <2>1. s \in RunStatuses
    BY <1>3, NextStatusType DEF RecordPr
  <2>2. /\ status' \in [Runs -> RunStatuses \cup {NoStatus}]
        /\ outcome' \in [Runs -> TerminalStatuses \cup {NoStatus}]
        /\ missed' \subseteq Runs
    BY <1>3, <2>1, SetStatusType DEF RecordPr
  <2>3. worker' \in [Workers -> WorkerStates] /\ BusyWorkersHaveARun'
    BY <1>3, BeginType, KeepWorkerType DEF RecordPr, WorkerPcs
  <2>4. jobs' \in [Runs -> Seq(JobRows)]
    <3>1. CASE s = "complete" /\ Len(jobs[r]) > 0
      BY <1>3, <3>1, SetLatestJobType DEF RecordPr, JobStatuses
    <3>2. CASE ~(s = "complete" /\ Len(jobs[r]) > 0)
      BY <1>3, <3>2 DEF RecordPr, TypeOK
    <3> QED
      BY <3>1, <3>2
  <2>5. e.diff \in Diffs
    BY LifecycleAssumption DEF PrEventRecords
  <2>6. lastDiff' \in [Runs -> Diffs]
    BY <1>3, <2>5 DEF RecordPr, TypeOK
  <2> QED
    BY <1>3, <2>2, <2>3, <2>4, <2>6 DEF RecordPr, TypeOK
<1> QED
  BY <1>1, <1>2, <1>3

\* Phase 3, for a worker that is about to record its job.
LEMMA RecordJobType ==
  ASSUME TypeInv, NEW w \in Workers, worker[w].pc # "idle",
         NEW expected \in RunStatuses, RecordJob(w, expected)
  PROVE  TypeInv'
<1> USE DEF TypeInv
<1> DEFINE r == worker[w].run
           n == worker[w].job
<1>1. r \in Runs /\ n \in Nat
  BY DEF BusyWorkersHaveARun, TypeOK, WorkerStates
<1>2. /\ status' \in [Runs -> RunStatuses \cup {NoStatus}]
      /\ outcome' \in [Runs -> TerminalStatuses \cup {NoStatus}]
      /\ missed' \subseteq Runs
  <2>1. "agent_running" \in RunStatuses
    BY DEF RunStatuses, ActiveStatuses
  <2> QED
    BY <1>1, <2>1, SetStatusType, KeepStatusType DEF RecordJob
<1>3. jobs' \in [Runs -> Seq(JobRows)]
  <2>1. AddJob(r, n, "running") \/ AddJob(r, n, "cancelled")
    BY DEF RecordJob, RecordSuperseded
  <2> QED
    BY <1>1, <2>1, AddJobType DEF JobStatuses
<1>4. live' \in [Runs -> SUBSET Nat]
  <2>1. live' = live \/ live' = [live EXCEPT ![r] = @ \ {n}]
    BY DEF RecordJob, RecordSuperseded
  <2> QED
    BY <1>1, <2>1 DEF TypeOK
<1>5. worker' \in [Workers -> WorkerStates] /\ BusyWorkersHaveARun'
  BY ReleaseType DEF RecordJob
<1> QED
  BY <1>2, <1>3, <1>4, <1>5 DEF RecordJob, TypeOK

LEMMA TypeInvContinue ==
  ASSUME TypeInv, NEW w \in Workers, Continue(w)
  PROVE  TypeInv'
<1> USE DEF TypeInv
<1> DEFINE r == worker[w].run
<1>0. worker[w].pc # "idle"
  BY DEF Continue, IntakeInsert, DispatchGate, DispatchToProvider,
         RecordDispatchFailure, RecordDispatch, Remediate, RecordRemediation
<1>r. r \in Runs
  BY <1>0 DEF BusyWorkersHaveARun
<1>s. /\ {"approved", "agent_running", "blocked", "review_required",
          "execution_failed"} \subseteq RunStatuses
  BY DEF RunStatuses, ActiveStatuses, TerminalStatuses
<1>1. ASSUME NEW t \in Tickets, IntakeInsert(w, t) PROVE TypeInv'
  <2>1. /\ status' \in [Runs -> RunStatuses \cup {NoStatus}]
        /\ outcome' \in [Runs -> TerminalStatuses \cup {NoStatus}]
        /\ missed' \subseteq Runs
    BY <1>1, <1>r, PostPlanStatusType, SetStatusType, KeepStatusType DEF IntakeInsert
  <2>2. ticket' \in [Runs -> TicketProfiles]
    BY <1>1, LifecycleAssumption DEF IntakeInsert, TypeOK
  <2>3. worker' \in [Workers -> WorkerStates] /\ BusyWorkersHaveARun'
    BY <1>1, ReleaseType DEF IntakeInsert
  <2> QED
    BY <1>1, <2>1, <2>2, <2>3 DEF IntakeInsert, TypeOK
<1>2. CASE DispatchGate(w)
  <2>1. /\ status' \in [Runs -> RunStatuses \cup {NoStatus}]
        /\ outcome' \in [Runs -> TerminalStatuses \cup {NoStatus}]
        /\ missed' \subseteq Runs
    BY <1>2, <1>r, <1>s, SetStatusType, KeepStatusType DEF DispatchGate
  <2>2. decisions' \in [Runs -> Nat]
    BY <1>2, <1>r DEF DispatchGate, CommitAllow, TypeOK
  <2>3. worker' \in [Workers -> WorkerStates] /\ BusyWorkersHaveARun'
    BY <1>2, <1>r, ReleaseType, BeginType DEF DispatchGate, WorkerPcs
  <2> QED
    BY <1>2, <2>1, <2>2, <2>3 DEF DispatchGate, TypeOK
<1>3. CASE DispatchToProvider(w)
  <2>0. launched[r] + 1 \in Nat
    BY <1>r DEF TypeOK
  <2>1. launched' \in [Runs -> Nat] /\ live' \in [Runs -> SUBSET Nat]
    <3>1. \/ /\ launched' = [launched EXCEPT ![r] = @ + 1]
             /\ live' = [live EXCEPT ![r] = @ \cup {launched[r] + 1}]
          \/ UNCHANGED <<launched, live>>
      BY <1>3 DEF DispatchToProvider
    <3>2. launched' \in [Runs -> Nat]
      BY <2>0, <3>1 DEF TypeOK
    <3>3. live' \in [Runs -> SUBSET Nat]
      <4>1. CASE live' = [live EXCEPT ![r] = @ \cup {launched[r] + 1}]
        BY <1>r, <2>0, <4>1, AddLiveType
      <4>2. CASE live' = live
        BY <4>2 DEF TypeOK
      <4> QED
        BY <3>1, <4>1, <4>2
    <3> QED
      BY <3>2, <3>3
  <2> DEFINE x == [worker[w] EXCEPT !.pc = "record", !.job = launched[r] + 1]
             y == [worker[w] EXCEPT !.pc = "failed"]
  <2>2. /\ x \in WorkerStates /\ x.run = r
        /\ y \in WorkerStates /\ y.run = r
    BY <1>r, <2>0 DEF TypeOK, WorkerStates, WorkerPcs
  <2>3. worker' = [worker EXCEPT ![w] = x] \/ worker' = [worker EXCEPT ![w] = y]
    BY <1>3 DEF DispatchToProvider
  <2>4. worker' \in [Workers -> WorkerStates] /\ BusyWorkersHaveARun'
    BY <1>r, <2>2, <2>3, WorkerUpdate
  <2> QED
    BY <1>3, <2>1, <2>4 DEF DispatchToProvider, TypeOK
<1>4. CASE RecordDispatchFailure(w)
  <2>1. /\ status' \in [Runs -> RunStatuses \cup {NoStatus}]
        /\ outcome' \in [Runs -> TerminalStatuses \cup {NoStatus}]
        /\ missed' \subseteq Runs
    BY <1>4, <1>r, <1>s, SetStatusType, KeepStatusType DEF RecordDispatchFailure
  <2>2. worker' \in [Workers -> WorkerStates] /\ BusyWorkersHaveARun'
    BY <1>4, ReleaseType DEF RecordDispatchFailure
  <2> QED
    BY <1>4, <2>1, <2>2 DEF RecordDispatchFailure, TypeOK
<1>5. CASE RecordDispatch(w)
  BY <1>5, <1>0, <1>s, RecordJobType DEF RecordDispatch
<1>6. ASSUME NEW frozen \in FreezeStates, Remediate(w, frozen) PROVE TypeInv'
  <2>1. /\ status' \in [Runs -> RunStatuses \cup {NoStatus}]
        /\ outcome' \in [Runs -> TerminalStatuses \cup {NoStatus}]
        /\ missed' \subseteq Runs
    BY <1>6, <1>r, <1>s, SetStatusType, KeepStatusType DEF Remediate
  <2>2. decisions' \in [Runs -> Nat]
    <3>1. CommitAllow(r) \/ UNCHANGED decisions
      BY <1>6 DEF Remediate
    <3> QED
      BY <1>r, <3>1 DEF CommitAllow, TypeOK
  <2> DEFINE x == [worker[w] EXCEPT !.pc = "launch", !.retry = TRUE]
  <2>3. x \in WorkerStates /\ x.run = r
    BY <1>r DEF TypeOK, WorkerStates, WorkerPcs
  <2>4. Release(w) \/ worker' = [worker EXCEPT ![w] = x]
    BY <1>6 DEF Remediate, TypeOK, WorkerStates
  <2>5. worker' \in [Workers -> WorkerStates] /\ BusyWorkersHaveARun'
    BY <1>r, <2>3, <2>4, ReleaseType, WorkerUpdate
  <2> QED
    BY <1>6, <2>1, <2>2, <2>5 DEF Remediate, TypeOK
<1>7. CASE RecordRemediation(w)
  BY <1>7, <1>0, <1>s, RecordJobType DEF RecordRemediation
<1> QED
  BY <1>1, <1>2, <1>3, <1>4, <1>5, <1>6, <1>7 DEF Continue

LEMMA TypeInvEnding ==
  ASSUME TypeInv, NEW r \in Runs, Ending(r)
  PROVE  TypeInv'
<1> USE DEF TypeInv
<1>1. \E s \in {"rejected", "blocked", "execution_failed"} : SetStatus(r, s)
  BY DEF Ending, Reject, Stop, Terminate, ExpirePendingApproval, ExpirePendingPr,
         ExpireWait, FailRun, MarkAgentFailed
<1>2. /\ status' \in [Runs -> RunStatuses \cup {NoStatus}]
      /\ outcome' \in [Runs -> TerminalStatuses \cup {NoStatus}]
      /\ missed' \subseteq Runs
  BY <1>1, SetStatusType DEF RunStatuses, TerminalStatuses
<1>3. EndingFrame
  BY DEF Ending, Reject, Stop, Terminate, ExpirePendingApproval, ExpirePendingPr,
         ExpireWait, FailRun, MarkAgentFailed
<1>4. jobs' \in [Runs -> Seq(JobRows)] /\ live' \in [Runs -> SUBSET Nat]
  <2>1. CASE CancelActiveJob(r)
    BY <2>1, CancelActiveJobType
  <2>2. CASE MarkAgentFailed(r)
    <3>1. CASE Len(jobs[r]) > 0
      <4>1. jobs' \in [Runs -> Seq(JobRows)]
        BY <2>2, <3>1, SetLatestJobType DEF MarkAgentFailed, JobStatuses
      <4> QED
        BY <2>2, <3>1, <4>1 DEF MarkAgentFailed, TypeOK
    <3>2. CASE ~(Len(jobs[r]) > 0)
      BY <2>2, <3>2 DEF MarkAgentFailed, TypeOK
    <3> QED
      BY <3>1, <3>2
  <2> QED
    BY <2>1, <2>2 DEF Ending, Reject, Stop, Terminate, ExpirePendingApproval,
                      ExpirePendingPr, ExpireWait, FailRun
<1> QED
  BY <1>2, <1>3, <1>4, KeepWorkerType DEF EndingFrame, TypeOK

LEMMA TypeInvNext == TypeInv /\ [Next]_vars => TypeInv'
<1> SUFFICES ASSUME TypeInv, [Next]_vars PROVE TypeInv'
  OBVIOUS
<1>1. ASSUME NEW w \in Workers, Crash(w) PROVE TypeInv'
  <2>1. worker' \in [Workers -> WorkerStates] /\ BusyWorkersHaveARun'
    BY <1>1, ReleaseType DEF Crash
  <2> QED
    BY <1>1, <2>1 DEF Crash, TypeInv, TypeOK
<1>2. CASE UNCHANGED vars
  BY <1>2 DEF vars, TypeInv, TypeOK, BusyWorkersHaveARun
<1> QED
  BY <1>1, <1>2, TypeInvCall, TypeInvContinue, TypeInvEnding DEF Next, ServingNext

\* Types: no interleaving of calls, faults and endings takes a variable out
\* of its type, whatever runs, threads and events there are.
THEOREM TypeCorrect == Spec => []TypeOK
<1>1. TypeInv => TypeOK
  BY DEF TypeInv
<1> QED
  BY <1>1, TypeInvInit, TypeInvNext, PTL DEF Spec

-----------------------------------------------------------------------------
(* One active run per issue                                                  *)

\* Moving one run, from an active status or with the leave of the index.
LEMMA SetStatusOneActive ==
  ASSUME TypeOK, OneActiveRunPerIssue, NEW r \in Runs, NEW s, SetStatus(r, s),
         status[r] \in ActiveStatuses \/ IndexAllows(r, s)
  PROVE  OneActiveRunPerIssue'
<1> SUFFICES ASSUME NEW p \in Runs, NEW q \in Runs, IssueOf[p] = IssueOf[q],
                    status'[p] \in ActiveStatuses, status'[q] \in ActiveStatuses
             PROVE  p = q
  BY DEF OneActiveRunPerIssue
<1>1. /\ status'[r] = s
      /\ \A v \in Runs \ {r} : status'[v] = status[v]
  BY DEF SetStatus, TypeOK
<1>2. CASE status[r] \in ActiveStatuses
  BY <1>1, <1>2 DEF OneActiveRunPerIssue
<1>3. CASE IndexAllows(r, s)
  BY <1>1, <1>3 DEF OneActiveRunPerIssue, IndexAllows, ActiveRunsOf
<1> QED
  BY <1>2, <1>3

LEMMA KeepStatusOneActive ==
  ASSUME OneActiveRunPerIssue, UNCHANGED status
  PROVE  OneActiveRunPerIssue'
BY DEF OneActiveRunPerIssue

LEMMA OneActiveNext == TypeInv /\ OneActiveRunPerIssue /\ [Next]_vars => OneActiveRunPerIssue'
<1> SUFFICES ASSUME TypeInv, OneActiveRunPerIssue, [Next]_vars
             PROVE  OneActiveRunPerIssue'
  OBVIOUS
<1> USE DEF TypeInv
<1>1. ASSUME NEW w \in Workers, NEW r \in Runs, IntakeStart(w, r)
      PROVE  OneActiveRunPerIssue'
  BY <1>1, KeepStatusOneActive DEF IntakeStart
<1>2. ASSUME NEW w \in Workers, NEW r \in Runs, NEW u \in Users, Approve(w, r, u)
      PROVE  OneActiveRunPerIssue'
  <2>1. status[r] \in ActiveStatuses
    BY <1>2 DEF Approve, SignOff, MayApprove, ActiveStatuses
  <2> QED
    BY <1>2, <2>1, SetStatusOneActive, KeepStatusOneActive DEF Approve, SignOff, KeepStatus
<1>3. ASSUME NEW w \in Workers, NEW r \in Runs, NEW e \in PrEvents, RecordPr(w, r, e)
      PROVE  OneActiveRunPerIssue'
  <2>1. status[r] \in ActiveStatuses
    BY <1>3 DEF RecordPr, PrObservableStatuses, ActiveStatuses
  <2> QED
    BY <1>3, <2>1, SetStatusOneActive DEF RecordPr
<1>4. ASSUME NEW w \in Workers, Continue(w)
      PROVE  OneActiveRunPerIssue'
  <2> DEFINE r == worker[w].run
  <2>r. worker[w].pc # "idle" => r \in Runs
    BY DEF BusyWorkersHaveARun
  <2>a. {"approved", "agent_running", "pr_open"} \subseteq ActiveStatuses
    BY DEF ActiveStatuses
  <2>1. ASSUME NEW t \in Tickets, IntakeInsert(w, t) PROVE OneActiveRunPerIssue'
    BY <2>1, <2>r, SetStatusOneActive, KeepStatusOneActive DEF IntakeInsert, KeepStatus
  <2>2. CASE DispatchGate(w)
    BY <2>2, <2>r, <2>a, SetStatusOneActive, KeepStatusOneActive DEF DispatchGate, KeepStatus
  <2>3. CASE DispatchToProvider(w)
    BY <2>3, KeepStatusOneActive DEF DispatchToProvider
  <2>4. CASE RecordDispatchFailure(w)
    BY <2>4, <2>r, SetStatusOneActive, KeepStatusOneActive DEF RecordDispatchFailure, KeepStatus
  <2>5. CASE RecordDispatch(w)
    BY <2>5, <2>r, <2>a, SetStatusOneActive, KeepStatusOneActive
    DEF RecordDispatch, RecordJob, KeepStatus
  <2>6. ASSUME NEW frozen \in FreezeStates, Remediate(w, frozen) PROVE OneActiveRunPerIssue'
    BY <2>6, <2>r, <2>a, SetStatusOneActive, KeepStatusOneActive DEF Remediate, KeepStatus
  <2>7. CASE RecordRemediation(w)
    BY <2>7, <2>r, <2>a, SetStatusOneActive, KeepStatusOneActive
    DEF RecordRemediation, RecordJob, KeepStatus
  <2> QED
    BY <1>4, <2>1, <2>2, <2>3, <2>4, <2>5, <2>6, <2>7 DEF Continue
<1>5. ASSUME NEW w \in Workers, Crash(w) PROVE OneActiveRunPerIssue'
  BY <1>5, KeepStatusOneActive DEF Crash
<1>6. ASSUME NEW r \in Runs, Ending(r) PROVE OneActiveRunPerIssue'
  <2>1. status[r] \in ActiveStatuses /\ \E s \in RunStatuses : SetStatus(r, s)
    BY <1>6 DEF Ending, Reject, Stop, Terminate, ExpirePendingApproval, ExpirePendingPr,
                ExpireWait, FailRun, MarkAgentFailed, ActiveStatuses, TerminalStatuses, RunStatuses
  <2> QED
    BY <2>1, SetStatusOneActive
<1>7. CASE UNCHANGED vars
  BY <1>7, KeepStatusOneActive DEF vars
<1> QED
  BY <1>1, <1>2, <1>3, <1>4, <1>5, <1>6, <1>7 DEF Next, ServingNext, Call

\* One run in flight per issue: with any number of threads, runs and faults,
\* the pre-check and the index together keep two runs from ever being active
\* for one issue, also when a failed dispatch revives a run that had ended.
THEOREM OneActive == Spec => []OneActiveRunPerIssue
<1>1. Init => OneActiveRunPerIssue
  BY DEF Init, OneActiveRunPerIssue, ActiveStatuses, NoStatus
<1> QED
  BY <1>1, TypeInvInit, TypeInvNext, OneActiveNext, PTL DEF Spec
=============================================================================
