-------------------------- MODULE RunRecordsProofs --------------------------
(****************************************************************************)
(* What RunLifecycle writes down about a run, for every value of its        *)
(* constants: its status against its outcome row and its last diff, and the *)
(* numbers of allowing decisions, of provider jobs and of job rows against  *)
(* each other.                                                              *)
(*                                                                          *)
(* The counts agree only up to the workers in between: a worker at "launch" *)
(* has had its decision counted and not its job, one at "record" its job    *)
(* and not its row.  The invariants therefore count those workers too.      *)
(****************************************************************************)
EXTENDS RunAuthorityProofs

-----------------------------------------------------------------------------
(* The ways a status changes                                                 *)

\* What the failure path may write, whatever the run has become meanwhile.
FailureStatuses == {"review_required", "execution_failed"}

\* A step on the status of r that is not the failure path's.
Moves(r) ==
  \/ /\ status[r] = NoStatus
     /\ \E s \in {"waiting_approval", "needs_clarification", "blocked"} :
          SetStatus(r, s) /\ IndexAllows(r, s)
  \/ \E u \in Users : SignOff(r, u) /\ SetStatus(r, "approved")
  \/ status[r] \in {"approved", "agent_running", "pr_open"} /\ SetStatus(r, "agent_running")
  \/ /\ status[r] \in PrObservableStatuses
     /\ \E s \in {"pr_open", "review_required", "complete"} : SetStatus(r, s)
  \/ /\ status[r] \in ActiveStatuses
     /\ \E s \in {"rejected", "blocked", "execution_failed"} : SetStatus(r, s)

\* The failure path of a worker whose provider call raised.
FailureMoves(r) ==
  /\ \E w \in Workers : worker[w].pc = "failed"
  /\ status[r] # NoStatus
  /\ \E s \in FailureStatuses : SetStatus(r, s)

\* Without provider failures no worker is on the failure path.
NobodyFailed == \A w \in Workers : worker[w].pc # "failed"

SettledInv == AuthorityInv /\ NobodyFailed

\* What a finished run has, also one that a failed dispatch finished again;
\* nothing is missed unless writing an outcome can fail.
EndingsRecorded ==
  /\ \A r \in Runs :
       status[r] \in TerminalStatuses /\ r \notin missed => outcome[r] = status[r]
  /\ "memory" \notin Faults => missed = {}

\* The escalation, and no verdict on a run that is not there yet.
EscalationFacts ==
  /\ EscalationHolds
  /\ \A r \in Runs : status[r] = NoStatus => lastDiff[r] = "none"

EscalationInv == AuthorityInv /\ EscalationFacts

-----------------------------------------------------------------------------
(* Counting the workers in between                                           *)

\* The workers that, with the states wk, are at one of pcs for r.
Holders(wk, pcs, r) == {w \in Workers : wk[w].pc \in pcs /\ wk[w].run = r}

Held(wk, pcs, r) == Cardinality(Holders(wk, pcs, r))

Launching == {"launch"}
Recording == {"record"}
Claiming == {"launch", "record"}

DecidedInv ==
  /\ TypeInv
  /\ \A r \in Runs : launched[r] + Held(worker, Launching, r) <= decisions[r]

\* Statuses before the first sign-off, and before the first dispatch.
Unsigned == {NoStatus, "waiting_approval"}
Undispatched == Unsigned \cup {"approved"}

\* Rows come after dispatches, and dispatches after sign-offs.
RowsFollowDispatch ==
  /\ \A r \in Runs : status[r] \in Undispatched => jobs[r] = <<>>
  /\ \A w \in Workers : worker[w].pc \in Claiming =>
       /\ status[worker[w].run] \notin Unsigned
       /\ worker[w].retry => status[worker[w].run] \notin Undispatched

\* Rows and the claims that will become rows.
Claims(r) == Len(jobs[r]) + Held(worker, Claiming, r)

CountsAgree == \A r \in Runs : launched[r] = Len(jobs[r]) + Held(worker, Recording, r)

RetryInv ==
  /\ AuthorityInv
  /\ RowsFollowDispatch
  /\ CountsAgree
  /\ \A r \in Runs : Claims(r) <= MaxRetries + Cardinality(Workers)

SpendInv ==
  /\ RetryInv
  /\ \A r \in Runs : MaxCost # NoCap /\ Claims(r) > 0 =>
       CostPerDispatch * Claims(r) < MaxCost + CostPerDispatch * (Cardinality(Workers) - 1)

-----------------------------------------------------------------------------
(* The ways the counts change                                                *)

\* One worker moves, the others stay where they are.
Becomes(w, x) == worker' = [worker EXCEPT ![w] = x]

\* No row comes or goes, and none gets another job.
SameRows ==
  \A q \in Runs :
    /\ Len(jobs'[q]) = Len(jobs[q])
    /\ \A i \in 1..Len(jobs[q]) : jobs'[q][i].id = jobs[q][i].id

\* Nothing is counted and nobody takes up or gives up a claim.
QuietStep ==
  /\ UNCHANGED <<launched, decisions>>
  /\ SameRows
  /\ \A q \in Runs : live'[q] \subseteq live[q]
  /\ \/ UNCHANGED worker
     \/ \E w \in Workers, x \in WorkerStates :
          /\ worker[w].pc \notin Claiming /\ x.pc \notin Claiming
          /\ Becomes(w, x)

\* A gate lets w launch a job for r.
ClaimStep(w, r) ==
  /\ worker[w].pc \notin Claiming
  /\ decisions' = [decisions EXCEPT ![r] = @ + 1]
  /\ UNCHANGED <<launched, jobs, live>>
  /\ \/ status[r] = "approved"
     \/ status[r] = "pr_open" /\ Len(jobs[r]) <= MaxRetries
  /\ MaxCost # NoCap =>
       CostPerDispatch * Len(jobs[r]) + CostPerDispatch < MaxCost
  /\ \E x \in WorkerStates :
       /\ x.pc = "launch" /\ x.run = r
       /\ x.retry => status[r] = "pr_open"
       /\ Becomes(w, x)

\* The provider creates the job.
LaunchStep(w, r) ==
  /\ worker[w].pc = "launch" /\ worker[w].run = r
  /\ launched' = [launched EXCEPT ![r] = @ + 1]
  /\ live' = [live EXCEPT ![r] = @ \cup {launched[r] + 1}]
  /\ UNCHANGED <<decisions, jobs>>
  /\ \E x \in WorkerStates :
       /\ x.pc = "record" /\ x.run = r /\ x.job = launched[r] + 1
       /\ x.retry = worker[w].retry
       /\ Becomes(w, x)

\* The provider raises.
RaiseStep(w) ==
  /\ worker[w].pc = "launch"
  /\ UNCHANGED <<launched, live, decisions, jobs>>
  /\ \E x \in WorkerStates :
       x.pc = "failed" /\ Becomes(w, x)

\* The job gets its row.
RecordStep(w, r) ==
  /\ worker[w].pc = "record" /\ worker[w].run = r
  /\ \E s \in JobStatuses : AddJob(r, worker[w].job, s)
  /\ \A q \in Runs : live'[q] \subseteq live[q]
  /\ ~worker[w].retry => status'[r] # "approved"
  /\ UNCHANGED <<launched, decisions>>
  /\ Release(w)

-----------------------------------------------------------------------------
(* Lemmas: what a step does to the status of a run                           *)

LEMMA MovesInsert ==
  ASSUME AuthorityInv, NEW w \in Workers, NEW t \in Tickets, IntakeInsert(w, t)
  PROVE  KeepStatus \/ \E r \in Runs : Moves(r)
<1> DEFINE r == worker[w].run
           s == PostPlanStatus(t)
<1>1. r \in Runs /\ status[r] = NoStatus
  BY DEF IntakeInsert, AuthorityInv, TypeInv, BusyWorkersHaveARun, WorkerFacts
<1>2. s \in {"waiting_approval", "needs_clarification", "blocked"}
  BY DEF PostPlanStatus
<1>3. KeepStatus \/ (SetStatus(r, s) /\ IndexAllows(r, s))
  BY DEF IntakeInsert
<1> HIDE DEF s
<1> QED
  BY <1>1, <1>2, <1>3 DEF Moves

LEMMA MovesRecordPr ==
  ASSUME NEW w \in Workers, NEW r \in Runs, NEW e \in PrEvents, RecordPr(w, r, e)
  PROVE  Moves(r)
<1> DEFINE s == NextStatusForPr(status[r], e)
<1>1. status[r] \in PrObservableStatuses /\ SetStatus(r, s)
  BY DEF RecordPr
<1>2. s \in {"pr_open", "review_required", "complete", "blocked"}
  BY <1>1 DEF NextStatusForPr, PrObservableStatuses
<1>3. status[r] \in ActiveStatuses
  BY <1>1 DEF PrObservableStatuses, ActiveStatuses
<1> HIDE DEF s
<1> QED
  BY <1>1, <1>2, <1>3 DEF Moves

LEMMA MovesEnding ==
  ASSUME NEW r \in Runs, Ending(r)
  PROVE  /\ status[r] \in ActiveStatuses
         /\ \E s \in {"rejected", "blocked", "execution_failed"} : SetStatus(r, s)
         /\ EndingFrame
BY DEF Ending, Reject, Stop, Terminate, ExpirePendingApproval, ExpirePendingPr,
       ExpireWait, FailRun, MarkAgentFailed, ActiveStatuses

\* Every step leaves all statuses and outcomes alone or moves one run along
\* the lifecycle; the only other way is the failure path.
LEMMA LifecycleStep ==
  ASSUME AuthorityInv, [Next]_vars
  PROVE  \/ KeepStatus
         \/ \E r \in Runs : Moves(r) \/ FailureMoves(r)
<1> DEFINE Goal == KeepStatus \/ \E r \in Runs : Moves(r) \/ FailureMoves(r)
<1>a. /\ "pr_open" \in PrObservableStatuses \cap ActiveStatuses
      /\ "approved" \in ActiveStatuses
  BY DEF PrObservableStatuses, ActiveStatuses
<1>1. ASSUME NEW w \in Workers, NEW r \in Runs, IntakeStart(w, r) PROVE Goal
  BY <1>1 DEF IntakeStart, KeepStatus
<1>2. ASSUME NEW w \in Workers, NEW r \in Runs, NEW u \in Users, Approve(w, r, u)
      PROVE  Goal
  <2>1. SignOff(r, u)
    BY <1>2 DEF Approve
  <2>2. SetStatus(r, "approved") \/ KeepStatus
    BY <2>1 DEF SignOff
  <2> QED
    BY <2>1, <2>2 DEF Moves
<1>3. ASSUME NEW w \in Workers, NEW r \in Runs, NEW e \in PrEvents, RecordPr(w, r, e)
      PROVE  Goal
  BY <1>3, MovesRecordPr
<1>4. ASSUME NEW w \in Workers, Continue(w) PROVE Goal
  <2>r. worker[w].pc # "idle" => worker[w].run \in Runs
    BY DEF AuthorityInv, TypeInv, BusyWorkersHaveARun
  <2>1. ASSUME NEW t \in Tickets, IntakeInsert(w, t) PROVE Goal
    BY <2>1, MovesInsert
  <2>2. CASE DispatchGate(w)
    BY <2>2, <2>r, <1>a DEF DispatchGate, Moves
  <2>3. CASE DispatchToProvider(w)
    BY <2>3 DEF DispatchToProvider, KeepStatus
  <2>4. CASE RecordDispatchFailure(w)
    <3>1. status[worker[w].run] # NoStatus
      BY <2>4 DEF RecordDispatchFailure, AuthorityInv, WorkerFacts
    <3> QED
      BY <2>4, <2>r, <3>1 DEF RecordDispatchFailure, FailureMoves, FailureStatuses
  <2>5. CASE RecordDispatch(w)
    BY <2>5, <2>r DEF RecordDispatch, RecordJob, Moves
  <2>6. ASSUME NEW frozen \in FreezeStates, Remediate(w, frozen) PROVE Goal
    BY <2>6, <2>r, <1>a DEF Remediate, Moves
  <2>7. CASE RecordRemediation(w)
    BY <2>7, <2>r DEF RecordRemediation, RecordJob, Moves
  <2> QED
    BY <1>4, <2>1, <2>2, <2>3, <2>4, <2>5, <2>6, <2>7 DEF Continue
<1>5. ASSUME NEW w \in Workers, Crash(w) PROVE Goal
  BY <1>5 DEF Crash, KeepStatus
<1>6. ASSUME NEW r \in Runs, Ending(r) PROVE Goal
  BY <1>6, MovesEnding DEF Moves
<1>7. CASE UNCHANGED vars
  BY <1>7 DEF vars, KeepStatus
<1> QED
  BY <1>1, <1>2, <1>3, <1>4, <1>5, <1>6, <1>7 DEF Next, ServingNext, Call

\* What a write of the status does, run by run.
LEMMA SetStatusEffect ==
  ASSUME TypeInv, NEW r \in Runs, NEW s, SetStatus(r, s)
  PROVE  \A q \in Runs :
           /\ status'[q] = IF q = r THEN s ELSE status[q]
           /\ q # r \/ s \notin TerminalStatuses =>
                outcome'[q] = outcome[q] /\ (q \in missed' <=> q \in missed)
           /\ q = r /\ s \in TerminalStatuses =>
                \/ outcome'[q] = s /\ q \notin missed'
                \/ outcome'[q] = outcome[q] /\ q \in missed' /\ "memory" \in Faults
BY DEF SetStatus, RecordOutcome, TypeInv, TypeOK

\* A step of the lifecycle never touches a finished run.
LEMMA MovesFromUnfinished ==
  ASSUME NEW r \in Runs, Moves(r)
  PROVE  /\ status[r] \notin TerminalStatuses
         /\ \E s \in RunStatuses : SetStatus(r, s)
<1>1. status[r] \in ActiveStatuses \cup {NoStatus}
  BY DEF Moves, SignOff, MayApprove, ActiveStatuses, PrObservableStatuses
<1>2. \A s \in ActiveStatuses \cup {NoStatus} : s \notin TerminalStatuses
  BY DEF ActiveStatuses, TerminalStatuses, NoStatus
<1>3. \E s \in RunStatuses : SetStatus(r, s)
  BY DEF Moves, RunStatuses, ActiveStatuses, TerminalStatuses
<1> QED
  BY <1>1, <1>2, <1>3

-----------------------------------------------------------------------------
(* Finished runs and their outcomes                                          *)

LEMMA NobodyFailedNext ==
  ASSUME "provider" \notin Faults, TypeInv, NobodyFailed, [Next]_vars
  PROVE  NobodyFailed'
<1> USE DEF TypeInv, TypeOK, NobodyFailed
<1>i. Idle.pc # "failed"
  BY DEF Idle
<1>1. ASSUME NEW w \in Workers, Release(w) PROVE NobodyFailed'
  BY <1>1, <1>i DEF Release
<1>2. ASSUME NEW w \in Workers, NEW pc, pc # "failed", NEW r, Begin(w, pc, r)
      PROVE  NobodyFailed'
  BY <1>2 DEF Begin, Idle
<1>3. ASSUME NEW w \in Workers, Call(w) PROVE NobodyFailed'
  BY <1>2, <1>3 DEF Call, IntakeStart, Approve, SignOff, ThenDispatch, RecordPr
<1>4. ASSUME NEW w \in Workers, Continue(w) PROVE NobodyFailed'
  <2>1. CASE DispatchToProvider(w)
    <3>1. \E n : worker' = [worker EXCEPT ![w] = [@ EXCEPT !.pc = "record", !.job = n]]
      BY <2>1 DEF DispatchToProvider
    <3> QED
      BY <3>1 DEF WorkerStates
  <2>2. ASSUME NEW frozen \in FreezeStates, Remediate(w, frozen) PROVE NobodyFailed'
    BY <1>1, <2>2 DEF Remediate, WorkerStates
  <2>3. CASE DispatchGate(w)
    BY <1>1, <1>2, <2>3 DEF DispatchGate
  <2> QED
    BY <1>1, <1>4, <2>1, <2>2, <2>3
    DEF Continue, IntakeInsert, RecordDispatchFailure, RecordDispatch,
        RecordRemediation, RecordJob
<1>5. ASSUME NEW r \in Runs, Ending(r) PROVE NobodyFailed'
  BY <1>5, MovesEnding DEF EndingFrame
<1>6. CASE UNCHANGED vars
  BY <1>6 DEF vars
<1> QED
  BY <1>1, <1>3, <1>4, <1>5, <1>6 DEF Next, ServingNext, Crash

LEMMA SettledInit == Init => SettledInv
BY AuthorityInit DEF SettledInv, Init, NobodyFailed, Idle

LEMMA SettledNext ==
  ASSUME "provider" \notin Faults
  PROVE  SettledInv /\ [Next]_vars => SettledInv'
BY NobodyFailedNext, AuthorityNext DEF SettledInv, AuthorityInv

\* A finished run is left alone.
LEMMA FinishedStays ==
  ASSUME SettledInv, [Next]_vars, NEW q \in Runs, status[q] \in TerminalStatuses
  PROVE  status'[q] = status[q]
<1>1. KeepStatus \/ \E r \in Runs : Moves(r)
  BY LifecycleStep DEF SettledInv, NobodyFailed, FailureMoves
<1>2. ASSUME NEW r \in Runs, Moves(r) PROVE status'[q] = status[q]
  BY <1>2, MovesFromUnfinished, SetStatusEffect DEF SettledInv, AuthorityInv
<1> QED
  BY <1>1, <1>2 DEF KeepStatus

LEMMA OutcomeNext ==
  ASSUME SettledInv, OutcomeMatchesStatus, [Next]_vars
  PROVE  OutcomeMatchesStatus'
<1>1. KeepStatus \/ \E r \in Runs : Moves(r)
  BY LifecycleStep DEF SettledInv, NobodyFailed, FailureMoves
<1>2. CASE KeepStatus
  BY <1>2 DEF KeepStatus, OutcomeMatchesStatus
<1>3. ASSUME NEW r \in Runs, Moves(r) PROVE OutcomeMatchesStatus'
  <2>1. status[r] \notin TerminalStatuses
    BY <1>3, MovesFromUnfinished
  <2> PICK s \in RunStatuses : SetStatus(r, s)
    BY <1>3, MovesFromUnfinished
  <2>2. TypeInv
    BY DEF SettledInv, AuthorityInv
  <2> QED
    BY <2>1, <2>2, SetStatusEffect DEF OutcomeMatchesStatus
<1> QED
  BY <1>1, <1>2, <1>3

LEMMA EndingsRecordedNext ==
  ASSUME AuthorityInv, EndingsRecorded, [Next]_vars
  PROVE  EndingsRecorded'
<1>1. KeepStatus \/ \E r \in Runs, s \in RunStatuses : SetStatus(r, s)
  <2>1. \A s \in FailureStatuses : s \in RunStatuses
    BY DEF FailureStatuses, RunStatuses, ActiveStatuses, TerminalStatuses
  <2> QED
    BY <2>1, LifecycleStep, MovesFromUnfinished DEF FailureMoves
<1>2. CASE KeepStatus
  BY <1>2 DEF KeepStatus, EndingsRecorded
<1>3. ASSUME NEW r \in Runs, NEW s, SetStatus(r, s) PROVE EndingsRecorded'
  <2>1. "memory" \notin Faults => missed' \subseteq missed
    BY <1>3 DEF SetStatus, RecordOutcome
  <2> QED
    BY <1>3, <2>1, SetStatusEffect DEF EndingsRecorded, AuthorityInv
<1> QED
  BY <1>1, <1>2, <1>3

\* While no provider call raises, a finished run is finished for good: the
\* sentence of schemas/common.py, under the only condition that it needs.
THEOREM FinishedForGood ==
  ASSUME "provider" \notin Faults
  PROVE  Spec => TerminalIsFinal
<1>1. SettledInv /\ [Next]_vars =>
        [\A r \in Runs : status[r] \in TerminalStatuses => status'[r] = status[r]]_vars
  BY FinishedStays
<1> QED
  BY <1>1, SettledInit, SettledNext, PTL DEF Spec, TerminalIsFinal

\* Under the same condition a run has an outcome row exactly when it is
\* finished and recording the ending did not fail, and the row says how it
\* finished: a failing memory leaves rows out and never makes one wrong.
THEOREM OutcomesMatch ==
  ASSUME "provider" \notin Faults
  PROVE  Spec => []OutcomeMatchesStatus
<1>1. Init => OutcomeMatchesStatus
  BY DEF Init, OutcomeMatchesStatus, TerminalStatuses, NoStatus
<1>2. SettledInv /\ OutcomeMatchesStatus /\ [Next]_vars => OutcomeMatchesStatus'
  BY OutcomeNext
<1> QED
  BY <1>1, <1>2, SettledInit, SettledNext, PTL DEF Spec

\* Whatever fails, one half of it survives: a finished run whose ending was
\* recorded has the row of the ending it has now and not of an earlier one;
\* and as long as no write of an outcome fails, every finished run has one.
THEOREM EndingsAreRecorded == Spec => []EndingsRecorded
<1>1. Init => EndingsRecorded
  BY DEF Init, EndingsRecorded, TerminalStatuses, NoStatus
<1>2. AuthorityInv /\ EndingsRecorded /\ [Next]_vars => EndingsRecorded'
  BY EndingsRecordedNext
<1> QED
  BY <1>1, <1>2, AuthorityInit, AuthorityNext, PTL DEF Spec

-----------------------------------------------------------------------------
(* Escalated diffs                                                           *)

\* A run is moved without a new verdict: into or out of a status that no
\* escalated run is in, or to a human.
LEMMA EscalationMove ==
  ASSUME EscalationInv, UNCHANGED lastDiff, NEW r \in Runs, NEW s,
         SetStatus(r, s), s # NoStatus,
         \/ s = "review_required"
         \/ s \notin ActiveStatuses
         \/ status[r] \in {NoStatus} \cup (ActiveStatuses \ {"review_required"})
  PROVE  EscalationFacts'
<1>1. \A q \in Runs : status'[q] = IF q = r THEN s ELSE status[q]
  BY SetStatusEffect DEF EscalationInv, AuthorityInv
<1> QED
  BY <1>1 DEF EscalationInv, EscalationFacts, EscalationHolds

LEMMA EscalationRecordPr ==
  ASSUME EscalationInv, NEW w \in Workers, NEW r \in Runs, NEW e \in PrEvents,
         RecordPr(w, r, e)
  PROVE  EscalationFacts'
<1> DEFINE s == NextStatusForPr(status[r], e)
<1> USE DEF EscalationInv
<1>1. /\ status[r] \in PrObservableStatuses
      /\ status[r] \in ActiveStatuses
  BY DEF RecordPr, PrObservableStatuses, ActiveStatuses
<1>2. \A q \in Runs :
        /\ status'[q] = IF q = r THEN s ELSE status[q]
        /\ lastDiff'[q] = IF q = r /\ e.diff # "none" THEN e.diff ELSE lastDiff[q]
  BY SetStatusEffect DEF RecordPr, AuthorityInv, TypeInv, TypeOK
<1>3. s # NoStatus
  BY <1>1 DEF NextStatusForPr, PrObservableStatuses, NoStatus
<1>4. ASSUME e.diff = "escalates", s \in ActiveStatuses PROVE s = "review_required"
  BY <1>4 DEF NextStatusForPr, ActiveStatuses
<1>5. ASSUME e.diff = "none", lastDiff[r] = "escalates", s \in ActiveStatuses
      PROVE  s = "review_required"
  <2>1. status[r] = "review_required"
    BY <1>1, <1>5 DEF EscalationFacts, EscalationHolds
  <2> QED
    BY <1>5, <2>1 DEF NextStatusForPr, ActiveStatuses
<1> HIDE DEF s
<1> QED
  BY <1>2, <1>3, <1>4, <1>5 DEF EscalationFacts, EscalationHolds

LEMMA EscalationNext == EscalationInv /\ [Next]_vars => EscalationFacts'
<1> SUFFICES ASSUME EscalationInv, [Next]_vars PROVE EscalationFacts'
  OBVIOUS
<1>0. ASSUME UNCHANGED <<status, lastDiff>> PROVE EscalationFacts'
  BY <1>0 DEF EscalationInv, EscalationFacts, EscalationHolds
<1>a. /\ {"waiting_approval", "approved", "agent_running", "pr_open"}
           \subseteq ActiveStatuses \ {"review_required"}
      /\ \A s \in {"rejected", "blocked", "execution_failed"} :
           s \notin ActiveStatuses /\ s # NoStatus
      /\ \A s \in ActiveStatuses : s # NoStatus
  BY DEF ActiveStatuses, NoStatus
<1>1. ASSUME NEW w \in Workers, NEW r \in Runs, IntakeStart(w, r) PROVE EscalationFacts'
  BY <1>0, <1>1 DEF IntakeStart
<1>2. ASSUME NEW w \in Workers, NEW r \in Runs, NEW u \in Users, Approve(w, r, u)
      PROVE  EscalationFacts'
  BY <1>0, <1>2, <1>a, EscalationMove DEF Approve, SignOff, MayApprove, KeepStatus
<1>3. ASSUME NEW w \in Workers, NEW r \in Runs, NEW e \in PrEvents, RecordPr(w, r, e)
      PROVE  EscalationFacts'
  BY <1>3, EscalationRecordPr
<1>4. ASSUME NEW w \in Workers, Continue(w) PROVE EscalationFacts'
  <2>r. worker[w].pc # "idle" => worker[w].run \in Runs
    BY DEF EscalationInv, AuthorityInv, TypeInv, BusyWorkersHaveARun
  <2>1. ASSUME NEW t \in Tickets, IntakeInsert(w, t) PROVE EscalationFacts'
    <3>1. status[worker[w].run] = NoStatus
      BY <2>1 DEF IntakeInsert, EscalationInv, AuthorityInv, WorkerFacts
    <3>2. PostPlanStatus(t) # NoStatus
      BY DEF PostPlanStatus, NoStatus
    <3> QED
      BY <1>0, <2>1, <2>r, <3>1, <3>2, EscalationMove DEF IntakeInsert, KeepStatus
  <2>2. CASE DispatchGate(w)
    BY <1>0, <2>2, <2>r, <1>a, EscalationMove DEF DispatchGate, KeepStatus
  <2>3. CASE DispatchToProvider(w)
    BY <1>0, <2>3 DEF DispatchToProvider
  <2>4. CASE RecordDispatchFailure(w)
    BY <1>0, <2>4, <2>r, <1>a, EscalationMove DEF RecordDispatchFailure, KeepStatus, NoStatus
  <2>5. CASE RecordDispatch(w)
    BY <1>0, <2>5, <2>r, <1>a, EscalationMove DEF RecordDispatch, RecordJob, KeepStatus
  <2>6. ASSUME NEW frozen \in FreezeStates, Remediate(w, frozen) PROVE EscalationFacts'
    <3>1. lastDiff' = lastDiff
      BY <2>6 DEF Remediate
    <3>2. \/ KeepStatus
          \/ /\ status[worker[w].run] = "pr_open"
             /\ \/ SetStatus(worker[w].run, "review_required")
                \/ SetStatus(worker[w].run, "agent_running")
      BY <2>6 DEF Remediate
    <3>3. worker[w].run \in Runs
      BY <2>6, <2>r DEF Remediate
    <3>4. "review_required" # NoStatus
      BY DEF NoStatus
    <3> QED
      BY <1>0, <1>a, <3>1, <3>2, <3>3, <3>4, EscalationMove DEF KeepStatus
  <2>7. CASE RecordRemediation(w)
    BY <1>0, <2>7, <2>r, <1>a, EscalationMove DEF RecordRemediation, RecordJob, KeepStatus
  <2> QED
    BY <1>4, <2>1, <2>2, <2>3, <2>4, <2>5, <2>6, <2>7 DEF Continue
<1>5. ASSUME NEW w \in Workers, Crash(w) PROVE EscalationFacts'
  BY <1>0, <1>5 DEF Crash
<1>6. ASSUME NEW r \in Runs, Ending(r) PROVE EscalationFacts'
  BY <1>6, <1>a, MovesEnding, EscalationMove DEF EndingFrame
<1>7. CASE UNCHANGED vars
  BY <1>0, <1>7 DEF vars
<1> QED
  BY <1>1, <1>2, <1>3, <1>4, <1>5, <1>6, <1>7 DEF Next, ServingNext, Call

\* A diff that went to a human stays with a human, whatever events, retries,
\* raced dispatches and failures come after it.
THEOREM EscalationsHold == Spec => []EscalationHolds
<1>1. Init => EscalationInv
  <2>1. ASSUME Init PROVE EscalationFacts
    BY <2>1 DEF Init, EscalationFacts, EscalationHolds
  <2> QED
    BY <2>1, AuthorityInit DEF EscalationInv
<1>2. EscalationInv /\ [Next]_vars => EscalationInv'
  BY AuthorityNext, EscalationNext DEF EscalationInv
<1>3. EscalationInv => EscalationHolds
  BY DEF EscalationInv, EscalationFacts
<1> QED
  BY <1>1, <1>2, <1>3, PTL DEF Spec

-----------------------------------------------------------------------------
(* Lemmas: what a step does to the counts                                    *)

LEMMA SameRowsKept ==
  ASSUME UNCHANGED jobs
  PROVE  SameRows
BY DEF SameRows

LEMMA SetLatestJobRows ==
  ASSUME TypeInv, NEW r \in Runs, NEW s, Len(jobs[r]) > 0, SetLatestJob(r, s)
  PROVE  SameRows
<1> DEFINE n == Len(jobs[r])
           row == [jobs[r][n] EXCEPT !.status = s]
<1>1. jobs[r] \in Seq(JobRows) /\ n \in 1..Len(jobs[r])
  BY LenProperties DEF TypeInv, TypeOK
<1>2. \A q \in Runs : jobs'[q] = IF q = r THEN [jobs[r] EXCEPT ![n] = row] ELSE jobs[q]
  BY DEF SetLatestJob, TypeInv, TypeOK
<1>3. row.id = jobs[r][n].id
  BY <1>1 DEF JobRows
<1> HIDE DEF row
<1>4. /\ Len([jobs[r] EXCEPT ![n] = row]) = Len(jobs[r])
      /\ \A i \in 1..Len(jobs[r]) :
           [jobs[r] EXCEPT ![n] = row][i] = IF i = n THEN row ELSE jobs[r][i]
  BY <1>1
<1> QED
  BY <1>2, <1>3, <1>4 DEF SameRows

LEMMA CancelRows ==
  ASSUME TypeInv, NEW r \in Runs, CancelActiveJob(r)
  PROVE  SameRows /\ \A q \in Runs : live'[q] \subseteq live[q]
<1>1. CASE UNCHANGED <<jobs, live>>
  BY <1>1, SameRowsKept
<1>2. CASE /\ Len(jobs[r]) > 0
           /\ SetLatestJob(r, "cancelled")
           /\ live' = [live EXCEPT ![r] = @ \ {LatestJob(r).id}]
  <2>1. \A q \in Runs : live'[q] \subseteq live[q]
    BY <1>2 DEF TypeInv, TypeOK
  <2> QED
    BY <1>2, <2>1, SetLatestJobRows
<1> QED
  BY <1>1, <1>2 DEF CancelActiveJob

LEMMA EndingRows ==
  ASSUME TypeInv, NEW r \in Runs, Ending(r)
  PROVE  QuietStep
<1>1. UNCHANGED <<launched, decisions, worker>>
  BY MovesEnding DEF EndingFrame
<1>2. SameRows /\ \A q \in Runs : live'[q] \subseteq live[q]
  <2>1. CASE CancelActiveJob(r)
    BY <2>1, CancelRows
  <2>2. CASE MarkAgentFailed(r)
    <3>1. CASE Len(jobs[r]) > 0
      BY <2>2, <3>1, SetLatestJobRows DEF MarkAgentFailed, TypeInv, TypeOK
    <3>2. CASE ~(Len(jobs[r]) > 0)
      BY <2>2, <3>2, SameRowsKept DEF MarkAgentFailed
    <3> QED
      BY <3>1, <3>2
  <2> QED
    BY <2>1, <2>2 DEF Ending, Reject, Stop, Terminate, ExpirePendingApproval,
                      ExpirePendingPr, ExpireWait, FailRun
<1> QED
  BY <1>1, <1>2 DEF QuietStep

\* The budget rule, read from an allowed request.
LEMMA AllowedSpend ==
  ASSUME NEW in, in.action \in SpendActions, Allowed(in), in.maxCost # NoCap,
         in.cost \in Nat, in.pending \in Nat, in.maxCost \in Nat
  PROVE  in.cost + in.pending < in.maxCost
<1>1. AutonomousDenials(in) = {}
  BY DEF Allowed, DenyReasons, SpendActions, ForbiddenActions, AdvisoryActions, AutonomousActions
<1>2. ~OverBudget(in)
  BY <1>1 DEF AutonomousDenials
<1> QED
  BY <1>2 DEF OverBudget

\* The retry rule, read from an allowed request.
LEMMA AllowedAttempt ==
  ASSUME NEW in, in.action = "retry_agent", Allowed(in),
         in.attempt \in Nat, in.maxAttempts \in Nat
  PROVE  in.attempt <= in.maxAttempts
<1>1. AutonomousDenials(in) = {}
  BY DEF Allowed, DenyReasons, ForbiddenActions, AdvisoryActions, AutonomousActions
<1>2. ~(in.attempt > in.maxAttempts)
  BY <1>1 DEF AutonomousDenials
<1> QED
  BY <1>2

LEMMA RowCount ==
  ASSUME TypeInv, NEW r \in Runs
  PROVE  Len(jobs[r]) \in Nat /\ AccumulatedCost(r) \in Nat
<1>1. Len(jobs[r]) \in Nat
  BY LenProperties DEF TypeInv, TypeOK
<1> QED
  BY <1>1, LifecycleAssumption DEF AccumulatedCost

LEMMA DispatchGateKind ==
  ASSUME TypeInv, NEW w \in Workers, DispatchGate(w)
  PROVE  QuietStep \/ \E r \in Runs : ClaimStep(w, r)
<1> PICK r \in Runs : r = worker[w].run
  BY DEF DispatchGate, TypeInv, BusyWorkersHaveARun
<1>0. worker[w].pc \notin Claiming
  BY DEF DispatchGate, Claiming
<1>1. CASE Release(w) /\ UNCHANGED decisions
  <2>1. Idle \in WorkerStates /\ Idle.pc \notin Claiming
    BY DEF Idle, WorkerStates, WorkerPcs, Claiming
  <2> QED
    BY <1>0, <1>1, <2>1, SameRowsKept DEF DispatchGate, QuietStep, Becomes, Release
<1>2. CASE /\ status[r] = "approved"
           /\ DispatchAllowed(r)
           /\ CommitAllow(r)
           /\ Begin(w, "launch", r)
  <2> DEFINE in == DispatchRequest(r)
             x == [Idle EXCEPT !.pc = "launch", !.run = r]
  <2>1. /\ in.action \in SpendActions /\ Allowed(in)
        /\ in.cost = AccumulatedCost(r) /\ in.pending = CostPerDispatch
        /\ in.maxCost = MaxCost
    BY <1>2 DEF DispatchAllowed, DispatchRequest, PolicyInput, SpendActions
  <2> HIDE DEF in
  <2>2. MaxCost # NoCap => AccumulatedCost(r) + CostPerDispatch < MaxCost
    BY <2>1, RowCount, LifecycleAssumption, AllowedSpend
  <2>3. x \in WorkerStates /\ x.pc = "launch" /\ x.run = r /\ ~x.retry
    BY DEF Idle, WorkerStates, WorkerPcs
  <2>4. worker' = [worker EXCEPT ![w] = x]
    BY <1>2 DEF Begin
  <2> HIDE DEF x
  <2>5. decisions' = [decisions EXCEPT ![r] = @ + 1] /\ UNCHANGED <<launched, jobs, live>>
    BY <1>2 DEF DispatchGate, CommitAllow
  <2>6. ClaimStep(w, r)
    BY <1>0, <1>2, <2>2, <2>3, <2>4, <2>5 DEF ClaimStep, Becomes, AccumulatedCost
  <2> QED
    BY <2>6
<1> QED
  BY <1>1, <1>2 DEF DispatchGate

LEMMA RemediateKind ==
  ASSUME TypeInv, NEW w \in Workers, NEW frozen \in FreezeStates, Remediate(w, frozen)
  PROVE  QuietStep \/ \E r \in Runs : ClaimStep(w, r)
<1> PICK r \in Runs : r = worker[w].run
  BY DEF Remediate, TypeInv, BusyWorkersHaveARun
<1>0. worker[w].pc \notin Claiming
  BY DEF Remediate, Claiming
<1>1. CASE Release(w) /\ UNCHANGED decisions
  <2>1. Idle \in WorkerStates /\ Idle.pc \notin Claiming
    BY DEF Idle, WorkerStates, WorkerPcs, Claiming
  <2> QED
    BY <1>0, <1>1, <2>1, SameRowsKept DEF Remediate, QuietStep, Becomes, Release
<1> DEFINE x == [worker[w] EXCEPT !.pc = "launch", !.retry = TRUE]
<1>2. CASE /\ status[r] = "pr_open"
           /\ RetryAllowed(r)
           /\ CommitAllow(r)
           /\ worker' = [worker EXCEPT ![w] = x]
  <2> DEFINE in == RetryRequest(r)
  <2>1. /\ in.action = "retry_agent" /\ Allowed(in)
        /\ in.attempt = Len(jobs[r]) /\ in.maxAttempts = MaxRetries
        /\ in.cost = AccumulatedCost(r) /\ in.pending = CostPerDispatch
        /\ in.maxCost = MaxCost
    BY <1>2 DEF RetryAllowed, RetryRequest, PolicyInput
  <2> HIDE DEF in
  <2>2. MaxCost # NoCap => AccumulatedCost(r) + CostPerDispatch < MaxCost
    BY <2>1, RowCount, LifecycleAssumption, AllowedSpend DEF SpendActions
  <2>3. Len(jobs[r]) <= MaxRetries
    BY <2>1, RowCount, LifecycleAssumption, AllowedAttempt
  <2>4. x \in WorkerStates /\ x.pc = "launch" /\ x.run = r
    BY DEF TypeInv, TypeOK, WorkerStates, WorkerPcs
  <2> HIDE DEF x
  <2>5. decisions' = [decisions EXCEPT ![r] = @ + 1] /\ UNCHANGED <<launched, jobs, live>>
    BY <1>2 DEF Remediate, CommitAllow
  <2>6. ClaimStep(w, r)
    BY <1>0, <1>2, <2>2, <2>3, <2>4, <2>5 DEF ClaimStep, Becomes, AccumulatedCost
  <2> QED
    BY <2>6
<1>3. worker[w] \in WorkerStates
  BY DEF TypeInv, TypeOK
<1>4. \/ Release(w) /\ UNCHANGED decisions
      \/ /\ status[r] = "pr_open" /\ RetryAllowed(r) /\ CommitAllow(r)
         /\ worker' = [worker EXCEPT ![w] = x]
  BY <1>3 DEF Remediate, WorkerStates
<1> QED
  BY <1>1, <1>2, <1>4

LEMMA ProviderKind ==
  ASSUME TypeInv, NEW w \in Workers, DispatchToProvider(w)
  PROVE  RaiseStep(w) \/ \E r \in Runs : LaunchStep(w, r)
<1> PICK r \in Runs : r = worker[w].run
  BY DEF DispatchToProvider, TypeInv, BusyWorkersHaveARun
<1> DEFINE x == [worker[w] EXCEPT !.pc = "record", !.job = launched[r] + 1]
           y == [worker[w] EXCEPT !.pc = "failed"]
<1>1. launched[r] + 1 \in Nat
  BY DEF TypeInv, TypeOK
<1>2. /\ x \in WorkerStates /\ x.pc = "record" /\ x.run = r
      /\ x.job = launched[r] + 1 /\ x.retry = worker[w].retry
      /\ y \in WorkerStates /\ y.pc = "failed"
  BY <1>1 DEF TypeInv, TypeOK, WorkerStates, WorkerPcs
<1>3. /\ UNCHANGED <<decisions, jobs>>
      /\ worker[w].pc = "launch"
      /\ \/ /\ launched' = [launched EXCEPT ![r] = @ + 1]
            /\ live' = [live EXCEPT ![r] = @ \cup {launched[r] + 1}]
            /\ worker' = [worker EXCEPT ![w] = x]
         \/ worker' = [worker EXCEPT ![w] = y] /\ UNCHANGED <<launched, live>>
  BY DEF DispatchToProvider
<1> HIDE DEF x, y
<1> QED
  BY <1>2, <1>3 DEF LaunchStep, RaiseStep, Becomes

LEMMA RecordKind ==
  ASSUME TypeInv, NEW w \in Workers, RecordDispatch(w) \/ RecordRemediation(w)
  PROVE  \E r \in Runs : RecordStep(w, r)
<1> PICK r \in Runs : r = worker[w].run
  BY DEF RecordDispatch, RecordRemediation, TypeInv, BusyWorkersHaveARun
<1>1. worker[w].pc = "record"
  BY DEF RecordDispatch, RecordRemediation
<1> PICK expected \in {"approved", "agent_running"} :
           /\ RecordJob(w, expected)
           /\ ~worker[w].retry => expected = "approved"
  BY DEF RecordDispatch, RecordRemediation
<1>2. \E s \in JobStatuses : AddJob(r, worker[w].job, s)
  BY DEF RecordJob, RecordSuperseded, JobStatuses
<1>3. \A q \in Runs : live'[q] \subseteq live[q]
  <2>1. live' = live \/ live' = [live EXCEPT ![r] = @ \ {worker[w].job}]
    BY DEF RecordJob, RecordSuperseded
  <2> QED
    BY <2>1 DEF TypeInv, TypeOK
<1>4. ~worker[w].retry => status'[r] # "approved"
  <2>1. CASE status[r] = expected
    BY <2>1 DEF RecordJob, SetStatus, TypeInv, TypeOK
  <2>2. CASE status[r] # expected
    BY <2>2 DEF RecordJob, KeepStatus
  <2> QED
    BY <2>1, <2>2
<1>5. UNCHANGED <<launched, decisions>> /\ Release(w)
  BY DEF RecordJob
<1> QED
  BY <1>1, <1>2, <1>3, <1>4, <1>5 DEF RecordStep

LEMMA CallKind ==
  ASSUME TypeInv, NEW w \in Workers, Call(w)
  PROVE  QuietStep
<1> PICK r \in Runs : \/ IntakeStart(w, r)
                      \/ \E u \in Users : Approve(w, r, u)
                      \/ \E e \in PrEvents : RecordPr(w, r, e)
  BY DEF Call
<1>0. worker[w].pc \notin Claiming
  BY DEF Call, IntakeStart, Approve, RecordPr, Free, Claiming
<1>1. \/ UNCHANGED worker
      \/ \E pc \in {"intake", "dispatch", "remediate"} : Begin(w, pc, r)
  BY DEF IntakeStart, Approve, SignOff, ThenDispatch, RecordPr
<1>2. \/ UNCHANGED worker
      \/ \E x \in WorkerStates : /\ x.pc \notin Claiming
                                 /\ Becomes(w, x)
  <2>1. ASSUME NEW pc \in {"intake", "dispatch", "remediate"}
        PROVE  /\ [Idle EXCEPT !.pc = pc, !.run = r] \in WorkerStates
               /\ [Idle EXCEPT !.pc = pc, !.run = r].pc \notin Claiming
    BY DEF Idle, WorkerStates, WorkerPcs, Claiming
  <2> QED
    BY <1>1, <2>1 DEF Begin, Becomes
<1>3. SameRows
  <2>1. \/ UNCHANGED jobs
        \/ Len(jobs[r]) > 0 /\ SetLatestJob(r, "succeeded")
    BY DEF IntakeStart, Approve, SignOff, RecordPr
  <2> QED
    BY <2>1, SameRowsKept, SetLatestJobRows
<1>4. UNCHANGED <<launched, decisions, live>>
  BY DEF IntakeStart, Approve, SignOff, RecordPr
<1> QED
  BY <1>0, <1>2, <1>3, <1>4 DEF QuietStep

\* Every step is of one of these kinds.
LEMMA StepKinds ==
  ASSUME TypeInv, [Next]_vars
  PROVE  \/ QuietStep
         \/ \E w \in Workers :
              \/ \E r \in Runs : ClaimStep(w, r) \/ LaunchStep(w, r) \/ RecordStep(w, r)
              \/ RaiseStep(w)
              \/ Crash(w)
<1> DEFINE Goal == \/ QuietStep
                   \/ \E w \in Workers :
                        \/ \E r \in Runs : ClaimStep(w, r) \/ LaunchStep(w, r) \/ RecordStep(w, r)
                        \/ RaiseStep(w)
                        \/ Crash(w)
<1>1. ASSUME NEW w \in Workers, worker[w].pc \notin Claiming, Release(w),
             UNCHANGED <<launched, decisions, jobs, live>>
      PROVE  QuietStep
  <2>1. Idle \in WorkerStates /\ Idle.pc \notin Claiming
    BY DEF Idle, WorkerStates, WorkerPcs, Claiming
  <2> QED
    BY <1>1, <2>1, SameRowsKept DEF QuietStep, Becomes, Release
<1>2. ASSUME NEW w \in Workers, Continue(w) PROVE Goal
  <2>1. ASSUME NEW t \in Tickets, IntakeInsert(w, t) PROVE Goal
    BY <1>1, <2>1 DEF IntakeInsert, Claiming
  <2>2. CASE RecordDispatchFailure(w)
    BY <1>1, <2>2 DEF RecordDispatchFailure, Claiming
  <2> QED
    BY <1>2, <2>1, <2>2, DispatchGateKind, RemediateKind, ProviderKind, RecordKind DEF Continue
<1>3. CASE UNCHANGED vars
  BY <1>3, SameRowsKept DEF vars, QuietStep
<1> QED
  BY <1>2, <1>3, CallKind, EndingRows DEF Next, ServingNext

-----------------------------------------------------------------------------
(* Lemmas: counting workers                                                  *)

LEMMA HeldType ==
  ASSUME NEW pcs, NEW r
  PROVE  /\ IsFiniteSet(Holders(worker, pcs, r))
         /\ Held(worker, pcs, r) \in Nat
         /\ Held(worker, pcs, r) <= Cardinality(Workers)
         /\ Cardinality(Workers) \in Nat
<1>1. Holders(worker, pcs, r) \in SUBSET Workers
  BY DEF Holders
<1> QED
  BY <1>1, FS_Subset, FS_CardinalityType, LifecycleAssumption DEF Held

\* A worker that holds nothing is one that the holders leave over.
LEMMA HeldByOthers ==
  ASSUME NEW pcs, NEW r, NEW w \in Workers, worker[w].pc \notin pcs
  PROVE  Held(worker, pcs, r) <= Cardinality(Workers) - 1
<1>1. Holders(worker, pcs, r) \in SUBSET (Workers \ {w})
  BY DEF Holders
<1>2. IsFiniteSet(Workers \ {w}) /\ Cardinality(Workers \ {w}) = Cardinality(Workers) - 1
  BY FS_RemoveElement, LifecycleAssumption
<1> QED
  BY <1>1, <1>2, FS_Subset DEF Held

LEMMA HeldSame ==
  ASSUME UNCHANGED worker, NEW pcs, NEW r
  PROVE  Held(worker', pcs, r) = Held(worker, pcs, r)
OBVIOUS

\* How a count changes when one worker moves.
LEMMA HeldMove ==
  ASSUME TypeInv, NEW w \in Workers, NEW x \in WorkerStates,
         Becomes(w, x), NEW pcs, NEW r
  PROVE  LET was == worker[w].pc \in pcs /\ worker[w].run = r
             is == x.pc \in pcs /\ x.run = r
         IN  /\ (was <=> is) => Held(worker', pcs, r) = Held(worker, pcs, r)
             /\ ~was /\ is => Held(worker', pcs, r) = Held(worker, pcs, r) + 1
             /\ was /\ ~is => Held(worker', pcs, r) = Held(worker, pcs, r) - 1
<1> DEFINE Others == Holders(worker, pcs, r) \ {w}
           was == worker[w].pc \in pcs /\ worker[w].run = r
           is == x.pc \in pcs /\ x.run = r
<1>1. \A v \in Workers : worker'[v] = IF v = w THEN x ELSE worker[v]
  BY DEF Becomes, TypeInv, TypeOK
<1>2. /\ Holders(worker, pcs, r) = IF was THEN Others \cup {w} ELSE Others
      /\ Holders(worker', pcs, r) = IF is THEN Others \cup {w} ELSE Others
  BY <1>1 DEF Holders
<1>3. IsFiniteSet(Others) /\ w \notin Others
  BY HeldType, FS_RemoveElement
<1> HIDE DEF Others
<1>4. /\ Cardinality(Others) \in Nat
      /\ Cardinality(Others \cup {w}) = Cardinality(Others) + 1
  BY <1>3, FS_AddElement, FS_CardinalityType
<1>5. /\ Held(worker, pcs, r) = IF was THEN Cardinality(Others) + 1 ELSE Cardinality(Others)
      /\ Held(worker', pcs, r) = IF is THEN Cardinality(Others) + 1 ELSE Cardinality(Others)
  BY <1>2, <1>4 DEF Held
<1> QED
  BY <1>4, <1>5

LEMMA ReleaseHeld ==
  ASSUME TypeInv, NEW w \in Workers, Release(w), NEW pcs, "idle" \notin pcs, NEW r
  PROVE  Held(worker', pcs, r) = IF worker[w].pc \in pcs /\ worker[w].run = r
                         THEN Held(worker, pcs, r) - 1 ELSE Held(worker, pcs, r)
<1>1. Idle \in WorkerStates /\ Idle.pc \notin pcs
  BY DEF Idle, WorkerStates, WorkerPcs
<1> QED
  <2>1. Becomes(w, Idle)
    BY DEF Release, Becomes
  <2> QED
    BY <1>1, <2>1, HeldMove

LEMMA QuietHeld ==
  ASSUME TypeInv, QuietStep, NEW pcs \in SUBSET Claiming, NEW r
  PROVE  Held(worker', pcs, r) = Held(worker, pcs, r)
<1>1. CASE UNCHANGED worker
  BY <1>1, HeldSame
<1>2. ASSUME NEW w \in Workers, NEW x \in WorkerStates,
             worker[w].pc \notin pcs, x.pc \notin pcs,
             Becomes(w, x)
      PROVE  Held(worker', pcs, r) = Held(worker, pcs, r)
  BY <1>2, HeldMove, HeldType
<1> QED
  BY <1>1, <1>2 DEF QuietStep

-----------------------------------------------------------------------------
(* Decisions come before jobs                                                *)

LEMMA DecidedNext == DecidedInv /\ [Next]_vars => DecidedInv'
<1> SUFFICES ASSUME DecidedInv, [Next]_vars, NEW q \in Runs
             PROVE  launched'[q] + Held(worker', Launching, q) <= decisions'[q]
  BY TypeInvNext DEF DecidedInv
<1> USE DEF DecidedInv
<1>0. /\ launched[q] \in Nat /\ decisions[q] \in Nat
      /\ Held(worker, Launching, q) \in Nat
      /\ launched[q] + Held(worker, Launching, q) <= decisions[q]
  BY HeldType DEF TypeInv, TypeOK
<1>a. Launching \in SUBSET Claiming /\ "idle" \notin Launching /\ "failed" \notin Launching
      /\ "record" \notin Launching /\ "launch" \in Launching /\ "launch" \in Claiming
  BY DEF Launching, Claiming
<1>1. CASE QuietStep
  BY <1>0, <1>1, <1>a, QuietHeld DEF QuietStep
<1>2. ASSUME NEW w \in Workers, NEW r \in Runs, ClaimStep(w, r)
      PROVE  launched'[q] + Held(worker', Launching, q) <= decisions'[q]
  <2>1. Held(worker', Launching, q) = IF q = r THEN Held(worker, Launching, q) + 1 ELSE Held(worker, Launching, q)
    BY <1>0, <1>2, <1>a, HeldMove DEF ClaimStep
  <2>2. /\ decisions'[q] = IF q = r THEN decisions[q] + 1 ELSE decisions[q]
        /\ launched'[q] = launched[q]
    BY <1>0, <1>2 DEF ClaimStep, TypeInv, TypeOK
  <2> QED
    BY <1>0, <2>1, <2>2
<1>3. ASSUME NEW w \in Workers, NEW r \in Runs, LaunchStep(w, r)
      PROVE  launched'[q] + Held(worker', Launching, q) <= decisions'[q]
  <2>1. Held(worker', Launching, q) = IF q = r THEN Held(worker, Launching, q) - 1 ELSE Held(worker, Launching, q)
    BY <1>0, <1>3, <1>a, HeldMove DEF LaunchStep
  <2>2. /\ launched'[q] = IF q = r THEN launched[q] + 1 ELSE launched[q]
        /\ decisions'[q] = decisions[q]
    BY <1>0, <1>3 DEF LaunchStep, TypeInv, TypeOK
  <2> QED
    BY <1>0, <2>1, <2>2
<1>4. ASSUME NEW w \in Workers, RaiseStep(w)
      PROVE  launched'[q] + Held(worker', Launching, q) <= decisions'[q]
  <2>1. Held(worker', Launching, q) =
          IF worker[w].run = q THEN Held(worker, Launching, q) - 1 ELSE Held(worker, Launching, q)
    BY <1>0, <1>4, <1>a, HeldMove DEF RaiseStep
  <2> QED
    BY <1>0, <1>4, <2>1 DEF RaiseStep
<1>5. ASSUME NEW w \in Workers, Release(w), UNCHANGED <<launched, decisions>>
      PROVE  launched'[q] + Held(worker', Launching, q) <= decisions'[q]
  <2>1. Held(worker', Launching, q) <= Held(worker, Launching, q) /\ Held(worker', Launching, q) \in Int
    BY <1>0, <1>5, <1>a, ReleaseHeld
  <2> QED
    BY <1>0, <1>5, <2>1
<1> QED
  BY <1>1, <1>2, <1>3, <1>4, <1>5, StepKinds DEF RecordStep, Crash

\* Issue #13, whatever fails: every job the provider ever created for a run
\* has an allowing decision of its own, which was committed before it.
THEOREM LaunchesAreDecided == Spec => []EveryLaunchWasDecided
<1>1. Init => DecidedInv
  <2> SUFFICES ASSUME Init, NEW r \in Runs
               PROVE  launched[r] + Held(worker, Launching, r) <= decisions[r]
    BY TypeInvInit DEF DecidedInv
  <2>1. Holders(worker, Launching, r) = {}
    BY DEF Init, Holders, Launching, Idle
  <2>2. Held(worker, Launching, r) = 0
    BY <2>1, FS_EmptySet DEF Held
  <2>3. launched[r] = 0 /\ decisions[r] = 0
    BY DEF Init
  <2> QED
    BY <2>2, <2>3
<1>2. DecidedInv => EveryLaunchWasDecided
  <2> SUFFICES ASSUME DecidedInv, NEW r \in Runs PROVE launched[r] <= decisions[r]
    BY DEF EveryLaunchWasDecided
  <2>1. launched[r] \in Nat /\ decisions[r] \in Nat /\ Held(worker, Launching, r) \in Nat
    BY HeldType DEF DecidedInv, TypeInv, TypeOK
  <2> QED
    BY <2>1 DEF DecidedInv
<1> QED
  BY <1>1, <1>2, DecidedNext, PTL DEF Spec

-----------------------------------------------------------------------------
(* Jobs come before rows                                                     *)

LEMMA AddJobRows ==
  ASSUME TypeInv, NEW r \in Runs, NEW n \in Nat, NEW s \in JobStatuses, AddJob(r, n, s)
  PROVE  /\ \A q \in Runs \ {r} : jobs'[q] = jobs[q]
         /\ Len(jobs'[r]) = Len(jobs[r]) + 1
         /\ jobs'[r][Len(jobs[r]) + 1].id = n
         /\ \A i \in 1..Len(jobs[r]) : jobs'[r][i] = jobs[r][i]
<1> DEFINE row == [id |-> n, status |-> s]
<1>1. row \in JobRows /\ row.id = n
  BY DEF JobRows
<1>2. \A q \in Runs : jobs'[q] = IF q = r THEN Append(jobs[r], row) ELSE jobs[q]
  BY DEF AddJob, TypeInv, TypeOK
<1>3. jobs[r] \in Seq(JobRows)
  BY DEF TypeInv, TypeOK
<1> HIDE DEF row
<1>4. /\ Len(Append(jobs[r], row)) = Len(jobs[r]) + 1
      /\ Append(jobs[r], row)[Len(jobs[r]) + 1] = row
      /\ \A i \in 1..Len(jobs[r]) : Append(jobs[r], row)[i] = jobs[r][i]
  BY <1>1, <1>3, AppendProperties
<1> QED
  BY <1>1, <1>2, <1>4

LEMMA RecordedRows ==
  ASSUME TypeInv, NEW w \in Workers, NEW r \in Runs, RecordStep(w, r)
  PROVE  /\ \A q \in Runs \ {r} : jobs'[q] = jobs[q]
         /\ Len(jobs'[r]) = Len(jobs[r]) + 1
         /\ jobs'[r][Len(jobs[r]) + 1].id = worker[w].job
         /\ \A i \in 1..Len(jobs[r]) : jobs'[r][i] = jobs[r][i]
<1>1. worker[w].job \in Nat
  BY DEF TypeInv, TypeOK, WorkerStates
<1> QED
  BY <1>1, AddJobRows DEF RecordStep

\* A live job that has a row, or a worker that is about to write it.
Accounted(r, n) ==
  \/ \E i \in 1..Len(jobs[r]) : jobs[r][i].id = n
  \/ \E w \in Workers :
       worker[w].pc = "record" /\ worker[w].run = r /\ worker[w].job = n

LEMMA LiveJobsNext ==
  ASSUME "crash" \notin Faults, TypeInv, LiveJobsAreRecorded, [Next]_vars
  PROVE  LiveJobsAreRecorded'
<1> SUFFICES ASSUME NEW q \in Runs, NEW n \in live'[q] PROVE Accounted(q, n)'
  BY DEF LiveJobsAreRecorded, Accounted
<1>a. \A m \in live[q] : Accounted(q, m)
  BY DEF LiveJobsAreRecorded, Accounted
<1>l. Len(jobs[q]) \in Nat
  BY RowCount
<1>1. CASE QuietStep
  <2>1. Accounted(q, n)
    BY <1>1, <1>a DEF QuietStep
  <2>2. /\ Len(jobs'[q]) = Len(jobs[q])
        /\ \A i \in 1..Len(jobs[q]) : jobs'[q][i].id = jobs[q][i].id
    BY <1>1 DEF QuietStep, SameRows
  <2>3. \A v \in Workers : worker[v].pc = "record" => worker'[v] = worker[v]
    BY <1>1 DEF QuietStep, Becomes, Claiming, TypeInv, TypeOK
  <2> QED
    BY <2>1, <2>2, <2>3 DEF Accounted
<1>2. ASSUME NEW w \in Workers, NEW x \in WorkerStates, worker[w].pc # "record",
             Becomes(w, x), UNCHANGED <<jobs, live>>
      PROVE  Accounted(q, n)'
  <2>1. \A v \in Workers : worker[v].pc = "record" => worker'[v] = worker[v]
    BY <1>2 DEF Becomes, TypeInv, TypeOK
  <2> QED
    BY <1>2, <1>a, <2>1 DEF Accounted
<1>3. ASSUME NEW w \in Workers, NEW r \in Runs, LaunchStep(w, r)
      PROVE  Accounted(q, n)'
  <2> PICK x \in WorkerStates :
             /\ x.pc = "record" /\ x.run = r /\ x.job = launched[r] + 1
             /\ Becomes(w, x)
    BY <1>3 DEF LaunchStep
  <2>1. \A v \in Workers : worker'[v] = IF v = w THEN x ELSE worker[v]
    BY DEF Becomes, TypeInv, TypeOK
  <2>2. n \in live[q] \/ (q = r /\ n = launched[r] + 1)
    BY <1>3 DEF LaunchStep, TypeInv, TypeOK
  <2>3. CASE n \in live[q]
    BY <1>3, <1>a, <2>1, <2>3 DEF LaunchStep, Accounted
  <2>4. CASE q = r /\ n = launched[r] + 1
    BY <2>1, <2>4 DEF Accounted
  <2> QED
    BY <2>2, <2>3, <2>4
<1>4. ASSUME NEW w \in Workers, NEW r \in Runs, RecordStep(w, r)
      PROVE  Accounted(q, n)'
  <2>1. Accounted(q, n)
    BY <1>4, <1>a DEF RecordStep
  <2>2. /\ Len(jobs'[q]) = IF q = r THEN Len(jobs[q]) + 1 ELSE Len(jobs[q])
        /\ q = r => jobs'[q][Len(jobs[q]) + 1].id = worker[w].job
        /\ \A i \in 1..Len(jobs[q]) : jobs'[q][i] = jobs[q][i]
    BY <1>4, RecordedRows
  <2>3. \A v \in Workers \ {w} : worker'[v] = worker[v]
    BY <1>4 DEF RecordStep, Release, TypeInv, TypeOK
  <2>4. CASE \E i \in 1..Len(jobs[q]) : jobs[q][i].id = n
    BY <1>l, <2>2, <2>4 DEF Accounted
  <2>5. CASE \E v \in Workers \ {w} :
               worker[v].pc = "record" /\ worker[v].run = q /\ worker[v].job = n
    BY <2>3, <2>5 DEF Accounted
  <2>6. CASE worker[w].run = q /\ worker[w].job = n
    <3>1. q = r
      BY <1>4, <2>6 DEF RecordStep
    <3>2. Len(jobs[q]) + 1 \in 1..Len(jobs'[q]) /\ jobs'[q][Len(jobs[q]) + 1].id = n
      BY <1>l, <2>2, <2>6, <3>1
    <3> QED
      BY <3>2 DEF Accounted
  <2> QED
    BY <2>1, <2>4, <2>5, <2>6 DEF Accounted
<1> QED
  BY <1>1, <1>2, <1>3, <1>4, StepKinds DEF ClaimStep, RaiseStep, Crash, Claiming

\* While nobody crashes, no job runs off the books: it has a row, or its
\* worker holds it and is about to write one.
THEOREM NoJobOffTheBooks ==
  ASSUME "crash" \notin Faults
  PROVE  Spec => []LiveJobsAreRecorded
<1>1. Init => LiveJobsAreRecorded
  BY DEF Init, LiveJobsAreRecorded
<1>2. TypeInv /\ LiveJobsAreRecorded /\ [Next]_vars => LiveJobsAreRecorded'
  BY LiveJobsNext
<1> QED
  BY <1>1, <1>2, TypeInvInit, TypeInvNext, PTL DEF Spec

-----------------------------------------------------------------------------
(* How far the retry cap and the budget can be overshot                      *)

\* No step takes a run back before its sign-off or its dispatch.
LEMMA StatusGrows ==
  ASSUME AuthorityInv, [Next]_vars, NEW q \in Runs
  PROVE  /\ status[q] \notin Unsigned => status'[q] \notin Unsigned
         /\ status[q] \notin Undispatched => status'[q] \notin Undispatched
<1>1. CASE KeepStatus
  BY <1>1 DEF KeepStatus
<1>2. ASSUME NEW r \in Runs, NEW s, SetStatus(r, s), s \notin Undispatched
      PROVE  /\ status[q] \notin Unsigned => status'[q] \notin Unsigned
             /\ status[q] \notin Undispatched => status'[q] \notin Undispatched
  BY <1>2, SetStatusEffect DEF AuthorityInv, Undispatched
<1>3. ASSUME NEW r \in Runs, NEW s, SetStatus(r, s), status[r] \in Unsigned
      PROVE  /\ status[q] \notin Unsigned => status'[q] \notin Unsigned
             /\ status[q] \notin Undispatched => status'[q] \notin Undispatched
  BY <1>3, SetStatusEffect DEF AuthorityInv, Undispatched
<1>4. \A s \in {"agent_running", "pr_open", "review_required", "complete",
                "rejected", "blocked", "execution_failed"} : s \notin Undispatched
  BY DEF Undispatched, Unsigned, NoStatus
<1>5. ASSUME NEW r \in Runs, Moves(r)
      PROVE  \E s : SetStatus(r, s) /\ (s \notin Undispatched \/ status[r] \in Unsigned)
  BY <1>4, <1>5 DEF Moves, SignOff, MayApprove, Unsigned
<1>6. ASSUME NEW r \in Runs, FailureMoves(r)
      PROVE  \E s : SetStatus(r, s) /\ s \notin Undispatched
  BY <1>4, <1>6 DEF FailureMoves, FailureStatuses
<1> QED
  BY <1>1, <1>2, <1>3, <1>5, <1>6, LifecycleStep

LEMMA RowsFollowDispatchNext ==
  ASSUME AuthorityInv, RowsFollowDispatch, [Next]_vars
  PROVE  RowsFollowDispatch'
<1> USE DEF AuthorityInv
<1>g. \A q \in Runs : /\ status[q] \notin Unsigned => status'[q] \notin Unsigned
                      /\ status[q] \notin Undispatched => status'[q] \notin Undispatched
  BY StatusGrows
<1>r. \A v \in Workers : worker[v].pc \in Claiming => worker[v].run \in Runs
  BY DEF TypeInv, BusyWorkersHaveARun, Claiming
<1>t. \A q \in Runs : jobs'[q] \in Seq(JobRows)
  BY TypeInvNext DEF TypeInv, TypeOK
<1>1. ASSUME NEW q \in Runs, status'[q] \in Undispatched
      PROVE  jobs'[q] = <<>>
  <2>1. status[q] \in Undispatched /\ jobs[q] = <<>> /\ Len(jobs[q]) = 0
    BY <1>1, <1>g DEF RowsFollowDispatch
  <2>2. ASSUME NEW w \in Workers, RecordStep(w, q) PROVE FALSE
    <3>1. /\ status[q] \notin Unsigned
          /\ worker[w].retry => status[q] \notin Undispatched
      BY <2>2 DEF RecordStep, RowsFollowDispatch, Claiming
    <3>2. status'[q] = "approved"
      BY <1>1, <1>g, <3>1 DEF Undispatched
    <3> QED
      BY <2>1, <2>2, <3>1, <3>2 DEF RecordStep, TypeInv, TypeOK, WorkerStates
  <2>3. ASSUME NEW w \in Workers, NEW r \in Runs, RecordStep(w, r), r # q
        PROVE  jobs'[q] = jobs[q]
    BY <2>3, RecordedRows
  <2>4. Len(jobs'[q]) = 0
    BY <2>1, <2>2, <2>3, StepKinds
    DEF QuietStep, SameRows, ClaimStep, LaunchStep, RaiseStep, Crash
  <2> QED
    BY <1>t, <2>4, EmptySeq
<1> DEFINE Follows(v) == worker[v].pc \in Claiming =>
                           /\ status[worker[v].run] \notin Unsigned
                           /\ worker[v].retry => status[worker[v].run] \notin Undispatched
<1>2. ASSUME NEW v \in Workers, worker'[v] = worker[v] PROVE Follows(v)'
  BY <1>2, <1>g, <1>r DEF RowsFollowDispatch
<1>3. ASSUME NEW w \in Workers, NEW x \in WorkerStates, Becomes(w, x),
             x.pc \in Claiming =>
               /\ x.run \in Runs /\ status[x.run] \notin Unsigned
               /\ x.retry => status[x.run] \notin Undispatched,
             NEW v \in Workers
      PROVE  Follows(v)'
  <2>1. worker'[v] = IF v = w THEN x ELSE worker[v]
    BY <1>3 DEF Becomes, TypeInv, TypeOK
  <2>2. CASE v = w
    BY <1>3, <1>g, <2>1, <2>2
  <2> QED
    BY <1>2, <2>1, <2>2
<1>4. Idle \in WorkerStates /\ Idle.pc \notin Claiming
  BY DEF Idle, WorkerStates, WorkerPcs, Claiming
<1> HIDE DEF Follows
<1>5. ASSUME NEW v \in Workers PROVE Follows(v)'
  <2>1. CASE QuietStep
    BY <1>2, <1>3, <2>1 DEF QuietStep
  <2>2. ASSUME NEW w \in Workers, NEW r \in Runs, ClaimStep(w, r) PROVE Follows(v)'
    <3>1. "approved" \notin Unsigned /\ "pr_open" \notin Undispatched
          /\ "pr_open" \notin Unsigned
      BY DEF Unsigned, Undispatched, NoStatus
    <3> QED
      BY <1>3, <2>2, <3>1 DEF ClaimStep
  <2>3. ASSUME NEW w \in Workers, NEW r \in Runs, LaunchStep(w, r) PROVE Follows(v)'
    <3>1. /\ status[r] \notin Unsigned
          /\ worker[w].retry => status[r] \notin Undispatched
      BY <2>3 DEF LaunchStep, RowsFollowDispatch, Claiming
    <3> QED
      BY <1>3, <2>3, <3>1 DEF LaunchStep
  <2>4. ASSUME NEW w \in Workers, RaiseStep(w) PROVE Follows(v)'
    BY <1>3, <2>4 DEF RaiseStep, Claiming
  <2>5. ASSUME NEW w \in Workers, Release(w) PROVE Follows(v)'
    <3>1. Becomes(w, Idle)
      BY <2>5 DEF Release, Becomes
    <3> QED
      BY <1>3, <1>4, <3>1
  <2> QED
    BY <2>1, <2>2, <2>3, <2>4, <2>5, StepKinds DEF RecordStep, Crash
<1> QED
  BY <1>1, <1>5 DEF RowsFollowDispatch, Follows

LEMMA CountsAgreeNext ==
  ASSUME "crash" \notin Faults, TypeInv, CountsAgree, [Next]_vars
  PROVE  CountsAgree'
<1> SUFFICES ASSUME NEW q \in Runs
             PROVE  launched'[q] = Len(jobs'[q]) + Held(worker', Recording, q)
  BY DEF CountsAgree
<1>0. /\ launched[q] \in Nat /\ Len(jobs[q]) \in Nat
      /\ Held(worker, Recording, q) \in Nat
      /\ launched[q] = Len(jobs[q]) + Held(worker, Recording, q)
  BY HeldType, RowCount DEF CountsAgree, TypeInv, TypeOK
<1>a. /\ Recording \in SUBSET Claiming /\ "record" \in Recording
      /\ \A pc \in {"idle", "launch", "failed"} : pc \notin Recording
      /\ \A pc : pc \notin Claiming => pc \notin Recording
  BY DEF Recording, Claiming
<1>1. CASE QuietStep
  BY <1>0, <1>1, <1>a, QuietHeld DEF QuietStep, SameRows
<1>2. ASSUME NEW w \in Workers, NEW r \in Runs, ClaimStep(w, r)
      PROVE  launched'[q] = Len(jobs'[q]) + Held(worker', Recording, q)
  <2>1. Held(worker', Recording, q) = Held(worker, Recording, q)
    BY <1>2, <1>a, HeldMove DEF ClaimStep
  <2> QED
    BY <1>0, <1>2, <2>1 DEF ClaimStep
<1>3. ASSUME NEW w \in Workers, NEW r \in Runs, LaunchStep(w, r)
      PROVE  launched'[q] = Len(jobs'[q]) + Held(worker', Recording, q)
  <2>1. Held(worker', Recording, q) =
          IF q = r THEN Held(worker, Recording, q) + 1 ELSE Held(worker, Recording, q)
    BY <1>3, <1>a, HeldMove DEF LaunchStep
  <2>2. /\ launched'[q] = IF q = r THEN launched[q] + 1 ELSE launched[q]
        /\ jobs' = jobs
    BY <1>0, <1>3 DEF LaunchStep, TypeInv, TypeOK
  <2> QED
    BY <1>0, <2>1, <2>2
<1>4. ASSUME NEW w \in Workers, RaiseStep(w)
      PROVE  launched'[q] = Len(jobs'[q]) + Held(worker', Recording, q)
  <2>1. Held(worker', Recording, q) = Held(worker, Recording, q)
    BY <1>4, <1>a, HeldMove DEF RaiseStep
  <2> QED
    BY <1>0, <1>4, <2>1 DEF RaiseStep
<1>5. ASSUME NEW w \in Workers, NEW r \in Runs, RecordStep(w, r)
      PROVE  launched'[q] = Len(jobs'[q]) + Held(worker', Recording, q)
  <2>1. Held(worker', Recording, q) =
          IF q = r THEN Held(worker, Recording, q) - 1 ELSE Held(worker, Recording, q)
    BY <1>5, <1>a, ReleaseHeld DEF RecordStep
  <2>2. Len(jobs'[q]) = IF q = r THEN Len(jobs[q]) + 1 ELSE Len(jobs[q])
    BY <1>5, RecordedRows
  <2> QED
    BY <1>0, <1>5, <2>1, <2>2 DEF RecordStep
<1> QED
  BY <1>1, <1>2, <1>3, <1>4, <1>5, StepKinds DEF Crash

\* Rows and claims grow only where a gate lets one more worker through.
LEMMA ClaimsGrow ==
  ASSUME TypeInv, [Next]_vars, NEW q \in Runs
  PROVE  LET before == Len(jobs[q]) + Held(worker, Claiming, q)
             after == Len(jobs'[q]) + Held(worker', Claiming, q)
         IN  /\ after \in Int
             /\ \/ after <= before
                \/ /\ after = before + 1
                   /\ Held(worker, Claiming, q) <= Cardinality(Workers) - 1
                   /\ \E w \in Workers : ClaimStep(w, q)
<1> DEFINE before == Len(jobs[q]) + Held(worker, Claiming, q)
           after == Len(jobs'[q]) + Held(worker', Claiming, q)
           Goal == /\ after \in Int
                   /\ \/ after <= before
                      \/ /\ after = before + 1
                         /\ Held(worker, Claiming, q) <= Cardinality(Workers) - 1
                         /\ \E w \in Workers : ClaimStep(w, q)
<1>0. Len(jobs[q]) \in Nat /\ Held(worker, Claiming, q) \in Nat
  BY HeldType, RowCount
<1>a. /\ Claiming \in SUBSET Claiming /\ "record" \in Claiming /\ "launch" \in Claiming
      /\ \A pc \in {"idle", "failed"} : pc \notin Claiming
  BY DEF Claiming
<1>1. CASE QuietStep
  BY <1>0, <1>1, <1>a, QuietHeld DEF QuietStep, SameRows
<1>2. ASSUME NEW w \in Workers, NEW r \in Runs, ClaimStep(w, r) PROVE Goal
  <2>1. Held(worker', Claiming, q) =
          IF q = r THEN Held(worker, Claiming, q) + 1 ELSE Held(worker, Claiming, q)
    BY <1>2, <1>a, HeldMove DEF ClaimStep
  <2>2. Held(worker, Claiming, q) <= Cardinality(Workers) - 1
    BY <1>2, HeldByOthers DEF ClaimStep
  <2>3. jobs' = jobs
    BY <1>2 DEF ClaimStep
  <2>4. CASE q = r
    BY <1>0, <1>2, <2>1, <2>2, <2>3, <2>4
  <2>5. CASE q # r
    BY <1>0, <2>1, <2>3, <2>5
  <2> QED
    BY <2>4, <2>5
<1>3. ASSUME NEW w \in Workers, NEW r \in Runs, LaunchStep(w, r) PROVE Goal
  <2>1. Held(worker', Claiming, q) = Held(worker, Claiming, q)
    BY <1>3, <1>a, HeldMove DEF LaunchStep
  <2> QED
    BY <1>0, <1>3, <2>1 DEF LaunchStep
<1>4. ASSUME NEW w \in Workers, RaiseStep(w) PROVE Goal
  <2>1. \/ Held(worker', Claiming, q) = Held(worker, Claiming, q)
        \/ Held(worker', Claiming, q) = Held(worker, Claiming, q) - 1
    BY <1>4, <1>a, HeldMove DEF RaiseStep
  <2> QED
    BY <1>0, <1>4, <2>1 DEF RaiseStep
<1>5. ASSUME NEW w \in Workers, NEW r \in Runs, RecordStep(w, r) PROVE Goal
  <2>1. Held(worker', Claiming, q) =
          IF q = r THEN Held(worker, Claiming, q) - 1 ELSE Held(worker, Claiming, q)
    BY <1>5, <1>a, ReleaseHeld DEF RecordStep
  <2>2. Len(jobs'[q]) = IF q = r THEN Len(jobs[q]) + 1 ELSE Len(jobs[q])
    BY <1>5, RecordedRows
  <2> QED
    BY <1>0, <2>1, <2>2
<1>6. ASSUME NEW w \in Workers, Crash(w) PROVE Goal
  <2>1. \/ Held(worker', Claiming, q) = Held(worker, Claiming, q)
        \/ Held(worker', Claiming, q) = Held(worker, Claiming, q) - 1
    BY <1>6, <1>a, ReleaseHeld DEF Crash
  <2> QED
    BY <1>0, <1>6, <2>1 DEF Crash
<1> QED
  BY <1>1, <1>2, <1>3, <1>4, <1>5, <1>6, StepKinds

LEMMA RetryInit == Init => RetryInv
<1> SUFFICES ASSUME Init PROVE RetryInv
  OBVIOUS
<1>1. \A r \in Runs : jobs[r] = <<>> /\ launched[r] = 0
  BY DEF Init
<1>2. \A w \in Workers : worker[w].pc = "idle"
  BY DEF Init, Idle
<1>3. AuthorityInv
  BY AuthorityInit
<1> HIDE DEF Init
<1>4. ASSUME NEW r \in Runs PROVE Held(worker, Recording, r) = 0 /\ Held(worker, Claiming, r) = 0
  <2>1. Holders(worker, Recording, r) = {} /\ Holders(worker, Claiming, r) = {}
    BY <1>2 DEF Holders, Recording, Claiming
  <2> QED
    BY <2>1, FS_EmptySet DEF Held
<1>5. RowsFollowDispatch
  BY <1>1, <1>2 DEF RowsFollowDispatch, Claiming
<1>6. CountsAgree
  BY <1>1, <1>4 DEF CountsAgree
<1>7. \A r \in Runs : Claims(r) <= MaxRetries + Cardinality(Workers)
  BY <1>1, <1>4, HeldType, LifecycleAssumption DEF Claims
<1> QED
  BY <1>3, <1>5, <1>6, <1>7 DEF RetryInv

LEMMA RetryNext ==
  ASSUME "crash" \notin Faults
  PROVE  RetryInv /\ [Next]_vars => RetryInv'
<1> SUFFICES ASSUME RetryInv, [Next]_vars PROVE RetryInv'
  OBVIOUS
<1> USE DEF RetryInv
<1>t. TypeInv
  BY DEF AuthorityInv
<1>1. AuthorityInv' /\ RowsFollowDispatch' /\ CountsAgree'
  BY <1>t, AuthorityNext, RowsFollowDispatchNext, CountsAgreeNext
<1>2. ASSUME NEW q \in Runs
      PROVE  Len(jobs'[q]) + Held(worker', Claiming, q) <= MaxRetries + Cardinality(Workers)
  <2>0. /\ Len(jobs[q]) \in Nat /\ Held(worker, Claiming, q) \in Nat
        /\ Cardinality(Workers) \in Nat /\ MaxRetries \in Nat
        /\ Len(jobs[q]) + Held(worker, Claiming, q) <= MaxRetries + Cardinality(Workers)
    BY <1>t, HeldType, RowCount, LifecycleAssumption DEF Claims
  <2>1. ASSUME NEW w \in Workers, ClaimStep(w, q) PROVE Len(jobs[q]) <= MaxRetries
    <3>1. CASE status[q] = "approved"
      <4>1. Len(jobs[q]) = 0
        BY <3>1 DEF RowsFollowDispatch, Undispatched
      <4> QED
        BY <2>0, <4>1
    <3> QED
      BY <2>1, <3>1 DEF ClaimStep
  <2> QED
    BY <1>t, <2>0, <2>1, ClaimsGrow
<1> QED
  BY <1>1, <1>2 DEF Claims

\* While nobody crashes, the retry cap is overshot by no more than the
\* workers that passed the gate before each other's rows were written.
THEOREM RetryOvershoot ==
  ASSUME "crash" \notin Faults
  PROVE  Spec => []RetryOvershootBounded
<1>1. RetryInv => RetryOvershootBounded
  <2> SUFFICES ASSUME RetryInv, NEW r \in Runs
               PROVE  launched[r] <= MaxRetries + Cardinality(Workers)
    BY DEF RetryOvershootBounded
  <2>1. Holders(worker, Recording, r) \in SUBSET Holders(worker, Claiming, r)
    BY DEF Holders, Recording, Claiming
  <2>2. Held(worker, Recording, r) <= Held(worker, Claiming, r)
    BY <2>1, HeldType, FS_Subset DEF Held
  <2>3. /\ Len(jobs[r]) \in Nat /\ Cardinality(Workers) \in Nat
        /\ Held(worker, Recording, r) \in Nat /\ Held(worker, Claiming, r) \in Nat
    BY HeldType, RowCount DEF RetryInv, AuthorityInv
  <2> QED
    BY <2>2, <2>3, LifecycleAssumption DEF RetryInv, CountsAgree, Claims
<1> QED
  BY <1>1, RetryInit, RetryNext, PTL DEF Spec

\* Dispatches in the plural cost no less than fewer of them.
LEMMA CostMonotone ==
  ASSUME NEW c \in Nat, NEW m \in Int, NEW n \in Int, m <= n
  PROVE  c * m <= c * n /\ c * m \in Int /\ c * n \in Int
<1>1. c * (n - m) >= 0
  BY SMT
<1>2. c * n = c * m + c * (n - m)
  BY SMT
<1>3. c * m \in Int /\ c * n \in Int /\ c * (n - m) \in Int
  BY SMT
<1> QED
  BY <1>1, <1>2, <1>3

\* What a gate that counted j rows lets through, with h rivals on their way.
LEMMA CostOfOneMore ==
  ASSUME NEW c \in Nat, NEW cap \in Nat, NEW j \in Nat, NEW h \in Nat, NEW others \in Int,
         c * j + c < cap, h <= others
  PROVE  c * (j + h + 1) < cap + c * others
<1>1. c * h <= c * others /\ c * h \in Int /\ c * others \in Int
  BY CostMonotone
<1>2. c * (j + h + 1) = c * j + c + c * h
  BY SMT
<1>3. c * j \in Int
  BY SMT
<1> QED
  BY <1>1, <1>2, <1>3

LEMMA SpendNext ==
  ASSUME "crash" \notin Faults
  PROVE  SpendInv /\ [Next]_vars => SpendInv'
<1> SUFFICES ASSUME SpendInv, [Next]_vars PROVE SpendInv'
  OBVIOUS
<1> USE DEF SpendInv
<1> DEFINE Bound == MaxCost + CostPerDispatch * (Cardinality(Workers) - 1)
<1>t. TypeInv
  BY DEF RetryInv, AuthorityInv
<1>1. RetryInv'
  BY RetryNext
<1>2. ASSUME NEW q \in Runs, MaxCost # NoCap,
             Len(jobs'[q]) + Held(worker', Claiming, q) > 0
      PROVE  CostPerDispatch * (Len(jobs'[q]) + Held(worker', Claiming, q)) < Bound
  <2> DEFINE before == Len(jobs[q]) + Held(worker, Claiming, q)
             after == Len(jobs'[q]) + Held(worker', Claiming, q)
  <2>0. /\ Len(jobs[q]) \in Nat /\ Held(worker, Claiming, q) \in Nat
        /\ Cardinality(Workers) \in Nat /\ CostPerDispatch \in Nat /\ MaxCost \in Nat
    BY <1>t, HeldType, RowCount, LifecycleAssumption
  <2>1. before > 0 => CostPerDispatch * before < Bound
    BY <1>2 DEF Claims
  <2>2. /\ after \in Int
        /\ \/ after <= before
           \/ /\ after = before + 1
              /\ Held(worker, Claiming, q) <= Cardinality(Workers) - 1
              /\ \E w \in Workers : ClaimStep(w, q)
    BY <1>t, ClaimsGrow
  <2>3. before \in Int /\ Bound \in Int
    BY <2>0
  <2>4. CASE after <= before
    <3>1. CostPerDispatch * before < Bound
      BY <1>2, <2>1, <2>2, <2>3, <2>4
    <3>2. /\ CostPerDispatch * after <= CostPerDispatch * before
          /\ CostPerDispatch * after \in Int /\ CostPerDispatch * before \in Int
      BY <2>0, <2>2, <2>3, <2>4, CostMonotone
    <3> HIDE DEF before, after, Bound
    <3>3. CostPerDispatch * after < Bound
      BY <2>3, <3>1, <3>2
    <3> QED
      BY <3>3 DEF after
  <2>5. CASE /\ after = before + 1
             /\ Held(worker, Claiming, q) <= Cardinality(Workers) - 1
             /\ \E w \in Workers : ClaimStep(w, q)
    <3>1. CostPerDispatch * Len(jobs[q]) + CostPerDispatch < MaxCost
      BY <1>2, <2>5 DEF ClaimStep
    <3>2. Cardinality(Workers) - 1 \in Int
      BY <2>0
    <3>3. CostPerDispatch * (Len(jobs[q]) + Held(worker, Claiming, q) + 1) < Bound
      BY <2>0, <2>5, <3>1, <3>2, CostOfOneMore
    <3> QED
      BY <2>5, <3>3
  <2> QED
    BY <2>2, <2>4, <2>5
<1> HIDE DEF Bound
<1>3. \A q \in Runs : MaxCost # NoCap /\ Len(jobs'[q]) + Held(worker', Claiming, q) > 0 =>
        CostPerDispatch * (Len(jobs'[q]) + Held(worker', Claiming, q)) < Bound
  BY <1>2
<1> QED
  BY <1>1, <1>3 DEF Claims, Bound

\* While nobody crashes, the budget cap is overshot by less than one dispatch
\* for each other worker: the gate counts its own dispatch before it allows
\* it, and misses only the ones whose rows are not written yet.
THEOREM SpendOvershoot ==
  ASSUME "crash" \notin Faults
  PROVE  Spec => []SpendOvershootBounded
<1>1. Init => SpendInv
  <2> SUFFICES ASSUME Init PROVE SpendInv
    OBVIOUS
  <2>1. RetryInv /\ \A r \in Runs : jobs[r] = <<>> /\ launched[r] = 0
    BY RetryInit DEF Init
  <2>2. \A w \in Workers : worker[w].pc = "idle"
    BY DEF Init, Idle
  <2> HIDE DEF Init
  <2>3. ASSUME NEW r \in Runs PROVE Claims(r) = 0
    <3>1. Holders(worker, Claiming, r) = {}
      BY <2>2 DEF Holders, Claiming
    <3> QED
      BY <2>1, <3>1, FS_EmptySet DEF Held, Claims
  <2> QED
    BY <2>1, <2>3 DEF SpendInv
<1>2. SpendInv => SpendOvershootBounded
  <2> SUFFICES ASSUME SpendInv, NEW r \in Runs, MaxCost # NoCap, launched[r] > 0
               PROVE  CostPerDispatch * launched[r]
                        < MaxCost + CostPerDispatch * (Cardinality(Workers) - 1)
    BY DEF SpendOvershootBounded
  <2>1. Holders(worker, Recording, r) \in SUBSET Holders(worker, Claiming, r)
    BY DEF Holders, Recording, Claiming
  <2>2. Held(worker, Recording, r) <= Held(worker, Claiming, r)
    BY <2>1, HeldType, FS_Subset DEF Held
  <2>3. /\ Len(jobs[r]) \in Nat /\ Cardinality(Workers) \in Nat /\ launched[r] \in Nat
        /\ Held(worker, Recording, r) \in Nat /\ Held(worker, Claiming, r) \in Nat
    BY HeldType, RowCount DEF SpendInv, RetryInv, AuthorityInv, TypeInv, TypeOK
  <2>4. launched[r] <= Claims(r) /\ Claims(r) \in Nat
    BY <2>2, <2>3 DEF SpendInv, RetryInv, CountsAgree, Claims
  <2>5. Claims(r) > 0
    BY <2>3, <2>4
  <2>6. CostPerDispatch * Claims(r)
          < MaxCost + CostPerDispatch * (Cardinality(Workers) - 1)
    BY <2>5 DEF SpendInv
  <2>7. /\ CostPerDispatch * launched[r] <= CostPerDispatch * Claims(r)
        /\ CostPerDispatch * launched[r] \in Int /\ CostPerDispatch * Claims(r) \in Int
    BY <2>3, <2>4, CostMonotone, LifecycleAssumption
  <2>8. MaxCost + CostPerDispatch * (Cardinality(Workers) - 1) \in Int
    BY <2>3, LifecycleAssumption
  <2> QED
    BY <2>6, <2>7, <2>8
<1> QED
  BY <1>1, <1>2, SpendNext, PTL DEF Spec
=============================================================================
