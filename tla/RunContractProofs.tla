-------------------------- MODULE RunContractProofs --------------------------
(****************************************************************************)
(* RunLifecycle implements RunContract: with its workers, providers, rows   *)
(* and races, the orchestrator takes a run through the documented lifecycle *)
(* and no other way, as long as no provider call raises.                    *)
(*                                                                          *)
(* The refinement mapping reads phase and signers off the rows and computes *)
(* the quorum from the ticket.  A step that changes neither the status nor  *)
(* the signatures of a run is a stutter of the contract; every other step   *)
(* is one of its actions.                                                   *)
(****************************************************************************)
EXTENDS RunRecordsProofs

\* The quorum that the refinement mapping gives a run.
Quorum == [r \in Runs |-> MinApprovalsFor(ticket[r])]

\* A step of the contract, or none.
ContractStep == [Contract!ContractNext]_(Contract!contractVars)

\* The instance speaks of the same statuses and the same cardinality.
LEMMA ContractVocabulary ==
  /\ Contract!NoStatus = NoStatus
  /\ Contract!ActiveStatuses = ActiveStatuses
  /\ Contract!PrObservableStatuses = PrObservableStatuses
  /\ \A S : Contract!Cardinality(S) = Cardinality(S)
<1>1. /\ Contract!NoStatus = NoStatus
      /\ Contract!ActiveStatuses = ActiveStatuses
      /\ Contract!PrObservableStatuses = PrObservableStatuses
  BY DEF Contract!NoStatus, NoStatus, Contract!ActiveStatuses, ActiveStatuses,
         Contract!PrObservableStatuses, PrObservableStatuses
<1>2. \A S : Contract!Cardinality(S) = Cardinality(S)
  BY DEF Contract!Cardinality, Cardinality
<1> QED
  BY <1>1, <1>2

LEMMA QuorumType ==
  ASSUME TypeInv
  PROVE  \A r \in Runs : MinApprovalsFor(ticket[r]) \in Nat \ {0}
<1> TAKE r \in Runs
<1>1. ticket[r].repoMinApprovals \in Nat /\ MinApprovals \in Nat \ {0}
  BY LifecycleAssumption DEF TypeInv, TypeOK, TicketProfiles
<1> QED
  BY <1>1 DEF MinApprovalsFor

\* Authority, in the words of the contract.
LEMMA AuthorisedQuorum ==
  ASSUME NEW r \in Runs, Authorised(r)
  PROVE  Cardinality(approvers[r]) >= MinApprovalsFor(ticket[r])
BY DEF Authorised, MinApprovalsFor

LEMMA ContractStutter ==
  ASSUME UNCHANGED <<status, ticket, approvers>>
  PROVE  ContractStep
BY DEF ContractStep, Contract!contractVars

\* A move of the status alone is a move of the phase alone.
LEMMA ContractMove ==
  ASSUME NEW r \in Runs, NEW s, SetStatus(r, s), UNCHANGED <<ticket, approvers>>
  PROVE  Contract!Move(r, s)
BY DEF SetStatus, Contract!Move

\* An insert plans the run, or is rolled back by the index.
LEMMA ContractPlan ==
  ASSUME AuthorityInv, NEW w \in Workers, NEW t \in Tickets, IntakeInsert(w, t)
  PROVE  ContractStep
<1> DEFINE r == worker[w].run
           s == PostPlanStatus(t)
<1>1. r \in Runs /\ status[r] = NoStatus
  BY DEF IntakeInsert, AuthorityInv, TypeInv, BusyWorkersHaveARun, WorkerFacts
<1>2. approvers' = approvers
  BY DEF IntakeInsert
<1>3. CASE KeepStatus /\ UNCHANGED ticket
  BY <1>2, <1>3, ContractStutter DEF KeepStatus
<1>4. CASE /\ IndexAllows(r, s)
           /\ SetStatus(r, s)
           /\ ticket' = [ticket EXCEPT ![r] = t]
  <2>1. s \in {"waiting_approval", "needs_clarification", "blocked"}
    BY DEF PostPlanStatus
  <2>2. status' = [status EXCEPT ![r] = s]
    BY <1>4 DEF SetStatus
  <2>3. ASSUME s = "waiting_approval", NEW q \in Runs, IssueOf[q] = IssueOf[r]
        PROVE  status[q] \notin ActiveStatuses
    BY <1>1, <1>4, <2>3 DEF IndexAllows, ActiveRunsOf, ActiveStatuses, NoStatus
  <2>4. \A q \in Runs : MinApprovalsFor(ticket[q])' \in Nat \ {0}
    <3>1. TypeInv'
      BY <1>4, TypeInvContinue DEF AuthorityInv, Continue
    <3>2. \A q \in Runs : ticket'[q].repoMinApprovals \in Nat
      BY <3>1 DEF TypeInv, TypeOK, TicketProfiles
    <3> QED
      BY <3>2, LifecycleAssumption DEF MinApprovalsFor
  <2>5. \A q \in Runs \ {r} : ticket'[q] = ticket[q]
    BY <1>4 DEF AuthorityInv, TypeInv, TypeOK
  <2> HIDE DEF r, s
  <2>6. Quorum' \in [Runs -> Nat \ {0}] /\ \A q \in Runs \ {r} : Quorum'[q] = Quorum[q]
    BY <2>4, <2>5 DEF Quorum, MinApprovalsFor
  <2>7. Contract!Plan(r)
    BY <1>1, <1>2, <2>1, <2>2, <2>3, <2>6, ContractVocabulary DEF Contract!Plan, Quorum
  <2> QED
    BY <1>1, <2>7 DEF ContractStep, Contract!ContractNext
<1> QED
  BY <1>3, <1>4 DEF IntakeInsert

\* A sign-off is the contract's sign-off: the code counts one more than it
\* has recorded, the contract counts what it records.
LEMMA ContractSignOff ==
  ASSUME AuthorityInv, NEW r \in Runs, NEW u \in Users, SignOff(r, u)
  PROVE  ContractStep
<1>1. /\ status[r] = "waiting_approval" /\ u \notin approvers[r]
      /\ approvers' = [approvers EXCEPT ![r] = @ \cup {u}]
      /\ ticket' = ticket
  BY DEF SignOff, MayApprove
<1>2. approvers'[r] = approvers[r] \cup {u}
  BY <1>1 DEF AuthorityInv, TypeInv, TypeOK
<1>3. Cardinality(approvers'[r]) = Cardinality(approvers[r]) + 1
  BY <1>1, <1>2, FS_AddElement DEF AuthorityInv, RunFacts
<1>4. status' = [status EXCEPT ![r] =
        IF Cardinality(approvers'[r]) >= MinApprovalsFor(ticket[r]) THEN "approved" ELSE @]
  BY <1>3 DEF SignOff, SetStatus, KeepStatus, AuthorityInv, TypeInv, TypeOK
<1>5. Quorum' = Quorum
  BY <1>1 DEF Quorum
<1>6. Contract!SignOff(r, u)
  BY <1>1, <1>4, <1>5, ContractVocabulary DEF Contract!SignOff, Quorum
<1> QED
  BY <1>6 DEF ContractStep, Contract!ContractNext

\* Every other step of the lifecycle.
LEMMA ContractMoves ==
  ASSUME AuthorityInv, NEW r \in Runs, Moves(r), UNCHANGED <<ticket, approvers>>
  PROVE  ContractStep
<1>1. ASSUME NEW s, SetStatus(r, s), status[r] = NoStatus,
             s \in {"waiting_approval", "needs_clarification", "blocked"},
             IndexAllows(r, s)
      PROVE  ContractStep
  <2>1. ASSUME s = "waiting_approval", NEW q \in Runs, IssueOf[q] = IssueOf[r]
        PROVE  status[q] \notin ActiveStatuses
    BY <1>1, <2>1 DEF IndexAllows, ActiveRunsOf, ActiveStatuses, NoStatus
  <2>2. Quorum' = Quorum /\ Quorum \in [Runs -> Nat \ {0}]
    BY QuorumType DEF Quorum, AuthorityInv
  <2>3. Contract!Plan(r)
    BY <1>1, <2>1, <2>2, ContractVocabulary DEF Contract!Plan, Quorum, SetStatus
  <2> QED
    BY <2>3 DEF ContractStep, Contract!ContractNext
<1>2. ASSUME NEW u \in Users, SignOff(r, u) PROVE ContractStep
  BY <1>2, ContractSignOff
<1>3. ASSUME status[r] \in {"approved", "agent_running", "pr_open"},
             SetStatus(r, "agent_running")
      PROVE  ContractStep
  <2>1. Contract!Move(r, "agent_running")
    BY <1>3, ContractMove
  <2>2. CASE status[r] = "approved"
    <3>1. Cardinality(approvers[r]) >= MinApprovalsFor(ticket[r])
      BY <2>2, AuthorisedQuorum DEF AuthorityInv, RunFacts, ClearedStatuses
    <3>2. Contract!Launch(r)
      BY <2>1, <2>2, <3>1, ContractVocabulary DEF Contract!Launch
    <3> QED
      BY <3>2 DEF ContractStep, Contract!ContractNext
  <2>3. CASE status[r] = "agent_running"
    <3>1. status' = status
      BY <1>3, <2>3 DEF SetStatus, AuthorityInv, TypeInv, TypeOK
    <3> QED
      BY <3>1, ContractStutter
  <2>4. CASE status[r] = "pr_open"
    BY <2>1, <2>4 DEF ContractStep, Contract!ContractNext, Contract!Rework
  <2> QED
    BY <1>3, <2>2, <2>3, <2>4
<1>4. ASSUME status[r] \in PrObservableStatuses,
             NEW s \in {"pr_open", "review_required", "complete"}, SetStatus(r, s)
      PROVE  ContractStep
  <2>1. Contract!Move(r, s)
    BY <1>4, ContractMove
  <2>2. Contract!Observe(r) \/ Contract!Deliver(r)
    BY <1>4, <2>1, ContractVocabulary DEF Contract!Observe, Contract!Deliver
  <2> QED
    BY <2>2 DEF ContractStep, Contract!ContractNext
<1>5. ASSUME status[r] \in ActiveStatuses,
             NEW s \in {"rejected", "blocked", "execution_failed"}, SetStatus(r, s)
      PROVE  ContractStep
  <2>1. Contract!Move(r, s)
    BY <1>5, ContractMove
  <2>2. Contract!End(r)
    BY <1>5, <2>1, ContractVocabulary DEF Contract!End
  <2> QED
    BY <2>2 DEF ContractStep, Contract!ContractNext
<1> QED
  BY <1>1, <1>2, <1>3, <1>4, <1>5 DEF Moves

\* The tickets and the signatures change in two actions only.
LEMMA FewActionsSign ==
  ASSUME [Next]_vars
  PROVE  \/ \E w \in Workers, t \in Tickets : IntakeInsert(w, t)
         \/ \E r \in Runs, u \in Users : SignOff(r, u)
         \/ UNCHANGED <<ticket, approvers>>
<1>1. ASSUME NEW r \in Runs, Ending(r) PROVE UNCHANGED <<ticket, approvers>>
  BY <1>1, MovesEnding DEF EndingFrame
<1> QED
  BY <1>1 DEF Next, ServingNext, vars, Call, Continue, IntakeStart, Approve, RecordPr, DispatchGate,
              DispatchToProvider, RecordDispatchFailure, RecordDispatch, RecordRemediation,
              RecordJob, Remediate, Crash

LEMMA ContractSimulation == SettledInv /\ [Next]_vars => ContractStep
<1> SUFFICES ASSUME SettledInv, [Next]_vars PROVE ContractStep
  OBVIOUS
<1>1. KeepStatus \/ \E r \in Runs : Moves(r)
  BY LifecycleStep DEF SettledInv, NobodyFailed, FailureMoves
<1>2. CASE UNCHANGED <<ticket, approvers>>
  BY <1>1, <1>2, ContractStutter, ContractMoves DEF SettledInv, KeepStatus
<1> QED
  BY <1>2, FewActionsSign, ContractPlan, ContractSignOff DEF SettledInv

LEMMA ContractInitially == Init => Contract!ContractInit
<1> SUFFICES ASSUME Init PROVE Contract!ContractInit
  OBVIOUS
<1>1. TypeInv
  BY TypeInvInit
<1>2. Quorum \in [Runs -> Nat \ {0}]
  BY <1>1, QuorumType DEF Quorum
<1> QED
  BY <1>2, ContractVocabulary DEF Init, Contract!ContractInit, Quorum

\* The documented lifecycle: with any number of runs, threads, retries and
\* crashes, and as long as no provider call raises, every behaviour of the
\* orchestrator is a behaviour of the contract.
THEOREM LifecycleImplementsContract ==
  ASSUME "provider" \notin Faults
  PROVE  Spec => ImplementsContract
<1>1. SettledInv /\ [Next]_vars => [Contract!ContractNext]_(Contract!contractVars)
  BY ContractSimulation DEF ContractStep
<1> QED
  BY <1>1, ContractInitially, SettledInit, SettledNext, PTL
  DEF Spec, ImplementsContract, Contract!Spec
=============================================================================
