------------------------- MODULE RunAuthorityProofs -------------------------
(****************************************************************************)
(* The human gate of RunLifecycle, for every value of its constants: no     *)
(* agent is ever launched for a run that its quorum has not signed off.     *)
(*                                                                          *)
(* LaunchAuthorised is not inductive.  A worker between the gate and the    *)
(* provider relies on a check it made some transactions ago, while others   *)
(* stop, expire or revive the run; and the check itself relies on what      *)
(* intake decided about the ticket.  RunFacts and WorkerFacts say what each *)
(* of them may rely on.                                                     *)
(****************************************************************************)
EXTENDS RunLifecycleProofs

\* What the rows of a run say at every moment.
RunFacts(r) ==
  /\ IsFiniteSet(approvers[r])
  /\ \A u \in approvers[r] : RolesRequired(ticket[r]) \subseteq GrantedRoles[u]
  /\ status[r] = NoStatus => approvers[r] = {} /\ launched[r] = 0
  /\ status[r] = "waiting_approval" => Launchable(ticket[r])
  /\ launched[r] > 0 \/ status[r] \in ClearedStatuses => Authorised(r)

\* What a worker relies on between two of its transactions.
WorkerFacts(w) ==
  /\ worker[w].pc = "intake" => status[worker[w].run] = NoStatus
  /\ worker[w].pc \notin {"idle", "intake"} => status[worker[w].run] # NoStatus
  /\ worker[w].pc \in {"launch", "record", "failed"} => Authorised(worker[w].run)

\* Run ids are fresh: no two intakes work on one.
IntakesApart ==
  \A v, w \in Workers :
    /\ worker[v].pc = "intake" /\ worker[w].pc = "intake"
    /\ worker[v].run = worker[w].run
    => v = w

AuthorityInv ==
  /\ TypeInv
  /\ \A r \in Runs : RunFacts(r)
  /\ \A w \in Workers : WorkerFacts(w)
  /\ IntakesApart

-----------------------------------------------------------------------------
(* Lemmas                                                                    *)

\* A plan that awaits approval is work the gate never refuses for good: the
\* probe of intake_and_plan grants every role and still sees the areas.
LEMMA PlanLaunchable ==
  ASSUME NEW t, PostPlanStatus(t) = "waiting_approval"
  PROVE  Launchable(t)
<1> DEFINE in == [IntakeRequest(t) EXCEPT
                    !.approvalPresent = TRUE, !.approval = RolesRequired(t)]
<1>1. t.readiness = "ready" /\ Allowed(in)
  BY DEF PostPlanStatus, PermanentlyBlocked
<1>2. in.action = "start_agent" /\ in.areas = t.areas
  BY DEF IntakeRequest, PolicyInput
<1>3. AutonomousDenials(in) = {}
  BY <1>1, <1>2 DEF Allowed, DenyReasons, ForbiddenActions, AdvisoryActions, AutonomousActions
<1>4. ASSUME NEW d \in {"production_deploy", "database_migration"}, d \in in.areas
      PROVE  d \in AutonomousDenials(in)
  BY <1>4 DEF AutonomousDenials
<1> QED
  BY <1>1, <1>2, <1>3, <1>4 DEF Launchable

\* Authority is a matter of the ticket and the signatures alone.
LEMMA AuthorisedKept ==
  ASSUME NEW r \in Runs, ticket'[r] = ticket[r], approvers'[r] = approvers[r]
  PROVE  Authorised(r)' <=> Authorised(r)
BY DEF Authorised

\* Moving a run that has been planned to another status than waiting_approval.
LEMMA MoveKeepsRunFacts ==
  ASSUME AuthorityInv, NEW r \in Runs, NEW s, SetStatus(r, s),
         status[r] # NoStatus, s \notin {NoStatus, "waiting_approval"},
         s \in ClearedStatuses => Authorised(r),
         UNCHANGED <<ticket, approvers, launched>>
  PROVE  \A q \in Runs : /\ RunFacts(q)'
                         /\ Authorised(q)' <=> Authorised(q)
                         /\ status'[q] = NoStatus <=> status[q] = NoStatus
<1> TAKE q \in Runs
<1>1. Authorised(q)' <=> Authorised(q)
  BY AuthorisedKept
<1>2. status'[q] = IF q = r THEN s ELSE status[q]
  BY DEF SetStatus, AuthorityInv, TypeInv, TypeOK
<1>3. RunFacts(q)
  BY DEF AuthorityInv
<1>4. RunFacts(q)'
  BY <1>1, <1>2, <1>3 DEF RunFacts
<1> QED
  BY <1>1, <1>2, <1>4

\* Leaving the rows of every run alone.
LEMMA RestKeepsRunFacts ==
  ASSUME AuthorityInv, UNCHANGED <<status, ticket, approvers, launched>>
  PROVE  \A q \in Runs : /\ RunFacts(q)'
                         /\ Authorised(q)' <=> Authorised(q)
                         /\ status'[q] = NoStatus <=> status[q] = NoStatus
<1> TAKE q \in Runs
<1>1. Authorised(q)' <=> Authorised(q)
  BY AuthorisedKept
<1> QED
  BY <1>1 DEF AuthorityInv, RunFacts

\* One worker moves to x, the others go on relying on what they relied on.
LEMMA WorkersKeepFacts ==
  ASSUME AuthorityInv, NEW w \in Workers, NEW x \in WorkerStates,
         worker' = [worker EXCEPT ![w] = x],
         \A q \in Runs : Authorised(q) => Authorised(q)',
         \A q \in Runs : status'[q] = NoStatus <=> status[q] = NoStatus,
         x.pc # "idle" => x.run \in Runs,
         x.pc = "intake" => /\ status[x.run] = NoStatus
                            /\ \A v \in Workers : worker[v].run # x.run,
         x.pc \notin {"idle", "intake"} => status[x.run] # NoStatus,
         x.pc \in {"launch", "record", "failed"} => Authorised(x.run)
  PROVE  (\A v \in Workers : WorkerFacts(v)') /\ IntakesApart'
<1> USE DEF AuthorityInv
<1>1. \A v \in Workers : worker'[v] = IF v = w THEN x ELSE worker[v]
  BY DEF TypeInv, TypeOK
<1>2. \A v \in Workers : worker[v].pc # "idle" => worker[v].run \in Runs
  BY DEF TypeInv, BusyWorkersHaveARun
<1>3. ASSUME NEW v \in Workers PROVE WorkerFacts(v)'
  <2>1. CASE v = w
    BY <1>1, <2>1 DEF WorkerFacts
  <2>2. CASE v # w
    <3>1. WorkerFacts(v) /\ worker'[v] = worker[v]
      BY <1>1, <2>2
    <3> QED
      BY <1>2, <3>1 DEF WorkerFacts
  <2> QED
    BY <2>1, <2>2
<1>4. IntakesApart'
  BY <1>1 DEF IntakesApart
<1> QED
  BY <1>3, <1>4

LEMMA IdleIsQuiet == Idle \in WorkerStates /\ Idle.pc = "idle"
BY DEF Idle, WorkerStates, WorkerPcs

\* A worker that lets go.
LEMMA ReleaseKeepsFacts ==
  ASSUME AuthorityInv, NEW w \in Workers, Release(w),
         \A q \in Runs : Authorised(q) => Authorised(q)',
         \A q \in Runs : status'[q] = NoStatus <=> status[q] = NoStatus
  PROVE  (\A v \in Workers : WorkerFacts(v)') /\ IntakesApart'
BY IdleIsQuiet, WorkersKeepFacts DEF Release

\* Nobody moves.
LEMMA StillKeepsFacts ==
  ASSUME AuthorityInv, UNCHANGED worker,
         \A q \in Runs : Authorised(q) => Authorised(q)',
         \A q \in Runs : status'[q] = NoStatus <=> status[q] = NoStatus
  PROVE  (\A v \in Workers : WorkerFacts(v)') /\ IntakesApart'
<1>1. \A v \in Workers : worker[v].pc # "idle" => worker[v].run \in Runs
  BY DEF AuthorityInv, TypeInv, BusyWorkersHaveARun
<1> QED
  BY <1>1 DEF AuthorityInv, WorkerFacts, IntakesApart
-----------------------------------------------------------------------------
(* The invariant                                                             *)

LEMMA AuthorityInit == Init => AuthorityInv
<1> SUFFICES ASSUME Init PROVE AuthorityInv
  OBVIOUS
<1>1. \A r \in Runs : RunFacts(r)
  BY FS_EmptySet DEF Init, RunFacts, NoStatus, ClearedStatuses, PrObservableStatuses
<1>2. (\A w \in Workers : WorkerFacts(w)) /\ IntakesApart
  BY DEF Init, WorkerFacts, IntakesApart, Idle
<1> QED
  BY <1>1, <1>2, TypeInvInit DEF AuthorityInv

LEMMA AuthorityIntakeStart ==
  ASSUME AuthorityInv, NEW w \in Workers, NEW r \in Runs, IntakeStart(w, r)
  PROVE  /\ \A q \in Runs : RunFacts(q)'
         /\ \A v \in Workers : WorkerFacts(v)'
         /\ IntakesApart'
<1> DEFINE x == [Idle EXCEPT !.pc = "intake", !.run = r]
<1>1. \A q \in Runs : /\ RunFacts(q)'
                      /\ Authorised(q)' <=> Authorised(q)
                      /\ status'[q] = NoStatus <=> status[q] = NoStatus
  BY RestKeepsRunFacts DEF IntakeStart
<1>2. x \in WorkerStates /\ x.pc = "intake" /\ x.run = r
  BY DEF Idle, WorkerStates, WorkerPcs
<1>3. worker' = [worker EXCEPT ![w] = x]
  BY DEF IntakeStart, Begin
<1> HIDE DEF x
<1> QED
  BY <1>1, <1>2, <1>3, WorkersKeepFacts DEF IntakeStart

\* The insert writes the ticket of a run that nobody holds yet.
LEMMA AuthorityIntakeInsert ==
  ASSUME AuthorityInv, NEW w \in Workers, NEW t \in Tickets, IntakeInsert(w, t)
  PROVE  /\ \A q \in Runs : RunFacts(q)'
         /\ \A v \in Workers : WorkerFacts(v)'
         /\ IntakesApart'
<1> DEFINE s == PostPlanStatus(t)
<1> USE DEF AuthorityInv
<1> PICK r \in Runs : r = worker[w].run
  BY DEF IntakeInsert, TypeInv, BusyWorkersHaveARun
<1>1. status[r] = NoStatus
  BY DEF IntakeInsert, WorkerFacts
<1>2. CASE KeepStatus /\ UNCHANGED ticket
  <2>1. \A q \in Runs : /\ RunFacts(q)'
                        /\ Authorised(q)' <=> Authorised(q)
                        /\ status'[q] = NoStatus <=> status[q] = NoStatus
    BY <1>2, RestKeepsRunFacts DEF IntakeInsert, KeepStatus
  <2> QED
    BY <2>1, ReleaseKeepsFacts DEF IntakeInsert
<1>3. CASE SetStatus(r, s) /\ ticket' = [ticket EXCEPT ![r] = t]
  <2>1. \A q \in Runs : /\ status'[q] = IF q = r THEN s ELSE status[q]
                        /\ ticket'[q] = IF q = r THEN t ELSE ticket[q]
    BY <1>3 DEF SetStatus, TypeInv, TypeOK
  <2>2. /\ s \in {"needs_clarification", "blocked", "waiting_approval"}
        /\ s = "waiting_approval" => Launchable(t)
    BY PlanLaunchable DEF PostPlanStatus
  <2>3. UNCHANGED <<approvers, launched>>
    BY DEF IntakeInsert
  <2> HIDE DEF s
  <2>4. \A q \in Runs \ {r} : /\ RunFacts(q)'
                              /\ Authorised(q) => Authorised(q)'
    BY <2>1, <2>3, AuthorisedKept DEF RunFacts
  <2>5. RunFacts(r)'
    <3>1. approvers'[r] = {} /\ launched'[r] = 0
      BY <1>1, <2>3 DEF RunFacts
    <3>2. s # NoStatus /\ s \notin ClearedStatuses
      BY <2>2 DEF NoStatus, ClearedStatuses, PrObservableStatuses
    <3> QED
      BY <1>1, <2>1, <2>2, <3>1, <3>2, FS_EmptySet DEF RunFacts
  <2>6. \A v \in Workers \ {w} : worker'[v] = worker[v]
    BY DEF IntakeInsert, Release, TypeInv, TypeOK
  <2>7. worker'[w] = Idle
    BY DEF IntakeInsert, Release, TypeInv, TypeOK
  <2>8. \A v \in Workers \ {w} : WorkerFacts(v)'
    <3> TAKE v \in Workers \ {w}
    <3>1. CASE worker[v].pc = "idle"
      BY <2>6, <3>1 DEF WorkerFacts
    <3>2. CASE worker[v].pc # "idle"
      <4> PICK q \in Runs : q = worker[v].run
        BY <3>2 DEF TypeInv, BusyWorkersHaveARun
      <4>1. q # r
        BY <1>1, <3>2 DEF WorkerFacts, IntakesApart, IntakeInsert
      <4>2. status'[q] = status[q] /\ (Authorised(q) => Authorised(q)')
        BY <2>1, <2>4, <4>1
      <4>3. WorkerFacts(v)
        OBVIOUS
      <4> QED
        BY <2>6, <4>2, <4>3 DEF WorkerFacts
    <3> QED
      BY <3>1, <3>2
  <2>9. WorkerFacts(w)'
    BY <2>7 DEF WorkerFacts, Idle
  <2>10. IntakesApart'
    BY <2>6, <2>7 DEF IntakesApart, Idle
  <2> QED
    BY <2>4, <2>5, <2>8, <2>9, <2>10
<1> QED
  BY <1>2, <1>3 DEF IntakeInsert

\* The one action that gathers authority.
LEMMA SignOffKeepsRunFacts ==
  ASSUME AuthorityInv, NEW r \in Runs, NEW u \in Users, SignOff(r, u)
  PROVE  \A q \in Runs : /\ RunFacts(q)'
                         /\ Authorised(q) => Authorised(q)'
                         /\ status'[q] = NoStatus <=> status[q] = NoStatus
<1> USE DEF AuthorityInv
<1> DEFINE n == Cardinality(approvers[r])
<1>1. /\ status[r] = "waiting_approval"
      /\ RolesRequired(ticket[r]) \subseteq GrantedRoles[u]
      /\ u \notin approvers[r]
  BY DEF SignOff, MayApprove
<1>2. /\ \A q \in Runs : approvers'[q] = IF q = r THEN approvers[r] \cup {u} ELSE approvers[q]
      /\ UNCHANGED <<ticket, launched>>
  BY DEF SignOff, TypeInv, TypeOK
<1>3. /\ IsFiniteSet(approvers[r])
      /\ IsFiniteSet(approvers'[r])
      /\ n \in Nat
      /\ Cardinality(approvers'[r]) = n + 1
  <2>1. IsFiniteSet(approvers[r])
    BY DEF RunFacts
  <2>2. approvers'[r] = approvers[r] \cup {u}
    BY <1>2
  <2> QED
    BY <1>1, <2>1, <2>2, FS_AddElement, FS_CardinalityType
<1>4. \A v \in approvers'[r] : RolesRequired(ticket'[r]) \subseteq GrantedRoles[v]
  BY <1>1, <1>2 DEF RunFacts
<1>5. Launchable(ticket'[r])
  BY <1>1, <1>2 DEF RunFacts
<1>6. /\ MinApprovals \in Nat
      /\ ticket[r].repoMinApprovals \in Nat
  BY LifecycleAssumption DEF TypeInv, TypeOK, TicketProfiles
<1>7. n + 1 >= MinApprovalsFor(ticket[r]) => Authorised(r)'
  <2>1. ASSUME n + 1 >= MinApprovalsFor(ticket[r])
        PROVE  n + 1 >= MinApprovals /\ n + 1 >= ticket[r].repoMinApprovals
    BY <1>3, <1>6, <2>1 DEF MinApprovalsFor
  <2> QED
    BY <1>2, <1>3, <1>4, <1>5, <2>1 DEF Authorised
<1>8. Authorised(r) => Authorised(r)'
  <2>1. ASSUME n >= MinApprovals, n >= ticket[r].repoMinApprovals
        PROVE  n + 1 >= MinApprovals /\ n + 1 >= ticket[r].repoMinApprovals
    BY <1>3, <1>6, <2>1
  <2> QED
    BY <1>2, <1>3, <1>4, <1>5, <2>1 DEF Authorised
<1>9. \A q \in Runs : Authorised(q) => Authorised(q)'
  BY <1>2, <1>8, AuthorisedKept
<1>10. \/ status' = status
       \/ /\ n + 1 >= MinApprovalsFor(ticket[r])
          /\ status' = [status EXCEPT ![r] = "approved"]
  BY DEF SignOff, SetStatus, KeepStatus
<1>11. /\ \A q \in Runs \ {r} : status'[q] = status[q]
       /\ \/ status'[r] = status[r]
          \/ n + 1 >= MinApprovalsFor(ticket[r]) /\ status'[r] = "approved"
  BY <1>10 DEF TypeInv, TypeOK
<1>12. \A q \in Runs : status'[q] = NoStatus <=> status[q] = NoStatus
  BY <1>1, <1>11 DEF NoStatus
<1>13. \A q \in Runs \ {r} : RunFacts(q)'
  BY <1>2, <1>9, <1>11 DEF RunFacts
<1>14. RunFacts(r)'
  <2>1. launched'[r] > 0 \/ status'[r] \in ClearedStatuses => Authorised(r)'
    BY <1>2, <1>7, <1>8, <1>11 DEF RunFacts
  <2> QED
    BY <1>1, <1>3, <1>4, <1>5, <1>12, <2>1 DEF RunFacts, NoStatus
<1> QED
  BY <1>9, <1>12, <1>13, <1>14

LEMMA AuthorityApprove ==
  ASSUME AuthorityInv, NEW w \in Workers, NEW r \in Runs, NEW u \in Users,
         Approve(w, r, u)
  PROVE  /\ \A q \in Runs : RunFacts(q)'
         /\ \A v \in Workers : WorkerFacts(v)'
         /\ IntakesApart'
<1> DEFINE x == [Idle EXCEPT !.pc = "dispatch", !.run = r]
<1>1. \A q \in Runs : /\ RunFacts(q)'
                      /\ Authorised(q) => Authorised(q)'
                      /\ status'[q] = NoStatus <=> status[q] = NoStatus
  BY SignOffKeepsRunFacts DEF Approve
<1>2. status[r] = "waiting_approval"
  BY DEF Approve, SignOff, MayApprove
<1>3. x \in WorkerStates /\ x.pc = "dispatch" /\ x.run = r
  BY DEF Idle, WorkerStates, WorkerPcs
<1>4. worker' = [worker EXCEPT ![w] = x]
  BY DEF Approve, SignOff, ThenDispatch, Begin
<1> HIDE DEF x
<1>5. (\A v \in Workers : WorkerFacts(v)') /\ IntakesApart'
  BY <1>1, <1>2, <1>3, <1>4, WorkersKeepFacts DEF NoStatus
<1> QED
  BY <1>1, <1>5

LEMMA AuthorityRecordPr ==
  ASSUME AuthorityInv, NEW w \in Workers, NEW r \in Runs, NEW e \in PrEvents,
         RecordPr(w, r, e)
  PROVE  /\ \A q \in Runs : RunFacts(q)'
         /\ \A v \in Workers : WorkerFacts(v)'
         /\ IntakesApart'
<1> DEFINE s == NextStatusForPr(status[r], e)
           x == [Idle EXCEPT !.pc = "remediate", !.run = r]
<1>1. status[r] \in PrObservableStatuses
  BY DEF RecordPr
<1>2. status[r] # NoStatus /\ s \notin {NoStatus, "waiting_approval"}
  BY <1>1 DEF NextStatusForPr, PrObservableStatuses, NoStatus
<1>3. Authorised(r)
  BY <1>1 DEF AuthorityInv, RunFacts, ClearedStatuses
<1>4. SetStatus(r, s) /\ UNCHANGED <<ticket, approvers, launched>>
  BY DEF RecordPr
<1>5. worker' = [worker EXCEPT ![w] = x] \/ UNCHANGED worker
  BY DEF RecordPr, Begin
<1> HIDE DEF s
<1>6. \A q \in Runs : /\ RunFacts(q)'
                      /\ Authorised(q)' <=> Authorised(q)
                      /\ status'[q] = NoStatus <=> status[q] = NoStatus
  BY <1>2, <1>3, <1>4, MoveKeepsRunFacts
<1>7. x \in WorkerStates /\ x.pc = "remediate" /\ x.run = r
  BY DEF Idle, WorkerStates, WorkerPcs
<1> HIDE DEF x
<1>8. CASE worker' = [worker EXCEPT ![w] = x]
  BY <1>2, <1>6, <1>7, <1>8, WorkersKeepFacts
<1>9. CASE UNCHANGED worker
  BY <1>6, <1>9, StillKeepsFacts
<1> QED
  BY <1>5, <1>6, <1>8, <1>9

\* The gate: only an approved run, and so an authorised one, is let through.
LEMMA AuthorityDispatchGate ==
  ASSUME AuthorityInv, NEW w \in Workers, DispatchGate(w)
  PROVE  /\ \A q \in Runs : RunFacts(q)'
         /\ \A v \in Workers : WorkerFacts(v)'
         /\ IntakesApart'
<1> PICK r \in Runs : r = worker[w].run
  BY DEF DispatchGate, AuthorityInv, TypeInv, BusyWorkersHaveARun
<1> DEFINE x == [Idle EXCEPT !.pc = "launch", !.run = r]
<1>1. \/ KeepStatus /\ Release(w)
      \/ status[r] = "approved" /\ SetStatus(r, "blocked") /\ Release(w)
      \/ status[r] = "approved" /\ KeepStatus /\ worker' = [worker EXCEPT ![w] = x]
  BY DEF DispatchGate, Begin
<1>2. UNCHANGED <<ticket, approvers, launched>>
  BY DEF DispatchGate
<1>3. /\ "blocked" \notin ClearedStatuses \cup {NoStatus, "waiting_approval"}
      /\ "approved" \in ClearedStatuses \ {NoStatus}
  BY DEF ClearedStatuses, PrObservableStatuses, NoStatus
<1>4. \A q \in Runs : /\ RunFacts(q)'
                      /\ Authorised(q)' <=> Authorised(q)
                      /\ status'[q] = NoStatus <=> status[q] = NoStatus
  BY <1>1, <1>2, <1>3, MoveKeepsRunFacts, RestKeepsRunFacts DEF KeepStatus
<1>5. x \in WorkerStates /\ x.pc = "launch" /\ x.run = r
  BY DEF Idle, WorkerStates, WorkerPcs
<1> HIDE DEF x
<1>6. status[r] = "approved" => Authorised(r)
  BY <1>3 DEF AuthorityInv, RunFacts
<1>7. CASE Release(w)
  BY <1>4, <1>7, ReleaseKeepsFacts
<1>8. CASE status[r] = "approved" /\ worker' = [worker EXCEPT ![w] = x]
  BY <1>3, <1>4, <1>5, <1>6, <1>8, WorkersKeepFacts
<1> QED
  BY <1>1, <1>4, <1>7, <1>8

\* The launch itself rests on the worker's own past.
LEMMA AuthorityDispatchToProvider ==
  ASSUME AuthorityInv, NEW w \in Workers, DispatchToProvider(w)
  PROVE  /\ \A q \in Runs : RunFacts(q)'
         /\ \A v \in Workers : WorkerFacts(v)'
         /\ IntakesApart'
<1> USE DEF AuthorityInv
<1> PICK r \in Runs : r = worker[w].run
  BY DEF DispatchToProvider, TypeInv, BusyWorkersHaveARun
<1> DEFINE x == [worker[w] EXCEPT !.pc = "record", !.job = launched[r] + 1]
           y == [worker[w] EXCEPT !.pc = "failed"]
<1>1. Authorised(r) /\ status[r] # NoStatus
  BY DEF DispatchToProvider, WorkerFacts
<1>2. UNCHANGED <<status, ticket, approvers>>
  BY DEF DispatchToProvider
<1>3. \A q \in Runs : Authorised(q)' <=> Authorised(q)
  BY <1>2, AuthorisedKept
<1>4. \A q \in Runs \ {r} : launched'[q] = launched[q]
  BY DEF DispatchToProvider, TypeInv, TypeOK
<1>5. \A q \in Runs : RunFacts(q)'
  BY <1>1, <1>2, <1>3, <1>4 DEF RunFacts
<1>6. worker' = [worker EXCEPT ![w] = x] \/ worker' = [worker EXCEPT ![w] = y]
  BY DEF DispatchToProvider
<1>7. launched[r] + 1 \in Nat
  BY DEF TypeInv, TypeOK
<1>8. /\ x \in WorkerStates /\ x.pc = "record" /\ x.run = r
      /\ y \in WorkerStates /\ y.pc = "failed" /\ y.run = r
  BY <1>7 DEF TypeInv, TypeOK, WorkerStates, WorkerPcs
<1> HIDE DEF x, y
<1>9. (\A v \in Workers : WorkerFacts(v)') /\ IntakesApart'
  BY <1>1, <1>2, <1>3, <1>6, <1>8, WorkersKeepFacts
<1> QED
  BY <1>5, <1>9

LEMMA AuthorityRecordDispatchFailure ==
  ASSUME AuthorityInv, NEW w \in Workers, RecordDispatchFailure(w)
  PROVE  /\ \A q \in Runs : RunFacts(q)'
         /\ \A v \in Workers : WorkerFacts(v)'
         /\ IntakesApart'
<1> PICK r \in Runs : r = worker[w].run
  BY DEF RecordDispatchFailure, AuthorityInv, TypeInv, BusyWorkersHaveARun
<1>1. Authorised(r) /\ status[r] # NoStatus
  BY DEF RecordDispatchFailure, AuthorityInv, WorkerFacts
<1>2. \/ SetStatus(r, "review_required")
      \/ SetStatus(r, "execution_failed")
      \/ KeepStatus
  BY DEF RecordDispatchFailure
<1>3. \A q \in Runs : /\ RunFacts(q)'
                      /\ Authorised(q)' <=> Authorised(q)
                      /\ status'[q] = NoStatus <=> status[q] = NoStatus
  BY <1>1, <1>2, MoveKeepsRunFacts, RestKeepsRunFacts
  DEF RecordDispatchFailure, KeepStatus, NoStatus
<1> QED
  BY <1>3, ReleaseKeepsFacts DEF RecordDispatchFailure

\* Recording a job: the run is advanced only from a cleared status.
LEMMA AuthorityRecordJob ==
  ASSUME AuthorityInv, NEW w \in Workers, worker[w].pc = "record",
         NEW expected \in ClearedStatuses, RecordJob(w, expected)
  PROVE  /\ \A q \in Runs : RunFacts(q)'
         /\ \A v \in Workers : WorkerFacts(v)'
         /\ IntakesApart'
<1> PICK r \in Runs : r = worker[w].run
  BY DEF AuthorityInv, TypeInv, BusyWorkersHaveARun
<1>1. Authorised(r) /\ status[r] # NoStatus
  BY DEF AuthorityInv, WorkerFacts
<1>2. SetStatus(r, "agent_running") \/ KeepStatus
  BY DEF RecordJob
<1>3. \A q \in Runs : /\ RunFacts(q)'
                      /\ Authorised(q)' <=> Authorised(q)
                      /\ status'[q] = NoStatus <=> status[q] = NoStatus
  BY <1>1, <1>2, MoveKeepsRunFacts, RestKeepsRunFacts DEF RecordJob, KeepStatus, NoStatus
<1> QED
  BY <1>3, ReleaseKeepsFacts DEF RecordJob

\* A retry launches again for a run whose pull request is open, and so for
\* one that was authorised before its first launch.
LEMMA AuthorityRemediate ==
  ASSUME AuthorityInv, NEW w \in Workers, NEW frozen \in FreezeStates,
         Remediate(w, frozen)
  PROVE  /\ \A q \in Runs : RunFacts(q)'
         /\ \A v \in Workers : WorkerFacts(v)'
         /\ IntakesApart'
<1> USE DEF AuthorityInv
<1> PICK r \in Runs : r = worker[w].run
  BY DEF Remediate, TypeInv, BusyWorkersHaveARun
<1> DEFINE x == [worker[w] EXCEPT !.pc = "launch", !.retry = TRUE]
<1>1. \/ KeepStatus /\ Release(w)
      \/ status[r] = "pr_open" /\ SetStatus(r, "review_required") /\ Release(w)
      \/ /\ status[r] = "pr_open" /\ SetStatus(r, "agent_running")
         /\ worker' = [worker EXCEPT ![w] = x]
  BY DEF Remediate
<1>2. UNCHANGED <<ticket, approvers, launched>>
  BY DEF Remediate
<1>3. status[r] = "pr_open" => Authorised(r) /\ status[r] # NoStatus
  BY DEF RunFacts, ClearedStatuses, PrObservableStatuses, NoStatus
<1>4. \A q \in Runs : /\ RunFacts(q)'
                      /\ Authorised(q)' <=> Authorised(q)
                      /\ status'[q] = NoStatus <=> status[q] = NoStatus
  BY <1>1, <1>2, <1>3, MoveKeepsRunFacts, RestKeepsRunFacts DEF KeepStatus, NoStatus
<1>5. x \in WorkerStates /\ x.pc = "launch" /\ x.run = r
  BY DEF TypeInv, TypeOK, WorkerStates, WorkerPcs
<1> HIDE DEF x
<1>6. CASE Release(w)
  BY <1>4, <1>6, ReleaseKeepsFacts
<1>7. CASE status[r] = "pr_open" /\ worker' = [worker EXCEPT ![w] = x]
  BY <1>3, <1>4, <1>5, <1>7, WorkersKeepFacts
<1> QED
  BY <1>1, <1>4, <1>6, <1>7

LEMMA AuthorityCrash ==
  ASSUME AuthorityInv, NEW w \in Workers, Crash(w)
  PROVE  /\ \A q \in Runs : RunFacts(q)'
         /\ \A v \in Workers : WorkerFacts(v)'
         /\ IntakesApart'
<1>1. \A q \in Runs : /\ RunFacts(q)'
                      /\ Authorised(q)' <=> Authorised(q)
                      /\ status'[q] = NoStatus <=> status[q] = NoStatus
  BY RestKeepsRunFacts DEF Crash
<1> QED
  BY <1>1, ReleaseKeepsFacts DEF Crash

LEMMA AuthorityEnding ==
  ASSUME AuthorityInv, NEW r \in Runs, Ending(r)
  PROVE  /\ \A q \in Runs : RunFacts(q)'
         /\ \A v \in Workers : WorkerFacts(v)'
         /\ IntakesApart'
<1>1. /\ status[r] \in ActiveStatuses
      /\ \E s \in {"rejected", "blocked", "execution_failed"} : SetStatus(r, s)
      /\ EndingFrame
  BY DEF Ending, Reject, Stop, Terminate, ExpirePendingApproval, ExpirePendingPr,
         ExpireWait, FailRun, MarkAgentFailed, ActiveStatuses
<1>2. /\ status[r] # NoStatus
      /\ \A s \in {"rejected", "blocked", "execution_failed"} :
           s \notin ClearedStatuses \cup {NoStatus, "waiting_approval"}
  BY <1>1 DEF ActiveStatuses, ClearedStatuses, PrObservableStatuses, NoStatus
<1>3. \A q \in Runs : /\ RunFacts(q)'
                      /\ Authorised(q)' <=> Authorised(q)
                      /\ status'[q] = NoStatus <=> status[q] = NoStatus
  BY <1>1, <1>2, MoveKeepsRunFacts DEF EndingFrame
<1> QED
  BY <1>1, <1>3, StillKeepsFacts DEF EndingFrame

LEMMA AuthorityNext == AuthorityInv /\ [Next]_vars => AuthorityInv'
<1> SUFFICES ASSUME AuthorityInv, [Next]_vars PROVE AuthorityInv'
  OBVIOUS
<1> DEFINE Kept == /\ \A q \in Runs : RunFacts(q)
                   /\ \A v \in Workers : WorkerFacts(v)
                   /\ IntakesApart
<1>1. ASSUME NEW w \in Workers, Call(w) PROVE Kept'
  BY <1>1, AuthorityIntakeStart, AuthorityApprove, AuthorityRecordPr DEF Call
<1>2. ASSUME NEW w \in Workers, Continue(w) PROVE Kept'
  <2>1. CASE RecordDispatch(w)
    BY <2>1, AuthorityRecordJob DEF RecordDispatch, ClearedStatuses
  <2>2. CASE RecordRemediation(w)
    BY <2>2, AuthorityRecordJob DEF RecordRemediation, ClearedStatuses, PrObservableStatuses
  <2> QED
    BY <1>2, <2>1, <2>2, AuthorityIntakeInsert, AuthorityDispatchGate,
       AuthorityDispatchToProvider, AuthorityRecordDispatchFailure, AuthorityRemediate
    DEF Continue
<1>3. ASSUME UNCHANGED vars PROVE Kept'
  BY <1>3, RestKeepsRunFacts, StillKeepsFacts DEF vars
<1>4. Kept'
  BY <1>1, <1>2, <1>3, AuthorityCrash, AuthorityEnding DEF Next, ServingNext
<1>5. TypeInv'
  BY TypeInvNext DEF AuthorityInv
<1> QED
  BY <1>4, <1>5 DEF AuthorityInv

\* The human gate: for any policy of sign-offs and roles, any number of
\* threads, and any crashes, provider failures and failed cancellations, a
\* run for which an agent was launched, or may be, has its quorum of distinct
\* and qualified approvers, and its work is of a kind the gate admits.
THEOREM LaunchesAreAuthorised == Spec => []LaunchAuthorised
<1>1. AuthorityInv => LaunchAuthorised
  BY DEF AuthorityInv, RunFacts, LaunchAuthorised
<1> QED
  BY <1>1, AuthorityInit, AuthorityNext, PTL DEF Spec
=============================================================================
