----------------------------- MODULE RunContract -----------------------------
(****************************************************************************)
(* What the orchestrator promises about a run, without how: the lifecycle   *)
(* in the header of orchestrator.py with the endings of schemas/common.py.  *)
(* No workers, no providers, no job rows: planning, signing off, launching, *)
(* reviewing, delivering and ending are single steps.                       *)
(****************************************************************************)
EXTENDS Naturals, FiniteSets, RunStatus

CONSTANTS
  Runs,      \* run ids
  Issues,    \* upstream tickets
  IssueOf,   \* the ticket of a run id
  Users      \* approvers

VARIABLES
  phase,     \* where the run is in its life
  signers,   \* who has approved it
  quorum     \* how many must

contractVars == <<phase, signers, quorum>>

ContractInit ==
  /\ phase = [r \in Runs |-> NoStatus]
  /\ signers = [r \in Runs |-> {}]
  /\ quorum \in [Runs -> Nat \ {0}]

Move(r, s) ==
  /\ phase' = [phase EXCEPT ![r] = s]
  /\ UNCHANGED <<signers, quorum>>

\* intake_and_plan: a run waits for approval only if its issue has no other
\* run in flight.  How many must sign is settled here.
Plan(r) ==
  /\ phase[r] = NoStatus
  /\ \E s \in {"waiting_approval", "needs_clarification", "blocked"} :
       /\ phase' = [phase EXCEPT ![r] = s]
       /\ s = "waiting_approval" =>
            \A q \in Runs : IssueOf[q] = IssueOf[r] => phase[q] \notin ActiveStatuses
  /\ quorum' \in [Runs -> Nat \ {0}]
  /\ \A q \in Runs \ {r} : quorum'[q] = quorum[q]
  /\ UNCHANGED signers

\* approve: a new signature, and the last one needed approves the run.
SignOff(r, u) ==
  /\ phase[r] = "waiting_approval"
  /\ u \notin signers[r]
  /\ signers' = [signers EXCEPT ![r] = @ \cup {u}]
  /\ phase' = [phase EXCEPT ![r] =
       IF Cardinality(signers'[r]) >= quorum[r] THEN "approved" ELSE @]
  /\ UNCHANGED quorum

\* dispatch_agent: only an approved run, with its quorum, gets an agent.
Launch(r) ==
  /\ phase[r] = "approved"
  /\ Cardinality(signers[r]) >= quorum[r]
  /\ Move(r, "agent_running")

\* record_pr: the pull request is open, or needs a person.
Observe(r) ==
  /\ phase[r] \in PrObservableStatuses
  /\ \E s \in {"pr_open", "review_required"} : Move(r, s)

\* _attempt_remediation: only from an open pull request, never from review.
Rework(r) == phase[r] = "pr_open" /\ Move(r, "agent_running")

Deliver(r) == phase[r] \in PrObservableStatuses /\ Move(r, "complete")

\* reject, stop, expiry, failure: any run in flight may end badly.
End(r) ==
  /\ phase[r] \in ActiveStatuses
  /\ \E s \in {"rejected", "blocked", "execution_failed"} : Move(r, s)

ContractNext ==
  \E r \in Runs :
    \/ Plan(r)
    \/ \E u \in Users : SignOff(r, u)
    \/ Launch(r)
    \/ Observe(r)
    \/ Rework(r)
    \/ Deliver(r)
    \/ End(r)

Spec == ContractInit /\ [][ContractNext]_contractVars
=============================================================================
