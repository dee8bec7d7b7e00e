------------------------- MODULE MCDurableWorkflow -------------------------
(****************************************************************************)
(* Constants for model checking DurableWorkflow: one ticket, which may need *)
(* two people or be refused at dispatch, a thread for an attempt and one    *)
(* for a predecessor that was given up for lost.                            *)
(****************************************************************************)
EXTENDS DurableWorkflow, MCRunLifecycle

Threads == Permutations(Workers) \cup Permutations(Runs)

\* Two attempts of everything: one retry, then exhaustion.
MCTwoAttempts == [a \in Activities |-> 2]
=============================================================================
