---------------------------- MODULE PrGuardrails ----------------------------
(****************************************************************************)
(* _next_status_for_pr (orchestrator.py): what a pull request's file list   *)
(* does to its run.  A path is an opaque member of Files; what the operator *)
(* configured is the set of paths each glob list matches, and what the run  *)
(* knows is the set of paths its plan covers.                               *)
(*                                                                          *)
(* Rules, what the operator configured for the run's repository:            *)
(*   forbidden      paths matched by a global or per-repository glob        *)
(*   areasOf        areas whose sensitive_path_globs match a path           *)
(*   pathRoles      roles path_required_roles demands for a path            *)
(*   categoryRoles  roles a custom risk category demands for a path         *)
(*   maxFiles       max_files_changed                                       *)
(*   planScope, planOutOfScope  enforce_plan_scope, ..._out_of_scope        *)
(*   planTests      enforce_plan_tests, with some test_path_globs           *)
(*   testFiles      paths recognised as tests                               *)
(*   judge          a plan satisfaction judge is configured                 *)
(*                                                                          *)
(* Facts, what is known of the run when the event arrives:                  *)
(*   anticipated    areas its risk assessment flagged                       *)
(*   granted        roles its approvers granted                             *)
(*   scoped         the plan names expected files, those in `expected'      *)
(*   outOfScope     paths the plan promised not to touch                    *)
(*   promisesTests  the plan's test plan is not empty                       *)
(*   flagged        areas the model's pass adds to the globs'               *)
(*   satisfied      the judge is content, degraded or raises                *)
(****************************************************************************)
EXTENDS Naturals, FiniteSets, PolicyGate, PrStatus

CONSTANTS
  Files   \* paths a pull request may change

ASSUME FilesAssumption == IsFiniteSet(Files)

Rules ==
  [forbidden : SUBSET Files, areasOf : [Files -> SUBSET SensitiveAreas],
   pathRoles : [Files -> SUBSET ApprovalRoles],
   categoryRoles : [Files -> SUBSET ApprovalRoles],
   maxFiles : Nat, planScope : BOOLEAN, planOutOfScope : BOOLEAN,
   planTests : BOOLEAN, testFiles : SUBSET Files, judge : BOOLEAN]

Facts ==
  [anticipated : SUBSET SensitiveAreas, granted : SUBSET ApprovalRoles,
   scoped : BOOLEAN, expected : SUBSET Files, outOfScope : SUBSET Files,
   promisesTests : BOOLEAN, flagged : SUBSET SensitiveAreas, satisfied : BOOLEAN]

\* Slip: the diff is forbidden only when every file of it is.
EveryFileForbidden(g, files) == files \subseteq g.forbidden

\* _forbidden_violations.
TouchesForbidden(g, files) == files \cap g.forbidden # {}

\* _unexpected_sensitive_areas: what the diff touches and nobody looked at.
UnexpectedAreas(g, p, files) ==
  ((UNION {g.areasOf[f] : f \in files}) \cup p.flagged) \ p.anticipated

\* _unapproved_path_roles.
UnapprovedPathRoles(g, p, files) ==
  (UNION {g.pathRoles[f] : f \in files}) \ p.granted

\* _unapproved_custom_category_roles.
UnapprovedCategoryRoles(g, p, files) ==
  (UNION {g.categoryRoles[f] : f \in files}) \ p.granted

\* _unexpected_out_of_scope_files.
OffLimits(g, p, files) == g.planOutOfScope /\ files \cap p.outOfScope # {}

\* _unexpected_plan_files, inert for a plan that names nothing.
Drifts(g, p, files) == g.planScope /\ p.scoped /\ ~(files \subseteq p.expected)

\* _plan_tests_missing.
TestsMissing(g, p, files) ==
  g.planTests /\ p.promisesTests /\ files \cap g.testFiles = {}

\* _plan_unsatisfied.
Unsatisfied(g, p) == g.judge /\ ~p.satisfied

\* Slip: the size of the diff is looked at before what is in it.
SizeBeforeContent(s, state, g, p, files) ==
  IF state = "merged" THEN "complete"
  ELSE IF state = "closed" THEN "blocked"
  ELSE IF files = {} THEN (IF s = "agent_running" THEN "pr_open" ELSE s)
  ELSE IF Cardinality(files) > g.maxFiles THEN "review_required"
  ELSE IF TouchesForbidden(g, files) THEN "blocked"
  ELSE IF UnexpectedAreas(g, p, files) # {} THEN "review_required"
  ELSE "pr_open"

\* _next_status_for_pr, in the order of its returns.
NextStatusForDiff(s, state, g, p, files) ==
  IF state = "merged" THEN "complete"
  ELSE IF state = "closed" THEN "blocked"
  ELSE IF files = {} THEN (IF s = "agent_running" THEN "pr_open" ELSE s)
  ELSE IF TouchesForbidden(g, files) THEN "blocked"
  ELSE IF UnexpectedAreas(g, p, files) # {} THEN "review_required"
  ELSE IF UnapprovedPathRoles(g, p, files) # {} THEN "review_required"
  ELSE IF UnapprovedCategoryRoles(g, p, files) # {} THEN "review_required"
  ELSE IF Cardinality(files) > g.maxFiles THEN "review_required"
  ELSE IF OffLimits(g, p, files) THEN "review_required"
  ELSE IF Drifts(g, p, files) THEN "review_required"
  ELSE IF TestsMissing(g, p, files) THEN "review_required"
  ELSE IF Unsatisfied(g, p) THEN "review_required"
  ELSE "pr_open"

-----------------------------------------------------------------------------
(* What the guardrails promise                                               *)

\* The verdict RunLifecycle takes as the diff of an event.
Escalates(g, p, files) ==
  \/ UnexpectedAreas(g, p, files) # {}
  \/ UnapprovedPathRoles(g, p, files) # {}
  \/ UnapprovedCategoryRoles(g, p, files) # {}
  \/ Cardinality(files) > g.maxFiles
  \/ OffLimits(g, p, files)
  \/ Drifts(g, p, files)
  \/ TestsMissing(g, p, files)
  \/ Unsatisfied(g, p)

Verdict(g, p, files) ==
  IF files = {} THEN "none"
  ELSE IF TouchesForbidden(g, files) THEN "forbidden"
  ELSE IF Escalates(g, p, files) THEN "escalates"
  ELSE "clean"

\* RunLifecycle's abstraction is exact: an event that carries the verdict has
\* the effect of the event that carries the files.
VerdictSuffices(s, state, g, p, files) ==
  LET event == [state |-> state, diff |-> Verdict(g, p, files),
                ciFailing |-> FALSE, changesRequested |-> FALSE]
  IN  NextStatusForDiff(s, state, g, p, files) = NextStatusForPr(s, event)

\* How far a status is from letting the pull request through.
Severity(s) == IF s = "blocked" THEN 2 ELSE IF s = "review_required" THEN 1 ELSE 0

\* Every list an operator adds to and every switch an operator turns on.
StricterRules(g, stricter) ==
  /\ g.forbidden \subseteq stricter.forbidden
  /\ \A f \in Files :
       /\ g.areasOf[f] \subseteq stricter.areasOf[f]
       /\ g.pathRoles[f] \subseteq stricter.pathRoles[f]
       /\ g.categoryRoles[f] \subseteq stricter.categoryRoles[f]
  /\ stricter.maxFiles <= g.maxFiles
  /\ g.planScope => stricter.planScope
  /\ g.planOutOfScope => stricter.planOutOfScope
  /\ g.planTests => stricter.planTests
  /\ stricter.testFiles \subseteq g.testFiles
  /\ g.judge => stricter.judge

\* Invariant #1 of the project, for the guardrails: configuration that adds a
\* rule can hold an open pull request back, never release it.
RulesOnlyEscalate(s, g, stricter, p, files) ==
  files # {} /\ StricterRules(g, stricter) =>
    Severity(NextStatusForDiff(s, "open", g, p, files))
      <= Severity(NextStatusForDiff(s, "open", stricter, p, files))

\* A diff cannot be talked through by changing more files, except by the tests
\* that the plan promised.
MoreFilesOnlyEscalate(s, g, p, files, more) ==
  files # {} /\ files \subseteq more /\ (more \ files) \cap g.testFiles = {} =>
    Severity(NextStatusForDiff(s, "open", g, p, files))
      <= Severity(NextStatusForDiff(s, "open", g, p, more))
=============================================================================
