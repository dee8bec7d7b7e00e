----------------------------- MODULE MCDecisions -----------------------------
(****************************************************************************)
(* Walks the inputs of the pure decisions of the lifecycle, the policy gate *)
(* and the pull request guardrails, and of the policy bundles that          *)
(* configure both, one edit at a time.  An invariant says something of      *)
(* every input; an action property compares the decisions before and after  *)
(* an edit.  One decision is under review at a time; the others keep their  *)
(* first input.                                                             *)
(****************************************************************************)
EXTENDS PolicyRego, PolicyOverlay, TLC

CONSTANTS
  Code, Migration, Test,   \* three files a pull request may change
  repo, token,             \* a repository; a word of a ticket
  narrow, wide             \* two globs

ASSUME WalkAssumption ==
  /\ {Code, Migration, Test} \subseteq Files
  /\ repo \in PolicyRepos /\ {narrow, wide} \subseteq Globs

VARIABLES
  reviewing,   \* which decision the edits are about
  request,     \* what the gate is asked
  rules,       \* what the operator configured
  facts,       \* what is known of the run
  files,       \* the diff of its pull request
  base,        \* a deployment's settings
  bundle       \* the policy bundle on top of them

settingsVars == <<base, bundle>>
vars == <<reviewing, request, rules, facts, files, settingsVars>>

MCFiles == {Code, Migration, Test}
MCMatches == (narrow :> {Migration}) @@ (wide :> {Code, Migration})

FirstRequest ==
  [action |-> "start_agent", readiness |-> "ready", overall |-> "low",
   areas |-> {}, confidence |-> 70, repoRoles |-> {}, approval |-> {},
   approvalPresent |-> TRUE, attempt |-> 2, maxAttempts |-> 2, cost |-> 4,
   pending |-> 2, maxCost |-> NoCap]

Nothing == [f \in Files |-> {}]
OnMigration(x) == [f \in Files |-> IF f = Migration THEN x ELSE {}]

FirstRules ==
  [forbidden |-> {}, areasOf |-> Nothing, pathRoles |-> Nothing,
   categoryRoles |-> Nothing, maxFiles |-> 3, planScope |-> FALSE,
   planOutOfScope |-> FALSE, planTests |-> FALSE, testFiles |-> {Test},
   judge |-> FALSE]

\* A plan by the template planner: it names no files and promises tests.
Templated ==
  [anticipated |-> {}, granted |-> {}, scoped |-> FALSE, expected |-> {},
   outOfScope |-> {}, promisesTests |-> TRUE, flagged |-> {}, satisfied |-> TRUE]

\* A plan scoped by a model, and a run whose ticket foresaw the migration.
Scoped ==
  [Templated EXCEPT !.scoped = TRUE, !.expected = {Code, Test},
                    !.outOfScope = {Migration}, !.satisfied = FALSE]
Foreseen ==
  [Templated EXCEPT !.anticipated = {"database_migration"},
                    !.granted = {"qa"}, !.promisesTests = FALSE]
Surprising == [Foreseen EXCEPT !.flagged = {"payments"}]

\* Settings with room for every knob on both sides, and what a knob may be
\* instead.
Auth(x) == [a \in SensitiveAreas |-> IF a = "auth" THEN x ELSE {}]
ForRepos(x) == [r \in PolicyRepos |-> x]
Of(g, x) == [h \in Globs |-> IF h = g THEN x ELSE {}]

FirstSettings ==
  [threshold |-> 70, maxFiles |-> 2, forbidden |-> {narrow},
   repoForbidden |-> ForRepos({}), repoRoles |-> ForRepos({}),
   areaGlobs |-> Auth({narrow}), areaWords |-> Auth({}), minApprovals |-> 1,
   repoMinApprovals |-> ForRepos(0), pathRoles |-> Of(narrow, {}),
   freezes |-> {[key |-> 1, reason |-> "release"]}, maxRetries |-> 1,
   retryOn |-> RetryReasons, maxCost |-> 5, estimate |-> 2]

Knobs ==
  [threshold |-> {60, 80}, maxFiles |-> {1, 3}, forbidden |-> {{}, {wide}},
   repoForbidden |-> {ForRepos({narrow}), ForRepos({wide})},
   repoRoles |-> {ForRepos({"qa"}), ForRepos({"security"})},
   areaGlobs |-> {Auth({}), Auth({wide})}, areaWords |-> {Auth({token})},
   minApprovals |-> {0, 2}, repoMinApprovals |-> {ForRepos(1), ForRepos(2)},
   pathRoles |-> {Of(narrow, {"qa"}), Of(wide, {"security"})},
   freezes |-> {{}, {[key |-> 1, reason |-> "moving"]}, {[key |-> 2, reason |-> "release"]}},
   maxRetries |-> {0, 2}, retryOn |-> {{}, {"ci_failed"}},
   maxCost |-> {NoCap, -1, 4, 8}]

\* A run before its first dispatch, and two that ask for a retry.
RunsSeen ==
  {[repo |-> repo, text |-> t, confidence |-> 70, approvers |-> n, roles |-> x,
    attempt |-> again[1], reason |-> again[2], at |-> again[3], files |-> d] :
     t \in {{}, {token}}, n \in {1, 2}, x \in {{}, {"engineering", "qa"}},
     again \in {<<0, "ci_failed", 1>>, <<1, "ci_failed", 2>>, <<2, "changes_requested", 2>>},
     d \in {{Code}, {Migration, Test}}}

Init ==
  /\ reviewing \in {"gate", "diff", "settings"}
  /\ request = FirstRequest
  /\ rules = FirstRules
  /\ facts = Templated
  /\ files = {Code}
  /\ base = FirstSettings
  /\ bundle = <<>>

Ask(requests) ==
  /\ reviewing = "gate"
  /\ request' \in requests
  /\ UNCHANGED <<reviewing, rules, facts, files, settingsVars>>

EditAction ==
  Ask({[request EXCEPT !.action = a] : a \in
        {"start_agent", "retry_agent", "auto_merge", "request_approval",
         "unlisted"}})

EditRisk ==
  \/ Ask({[request EXCEPT !.areas = a] : a \in
           {{}, {"payments"}, {"auth", "pii"}, {"database_migration"}}})
  \/ Ask({[request EXCEPT !.overall = o] : o \in {"low", "high", "blocked"}})
  \/ Ask({[request EXCEPT !.confidence = c] : c \in {69, 70}})
  \/ Ask({[request EXCEPT !.readiness = x] : x \in {"ready", "needs_clarification"}})

EditApproval ==
  \/ Ask({[request EXCEPT !.repoRoles = x] : x \in {{}, {"qa"}}})
  \/ Ask({[request EXCEPT !.approval = x] : x \in
           {{}, {"security"}, {"engineering", "qa"}}})
  \/ Ask({[request EXCEPT !.approvalPresent = x] : x \in BOOLEAN})

EditSpend ==
  \/ Ask({[request EXCEPT !.attempt = x] : x \in {2, 3}})
  \/ Ask({[request EXCEPT !.cost = x] : x \in {4, 5}})
  \/ Ask({[request EXCEPT !.maxCost = x] : x \in {NoCap, 7}})

Configure(configurations) ==
  /\ reviewing = "diff"
  /\ rules' \in configurations
  /\ UNCHANGED <<reviewing, request, facts, files, settingsVars>>

EditGlobs ==
  \/ Configure({[rules EXCEPT !.forbidden = x] : x \in {{}, {Migration}}})
  \/ Configure({[rules EXCEPT !.areasOf = x] :
                  x \in {Nothing, OnMigration({"database_migration"})}})
  \/ Configure({[rules EXCEPT !.pathRoles = x] : x \in {Nothing, OnMigration({"security"})}})
  \/ Configure({[rules EXCEPT !.categoryRoles = x] : x \in {Nothing, OnMigration({"qa"})}})
  \/ Configure({[rules EXCEPT !.testFiles = x] : x \in {{}, {Test}}})

EditSwitches ==
  \/ Configure({[rules EXCEPT !.maxFiles = x] : x \in {1, 3}})
  \/ Configure({[rules EXCEPT !.planScope = x] : x \in BOOLEAN})
  \/ Configure({[rules EXCEPT !.planOutOfScope = x] : x \in BOOLEAN})
  \/ Configure({[rules EXCEPT !.planTests = x] : x \in BOOLEAN})
  \/ Configure({[rules EXCEPT !.judge = x] : x \in BOOLEAN})

\* Another run, and a push.
EditRun ==
  /\ reviewing = "diff"
  /\ facts' \in {Templated, Scoped, Foreseen, Surprising}
  /\ UNCHANGED <<reviewing, request, rules, files, settingsVars>>

Push ==
  /\ reviewing = "diff"
  /\ files' \in SUBSET Files
  /\ UNCHANGED <<reviewing, request, rules, facts, settingsVars>>

\* A knob of the deployment, and up to two of a bundle.
EditBase ==
  /\ reviewing = "settings"
  /\ \E f \in DOMAIN Knobs : \E v \in Knobs[f] : base' = [FirstSettings EXCEPT ![f] = v]
  /\ UNCHANGED <<reviewing, request, rules, facts, files, bundle>>

EditBundle ==
  /\ reviewing = "settings"
  /\ Cardinality(DOMAIN bundle) < 2
  /\ \E f \in DOMAIN Knobs \ DOMAIN bundle : \E v \in Knobs[f] :
       bundle' = [g \in DOMAIN bundle \cup {f} |-> IF g = f THEN v ELSE bundle[g]]
  /\ UNCHANGED <<reviewing, request, rules, facts, files, base>>

Next ==
  \/ EditAction \/ EditRisk \/ EditApproval \/ EditSpend
  \/ EditGlobs \/ EditSwitches \/ EditRun \/ Push
  \/ EditBase \/ EditBundle

Spec == Init /\ [][Next]_vars

\* foundry.rego and LocalPolicyEngine return one decision, for every request.
EnginesAgreeAlways == EnginesAgreeOn(request)

\* No edit that only asks more of the gate turns a refusal into a permission
\* (invariant #1 in LocalPolicyEngine and _resolved_required_roles).
GateTightensByStep ==
  [][GateOnlyTightens(request, request') /\ GateOnlyTightens(request', request)]_vars

RunStatusesSeen == {"agent_running", "review_required"}

\* The verdict stands for the file list in every event: _next_status_for_pr
\* and RunLifecycle's NextStatusForPr agree.
VerdictSufficesAlways ==
  \A s \in RunStatusesSeen, state \in {"open", "merged", "closed"} :
    VerdictSuffices(s, state, rules, facts, files)

\* No edit of the configuration that only adds to it releases a pull request
\* (the "escalate-only" of every guardrail of _next_status_for_pr).
RulesEscalateByStep ==
  [][\A s \in RunStatusesSeen :
       facts' = facts /\ files' = files =>
         /\ RulesOnlyEscalate(s, rules, rules', facts, files)
         /\ RulesOnlyEscalate(s, rules', rules, facts, files)]_vars

\* A policy bundle only tightens, and so does whatever the compliance check
\* calls at least as strict (policy/overlay.py, compare_policy_strictness).
BundlesOnlyTighten ==
  reviewing = "settings" => OverlayTightens(base, bundle, RunsSeen)

\* No push that only adds files, none of them a test, releases one.
MoreFilesEscalateByStep ==
  [][\A s \in RunStatusesSeen :
       rules' = rules /\ facts' = facts =>
         MoreFilesOnlyEscalate(s, rules, facts, files, files')]_vars
=============================================================================
