----------------------------- MODULE PolicyOverlay -----------------------------
(****************************************************************************)
(* Policy bundles (policy/overlay.py): knobs merged onto the deployment's   *)
(* settings, each in the direction that tightens; and the comparison of two *)
(* settings knob by knob (compare_policy_strictness, policy/library), on    *)
(* which the loader and the compliance check rely.  What the knobs do is    *)
(* PolicyGate's and PrGuardrails' matter: this module hands them over the   *)
(* way orchestrator.py does.                                                *)
(*                                                                          *)
(* A setting that maps keys to lists is a function that is empty where it   *)
(* has no entry.  A glob is the set of files it matches; a window of a      *)
(* change freeze is [key, reason], its key the instant at which it freezes.  *)
(****************************************************************************)
EXTENDS PrGuardrails

CONSTANTS
  PolicyRepos,   \* repositories a run may be routed to
  Globs,         \* configured patterns
  Matches        \* [Globs -> SUBSET Files]

ASSUME OverlayAssumption == Matches \in [Globs -> SUBSET Files]

RetryReasons == {"ci_failed", "changes_requested"}

OverlayFields ==
  {"threshold", "maxFiles", "forbidden", "repoForbidden", "repoRoles",
   "areaGlobs", "areaWords", "minApprovals", "repoMinApprovals", "pathRoles",
   "freezes", "maxRetries", "retryOn", "maxCost"}

\* What _validate asks of these settings.
Valid(s) ==
  /\ s.threshold \in 0..100
  /\ s.maxFiles >= 1 /\ s.minApprovals >= 1 /\ s.maxRetries >= 0
  /\ s.maxCost = NoCap \/ s.maxCost > 0
  /\ s.estimate >= 0
  /\ s.retryOn \subseteq RetryReasons

----------------------------------------------------------------------------
(* The overlay.                                                             *)

Higher(a, b) == IF a >= b THEN a ELSE b
Lower(a, b) == IF a <= b THEN a ELSE b

\* _min_cap: no cap is the weakest.
LowerCap(a, b) == IF a = NoCap THEN b ELSE IF b = NoCap THEN a ELSE Lower(a, b)

Union(a, b) == [k \in DOMAIN a |-> a[k] \cup b[k]]
HigherOf(a, b) == [k \in DOMAIN a |-> Higher(a[k], b[k])]

\* Slip: as the rest of a configuration is layered, the last one wins.
MergeReplaces(field, base, extra) == extra

\* _MERGE.
Merge(field, base, extra) ==
  CASE field \in {"threshold", "minApprovals"} -> Higher(base, extra)
    [] field \in {"maxFiles", "maxRetries"} -> Lower(base, extra)
    [] field = "maxCost" -> LowerCap(base, extra)
    [] field = "forbidden" -> base \cup extra
    [] field = "retryOn" -> base \cap extra
    [] field \in {"repoForbidden", "repoRoles", "pathRoles", "areaGlobs", "areaWords"} ->
         Union(base, extra)
    [] field = "repoMinApprovals" -> HigherOf(base, extra)
    [] field = "freezes" ->
         base \cup {w \in extra : \A b \in base : b.key # w.key}

\* overlay_policy_values and Settings._with.
Overlaid(base, bundle) ==
  [f \in DOMAIN base |->
     IF f \in DOMAIN bundle THEN Merge(f, base[f], bundle[f]) ELSE base[f]]

----------------------------------------------------------------------------
(* compare_policy_strictness.                                               *)

Covers(subject, baseline) == \A k \in DOMAIN baseline : baseline[k] \subseteq subject[k]

\* _min_approvals_for.
MinApprovals(s, repo) == Higher(s.minApprovals, s.repoMinApprovals[repo])

Keys(windows) == {w.key : w \in windows}

ScalarsAsStrict(subject, baseline) ==
  /\ subject.threshold >= baseline.threshold
  /\ subject.maxFiles <= baseline.maxFiles
  /\ subject.minApprovals >= baseline.minApprovals
  /\ subject.maxRetries <= baseline.maxRetries

RetriesAsStrict(subject, baseline) ==
  /\ subject.retryOn \subseteq baseline.retryOn
  /\ baseline.maxCost # NoCap =>
       subject.maxCost # NoCap /\ subject.maxCost <= baseline.maxCost

PathsAsStrict(subject, baseline) ==
  /\ baseline.forbidden \subseteq subject.forbidden
  /\ \A r \in PolicyRepos :
       baseline.repoForbidden[r] \subseteq subject.forbidden \cup subject.repoForbidden[r]

ApprovalsAsStrict(subject, baseline) ==
  /\ Covers(subject.repoRoles, baseline.repoRoles)
  /\ \A r \in PolicyRepos : MinApprovals(subject, r) >= MinApprovals(baseline, r)

FloorsAsStrict(subject, baseline) ==
  /\ Covers(subject.pathRoles, baseline.pathRoles)
  /\ Covers(subject.areaGlobs, baseline.areaGlobs)
  /\ Covers(subject.areaWords, baseline.areaWords)
  /\ Keys(baseline.freezes) \subseteq Keys(subject.freezes)

AtLeastAsStrict(subject, baseline) ==
  /\ ScalarsAsStrict(subject, baseline)
  /\ RetriesAsStrict(subject, baseline)
  /\ PathsAsStrict(subject, baseline)
  /\ ApprovalsAsStrict(subject, baseline)
  /\ FloorsAsStrict(subject, baseline)

\* Settings.load with a bundle: refused, or the settings in force.
Loads(base, bundle) ==
  /\ DOMAIN bundle \subseteq OverlayFields
  /\ AtLeastAsStrict(Overlaid(base, bundle), base)
  /\ Valid(Overlaid(base, bundle))

----------------------------------------------------------------------------
(* What settings make of a run: [repo, text, confidence, approvers, roles,  *)
(* attempt, reason, at, files], its ticket's words, who signed with which   *)
(* roles, how often its agent was sent out, why it should go again and when,*)
(* and its diff.                                                            *)

AreasOfText(s, text) == {a \in SensitiveAreas : s.areaWords[a] \cap text # {}}

\* _policy_input of a dispatch or a retry.
RequestOf(s, run, action) ==
  [action |-> action, readiness |-> "ready", overall |-> "low",
   areas |-> AreasOfText(s, run.text), confidence |-> run.confidence,
   repoRoles |-> s.repoRoles[run.repo], approval |-> run.roles,
   approvalPresent |-> run.approvers > 0, attempt |-> run.attempt,
   maxAttempts |-> s.maxRetries, cost |-> run.attempt * s.estimate,
   pending |-> s.estimate, maxCost |-> s.maxCost]

Gate(threshold) == INSTANCE PolicyGate WITH ConfidenceThreshold <- threshold

\* approve and dispatch_agent.
LaunchesAgent(s, run) ==
  /\ run.approvers >= MinApprovals(s, run.repo)
  /\ Gate(s.threshold)!Allowed(RequestOf(s, run, "start_agent"))

\* _attempt_remediation.
RetriesAgent(s, run) ==
  /\ run.reason \in s.retryOn
  /\ run.at \notin Keys(s.freezes)
  /\ Gate(s.threshold)!Allowed(RequestOf(s, run, "retry_agent"))

\* What the guardrails of a run's pull request are configured to.
RulesFor(s, repo) ==
  [forbidden |-> UNION {Matches[g] : g \in s.forbidden \cup s.repoForbidden[repo]},
   areasOf |-> [f \in Files |->
     {a \in SensitiveAreas : \E g \in s.areaGlobs[a] : f \in Matches[g]}],
   pathRoles |-> [f \in Files |-> UNION {s.pathRoles[g] : g \in {h \in Globs : f \in Matches[h]}}],
   categoryRoles |-> [f \in Files |-> {}], maxFiles |-> s.maxFiles,
   planScope |-> FALSE, planOutOfScope |-> FALSE, planTests |-> FALSE,
   testFiles |-> {}, judge |-> FALSE]

FactsOf(run, anticipated) ==
  [anticipated |-> anticipated, granted |-> run.roles, scoped |-> FALSE,
   expected |-> {}, outOfScope |-> {}, promisesTests |-> FALSE, flagged |-> {},
   satisfied |-> TRUE]

SeverityUnder(s, run, anticipated) ==
  Severity(NextStatusForDiff("agent_running", "open", RulesFor(s, run.repo),
                             FactsOf(run, anticipated), run.files))

----------------------------------------------------------------------------

\* Nothing that strict settings let happen is held back by loose ones.  The
\* diffs are judged with the areas that the strict settings found in the
\* ticket: what these anticipate, a human of the area's role has signed for.
Tightens(strict, loose, run) ==
  /\ LaunchesAgent(strict, run) => LaunchesAgent(loose, run)
  /\ RetriesAgent(strict, run) => RetriesAgent(loose, run)
  /\ LET anticipated == AreasOfText(strict, run.text)
     IN  SeverityUnder(loose, run, anticipated) <= SeverityUnder(strict, run, anticipated)

\* A bundle tightens whatever it holds, so the check after the merge never
\* fires, and a bundle of valid knobs loads; loading it again changes nothing;
\* and what the comparison calls at least as strict is, as long as both
\* settings count the same estimate.
OverlayTightens(base, bundle, runs) ==
  LET merged == Overlaid(base, bundle)
      replaced == [f \in DOMAIN base |-> IF f \in DOMAIN bundle THEN bundle[f] ELSE base[f]]
  IN  DOMAIN bundle \subseteq OverlayFields =>
        /\ AtLeastAsStrict(merged, base)
        /\ Overlaid(merged, bundle) = merged
        /\ Valid(base) /\ Valid(replaced) => Loads(base, bundle)
        /\ \A run \in runs :
             /\ Tightens(merged, base, run)
             /\ AtLeastAsStrict(replaced, base) => Tightens(replaced, base, run)
================================================================================
