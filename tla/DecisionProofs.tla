--------------------------- MODULE DecisionProofs ---------------------------
(****************************************************************************)
(* Proofs about the pure parts of the lifecycle: the policy gate, in its    *)
(* Python and its Rego form, the pull request guardrails, and the bundles   *)
(* that tighten what both are configured with; and the walks of MCDecisions *)
(* over their inputs.                                                       *)
(****************************************************************************)
EXTENDS MCDecisions, FiniteSetTheorems, TLAPS

-----------------------------------------------------------------------------
(* The two engines                                                           *)

LEMMA SameRoles ==
  ASSUME NEW actions, NEW in \in RequestsOn(actions)
  PROVE  RegoRequiredApprovals(in) = RequiredApprovals(in.areas, in.repoRoles)
<1>1. in.repoRoles \subseteq ApprovalRoles
  BY DEF RequestsOn
<1>2. ASSUME NEW role
      PROVE  role \in RegoRequiredApprovals(in)
             <=> role \in RequiredApprovals(in.areas, in.repoRoles)
  BY <1>1 DEF RegoRequiredApprovals, RequiredApprovals, ApprovalRoles
<1> QED
  BY <1>2

\* The families of actions are spelled alike and do not overlap.
LEMMA SameActions ==
  ASSUME NEW actions, NEW in \in RequestsOn(actions)
  PROVE  /\ IsAutonomous(in) <=> in.action \in AutonomousActions
         /\ IsAdvisory(in) <=> in.action \in AdvisoryActions
         /\ IsForbidden(in) <=> in.action \in ForbiddenActions
         /\ ~(IsAutonomous(in) /\ IsAdvisory(in))
         /\ ~(IsAutonomous(in) /\ IsForbidden(in))
         /\ ~(IsAdvisory(in) /\ IsForbidden(in))
BY DEF IsAutonomous, IsAdvisory, IsForbidden, RegoAutonomousActions,
       RegoAdvisoryActions, RegoForbiddenActions, AutonomousActions,
       AdvisoryActions, ForbiddenActions

LEMMA SameReasons ==
  ASSUME NEW actions, NEW in \in RequestsOn(actions)
  PROVE  RegoDenyReasons(in) = DenyReasons(in)
<1> USE SameActions
<1>1. CASE IsForbidden(in)
  <2>1. /\ ~IsAutonomous(in) /\ ~IsUnknown(in)
        /\ ~RegoRetryRule(in) /\ ~RegoBudgetRule(in)
    BY <1>1 DEF IsUnknown, RegoRetryRule, RegoBudgetRule, IsForbidden,
                RegoForbiddenActions, RegoSpendActions
  <2>2. RegoDenyReasons(in) = {"forbidden_action"}
    BY <1>1, <2>1 DEF RegoDenyReasons
  <2> QED
    BY <1>1, <2>2 DEF DenyReasons
<1>2. CASE IsAdvisory(in)
  <2>1. /\ ~IsAutonomous(in) /\ ~IsUnknown(in) /\ ~IsForbidden(in)
        /\ ~RegoRetryRule(in) /\ ~RegoBudgetRule(in)
    BY <1>2 DEF IsUnknown, RegoRetryRule, RegoBudgetRule, IsAdvisory,
                RegoAdvisoryActions, RegoSpendActions
  <2>2. RegoDenyReasons(in) = {}
    BY <2>1 DEF RegoDenyReasons
  <2> QED
    BY <1>2, <2>1, <2>2 DEF DenyReasons
<1>3. CASE IsUnknown(in)
  <2>1. /\ ~IsAutonomous(in) /\ ~IsForbidden(in) /\ ~IsAdvisory(in)
        /\ ~RegoRetryRule(in) /\ ~RegoBudgetRule(in)
    BY <1>3 DEF IsUnknown, RegoRetryRule, RegoBudgetRule, IsAutonomous,
                RegoAutonomousActions, RegoSpendActions
  <2>2. RegoDenyReasons(in) = {"unknown_action"}
    BY <1>3, <2>1 DEF RegoDenyReasons
  <2> QED
    BY <2>1, <2>2 DEF DenyReasons
<1>4. CASE IsAutonomous(in)
  <2>1. /\ ~IsForbidden(in) /\ ~IsUnknown(in) /\ ~IsAdvisory(in)
    BY <1>4 DEF IsUnknown
  <2>2. RegoBudgetRule(in) <=> OverBudget(in)
    BY DEF RegoBudgetRule, OverBudget, RegoSpendActions, SpendActions
  <2>3. {role \in RegoRequiredApprovals(in) : IsAutonomous(in) /\ role \notin in.approval}
          = RequiredApprovals(in.areas, in.repoRoles) \ in.approval
    BY <1>4, SameRoles
  <2>4. DenyReasons(in) = AutonomousDenials(in)
    BY <1>4, <2>1 DEF DenyReasons
  <2>5. ASSUME NEW d
        PROVE  d \in RegoDenyReasons(in) <=> d \in AutonomousDenials(in)
    BY <1>4, <2>1, <2>2, <2>3 DEF RegoDenyReasons, AutonomousDenials, RegoRetryRule
  <2> QED
    BY <2>4, <2>5
<1> QED
  BY <1>1, <1>2, <1>3, <1>4 DEF IsUnknown

\* For every request, whatever action it is about and whatever the threshold:
\* foundry.rego and LocalPolicyEngine decide alike, for the same reasons
\* (policy/engine.py).
THEOREM EnginesAgree == \A actions : \A in \in RequestsOn(actions) : EnginesAgreeOn(in)
<1> SUFFICES ASSUME NEW actions, NEW in \in RequestsOn(actions) PROVE EnginesAgreeOn(in)
  OBVIOUS
<1>1. RegoDenyReasons(in) = DenyReasons(in)
  BY SameReasons
<1>2. IsAdvisory(in) => DenyReasons(in) = {}
  BY SameActions DEF DenyReasons
<1>3. ~IsAutonomous(in) /\ ~IsAdvisory(in) => DenyReasons(in) # {}
  BY SameActions DEF DenyReasons
<1>4. RegoAllow(in) <=> Allowed(in)
  BY <1>1, <1>2, <1>3 DEF RegoAllow, Allowed
<1> QED
  BY <1>1, <1>4, SameRoles DEF EnginesAgreeOn, RegoAllowedMode, AllowedMode

-----------------------------------------------------------------------------
(* The gate only tightens                                                    *)

LEMMA DenialsKept ==
  ASSUME NEW actions, NEW in \in RequestsOn(actions), NEW tighter \in RequestsOn(actions),
         TighterRequest(in, tighter)
  PROVE  AutonomousDenials(in) \subseteq AutonomousDenials(tighter)
<1> SUFFICES ASSUME NEW d \in AutonomousDenials(in)
             PROVE  d \in AutonomousDenials(tighter)
  OBVIOUS
<1>1. ConfidenceThreshold \in Nat
  BY ThresholdAssumption
<1>2. CASE d \in RequiredApprovals(in.areas, in.repoRoles) \ in.approval
  <2>1. RequiredApprovals(in.areas, in.repoRoles)
          \subseteq RequiredApprovals(tighter.areas, tighter.repoRoles)
    BY DEF TighterRequest, RequiredApprovals
  <2>2. tighter.approval \subseteq in.approval
    BY DEF TighterRequest
  <2> QED
    BY <1>2, <2>1, <2>2 DEF AutonomousDenials
<1>3. CASE d \notin RequiredApprovals(in.areas, in.repoRoles) \ in.approval
  <2>1. OverBudget(in) => OverBudget(tighter)
    BY DEF OverBudget, TighterRequest, RequestsOn, NoCap
  <2>2. in.action = "retry_agent" /\ in.attempt > in.maxAttempts
        => tighter.action = "retry_agent" /\ tighter.attempt > tighter.maxAttempts
    BY DEF TighterRequest, RequestsOn
  <2>3. in.confidence < ConfidenceThreshold => tighter.confidence < ConfidenceThreshold
    BY <1>1 DEF TighterRequest, RequestsOn
  <2>4. /\ ~in.approvalPresent => ~tighter.approvalPresent
        /\ in.readiness # "ready" => tighter.readiness # "ready"
        /\ in.overall = "blocked" => tighter.overall = "blocked"
        /\ in.areas \subseteq tighter.areas
    BY DEF TighterRequest
  <2> QED
    BY <1>3, <2>1, <2>2, <2>3, <2>4 DEF AutonomousDenials
<1> QED
  BY <1>2, <1>3

\* No risk added, approval withdrawn, dollar spent or cap lowered can turn a
\* refusal of LocalPolicyEngine.evaluate into a permission.
THEOREM GateTightens ==
  \A actions : \A in, tighter \in RequestsOn(actions) : GateOnlyTightens(in, tighter)
<1> SUFFICES ASSUME NEW actions, NEW in \in RequestsOn(actions),
                    NEW tighter \in RequestsOn(actions),
                    TighterRequest(in, tighter)
             PROVE  /\ Allowed(tighter) => Allowed(in)
                    /\ AllowedMode(tighter) = "draft_pr" => AllowedMode(in) = "draft_pr"
                    /\ DenyReasons(in) \subseteq DenyReasons(tighter)
  BY DEF GateOnlyTightens
<1>1. tighter.action = in.action
  BY DEF TighterRequest
<1>2. DenyReasons(in) \subseteq DenyReasons(tighter)
  BY <1>1, DenialsKept DEF DenyReasons
<1>3. Allowed(tighter) => Allowed(in)
  BY <1>2 DEF Allowed
<1>4. AllowedMode(tighter) = "draft_pr" => AllowedMode(in) = "draft_pr"
  BY <1>3 DEF AllowedMode, TighterRequest
<1> QED
  BY <1>2, <1>3, <1>4

-----------------------------------------------------------------------------
(* The pull request guardrails                                               *)

\* RunLifecycle loses nothing by taking the verdict in place of the files.
THEOREM VerdictsSuffice ==
  ASSUME NEW s, NEW state, NEW g \in Rules, NEW p \in Facts,
         NEW diff \in SUBSET Files
  PROVE  VerdictSuffices(s, state, g, p, diff)
<1>1. CASE diff = {}
  BY <1>1 DEF VerdictSuffices, NextStatusForDiff, NextStatusForPr, Verdict
<1>2. CASE diff # {} /\ TouchesForbidden(g, diff)
  BY <1>2 DEF VerdictSuffices, NextStatusForDiff, NextStatusForPr, Verdict
<1>3. CASE diff # {} /\ ~TouchesForbidden(g, diff) /\ Escalates(g, p, diff)
  BY <1>3 DEF VerdictSuffices, NextStatusForDiff, NextStatusForPr, Verdict, Escalates
<1>4. CASE diff # {} /\ ~TouchesForbidden(g, diff) /\ ~Escalates(g, p, diff)
  BY <1>4 DEF VerdictSuffices, NextStatusForDiff, NextStatusForPr, Verdict, Escalates
<1> QED
  BY <1>1, <1>2, <1>3, <1>4

\* The severity of an open pull request's diff, without the order of returns.
LEMMA SeverityOfDiff ==
  ASSUME NEW s, NEW g \in Rules, NEW p \in Facts,
         NEW diff \in SUBSET Files, diff # {}
  PROVE  Severity(NextStatusForDiff(s, "open", g, p, diff)) =
           IF TouchesForbidden(g, diff) THEN 2
           ELSE IF Escalates(g, p, diff) THEN 1 ELSE 0
BY DEF Severity, NextStatusForDiff, Escalates

LEMMA EscalationKept ==
  ASSUME NEW g \in Rules, NEW stricter \in Rules, NEW p \in Facts,
         NEW diff \in SUBSET Files,
         StricterRules(g, stricter), Escalates(g, p, diff)
  PROVE  Escalates(stricter, p, diff)
<1>1. UnexpectedAreas(g, p, diff) \subseteq UnexpectedAreas(stricter, p, diff)
  BY DEF UnexpectedAreas, StricterRules
<1>2. UnapprovedPathRoles(g, p, diff) \subseteq UnapprovedPathRoles(stricter, p, diff)
  BY DEF UnapprovedPathRoles, StricterRules
<1>3. UnapprovedCategoryRoles(g, p, diff)
        \subseteq UnapprovedCategoryRoles(stricter, p, diff)
  BY DEF UnapprovedCategoryRoles, StricterRules
<1>4. Cardinality(diff) > g.maxFiles => Cardinality(diff) > stricter.maxFiles
  <2>1. Cardinality(diff) \in Nat
    BY FilesAssumption, FS_Subset, FS_CardinalityType
  <2> QED
    BY <2>1 DEF StricterRules, Rules
<1>5. /\ OffLimits(g, p, diff) => OffLimits(stricter, p, diff)
      /\ Drifts(g, p, diff) => Drifts(stricter, p, diff)
      /\ Unsatisfied(g, p) => Unsatisfied(stricter, p)
  BY DEF OffLimits, Drifts, Unsatisfied, StricterRules
<1>6. TestsMissing(g, p, diff) => TestsMissing(stricter, p, diff)
  BY DEF TestsMissing, StricterRules
<1> QED
  BY <1>1, <1>2, <1>3, <1>4, <1>5, <1>6 DEF Escalates

\* No rule an operator adds, no limit lowered and no switch turned on lets an
\* open pull request through that was held back (_next_status_for_pr).
THEOREM RulesEscalate ==
  ASSUME NEW s, NEW g \in Rules, NEW stricter \in Rules, NEW p \in Facts,
         NEW diff \in SUBSET Files
  PROVE  RulesOnlyEscalate(s, g, stricter, p, diff)
<1> SUFFICES ASSUME diff # {}, StricterRules(g, stricter)
             PROVE  Severity(NextStatusForDiff(s, "open", g, p, diff))
                      <= Severity(NextStatusForDiff(s, "open", stricter, p, diff))
  BY DEF RulesOnlyEscalate
<1>1. TouchesForbidden(g, diff) => TouchesForbidden(stricter, diff)
  BY DEF TouchesForbidden, StricterRules
<1>2. Escalates(g, p, diff) => Escalates(stricter, p, diff)
  BY EscalationKept
<1> QED
  BY <1>1, <1>2, SeverityOfDiff

\* A diff that is held back stays held back when more files are changed,
\* unless they are tests (_next_status_for_pr).
THEOREM MoreFilesEscalate ==
  ASSUME NEW s, NEW g \in Rules, NEW p \in Facts,
         NEW diff \in SUBSET Files, NEW more \in SUBSET Files
  PROVE  MoreFilesOnlyEscalate(s, g, p, diff, more)
<1> SUFFICES ASSUME diff # {}, diff \subseteq more,
                    (more \ diff) \cap g.testFiles = {}
             PROVE  Severity(NextStatusForDiff(s, "open", g, p, diff))
                      <= Severity(NextStatusForDiff(s, "open", g, p, more))
  BY DEF MoreFilesOnlyEscalate
<1>1. TouchesForbidden(g, diff) => TouchesForbidden(g, more)
  BY DEF TouchesForbidden
<1>2. UnexpectedAreas(g, p, diff) \subseteq UnexpectedAreas(g, p, more)
  BY DEF UnexpectedAreas
<1>3. UnapprovedPathRoles(g, p, diff) \subseteq UnapprovedPathRoles(g, p, more)
  BY DEF UnapprovedPathRoles
<1>4. UnapprovedCategoryRoles(g, p, diff) \subseteq UnapprovedCategoryRoles(g, p, more)
  BY DEF UnapprovedCategoryRoles
<1>5. Cardinality(diff) > g.maxFiles => Cardinality(more) > g.maxFiles
  <2>1. IsFiniteSet(more)
    BY FilesAssumption, FS_Subset
  <2>2. /\ Cardinality(diff) \in Nat /\ Cardinality(more) \in Nat
        /\ Cardinality(diff) <= Cardinality(more)
    BY <2>1, FS_Subset, FS_CardinalityType
  <2> QED
    BY <2>2 DEF Rules
<1>6. /\ OffLimits(g, p, diff) => OffLimits(g, p, more)
      /\ Drifts(g, p, diff) => Drifts(g, p, more)
      /\ TestsMissing(g, p, diff) => TestsMissing(g, p, more)
  BY DEF OffLimits, Drifts, TestsMissing
<1>7. Escalates(g, p, diff) => Escalates(g, p, more)
  BY <1>2, <1>3, <1>4, <1>5, <1>6 DEF Escalates
<1> QED
  BY <1>1, <1>7, SeverityOfDiff

-----------------------------------------------------------------------------
(* Policy bundles: the merge of a bundle onto a deployment's settings is at  *)
(* least as strict by compare_policy_strictness, for any settings and any    *)
(* bundle; and what that comparison calls at least as strict holds back      *)
(* every launch, retry and pull request that the looser settings hold back,  *)
(* whatever the run.                                                         *)


\* Knobs of the kinds the loader parses: numbers, lists as sets, and a list or
\* a number for each key.  Numbers may be out of range, as nothing validates a
\* bundle before it is merged; only a negative limit of files, which _validate
\* refuses after the merge, is left out.
Kinds(s) ==
  /\ \A f \in DOMAIN s \cap {"threshold", "minApprovals", "maxRetries", "maxCost"} :
       s[f] \in Int
  /\ "maxFiles" \in DOMAIN s => s.maxFiles \in Nat
  /\ "repoMinApprovals" \in DOMAIN s => s.repoMinApprovals \in [PolicyRepos -> Int]
  /\ "forbidden" \in DOMAIN s => s.forbidden \in SUBSET Globs
  /\ "repoForbidden" \in DOMAIN s => s.repoForbidden \in [PolicyRepos -> SUBSET Globs]
  /\ "repoRoles" \in DOMAIN s => s.repoRoles \in [PolicyRepos -> SUBSET ApprovalRoles]
  /\ "pathRoles" \in DOMAIN s => s.pathRoles \in [Globs -> SUBSET ApprovalRoles]
  /\ "areaGlobs" \in DOMAIN s => s.areaGlobs \in [SensitiveAreas -> SUBSET Globs]
  /\ "areaWords" \in DOMAIN s => DOMAIN s.areaWords = SensitiveAreas

\* Settings have every knob, and the estimate that no bundle can set; a bundle
\* has any of the knobs.
IsSettings(s) ==
  /\ OverlayFields \cup {"estimate"} \subseteq DOMAIN s
  /\ s.estimate \in Nat
  /\ Kinds(s)

IsBundle(b) == DOMAIN b \subseteq OverlayFields /\ Kinds(b)

\* A run as the gate and the guardrails see it.
IsRun(run) ==
  /\ run.repo \in PolicyRepos /\ run.confidence \in Nat
  /\ run.approvers \in Nat /\ run.attempt \in Nat
  /\ run.roles \in SUBSET ApprovalRoles /\ run.files \in SUBSET Files

\* A merged knob is its base's, or the merge of both as the table directs it.
LEMMA MergedKnob ==
  ASSUME NEW own, NEW extra, NEW f \in DOMAIN own
  PROVE  /\ f \notin DOMAIN extra => Overlaid(own, extra)[f] = own[f]
         /\ f \in DOMAIN extra =>
              Overlaid(own, extra)[f] = Merge(f, own[f], extra[f])
BY DEF Overlaid

\* The table, row by row.
LEMMA MergeTable ==
  ASSUME NEW a, NEW b
  PROVE  /\ Merge("threshold", a, b) = Higher(a, b)
         /\ Merge("minApprovals", a, b) = Higher(a, b)
         /\ Merge("maxFiles", a, b) = Lower(a, b)
         /\ Merge("maxRetries", a, b) = Lower(a, b)
         /\ Merge("maxCost", a, b) = LowerCap(a, b)
         /\ Merge("forbidden", a, b) = a \cup b
         /\ Merge("retryOn", a, b) = a \cap b
         /\ Merge("repoForbidden", a, b) = Union(a, b)
         /\ Merge("repoRoles", a, b) = Union(a, b)
         /\ Merge("pathRoles", a, b) = Union(a, b)
         /\ Merge("areaGlobs", a, b) = Union(a, b)
         /\ Merge("areaWords", a, b) = Union(a, b)
         /\ Merge("repoMinApprovals", a, b) = HigherOf(a, b)
         /\ Merge("freezes", a, b) = a \cup {w \in b : \A v \in a : v.key # w.key}
<1>1. Merge("threshold", a, b) = Higher(a, b)
  BY Zenon DEF Merge
<1>2. Merge("minApprovals", a, b) = Higher(a, b)
  BY Zenon DEF Merge
<1>3. Merge("maxFiles", a, b) = Lower(a, b)
  BY Zenon DEF Merge
<1>4. Merge("maxRetries", a, b) = Lower(a, b)
  BY Zenon DEF Merge
<1>5. Merge("maxCost", a, b) = LowerCap(a, b)
  BY Zenon DEF Merge
<1>6. Merge("forbidden", a, b) = a \cup b
  BY Zenon DEF Merge
<1>7. Merge("retryOn", a, b) = a \cap b
  BY Zenon DEF Merge
<1>8. Merge("repoForbidden", a, b) = Union(a, b)
  BY Zenon DEF Merge
<1>9. Merge("repoRoles", a, b) = Union(a, b)
  BY Zenon DEF Merge
<1>10. Merge("pathRoles", a, b) = Union(a, b)
  BY Zenon DEF Merge
<1>11. Merge("areaGlobs", a, b) = Union(a, b)
  BY Zenon DEF Merge
<1>12. Merge("areaWords", a, b) = Union(a, b)
  BY Zenon DEF Merge
<1>13. Merge("repoMinApprovals", a, b) = HigherOf(a, b)
  BY Zenon DEF Merge
<1>14. Merge("freezes", a, b) = a \cup {w \in b : \A v \in a : v.key # w.key}
  BY Zenon DEF Merge
<1>15. QED
  BY <1>1, <1>2, <1>3, <1>4, <1>5, <1>6, <1>7, <1>8, <1>9, <1>10, <1>11, <1>12, <1>13, <1>14

\* The merge of knobs of the right kinds is of the right kinds.
LEMMA MergedKinds ==
  ASSUME NEW own, NEW extra, IsSettings(own), IsBundle(extra)
  PROVE  IsSettings(Overlaid(own, extra))
<1> DEFINE merged == Overlaid(own, extra)
<1>1. DOMAIN merged = DOMAIN own /\ OverlayFields \cup {"estimate"} \subseteq DOMAIN own
  BY DEF Overlaid, IsSettings
<1>2. merged.estimate = own.estimate
  BY <1>1, MergedKnob DEF IsBundle, OverlayFields
<1>3. ASSUME NEW f \in {"threshold", "minApprovals", "maxRetries", "maxCost"}
      PROVE  merged[f] \in Int
  <2>1. f \in DOMAIN own /\ own[f] \in Int /\ (f \in DOMAIN extra => extra[f] \in Int)
    BY <1>1 DEF IsSettings, IsBundle, Kinds, OverlayFields
  <2>2. \A a, b \in Int : Higher(a, b) \in Int /\ Lower(a, b) \in Int /\ LowerCap(a, b) \in Int
    BY DEF Higher, Lower, LowerCap
  <2>3. f \notin DOMAIN extra => merged[f] = own[f]
    BY <2>1, MergedKnob
  <2>4. f \in DOMAIN extra =>
          merged[f] \in {Higher(own[f], extra[f]), Lower(own[f], extra[f]),
                        LowerCap(own[f], extra[f])}
    <3>1. f \in DOMAIN extra => merged[f] = Merge(f, own[f], extra[f])
      BY <2>1, MergedKnob
    <3>2. Merge(f, own[f], extra[f])
            \in {Higher(own[f], extra[f]), Lower(own[f], extra[f]),
                LowerCap(own[f], extra[f])}
      BY <1>3, MergeTable
    <3>3. QED
      BY <3>1, <3>2
  <2>5. QED
    BY <2>1, <2>2, <2>3, <2>4
<1>4. merged.repoMinApprovals \in [PolicyRepos -> Int]
  <2>1. \A a, b \in [PolicyRepos -> Int] : HigherOf(a, b) \in [PolicyRepos -> Int]
    BY DEF HigherOf, Higher
  <2>2. QED
    BY <1>1, <2>1, MergedKnob, MergeTable DEF IsSettings, IsBundle, Kinds, OverlayFields
<1>5. merged.forbidden \in SUBSET Globs
  BY <1>1, MergedKnob, MergeTable DEF IsSettings, IsBundle, Kinds, OverlayFields
<1>6. merged.repoForbidden \in [PolicyRepos -> SUBSET Globs]
  <2>1. /\ own.repoForbidden \in [PolicyRepos -> SUBSET Globs]
        /\ "repoForbidden" \in DOMAIN extra =>
             extra.repoForbidden \in [PolicyRepos -> SUBSET Globs]
    BY DEF IsSettings, IsBundle, Kinds, OverlayFields
  <2>2. merged.repoForbidden =
          IF "repoForbidden" \in DOMAIN extra THEN Union(own.repoForbidden, extra.repoForbidden)
          ELSE own.repoForbidden
    BY <1>1, MergedKnob, MergeTable DEF OverlayFields
  <2>3. QED
    BY <2>1, <2>2 DEF Union
<1>7. merged.repoRoles \in [PolicyRepos -> SUBSET ApprovalRoles]
  <2>1. /\ own.repoRoles \in [PolicyRepos -> SUBSET ApprovalRoles]
        /\ "repoRoles" \in DOMAIN extra =>
             extra.repoRoles \in [PolicyRepos -> SUBSET ApprovalRoles]
    BY DEF IsSettings, IsBundle, Kinds, OverlayFields
  <2>2. merged.repoRoles =
          IF "repoRoles" \in DOMAIN extra THEN Union(own.repoRoles, extra.repoRoles)
          ELSE own.repoRoles
    BY <1>1, MergedKnob, MergeTable DEF OverlayFields
  <2>3. QED
    BY <2>1, <2>2 DEF Union
<1>8. merged.pathRoles \in [Globs -> SUBSET ApprovalRoles]
  <2>1. /\ own.pathRoles \in [Globs -> SUBSET ApprovalRoles]
        /\ "pathRoles" \in DOMAIN extra => extra.pathRoles \in [Globs -> SUBSET ApprovalRoles]
    BY DEF IsSettings, IsBundle, Kinds, OverlayFields
  <2>2. merged.pathRoles =
          IF "pathRoles" \in DOMAIN extra THEN Union(own.pathRoles, extra.pathRoles)
          ELSE own.pathRoles
    BY <1>1, MergedKnob, MergeTable DEF OverlayFields
  <2>3. QED
    BY <2>1, <2>2 DEF Union
<1>9. merged.areaGlobs \in [SensitiveAreas -> SUBSET Globs]
  <2>1. /\ own.areaGlobs \in [SensitiveAreas -> SUBSET Globs]
        /\ "areaGlobs" \in DOMAIN extra => extra.areaGlobs \in [SensitiveAreas -> SUBSET Globs]
    BY DEF IsSettings, IsBundle, Kinds, OverlayFields
  <2>2. merged.areaGlobs =
          IF "areaGlobs" \in DOMAIN extra THEN Union(own.areaGlobs, extra.areaGlobs)
          ELSE own.areaGlobs
    BY <1>1, MergedKnob, MergeTable DEF OverlayFields
  <2>3. QED
    BY <2>1, <2>2 DEF Union
<1>10. DOMAIN merged.areaWords = SensitiveAreas
  BY <1>1, MergedKnob, MergeTable DEF IsSettings, IsBundle, Kinds, OverlayFields, Union
<1>11. merged.maxFiles \in Nat
  BY <1>1, MergedKnob, MergeTable DEF IsSettings, IsBundle, Kinds, OverlayFields, Lower
<1>12. Kinds(merged)
  BY <1>3, <1>4, <1>5, <1>6, <1>7, <1>8, <1>9, <1>10, <1>11 DEF Kinds
<1>13. QED
  BY <1>1, <1>2, <1>12 DEF IsSettings

\* The numbers only move in the direction that tightens.
LEMMA ScalarsTighten ==
  ASSUME NEW own, NEW extra, IsSettings(own), IsBundle(extra)
  PROVE  ScalarsAsStrict(Overlaid(own, extra), own)
<1> DEFINE merged == Overlaid(own, extra)
<1>1. merged.threshold >= own.threshold
  BY MergedKnob, MergeTable DEF IsSettings, IsBundle, Kinds, OverlayFields, Higher
<1>2. merged.maxFiles <= own.maxFiles
  BY MergedKnob, MergeTable DEF IsSettings, IsBundle, Kinds, OverlayFields, Lower
<1>3. merged.minApprovals >= own.minApprovals
  BY MergedKnob, MergeTable DEF IsSettings, IsBundle, Kinds, OverlayFields, Higher
<1>4. merged.maxRetries <= own.maxRetries
  BY MergedKnob, MergeTable DEF IsSettings, IsBundle, Kinds, OverlayFields, Lower
<1>5. QED
  BY <1>1, <1>2, <1>3, <1>4 DEF ScalarsAsStrict

\* Reasons to retry are only taken away, and a cap only lowered; no cap, which
\* is the number that a cap cannot be, is never put in the place of one.
LEMMA RetriesTighten ==
  ASSUME NEW own, NEW extra, IsSettings(own), IsBundle(extra)
  PROVE  RetriesAsStrict(Overlaid(own, extra), own)
<1> DEFINE merged == Overlaid(own, extra)
<1>1. merged.retryOn \subseteq own.retryOn
  BY MergedKnob, MergeTable DEF IsSettings, IsBundle, Kinds, OverlayFields
<1>2. own.maxCost # NoCap => merged.maxCost # NoCap /\ merged.maxCost <= own.maxCost
  BY MergedKnob, MergeTable DEF IsSettings, IsBundle, Kinds, OverlayFields, LowerCap, Lower, NoCap
<1>3. QED
  BY <1>1, <1>2 DEF RetriesAsStrict

\* Paths are only added to those forbidden.
LEMMA PathsTighten ==
  ASSUME NEW own, NEW extra, IsSettings(own), IsBundle(extra)
  PROVE  PathsAsStrict(Overlaid(own, extra), own)
<1> DEFINE merged == Overlaid(own, extra)
<1>1. own.forbidden \subseteq merged.forbidden
  BY MergedKnob, MergeTable DEF IsSettings, IsBundle, Kinds, OverlayFields
<1>2. ASSUME NEW r \in PolicyRepos
      PROVE  own.repoForbidden[r] \subseteq merged.repoForbidden[r]
  BY <1>2, MergedKnob, MergeTable DEF IsSettings, IsBundle, Kinds, OverlayFields, Union
<1>3. QED
  BY <1>1, <1>2 DEF PathsAsStrict

\* Lists of a knob that maps keys to lists only grow.
LEMMA ListsTighten ==
  ASSUME NEW own, NEW extra, IsSettings(own), IsBundle(extra),
         NEW f \in {"repoRoles", "pathRoles", "areaGlobs", "areaWords"}
  PROVE  Covers(Overlaid(own, extra)[f], own[f])
<1>1. f \in DOMAIN own
  BY DEF IsSettings, OverlayFields
<1>2. CASE f \in DOMAIN extra
  <2>1. Overlaid(own, extra)[f] = Union(own[f], extra[f])
    BY <1>1, <1>2, MergedKnob, MergeTable
  <2>2. QED
    BY <2>1 DEF Covers, Union
<1>3. CASE f \notin DOMAIN extra
  BY <1>1, <1>3, MergedKnob, MergeTable DEF Covers
<1>4. QED
  BY <1>2, <1>3

\* The quorum of a repository is the higher of two numbers, each of which
\* only grows.
LEMMA ApprovalsTighten ==
  ASSUME NEW own, NEW extra, IsSettings(own), IsBundle(extra)
  PROVE  ApprovalsAsStrict(Overlaid(own, extra), own)
<1> DEFINE merged == Overlaid(own, extra)
<1>1. Covers(merged.repoRoles, own.repoRoles)
  BY ListsTighten
<1>2. merged.minApprovals \in Int /\ merged.minApprovals >= own.minApprovals
  BY MergedKnob, MergeTable DEF IsSettings, IsBundle, Kinds, OverlayFields, Higher
<1>3. ASSUME NEW r \in PolicyRepos
      PROVE  MinApprovals(merged, r) >= MinApprovals(own, r)
  <2>1. own.repoMinApprovals \in [PolicyRepos -> Int] /\ own.minApprovals \in Int
    BY DEF IsSettings, Kinds, OverlayFields
  <2>2. merged.repoMinApprovals \in [PolicyRepos -> Int]
    BY MergedKinds DEF IsSettings, Kinds, OverlayFields
  <2>3. merged.repoMinApprovals[r] >= own.repoMinApprovals[r]
    <3>1. CASE "repoMinApprovals" \in DOMAIN extra
      <4>1. merged.repoMinApprovals = HigherOf(own.repoMinApprovals, extra.repoMinApprovals)
        BY <3>1, MergedKnob, MergeTable DEF IsSettings, OverlayFields
      <4>2. extra.repoMinApprovals \in [PolicyRepos -> Int]
        BY <3>1 DEF IsBundle, Kinds
      <4>3. QED
        BY <1>3, <2>1, <4>1, <4>2 DEF HigherOf, Higher
    <3>2. CASE "repoMinApprovals" \notin DOMAIN extra
      <4>1. merged.repoMinApprovals = own.repoMinApprovals
        BY <3>2, MergedKnob DEF IsSettings, OverlayFields
      <4>2. QED
        BY <1>3, <2>1, <4>1
    <3>3. QED
      BY <3>1, <3>2
  <2>4. QED
    BY <1>2, <1>3, <2>1, <2>2, <2>3 DEF MinApprovals, Higher
<1>4. QED
  BY <1>1, <1>3 DEF ApprovalsAsStrict

\* Floors of paths and areas only grow, and no freeze is lifted: a window of
\* the base stays, whatever windows the bundle adds.
LEMMA FloorsTighten ==
  ASSUME NEW own, NEW extra, IsSettings(own), IsBundle(extra)
  PROVE  FloorsAsStrict(Overlaid(own, extra), own)
<1> DEFINE merged == Overlaid(own, extra)
<1>1. /\ Covers(merged.pathRoles, own.pathRoles)
      /\ Covers(merged.areaGlobs, own.areaGlobs)
      /\ Covers(merged.areaWords, own.areaWords)
  BY ListsTighten
<1>2. own.freezes \subseteq merged.freezes
  BY MergedKnob, MergeTable DEF IsSettings, IsBundle, Kinds, OverlayFields
<1>3. Keys(own.freezes) \subseteq Keys(merged.freezes)
  BY <1>2 DEF Keys
<1>4. QED
  BY <1>1, <1>3 DEF FloorsAsStrict

\* A bundle, whatever it holds, leaves the deployment at least as strict as it
\* was, by the comparison that Settings.load and the compliance check make.
THEOREM MergeIsAsStrict ==
  ASSUME NEW own, NEW extra, IsSettings(own), IsBundle(extra)
  PROVE  AtLeastAsStrict(Overlaid(own, extra), own)
BY ScalarsTighten, RetriesTighten, PathsTighten, ApprovalsTighten, FloorsTighten
DEF AtLeastAsStrict

\* So a bundle is refused for its values alone, never for what it would loosen.
THEOREM BundleLoadsWhenValid ==
  ASSUME NEW own, NEW extra, IsSettings(own), IsBundle(extra),
         Valid(Overlaid(own, extra))
  PROVE  Loads(own, extra)
BY MergeIsAsStrict DEF Loads, IsBundle

--------------------------------------------------------------------------------
(* What at least as strict means for a pull request and for a launch.         *)

\* The guardrails are handed rules of the kinds they take.
LEMMA RulesTyped ==
  ASSUME NEW s, NEW home \in PolicyRepos, IsSettings(s)
  PROVE  RulesFor(s, home) \in Rules
<1> DEFINE forbidden == UNION {Matches[g] : g \in s.forbidden \cup s.repoForbidden[home]}
           areasOf == [f \in Files |->
             {a \in SensitiveAreas : \E g \in s.areaGlobs[a] : f \in Matches[g]}]
           pathRoles == [f \in Files |->
             UNION {s.pathRoles[g] : g \in {h \in Globs : f \in Matches[h]}}]
           noRoles == [f \in Files |-> {}]
<1>1. forbidden \in SUBSET Files
  BY OverlayAssumption DEF IsSettings, Kinds, OverlayFields
<1>2. areasOf \in [Files -> SUBSET SensitiveAreas]
  OBVIOUS
<1>3. pathRoles \in [Files -> SUBSET ApprovalRoles]
  BY DEF IsSettings, Kinds, OverlayFields
<1>4. noRoles \in [Files -> SUBSET ApprovalRoles]
  OBVIOUS
<1>5. s.maxFiles \in Nat
  BY DEF IsSettings, Kinds, OverlayFields
<1> HIDE DEF forbidden, areasOf, pathRoles, noRoles
<1>6. RulesFor(s, home) =
        [forbidden |-> forbidden, areasOf |-> areasOf, pathRoles |-> pathRoles,
         categoryRoles |-> noRoles, maxFiles |-> s.maxFiles,
         planScope |-> FALSE, planOutOfScope |-> FALSE, planTests |-> FALSE,
         testFiles |-> {}, judge |-> FALSE]
  BY DEF RulesFor, forbidden, areasOf, pathRoles, noRoles
<1>7. QED
  BY <1>1, <1>2, <1>3, <1>4, <1>5, <1>6 DEF Rules

\* Settings at least as strict configure the guardrails at least as strictly.
LEMMA RulesStricter ==
  ASSUME NEW strict, NEW loose, NEW home \in PolicyRepos,
         IsSettings(strict), IsSettings(loose), AtLeastAsStrict(strict, loose)
  PROVE  StricterRules(RulesFor(loose, home), RulesFor(strict, home))
<1> DEFINE g == RulesFor(loose, home)
           h == RulesFor(strict, home)
<1>1. g.forbidden \subseteq h.forbidden
  <2>1. loose.forbidden \cup loose.repoForbidden[home]
          \subseteq strict.forbidden \cup strict.repoForbidden[home]
    BY DEF AtLeastAsStrict, PathsAsStrict
  <2>2. QED
    BY <2>1 DEF RulesFor
<1>2. ASSUME NEW f \in Files
      PROVE  /\ g.areasOf[f] \subseteq h.areasOf[f]
             /\ g.pathRoles[f] \subseteq h.pathRoles[f]
             /\ g.categoryRoles[f] \subseteq h.categoryRoles[f]
  <2>1. \A a \in SensitiveAreas : loose.areaGlobs[a] \subseteq strict.areaGlobs[a]
    BY DEF AtLeastAsStrict, FloorsAsStrict, Covers, IsSettings, Kinds, OverlayFields
  <2>2. g.areasOf[f] \subseteq h.areasOf[f]
    BY <1>2, <2>1 DEF RulesFor
  <2>3. \A x \in Globs : loose.pathRoles[x] \subseteq strict.pathRoles[x]
    BY DEF AtLeastAsStrict, FloorsAsStrict, Covers, IsSettings, Kinds, OverlayFields
  <2>4. g.pathRoles[f] \subseteq h.pathRoles[f]
    BY <1>2, <2>3 DEF RulesFor
  <2>5. QED
    BY <1>2, <2>2, <2>4 DEF RulesFor
<1>3. h.maxFiles <= g.maxFiles
  BY DEF AtLeastAsStrict, ScalarsAsStrict, RulesFor
<1>4. /\ ~g.planScope /\ ~g.planOutOfScope /\ ~g.planTests /\ ~g.judge
      /\ h.testFiles \subseteq g.testFiles
  BY DEF RulesFor
<1>5. QED
  BY <1>1, <1>2, <1>3, <1>4 DEF StricterRules

\* What the comparison calls at least as strict holds a pull request back at
\* least as far: blocked stays blocked, review stays review or worse.
THEOREM StrictSettingsEscalate ==
  ASSUME NEW strict, NEW loose, IsSettings(strict), IsSettings(loose),
         AtLeastAsStrict(strict, loose),
         NEW run, run.repo \in PolicyRepos, run.files \in SUBSET Files,
         run.files # {}, run.roles \in SUBSET ApprovalRoles,
         NEW anticipated \in SUBSET SensitiveAreas
  PROVE  SeverityUnder(loose, run, anticipated) <= SeverityUnder(strict, run, anticipated)
<1>1. FactsOf(run, anticipated) \in Facts
  BY DEF FactsOf, Facts
<1>2. RulesFor(loose, run.repo) \in Rules /\ RulesFor(strict, run.repo) \in Rules
  BY RulesTyped
<1>3. StricterRules(RulesFor(loose, run.repo), RulesFor(strict, run.repo))
  BY RulesStricter
<1>4. RulesOnlyEscalate("agent_running", RulesFor(loose, run.repo),
                        RulesFor(strict, run.repo), FactsOf(run, anticipated), run.files)
  BY <1>1, <1>2, RulesEscalate
<1>5. QED
  BY <1>3, <1>4 DEF RulesOnlyEscalate, SeverityUnder

\* And a launch that the strict settings allow, with enough sign-offs and past
\* the gate, has enough sign-offs under the loose ones.
LEMMA QuorumTightens ==
  ASSUME NEW strict, NEW loose, IsSettings(strict), IsSettings(loose),
         AtLeastAsStrict(strict, loose),
         NEW run, run.repo \in PolicyRepos, run.approvers \in Nat,
         run.approvers >= MinApprovals(strict, run.repo)
  PROVE  run.approvers >= MinApprovals(loose, run.repo)
<1>1. MinApprovals(strict, run.repo) >= MinApprovals(loose, run.repo)
  BY DEF AtLeastAsStrict, ApprovalsAsStrict
<1>2. MinApprovals(strict, run.repo) \in Int /\ MinApprovals(loose, run.repo) \in Int
  BY DEF MinApprovals, Higher, IsSettings, Kinds, OverlayFields
<1>3. QED
  BY <1>1, <1>2

--------------------------------------------------------------------------------
(* The gate, at the threshold of each deployment.                             *)

\* What the gate asks of a launch or a retry, whatever its threshold.
LEMMA GateUnfolded ==
  ASSUME NEW t, NEW in, in.action \in {"start_agent", "retry_agent"}
  PROVE  Gate(t)!Allowed(in) <=>
           /\ in.approvalPresent
           /\ in.areas \cap {"production_deploy", "database_migration"} = {}
           /\ ~(in.confidence < t)
           /\ in.readiness = "ready"
           /\ in.overall # "blocked"
           /\ ~(in.action = "retry_agent" /\ in.attempt > in.maxAttempts)
           /\ ~OverBudget(in)
           /\ RequiredApprovals(in.areas, in.repoRoles) \subseteq in.approval
<1>1. Gate(t)!DenyReasons(in) = Gate(t)!AutonomousDenials(in)
  BY DEF Gate!DenyReasons, Gate!ForbiddenActions, Gate!AdvisoryActions, Gate!AutonomousActions
<1>2. Gate(t)!OverBudget(in) <=> OverBudget(in)
  BY DEF Gate!OverBudget, OverBudget, Gate!SpendActions, SpendActions, Gate!NoCap, NoCap
<1>3. Gate(t)!RequiredApprovals(in.areas, in.repoRoles)
        = RequiredApprovals(in.areas, in.repoRoles)
  BY DEF Gate!RequiredApprovals, RequiredApprovals, Gate!ApprovalRoles, ApprovalRoles
<1>4. QED
  BY <1>1, <1>2, <1>3 DEF Gate!Allowed, Gate!AutonomousDenials

\* A stricter vocabulary sees at least the areas of the looser one.
LEMMA AreasKept ==
  ASSUME NEW strict, NEW loose, IsSettings(strict), IsSettings(loose),
         AtLeastAsStrict(strict, loose), NEW text
  PROVE  AreasOfText(loose, text) \subseteq AreasOfText(strict, text)
<1>1. \A a \in SensitiveAreas : loose.areaWords[a] \subseteq strict.areaWords[a]
  BY DEF AtLeastAsStrict, FloorsAsStrict, Covers, IsSettings, Kinds, OverlayFields
<1>2. QED
  BY <1>1 DEF AreasOfText

\* What the strict settings' gate lets pass, the loose ones' does.
LEMMA GateOfStrictTightens ==
  ASSUME NEW strict, NEW loose, IsSettings(strict), IsSettings(loose),
         AtLeastAsStrict(strict, loose), strict.estimate = loose.estimate,
         NEW run, IsRun(run), NEW action \in {"start_agent", "retry_agent"},
         Gate(strict.threshold)!Allowed(RequestOf(strict, run, action))
  PROVE  Gate(loose.threshold)!Allowed(RequestOf(loose, run, action))
<1> DEFINE in == RequestOf(loose, run, action)
           tighter == RequestOf(strict, run, action)
<1>1. /\ in.action = action /\ tighter.action = action
      /\ tighter.approvalPresent = in.approvalPresent
      /\ tighter.confidence = run.confidence /\ in.confidence = run.confidence
      /\ tighter.readiness = in.readiness /\ tighter.overall = in.overall
      /\ tighter.attempt = run.attempt /\ in.attempt = run.attempt
      /\ tighter.cost = in.cost /\ tighter.pending = in.pending
      /\ tighter.approval = in.approval
      /\ tighter.maxAttempts = strict.maxRetries /\ in.maxAttempts = loose.maxRetries
      /\ tighter.maxCost = strict.maxCost /\ in.maxCost = loose.maxCost
  BY DEF RequestOf
<1>2. in.cost + in.pending \in Int
  <2>1. run.attempt \in Nat /\ loose.estimate \in Nat
    BY DEF IsRun, IsSettings
  <2>2. QED
    BY <2>1 DEF RequestOf
<1>3. /\ strict.threshold \in Int /\ loose.threshold \in Int
      /\ strict.maxRetries \in Int /\ loose.maxRetries \in Int
      /\ strict.maxCost \in Int /\ loose.maxCost \in Int
      /\ run.confidence \in Nat /\ run.attempt \in Nat
  BY DEF IsSettings, Kinds, OverlayFields, IsRun
<1>4. in.areas \subseteq tighter.areas
  BY AreasKept DEF RequestOf
<1>5. in.repoRoles \subseteq tighter.repoRoles
  BY DEF RequestOf, IsRun, AtLeastAsStrict, ApprovalsAsStrict, Covers, IsSettings, Kinds,
         OverlayFields
<1>6. RequiredApprovals(in.areas, in.repoRoles)
        \subseteq RequiredApprovals(tighter.areas, tighter.repoRoles)
  BY <1>4, <1>5 DEF RequiredApprovals
<1>7. OverBudget(in) => OverBudget(tighter)
  BY <1>1, <1>2, <1>3 DEF OverBudget, AtLeastAsStrict, RetriesAsStrict, NoCap
<1>8. ~(tighter.confidence < strict.threshold) => ~(in.confidence < loose.threshold)
  BY <1>1, <1>3 DEF AtLeastAsStrict, ScalarsAsStrict
<1>9. in.attempt > in.maxAttempts => tighter.attempt > tighter.maxAttempts
  BY <1>1, <1>3 DEF AtLeastAsStrict, ScalarsAsStrict
<1> HIDE DEF in, tighter
<1>10. Gate(strict.threshold)!Allowed(tighter)
  BY DEF tighter
<1>11. Gate(loose.threshold)!Allowed(in)
  BY <1>1, <1>4, <1>6, <1>7, <1>8, <1>9, <1>10, GateUnfolded
<1>12. QED
  BY <1>11 DEF in

\* Whatever the comparison calls at least as strict is: every launch, retry and
\* release of the strict settings happens under the loose ones as well.
THEOREM StrictSettingsTighten ==
  ASSUME NEW strict, NEW loose, IsSettings(strict), IsSettings(loose),
         AtLeastAsStrict(strict, loose), strict.estimate = loose.estimate,
         NEW run, IsRun(run)
  PROVE  Tightens(strict, loose, run)
<1>1. LaunchesAgent(strict, run) => LaunchesAgent(loose, run)
  BY QuorumTightens, GateOfStrictTightens DEF LaunchesAgent, IsRun
<1>2. RetriesAgent(strict, run) => RetriesAgent(loose, run)
  <2>1. run.reason \in strict.retryOn => run.reason \in loose.retryOn
    BY DEF AtLeastAsStrict, RetriesAsStrict
  <2>2. run.at \notin Keys(strict.freezes) => run.at \notin Keys(loose.freezes)
    BY DEF AtLeastAsStrict, FloorsAsStrict
  <2>3. QED
    BY <2>1, <2>2, GateOfStrictTightens DEF RetriesAgent
<1>3. ASSUME NEW anticipated \in SUBSET SensitiveAreas
      PROVE  SeverityUnder(loose, run, anticipated) <= SeverityUnder(strict, run, anticipated)
  <2>1. CASE run.files = {}
    BY <2>1 DEF SeverityUnder, NextStatusForDiff, Severity
  <2>2. CASE run.files # {}
    BY <2>2, StrictSettingsEscalate DEF IsRun
  <2>3. QED
    BY <2>1, <2>2
<1>4. AreasOfText(strict, run.text) \in SUBSET SensitiveAreas
  BY DEF AreasOfText
<1>5. QED
  BY <1>1, <1>2, <1>3, <1>4 DEF Tightens

\* Merging a bundle a second time finds nothing to do.
LEMMA MergeTwice ==
  ASSUME NEW own, NEW extra, IsSettings(own), IsBundle(extra)
  PROVE  Overlaid(Overlaid(own, extra), extra) = Overlaid(own, extra)
<1> DEFINE merged == Overlaid(own, extra)
<1>1. DOMAIN merged = DOMAIN own
  BY DEF Overlaid
<1>2. ASSUME NEW f \in DOMAIN extra
      PROVE  Merge(f, merged[f], extra[f]) = merged[f]
  <2>1. f \in OverlayFields /\ f \in DOMAIN own
    BY <1>2 DEF IsBundle, IsSettings
  <2>2. merged[f] = Merge(f, own[f], extra[f])
    BY <1>2, <2>1, MergedKnob
  <2>3. CASE f \in {"threshold", "minApprovals", "maxFiles", "maxRetries", "maxCost"}
    <3>1. own[f] \in Int /\ extra[f] \in Int
      BY <1>2, <2>1, <2>3 DEF IsSettings, IsBundle, Kinds
    <3>2. \A a, b \in Int :
            /\ Higher(Higher(a, b), b) = Higher(a, b)
            /\ Lower(Lower(a, b), b) = Lower(a, b)
            /\ LowerCap(LowerCap(a, b), b) = LowerCap(a, b)
      BY DEF Higher, Lower, LowerCap, NoCap
    <3>3. QED
      BY <2>2, <2>3, <3>1, <3>2, MergeTable
  <2>4. CASE f \in {"repoForbidden", "repoRoles", "pathRoles", "areaGlobs", "areaWords"}
    <3>1. merged[f] = Union(own[f], extra[f])
      BY <2>2, <2>4, MergeTable
    <3>2. Merge(f, merged[f], extra[f]) = Union(merged[f], extra[f])
      BY <2>4, MergeTable
    <3>3. Union(Union(own[f], extra[f]), extra[f]) = Union(own[f], extra[f])
      BY DEF Union
    <3>4. QED
      BY <3>1, <3>2, <3>3
  <2>5. CASE f = "repoMinApprovals"
    <3>1. own[f] \in [PolicyRepos -> Int] /\ extra[f] \in [PolicyRepos -> Int]
      BY <1>2, <2>1, <2>5 DEF IsSettings, IsBundle, Kinds
    <3>2. HigherOf(HigherOf(own[f], extra[f]), extra[f]) = HigherOf(own[f], extra[f])
      BY <3>1 DEF HigherOf, Higher
    <3>3. QED
      BY <2>2, <2>5, <3>2, MergeTable
  <2>6. CASE f \in {"forbidden", "retryOn"}
    <3>1. CASE f = "forbidden"
      <4>1. merged[f] = own[f] \cup extra[f]
        BY <2>2, <3>1, MergeTable
      <4>2. Merge(f, merged[f], extra[f]) = merged[f] \cup extra[f]
        BY <3>1, MergeTable
      <4>3. QED
        BY <4>1, <4>2
    <3>2. CASE f = "retryOn"
      <4>1. merged[f] = own[f] \cap extra[f]
        BY <2>2, <3>2, MergeTable
      <4>2. Merge(f, merged[f], extra[f]) = merged[f] \cap extra[f]
        BY <3>2, MergeTable
      <4>3. QED
        BY <4>1, <4>2
    <3>3. QED
      BY <2>6, <3>1, <3>2
  <2>7. CASE f = "freezes"
    <3>1. merged[f] = own[f] \cup {w \in extra[f] : \A v \in own[f] : v.key # w.key}
      BY <2>2, <2>7, MergeTable
    <3>2. Merge(f, merged[f], extra[f])
            = merged[f] \cup {w \in extra[f] : \A v \in merged[f] : v.key # w.key}
      BY <2>7, MergeTable
    <3>3. {w \in extra[f] : \A v \in merged[f] : v.key # w.key} \subseteq merged[f]
      BY <3>1
    <3>4. QED
      BY <3>2, <3>3
  <2>8. QED
    BY <2>1, <2>3, <2>4, <2>5, <2>6, <2>7 DEF OverlayFields
<1>3. \A f \in DOMAIN merged :
        (IF f \in DOMAIN extra THEN Merge(f, merged[f], extra[f]) ELSE merged[f]) = merged[f]
  BY <1>2
<1>4. Overlaid(merged, extra) = [f \in DOMAIN merged |-> merged[f]]
  BY <1>3 DEF Overlaid
<1>5. merged = [f \in DOMAIN merged |-> merged[f]]
  BY DEF Overlaid
<1>6. QED
  BY <1>4, <1>5

\* Valid knobs stay valid when they are merged.
LEMMA MergeOfValid ==
  ASSUME NEW own, NEW extra, IsSettings(own), IsBundle(extra), Valid(own),
         Valid([f \in DOMAIN own |-> IF f \in DOMAIN extra THEN extra[f] ELSE own[f]])
  PROVE  Valid(Overlaid(own, extra))
<1> DEFINE replaced == [f \in DOMAIN own |-> IF f \in DOMAIN extra THEN extra[f] ELSE own[f]]
           merged == Overlaid(own, extra)
<1>1. OverlayFields \cup {"estimate"} \subseteq DOMAIN own
  BY DEF IsSettings
<1>2. ASSUME NEW f \in DOMAIN own, f \in DOMAIN extra
      PROVE  replaced[f] = extra[f]
  BY <1>2
<1>3. merged.threshold \in 0..100
  BY <1>1, <1>2, MergedKnob, MergeTable DEF OverlayFields, Valid, Higher
<1>4. merged.maxFiles >= 1 /\ merged.maxRetries >= 0
  BY <1>1, <1>2, MergedKnob, MergeTable DEF OverlayFields, Valid, Lower
<1>5. merged.minApprovals >= 1
  BY <1>1, <1>2, MergedKnob, MergeTable DEF OverlayFields, Valid, Higher
<1>6. merged.maxCost = NoCap \/ merged.maxCost > 0
  BY <1>1, <1>2, MergedKnob, MergeTable DEF OverlayFields, Valid, LowerCap, Lower
<1>7. merged.retryOn \subseteq RetryReasons
  BY <1>1, <1>2, MergedKnob, MergeTable DEF OverlayFields, Valid
<1>8. merged.estimate >= 0
  BY <1>1, MergedKnob DEF OverlayFields, Valid, IsBundle
<1>9. QED
  BY <1>3, <1>4, <1>5, <1>6, <1>7, <1>8 DEF Valid

\* A bundle tightens, whatever it holds: the comparison after the merge never
\* refuses it, loading it twice changes nothing, valid knobs load, and no run is
\* let through that the deployment alone would hold back (policy/overlay.py).
THEOREM BundlesTighten ==
  ASSUME NEW own, NEW extra, NEW runs, IsSettings(own), IsBundle(extra),
         \A run \in runs : IsRun(run)
  PROVE  OverlayTightens(own, extra, runs)
<1> DEFINE replaced == [f \in DOMAIN own |-> IF f \in DOMAIN extra THEN extra[f] ELSE own[f]]
           merged == Overlaid(own, extra)
<1>1. AtLeastAsStrict(merged, own)
  BY MergeIsAsStrict
<1>2. Overlaid(merged, extra) = merged
  BY MergeTwice
<1>3. Valid(own) /\ Valid(replaced) => Loads(own, extra)
  BY MergeOfValid, BundleLoadsWhenValid
<1>4. IsSettings(merged) /\ merged.estimate = own.estimate
  <2>1. "estimate" \in DOMAIN own /\ "estimate" \notin DOMAIN extra
    BY DEF IsSettings, IsBundle, OverlayFields
  <2>2. QED
    BY <2>1, MergedKinds, MergedKnob
<1>5. IsSettings(replaced) /\ replaced.estimate = own.estimate
  BY DEF IsSettings, IsBundle, Kinds, OverlayFields
<1> HIDE DEF replaced, merged
<1>6. ASSUME NEW run \in runs
      PROVE  /\ Tightens(merged, own, run)
             /\ AtLeastAsStrict(replaced, own) => Tightens(replaced, own, run)
  BY <1>1, <1>4, <1>5, <1>6, StrictSettingsTighten
<1>7. QED
  BY <1>1, <1>2, <1>3, <1>6 DEF OverlayTightens, merged, replaced

-----------------------------------------------------------------------------
(* The walks                                                                 *)

\* A value that fits a knob, the kinds of which Kinds lists.
Fits(f, v) ==
  /\ f \in {"threshold", "minApprovals", "maxRetries", "maxCost"} => v \in Int
  /\ f = "maxFiles" => v \in Nat
  /\ f = "repoMinApprovals" => v \in [PolicyRepos -> Int]
  /\ f = "forbidden" => v \in SUBSET Globs
  /\ f = "repoForbidden" => v \in [PolicyRepos -> SUBSET Globs]
  /\ f = "repoRoles" => v \in [PolicyRepos -> SUBSET ApprovalRoles]
  /\ f = "pathRoles" => v \in [Globs -> SUBSET ApprovalRoles]
  /\ f = "areaGlobs" => v \in [SensitiveAreas -> SUBSET Globs]
  /\ f = "areaWords" => DOMAIN v = SensitiveAreas

LEMMA KindsFit ==
  ASSUME NEW s, \A f \in DOMAIN s : Fits(f, s[f])
  PROVE  Kinds(s)
BY DEF Kinds, Fits

LEMMA FittingKinds ==
  ASSUME NEW s, Kinds(s), NEW f \in DOMAIN s
  PROVE  Fits(f, s[f])
BY DEF Kinds, Fits

LEMMA FirstSettingsFit ==
  /\ IsSettings(FirstSettings)
  /\ DOMAIN FirstSettings = OverlayFields \cup {"estimate"}
<1>1. DOMAIN FirstSettings = OverlayFields \cup {"estimate"}
  BY DEF FirstSettings, OverlayFields
<1>2. FirstSettings.estimate \in Nat
  BY DEF FirstSettings
<1>3. /\ FirstSettings.threshold \in Int /\ FirstSettings.minApprovals \in Int
      /\ FirstSettings.maxRetries \in Int /\ FirstSettings.maxCost \in Int
      /\ FirstSettings.maxFiles \in Nat
  BY DEF FirstSettings
<1>4. /\ FirstSettings.forbidden \in SUBSET Globs
      /\ FirstSettings.repoMinApprovals \in [PolicyRepos -> Int]
      /\ FirstSettings.repoForbidden \in [PolicyRepos -> SUBSET Globs]
      /\ FirstSettings.repoRoles \in [PolicyRepos -> SUBSET ApprovalRoles]
  BY WalkAssumption DEF WalkAssumption, FirstSettings, ForRepos
<1>5. /\ FirstSettings.pathRoles \in [Globs -> SUBSET ApprovalRoles]
      /\ FirstSettings.areaGlobs \in [SensitiveAreas -> SUBSET Globs]
      /\ DOMAIN FirstSettings.areaWords = SensitiveAreas
  BY WalkAssumption DEF WalkAssumption, FirstSettings, Of, Auth
<1> QED
  BY <1>1, <1>2, <1>3, <1>4, <1>5 DEF IsSettings, Kinds

LEMMA KnobsFit ==
  ASSUME NEW f \in DOMAIN Knobs, NEW v \in Knobs[f]
  PROVE  f \in OverlayFields /\ Fits(f, v)
<1>1. f \in OverlayFields
  BY DEF Knobs, OverlayFields
<1>2. f \in {"threshold", "minApprovals", "maxRetries", "maxCost"} => v \in Int
  BY DEF Knobs, NoCap
<1>3. f = "maxFiles" => v \in Nat
  BY DEF Knobs
<1>4. /\ f = "forbidden" => v \in SUBSET Globs
      /\ f = "repoMinApprovals" => v \in [PolicyRepos -> Int]
      /\ f = "repoForbidden" => v \in [PolicyRepos -> SUBSET Globs]
      /\ f = "repoRoles" => v \in [PolicyRepos -> SUBSET ApprovalRoles]
  BY WalkAssumption DEF WalkAssumption, Knobs, ForRepos, ApprovalRoles
<1>5. /\ f = "pathRoles" => v \in [Globs -> SUBSET ApprovalRoles]
      /\ f = "areaGlobs" => v \in [SensitiveAreas -> SUBSET Globs]
      /\ f = "areaWords" => DOMAIN v = SensitiveAreas
  BY WalkAssumption DEF WalkAssumption, Knobs, Of, Auth, ApprovalRoles
<1> QED
  BY <1>1, <1>2, <1>3, <1>4, <1>5 DEF Fits

LEMMA SettingsEdited ==
  ASSUME NEW f \in DOMAIN Knobs, NEW v \in Knobs[f]
  PROVE  IsSettings([FirstSettings EXCEPT ![f] = v])
<1> DEFINE edited == [FirstSettings EXCEPT ![f] = v]
<1>1. /\ f \in OverlayFields /\ Fits(f, v)
      /\ IsSettings(FirstSettings) /\ DOMAIN FirstSettings = OverlayFields \cup {"estimate"}
  BY KnobsFit, FirstSettingsFit
<1>2. /\ DOMAIN edited = OverlayFields \cup {"estimate"}
      /\ \A g \in DOMAIN edited : edited[g] = IF g = f THEN v ELSE FirstSettings[g]
  BY <1>1
<1>3. edited.estimate \in Nat
  BY <1>1, <1>2 DEF IsSettings, OverlayFields
<1> HIDE DEF edited
<1>4. ASSUME NEW g \in DOMAIN edited PROVE Fits(g, edited[g])
  <2>1. Fits(g, FirstSettings[g])
    BY <1>1, <1>2, FittingKinds DEF IsSettings
  <2> QED
    BY <1>1, <1>2, <2>1
<1>5. Kinds(edited)
  BY <1>4, KindsFit
<1>6. IsSettings(edited)
  BY <1>2, <1>3, <1>5 DEF IsSettings
<1> QED
  BY <1>6 DEF edited

LEMMA BundleEdited ==
  ASSUME NEW f \in DOMAIN Knobs, NEW v \in Knobs[f], NEW extra, IsBundle(extra)
  PROVE  IsBundle([g \in DOMAIN extra \cup {f} |-> IF g = f THEN v ELSE extra[g]])
<1> DEFINE edited == [g \in DOMAIN extra \cup {f} |-> IF g = f THEN v ELSE extra[g]]
<1>1. f \in OverlayFields /\ Fits(f, v)
  BY KnobsFit
<1>2. /\ DOMAIN edited = {f} \cup DOMAIN extra
      /\ \A g \in DOMAIN edited : edited[g] = IF g = f THEN v ELSE extra[g]
  OBVIOUS
<1> HIDE DEF edited
<1>3. ASSUME NEW g \in DOMAIN edited PROVE Fits(g, edited[g])
  <2>1. CASE g = f
    BY <1>1, <1>2, <2>1
  <2>2. CASE g # f
    BY <1>2, <2>2, FittingKinds DEF IsBundle
  <2> QED
    BY <2>1, <2>2
<1>4. Kinds(edited)
  BY <1>3, KindsFit
<1>5. IsBundle(edited)
  BY <1>1, <1>2, <1>4 DEF IsBundle
<1> QED
  BY <1>5 DEF edited

\* What the edits keep: every decision is asked of inputs that the program can
\* be given.
WalkInv ==
  /\ request \in Requests
  /\ rules \in Rules /\ facts \in Facts /\ files \in SUBSET Files
  /\ IsSettings(base) /\ IsBundle(bundle)

LEMMA RunsFit == \A run \in RunsSeen : IsRun(run)
<1> DEFINE asked == {<<0, "ci_failed", 1>>, <<1, "ci_failed", 2>>, <<2, "changes_requested", 2>>}
<1>1. ASSUME NEW run \in RunsSeen PROVE IsRun(run)
  <2>1. PICK t \in {{}, {token}}, n \in {1, 2}, x \in {{}, {"engineering", "qa"}},
             again \in asked, d \in {{Code}, {Migration, Test}} :
           run = [repo |-> repo, text |-> t, confidence |-> 70, approvers |-> n, roles |-> x,
                  attempt |-> again[1], reason |-> again[2], at |-> again[3], files |-> d]
    BY DEF RunsSeen
  <2>2. again[1] \in Nat
    OBVIOUS
  <2>3. /\ repo \in PolicyRepos /\ n \in Nat
        /\ x \in SUBSET ApprovalRoles /\ d \in SUBSET Files
    BY WalkAssumption DEF WalkAssumption, ApprovalRoles
  <2> HIDE DEF asked
  <2> QED
    BY <2>1, <2>2, <2>3 DEF IsRun
<1> QED
  BY <1>1

LEMMA FirstInputsFit ==
  /\ FirstRequest \in Requests /\ FirstRules \in Rules
  /\ {Templated, Scoped, Foreseen, Surprising} \subseteq Facts
<1>1. FirstRequest \in Requests
  BY DEF FirstRequest, Requests, RequestsOn, PolicyActions, AutonomousActions, Readiness,
         OverallRisks, NoCap
<1>2. FirstRules \in Rules
  BY WalkAssumption DEF WalkAssumption, FirstRules, Nothing, Rules
<1>3. Templated \in Facts
  BY DEF Templated, Facts
<1>4. Scoped \in Facts /\ Foreseen \in Facts
  BY WalkAssumption, <1>3
  DEF WalkAssumption, Scoped, Foreseen, Facts, SensitiveAreas, ApprovalRoles
<1>5. Surprising \in Facts
  BY <1>4 DEF Surprising, Facts, SensitiveAreas
<1> QED
  BY <1>1, <1>2, <1>3, <1>4, <1>5

LEMMA WalkInit == Init => WalkInv
<1> SUFFICES ASSUME Init PROVE WalkInv
  OBVIOUS
<1>1. IsBundle(<<>>)
  <2>1. DOMAIN <<>> = {}
    OBVIOUS
  <2> QED
    BY <2>1, KindsFit DEF IsBundle
<1>2. {Code} \in SUBSET Files
  BY WalkAssumption DEF WalkAssumption
<1> QED
  BY <1>1, <1>2, FirstInputsFit, FirstSettingsFit DEF Init, WalkInv

LEMMA EditsOfRequest ==
  ASSUME request \in Requests, EditAction \/ EditRisk \/ EditApproval \/ EditSpend
  PROVE  request' \in Requests
<1> USE DEF Requests, RequestsOn, Ask
<1>1. CASE EditAction
  BY <1>1 DEF EditAction, PolicyActions, AutonomousActions, AdvisoryActions, ForbiddenActions
<1>2. CASE EditRisk
  BY <1>2 DEF EditRisk, SensitiveAreas, OverallRisks, Readiness
<1>3. CASE EditApproval
  BY <1>3 DEF EditApproval, ApprovalRoles
<1>4. CASE EditSpend
  BY <1>4 DEF EditSpend, NoCap
<1> QED
  BY <1>1, <1>2, <1>3, <1>4

LEMMA EditsOfRules ==
  ASSUME rules \in Rules, EditGlobs \/ EditSwitches
  PROVE  rules' \in Rules
<1> USE DEF Rules, Configure
<1>1. CASE EditGlobs
  BY <1>1, WalkAssumption
  DEF WalkAssumption, EditGlobs, Nothing, OnMigration, SensitiveAreas, ApprovalRoles
<1>2. CASE EditSwitches
  BY <1>2 DEF EditSwitches
<1> QED
  BY <1>1, <1>2

LEMMA WalkNext == WalkInv /\ [Next]_vars => WalkInv'
<1> SUFFICES ASSUME WalkInv, [Next]_vars PROVE WalkInv'
  OBVIOUS
<1>1. CASE UNCHANGED vars
  BY <1>1 DEF WalkInv, vars, settingsVars
<1>2. CASE EditAction \/ EditRisk \/ EditApproval \/ EditSpend
  <2>1. UNCHANGED <<rules, facts, files, base, bundle>>
    BY <1>2 DEF EditAction, EditRisk, EditApproval, EditSpend, Ask, settingsVars
  <2> QED
    BY <1>2, <2>1, EditsOfRequest DEF WalkInv
<1>3. CASE EditGlobs \/ EditSwitches
  <2>1. UNCHANGED <<request, facts, files, base, bundle>>
    BY <1>3 DEF EditGlobs, EditSwitches, Configure, settingsVars
  <2> QED
    BY <1>3, <2>1, EditsOfRules DEF WalkInv
<1>4. CASE EditRun
  BY <1>4, FirstInputsFit DEF EditRun, WalkInv, settingsVars
<1>5. CASE Push
  BY <1>5 DEF Push, WalkInv, settingsVars
<1>6. CASE EditBase
  BY <1>6, SettingsEdited DEF EditBase, WalkInv
<1>7. CASE EditBundle
  BY <1>7, BundleEdited DEF EditBundle, WalkInv
<1> QED
  BY <1>1, <1>2, <1>3, <1>4, <1>5, <1>6, <1>7 DEF Next

LEMMA WalkHolds == Spec => []WalkInv
BY WalkInit, WalkNext, PTL DEF Spec

\* foundry.rego and LocalPolicyEngine decide alike, whatever is asked of them
\* in turn (policy/engine.py).
THEOREM EnginesKeepAgreeing == Spec => []EnginesAgreeAlways
<1>1. WalkInv => EnginesAgreeAlways
  BY EnginesAgree DEF WalkInv, Requests, EnginesAgreeAlways
<1> QED
  BY <1>1, WalkHolds, PTL

\* The verdict stands for the file list in every event, whatever is configured
\* and pushed (_next_status_for_pr).
THEOREM VerdictsKeepSufficing == Spec => []VerdictSufficesAlways
<1>1. WalkInv => VerdictSufficesAlways
  BY VerdictsSuffice DEF WalkInv, VerdictSufficesAlways
<1> QED
  BY <1>1, WalkHolds, PTL

\* Knob by knob, a bundle only tightens the deployment it is put on, for every
\* run in sight (policy/overlay.py).
THEOREM BundlesKeepTightening == Spec => []BundlesOnlyTighten
<1>1. WalkInv => BundlesOnlyTighten
  BY BundlesTighten, RunsFit DEF WalkInv, BundlesOnlyTighten
<1> QED
  BY <1>1, WalkHolds, PTL

\* No edit that asks more of the gate turns a refusal into a permission
\* (LocalPolicyEngine.evaluate).
THEOREM EditsTightenTheGate == Spec => GateTightensByStep
<1> DEFINE tightens == GateOnlyTightens(request, request') /\ GateOnlyTightens(request', request)
<1>1. WalkInv /\ WalkInv' => [tightens]_vars
  BY GateTightens DEF WalkInv, Requests
<1>2. Spec => [][tightens]_vars
  BY <1>1, WalkHolds, PTL DEF Spec
<1> QED
  BY <1>2 DEF GateTightensByStep

\* No edit that only adds to the configuration releases a pull request
\* (_next_status_for_pr).
THEOREM EditsEscalate == Spec => RulesEscalateByStep
<1> DEFINE escalates ==
             \A s \in RunStatusesSeen :
               facts' = facts /\ files' = files =>
                 /\ RulesOnlyEscalate(s, rules, rules', facts, files)
                 /\ RulesOnlyEscalate(s, rules', rules, facts, files)
<1>1. WalkInv /\ WalkInv' => [escalates]_vars
  BY RulesEscalate DEF WalkInv
<1>2. Spec => [][escalates]_vars
  BY <1>1, WalkHolds, PTL DEF Spec
<1> QED
  BY <1>2 DEF RulesEscalateByStep

\* No push that only adds files, none of them a test, releases one
\* (_next_status_for_pr).
THEOREM PushesEscalate == Spec => MoreFilesEscalateByStep
<1> DEFINE escalates ==
             \A s \in RunStatusesSeen :
               rules' = rules /\ facts' = facts =>
                 MoreFilesOnlyEscalate(s, rules, facts, files, files')
<1>1. WalkInv /\ WalkInv' => [escalates]_vars
  BY MoreFilesEscalate DEF WalkInv
<1>2. Spec => [][escalates]_vars
  BY <1>1, WalkHolds, PTL DEF Spec
<1> QED
  BY <1>2 DEF MoreFilesEscalateByStep
=============================================================================
