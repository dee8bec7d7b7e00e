---------------------------- MODULE IntakeEngines ----------------------------
(****************************************************************************)
(* What intake makes of a ticket: the analysis (engines/analyzer.py,        *)
(* openai_analyzer.py), the repository (enrichment.py), the risk (risk.py,  *)
(* llm_risk.py), the plan (planner.py, llm_planner.py), and the gate's      *)
(* answer to them (intake_and_plan, orchestrator.py).  The engines are pure *)
(* functions; what moves is what they read: the ticket as it is edited, the *)
(* vocabulary an operator adds, the answers of the language model, and the  *)
(* repository catalogue as it ages.                                         *)
(*                                                                          *)
(* Text is a set of words, and a keyword is one of them.                    *)
(****************************************************************************)
EXTENDS PolicyGate, Sequences, FiniteSets, FiniteSetsExt

CONSTANTS
  FirstTickets,   \* tickets as they first come in
  TicketWords,    \* the words a ticket may use
  Repos,
  AreaWords,      \* _SENSITIVE_KEYWORDS: [SensitiveAreas -> SUBSET TicketWords]
  TypeWords,      \* _WORK_TYPE_KEYWORDS: a sequence of <<work type, words>>
  ReproWords,     \* _REPRODUCTION_HINTS
  ExtraWords,     \* risk.extra_sensitive_keywords it may be taught, by area
  CategoryWords,  \* keywords of the custom risk categories an operator may add
  CategoryRoles,  \* ... and the roles each demands
  ConfiguredWords,\* repo_keywords: [Repos -> SUBSET TicketWords]
  ConfiguredRoles,\* policy.repo_required_roles: [Repos -> SUBSET ApprovalRoles]
  PriorOf,        \* delivery-memory priors: [Repos -> 0..89], 0 for none
  CatalogWords,   \* a catalogue row's words: [Repos -> SUBSET TicketWords]
  CommonAbove,    \* 3: a word in more rows than this (and a quarter) says nothing
  MaxCatalogAge,  \* max_catalog_age_days
  ModelAnalyses,  \* what the model may make of the ticket, Unavailable among them
  ModelRisks,     \* its risk answers, likewise
  ModelPlans,     \* "steps", "no steps", or Unavailable
  Unavailable,    \* LLMError: no valid answer within max_attempts
  MaxEdits        \* bound on changes

Lengths == <<"empty", "short", "long">>   \* short: under 40 characters

Tickets ==
  [text : SUBSET TicketWords, comments : SUBSET TicketWords, criteria : BOOLEAN,
   length : DOMAIN Lengths, known : SUBSET Repos, linked : SUBSET Repos]

\* What the answers' schemas let through: the model cannot block a ticket
\* (LlmRiskOutput).
ASSUME EnginesAssumption ==
  /\ IsFiniteSet(Repos) /\ IsFiniteSet(TicketWords)
  /\ FirstTickets \subseteq Tickets
  /\ CategoryRoles \in [DOMAIN CategoryWords -> SUBSET ApprovalRoles]
  /\ ConfiguredRoles \in [Repos -> SUBSET ApprovalRoles]
  /\ \A r \in Repos : PriorOf[r] \in 0..89
  /\ {CommonAbove, MaxCatalogAge, MaxEdits} \subseteq Nat
  /\ Unavailable \in ModelAnalyses \cap ModelRisks \cap ModelPlans
  /\ \A x \in ModelAnalyses \ {Unavailable} :
       x.readiness \in Readiness /\ x.criteria \in BOOLEAN
  /\ \A x \in ModelRisks \ {Unavailable} :
       x.overall \in OverallRisks \ {"blocked"} /\ x.areas \subseteq SensitiveAreas

VARIABLES
  ticket,     \* [text, comments, criteria, length, known, linked]; length indexes
              \* Lengths
  operator,   \* extra_sensitive_keywords and the categories in force
  model,      \* the model's [analysis, risk, plan]
  catalogue,  \* [Repos -> [listed, behind, age]]: archived rows are not listed,
              \* behind is pushed_at > synced_at
  edits

engineVars == <<ticket, operator, model, catalogue, edits>>

\* REPO_CONFIDENCE_THRESHOLD, whatever the gate's own is configured to.
RepoConfidenceThreshold == 70

InitEngines ==
  /\ ticket \in FirstTickets
  /\ operator = [extra |-> [a \in SensitiveAreas |-> {}], categories |-> {}]
  /\ model = [analysis |-> Unavailable, risk |-> Unavailable, plan |-> Unavailable]
  /\ catalogue = [r \in Repos |-> [listed |-> TRUE, behind |-> FALSE, age |-> 0]]
  /\ edits = 0

----------------------------------------------------------------------------
(* Analysis.                                                                *)

\* text_blob reads the comments too, risk_blob does not.
TextBlob == ticket.text \cup ticket.comments
RiskBlob == ticket.text

\* _detect_work_type: the type with most hits, the earlier on a tie.
WorkTypeFound ==
  LET hits(i) == Cardinality(TypeWords[i][2] \cap TextBlob)
      found == {i \in DOMAIN TypeWords : hits(i) > 0}
      best == {i \in found : \A j \in found : hits(j) <= hits(i)}
  IN  IF found = {} THEN "feature" ELSE TypeWords[Min(best)][1]

\* HeuristicAnalyzer.analyse, missing_information.
MissingInformation ==
  {m \in {"criteria", "reproduction", "description"} :
     \/ m = "criteria" /\ ~ticket.criteria
     \/ m = "reproduction" /\ WorkTypeFound = "bug" /\ TextBlob \cap ReproWords = {}
     \/ m = "description" /\ Lengths[ticket.length] = "empty"}

\* _readiness.
HeuristicReadiness ==
  IF WorkTypeFound = "question" THEN "not_suitable"
  ELSE IF MissingInformation # {} THEN "needs_clarification"
  ELSE "ready"

\* OpenAITicketAnalyzer.analyse: the model's analysis, or the heuristic one.
AnalysisMade ==
  IF model.analysis # Unavailable THEN model.analysis
  ELSE [workType |-> WorkTypeFound, readiness |-> HeuristicReadiness,
        criteria |-> ticket.criteria]

\* is_ready_to_build.
ReadyToBuild == AnalysisMade.readiness = "ready" /\ AnalysisMade.criteria

----------------------------------------------------------------------------
(* Enrichment (CatalogContextEnricher.enrich).                              *)

Listed == {r \in Repos : catalogue[r].listed}

\* _is_stale; an age above the maximum is also a missing updated_at.
StaleRow(r) == catalogue[r].behind \/ catalogue[r].age > MaxCatalogAge

\* The query's words that say something: those few rows share.
TellingWords ==
  {w \in TextBlob :
     Cardinality({r \in Listed : w \in CatalogWords[r]})
       <= Max({CommonAbove, Cardinality(Listed) \div 4})}

\* _score_catalog: lexical confidence, held below the threshold when stale.
CatalogSignal(r) ==
  LET hits == Cardinality(TellingWords \cap CatalogWords[r])
  IN  IF r \notin Listed \/ hits = 0 THEN 0
      ELSE Min({50 + 10 * hits, 89} \cup (IF StaleRow(r) THEN {65} ELSE {}))

\* The configured keywords, capped at 95 here.
KeywordSignal(r) ==
  LET hits == Cardinality(TextBlob \cap ConfiguredWords[r])
  IN  IF hits = 0 THEN 0 ELSE Min({50 + 10 * hits, 95})

\* _apply_tier0.
TicketSignals(r) ==
  (IF r \in ticket.known THEN {90} ELSE {}) \cup (IF r \in ticket.linked THEN {85} ELSE {})

\* _consider keeps the highest; 0 when nothing points at the repository.
Confidence(r) ==
  Max({0, PriorOf[r], KeywordSignal(r), CatalogSignal(r)} \cup TicketSignals(r))

\* best_repository: any of the highest, ties go by position.
BestRepositories ==
  {r \in Repos : Confidence(r) > 0 /\ \A q \in Repos : Confidence(q) <= Confidence(r)}

ConfidentAt(threshold) == {r \in Repos : Confidence(r) >= threshold}
ConfidentRepositories == ConfidentAt(RepoConfidenceThreshold)

\* has_confident_repository: exactly one.
HasConfidentRepository == Cardinality(ConfidentRepositories) = 1

----------------------------------------------------------------------------
(* Risk.                                                                    *)

\* merge_sensitive_keywords, and the hits of HeuristicRiskClassifier.classify.
KeywordAreas ==
  {a \in SensitiveAreas : (AreaWords[a] \cup operator.extra[a]) \cap RiskBlob # {}}

\* _overall_risk.
OverallRiskOf(areas) ==
  IF ~HasConfidentRepository THEN "blocked"
  ELSE IF areas \ {"infrastructure"} # {} THEN "high"
  ELSE IF areas # {} THEN "medium"
  ELSE "low"

\* _required_approvals.
ApprovalsFor(areas) ==
  (IF areas \cap {"auth", "infrastructure"} # {} THEN {"engineering"} ELSE {})
  \cup (IF areas \cap {"customer_data", "pii", "payments"} # {} THEN {"security"} ELSE {})

RiskRank == [low |-> 0, medium |-> 1, high |-> 2, blocked |-> 3]
ModeRank == [draft_pr |-> 0, analysis_only |-> 1, human_only |-> 2]
HighestRisk(risks) == CHOOSE o \in risks : \A p \in risks : RiskRank[p] <= RiskRank[o]

\* _agent_mode.
ModeFor(overall) == IF overall \in {"blocked", "high"} THEN "human_only" ELSE "draft_pr"

\* HeuristicRiskClassifier.classify: the floor.
FloorRisk ==
  LET overall == OverallRiskOf(KeywordAreas)
  IN  [areas |-> KeywordAreas, overall |-> overall, mode |-> ModeFor(overall),
       approvals |-> ApprovalsFor(KeywordAreas)]

\* Slip: the model's word on the overall risk is final.
CombineTrusting(base, answer) ==
  LET areas == base.areas \cup answer.areas
  IN  [areas |-> areas, overall |-> answer.overall, mode |-> ModeFor(answer.overall),
       approvals |-> ApprovalsFor(areas) \cup base.approvals]

\* LlmRiskClassifier._combine: areas and roles united, risk and mode the highest.
Combine(base, answer) ==
  LET areas == base.areas \cup answer.areas
      overall == HighestRisk({OverallRiskOf(areas), answer.overall, base.overall})
      own == ModeFor(overall)
  IN  [areas |-> areas, overall |-> overall,
       mode |-> IF ModeRank[own] >= ModeRank[base.mode] THEN own ELSE base.mode,
       approvals |-> ApprovalsFor(areas) \cup base.approvals]

\* LlmRiskClassifier.classify.
RiskAssessed == IF model.risk = Unavailable THEN FloorRisk ELSE Combine(FloorRisk, model.risk)

\* _apply_custom_risk_categories.
CustomApprovals ==
  UNION {CategoryRoles[c] : c \in {k \in operator.categories :
                                     CategoryWords[k] \cap RiskBlob # {}}}

----------------------------------------------------------------------------
(* Plan and gate.                                                           *)

\* _policy_input of intake, for a risk assessment and a best repository.
GateRequest(risk, best) ==
  [action |-> "start_agent", readiness |-> AnalysisMade.readiness,
   overall |-> risk.overall, areas |-> risk.areas,
   confidence |-> Max({0} \cup {Confidence(r) : r \in best}),
   repoRoles |-> (UNION {ConfiguredRoles[r] : r \in best}) \cup CustomApprovals,
   approval |-> {}, approvalPresent |-> FALSE,
   attempt |-> 0, maxAttempts |-> 0, cost |-> 0, pending |-> 0, maxCost |-> NoCap]

\* The repository the request names: one of the best, none if there is none.
BestChoices == IF BestRepositories = {} THEN {{}} ELSE {{r} : r \in BestRepositories}

\* intake_and_plan asks again as if every required role had been granted.
WithApprovals(in) ==
  [in EXCEPT !.approval = RequiredApprovals(in.areas, in.repoRoles),
             !.approvalPresent = TRUE]

\* _post_plan_status.
PostPlanStatus(risk, best) ==
  IF ~ReadyToBuild THEN "needs_clarification"
  ELSE IF risk.overall = "blocked" THEN "blocked"
  ELSE IF ~Allowed(WithApprovals(GateRequest(risk, best))) THEN "blocked"
  ELSE "waiting_approval"

\* The mode the run advertises.
EffectiveMode(risk, best) ==
  LET in == GateRequest(risk, best)
  IN  IF Allowed(WithApprovals(in)) THEN AllowedMode(WithApprovals(in)) ELSE AllowedMode(in)

\* TemplatePlanner.plan: agent instructions only for a ticket that is ready and
\* a repository that is confidently meant.
Instructs == ReadyToBuild /\ HasConfidentRepository

\* LlmPlanner.plan: the model may only replace the steps of a plan that instructs
\* an agent; goal, scope and repository stay.
DeliveryPlanFor(best) ==
  [repos |-> best, instructs |-> Instructs,
   author |-> IF Instructs /\ model.plan = "steps" THEN "model" ELSE "template",
   degraded |-> Instructs /\ model.plan # "steps"]

----------------------------------------------------------------------------
(* What changes between two intakes of a ticket.                            *)

Edit(rest) == edits < MaxEdits /\ edits' = edits + 1 /\ UNCHANGED rest

AddText(w) ==
  /\ ticket' = [ticket EXCEPT !.text = @ \cup {w}]
  /\ Edit(<<operator, model, catalogue>>)

Comment(w) ==
  /\ ticket' = [ticket EXCEPT !.comments = @ \cup {w}]
  /\ Edit(<<operator, model, catalogue>>)

Describe ==
  /\ \/ /\ ticket.length < Len(Lengths)
        /\ ticket' = [ticket EXCEPT !.length = @ + 1]
     \/ /\ Lengths[ticket.length] # "empty"
        /\ ticket' = [ticket EXCEPT !.criteria = TRUE]
  /\ Edit(<<operator, model, catalogue>>)

Associate(r) ==
  /\ \/ ticket' = [ticket EXCEPT !.known = @ \cup {r}]
     \/ ticket' = [ticket EXCEPT !.linked = @ \cup {r}]
  /\ Edit(<<operator, model, catalogue>>)

\* An operator teaches the classifier a word or adds a category.
TeachWord(a, w) ==
  /\ operator' = [operator EXCEPT !.extra[a] = @ \cup {w}]
  /\ Edit(<<ticket, model, catalogue>>)

AddCategory(c) ==
  /\ operator' = [operator EXCEPT !.categories = @ \cup {c}]
  /\ Edit(<<ticket, model, catalogue>>)

ModelAnswers ==
  /\ \/ \E x \in ModelAnalyses : model' = [model EXCEPT !.analysis = x]
     \/ \E x \in ModelRisks : model' = [model EXCEPT !.risk = x]
     \/ \E x \in ModelPlans : model' = [model EXCEPT !.plan = x]
  /\ Edit(<<ticket, operator, catalogue>>)

\* A push the sync has not seen, and time without a sync.
RepoPushed(r) ==
  /\ catalogue' = [catalogue EXCEPT ![r].behind = TRUE]
  /\ Edit(<<ticket, operator, model>>)

CatalogueAges ==
  /\ catalogue' = [r \in Repos |->
                     [catalogue[r] EXCEPT !.age = Min({@ + 1, MaxCatalogAge + 1})]]
  /\ Edit(<<ticket, operator, model>>)

CatalogueSynced(r) ==
  /\ catalogue' = [catalogue EXCEPT ![r].behind = FALSE, ![r].age = 0]
  /\ Edit(<<ticket, operator, model>>)

Archived(r) ==
  /\ catalogue' = [catalogue EXCEPT ![r].listed = FALSE]
  /\ Edit(<<ticket, operator, model>>)

NextEngines ==
  \/ \E w \in TicketWords : AddText(w) \/ Comment(w)
  \/ Describe
  \/ \E r \in Repos : Associate(r) \/ RepoPushed(r) \/ CatalogueSynced(r) \/ Archived(r)
  \/ \E a \in SensitiveAreas : \E w \in ExtraWords[a] : TeachWord(a, w)
  \/ \E c \in DOMAIN CategoryWords : AddCategory(c)
  \/ ModelAnswers \/ CatalogueAges

EnginesTypeOK ==
  /\ ticket.text \cup ticket.comments \subseteq TicketWords
  /\ ticket.length \in DOMAIN Lengths
  /\ model \in [analysis : ModelAnalyses, risk : ModelRisks, plan : ModelPlans]
  /\ \A r \in Repos : catalogue[r].age \in 0..(MaxCatalogAge + 1) /\ Confidence(r) \in 0..100
  /\ \A best \in BestChoices : GateRequest(RiskAssessed, best) \in Requests

----------------------------------------------------------------------------
\* The model only adds to what the keywords found, and the two copies of the
\* role rules (the classifier's and the gate's) ask for the same approvals.
ModelOnlyAdds ==
  /\ \A best \in BestChoices :
       /\ DenyReasons(GateRequest(FloorRisk, best))
            \subseteq DenyReasons(GateRequest(RiskAssessed, best))
       /\ ModeRank[RiskAssessed.mode] <= ModeRank[EffectiveMode(RiskAssessed, best)]
  /\ ModeRank[FloorRisk.mode] <= ModeRank[RiskAssessed.mode]
  /\ RequiredApprovals(RiskAssessed.areas, {}) = RiskAssessed.approvals

\* A run that asks for approval has a plan an agent can be given, for the one
\* repository that is confidently meant.
ApprovableRunsAreBuildable ==
  \A best \in BestChoices :
    PostPlanStatus(RiskAssessed, best) = "waiting_approval" =>
      DeliveryPlanFor(best).instructs /\ DeliveryPlanFor(best).repos = ConfidentRepositories

\* A stale catalogue row never makes a repository confident by itself.
StaleRowsDecideNothing ==
  \A r \in ConfidentRepositories :
    \/ r \in Listed /\ ~StaleRow(r)
    \/ \E c \in TicketSignals(r) \cup {KeywordSignal(r), PriorOf[r]} :
         c >= RepoConfidenceThreshold

\* What an intake would decide now.
IntakeNow ==
  [analysis |-> AnalysisMade, best |-> BestChoices, confident |-> ConfidentRepositories,
   sure |-> ConfidentAt(ConfidenceThreshold),
   request |-> [best \in BestChoices |-> GateRequest(RiskAssessed, best)]]

\* More text, more vocabulary and more categories only add reasons to refuse,
\* as long as analysis and routing stay the same.
OnlyEscalates ==
  model' = model /\ catalogue' = catalogue =>
    \E now \in {IntakeNow}, next \in {IntakeNow'} :
      /\ next.analysis = now.analysis /\ next.best = now.best
      /\ next.confident = now.confident /\ next.sure = now.sure
      => \A best \in now.best :
           /\ DenyReasons(now.request[best]) \subseteq DenyReasons(next.request[best])
           /\ RiskRank[now.request[best].overall] <= RiskRank[next.request[best].overall]

\* A catalogue that only ages points nowhere more confidently than before.
AgeingNeverConvinces ==
  /\ ticket' = ticket /\ Listed' = Listed
  /\ \A r \in Repos : StaleRow(r) => StaleRow(r)'
  => \A r \in Repos : Confidence(r)' <= Confidence(r)
=============================================================================
