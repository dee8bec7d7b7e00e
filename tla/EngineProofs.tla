---------------------------- MODULE EngineProofs ----------------------------
(****************************************************************************)
(* The promises of the engines that decide before an agent starts: what     *)
(* they make of a ticket's words, the catalogue and a model's answers, what *)
(* routing and the scorecards make of the outcomes so far, and the sums of  *)
(* the operator's views.  Laid out as in ServiceProofs.  The sections on    *)
(* types say of all fifteen components what their variables can hold.      *)
(****************************************************************************)
EXTENDS ServiceProofs, FunctionTheorems

-----------------------------------------------------------------------------
(* IntakeEngines                                                             *)

AnyExtraWords == UNION {ExtraWords[a] : a \in SensitiveAreas}

CatalogueRows == [listed : BOOLEAN, behind : BOOLEAN, age : 0..(MaxCatalogAge + 1)]

EnginesInv ==
  /\ ticket \in Tickets
  /\ operator \in [extra : [SensitiveAreas -> SUBSET AnyExtraWords],
                   categories : SUBSET DOMAIN CategoryWords]
  /\ model \in [analysis : ModelAnalyses, risk : ModelRisks, plan : ModelPlans]
  /\ catalogue \in [Repos -> CatalogueRows]

LEMMA BoundedNumbersHaveAMax ==
  ASSUME NEW n \in Nat, NEW S \in SUBSET (0..n), S # {}
  PROVE  Max(S) \in S /\ \A x \in S : x <= Max(S)
<1> DEFINE above == {k \in Nat : \A x \in S : x <= k}
<1>1. above \in SUBSET Nat /\ n \in above
  OBVIOUS
<1>2. PICK m \in above : \A k \in above : m <= k
  <2> HIDE DEF above
  <2> QED
    BY <1>1, NumbersHaveAFirst
<1>3. m \in S
  <2> SUFFICES ASSUME m \notin S PROVE FALSE
    OBVIOUS
  <2>1. m \in Nat /\ \A x \in S : x \in Nat /\ x <= m /\ x # m
    BY <1>2
  <2>2. PICK x \in S : TRUE
    OBVIOUS
  <2>3. m - 1 \in Nat /\ \A y \in S : y <= m - 1
    BY <2>1, <2>2
  <2>4. m - 1 \in above
    BY <2>3
  <2>5. m <= m - 1
    BY <1>2, <2>4
  <2> QED
    BY <2>1, <2>5
<1>4. \A x \in S : x <= m
  BY <1>2
<1>5. \E x \in S : \A y \in S : x >= y
  BY <1>3, <1>4
<1> QED
  BY <1>5 DEF Max

LEMMA NumbersHaveAMin ==
  ASSUME NEW S \in SUBSET Nat, S # {}
  PROVE  Min(S) \in S /\ \A x \in S : Min(S) <= x
<1>1. PICK m \in S : \A x \in S : m <= x
  BY NumbersHaveAFirst
<1> QED
  BY <1>1 DEF Min

LEMMA EnginesInit == InitEngines => EnginesInv
BY EnginesAssumption DEF InitEngines, EnginesInv, Tickets, CatalogueRows

LEMMA EnginesNext == EnginesInv /\ [NextEngines]_engineVars => EnginesInv'
<1> SUFFICES ASSUME EnginesInv, [NextEngines]_engineVars PROVE EnginesInv'
  OBVIOUS
<1> USE DEF EnginesInv
<1>1. ASSUME NEW w \in TicketWords, AddText(w) \/ Comment(w) PROVE EnginesInv'
  BY <1>1 DEF AddText, Comment, Edit, Tickets
<1>2. ASSUME Describe PROVE EnginesInv'
  <2>1. DOMAIN Lengths = 1..3 /\ Len(Lengths) = 3
    BY DEF Lengths
  <2>2. ticket.length \in 1..3
    BY <2>1 DEF Tickets
  <2>3. ticket' \in Tickets
    <3>1. CASE ticket.length < 3 /\ ticket' = [ticket EXCEPT !.length = @ + 1]
      <4>1. ticket.length + 1 \in DOMAIN Lengths
        BY <2>1, <2>2, <3>1
      <4> QED
        BY <3>1, <4>1 DEF Tickets
    <3>2. CASE ticket' = [ticket EXCEPT !.criteria = TRUE]
      BY <3>2 DEF Tickets
    <3> QED
      BY <1>2, <2>1, <3>1, <3>2 DEF Describe
  <2> QED
    BY <1>2, <2>3 DEF Describe, Edit
<1>3. ASSUME NEW r \in Repos, Associate(r) PROVE EnginesInv'
  BY <1>3 DEF Associate, Edit, Tickets
<1>4. ASSUME NEW r \in Repos, RepoPushed(r) \/ CatalogueSynced(r) \/ Archived(r)
      PROVE  EnginesInv'
  <2>1. catalogue[r] \in CatalogueRows /\ 0 \in 0..(MaxCatalogAge + 1)
    BY EnginesAssumption
  <2>2. ASSUME NEW row \in CatalogueRows, catalogue' = [catalogue EXCEPT ![r] = row],
               UNCHANGED <<ticket, operator, model>>
        PROVE  EnginesInv'
    BY <2>2
  <2>3. CASE RepoPushed(r)
    <3>1. [catalogue[r] EXCEPT !.behind = TRUE] \in CatalogueRows
      BY <2>1 DEF CatalogueRows
    <3> QED
      BY <2>2, <2>3, <3>1 DEF RepoPushed, Edit
  <2>4. CASE CatalogueSynced(r)
    <3>1. [catalogue[r] EXCEPT !.behind = FALSE, !.age = 0] \in CatalogueRows
      BY <2>1 DEF CatalogueRows
    <3> QED
      BY <2>2, <2>4, <3>1 DEF CatalogueSynced, Edit
  <2>5. CASE Archived(r)
    <3>1. [catalogue[r] EXCEPT !.listed = FALSE] \in CatalogueRows
      BY <2>1 DEF CatalogueRows
    <3> QED
      BY <2>2, <2>5, <3>1 DEF Archived, Edit
  <2> QED
    BY <1>4, <2>3, <2>4, <2>5
<1>5. ASSUME NEW a \in SensitiveAreas, NEW w \in ExtraWords[a], TeachWord(a, w)
      PROVE  EnginesInv'
  <2>1. w \in AnyExtraWords
    BY DEF AnyExtraWords
  <2> QED
    BY <1>5, <2>1 DEF TeachWord, Edit
<1>6. ASSUME NEW c \in DOMAIN CategoryWords, AddCategory(c) PROVE EnginesInv'
  BY <1>6 DEF AddCategory, Edit
<1>7. ASSUME ModelAnswers PROVE EnginesInv'
  BY <1>7 DEF ModelAnswers, Edit
<1>8. ASSUME CatalogueAges PROVE EnginesInv'
  <2>1. ASSUME NEW r \in Repos
        PROVE  [catalogue[r] EXCEPT !.age = Min({@ + 1, MaxCatalogAge + 1})] \in CatalogueRows
    <3>1. catalogue[r] \in CatalogueRows /\ MaxCatalogAge \in Nat
      BY EnginesAssumption
    <3>2. {catalogue[r].age + 1, MaxCatalogAge + 1} \in SUBSET Nat
      BY <3>1 DEF CatalogueRows
    <3>3. Min({catalogue[r].age + 1, MaxCatalogAge + 1}) \in 0..(MaxCatalogAge + 1)
      <4> DEFINE S == {catalogue[r].age + 1, MaxCatalogAge + 1}
      <4>1. Min(S) \in S /\ \A x \in S : Min(S) <= x
        <5> HIDE DEF S
        <5> QED
          BY <3>2, NumbersHaveAMin DEF S
      <4> QED
        BY <3>1, <4>1 DEF CatalogueRows
    <3> QED
      BY <3>1, <3>3 DEF CatalogueRows
  <2> QED
    BY <1>8, <2>1 DEF CatalogueAges, Edit
<1>9. CASE UNCHANGED engineVars
  BY <1>9 DEF engineVars
<1> QED
  BY <1>1, <1>2, <1>3, <1>4, <1>5, <1>6, <1>7, <1>8, <1>9 DEF NextEngines

-----------------------------------------------------------------------------
(* What points at a repository.                                              *)

Signals(r) == {0, PriorOf[r], KeywordSignal(r), CatalogSignal(r)} \cup TicketSignals(r)

ConfidenceIsASignal ==
  \A r \in Repos :
    /\ Signals(r) \in SUBSET (0..95)
    /\ Confidence(r) \in Signals(r) /\ \A x \in Signals(r) : x <= Confidence(r)
    /\ StaleRow(r) => CatalogSignal(r) <= 65
    /\ r \notin Listed => CatalogSignal(r) = 0

LEMMA HitsAreCounted ==
  ASSUME EnginesInv, NEW W
  PROVE  /\ Cardinality(TextBlob \cap W) \in Nat
         /\ Cardinality(TellingWords \cap W) \in Nat
<1>1. IsFiniteSet(TextBlob)
  BY EnginesAssumption, FS_Subset DEF EnginesInv, Tickets, TextBlob
<1>2. TextBlob \cap W \in SUBSET TextBlob /\ TellingWords \cap W \in SUBSET TextBlob
  BY DEF TellingWords
<1>3. IsFiniteSet(TextBlob \cap W) /\ IsFiniteSet(TellingWords \cap W)
  BY <1>1, <1>2, FS_Subset
<1> QED
  BY <1>3, FS_CardinalityType

Points(hits, most, more) == Min({50 + 10 * hits, most} \cup more)

LEMMA PointsAreBounded ==
  ASSUME NEW hits \in Nat, NEW most \in Nat, NEW more \in SUBSET {65}
  PROVE  /\ Points(hits, most, more) \in 0..most
         /\ \A x \in more : Points(hits, most, more) <= x
<1> DEFINE S == {50 + 10 * hits, most} \cup more
<1>1. S \in SUBSET Nat /\ S # {} /\ most \in S /\ more \subseteq S
  OBVIOUS
<1>2. Points(hits, most, more) = Min(S)
  BY DEF Points
<1> HIDE DEF S
<1>3. Min(S) \in S /\ \A x \in S : Min(S) <= x
  BY <1>1, NumbersHaveAMin
<1>4. Min(S) \in Nat /\ Min(S) <= most
  BY <1>1, <1>3
<1>5. \A x \in more : Min(S) <= x
  BY <1>1, <1>3
<1> QED
  BY <1>2, <1>4, <1>5

LEMMA SignalsCount == EnginesInv => ConfidenceIsASignal
<1> SUFFICES ASSUME EnginesInv, NEW r \in Repos
             PROVE  /\ Signals(r) \in SUBSET (0..95)
                    /\ Confidence(r) \in Signals(r) /\ \A x \in Signals(r) : x <= Confidence(r)
                    /\ StaleRow(r) => CatalogSignal(r) <= 65
                    /\ r \notin Listed => CatalogSignal(r) = 0
  BY DEF ConfidenceIsASignal
<1>1. PriorOf[r] \in 0..95
  BY EnginesAssumption
<1>2. KeywordSignal(r) \in 0..95
  <2> DEFINE hits == Cardinality(TextBlob \cap ConfiguredWords[r])
  <2>1. hits \in Nat
    BY HitsAreCounted
  <2>2. CASE hits = 0
    BY <2>2 DEF KeywordSignal
  <2>3. CASE hits # 0
    <3>1. Points(hits, 95, {}) \in 0..95
      <4> HIDE DEF hits
      <4> QED
        BY <2>1, PointsAreBounded
    <3>2. Points(hits, 95, {}) = Min({50 + 10 * hits, 95})
      BY DEF Points
    <3> QED
      BY <2>3, <3>1, <3>2 DEF KeywordSignal
  <2> QED
    BY <2>2, <2>3
<1>3. /\ CatalogSignal(r) \in 0..95
      /\ StaleRow(r) => CatalogSignal(r) <= 65
      /\ r \notin Listed => CatalogSignal(r) = 0
  <2> DEFINE hits == Cardinality(TellingWords \cap CatalogWords[r])
             more == IF StaleRow(r) THEN {65} ELSE {}
  <2>1. hits \in Nat
    BY HitsAreCounted
  <2>2. CASE r \notin Listed \/ hits = 0
    BY <2>2 DEF CatalogSignal
  <2>3. CASE ~(r \notin Listed \/ hits = 0)
    <3>1. /\ Points(hits, 89, more) \in 0..89
          /\ \A x \in more : Points(hits, 89, more) <= x
      <4>1. more \in SUBSET {65}
        OBVIOUS
      <4> HIDE DEF hits, more
      <4> QED
        BY <2>1, <4>1, PointsAreBounded
    <3>2. CatalogSignal(r) = Points(hits, 89, more)
      BY <2>3 DEF CatalogSignal, Points
    <3>3. StaleRow(r) => 65 \in more
      OBVIOUS
    <3> QED
      BY <2>3, <3>1, <3>2, <3>3
  <2> QED
    BY <2>2, <2>3
<1>4. TicketSignals(r) \in SUBSET {85, 90}
  BY DEF TicketSignals
<1>5. Signals(r) \in SUBSET (0..95) /\ Signals(r) # {}
  BY <1>1, <1>2, <1>3, <1>4 DEF Signals
<1>6. Confidence(r) = Max(Signals(r))
  BY DEF Confidence, Signals
<1> QED
  BY <1>3, <1>5, <1>6, BoundedNumbersHaveAMax

LEMMA StaleIsBelow == EnginesInv => StaleRowsDecideNothing
<1> SUFFICES ASSUME EnginesInv, NEW r \in ConfidentRepositories,
                    ~(r \in Listed /\ ~StaleRow(r))
             PROVE  \E c \in TicketSignals(r) \cup {KeywordSignal(r), PriorOf[r]} :
                      c >= RepoConfidenceThreshold
  BY DEF StaleRowsDecideNothing
<1>1. r \in Repos /\ Confidence(r) >= 70
  BY DEF ConfidentRepositories, ConfidentAt, RepoConfidenceThreshold
<1>2. CatalogSignal(r) <= 65 /\ Confidence(r) \in Signals(r) /\ Signals(r) \in SUBSET (0..95)
  <2>1. CatalogSignal(r) = 0 \/ CatalogSignal(r) <= 65
    BY <1>1, SignalsCount DEF ConfidenceIsASignal
  <2> QED
    BY <1>1, <2>1, SignalsCount DEF ConfidenceIsASignal
<1>3. Confidence(r) # CatalogSignal(r) /\ Confidence(r) # 0
  BY <1>1, <1>2
<1>4. Confidence(r) \in TicketSignals(r) \cup {KeywordSignal(r), PriorOf[r]}
  BY <1>2, <1>3 DEF Signals
<1> QED
  BY <1>1, <1>4 DEF RepoConfidenceThreshold

\* If one repository is confidently meant, it is the one the plan is for.
LEMMA TheConfidentOneIsBest ==
  ASSUME EnginesInv, HasConfidentRepository
  PROVE  BestRepositories = ConfidentRepositories /\ BestChoices = {ConfidentRepositories}
<1>1. PICK c : ConfidentRepositories = {c}
  <2>1. IsFiniteSet(ConfidentRepositories)
    BY EnginesAssumption, FS_Subset DEF ConfidentRepositories, ConfidentAt
  <2> QED
    BY <2>1, FS_Singleton DEF HasConfidentRepository
<1>2. \A r \in Repos : Confidence(r) \in 0..95
  BY SignalsCount DEF ConfidenceIsASignal
<1>3. /\ c \in Repos /\ Confidence(c) >= 70
      /\ \A r \in Repos \ {c} : ~(Confidence(r) >= 70)
  BY <1>1 DEF ConfidentRepositories, ConfidentAt, RepoConfidenceThreshold
<1>4. Confidence(c) \in Nat /\ Confidence(c) > 0
  BY <1>2, <1>3
<1>5. \A r \in Repos \ {c} : Confidence(r) \in Nat /\ Confidence(r) < Confidence(c)
  BY <1>2, <1>3
<1>6. c \in BestRepositories
  BY <1>3, <1>4, <1>5 DEF BestRepositories
<1>7. \A r \in Repos \ {c} : r \notin BestRepositories
  BY <1>3, <1>4, <1>5 DEF BestRepositories
<1>8. BestRepositories = {c}
  BY <1>6, <1>7 DEF BestRepositories
<1> QED
  BY <1>1, <1>8 DEF BestChoices

LEMMA HighestIsHighest ==
  ASSUME NEW S \in SUBSET OverallRisks, S # {}
  PROVE  HighestRisk(S) \in S /\ \A p \in S : RiskRank[p] <= RiskRank[HighestRisk(S)]
<1>1. \E o \in S : \A p \in S : RiskRank[p] <= RiskRank[o]
  <2>1. /\ RiskRank["low"] = 0 /\ RiskRank["medium"] = 1 /\ RiskRank["high"] = 2
        /\ RiskRank["blocked"] = 3
    BY DEF RiskRank
  <2>2. CASE "blocked" \in S
    BY <2>1, <2>2 DEF OverallRisks
  <2>3. CASE "blocked" \notin S /\ "high" \in S
    BY <2>1, <2>3 DEF OverallRisks
  <2>4. CASE {"blocked", "high"} \cap S = {} /\ "medium" \in S
    BY <2>1, <2>4 DEF OverallRisks
  <2>5. CASE S = {"low"}
    BY <2>1, <2>5
  <2> QED
    BY <2>2, <2>3, <2>4, <2>5 DEF OverallRisks
<1> QED
  BY <1>1 DEF HighestRisk

\* What the model can say about the risk, and what comes of it.
RiskRanked(risk) ==
  /\ risk.areas \in SUBSET SensitiveAreas /\ risk.overall \in OverallRisks
  /\ risk.mode \in {"draft_pr", "human_only"}
  /\ risk.mode = "human_only" => risk.overall \in {"high", "blocked"}
  /\ risk.approvals = ApprovalsFor(risk.areas)

RiskOnlyAdded ==
  /\ RiskRanked(FloorRisk) /\ RiskRanked(RiskAssessed)
  /\ FloorRisk.areas \subseteq RiskAssessed.areas
  /\ RiskRank[FloorRisk.overall] <= RiskRank[RiskAssessed.overall]
  /\ ModeRank[FloorRisk.mode] <= ModeRank[RiskAssessed.mode]
  /\ RiskAssessed.overall # "blocked" => HasConfidentRepository

LEMMA RiskAdds == EnginesInv => RiskOnlyAdded
<1> SUFFICES ASSUME EnginesInv PROVE RiskOnlyAdded
  OBVIOUS
<1>1. /\ KeywordAreas \in SUBSET SensitiveAreas
      /\ \A areas : OverallRiskOf(areas) \in OverallRisks
      /\ \A areas : OverallRiskOf(areas) # "blocked" => HasConfidentRepository
  BY DEF KeywordAreas, OverallRiskOf, OverallRisks
<1>2. /\ FloorRisk.areas = KeywordAreas /\ FloorRisk.overall = OverallRiskOf(KeywordAreas)
      /\ FloorRisk.mode = ModeFor(OverallRiskOf(KeywordAreas))
      /\ FloorRisk.approvals = ApprovalsFor(KeywordAreas)
  BY DEF FloorRisk
<1>3. /\ RiskRank["low"] = 0 /\ RiskRank["medium"] = 1 /\ RiskRank["high"] = 2
      /\ RiskRank["blocked"] = 3
      /\ ModeRank["draft_pr"] = 0 /\ ModeRank["human_only"] = 2
  BY DEF RiskRank, ModeRank
<1>4. \A o \in OverallRisks :
        /\ ModeFor(o) \in {"draft_pr", "human_only"}
        /\ ModeFor(o) = "human_only" <=> o \in {"high", "blocked"}
  BY DEF ModeFor
<1>5. RiskRanked(FloorRisk)
  <2> DEFINE o == OverallRiskOf(KeywordAreas)
  <2>1. o \in OverallRisks
    BY <1>1
  <2> HIDE DEF o
  <2>2. ModeFor(o) \in {"draft_pr", "human_only"}
    BY <1>4, <2>1
  <2>3. ModeFor(o) = "human_only" => o \in {"high", "blocked"}
    BY <1>4, <2>1
  <2>4. FloorRisk.overall = o /\ FloorRisk.mode = ModeFor(o)
    BY <1>2 DEF o
  <2> QED
    BY <1>1, <1>2, <2>1, <2>2, <2>3, <2>4 DEF RiskRanked
<1>6. CASE model.risk = Unavailable
  <2>1. RiskAssessed = FloorRisk
    BY <1>6 DEF RiskAssessed
  <2>2. RiskRank[FloorRisk.overall] \in Nat /\ ModeRank[FloorRisk.mode] \in Nat
    BY <1>3, <1>5 DEF RiskRanked, OverallRisks
  <2> QED
    BY <1>1, <1>2, <1>5, <2>1, <2>2 DEF RiskOnlyAdded
<1>7. CASE model.risk # Unavailable
  <2> DEFINE areas == FloorRisk.areas \cup model.risk.areas
             choices == {OverallRiskOf(areas), model.risk.overall, FloorRisk.overall}
             overall == HighestRisk(choices)
  <2>1. model.risk.overall \in OverallRisks /\ model.risk.areas \in SUBSET SensitiveAreas
    BY <1>7, EnginesAssumption DEF EnginesInv
  <2>2. overall \in choices /\ \A p \in choices : RiskRank[p] <= RiskRank[overall]
    <3>1. choices \in SUBSET OverallRisks /\ choices # {}
      BY <1>1, <1>2, <2>1
    <3> HIDE DEF choices
    <3> QED
      BY <3>1, HighestIsHighest
  <2>3. /\ RiskAssessed.areas = areas /\ RiskAssessed.overall = overall
        /\ RiskAssessed.mode = IF ModeRank[ModeFor(overall)] >= ModeRank[FloorRisk.mode]
                               THEN ModeFor(overall) ELSE FloorRisk.mode
        /\ RiskAssessed.approvals = ApprovalsFor(areas) \cup FloorRisk.approvals
    BY <1>7 DEF RiskAssessed, Combine
  <2>4. areas \in SUBSET SensitiveAreas /\ overall \in OverallRisks
    BY <1>1, <1>2, <2>1, <2>2
  <2>5. RiskRank[FloorRisk.overall] <= RiskRank[overall]
    BY <2>2
  <2>6. overall # "blocked" => HasConfidentRepository
    <3>1. OverallRiskOf(areas) = "blocked" => RiskRank[overall] >= 3
      BY <1>3, <2>2
    <3>2. RiskRank[overall] >= 3 => overall = "blocked"
      BY <1>3, <2>4 DEF OverallRisks
    <3> QED
      BY <1>1, <3>1, <3>2
  <2>7. ApprovalsFor(areas) \cup FloorRisk.approvals = ApprovalsFor(areas)
    BY <1>2 DEF ApprovalsFor
  <2> HIDE DEF overall, areas
  <2>8. FloorRisk.mode = "human_only" => ModeFor(overall) = "human_only"
    <3>1. FloorRisk.mode = "human_only" => RiskRank[FloorRisk.overall] >= 2
      BY <1>3, <1>5 DEF RiskRanked
    <3>2. RiskRank[overall] >= 2 => overall \in {"high", "blocked"}
      BY <1>3, <2>4 DEF OverallRisks
    <3>3. RiskRank[FloorRisk.overall] \in Nat /\ RiskRank[overall] \in Nat
      BY <1>3, <1>5, <2>4 DEF RiskRanked, OverallRisks
    <3> QED
      BY <1>4, <2>4, <2>5, <3>1, <3>2, <3>3
  <2>a. ModeFor(overall) \in {"draft_pr", "human_only"}
    BY <1>4, <2>4
  <2>b. ModeFor(overall) = "human_only" => overall \in {"high", "blocked"}
    BY <1>4, <2>4
  <2>c. FloorRisk.mode \in {"draft_pr", "human_only"}
    BY <1>5 DEF RiskRanked
  <2>9. RiskAssessed.mode = ModeFor(overall)
    BY <1>3, <2>3, <2>8, <2>a, <2>c
  <2>10. ModeRank[FloorRisk.mode] <= ModeRank[RiskAssessed.mode]
    BY <1>3, <2>8, <2>9, <2>a, <2>c
  <2>11. RiskRanked(RiskAssessed)
    BY <2>3, <2>4, <2>7, <2>9, <2>a, <2>b DEF RiskRanked
  <2>12. FloorRisk.areas \subseteq RiskAssessed.areas
    BY <2>3 DEF areas
  <2> QED
    BY <1>5, <2>3, <2>5, <2>6, <2>10, <2>11, <2>12 DEF RiskOnlyAdded
<1> QED
  BY <1>6, <1>7

-----------------------------------------------------------------------------
(* What the gate says of it.                                                 *)

\* The second request asks for no more than the first, apart from its areas,
\* its risk and its roles.
Tighter(loose, strict) ==
  /\ loose.action = "start_agent" /\ strict.action = "start_agent"
  /\ strict.readiness = loose.readiness
  /\ loose.overall \in OverallRisks /\ strict.overall \in OverallRisks
  /\ RiskRank[loose.overall] <= RiskRank[strict.overall]
  /\ loose.areas \subseteq strict.areas /\ loose.repoRoles \subseteq strict.repoRoles
  /\ loose.confidence < ConfidenceThreshold => strict.confidence < ConfidenceThreshold
  /\ loose.approval = {} /\ strict.approval = {}
  /\ ~loose.approvalPresent /\ ~strict.approvalPresent
  /\ loose.maxCost = NoCap /\ strict.maxCost = NoCap

LEMMA TighterIsRefused ==
  ASSUME NEW loose, NEW strict, Tighter(loose, strict)
  PROVE  DenyReasons(loose) \subseteq DenyReasons(strict)
<1>1. loose.overall = "blocked" => strict.overall = "blocked"
  BY DEF Tighter, RiskRank, OverallRisks
<1>2. RequiredApprovals(loose.areas, loose.repoRoles) \ loose.approval
        \subseteq RequiredApprovals(strict.areas, strict.repoRoles) \ strict.approval
  BY DEF Tighter, RequiredApprovals
<1>3. ~OverBudget(loose) /\ ~OverBudget(strict)
  BY DEF Tighter, OverBudget
<1>4. AutonomousDenials(loose) \subseteq AutonomousDenials(strict)
  BY <1>1, <1>2, <1>3 DEF Tighter, AutonomousDenials
<1>5. /\ "start_agent" \in AutonomousActions
      /\ "start_agent" \notin ForbiddenActions /\ "start_agent" \notin AdvisoryActions
  BY DEF AutonomousActions, ForbiddenActions, AdvisoryActions
<1> QED
  BY <1>4, <1>5 DEF DenyReasons, Tighter

LEMMA RequestFields ==
  ASSUME NEW risk, NEW best
  PROVE  LET in == GateRequest(risk, best)
         IN  /\ in.action = "start_agent" /\ in.readiness = AnalysisMade.readiness
             /\ in.overall = risk.overall /\ in.areas = risk.areas
             /\ in.confidence = Max({0} \cup {Confidence(r) : r \in best})
             /\ in.repoRoles = (UNION {ConfiguredRoles[r] : r \in best}) \cup CustomApprovals
             /\ in.approval = {} /\ in.approvalPresent = FALSE /\ in.maxCost = NoCap
BY DEF GateRequest

\* Without an approval no request is allowed.
LEMMA NobodyApprovedYet ==
  ASSUME NEW risk, NEW best
  PROVE  ~Allowed(GateRequest(risk, best))
<1> DEFINE in == GateRequest(risk, best)
<1>1. in.action = "start_agent" /\ in.approvalPresent = FALSE
  BY RequestFields
<1>2. "no_approval" \in AutonomousDenials(in)
  BY <1>1 DEF AutonomousDenials
<1>3. /\ "start_agent" \in AutonomousActions
      /\ "start_agent" \notin ForbiddenActions /\ "start_agent" \notin AdvisoryActions
  BY DEF AutonomousActions, ForbiddenActions, AdvisoryActions
<1> QED
  BY <1>1, <1>2, <1>3 DEF Allowed, DenyReasons

LEMMA ModelAdds == EnginesInv => ModelOnlyAdds
<1> SUFFICES ASSUME EnginesInv PROVE ModelOnlyAdds
  OBVIOUS
<1>1. RiskOnlyAdded
  BY RiskAdds
<1>2. ASSUME NEW best \in BestChoices
      PROVE  DenyReasons(GateRequest(FloorRisk, best))
               \subseteq DenyReasons(GateRequest(RiskAssessed, best))
  <2> DEFINE loose == GateRequest(FloorRisk, best)
             strict == GateRequest(RiskAssessed, best)
  <2>1. /\ loose.overall = FloorRisk.overall /\ strict.overall = RiskAssessed.overall
        /\ loose.areas = FloorRisk.areas /\ strict.areas = RiskAssessed.areas
        /\ loose.confidence = strict.confidence /\ loose.repoRoles = strict.repoRoles
        /\ loose.readiness = strict.readiness
        /\ loose.action = "start_agent" /\ strict.action = "start_agent"
        /\ loose.approval = {} /\ strict.approval = {}
        /\ loose.approvalPresent = FALSE /\ strict.approvalPresent = FALSE
        /\ loose.maxCost = NoCap /\ strict.maxCost = NoCap
    BY DEF GateRequest
  <2> HIDE DEF loose, strict
  <2>2. Tighter(loose, strict)
    BY <1>1, <2>1 DEF Tighter, RiskOnlyAdded, RiskRanked
  <2>3. DenyReasons(loose) \subseteq DenyReasons(strict)
    BY <2>2, TighterIsRefused
  <2> QED
    BY <2>3 DEF loose, strict
<1>3. ASSUME NEW best \in BestChoices
      PROVE  ModeRank[RiskAssessed.mode] <= ModeRank[EffectiveMode(RiskAssessed, best)]
  <2> DEFINE in == GateRequest(RiskAssessed, best)
  <2>1. ModeRank["draft_pr"] = 0 /\ ModeRank["human_only"] = 2
    BY DEF ModeRank
  <2>2. RiskAssessed.mode \in {"draft_pr", "human_only"}
    BY <1>1 DEF RiskOnlyAdded, RiskRanked
  <2>3. WithApprovals(in).overall = RiskAssessed.overall
    BY DEF WithApprovals, GateRequest
  <2>4. AllowedMode(in) = "human_only"
    BY NobodyApprovedYet DEF AllowedMode
  <2>5. AllowedMode(WithApprovals(in)) \in {"draft_pr", "human_only"}
    BY DEF AllowedMode
  <2>6. RiskAssessed.mode = "human_only" => AllowedMode(WithApprovals(in)) = "human_only"
    BY <1>1, <2>3 DEF AllowedMode, RiskOnlyAdded, RiskRanked
  <2>7. EffectiveMode(RiskAssessed, best) \in {AllowedMode(in), AllowedMode(WithApprovals(in))}
    BY DEF EffectiveMode
  <2> QED
    BY <2>1, <2>2, <2>4, <2>5, <2>6, <2>7
<1>4. RequiredApprovals(RiskAssessed.areas, {}) = RiskAssessed.approvals
  BY <1>1 DEF RiskOnlyAdded, RiskRanked, RequiredApprovals, ApprovalsFor, ApprovalRoles
<1> QED
  BY <1>1, <1>2, <1>3, <1>4 DEF ModelOnlyAdds, RiskOnlyAdded

LEMMA ApprovableIsBuildable == EnginesInv => ApprovableRunsAreBuildable
<1> SUFFICES ASSUME EnginesInv, NEW best \in BestChoices,
                    PostPlanStatus(RiskAssessed, best) = "waiting_approval"
             PROVE  /\ DeliveryPlanFor(best).instructs
                    /\ DeliveryPlanFor(best).repos = ConfidentRepositories
  BY DEF ApprovableRunsAreBuildable
<1>1. ReadyToBuild /\ RiskAssessed.overall # "blocked"
  BY DEF PostPlanStatus
<1>2. HasConfidentRepository
  BY <1>1, RiskAdds DEF RiskOnlyAdded
<1>3. best = ConfidentRepositories
  BY <1>2, TheConfidentOneIsBest
<1> QED
  BY <1>1, <1>2, <1>3 DEF DeliveryPlanFor, Instructs

-----------------------------------------------------------------------------
(* What a step does to it.                                                   *)

\* Nothing is taken back.
Grew ==
  /\ ticket.text \subseteq ticket'.text
  /\ \A a \in SensitiveAreas : operator.extra[a] \subseteq operator'.extra[a]
  /\ operator.categories \subseteq operator'.categories

LEMMA WordsGrow == EnginesInv /\ [NextEngines]_engineVars => Grew
<1> SUFFICES ASSUME EnginesInv, [NextEngines]_engineVars PROVE Grew
  OBVIOUS
<1> USE DEF EnginesInv, Tickets
<1>1. ASSUME UNCHANGED <<ticket, operator>> PROVE Grew
  BY <1>1 DEF Grew
<1>2. ASSUME NEW w \in TicketWords, AddText(w) \/ Comment(w) PROVE Grew
  BY <1>2 DEF AddText, Comment, Edit, Grew
<1>3. ASSUME Describe PROVE Grew
  BY <1>3 DEF Describe, Edit, Grew
<1>4. ASSUME NEW r \in Repos, Associate(r) PROVE Grew
  BY <1>4 DEF Associate, Edit, Grew
<1>5. ASSUME NEW a \in SensitiveAreas, NEW w \in ExtraWords[a], TeachWord(a, w) PROVE Grew
  BY <1>5 DEF TeachWord, Edit, Grew
<1>6. ASSUME NEW c \in DOMAIN CategoryWords, AddCategory(c) PROVE Grew
  BY <1>6 DEF AddCategory, Edit, Grew
<1>7. ASSUME NEW r \in Repos, RepoPushed(r) \/ CatalogueSynced(r) \/ Archived(r) PROVE Grew
  BY <1>1, <1>7 DEF RepoPushed, CatalogueSynced, Archived, Edit
<1>8. ASSUME ModelAnswers \/ CatalogueAges PROVE Grew
  BY <1>1, <1>8 DEF ModelAnswers, CatalogueAges, Edit
<1>9. CASE UNCHANGED engineVars
  BY <1>1, <1>9 DEF engineVars
<1> QED
  BY <1>2, <1>3, <1>4, <1>5, <1>6, <1>7, <1>8, <1>9 DEF NextEngines

\* The overall risk, by the repositories that are confidently meant, the areas
\* of the keywords and the model's reply.
OverallFrom(confident, areas) ==
  IF Cardinality(confident) # 1 THEN "blocked"
  ELSE IF areas \ {"infrastructure"} # {} THEN "high"
  ELSE IF areas # {} THEN "medium"
  ELSE "low"

OverallChoices(confident, areas, reply) ==
  {OverallFrom(confident, areas \cup reply.areas), reply.overall, OverallFrom(confident, areas)}

OverallWith(confident, areas, reply) ==
  IF reply = Unavailable THEN OverallFrom(confident, areas)
  ELSE HighestRisk(OverallChoices(confident, areas, reply))

AreasWith(areas, reply) == IF reply = Unavailable THEN areas ELSE areas \cup reply.areas

RiskIsComposed ==
  /\ RiskAssessed.overall = OverallWith(ConfidentRepositories, KeywordAreas, model.risk)
  /\ RiskAssessed.areas = AreasWith(KeywordAreas, model.risk)

LEMMA RiskComposed == RiskIsComposed
<1>1. \A areas : OverallRiskOf(areas) = OverallFrom(ConfidentRepositories, areas)
  BY DEF OverallRiskOf, OverallFrom, HasConfidentRepository
<1>2. /\ FloorRisk.areas = KeywordAreas
      /\ FloorRisk.overall = OverallFrom(ConfidentRepositories, KeywordAreas)
  BY <1>1 DEF FloorRisk
<1>3. CASE model.risk = Unavailable
  BY <1>2, <1>3 DEF RiskIsComposed, RiskAssessed, OverallWith, AreasWith
<1>4. CASE model.risk # Unavailable
  <2>1. /\ RiskAssessed.areas = FloorRisk.areas \cup model.risk.areas
        /\ RiskAssessed.overall =
             HighestRisk({OverallRiskOf(FloorRisk.areas \cup model.risk.areas),
                          model.risk.overall, FloorRisk.overall})
    BY <1>4 DEF RiskAssessed, Combine
  <2> QED
    BY <1>1, <1>2, <1>4, <2>1 DEF RiskIsComposed, OverallWith, OverallChoices, AreasWith
<1> QED
  BY <1>3, <1>4

LEMMA OverallGrows ==
  ASSUME NEW confident, NEW few, NEW many, few \subseteq many,
         NEW reply, reply # Unavailable => reply.overall \in OverallRisks
  PROVE  /\ OverallWith(confident, few, reply) \in OverallRisks
         /\ OverallWith(confident, many, reply) \in OverallRisks
         /\ RiskRank[OverallWith(confident, few, reply)]
              <= RiskRank[OverallWith(confident, many, reply)]
<1>1. \A areas : OverallFrom(confident, areas) \in OverallRisks
  BY DEF OverallFrom, OverallRisks
<1>2. ASSUME NEW fewer, NEW more, fewer \subseteq more
      PROVE  RiskRank[OverallFrom(confident, fewer)] <= RiskRank[OverallFrom(confident, more)]
  BY <1>2 DEF OverallFrom, RiskRank
<1>3. CASE reply = Unavailable
  BY <1>1, <1>2, <1>3 DEF OverallWith
<1>4. CASE reply # Unavailable
  <2> DEFINE before == OverallChoices(confident, few, reply)
             after == OverallChoices(confident, many, reply)
  <2>1. before \in SUBSET OverallRisks /\ before # {} /\ after \in SUBSET OverallRisks
        /\ after # {}
    BY <1>1, <1>4 DEF OverallChoices
  <2>2. \A o \in OverallRisks : RiskRank[o] \in Nat
    BY DEF OverallRisks, RiskRank
  <2>3. \A o \in before : \E p \in after : RiskRank[o] <= RiskRank[p]
    <3>1. few \cup reply.areas \subseteq many \cup reply.areas
      OBVIOUS
    <3>2. RiskRank[OverallFrom(confident, few \cup reply.areas)]
            <= RiskRank[OverallFrom(confident, many \cup reply.areas)]
      BY <1>2, <3>1
    <3>3. RiskRank[OverallFrom(confident, few)] <= RiskRank[OverallFrom(confident, many)]
      BY <1>2
    <3>4. RiskRank[reply.overall] <= RiskRank[reply.overall]
      BY <1>4, <2>2
    <3> QED
      BY <3>2, <3>3, <3>4 DEF OverallChoices
  <2> HIDE DEF before, after
  <2>4. /\ HighestRisk(before) \in before
        /\ HighestRisk(after) \in after
        /\ \A p \in after : RiskRank[p] <= RiskRank[HighestRisk(after)]
    BY <2>1, HighestIsHighest
  <2>5. PICK p \in after : RiskRank[HighestRisk(before)] <= RiskRank[p]
    BY <2>3, <2>4
  <2>6. RiskRank[HighestRisk(before)] <= RiskRank[HighestRisk(after)]
    BY <2>1, <2>2, <2>4, <2>5
  <2> QED
    BY <1>4, <2>1, <2>4, <2>6 DEF OverallWith, before, after
<1> QED
  BY <1>3, <1>4

\* The gate's threshold and the repositories above it.
SureIsConfident ==
  \A best \in BestChoices :
    /\ Max({0} \cup {Confidence(r) : r \in best}) \in 0..95
    /\ ConfidenceThreshold > 0 =>
         ((Max({0} \cup {Confidence(r) : r \in best}) < ConfidenceThreshold)
            <=> (best \cap ConfidentAt(ConfidenceThreshold) = {}))

LEMMA SureConfident == EnginesInv => SureIsConfident
<1> SUFFICES ASSUME EnginesInv, NEW best \in BestChoices
             PROVE  /\ Max({0} \cup {Confidence(r) : r \in best}) \in 0..95
                    /\ ConfidenceThreshold > 0 =>
                         ((Max({0} \cup {Confidence(r) : r \in best}) < ConfidenceThreshold)
                            <=> (best \cap ConfidentAt(ConfidenceThreshold) = {}))
  BY DEF SureIsConfident
<1>1. ConfidenceThreshold \in Nat
  BY ThresholdAssumption
<1>2. CASE best = {}
  <2>1. {0} \cup {Confidence(r) : r \in best} = {0}
    BY <1>2
  <2>2. Max({0}) = 0
    BY DEF Max
  <2> QED
    BY <1>1, <1>2, <2>1, <2>2
<1>3. CASE \E r \in Repos : best = {r}
  <2>1. PICK r \in Repos : best = {r}
    BY <1>3
  <2>2. {0} \cup {Confidence(q) : q \in best} = {0, Confidence(r)}
    BY <2>1
  <2>3. Confidence(r) \in 0..95
    BY SignalsCount DEF ConfidenceIsASignal
  <2>4. Max({0, Confidence(r)}) = Confidence(r)
    <3> DEFINE S == {0, Confidence(r)}
    <3>1. S \in SUBSET (0..95) /\ S # {}
      BY <2>3
    <3>2. Max(S) \in S /\ \A x \in S : x <= Max(S)
      <4> HIDE DEF S
      <4> QED
        BY <3>1, BoundedNumbersHaveAMax
    <3> QED
      BY <2>3, <3>2
  <2> QED
    BY <1>1, <2>1, <2>2, <2>3, <2>4 DEF ConfidentAt
<1> QED
  BY <1>2, <1>3 DEF BestChoices, BestRepositories

LEMMA MoreWordsEscalate == EnginesInv /\ EnginesInv' /\ Grew => OnlyEscalates
<1> SUFFICES ASSUME EnginesInv, EnginesInv', Grew, model' = model, catalogue' = catalogue,
                    AnalysisMade' = AnalysisMade, BestChoices' = BestChoices,
                    ConfidentRepositories' = ConfidentRepositories,
                    ConfidentAt(ConfidenceThreshold)' = ConfidentAt(ConfidenceThreshold),
                    NEW best \in BestChoices
             PROVE  /\ DenyReasons(GateRequest(RiskAssessed, best))
                         \subseteq DenyReasons(GateRequest(RiskAssessed, best)')
                    /\ RiskRank[GateRequest(RiskAssessed, best).overall]
                         <= RiskRank[GateRequest(RiskAssessed, best)'.overall]
  BY DEF OnlyEscalates, IntakeNow
<1> DEFINE loose == GateRequest(RiskAssessed, best)
           strict == GateRequest(RiskAssessed, best)'
<1>1. /\ loose.overall = RiskAssessed.overall /\ strict.overall = RiskAssessed'.overall
      /\ loose.areas = RiskAssessed.areas /\ strict.areas = RiskAssessed'.areas
      /\ loose.confidence = Max({0} \cup {Confidence(r) : r \in best})
      /\ strict.confidence = Max({0} \cup {Confidence(r)' : r \in best})
      /\ loose.repoRoles = (UNION {ConfiguredRoles[r] : r \in best}) \cup CustomApprovals
      /\ strict.repoRoles = (UNION {ConfiguredRoles[r] : r \in best}) \cup CustomApprovals'
      /\ loose.readiness = AnalysisMade.readiness /\ strict.readiness = AnalysisMade'.readiness
      /\ loose.action = "start_agent" /\ strict.action = "start_agent"
      /\ loose.approval = {} /\ strict.approval = {}
      /\ loose.approvalPresent = FALSE /\ strict.approvalPresent = FALSE
      /\ loose.maxCost = NoCap /\ strict.maxCost = NoCap
  BY DEF GateRequest
<1>2. KeywordAreas \subseteq KeywordAreas'
  BY DEF Grew, KeywordAreas, RiskBlob
<1>3. CustomApprovals \subseteq CustomApprovals'
  BY DEF Grew, CustomApprovals, RiskBlob
<1>4. RiskIsComposed /\ RiskIsComposed'
  BY RiskComposed, PTL
<1>5. model.risk # Unavailable => model.risk.overall \in OverallRisks
  BY EnginesAssumption DEF EnginesInv
<1>6. /\ RiskAssessed.overall \in OverallRisks /\ RiskAssessed'.overall \in OverallRisks
      /\ RiskRank[RiskAssessed.overall] <= RiskRank[RiskAssessed'.overall]
  BY <1>2, <1>4, <1>5, OverallGrows DEF RiskIsComposed
<1>7. RiskAssessed.areas \subseteq RiskAssessed'.areas
  BY <1>2, <1>4 DEF RiskIsComposed, AreasWith
<1>8. loose.confidence < ConfidenceThreshold => strict.confidence < ConfidenceThreshold
  <2>1. SureIsConfident /\ SureIsConfident'
    BY SureConfident, PTL
  <2>2. loose.confidence \in Nat /\ ConfidenceThreshold \in Nat
    BY <1>1, <2>1, ThresholdAssumption DEF SureIsConfident
  <2> HIDE DEF loose, strict
  <2>3. ConfidenceThreshold > 0 =>
          ((loose.confidence < ConfidenceThreshold)
             <=> (best \cap ConfidentAt(ConfidenceThreshold) = {}))
    BY <1>1, <2>1 DEF SureIsConfident
  <2>4. ConfidenceThreshold > 0 =>
          ((strict.confidence < ConfidenceThreshold)
             <=> (best \cap ConfidentAt(ConfidenceThreshold) = {}))
    BY <1>1, <2>1 DEF SureIsConfident
  <2> QED
    BY <2>2, <2>3, <2>4
<1> HIDE DEF loose, strict
<1>9. Tighter(loose, strict)
  BY <1>1, <1>3, <1>6, <1>7, <1>8 DEF Tighter
<1>10. DenyReasons(loose) \subseteq DenyReasons(strict)
  BY <1>9, TighterIsRefused
<1> QED
  BY <1>1, <1>6, <1>10 DEF loose, strict

LEMMA AgedIsNoSurer == EnginesInv /\ EnginesInv' => AgeingNeverConvinces
<1> SUFFICES ASSUME EnginesInv, EnginesInv', ticket' = ticket, Listed' = Listed,
                    \A r \in Repos : StaleRow(r) => StaleRow(r)',
                    NEW r \in Repos
             PROVE  Confidence(r)' <= Confidence(r)
  BY DEF AgeingNeverConvinces
<1>1. ConfidenceIsASignal /\ ConfidenceIsASignal'
  BY SignalsCount, PTL
<1>2. TextBlob' = TextBlob /\ TellingWords' = TellingWords
  BY DEF TextBlob, TellingWords
<1>3. KeywordSignal(r)' = KeywordSignal(r) /\ TicketSignals(r)' = TicketSignals(r)
  BY <1>2 DEF KeywordSignal, TicketSignals
<1>4. CatalogSignal(r)' <= CatalogSignal(r)
  <2> DEFINE hits == Cardinality(TellingWords \cap CatalogWords[r])
             now == IF StaleRow(r) THEN {65} ELSE {}
             next == IF StaleRow(r)' THEN {65} ELSE {}
  <2>1. hits \in Nat
    BY HitsAreCounted
  <2>2. CASE r \notin Listed \/ hits = 0
    BY <1>2, <2>2 DEF CatalogSignal
  <2>3. CASE ~(r \notin Listed \/ hits = 0)
    <3>1. /\ CatalogSignal(r) = Min({50 + 10 * hits, 89} \cup now)
          /\ CatalogSignal(r)' = Min({50 + 10 * hits, 89} \cup next)
      BY <1>2, <2>3 DEF CatalogSignal
    <3>2. now \subseteq next /\ next \subseteq {65}
      OBVIOUS
    <3> HIDE DEF hits, now, next
    <3> DEFINE S == {50 + 10 * hits, 89} \cup now
               T == {50 + 10 * hits, 89} \cup next
    <3>3. S \in SUBSET Nat /\ S # {} /\ T \in SUBSET Nat /\ T # {} /\ S \subseteq T
      BY <2>1, <3>2
    <3> HIDE DEF S, T
    <3>4. Min(S) \in S /\ \A x \in T : Min(T) <= x
      BY <3>3, NumbersHaveAMin
    <3> QED
      BY <3>1, <3>3, <3>4 DEF S, T
  <2> QED
    BY <2>2, <2>3
<1>5. ASSUME NEW x \in Signals(r)' PROVE x <= Confidence(r)
  <2>1. \A y \in Signals(r) : y <= Confidence(r)
    BY <1>1 DEF ConfidenceIsASignal
  <2>2. CASE x = CatalogSignal(r)'
    <3>1. CatalogSignal(r) <= Confidence(r)
      BY <2>1 DEF Signals
    <3>2. /\ Signals(r) \in SUBSET (0..95) /\ Signals(r)' \in SUBSET (0..95)
          /\ Confidence(r) \in Signals(r)
      BY <1>1 DEF ConfidenceIsASignal
    <3>3. CatalogSignal(r) \in Nat /\ CatalogSignal(r)' \in Nat /\ Confidence(r) \in Nat
      BY <3>2 DEF Signals
    <3> QED
      BY <1>4, <2>2, <3>1, <3>3
  <2>3. CASE x # CatalogSignal(r)'
    <3>1. x \in Signals(r)
      BY <1>3, <2>3 DEF Signals
    <3> QED
      BY <2>1, <3>1
  <2> QED
    BY <2>2, <2>3
<1>6. Confidence(r)' \in Signals(r)'
  BY <1>1 DEF ConfidenceIsASignal
<1> QED
  BY <1>5, <1>6

-----------------------------------------------------------------------------
(* The engines' promises.                                                    *)

EnginesSpec == InitEngines /\ [][NextEngines]_engineVars

\* Whatever a ticket says, an operator adds, a model answers and the catalogue
\* has become: the model only adds to the keywords' floor (llm_risk.py), a run
\* that asks for approval can be built, and a stale row decides nothing
\* (enrichment.py).
THEOREM EnginesAddRiskOnly ==
  EnginesSpec => [](ModelOnlyAdds /\ ApprovableRunsAreBuildable /\ StaleRowsDecideNothing)
<1>1. EnginesInv => ModelOnlyAdds /\ ApprovableRunsAreBuildable /\ StaleRowsDecideNothing
  BY ModelAdds, ApprovableIsBuildable, StaleIsBelow
<1> QED
  BY <1>1, EnginesInit, EnginesNext, PTL DEF EnginesSpec

\* Text, vocabulary and categories that are added give the gate more reasons to
\* refuse, never fewer; rows that age give no repository more confidence.
THEOREM WordsEscalate ==
  EnginesSpec => [][OnlyEscalates /\ AgeingNeverConvinces]_engineVars
<1>1. EnginesInv /\ EnginesInv' /\ [NextEngines]_engineVars
        => OnlyEscalates /\ AgeingNeverConvinces
  BY WordsGrow, MoreWordsEscalate, AgedIsNoSurer
<1> QED
  BY <1>1, EnginesInit, EnginesNext, PTL DEF EnginesSpec

LEMMA EnginesAlone == ServicesSpec => EnginesSpec
<1>1. [NextServices]_servicesVars => [NextEngines]_engineVars
  BY DEF NextServices, servicesVars, OthersStay, Still
<1> QED
  BY <1>1, PTL DEF ServicesSpec, InitServices, EnginesSpec

\* Both, of the specification that runs every component.
THEOREM EnginesAreKept == ServicesSpec => EnginesHold
<1> DEFINE adds == ModelOnlyAdds /\ ApprovableRunsAreBuildable /\ StaleRowsDecideNothing
           kept == focus = "engines" => adds
           step == OnlyEscalates /\ AgeingNeverConvinces
           escalates == focus = "engines" => step
<1>1. ServicesSpec => []adds /\ [][step]_engineVars
  BY EnginesAlone, EnginesAddRiskOnly, WordsEscalate, PTL
<1>2. adds => kept
  OBVIOUS
<1>3. [step]_engineVars => [escalates]_engineVars
  OBVIOUS
<1>4. ServicesSpec => []kept /\ [][escalates]_engineVars
  BY <1>1, <1>2, <1>3, PTL
<1> QED
  BY <1>4 DEF EnginesHold

-----------------------------------------------------------------------------
(* Sums                                                                      *)

LEMMA FiniteSetsHaveAMinimal ==
  ASSUME NEW D, IsFiniteSet(D), NEW parts \in SUBSET (SUBSET D), parts # {}
  PROVE  \E m \in parts : \A x \in m : m \ {x} \notin parts
<1> DEFINE before == StrictSubsetOrdering(D)
           finite == FiniteSubsetsOf(D)
<1>1. IsWellFoundedOn(before, finite)
  BY FS_StrictSubsetOrderingWellFounded
<1>2. parts \subseteq finite
  BY FS_Subset DEF FiniteSubsetsOf
<1>3. PICK m \in parts : \A s \in parts : <<s, m>> \notin before
  <2> HIDE DEF before, finite
  <2> QED
    BY <1>1, <1>2, WFMin
<1>4. ASSUME NEW x \in m, m \ {x} \in parts PROVE FALSE
  <2>1. <<m \ {x}, m>> \in before
    BY <1>4 DEF StrictSubsetOrdering
  <2> QED
    BY <1>3, <1>4, <2>1
<1> QED
  BY <1>4

\* g tells the sum of f over each part of D.
SumsOf(f, D, g) ==
  /\ g \in [SUBSET D -> Int]
  /\ g[{}] = 0
  /\ \A s \in SUBSET D : \A x \in s : g[s] = f[x] + g[s \ {x}]

Picked(s) == CHOOSE x \in s : TRUE

SumSteps(f, g) ==
  [s \in SUBSET DOMAIN f |-> IF s = {} THEN 0 ELSE f[Picked(s)] + g[s \ {Picked(s)}]]

LEMMA SumUnfolds ==
  ASSUME NEW f
  PROVE  SumFunction(f) = (CHOOSE g : g = SumSteps(f, g))[DOMAIN f]
BY Zenon DEF SumFunction, SumFunctionOnSet, FoldFunctionOnSet, MapThenFoldSet, SumSteps, Picked

LEMMA SumIs ==
  ASSUME NEW D, IsFiniteSet(D), NEW f \in [D -> Int], NEW g, SumsOf(f, D, g)
  PROVE  SumFunction(f) = g[D]
<1>0. DOMAIN f = D
  OBVIOUS
<1>1. \A s \in SUBSET D : s # {} => Picked(s) \in s
  BY DEF Picked
<1>2. g = SumSteps(f, g)
  <2>1. ASSUME NEW s \in SUBSET D
        PROVE  g[s] = IF s = {} THEN 0 ELSE f[Picked(s)] + g[s \ {Picked(s)}]
    BY <1>1 DEF SumsOf
  <2>2. g = [s \in SUBSET D |-> g[s]]
    BY DEF SumsOf
  <2> QED
    BY <1>0, <2>1, <2>2 DEF SumSteps
<1> DEFINE h == CHOOSE k : k = SumSteps(f, k)
<1>3. h = SumSteps(f, h)
  BY <1>2
<1> HIDE DEF h
<1>4. ASSUME NEW s \in SUBSET D
      PROVE  h[s] = IF s = {} THEN 0 ELSE f[Picked(s)] + h[s \ {Picked(s)}]
  <2>1. SumSteps(f, h)[s] = IF s = {} THEN 0 ELSE f[Picked(s)] + h[s \ {Picked(s)}]
    BY <1>0 DEF SumSteps
  <2> QED
    BY <1>3, <2>1
<1> DEFINE wrong == {s \in SUBSET D : h[s] # g[s]}
<1>5. wrong = {}
  <2> SUFFICES ASSUME wrong # {} PROVE FALSE
    OBVIOUS
  <2>1. PICK m \in wrong : \A x \in m : m \ {x} \notin wrong
    <3>1. wrong \in SUBSET (SUBSET D)
      OBVIOUS
    <3> HIDE DEF wrong
    <3> QED
      BY <3>1, FiniteSetsHaveAMinimal
  <2>2. CASE m = {}
    BY <1>4, <2>2 DEF SumsOf
  <2>3. CASE m # {}
    <3>1. Picked(m) \in m
      BY <1>1, <2>3
    <3>2. h[m \ {Picked(m)}] = g[m \ {Picked(m)}]
      BY <2>1, <3>1
    <3>3. h[m] = f[Picked(m)] + h[m \ {Picked(m)}]
      BY <1>4, <2>3
    <3>4. g[m] = f[Picked(m)] + g[m \ {Picked(m)}]
      BY <3>1 DEF SumsOf
    <3> QED
      BY <3>2, <3>3, <3>4
  <2> QED
    BY <2>2, <2>3
<1>6. D \in SUBSET D
  OBVIOUS
<1>7. h[D] = g[D]
  BY <1>5, <1>6
<1> QED
  BY <1>0, <1>7, SumUnfolds DEF h

LEMMA SumsExist ==
  ASSUME NEW D, IsFiniteSet(D), NEW f \in [D -> Int]
  PROVE  \E g : SumsOf(f, D, g)
<1> DEFINE bare == {s \in SUBSET D : ~\E g : SumsOf(f, s, g)}
<1>1. bare = {}
  <2> SUFFICES ASSUME bare # {} PROVE FALSE
    OBVIOUS
  <2>1. PICK m \in bare : \A x \in m : m \ {x} \notin bare
    <3>1. bare \in SUBSET (SUBSET D)
      OBVIOUS
    <3> HIDE DEF bare
    <3> QED
      BY <3>1, FiniteSetsHaveAMinimal
  <2>2. CASE m = {}
    <3>1. SumsOf(f, {}, [s \in SUBSET {} |-> 0])
      BY DEF SumsOf
    <3> QED
      BY <2>1, <2>2, <3>1
  <2>3. ASSUME NEW x \in m PROVE FALSE
    <3> DEFINE rest == m \ {x}
    <3>1. PICK g : SumsOf(f, rest, g)
      BY <2>1, <2>3
    <3> DEFINE k == [s \in SUBSET m |-> IF x \in s THEN f[x] + g[s \ {x}] ELSE g[s]]
    <3>2. \A s \in SUBSET m : s \ {x} \in SUBSET rest /\ (x \notin s => s \in SUBSET rest)
      OBVIOUS
    <3>3. f[x] \in Int /\ \A s \in SUBSET rest : g[s] \in Int
      BY <3>1 DEF SumsOf
    <3>4. k \in [SUBSET m -> Int]
      BY <3>2, <3>3
    <3>5. k[{}] = 0
      BY <3>1 DEF SumsOf
    <3>6. ASSUME NEW s \in SUBSET m, NEW y \in s PROVE k[s] = f[y] + k[s \ {y}]
      <4>0. f[y] \in Int /\ s \ {y} \in SUBSET m
        OBVIOUS
      <4>1. CASE y = x
        <5>1. k[s] = f[x] + g[s \ {x}] /\ k[s \ {x}] = g[s \ {x}]
          BY <3>6, <4>1
        <5> QED
          BY <4>1, <5>1
      <4>2. CASE y # x /\ x \in s
        <5>1. y \in s \ {x} /\ s \ {x} \in SUBSET rest
          BY <3>2, <3>6, <4>2
        <5>2. g[s \ {x}] = f[y] + g[(s \ {x}) \ {y}]
          BY <3>1, <5>1 DEF SumsOf
        <5>3. (s \ {x}) \ {y} = (s \ {y}) \ {x} /\ (s \ {x}) \ {y} \in SUBSET rest
          OBVIOUS
        <5>4. k[s] = f[x] + g[s \ {x}] /\ k[s \ {y}] = f[x] + g[(s \ {y}) \ {x}]
          BY <4>0, <4>2
        <5> DEFINE both == (s \ {x}) \ {y}
        <5>5. g[both] \in Int /\ g[s \ {x}] = f[y] + g[both]
          BY <3>3, <5>2, <5>3
        <5>6. k[s] = f[x] + g[s \ {x}] /\ k[s \ {y}] = f[x] + g[both]
          BY <5>3, <5>4, Zenon
        <5> HIDE DEF k, both
        <5> QED
          BY <3>3, <4>0, <5>5, <5>6
      <4>3. CASE x \notin s
        <5>1. s \in SUBSET rest
          BY <3>2, <4>3
        <5>2. g[s] = f[y] + g[s \ {y}]
          BY <3>1, <5>1 DEF SumsOf
        <5>3. k[s] = g[s] /\ k[s \ {y}] = g[s \ {y}]
          BY <4>3
        <5> QED
          BY <5>2, <5>3
      <4> QED
        BY <4>1, <4>2, <4>3
    <3>7. SumsOf(f, m, k)
      <4> HIDE DEF k
      <4> QED
        BY <3>4, <3>5, <3>6 DEF SumsOf
    <3> QED
      BY <2>1, <3>7
  <2> QED
    BY <2>2, <2>3
<1> QED
  BY <1>1

\* The sum over each part of the domain, and of all of it.
LEMMA SumsAdd ==
  ASSUME NEW D, IsFiniteSet(D), NEW f \in [D -> Int]
  PROVE  \E g : /\ SumsOf(f, D, g) /\ SumFunction(f) = g[D]
                /\ \A s \in SUBSET D : SumFunction([x \in s |-> f[x]]) = g[s]
<1>1. PICK g : SumsOf(f, D, g)
  BY SumsExist
<1>2. ASSUME NEW s \in SUBSET D PROVE SumFunction([x \in s |-> f[x]]) = g[s]
  <2> DEFINE fs == [x \in s |-> f[x]]
             gs == [t \in SUBSET s |-> g[t]]
  <2>1. IsFiniteSet(s) /\ fs \in [s -> Int]
    BY FS_Subset
  <2>2. SumsOf(fs, s, gs)
    <3>1. gs \in [SUBSET s -> Int] /\ gs[{}] = 0
      BY <1>1 DEF SumsOf
    <3>2. ASSUME NEW t \in SUBSET s, NEW x \in t PROVE gs[t] = fs[x] + gs[t \ {x}]
      <4>1. g[t] = f[x] + g[t \ {x}]
        BY <1>1 DEF SumsOf
      <4> QED
        BY <4>1
    <3> HIDE DEF gs, fs
    <3> QED
      BY <3>1, <3>2 DEF SumsOf
  <2>3. SumFunction(fs) = gs[s]
    <3> HIDE DEF gs, fs
    <3> QED
      BY <2>1, <2>2, SumIs
  <2> QED
    BY <2>3
<1> QED
  BY <1>1, <1>2, SumIs

LEMMA SumTyped ==
  ASSUME NEW D, IsFiniteSet(D), NEW f \in [D -> Int]
  PROVE  SumFunction(f) \in Int
<1>1. PICK g : SumsOf(f, D, g) /\ SumFunction(f) = g[D]
  BY SumsAdd
<1> QED
  BY <1>1 DEF SumsOf

LEMMA SumOfNaturals ==
  ASSUME NEW D, IsFiniteSet(D), NEW f \in [D -> Nat]
  PROVE  SumFunction(f) \in Nat
<1>0. f \in [D -> Int]
  OBVIOUS
<1>1. PICK g : SumsOf(f, D, g) /\ SumFunction(f) = g[D]
  BY <1>0, SumsAdd
<1> DEFINE wrong == {s \in SUBSET D : g[s] \notin Nat}
<1>2. wrong = {}
  <2> SUFFICES ASSUME wrong # {} PROVE FALSE
    OBVIOUS
  <2>1. PICK m \in wrong : \A x \in m : m \ {x} \notin wrong
    <3>1. wrong \in SUBSET (SUBSET D)
      OBVIOUS
    <3> HIDE DEF wrong
    <3> QED
      BY <3>1, FiniteSetsHaveAMinimal
  <2>2. PICK x \in m : TRUE
    <3>1. g[{}] = 0
      BY <1>1 DEF SumsOf
    <3>2. g[m] \notin Nat
      BY <2>1
    <3>3. m # {}
      BY <3>1, <3>2
    <3> QED
      BY <3>3
  <2>3. g[m \ {x}] \in Nat /\ f[x] \in Nat
    BY <2>1
  <2>4. g[m] = f[x] + g[m \ {x}]
    BY <1>1, <2>1 DEF SumsOf
  <2> QED
    BY <2>1, <2>3, <2>4
<1> QED
  BY <1>1, <1>2

LEMMA SumsSplit ==
  ASSUME NEW D, IsFiniteSet(D), NEW f \in [D -> Int], NEW g, SumsOf(f, D, g),
         NEW s \in SUBSET D, NEW t \in SUBSET D, s \cap t = {}
  PROVE  g[s \cup t] = g[s] + g[t]
<1> DEFINE wrong == {a \in SUBSET s : g[a \cup t] # g[a] + g[t]}
<1>0. \A a \in SUBSET D : g[a] \in Int
  BY DEF SumsOf
<1>1. wrong = {}
  <2> SUFFICES ASSUME wrong # {} PROVE FALSE
    OBVIOUS
  <2>1. PICK m \in wrong : \A x \in m : m \ {x} \notin wrong
    <3>1. wrong \in SUBSET (SUBSET D)
      OBVIOUS
    <3> HIDE DEF wrong
    <3> QED
      BY <3>1, FiniteSetsHaveAMinimal
  <2>2. CASE m = {}
    <3>1. {} \cup t = t
      OBVIOUS
    <3>2. g[{}] = 0 /\ g[t] \in Int
      BY <1>0 DEF SumsOf
    <3> QED
      BY <2>1, <2>2, <3>1, <3>2
  <2>3. ASSUME NEW x \in m PROVE FALSE
    <3>1. m \in SUBSET s /\ m \ {x} \in SUBSET s /\ x \in s /\ x \notin t
      BY <2>1
    <3>2. g[m] = f[x] + g[m \ {x}]
      BY <3>1 DEF SumsOf
    <3>3. (m \cup t) \ {x} = (m \ {x}) \cup t
      BY <3>1
    <3>4. g[m \cup t] = f[x] + g[(m \ {x}) \cup t]
      <4>1. m \cup t \in SUBSET D /\ x \in m \cup t
        BY <3>1
      <4>2. g[m \cup t] = f[x] + g[(m \cup t) \ {x}]
        BY <4>1 DEF SumsOf
      <4> QED
        BY <3>3, <4>2
    <3>5. g[(m \ {x}) \cup t] = g[m \ {x}] + g[t]
      BY <2>1, <3>1
    <3>6. g[m \cup t] # g[m] + g[t]
      BY <2>1
    <3>7. f[x] \in Int /\ g[m \ {x}] \in Int /\ g[t] \in Int
      BY <1>0, <3>1
    <3> QED
      BY <3>2, <3>4, <3>5, <3>6, <3>7
  <2> QED
    BY <2>2, <2>3
<1> QED
  BY <1>1

LEMMA SumOfDifferences ==
  ASSUME NEW D, IsFiniteSet(D), NEW f \in [D -> Int], NEW h \in [D -> Int]
  PROVE  SumFunction([x \in D |-> f[x] - h[x]]) = SumFunction(f) - SumFunction(h)
<1>1. PICK g : SumsOf(f, D, g) /\ SumFunction(f) = g[D]
  BY SumsAdd
<1>2. PICK k : SumsOf(h, D, k) /\ SumFunction(h) = k[D]
  BY SumsAdd
<1> DEFINE e == [x \in D |-> f[x] - h[x]]
           d == [s \in SUBSET D |-> g[s] - k[s]]
<1>3. SumsOf(e, D, d)
  <2>1. d \in [SUBSET D -> Int] /\ d[{}] = 0
    <3>1. g \in [SUBSET D -> Int] /\ k \in [SUBSET D -> Int]
      BY <1>1, <1>2 DEF SumsOf
    <3>2. g[{}] = 0 /\ k[{}] = 0 /\ {} \in SUBSET D
      BY <1>1, <1>2 DEF SumsOf
    <3> QED
      BY <3>1, <3>2
  <2>2. ASSUME NEW s \in SUBSET D, NEW x \in s PROVE d[s] = e[x] + d[s \ {x}]
    <3>1. g[s] = f[x] + g[s \ {x}] /\ k[s] = h[x] + k[s \ {x}]
      BY <1>1, <1>2 DEF SumsOf
    <3>2. /\ g[s \ {x}] \in Int /\ k[s \ {x}] \in Int /\ f[x] \in Int /\ h[x] \in Int
          /\ d[s \ {x}] = g[s \ {x}] - k[s \ {x}]
      BY <1>1, <1>2 DEF SumsOf
    <3> QED
      BY <3>1, <3>2
  <2> HIDE DEF d, e
  <2> QED
    BY <2>1, <2>2 DEF SumsOf
<1>4. e \in [D -> Int]
  OBVIOUS
<1>5. SumFunction(e) = d[D]
  <2> HIDE DEF d, e
  <2> QED
    BY <1>3, <1>4, SumIs
<1> QED
  BY <1>1, <1>2, <1>5

\* Items cut by a label: each is in one cell.
Cell(items, label, x) == {i \in items : label[i] = x}
Cells(items, label, s) == {i \in items : label[i] \in s}

LEMMA CellsGrow ==
  ASSUME NEW items, NEW marks, NEW label \in [items -> marks],
         NEW s \in SUBSET marks, NEW x \in s
  PROVE  /\ Cells(items, label, s) = Cell(items, label, x) \cup Cells(items, label, s \ {x})
         /\ Cell(items, label, x) \cap Cells(items, label, s \ {x}) = {}
         /\ Cell(items, label, x) \in SUBSET items /\ Cells(items, label, s \ {x}) \in SUBSET items
  BY DEF Cell, Cells

LEMMA CountsAddUp ==
  ASSUME NEW items, IsFiniteSet(items), NEW marks, IsFiniteSet(marks),
         NEW label \in [items -> marks]
  PROVE  SumFunction([x \in marks |-> Cardinality(Cell(items, label, x))]) = Cardinality(items)
<1> DEFINE f == [x \in marks |-> Cardinality(Cell(items, label, x))]
           g == [s \in SUBSET marks |-> Cardinality(Cells(items, label, s))]
<1>1. \A a \in SUBSET items : IsFiniteSet(a) /\ Cardinality(a) \in Int
  BY FS_Subset, FS_CardinalityType
<1>2. f \in [marks -> Int]
  BY <1>1 DEF Cell
<1>3. SumsOf(f, marks, g)
  <2>1. g \in [SUBSET marks -> Int]
    BY <1>1 DEF Cells
  <2>2. g[{}] = 0
    <3>1. Cells(items, label, {}) = {}
      BY DEF Cells
    <3> QED
      BY <3>1, FS_EmptySet
  <2>3. ASSUME NEW s \in SUBSET marks, NEW x \in s PROVE g[s] = f[x] + g[s \ {x}]
    <3> DEFINE a == Cell(items, label, x)
               b == Cells(items, label, s \ {x})
    <3>1. /\ Cells(items, label, s) = a \cup b /\ a \cap b = {}
          /\ a \in SUBSET items /\ b \in SUBSET items
      BY CellsGrow
    <3>2. Cardinality(a \cup b) = Cardinality(a) + Cardinality(b)
      <4>1. /\ IsFiniteSet(a) /\ IsFiniteSet(b)
            /\ Cardinality(a) \in Int /\ Cardinality(b) \in Int
        BY <1>1, <3>1
      <4> HIDE DEF a, b
      <4>2. Cardinality(a \cup b) = Cardinality(a) + Cardinality(b) - Cardinality(a \cap b)
        BY <4>1, FS_Union
      <4>3. Cardinality(a \cap b) = 0
        BY <3>1, FS_EmptySet
      <4> QED
        BY <4>1, <4>2, <4>3
    <3> QED
      BY <3>1, <3>2
  <2> HIDE DEF f, g
  <2> QED
    BY <2>1, <2>2, <2>3 DEF SumsOf
<1>4. SumFunction(f) = g[marks]
  <2> HIDE DEF f, g
  <2> QED
    BY <1>2, <1>3, SumIs
<1>5. Cells(items, label, marks) = items
  BY DEF Cells
<1> QED
  BY <1>4, <1>5

SumWithin(v, part) == SumFunction([i \in part |-> v[i]])

\* sums holds the sum of v over each cell.
SumsByCell(items, marks, label, v, sums) ==
  /\ IsFiniteSet(items) /\ IsFiniteSet(marks)
  /\ label \in [items -> marks] /\ v \in [items -> Int] /\ sums \in [marks -> Int]
  /\ \A x \in marks : sums[x] = SumWithin(v, Cell(items, label, x))

LEMMA CellsAddUp ==
  ASSUME NEW items, NEW marks, NEW label, NEW v, NEW sums,
         SumsByCell(items, marks, label, v, sums)
  PROVE  SumFunction(sums) = SumFunction(v)
<1> USE DEF SumsByCell
<1>1. PICK k : /\ SumsOf(v, items, k) /\ SumFunction(v) = k[items]
               /\ \A s \in SUBSET items : SumFunction([i \in s |-> v[i]]) = k[s]
  BY SumsAdd
<1> DEFINE f == [x \in marks |-> k[Cell(items, label, x)]]
           g == [s \in SUBSET marks |-> k[Cells(items, label, s)]]
<1>8. ASSUME NEW s \in SUBSET items, NEW t \in SUBSET items, s \cap t = {}
      PROVE  k[s \cup t] = k[s] + k[t]
  <2>1. SumsOf(v, items, k)
    BY <1>1
  <2> QED
    BY <1>8, <2>1, SumsSplit
<1>2. /\ \A x : Cell(items, label, x) \in SUBSET items
      /\ \A s : Cells(items, label, s) \in SUBSET items
  BY DEF Cell, Cells
<1>3. f = sums
  <2>1. \A x : SumWithin(v, Cell(items, label, x)) = k[Cell(items, label, x)]
    BY <1>1, <1>2 DEF SumWithin
  <2> QED
    BY <2>1
<1>4. f \in [marks -> Int]
  BY <1>1, <1>2 DEF SumsOf
<1>5. SumsOf(f, marks, g)
  <2>1. g \in [SUBSET marks -> Int]
    BY <1>1, <1>2 DEF SumsOf
  <2>2. g[{}] = 0
    <3>1. Cells(items, label, {}) = {}
      BY DEF Cells
    <3> QED
      BY <1>1, <3>1 DEF SumsOf
  <2>3. ASSUME NEW s \in SUBSET marks, NEW x \in s PROVE g[s] = f[x] + g[s \ {x}]
    <3> DEFINE a == Cell(items, label, x)
               b == Cells(items, label, s \ {x})
    <3>1. /\ Cells(items, label, s) = a \cup b /\ a \cap b = {}
          /\ a \in SUBSET items /\ b \in SUBSET items
      BY CellsGrow
    <3>3. k[a \cup b] = k[a] + k[b]
      <4> HIDE DEF a, b
      <4> QED
        BY <1>8, <3>1
    <3> QED
      BY <3>1, <3>3
  <2> HIDE DEF f, g
  <2> QED
    BY <2>1, <2>2, <2>3 DEF SumsOf
<1>6. SumFunction(f) = g[marks]
  <2> HIDE DEF f, g
  <2> QED
    BY <1>4, <1>5, SumIs
<1>7. Cells(items, label, marks) = items
  BY DEF Cells
<1> QED
  BY <1>1, <1>3, <1>6, <1>7

-----------------------------------------------------------------------------
(* HistoryRouting                                                            *)

LEMMA RoundedIsNear ==
  ASSUME NEW n \in Nat, NEW d \in Nat \ {0}
  PROVE  /\ Rounded(n, d) \in Nat /\ (n \div d) \in Nat
         /\ (n \div d) <= Rounded(n, d) /\ Rounded(n, d) <= (n \div d) + 1
<1> DEFINE q == n \div d
           r == n % d
<1>1. q \in Int /\ r \in 0..d - 1 /\ n = d * q + r
  BY Quotients
<1> HIDE DEF q, r
<1>2. q >= 0
  <2>1. SUFFICES ASSUME q <= -1 PROVE FALSE
    BY <1>1
  <2>2. d * q <= d * (-1)
    BY <1>1, <2>1
  <2> QED
    BY <1>1, <2>2
<1>3. Rounded(n, d) = q + (IF 2 * r > d \/ (2 * r = d /\ (q % 2) = 1) THEN 1 ELSE 0)
  BY DEF Rounded, q, r
<1> QED
  BY <1>1, <1>2, <1>3 DEF q

\* A greater quotient is not rounded to less.
LEMMA RoundedGrows ==
  ASSUME NEW a \in Nat, NEW b \in Nat, NEW c \in Nat \ {0}, NEW d \in Nat \ {0},
         a * d <= b * c
  PROVE  Rounded(a, c) <= Rounded(b, d)
<1> DEFINE p == a \div c
           r == a % c
           q == b \div d
           s == b % d
<1>1. /\ p \in Int /\ r \in 0..c - 1 /\ a = c * p + r
      /\ q \in Int /\ s \in 0..d - 1 /\ b = d * q + s
  BY Quotients
<1>2. /\ p <= Rounded(a, c) /\ Rounded(a, c) <= p + 1 /\ Rounded(a, c) \in Nat
      /\ q <= Rounded(b, d) /\ Rounded(b, d) <= q + 1 /\ Rounded(b, d) \in Nat
  BY RoundedIsNear
<1>3. /\ Rounded(a, c) = p + (IF 2 * r > c \/ (2 * r = c /\ (p % 2) = 1) THEN 1 ELSE 0)
      /\ Rounded(b, d) = q + (IF 2 * s > d \/ (2 * s = d /\ (q % 2) = 1) THEN 1 ELSE 0)
  BY DEF Rounded
<1> HIDE DEF p, q, r, s
<1>4. c * p * d + r * d <= d * q * c + s * c
  <2>1. a * d = c * p * d + r * d
    BY <1>1
  <2>2. b * c = d * q * c + s * c
    BY <1>1
  <2> QED
    BY <2>1, <2>2
<1> DEFINE cd == c * d
<1>5. /\ cd \in Nat \ {0}
      /\ c * p * d = cd * p /\ d * q * c = cd * q
  BY <1>1
<1>6. r * d \in Nat /\ s * c \in Nat /\ s * c < cd
  <2>1. s * c < d * c
    BY <1>1
  <2> QED
    BY <1>1, <2>1
<1>7. cd * p + r * d <= cd * q + s * c
  BY <1>4, <1>5
<1> HIDE DEF cd
<1>8. p <= q
  <2> SUFFICES ASSUME p >= q + 1 PROVE FALSE
    BY <1>1
  <2>1. cd * p >= cd * (q + 1)
    BY <1>1, <1>5
  <2>2. cd * (q + 1) = cd * q + cd
    BY <1>1, <1>5
  <2>3. cd * p \in Int /\ cd * q \in Int
    BY <1>1, <1>5
  <2> DEFINE x == cd * p
             y == cd * q
             u == r * d
             w == s * c
             z == cd * (q + 1)
  <2>4. x \in Int /\ y \in Int /\ u \in Nat /\ w \in Nat /\ w < cd /\ x + u <= y + w
        /\ x >= z /\ z = y + cd
    BY <1>6, <1>7, <2>1, <2>2, <2>3
  <2> HIDE DEF x, y, u, w, z
  <2> QED
    BY <1>5, <2>4
<1>9. CASE p < q
  BY <1>1, <1>2, <1>9
<1>10. CASE p = q
  <2>1. r * d <= s * c
    <3> DEFINE x == cd * p
               u == r * d
               w == s * c
    <3>1. x \in Int /\ u \in Nat /\ w \in Nat /\ x + u <= x + w
      BY <1>1, <1>5, <1>6, <1>7, <1>10
    <3> HIDE DEF x, u, w
    <3>2. u <= w
      BY <3>1
    <3> QED
      BY <3>2 DEF u, w
  <2>2. 2 * r > c => 2 * s > d
    <3> SUFFICES ASSUME 2 * r >= c + 1, 2 * s <= d PROVE FALSE
      BY <1>1
    <3>1. (2 * r) * d >= (c + 1) * d
      BY <1>1
    <3>2. (2 * s) * c <= d * c
      BY <1>1
    <3>3. (2 * r) * d = 2 * (r * d) /\ (2 * s) * c = 2 * (s * c) /\ (c + 1) * d = d * c + d
      BY <1>1
    <3> DEFINE u == r * d
               w == s * c
               e == d * c
    <3>4. /\ u \in Nat /\ w \in Nat /\ e \in Nat /\ u <= w
          /\ 2 * u >= e + d /\ 2 * w <= e
      BY <1>6, <2>1, <3>1, <3>2, <3>3
    <3> HIDE DEF u, w, e
    <3> QED
      BY <3>4
  <2>3. 2 * r = c => 2 * s >= d
    <3> SUFFICES ASSUME 2 * r = c, 2 * s <= d - 1 PROVE FALSE
      BY <1>1
    <3>1. (2 * r) * d = c * d
      OBVIOUS
    <3>2. (2 * s) * c <= (d - 1) * c
      BY <1>1
    <3>3. /\ (2 * r) * d = 2 * (r * d) /\ (2 * s) * c = 2 * (s * c)
          /\ (d - 1) * c = c * d - c
      BY <1>1
    <3> DEFINE u == r * d
               w == s * c
               e == c * d
    <3>4. /\ u \in Nat /\ w \in Nat /\ e \in Nat /\ u <= w
          /\ 2 * u = e /\ 2 * w <= e - c
      BY <1>6, <2>1, <3>1, <3>2, <3>3
    <3> HIDE DEF u, w, e
    <3> QED
      BY <3>4
  <2> QED
    BY <1>1, <1>3, <1>10, <2>2, <2>3
<1> QED
  BY <1>1, <1>8, <1>9, <1>10

LEMMA ConfidenceTyped ==
  ASSUME NEW merged \in Nat, NEW routed \in Nat, NEW cap \in Nat
  PROVE  SmoothedConfidence(merged, routed, cap) \in 0..cap
<1>1. Rounded(100 * (merged + 1), routed + 2) \in Nat
  BY RoundedIsNear
<1> QED
  BY <1>1 DEF SmoothedConfidence

\* One more merge of one more run never lowers the confidence.
LEMMA ConfidenceGrows ==
  ASSUME NEW merged \in Nat, NEW routed \in Nat, NEW cap \in Nat, merged <= routed
  PROVE  SmoothedConfidence(merged, routed, cap)
           <= SmoothedConfidence(merged + 1, routed + 1, cap)
<1> DEFINE a == 100 * (merged + 1)
           b == 100 * (merged + 1 + 1)
           c == routed + 2
           d == routed + 1 + 2
<1>1. a \in Nat /\ b \in Nat /\ c \in Nat \ {0} /\ d \in Nat \ {0}
  OBVIOUS
<1>2. a * d <= b * c
  <2>1. a * d = a * c + a
    OBVIOUS
  <2>2. b * c = a * c + 100 * c
    OBVIOUS
  <2>3. a <= 100 * c
    OBVIOUS
  <2>4. a * c \in Nat
    OBVIOUS
  <2> DEFINE e == a * c
             f == 100 * c
  <2>5. a * d = e + a /\ b * c = e + f /\ a <= f /\ e \in Nat /\ f \in Nat
    BY <2>1, <2>2, <2>3, <2>4
  <2> HIDE DEF a, b, c, d, e, f
  <2> QED
    BY <1>1, <2>5
<1>3. Rounded(a, c) <= Rounded(b, d) /\ Rounded(a, c) \in Nat /\ Rounded(b, d) \in Nat
  <2> HIDE DEF a, b, c, d
  <2> QED
    BY <1>1, <1>2, RoundedGrows, RoundedIsNear
<1> QED
  BY <1>3 DEF SmoothedConfidence

\* Who merges half of the runs has a confidence of 50 at least.
LEMMA MajorityIsHalf ==
  ASSUME NEW merged \in Nat, NEW routed \in Nat, NEW cap \in Nat,
         2 * (merged + 1) >= routed + 2
  PROVE  SmoothedConfidence(merged, routed, cap) \in {cap} \cup (50..cap)
<1> DEFINE a == 100 * (merged + 1)
           c == routed + 2
<1>1. a \in Nat /\ c \in Nat \ {0}
  OBVIOUS
<1>2. Rounded(a, c) \in Nat /\ (a \div c) <= Rounded(a, c)
  <2> HIDE DEF a, c
  <2> QED
    BY <1>1, RoundedIsNear
<1>3. (a \div c) >= 50
  <2> DEFINE q == a \div c
             r == a % c
  <2>1. q \in Int /\ r \in 0..c - 1 /\ a = c * q + r
    <3> HIDE DEF a, c
    <3> QED
      BY <1>1, Quotients
  <2>2. a >= 50 * c
    OBVIOUS
  <2> HIDE DEF a, c, q, r
  <2>3. SUFFICES ASSUME q <= 49 PROVE FALSE
    BY <2>1 DEF q
  <2>4. c * q <= c * 49
    BY <1>1, <2>1, <2>3
  <2> QED
    BY <1>1, <2>1, <2>2, <2>4
<1> QED
  BY <1>2, <1>3 DEF SmoothedConfidence

HistorySpec == InitHistory /\ [][NextHistory]_historyVars

HistoryInv ==
  /\ hour \in Nat
  /\ history \in Seq([kind : HistoryRows, at : 0..hour])

LEMMA HistoryInit == InitHistory => HistoryInv
  BY HistoryAssumption DEF InitHistory, HistoryInv

LEMMA HistoryNext == HistoryInv /\ [NextHistory]_historyVars => HistoryInv'
<1> SUFFICES ASSUME HistoryInv, [NextHistory]_historyVars PROVE HistoryInv'
  OBVIOUS
<1> DEFINE Row(h) == [kind : HistoryRows, at : 0..h]
<1>0. hour \in Nat /\ history \in Seq(Row(hour))
  BY DEF HistoryInv
<1>1. ASSUME NEW kind \in HistoryRows, FinishRun(kind) PROVE HistoryInv'
  <2> DEFINE row == [kind |-> kind, at |-> hour]
  <2>1. /\ history' = Append(history, row) /\ hour' = hour
        /\ row \in Row(hour)
    BY <1>0, <1>1 DEF FinishRun
  <2>2. history' \in Seq(Row(hour))
    <3> HIDE DEF row, Row
    <3> QED
      BY <1>0, <2>1, AppendProperties
  <2> HIDE DEF row
  <2> QED
    BY <1>0, <2>1, <2>2 DEF HistoryInv
<1>2. CASE HourPasses
  <2>1. Seq(Row(hour)) \subseteq Seq(Row(hour + 1))
    <3>1. Row(hour) \subseteq Row(hour + 1)
      BY <1>0
    <3> HIDE DEF Row
    <3> QED
      BY <3>1
  <2>2. hour' = hour + 1 /\ history' = history
    BY <1>2 DEF HourPasses
  <2> HIDE DEF Row
  <2>3. history \in Seq(Row(hour + 1)) /\ hour + 1 \in Nat
    BY <1>0, <2>1
  <2> QED
    BY <2>2, <2>3 DEF HistoryInv, Row
<1>3. CASE UNCHANGED historyVars
  BY <1>3 DEF historyVars, HistoryInv
<1> QED
  BY <1>1, <1>2, <1>3 DEF NextHistory

LEMMA HistoryCounts ==
  ASSUME HistoryInv, NEW part \in SUBSET (1..Len(history))
  PROVE  /\ IsFiniteSet(part) /\ Cardinality(part) \in 0..Len(history)
         /\ MergedIn(part) \in Nat /\ MergedIn(part) <= Cardinality(part)
<1>1. Len(history) \in Nat
  BY DEF HistoryInv
<1>2. IsFiniteSet(1..Len(history)) /\ Cardinality(1..Len(history)) = Len(history)
  BY <1>1, FS_Interval
<1>3. /\ IsFiniteSet(part) /\ Cardinality(part) \in Nat
      /\ Cardinality(part) <= Len(history)
  BY <1>2, FS_Subset, FS_CardinalityType
<1> DEFINE merges == {i \in part : history[i].kind.merged}
<1>4. merges \in SUBSET part
  OBVIOUS
<1>5. Cardinality(merges) \in Nat /\ Cardinality(merges) <= Cardinality(part)
  <2> HIDE DEF merges
  <2> QED
    BY <1>3, <1>4, FS_Subset, FS_CardinalityType
<1> QED
  BY <1>1, <1>3, <1>5 DEF MergedIn

LEMMA PriorScopeIsSeen ==
  ASSUME NEW m \in 0..Len(history), NEW n \in 0..Len(history), Len(history) \in Nat,
         NEW prefix, NEW workType
  PROVE  PriorScope(m, n, prefix, workType) \in SUBSET (1..Len(history))
  BY DEF PriorScope, RowsWhere

LEMMA PriorsSound == HistoryInv => PriorsAreSound
<1> SUFFICES ASSUME HistoryInv PROVE PriorsAreSound
  OBVIOUS
<1>0. Len(history) \in Nat
  BY DEF HistoryInv
<1>1. ASSUME NEW kind \in HistoryRows, NEW m \in 0..Len(history), NEW n \in 0..Len(history),
             NEW repo \in DOMAIN CandidatesFor(m, n, kind.prefix, kind.workType)
      PROVE  LET c == CandidatesFor(m, n, kind.prefix, kind.workType)[repo]
             IN  c = ConfidenceCap \/ c \in 50..ConfidenceCap
  <2> DEFINE scope == PriorScope(m, n, kind.prefix, kind.workType)
             fit == {i \in scope : history[i].kind.repo = repo}
             c == SmoothedConfidence(MergedIn(fit), Cardinality(fit), ConfidenceCap)
  <2>1. /\ CandidatesFor(m, n, kind.prefix, kind.workType)[repo] = c
        /\ MajorityMerged(fit)
    BY <1>1 DEF CandidatesFor
  <2>2. fit \in SUBSET (1..Len(history))
    BY <1>0, PriorScopeIsSeen
  <2>3. MergedIn(fit) \in Nat /\ Cardinality(fit) \in Nat
    <3> HIDE DEF fit
    <3> QED
      BY <2>2, HistoryCounts
  <2>4. c \in {ConfidenceCap} \cup (50..ConfidenceCap)
    <3>1. 2 * (MergedIn(fit) + 1) >= Cardinality(fit) + 2
      BY <2>1 DEF MajorityMerged
    <3> HIDE DEF fit
    <3> QED
      BY <2>3, <3>1, MajorityIsHalf, HistoryAssumption
  <2> HIDE DEF c
  <2> QED
    BY <2>1, <2>4
<1> QED
  BY <1>1 DEF PriorsAreSound

\* Agents ranked by a confidence s, a number of runs n, a cost c and a name k.
Beats(a, b, s, n, c, k, none) ==
  \/ s[a] > s[b]
  \/ s[a] = s[b] /\ n[a] > n[b]
  \/ /\ s[a] = s[b] /\ n[a] = n[b]
     /\ \/ c[a] # none /\ (c[b] = none \/ c[a] < c[b])
        \/ c[a] = c[b] /\ k[a] < k[b]

LEMMA AnyNumbersHaveAMax ==
  ASSUME NEW n \in Nat, NEW S \in SUBSET (0..n), S # {}
  PROVE  \E m \in S : \A x \in S : x <= m
  BY BoundedNumbersHaveAMax

LEMMA OneBeatsAll ==
  ASSUME NEW E, E # {}, NEW m \in Nat, NEW none, none \notin Nat,
         NEW s \in [E -> 0..m], NEW n \in [E -> 0..m],
         NEW c \in [E -> Nat \cup {none}], NEW k \in [E -> Nat],
         \A a, b \in E : k[a] = k[b] => a = b
  PROVE  \E a \in E : \A b \in E \ {a} : Beats(a, b, s, n, c, k, none)
<1>1. PICK e1 \in E : \A b \in E : s[b] <= s[e1]
  <2> DEFINE S == {s[a] : a \in E}
  <2>1. S \in SUBSET (0..m) /\ S # {}
    OBVIOUS
  <2>2. PICK x \in S : \A y \in S : y <= x
    <3> HIDE DEF S
    <3> QED
      BY <2>1, AnyNumbersHaveAMax
  <2> QED
    BY <2>2
<1> DEFINE E1 == {a \in E : s[a] = s[e1]}
<1>2. PICK e2 \in E1 : \A b \in E1 : n[b] <= n[e2]
  <2> DEFINE S == {n[a] : a \in E1}
  <2>1. S \in SUBSET (0..m) /\ S # {}
    OBVIOUS
  <2>2. PICK x \in S : \A y \in S : y <= x
    <3> HIDE DEF S
    <3> QED
      BY <2>1, AnyNumbersHaveAMax
  <2> QED
    BY <2>2
<1> DEFINE E2 == {a \in E1 : n[a] = n[e2]}
           priced == {a \in E2 : c[a] # none}
<1>3. PICK e3 \in E2 :
        \/ c[e3] = none /\ priced = {}
        \/ c[e3] \in Nat /\ \A b \in priced : c[b] \in Nat /\ c[e3] <= c[b]
  <2>1. CASE priced = {}
    BY <2>1
  <2>2. CASE priced # {}
    <3> DEFINE S == {c[a] : a \in priced}
    <3>1. S \in SUBSET Nat /\ S # {}
      BY <2>2
    <3>2. PICK x \in S : \A y \in S : x <= y
      <4> HIDE DEF S
      <4> QED
        BY <3>1, NumbersHaveAFirst
    <3> QED
      BY <3>1, <3>2
  <2> QED
    BY <2>1, <2>2
<1> DEFINE E3 == {a \in E2 : c[a] = c[e3]}
<1>4. PICK e4 \in E3 : \A b \in E3 : k[e4] <= k[b]
  <2> DEFINE S == {k[a] : a \in E3}
  <2>1. S \in SUBSET Nat /\ S # {}
    OBVIOUS
  <2>2. PICK x \in S : \A y \in S : x <= y
    <3> HIDE DEF S
    <3> QED
      BY <2>1, NumbersHaveAFirst
  <2> QED
    BY <2>2
<1>5. e4 \in E
  OBVIOUS
<1>6. ASSUME NEW b \in E \ {e4} PROVE Beats(e4, b, s, n, c, k, none)
  <2>1. s[e4] = s[e1] /\ n[e4] = n[e2] /\ c[e4] = c[e3]
    OBVIOUS
  <2>2. CASE b \notin E1
    <3>1. s[b] < s[e4]
      BY <1>1, <2>1, <2>2
    <3> QED
      BY <3>1 DEF Beats
  <2>3. CASE b \in E1 \ E2
    <3>1. s[b] = s[e4] /\ n[b] < n[e4]
      BY <1>2, <2>1, <2>3
    <3> QED
      BY <3>1 DEF Beats
  <2>4. CASE b \in E2 \ E3
    <3>1. s[b] = s[e4] /\ n[b] = n[e4] /\ c[b] # c[e4]
      BY <2>1, <2>4
    <3>2. c[e4] # none /\ (c[b] = none \/ c[e4] < c[b])
      <4>1. CASE c[b] = none
        BY <2>1, <3>1, <4>1
      <4>2. CASE c[b] # none
        <5>1. b \in priced
          BY <2>4, <4>2
        <5>2. c[e3] \in Nat /\ c[b] \in Nat /\ c[e3] <= c[b]
          BY <1>3, <5>1
        <5> QED
          BY <2>1, <3>1, <5>2
      <4> QED
        BY <4>1, <4>2
    <3> QED
      BY <3>1, <3>2 DEF Beats
  <2>5. CASE b \in E3
    <3>1. s[b] = s[e4] /\ n[b] = n[e4] /\ c[b] = c[e4]
      BY <2>1, <2>5
    <3>2. k[e4] < k[b]
      <4>1. k[e4] <= k[b] /\ k[e4] # k[b]
        BY <1>4, <1>5, <2>5
      <4>2. k[e4] \in Nat /\ k[b] \in Nat
        BY <1>5
      <4> QED
        BY <4>1, <4>2
    <3> QED
      BY <3>1, <3>2 DEF Beats
  <2> QED
    BY <2>2, <2>3, <2>4, <2>5
<1> QED
  BY <1>5, <1>6

LEMMA RowsTyped ==
  ASSUME HistoryInv, NEW i \in 1..Len(history)
  PROVE  /\ history[i].kind \in HistoryRows /\ history[i].at \in 0..hour
         /\ history[i].kind.provider \in AgentNames /\ history[i].kind.merged \in BOOLEAN
         /\ history[i].kind.jobs \in Nat \ {0}
         /\ history[i].kind.cost \in Nat \cup {Unreported}
<1> DEFINE row == [kind : HistoryRows, at : 0..hour]
<1>1. history \in Seq(row) /\ DOMAIN history = 1..Len(history)
  BY DEF HistoryInv
<1>2. history[i] \in row
  <2> HIDE DEF row
  <2> QED
    BY <1>1
<1> QED
  BY <1>2, HistoryAssumption

LEMMA CardTyped ==
  ASSUME HistoryInv, NEW part \in SUBSET (1..Len(history))
  PROVE  /\ Card(part).smoothed = SmoothedConfidence(MergedIn(part), Cardinality(part), 100)
         /\ Card(part).smoothed \in 0..100
         /\ Card(part).runs = Cardinality(part) /\ Card(part).runs \in 0..Len(history)
         /\ Card(part).avg \in Nat \cup {Unreported}
<1> DEFINE priced == {i \in part : history[i].kind.cost # Unreported}
           costs == [i \in priced |-> history[i].kind.cost]
<1>1. /\ IsFiniteSet(part) /\ Cardinality(part) \in 0..Len(history)
      /\ MergedIn(part) \in Nat /\ Len(history) \in Nat
  BY HistoryCounts DEF HistoryInv
<1>2. SmoothedConfidence(MergedIn(part), Cardinality(part), 100) \in 0..100
  <2>1. Cardinality(part) \in Nat /\ 100 \in Nat
    BY <1>1
  <2> QED
    BY <1>1, <2>1, ConfidenceTyped
<1>3. priced \in SUBSET part /\ costs \in [priced -> Nat]
  BY RowsTyped
<1>4. IsFiniteSet(priced) /\ Cardinality(priced) \in Nat /\ (priced # {} => Cardinality(priced) # 0)
  <2> HIDE DEF priced
  <2> QED
    BY <1>1, <1>3, FS_Subset, FS_CardinalityType, FS_EmptySet
<1>5. SumFunction(costs) \in Nat
  <2> HIDE DEF priced, costs
  <2> QED
    BY <1>3, <1>4, SumOfNaturals
<1>6. priced # {} => Rounded(SumFunction(costs), Cardinality(priced)) \in Nat
  <2> HIDE DEF priced, costs
  <2> QED
    BY <1>4, <1>5, RoundedIsNear
<1>7. Card(part).avg = IF priced = {} THEN Unreported
                       ELSE Rounded(SumFunction(costs), Cardinality(priced))
  BY DEF Card
<1>8. Card(part).avg \in Nat \cup {Unreported}
  <2> HIDE DEF priced, costs
  <2> QED
    BY <1>6, <1>7
<1>9. /\ Card(part).smoothed = SmoothedConfidence(MergedIn(part), Cardinality(part), 100)
      /\ Card(part).runs = Cardinality(part)
  BY DEF Card
<1> QED
  BY <1>1, <1>2, <1>8, <1>9

LEMMA RanksAreNames ==
  /\ \A a \in AgentNames : NameRank(a) \in Nat /\ Agents[NameRank(a)] = a
  /\ \A a, b \in AgentNames : NameRank(a) = NameRank(b) => a = b
<1>1. DOMAIN Agents \subseteq Nat
  BY HistoryAssumption
<1>2. ASSUME NEW a \in AgentNames PROVE NameRank(a) \in Nat /\ Agents[NameRank(a)] = a
  <2>1. \E i \in DOMAIN Agents : Agents[i] = a
    BY DEF AgentNames
  <2> QED
    BY <1>1, <2>1 DEF NameRank
<1> QED
  BY <1>2

LEMMA OneOutranksAll ==
  ASSUME HistoryInv, NEW scope \in SUBSET (1..Len(history)),
         NEW E \in SUBSET AgentsIn(scope), E # {}
  PROVE  \E a \in E : \A b \in E \ {a} : Outranks(a, b, scope)
<1> DEFINE s == [a \in E |-> Card(RunsOf(a, scope)).smoothed]
           n == [a \in E |-> Card(RunsOf(a, scope)).runs]
           c == [a \in E |-> Card(RunsOf(a, scope)).avg]
           k == [a \in E |-> NameRank(a)]
<1>1. PICK m \in Nat : \A x : (x \in 0..100) \/ (x \in 0..Len(history)) => (x \in 0..m)
  <2>1. Len(history) \in Nat
    BY DEF HistoryInv
  <2>2. Len(history) + 100 \in Nat
    BY <2>1
  <2> DEFINE l == Len(history)
  <2>3. ASSUME NEW x, (x \in 0..100) \/ (x \in 0..l) PROVE x \in 0..(l + 100)
    <3>1. l \in Nat
      BY <2>1
    <3> HIDE DEF l
    <3>2. CASE x \in 0..100
      BY <3>1, <3>2
    <3>3. CASE x \in 0..l
      BY <3>1, <3>3
    <3> QED
      BY <2>3, <3>2, <3>3
  <2> QED
    BY <2>2, <2>3
<1>2. \A a : RunsOf(a, scope) \in SUBSET (1..Len(history))
  BY DEF RunsOf
<1>3. ASSUME NEW a
      PROVE  /\ Card(RunsOf(a, scope)).smoothed \in 0..m
             /\ Card(RunsOf(a, scope)).runs \in 0..m
             /\ Card(RunsOf(a, scope)).avg \in Nat \cup {Unreported}
  <2>1. /\ Card(RunsOf(a, scope)).smoothed \in 0..100
        /\ Card(RunsOf(a, scope)).runs \in 0..Len(history)
        /\ Card(RunsOf(a, scope)).avg \in Nat \cup {Unreported}
    BY <1>2, CardTyped
  <2> QED
    BY <1>1, <2>1
<1>4. E \in SUBSET AgentNames
  BY RowsTyped DEF AgentsIn
<1>5. /\ s \in [E -> 0..m] /\ n \in [E -> 0..m]
      /\ c \in [E -> Nat \cup {Unreported}] /\ k \in [E -> Nat]
  BY <1>3, <1>4, RanksAreNames
<1>6. \A a, b \in E : k[a] = k[b] => a = b
  BY <1>4, RanksAreNames
<1>7. Unreported \notin Nat
  BY HistoryAssumption
<1>8. PICK a \in E : \A b \in E \ {a} : Beats(a, b, s, n, c, k, Unreported)
  <2> HIDE DEF s, n, c, k
  <2> QED
    BY <1>1, <1>5, <1>6, <1>7, OneBeatsAll
<1>9. ASSUME NEW b \in E \ {a} PROVE Outranks(a, b, scope)
  <2>1. Beats(a, b, s, n, c, k, Unreported)
    BY <1>8
  <2> QED
    BY <2>1 DEF Beats, Outranks
<1> QED
  BY <1>9

\* What the ranking says, of named sets of rows, so that it can be said of
\* the next state too.
Score(part) == SmoothedConfidence(MergedIn(part), Cardinality(part), 100)

BetterRuns(x, y) ==
  Score(x) > Score(y) \/ (Score(x) = Score(y) /\ Cardinality(x) > Cardinality(y))

SameRuns(x, y) == Score(x) = Score(y) /\ Cardinality(x) = Cardinality(y)

RanksByRuns ==
  \A a, b, scope, x, y :
    x = RunsOf(a, scope) /\ y = RunsOf(b, scope) =>
      /\ BetterRuns(x, y) => Outranks(a, b, scope)
      /\ Outranks(a, b, scope) => BetterRuns(x, y) \/ SameRuns(x, y)

EligibleByRuns ==
  \A a, scope, x :
    x = RunsOf(a, scope) =>
      (Eligible(a, scope) <=> Cardinality(x) >= MinSamples /\ MajorityMerged(x))

IsBest(a, eligible, scope) ==
  a \in eligible /\ \A b \in eligible \ {a} : Outranks(a, b, scope)

RecommendsABest ==
  \A workType, repo, scope, eligible :
    /\ scope = LadderScope(workType, repo)
    /\ eligible = {a \in AgentsIn(scope) : Eligible(a, scope)}
    => /\ RecommendProvider(workType, repo) # Nobody => eligible # {}
       /\ (\E a : IsBest(a, eligible, scope)) =>
            IsBest(RecommendProvider(workType, repo), eligible, scope)

LEMMA RankingIsByRuns == RanksByRuns
<1> SUFFICES ASSUME NEW a, NEW b, NEW scope, NEW x, NEW y,
                    x = RunsOf(a, scope), y = RunsOf(b, scope)
             PROVE  /\ BetterRuns(x, y) => Outranks(a, b, scope)
                    /\ Outranks(a, b, scope) => BetterRuns(x, y) \/ SameRuns(x, y)
  BY DEF RanksByRuns
<1>1. \A part : /\ Card(part).smoothed = Score(part)
                /\ Card(part).runs = Cardinality(part)
  BY DEF Card, Score
<1>2. Outranks(a, b, scope) => BetterRuns(x, y) \/ SameRuns(x, y)
  BY <1>1 DEF Outranks, BetterRuns, SameRuns
<1>3. BetterRuns(x, y) => Outranks(a, b, scope)
  BY <1>1 DEF Outranks, BetterRuns
<1> QED
  BY <1>2, <1>3

LEMMA EligibilityIsByRuns == EligibleByRuns
  BY DEF EligibleByRuns, Eligible

LEMMA RecommendationIsBest == RecommendsABest
<1> SUFFICES ASSUME NEW workType, NEW repo, NEW scope, NEW eligible,
                    scope = LadderScope(workType, repo),
                    eligible = {a \in AgentsIn(scope) : Eligible(a, scope)}
             PROVE  /\ RecommendProvider(workType, repo) # Nobody => eligible # {}
                    /\ (\E a : IsBest(a, eligible, scope)) =>
                         IsBest(RecommendProvider(workType, repo), eligible, scope)
  BY DEF RecommendsABest
<1>1. RecommendProvider(workType, repo)
        = IF eligible = {} THEN Nobody
          ELSE CHOOSE a \in eligible : \A b \in eligible \ {a} : Outranks(a, b, scope)
  BY DEF RecommendProvider
<1>2. ASSUME NEW a, IsBest(a, eligible, scope)
      PROVE  IsBest(RecommendProvider(workType, repo), eligible, scope)
  BY <1>1, <1>2 DEF IsBest
<1> QED
  BY <1>1, <1>2

LEMMA MergedGains ==
  ASSUME NEW N \in Nat, NEW part \in SUBSET (1..N), IsFiniteSet(part),
         \A i \in 1..N : history'[i] = history[i],
         history'[N + 1].kind.merged
  PROVE  /\ MergedIn(part)' = MergedIn(part)
         /\ MergedIn(part \cup {N + 1})' = MergedIn(part) + 1
         /\ Cardinality(part \cup {N + 1}) = Cardinality(part) + 1
<1> DEFINE merges == {i \in part : history[i].kind.merged}
<1>1. MergedIn(part)' = Cardinality({i \in part : history'[i].kind.merged})
  BY DEF MergedIn
<1>2. {i \in part : history'[i].kind.merged} = merges
  OBVIOUS
<1>3. MergedIn(part \cup {N + 1})'
        = Cardinality({i \in part \cup {N + 1} : history'[i].kind.merged})
  BY DEF MergedIn
<1>4. {i \in part \cup {N + 1} : history'[i].kind.merged} = merges \cup {N + 1}
  BY <1>2
<1>5. MergedIn(part) = Cardinality(merges)
  BY DEF MergedIn
<1>6. N + 1 \notin part /\ N + 1 \notin merges
  OBVIOUS
<1>7. merges \in SUBSET part
  OBVIOUS
<1> HIDE DEF merges
<1>8. IsFiniteSet(merges)
  BY <1>7, FS_Subset
<1>9. /\ Cardinality(merges \cup {N + 1}) = Cardinality(merges) + 1
      /\ Cardinality(part \cup {N + 1}) = Cardinality(part) + 1
  BY <1>6, <1>8, FS_AddElement
<1> QED
  BY <1>1, <1>2, <1>3, <1>4, <1>5, <1>9

LEMMA MergedRowComes ==
  ASSUME HistoryInv, [NextHistory]_historyVars, Len(history') > Len(history)
  PROVE  /\ Len(history') = Len(history) + 1
         /\ \A i \in 1..Len(history) : history'[i] = history[i]
<1>1. Len(history) \in Nat /\ history \in Seq([kind : HistoryRows, at : 0..hour])
  BY DEF HistoryInv
<1>2. PICK kind \in HistoryRows : FinishRun(kind)
  BY <1>1 DEF NextHistory, HourPasses, historyVars
<1>3. history' = Append(history, [kind |-> kind, at |-> hour])
  BY <1>2 DEF FinishRun
<1> QED
  BY <1>1, <1>3

\* What all that follows assumes of a step that records a merged run.
MergeRecorded(kind, N) ==
  /\ HistoryInv
  /\ N = Len(history) /\ N \in Nat /\ Len(history') = N + 1
  /\ \A i \in 1..N : history'[i] = history[i]
  /\ kind \in HistoryRows /\ history'[N + 1].kind = kind /\ kind.merged

LEMMA MergeCounts ==
  ASSUME NEW kind, NEW N, MergeRecorded(kind, N), NEW part \in SUBSET (1..N)
  PROVE  /\ IsFiniteSet(part) /\ Cardinality(part) \in Nat
         /\ MergedIn(part) \in Nat /\ MergedIn(part) <= Cardinality(part)
         /\ MergedIn(part)' = MergedIn(part)
         /\ MergedIn(part \cup {N + 1})' = MergedIn(part) + 1
         /\ Cardinality(part \cup {N + 1}) = Cardinality(part) + 1
<1>1. /\ HistoryInv /\ N \in Nat /\ N = Len(history)
      /\ \A i \in 1..N : history'[i] = history[i]
      /\ history'[N + 1].kind.merged
  BY DEF MergeRecorded
<1>2. /\ IsFiniteSet(part) /\ Cardinality(part) \in Nat
      /\ MergedIn(part) \in Nat /\ MergedIn(part) <= Cardinality(part)
  BY <1>1, HistoryCounts
<1> QED
  BY <1>1, <1>2, MergedGains

LEMMA MergeKeepsAgent ==
  ASSUME NEW kind, NEW N, MergeRecorded(kind, N), NEW scope, NEW workType, NEW repo,
         scope = LadderScope(workType, repo),
         LadderScope(workType, repo)' = scope \cup {N + 1},
         RecommendProvider(workType, repo) = kind.provider
  PROVE  SelectDispatchProvider(workType, repo)' = kind.provider
<1> DEFINE p == kind.provider
           wider == scope \cup {N + 1}
<1>0. /\ HistoryInv /\ N \in Nat /\ N = Len(history) /\ kind \in HistoryRows
      /\ \A i \in 1..N : history'[i] = history[i]
      /\ history'[N + 1].kind = kind /\ kind.merged /\ p # Nobody
      /\ MinSamples \in Nat
  BY HistoryAssumption DEF MergeRecorded
<1>1. scope \in SUBSET (1..N)
  BY <1>0 DEF LadderScope, RowsWhere
<1>2. PICK before : before = {a \in AgentsIn(scope) : Eligible(a, scope)}
  OBVIOUS
<1>3. PICK after : after = {a \in AgentsIn(wider)' : Eligible(a, wider)'}
  OBVIOUS
<1>4. /\ RanksByRuns /\ RanksByRuns'
      /\ EligibleByRuns /\ EligibleByRuns'
      /\ RecommendsABest /\ RecommendsABest'
  BY RankingIsByRuns, EligibilityIsByRuns, RecommendationIsBest, PTL
<1>5. IsBest(p, before, scope)
  <2>1. before # {}
    BY <1>0, <1>2, <1>4 DEF RecommendsABest
  <2>2. before \in SUBSET AgentsIn(scope)
    BY <1>2
  <2>3. \E a : IsBest(a, before, scope)
    BY <1>0, <1>1, <2>1, <2>2, OneOutranksAll DEF IsBest
  <2> QED
    BY <1>2, <1>4, <2>3 DEF RecommendsABest
<1> DEFINE runs(a) == {i \in scope : history[i].kind.provider = a}
<1>6. /\ \A a : RunsOf(a, scope) = runs(a) /\ runs(a) \in SUBSET (1..N)
      /\ \A a : a # p => RunsOf(a, wider)' = runs(a)
      /\ RunsOf(p, wider)' = runs(p) \cup {N + 1}
  <2>1. \A a : RunsOf(a, wider)' = {i \in wider : history'[i].kind.provider = a}
    BY DEF RunsOf
  <2> QED
    BY <1>0, <1>1, <2>1 DEF RunsOf
<1> HIDE DEF runs
<1>7. ASSUME NEW a
      PROVE  /\ Cardinality(runs(a)) \in Nat /\ MergedIn(runs(a)) \in Nat
             /\ MergedIn(runs(a)) <= Cardinality(runs(a))
             /\ Score(runs(a)) \in 0..100
  <2>1. runs(a) \in SUBSET (1..N)
    BY <1>6
  <2>2. /\ Cardinality(runs(a)) \in Nat /\ MergedIn(runs(a)) \in Nat
        /\ MergedIn(runs(a)) <= Cardinality(runs(a))
    BY <1>0, <2>1, HistoryCounts
  <2> QED
    BY <2>2, ConfidenceTyped DEF Score
<1>8. PICK own : own = runs(p)
  OBVIOUS
<1>9. /\ Cardinality(own \cup {N + 1}) = Cardinality(own) + 1
      /\ MergedIn(own \cup {N + 1})' = MergedIn(own) + 1
  <2>1. own \in SUBSET (1..N)
    BY <1>6, <1>8
  <2> QED
    BY <2>1, MergeCounts
<1>10. /\ Score(own) <= Score(own \cup {N + 1})' /\ Score(own \cup {N + 1})' \in 0..100
  <2>1. Score(own \cup {N + 1})'
          = SmoothedConfidence(MergedIn(own) + 1, Cardinality(own) + 1, 100)
    BY <1>9 DEF Score
  <2>2. /\ Cardinality(own) \in Nat /\ MergedIn(own) \in Nat
        /\ MergedIn(own) <= Cardinality(own)
    BY <1>7, <1>8
  <2>3. /\ MergedIn(own) + 1 \in Nat /\ Cardinality(own) + 1 \in Nat
    BY <2>2
  <2> QED
    BY <2>1, <2>2, <2>3, ConfidenceGrows, ConfidenceTyped DEF Score
<1>11. ASSUME NEW a \in after, a # p
       PROVE  /\ a \in before
              /\ \E x : /\ RunsOf(a, wider)' = x /\ RunsOf(a, scope) = x
                       /\ Score(x)' = Score(x)
  <2>1. PICK x : x = runs(a)
    OBVIOUS
  <2>2. RunsOf(a, wider)' = x /\ RunsOf(a, scope) = x /\ x \in SUBSET (1..N)
    BY <1>6, <1>11, <2>1
  <2>3. MergedIn(x)' = MergedIn(x)
    BY <2>2, MergeCounts
  <2>4. Cardinality(x) >= MinSamples /\ MajorityMerged(x)'
    <3>1. Eligible(a, wider)'
      BY <1>3, <1>11
    <3> QED
      BY <1>4, <2>2, <3>1 DEF EligibleByRuns
  <2>5. MajorityMerged(x)
    BY <2>3, <2>4 DEF MajorityMerged
  <2>6. Eligible(a, scope)
    BY <1>4, <2>2, <2>4, <2>5 DEF EligibleByRuns
  <2>7. a \in AgentsIn(scope)
    <3>1. x # {}
      <4>1. Cardinality({}) = 0 /\ MinSamples # 0
        BY FS_EmptySet, HistoryAssumption
      <4>2. Cardinality(x) # 0
        BY <1>0, <2>4, <4>1
      <4> QED
        BY <4>1, <4>2
    <3>2. PICK i \in x : TRUE
      BY <3>1
    <3>3. i \in scope /\ history[i].kind.provider = a
      BY <2>2, <3>2 DEF RunsOf
    <3> QED
      BY <3>3 DEF AgentsIn
  <2>8. Score(x)' = Score(x)
    BY <2>3 DEF Score
  <2> QED
    BY <1>2, <2>2, <2>6, <2>7, <2>8
<1>12. p \in after
  <2>1. p \in AgentsIn(wider)'
    BY <1>0 DEF AgentsIn
  <2>2. PICK x : x = own \cup {N + 1}
    OBVIOUS
  <2>3. RunsOf(p, wider)' = x /\ RunsOf(p, scope) = own
    BY <1>6, <1>8, <2>2
  <2>4. Cardinality(own) >= MinSamples /\ MajorityMerged(own)
    <3>1. Eligible(p, scope)
      BY <1>2, <1>5 DEF IsBest
    <3> QED
      BY <1>4, <2>3, <3>1 DEF EligibleByRuns
  <2>5. Cardinality(own) \in Nat /\ MergedIn(own) \in Nat
    BY <1>7, <1>8
  <2>6. Cardinality(x) >= MinSamples
    BY <1>0, <1>9, <2>2, <2>4, <2>5
  <2>7. MajorityMerged(x)'
    <3>1. MergedIn(x)' = MergedIn(own) + 1 /\ Cardinality(x) = Cardinality(own) + 1
      BY <1>9, <2>2
    <3>2. 2 * (MergedIn(own) + 1) >= Cardinality(own) + 2
      BY <2>4 DEF MajorityMerged
    <3>3. 2 * (MergedIn(x)' + 1) >= Cardinality(x) + 2
      BY <2>5, <3>1, <3>2
    <3> QED
      BY <3>3 DEF MajorityMerged
  <2>8. Eligible(p, wider)'
    BY <1>4, <2>3, <2>6, <2>7 DEF EligibleByRuns
  <2> QED
    BY <1>3, <2>1, <2>8
<1>13. ASSUME NEW b \in after \ {p}
       PROVE  /\ Outranks(p, b, wider)' /\ ~(Outranks(b, p, wider)')
  <2>1. PICK x : x = own \cup {N + 1}
    OBVIOUS
  <2>2. PICK y : /\ RunsOf(b, wider)' = y /\ RunsOf(b, scope) = y
                 /\ Score(y)' = Score(y)
    BY <1>11, <1>13
  <2>3. /\ RunsOf(p, wider)' = x /\ RunsOf(p, scope) = own
        /\ RunsOf(b, wider)' = y /\ RunsOf(b, scope) = y
        /\ b \in before /\ Score(y)' = Score(y)
    BY <1>6, <1>8, <1>11, <1>13, <2>1, <2>2
  <2>8. Score(y) \in 0..100 /\ Cardinality(y) \in Nat
    <3>1. y = runs(b)
      BY <1>6, <2>2
    <3> QED
      BY <1>7, <3>1
  <2>4. BetterRuns(own, y) \/ SameRuns(own, y)
    <3>1. Outranks(p, b, scope)
      BY <1>5, <1>13, <2>3 DEF IsBest
    <3> QED
      BY <1>4, <2>3, <3>1 DEF RanksByRuns
  <2>5. /\ Score(own) \in 0..100 /\ Score(y) \in 0..100
        /\ Cardinality(own) \in Nat /\ Cardinality(y) \in Nat
        /\ Score(x)' \in 0..100 /\ Score(own) <= Score(x)'
        /\ Cardinality(x) = Cardinality(own) + 1
    BY <1>7, <1>8, <1>9, <1>10, <2>1, <2>8
  <2>6. /\ Score(x)' > Score(y) \/ (Score(x)' = Score(y) /\ Cardinality(x) > Cardinality(y))
        /\ ~(Score(y) > Score(x)' \/ (Score(y) = Score(x)' /\ Cardinality(y) > Cardinality(x)))
        /\ ~(Score(y) = Score(x)' /\ Cardinality(y) = Cardinality(x))
    BY <2>4, <2>5 DEF BetterRuns, SameRuns
  <2>7. BetterRuns(x, y)' /\ ~(BetterRuns(y, x)') /\ ~(SameRuns(y, x)')
    BY <2>3, <2>6 DEF BetterRuns, SameRuns
  <2> QED
    BY <1>4, <2>3, <2>7 DEF RanksByRuns
<1>14. IsBest(p, after, wider)'
  BY <1>12, <1>13 DEF IsBest
<1>15. RecommendProvider(workType, repo)' = p
  <2>1. PICK c : c = RecommendProvider(workType, repo)'
    OBVIOUS
  <2>2. IsBest(c, after, wider)'
    <3>1. LadderScope(workType, repo)' = wider
      OBVIOUS
    <3> HIDE DEF wider
    <3> QED
      BY <1>3, <1>4, <1>14, <2>1, <3>1 DEF RecommendsABest
  <2>3. c = p
    <3> SUFFICES ASSUME c # p PROVE FALSE
      OBVIOUS
    <3>1. c \in after /\ Outranks(c, p, wider)'
      BY <1>12, <2>2 DEF IsBest
    <3> QED
      BY <1>13, <3>1
  <2> QED
    BY <2>1, <2>3
<1> QED
  BY <1>0, <1>15 DEF SelectDispatchProvider

\* What is offered, of a named scope.
OffersByFit(prefix, workType, scope, repo, fit) ==
  /\ scope = PriorScope(Len(history), Len(history), prefix, workType)
  /\ fit = {i \in scope : history[i].kind.repo = repo}
  => LET offered == CandidatesFor(Len(history), Len(history), prefix, workType)
     IN  /\ repo \in DOMAIN offered =>
              /\ fit # {} /\ Cardinality(fit) >= MinSamples /\ MajorityMerged(fit)
              /\ offered[repo]
                   = SmoothedConfidence(MergedIn(fit), Cardinality(fit), ConfidenceCap)
         /\ fit # {} /\ Cardinality(fit) >= MinSamples /\ MajorityMerged(fit) =>
              repo \in DOMAIN offered

OffersByRuns ==
  \A prefix, workType, scope, repo, fit : OffersByFit(prefix, workType, scope, repo, fit)

LEMMA OfferingIsByRuns == OffersByRuns
<1> SUFFICES ASSUME NEW prefix, NEW workType, NEW scope, NEW repo, NEW fit,
                    scope = PriorScope(Len(history), Len(history), prefix, workType),
                    fit = {i \in scope : history[i].kind.repo = repo}
             PROVE  LET offered == CandidatesFor(Len(history), Len(history), prefix, workType)
                    IN  /\ repo \in DOMAIN offered =>
                             /\ fit # {} /\ Cardinality(fit) >= MinSamples /\ MajorityMerged(fit)
                             /\ offered[repo] = SmoothedConfidence(MergedIn(fit),
                                                  Cardinality(fit), ConfidenceCap)
                        /\ fit # {} /\ Cardinality(fit) >= MinSamples /\ MajorityMerged(fit) =>
                             repo \in DOMAIN offered
  BY DEF OffersByRuns, OffersByFit
<1> DEFINE fits(x) == {i \in scope : history[i].kind.repo = x}
           repos == {x \in {history[i].kind.repo : i \in scope} :
                       Cardinality(fits(x)) >= MinSamples /\ MajorityMerged(fits(x))}
<1>1. CandidatesFor(Len(history), Len(history), prefix, workType)
        = [x \in repos |->
             SmoothedConfidence(MergedIn(fits(x)), Cardinality(fits(x)), ConfidenceCap)]
  BY DEF CandidatesFor
<1>2. fits(repo) = fit
  OBVIOUS
<1>3. repo \in repos <=> fit # {} /\ Cardinality(fit) >= MinSamples /\ MajorityMerged(fit)
  BY <1>2
<1> HIDE DEF fits, repos
<1> QED
  BY <1>1, <1>2, <1>3

LEMMA MergeKeepsRepository ==
  ASSUME NEW kind, NEW N, MergeRecorded(kind, N), NEW scope, NEW prefix, NEW workType,
         scope = PriorScope(Len(history), Len(history), prefix, workType),
         PriorScope(Len(history), Len(history), prefix, workType)' = scope \cup {N + 1},
         kind.repo \in DOMAIN CandidatesFor(Len(history), Len(history), prefix, workType)
  PROVE  /\ kind.repo \in DOMAIN CandidatesFor(Len(history), Len(history), prefix, workType)'
         /\ CandidatesFor(Len(history), Len(history), prefix, workType)'[kind.repo]
              >= CandidatesFor(Len(history), Len(history), prefix, workType)[kind.repo]
<1>0. /\ HistoryInv /\ N \in Nat /\ N = Len(history)
      /\ \A i \in 1..N : history'[i] = history[i]
      /\ history'[N + 1].kind = kind /\ MinSamples \in Nat /\ ConfidenceCap \in Nat
  BY HistoryAssumption DEF MergeRecorded
<1>1. scope \in SUBSET (1..N)
  BY <1>0, PriorScopeIsSeen
<1>2. PICK repo : repo = kind.repo
  OBVIOUS
<1>3. PICK fit : fit = {i \in scope : history[i].kind.repo = repo}
  OBVIOUS
<1>4. PICK wider : wider = scope \cup {N + 1}
  OBVIOUS
<1>5. PICK more : more = fit \cup {N + 1}
  OBVIOUS
<1>6. OffersByRuns /\ OffersByRuns'
  BY OfferingIsByRuns, PTL
<1>7. more = {i \in wider : history'[i].kind.repo = repo}
  BY <1>0, <1>1, <1>2, <1>3, <1>4, <1>5
<1>8. /\ Cardinality(fit) >= MinSamples /\ MajorityMerged(fit)
      /\ CandidatesFor(Len(history), Len(history), prefix, workType)[repo]
           = SmoothedConfidence(MergedIn(fit), Cardinality(fit), ConfidenceCap)
  <2>1. OffersByFit(prefix, workType, scope, repo, fit)
    BY <1>6 DEF OffersByRuns
  <2> QED
    BY <1>2, <1>3, <2>1 DEF OffersByFit
<1>9. /\ Cardinality(fit) \in Nat /\ MergedIn(fit) \in Nat
      /\ MergedIn(fit) <= Cardinality(fit)
      /\ MergedIn(more)' = MergedIn(fit) + 1 /\ Cardinality(more) = Cardinality(fit) + 1
  <2>1. fit \in SUBSET (1..N)
    BY <1>1, <1>3
  <2> QED
    BY <1>5, <2>1, MergeCounts
<1>10. more # {} /\ Cardinality(more) >= MinSamples /\ MajorityMerged(more)'
  <2>1. 2 * (MergedIn(fit) + 1) >= Cardinality(fit) + 2
    BY <1>8 DEF MajorityMerged
  <2>2. 2 * (MergedIn(more)' + 1) >= Cardinality(more) + 2
    BY <1>9, <2>1
  <2>3. Cardinality(more) >= MinSamples
    BY <1>0, <1>8, <1>9
  <2> QED
    BY <1>5, <2>2, <2>3 DEF MajorityMerged
<1>11. /\ repo \in DOMAIN CandidatesFor(Len(history), Len(history), prefix, workType)'
       /\ CandidatesFor(Len(history), Len(history), prefix, workType)'[repo]
            = SmoothedConfidence(MergedIn(more)', Cardinality(more), ConfidenceCap)
  <2>1. wider = PriorScope(Len(history), Len(history), prefix, workType)'
    BY <1>4
  <2>2. OffersByFit(prefix, workType, wider, repo, more)'
    BY <1>6 DEF OffersByRuns
  <2> QED
    BY <1>7, <1>10, <2>1, <2>2 DEF OffersByFit
<1>12. /\ SmoothedConfidence(MergedIn(fit), Cardinality(fit), ConfidenceCap)
            <= SmoothedConfidence(MergedIn(fit) + 1, Cardinality(fit) + 1, ConfidenceCap)
       /\ SmoothedConfidence(MergedIn(fit), Cardinality(fit), ConfidenceCap)
            \in 0..ConfidenceCap
       /\ SmoothedConfidence(MergedIn(fit) + 1, Cardinality(fit) + 1, ConfidenceCap)
            \in 0..ConfidenceCap
  <2>1. MergedIn(fit) + 1 \in Nat /\ Cardinality(fit) + 1 \in Nat
    BY <1>9
  <2> QED
    BY <1>0, <1>9, <2>1, ConfidenceGrows, ConfidenceTyped
<1> QED
  BY <1>2, <1>8, <1>9, <1>11, <1>12

LEMMA MergesPromote == HistoryInv /\ [NextHistory]_historyVars => MergesNeverDemote
<1> SUFFICES ASSUME HistoryInv, [NextHistory]_historyVars, NEW kind \in HistoryRows,
                    Len(history') > Len(history), history'[Len(history')].kind = kind,
                    kind.merged
             PROVE  LET before == CandidatesFor(Len(history), Len(history), kind.prefix, kind.workType)
                        after == CandidatesFor(Len(history), Len(history), kind.prefix, kind.workType)'
                        added(scope, now) == now = scope \cup {Len(history) + 1}
                    IN  /\ added(LadderScope(kind.workType, kind.repo),
                                 LadderScope(kind.workType, kind.repo)')
                           /\ RecommendProvider(kind.workType, kind.repo) = kind.provider
                           => SelectDispatchProvider(kind.workType, kind.repo)' = kind.provider
                        /\ added(PriorScope(Len(history), Len(history), kind.prefix, kind.workType),
                                 PriorScope(Len(history), Len(history), kind.prefix, kind.workType)')
                           /\ kind.repo \in DOMAIN before
                           => kind.repo \in DOMAIN after /\ after[kind.repo] >= before[kind.repo]
  BY DEF MergesNeverDemote
<1>1. PICK N : N = Len(history)
  OBVIOUS
<1>2. N \in Nat
  BY <1>1 DEF HistoryInv
<1>3. MergeRecorded(kind, N)
  BY <1>1, <1>2, MergedRowComes DEF MergeRecorded
<1>4. ASSUME LadderScope(kind.workType, kind.repo)'
               = LadderScope(kind.workType, kind.repo) \cup {N + 1},
             RecommendProvider(kind.workType, kind.repo) = kind.provider
      PROVE  SelectDispatchProvider(kind.workType, kind.repo)' = kind.provider
  <2>1. PICK scope, w, r : /\ scope = LadderScope(kind.workType, kind.repo)
                           /\ w = kind.workType /\ r = kind.repo
    OBVIOUS
  <2> QED
    BY <1>3, <1>4, <2>1, MergeKeepsAgent
<1>5. ASSUME PriorScope(Len(history), Len(history), kind.prefix, kind.workType)'
               = PriorScope(Len(history), Len(history), kind.prefix, kind.workType) \cup {N + 1},
             kind.repo \in DOMAIN CandidatesFor(Len(history), Len(history), kind.prefix, kind.workType)
      PROVE  /\ kind.repo \in DOMAIN CandidatesFor(Len(history), Len(history), kind.prefix, kind.workType)'
             /\ CandidatesFor(Len(history), Len(history), kind.prefix, kind.workType)'[kind.repo]
                  >= CandidatesFor(Len(history), Len(history), kind.prefix, kind.workType)[kind.repo]
  <2>1. PICK scope : scope = PriorScope(Len(history), Len(history), kind.prefix, kind.workType)
    OBVIOUS
  <2> QED
    BY <1>3, <1>5, <2>1, MergeKeepsRepository
<1> QED
  BY <1>1, <1>4, <1>5

SumsTo(card, view) ==
  /\ card.runs = SumFunction([x \in DOMAIN view |-> view[x].runs])
  /\ card.merged = SumFunction([x \in DOMAIN view |-> view[x].merged])
  /\ card.retries = SumFunction([x \in DOMAIN view |-> view[x].retries])

\* A view that has a card for each cell.
CutsByLabel(part, marks, label, view) ==
  /\ part \in SUBSET (1..Len(history))
  /\ IsFiniteSet(marks) /\ label \in [part -> marks]
  /\ view = [x \in marks |-> Card(Cell(part, label, x))]

LEMMA CutsSumTo ==
  ASSUME HistoryInv, NEW part, NEW marks, NEW label, NEW view,
         CutsByLabel(part, marks, label, view)
  PROVE  SumsTo(Card(part), view)
<1> USE DEF CutsByLabel
<1>0. DOMAIN view = marks /\ IsFiniteSet(part)
  BY HistoryCounts
<1>1. \A s : /\ Card(s).runs = Cardinality(s)
             /\ Card(s).merged = MergedIn(s)
             /\ Card(s).retries = SumFunction([i \in s |-> history[i].kind.jobs]) - Cardinality(s)
  BY DEF Card
<1>2. \A x : Cell(part, label, x) \in SUBSET part
  BY DEF Cell
<1> DEFINE runs == [x \in marks |-> Cardinality(Cell(part, label, x))]
<1>3. [x \in DOMAIN view |-> view[x].runs] = runs
  BY <1>0, <1>1
<1>4. SumFunction(runs) = Cardinality(part)
  BY <1>0, CountsAddUp
<1>5. Card(part).merged = SumFunction([x \in DOMAIN view |-> view[x].merged])
  <2> DEFINE merges == {i \in part : history[i].kind.merged}
             ofMerges == [i \in merges |-> label[i]]
             counts == [x \in marks |-> Cardinality(Cell(merges, ofMerges, x))]
  <2>1. merges \in SUBSET part /\ ofMerges \in [merges -> marks]
    OBVIOUS
  <2>2. \A x : {i \in Cell(part, label, x) : history[i].kind.merged} = Cell(merges, ofMerges, x)
    BY DEF Cell
  <2>3. ASSUME NEW x \in marks PROVE view[x].merged = Cardinality(Cell(merges, ofMerges, x))
    <3>1. view[x].merged = MergedIn(Cell(part, label, x))
      BY <1>1
    <3> QED
      BY <2>2, <3>1 DEF MergedIn
  <2>4. [x \in DOMAIN view |-> view[x].merged] = counts
    <3> HIDE DEF merges, ofMerges
    <3> QED
      BY <1>0, <2>3
  <2>5. SumFunction(counts) = Cardinality(merges)
    <3> HIDE DEF merges, ofMerges
    <3>1. IsFiniteSet(merges)
      BY <1>0, <2>1, FS_Subset
    <3> QED
      BY <2>1, <3>1, CountsAddUp
  <2>6. MergedIn(part) = Cardinality(merges)
    BY DEF MergedIn
  <2> HIDE DEF counts, merges
  <2> QED
    BY <1>1, <2>4, <2>5, <2>6
<1>6. Card(part).retries = SumFunction([x \in DOMAIN view |-> view[x].retries])
  <2> DEFINE jobs == [i \in part |-> history[i].kind.jobs]
             launched == [x \in marks |-> SumWithin(jobs, Cell(part, label, x))]
             again == [x \in marks |-> launched[x] - runs[x]]
  <2>1. jobs \in [part -> Int]
    BY RowsTyped
  <2>2. ASSUME NEW x \in marks PROVE launched[x] \in Int /\ runs[x] \in Int
    <3> DEFINE cell == Cell(part, label, x)
               own == [i \in cell |-> jobs[i]]
    <3>1. cell \in SUBSET part /\ IsFiniteSet(cell)
      BY <1>0, <1>2, FS_Subset
    <3>2. own \in [cell -> Int]
      BY <2>1, <3>1
    <3>3. SumFunction(own) \in Int /\ Cardinality(cell) \in Int
      <4> HIDE DEF own, cell
      <4> QED
        BY <3>1, <3>2, SumTyped, FS_CardinalityType
    <3> QED
      BY <3>3 DEF SumWithin
  <2>3. launched \in [marks -> Int] /\ runs \in [marks -> Int]
    <3> HIDE DEF jobs
    <3> QED
      BY <2>2
  <2>4. SumFunction(again) = SumFunction(launched) - SumFunction(runs)
    <3> HIDE DEF launched, runs
    <3> QED
      BY <2>3, SumOfDifferences
  <2>5. SumFunction(launched) = SumFunction(jobs)
    <3>1. \A x \in marks : launched[x] = SumWithin(jobs, Cell(part, label, x))
      OBVIOUS
    <3> HIDE DEF launched, jobs
    <3>2. SumsByCell(part, marks, label, jobs, launched)
      BY <1>0, <2>1, <2>3, <3>1 DEF SumsByCell
    <3> QED
      BY <3>2, CellsAddUp
  <2>6. ASSUME NEW x \in marks PROVE view[x].retries = launched[x] - runs[x]
    <3>1. [i \in Cell(part, label, x) |-> history[i].kind.jobs]
            = [i \in Cell(part, label, x) |-> jobs[i]]
      BY <1>2
    <3> QED
      BY <1>1, <3>1 DEF SumWithin
  <2>7. [x \in DOMAIN view |-> view[x].retries] = again
    <3> HIDE DEF launched, runs
    <3> QED
      BY <1>0, <2>6
  <2>8. Card(part).retries = SumFunction(jobs) - Cardinality(part)
    BY <1>1
  <2> HIDE DEF again, launched, jobs, runs
  <2> QED
    BY <1>4, <2>4, <2>5, <2>7, <2>8
<1> QED
  BY <1>1, <1>3, <1>4, <1>5, <1>6 DEF SumsTo

LEMMA IntervalsHaveEnds ==
  ASSUME NEW lo \in Int, NEW hi \in Int, NEW S \in SUBSET (lo..hi), S # {}
  PROVE  /\ Min(S) \in S /\ \A x \in S : Min(S) <= x
         /\ Max(S) \in S /\ \A x \in S : x <= Max(S)
<1>1. PICK m \in S : \A x \in S : m <= x
  <2> DEFINE up == {x - lo : x \in S}
  <2>1. up \in SUBSET Nat /\ up # {}
    OBVIOUS
  <2>2. PICK u \in up : \A x \in up : u <= x
    <3> HIDE DEF up
    <3> QED
      BY <2>1, NumbersHaveAFirst
  <2>3. \A x \in S : u <= x - lo
    BY <2>2
  <2>4. PICK m \in S : u = m - lo
    BY <2>2
  <2>5. \A x \in S : m <= x
    BY <2>3, <2>4
  <2> QED
    BY <2>5
<1>2. PICK n \in S : \A x \in S : x <= n
  <2> DEFINE down == {hi - x : x \in S}
  <2>1. down \in SUBSET Nat /\ down # {}
    OBVIOUS
  <2>2. PICK u \in down : \A x \in down : u <= x
    <3> HIDE DEF down
    <3> QED
      BY <2>1, NumbersHaveAFirst
  <2>3. \A x \in S : u <= hi - x
    BY <2>2
  <2>4. PICK n \in S : u = hi - n
    BY <2>2
  <2>5. \A x \in S : x <= n
    BY <2>3, <2>4
  <2> QED
    BY <2>5
<1> QED
  BY <1>1, <1>2 DEF Min, Max

LEMMA WeeksAreApart ==
  ASSUME NEW a \in Int, NEW b \in Int
  PROVE  (BucketStart(b, "week") - BucketStart(a, "week")) % DaysPerWeek = 0
<1> DEFINE d == DaysPerWeek
           p == (a + FirstWeekday) \div d
           q == (b + FirstWeekday) \div d
           r == (a + FirstWeekday) % d
           s == (b + FirstWeekday) % d
<1>1. d \in Nat \ {0} /\ FirstWeekday \in Int
  BY PeriodsAssumption
<1>2. /\ p \in Int /\ r \in 0..d - 1 /\ a + FirstWeekday = d * p + r
      /\ q \in Int /\ s \in 0..d - 1 /\ b + FirstWeekday = d * q + s
  <2>1. a + FirstWeekday \in Int /\ b + FirstWeekday \in Int
    BY <1>1
  <2> HIDE DEF d
  <2> QED
    BY <1>1, <2>1, Quotients
<1>3. BucketStart(b, "week") = b - s /\ BucketStart(a, "week") = a - r
  BY DEF BucketStart
<1> HIDE DEF p, q, r, s, d
<1>4. (b - s) - (a - r) = d * q - d * p
  <2> DEFINE x == d * p
             y == d * q
  <2>1. x \in Int /\ y \in Int /\ a + FirstWeekday = x + r /\ b + FirstWeekday = y + s
    BY <1>1, <1>2
  <2> HIDE DEF x, y
  <2>2. (b - s) - (a - r) = y - x
    BY <1>1, <1>2, <2>1
  <2> QED
    BY <2>2 DEF x, y
<1>5. d * q - d * p = d * (q - p) + 0
  BY <1>1, <1>2
<1>6. (d * (q - p) + 0) % d = 0
  <2>1. q - p \in Int /\ 0 \in 0..d - 1
    BY <1>1, <1>2
  <2> QED
    BY <1>1, <2>1, OneQuotient
<1> QED
  BY <1>3, <1>4, <1>5, <1>6 DEF d

\* Every populated period is on the axis, and the axis is finite.
LEMMA AxisHoldsAll ==
  ASSUME NEW hi \in Nat, NEW days \in SUBSET (0..hi), NEW bucket \in TrendBuckets
  PROVE  LET axis == DeliveryAxis({BucketStart(d, bucket) : d \in days}, bucket)
         IN  IsFiniteSet(axis) /\ \A d \in days : BucketStart(d, bucket) \in axis
<1> DEFINE starts == {BucketStart(d, bucket) : d \in days}
           axis == DeliveryAxis(starts, bucket)
           step == IF bucket = "day" THEN 1 ELSE DaysPerWeek
<1>1. DaysPerWeek \in Nat \ {0} /\ FirstWeekday \in Int
  BY PeriodsAssumption
<1>2. \A d \in days : BucketStart(d, bucket) \in -DaysPerWeek..hi
  <2> SUFFICES ASSUME NEW d \in days PROVE BucketStart(d, bucket) \in -DaysPerWeek..hi
    OBVIOUS
  <2>1. d \in 0..hi
    OBVIOUS
  <2>2. (d + FirstWeekday) % DaysPerWeek \in 0..DaysPerWeek - 1
    <3>1. d + FirstWeekday \in Int
      BY <1>1, <2>1
    <3> QED
      BY <1>1, <3>1, Quotients
  <2>3. BucketStart(d, bucket) \in {d, d - ((d + FirstWeekday) % DaysPerWeek)}
    BY DEF BucketStart
  <2> QED
    BY <1>1, <2>1, <2>2, <2>3
<1>3. CASE days = {}
  <2>1. starts = {}
    BY <1>3
  <2>2. axis = {}
    <3> HIDE DEF starts
    <3> QED
      BY <2>1 DEF DeliveryAxis
  <2> QED
    BY <1>3, <2>2, FS_EmptySet
<1>4. CASE days # {}
  <2>1. starts \in SUBSET (-DaysPerWeek..hi) /\ starts # {}
    BY <1>2, <1>4
  <2>2. /\ Min(starts) \in starts /\ \A x \in starts : Min(starts) <= x
        /\ Max(starts) \in starts /\ \A x \in starts : x <= Max(starts)
    <3>1. -DaysPerWeek \in Int /\ hi \in Int
      BY <1>1
    <3> HIDE DEF starts
    <3> QED
      BY <2>1, <3>1, IntervalsHaveEnds
  <2>3. Min(starts) \in Int /\ Max(starts) \in Int /\ \A x \in starts : x \in Int
    <3>1. -DaysPerWeek \in Int /\ hi \in Int
      BY <1>1
    <3>2. ASSUME NEW x \in starts PROVE x \in Int
      <4>1. x \in -DaysPerWeek..hi
        BY <2>1
      <4> HIDE DEF starts
      <4> QED
        BY <3>1, <4>1
    <3> HIDE DEF starts
    <3> QED
      BY <2>2, <3>2
  <2>4. axis = {start \in Min(starts)..Max(starts) : ((start - Min(starts)) % step) = 0}
    <3> HIDE DEF starts
    <3> QED
      BY <2>1 DEF DeliveryAxis
  <2>5. IsFiniteSet(axis)
    <3>1. IsFiniteSet(Min(starts)..Max(starts))
      <4> HIDE DEF starts
      <4> QED
        BY <2>3, FS_Interval
    <3>2. axis \in SUBSET (Min(starts)..Max(starts))
      <4> HIDE DEF starts
      <4> QED
        BY <2>4
    <3> HIDE DEF axis
    <3> QED
      BY <3>1, <3>2, FS_Subset
  <2>6. ASSUME NEW d \in days PROVE BucketStart(d, bucket) \in axis
    <3>1. PICK e \in days : Min(starts) = BucketStart(e, bucket)
      BY <2>2
    <3>2. d \in Int /\ e \in Int
      OBVIOUS
    <3>3. ((BucketStart(d, bucket) - BucketStart(e, bucket)) % step) = 0
      <4>1. CASE bucket = "week"
        BY <3>2, <4>1, WeeksAreApart
      <4>2. CASE bucket = "day"
        <5>1. BucketStart(d, bucket) - BucketStart(e, bucket) \in Int
          BY <3>2, <4>2 DEF BucketStart
        <5>2. \A x \in Int : (x % 1) = 0
          OBVIOUS
        <5> QED
          BY <4>2, <5>1, <5>2
      <4> QED
        BY <4>1, <4>2 DEF TrendBuckets
    <3>4. BucketStart(d, bucket) \in starts
      OBVIOUS
    <3>5. BucketStart(d, bucket) \in Min(starts)..Max(starts)
      <4> HIDE DEF starts
      <4> QED
        BY <2>2, <2>3, <3>4
    <3> HIDE DEF axis, starts, step
    <3> QED
      BY <2>4, <3>1, <3>3, <3>5
  <2> QED
    BY <2>5, <2>6
<1> QED
  BY <1>3, <1>4

LEMMA FewLabels ==
  ASSUME NEW items, IsFiniteSet(items), NEW label, DOMAIN label = items,
         label = [i \in items |-> label[i]]
  PROVE  /\ IsFiniteSet({label[i] : i \in items})
         /\ label \in [items -> {label[i] : i \in items}]
<1>1. label \in Surjection(items, {label[i] : i \in items})
  BY DEF Surjection
<1> QED
  BY <1>1, FS_Surjection

LEMMA ScorecardsSum == HistoryInv => ScorecardsAddUp
<1> SUFFICES ASSUME HistoryInv, NEW agent \in DOMAIN AgentScorecards
             PROVE  LET card == AgentScorecards[agent]
                    IN  /\ SumsTo(card.overall, card.byWorkType)
                        /\ SumsTo(card.overall, card.byRepo)
                        /\ \A bucket \in TrendBuckets :
                             SumsTo(card.overall, AgentScorecardTrends(0, bucket)[agent])
  BY DEF ScorecardsAddUp, SumsTo
<1> DEFINE part == RunsOf(agent, AllRows)
           typeOf == [i \in part |-> history[i].kind.workType]
           repoOf == [i \in part |-> history[i].kind.repo]
           types == {history[i].kind.workType : i \in part}
           repos == {history[i].kind.repo : i \in part}
           byType == [x \in types |-> Card({i \in part : history[i].kind.workType = x})]
           byRepo == [x \in repos |-> Card({i \in part : history[i].kind.repo = x})]
<1>1. /\ AgentScorecards[agent] = [overall |-> Card(part), byWorkType |-> byType, byRepo |-> byRepo]
      /\ agent \in AgentsIn(AllRows)
  BY DEF AgentScorecards
<1>2. part \in SUBSET (1..Len(history)) /\ IsFiniteSet(part)
  <2>1. part \in SUBSET (1..Len(history))
    BY DEF RunsOf, AllRows
  <2> HIDE DEF part
  <2> QED
    BY <2>1, HistoryCounts
<1>3. SumsTo(Card(part), byType)
  <2>1. types = {typeOf[i] : i \in part}
    OBVIOUS
  <2>2. IsFiniteSet(types) /\ typeOf \in [part -> types]
    <3>1. DOMAIN typeOf = part /\ typeOf = [i \in part |-> typeOf[i]]
      OBVIOUS
    <3> HIDE DEF part, typeOf, types
    <3> QED
      BY <1>2, <2>1, <3>1, FewLabels
  <2>3. byType = [x \in types |-> Card(Cell(part, typeOf, x))]
    <3>1. \A x : {i \in part : history[i].kind.workType = x} = Cell(part, typeOf, x)
      BY DEF Cell
    <3> HIDE DEF part, typeOf, types
    <3> QED
      BY <3>1
  <2>4. CutsByLabel(part, types, typeOf, byType)
    <3> HIDE DEF part, typeOf, types, byType
    <3> QED
      BY <1>2, <2>2, <2>3 DEF CutsByLabel
  <2> HIDE DEF part, typeOf, types, byType
  <2> QED
    BY <2>4, CutsSumTo
<1>4. SumsTo(Card(part), byRepo)
  <2>1. repos = {repoOf[i] : i \in part}
    OBVIOUS
  <2>2. IsFiniteSet(repos) /\ repoOf \in [part -> repos]
    <3>1. DOMAIN repoOf = part /\ repoOf = [i \in part |-> repoOf[i]]
      OBVIOUS
    <3> HIDE DEF part, repoOf, repos
    <3> QED
      BY <1>2, <2>1, <3>1, FewLabels
  <2>3. byRepo = [x \in repos |-> Card(Cell(part, repoOf, x))]
    <3>1. \A x : {i \in part : history[i].kind.repo = x} = Cell(part, repoOf, x)
      BY DEF Cell
    <3> HIDE DEF part, repoOf, repos
    <3> QED
      BY <3>1
  <2>4. CutsByLabel(part, repos, repoOf, byRepo)
    <3> HIDE DEF part, repoOf, repos, byRepo
    <3> QED
      BY <1>2, <2>2, <2>3 DEF CutsByLabel
  <2> HIDE DEF part, repoOf, repos, byRepo
  <2> QED
    BY <2>4, CutsSumTo
<1>5. ASSUME NEW bucket \in TrendBuckets
      PROVE  SumsTo(Card(part), AgentScorecardTrends(0, bucket)[agent])
  <2> DEFINE startOf == [i \in part |-> BucketStart(history[i].at, bucket)]
             days == {history[i].at : i \in AllRows}
             axis == DeliveryAxis({BucketStart(d, bucket) : d \in days}, bucket)
             trend == [x \in axis |-> Card({i \in part : BucketStart(history[i].at, bucket) = x})]
  <2>1. \A i \in AllRows : history[i].at \in 0..hour
    BY RowsTyped DEF AllRows
  <2>2. hour \in Nat
    BY DEF HistoryInv
  <2>3. {i \in AllRows : history[i].at >= 0} = AllRows
    BY <2>1, <2>2
  <2>4. {BucketStart(history[i].at, bucket) : i \in AllRows} = {BucketStart(d, bucket) : d \in days}
    OBVIOUS
  <2>5. AgentScorecardTrends(0, bucket)[agent] = trend
    BY <1>1, <2>3, <2>4 DEF AgentScorecardTrends
  <2>6. days \in SUBSET (0..hour)
    BY <2>1
  <2>7. IsFiniteSet(axis) /\ \A d \in days : BucketStart(d, bucket) \in axis
    <3> HIDE DEF days
    <3> QED
      BY <2>2, <2>6, AxisHoldsAll
  <2>8. startOf \in [part -> axis]
    <3>1. part \subseteq AllRows
      BY DEF RunsOf
    <3>2. \A i \in part : history[i].at \in days
      BY <3>1
    <3> HIDE DEF days, axis, part
    <3> QED
      BY <2>7, <3>2
  <2>9. trend = [x \in axis |-> Card(Cell(part, startOf, x))]
    <3>1. \A x : {i \in part : BucketStart(history[i].at, bucket) = x} = Cell(part, startOf, x)
      BY DEF Cell
    <3> HIDE DEF part, startOf, axis
    <3> QED
      BY <3>1
  <2>10. CutsByLabel(part, axis, startOf, trend)
    <3> HIDE DEF part, startOf, axis, trend
    <3> QED
      BY <1>2, <2>7, <2>8, <2>9 DEF CutsByLabel
  <2>11. SumsTo(Card(part), trend)
    <3> HIDE DEF part, startOf, axis, trend
    <3> QED
      BY <2>10, CutsSumTo
  <2> HIDE DEF part, trend
  <2> QED
    BY <2>5, <2>11
<1> HIDE DEF part, byType, byRepo
<1> QED
  BY <1>1, <1>3, <1>4, <1>5

-----------------------------------------------------------------------------
(* History's promises.                                                       *)

\* From whichever outcomes the two tables of the priors were built, routing offers
\* no repository that merges less often than not or above the configured cap
\* (memory/priors.py), and each cut of a scorecard, by work type, by repository or
\* by week, adds up to the whole (memory/scorecards.py).
THEOREM HistoryIsTold == HistorySpec => [](PriorsAreSound /\ ScorecardsAddUp)
<1>1. HistoryInv => PriorsAreSound /\ ScorecardsAddUp
  BY PriorsSound, ScorecardsSum
<1> QED
  BY <1>1, HistoryInit, HistoryNext, PTL DEF HistorySpec

\* Within the scope its decision was made from, a merged run never takes its
\* repository out of what routing offers, nor its confidence down, nor makes
\* another agent the recommended one (memory/scorecards.py).
THEOREM MergesAreRewarded == HistorySpec => [][MergesNeverDemote]_historyVars
<1>1. HistoryInv /\ [NextHistory]_historyVars => [MergesNeverDemote]_historyVars
  BY MergesPromote
<1> QED
  BY <1>1, HistoryInit, HistoryNext, PTL DEF HistorySpec

LEMMA HistoryAlone == ServicesSpec => HistorySpec
<1>1. [NextServices]_servicesVars => [NextHistory]_historyVars
  BY DEF NextServices, servicesVars, OthersStay, Still
<1> QED
  BY <1>1, PTL DEF ServicesSpec, InitServices, HistorySpec

-----------------------------------------------------------------------------
(* PriorsCache                                                               *)

\* A table holds every outcome from before a time.
HoldsUntil(table, time) ==
  \A i \in DOMAIN endings : i > table.upTo => endings[i].at >= time

PriorsObjects == [at : Unfilled..priorsTick, pair : PriorsTables, prefix : PriorsTables]

RouterRecords ==
  [pc : RouterPcs, tenant : Tenants \cup {NoTenant}, now : 0..priorsTick, rows : PriorsTables]

HasRows(r) == r.pc \in {"write pair", "write prefix", "stamp"}

PriorsHoldUntil(p, time) == HoldsUntil(p.pair, time) /\ HoldsUntil(p.prefix, time)

\* What a thread that is at r may count on, the cache being p: others may have
\* written over its tables, but none is older than the longest stall.
RouterCounts(r, p) ==
  /\ r.pc # "idle" => priorsTick - r.now <= MaxStall
  /\ HasRows(r) => HoldsUntil(r.rows, r.now)
  /\ r.pc \in {"write prefix", "stamp"} => HoldsUntil(p.pair, r.now - MaxStall)
  /\ r.pc = "stamp" => HoldsUntil(p.prefix, r.now - MaxStall)
  /\ r.pc \in {"read pair", "read prefix"} =>
       PriorsHoldUntil(p, r.now - MaxStall - PriorsTtl + 1)

PriorsInv ==
  /\ priorsTick \in Nat
  /\ endings \in Seq([tenant : Tenants, at : 0..priorsTick])
  /\ Len(endings) <= MaxEndings
  /\ priors \in PriorsObjects
  /\ routers \in [Routers -> RouterRecords]
  /\ PriorsHoldUntil(priors, priors.at - MaxStall)
  /\ \A t \in Routers : RouterCounts(routers[t], priors)

LEMMA EndingsAreDated ==
  ASSUME PriorsInv
  PROVE  /\ DOMAIN endings = 1..Len(endings) /\ Len(endings) \in Nat
         /\ \A i \in DOMAIN endings :
              endings[i].tenant \in Tenants /\ endings[i].at \in 0..priorsTick
<1> DEFINE Row == [tenant : Tenants, at : 0..priorsTick]
<1>1. endings \in Seq(Row)
  BY DEF PriorsInv
<1>2. \A row \in Row : row.tenant \in Tenants /\ row.at \in 0..priorsTick
  OBVIOUS
<1> HIDE DEF Row
<1>3. \A i \in DOMAIN endings : endings[i] \in Row
  BY <1>1
<1> QED
  BY <1>1, <1>2, <1>3

\* What the records hold, field by field.
LEMMA RoutersAreTyped ==
  ASSUME PriorsInv
  PROVE  /\ priorsTick \in Nat
         /\ priors.at \in Int /\ -1 <= priors.at /\ priors.at <= priorsTick
         /\ priors.pair \in PriorsTables /\ priors.prefix \in PriorsTables
         /\ \A t \in Routers :
              /\ routers[t].pc \in RouterPcs /\ routers[t].tenant \in Tenants \cup {NoTenant}
              /\ routers[t].now \in Nat /\ routers[t].now <= priorsTick
              /\ routers[t].rows \in PriorsTables
         /\ \A table \in PriorsTables : table.upTo \in Nat
<1>1. priorsTick \in Nat /\ Len(endings) \in Nat
  BY EndingsAreDated DEF PriorsInv
<1>2. /\ priors.at \in Unfilled..priorsTick
      /\ priors.pair \in PriorsTables /\ priors.prefix \in PriorsTables
  BY DEF PriorsInv, PriorsObjects
<1>3. priors.at \in Int /\ -1 <= priors.at /\ priors.at <= priorsTick
  BY <1>1, <1>2 DEF Unfilled
<1>4. ASSUME NEW t \in Routers
      PROVE  /\ routers[t].pc \in RouterPcs /\ routers[t].tenant \in Tenants \cup {NoTenant}
             /\ routers[t].now \in 0..priorsTick /\ routers[t].rows \in PriorsTables
  <2>1. routers[t] \in RouterRecords
    BY DEF PriorsInv
  <2> QED
    BY <2>1 DEF RouterRecords
<1>5. \A table \in PriorsTables : table.upTo \in Nat
  BY <1>1 DEF PriorsTables
<1> QED
  BY <1>1, <1>2, <1>3, <1>4, <1>5

LEMMA RecordsOfRouters ==
  ASSUME NEW pc \in RouterPcs, NEW tenant \in Tenants \cup {NoTenant},
         NEW now \in 0..priorsTick, NEW table \in PriorsTables
  PROVE  [pc |-> pc, tenant |-> tenant, now |-> now, rows |-> table] \in RouterRecords
  BY DEF RouterRecords

LEMMA EarlierHolds ==
  ASSUME PriorsInv, NEW table, NEW time \in Int, NEW earlier \in Int, earlier <= time,
         HoldsUntil(table, time)
  PROVE  HoldsUntil(table, earlier)
<1>1. \A i \in DOMAIN endings : endings[i].at \in Int
  BY EndingsAreDated
<1> QED
  BY <1>1 DEF HoldsUntil

LEMMA PriorsInit == InitPriors => PriorsInv
<1> SUFFICES ASSUME InitPriors PROVE PriorsInv
  OBVIOUS
<1> USE PriorsAssumption DEF InitPriors
<1>1. /\ priorsTick \in Nat /\ Len(endings) = 0 /\ DOMAIN endings = {}
      /\ endings \in Seq([tenant : Tenants, at : 0..priorsTick])
  OBVIOUS
<1>2. NoTable \in PriorsTables
  BY <1>1 DEF PriorsTables, NoTable
<1>3. priors \in PriorsObjects /\ AtRest \in RouterRecords
  BY <1>1, <1>2 DEF PriorsObjects, RouterRecords, Unfilled, AtRest, RouterPcs
<1>4. routers \in [Routers -> RouterRecords] /\ \A t \in Routers : routers[t] = AtRest
  BY <1>3
<1>5. \A table, time : HoldsUntil(table, time)
  BY <1>1 DEF HoldsUntil
<1>6. \A t \in Routers : RouterCounts(routers[t], priors)
  BY <1>4 DEF HasRows, RouterCounts, AtRest
<1> QED
  BY <1>1, <1>3, <1>4, <1>5, <1>6 DEF PriorsInv, PriorsHoldUntil

\* A step of one thread: what it leaves in the cache and where it goes.
LEMMA RouterMoves ==
  ASSUME PriorsInv, NEW t \in Routers, NEW next \in RouterRecords, NEW p \in PriorsObjects,
         endings' = endings, priorsTick' = priorsTick,
         priors' = p, routers' = [routers EXCEPT ![t] = next],
         PriorsHoldUntil(p, p.at - MaxStall), RouterCounts(next, p),
         \A u \in Routers \ {t} : RouterCounts(routers[u], p)
  PROVE  PriorsInv'
<1>1. /\ PriorsObjects' = PriorsObjects /\ RouterRecords' = RouterRecords
      /\ \A table, time : HoldsUntil(table, time)' = HoldsUntil(table, time)
  BY DEF PriorsObjects, RouterRecords, PriorsTables, HoldsUntil
<1>2. routers' \in [Routers -> RouterRecords]
  BY DEF PriorsInv
<1>3. \A u \in Routers : RouterCounts(routers'[u], p)
  BY DEF PriorsInv
<1>4. \A u \in Routers : RouterCounts(routers[u], priors)'
  BY <1>3 DEF HasRows, RouterCounts, PriorsHoldUntil, HoldsUntil
<1>5. PriorsHoldUntil(priors, priors.at - MaxStall)'
  BY DEF PriorsHoldUntil, HoldsUntil
<1> QED
  BY <1>1, <1>2, <1>4, <1>5 DEF PriorsInv

\* What a thread is about to write leaves no other thread with less than it
\* counts on.
LEMMA WrittenRowsServeAll ==
  ASSUME PriorsInv, NEW t \in Routers, NEW u \in Routers, HasRows(routers[t])
  PROVE  /\ HoldsUntil(routers[t].rows, priors.at - MaxStall)
         /\ HoldsUntil(routers[t].rows, routers[u].now - MaxStall)
         /\ HoldsUntil(routers[t].rows, routers[u].now - MaxStall - PriorsTtl + 1)
<1>1. RouterCounts(routers[t], priors)
  BY DEF PriorsInv
<1>2. /\ HoldsUntil(routers[t].rows, routers[t].now)
      /\ priorsTick - routers[t].now <= MaxStall
  BY <1>1 DEF HasRows, RouterCounts
<1>3. MaxStall \in Nat /\ PriorsTtl \in Nat /\ PriorsTtl >= 1
  BY PriorsAssumption
<1>4. PICK a, b, n, now :
        /\ a = priors.at /\ b = routers[u].now /\ n = routers[t].now /\ now = priorsTick
        /\ a \in Int /\ b \in Int /\ n \in Int /\ now \in Int
        /\ a <= now /\ b <= now
  <2>1. /\ priors.at \in Int /\ priors.at <= priorsTick /\ priorsTick \in Int
        /\ \A v \in Routers : routers[v].now \in Int /\ routers[v].now <= priorsTick
    <3>1. priors.at \in Int /\ priors.at <= priorsTick /\ priorsTick \in Nat
      BY RoutersAreTyped
    <3>2. \A v \in Routers : routers[v].now \in Nat /\ routers[v].now <= priorsTick
      BY RoutersAreTyped
    <3> QED
      BY <3>1, <3>2
  <2> QED
    BY <2>1
<1>5. /\ a - MaxStall \in Int /\ a - MaxStall <= n
      /\ b - MaxStall \in Int /\ b - MaxStall <= n
      /\ b - MaxStall - PriorsTtl + 1 \in Int /\ b - MaxStall - PriorsTtl + 1 <= n
  BY <1>2, <1>3, <1>4
<1>6. HoldsUntil(routers[t].rows, n)
  BY <1>2, <1>4
<1> QED
  BY <1>4, <1>5, <1>6, EarlierHolds

LEMMA PriorsNext == PriorsInv /\ [NextPriors]_priorsVars => PriorsInv'
<1> SUFFICES ASSUME PriorsInv, [NextPriors]_priorsVars PROVE PriorsInv'
  OBVIOUS
<1> USE PriorsAssumption
<1>0. /\ priorsTick \in Nat /\ Len(endings) \in Nat
      /\ priors \in PriorsObjects /\ routers \in [Routers -> RouterRecords]
      /\ PriorsHoldUntil(priors, priors.at - MaxStall)
      /\ \A t \in Routers : routers[t] \in RouterRecords /\ RouterCounts(routers[t], priors)
  BY EndingsAreDated DEF PriorsInv
<1>1. NoTable \in PriorsTables /\ AtRest \in RouterRecords
  <2>1. NoTable \in PriorsTables /\ "idle" \in RouterPcs /\ 0 \in 0..priorsTick
    BY <1>0 DEF PriorsTables, NoTable, RouterPcs
  <2> QED
    BY <2>1, RecordsOfRouters DEF AtRest
<1>2. \A p : RouterCounts(AtRest, p)
  BY DEF HasRows, RouterCounts, AtRest
<1>3. ASSUME NEW t \in Routers, NEW tenant \in Tenants, CheckPriors(t, tenant)
      PROVE  PriorsInv'
  <2> DEFINE next == [pc |-> IF PriorsFresh(priorsTick) THEN "read pair" ELSE "query",
                      tenant |-> tenant, now |-> priorsTick, rows |-> NoTable]
  <2>1. /\ routers' = [routers EXCEPT ![t] = next] /\ UNCHANGED <<endings, priorsTick, priors>>
    BY <1>3 DEF CheckPriors, RouterTo
  <2>2. next \in RouterRecords
    <3>1. next.pc \in RouterPcs /\ priorsTick \in 0..priorsTick
      BY <1>0 DEF RouterPcs
    <3> QED
      BY <1>1, <3>1, RecordsOfRouters
  <2>3. RouterCounts(next, priors)
    <3>0. /\ next.now = priorsTick /\ priorsTick - next.now <= MaxStall
          /\ next.pc = IF PriorsFresh(priorsTick) THEN "read pair" ELSE "query"
      BY <1>0
    <3>1. ASSUME PriorsFresh(priorsTick)
          PROVE  PriorsHoldUntil(priors, priorsTick - MaxStall - PriorsTtl + 1)
      <4>1. PICK a \in Int : a = priors.at /\ priorsTick - a < PriorsTtl
        BY <3>1, RoutersAreTyped DEF PriorsFresh
      <4>2. /\ a - MaxStall \in Int /\ priorsTick - MaxStall - PriorsTtl + 1 \in Int
            /\ priorsTick - MaxStall - PriorsTtl + 1 <= a - MaxStall
        BY <1>0, <4>1
      <4> QED
        BY <1>0, <4>1, <4>2, EarlierHolds DEF PriorsHoldUntil
    <3> HIDE DEF next
    <3>2. CASE PriorsFresh(priorsTick)
      BY <3>0, <3>1, <3>2 DEF HasRows, RouterCounts
    <3>3. CASE ~PriorsFresh(priorsTick)
      BY <3>0, <3>3 DEF HasRows, RouterCounts
    <3> QED
      BY <3>2, <3>3
  <2> HIDE DEF next
  <2> QED
    BY <1>0, <2>1, <2>2, <2>3, RouterMoves
<1>4. ASSUME NEW t \in Routers, QueryOutcomes(t) PROVE PriorsInv'
  <2> DEFINE all == [tenant |-> routers[t].tenant, upTo |-> Len(endings)]
             next == [routers[t] EXCEPT !.pc = "write pair", !.rows = all]
  <2>1. /\ routers' = [routers EXCEPT ![t] = next] /\ UNCHANGED <<endings, priorsTick, priors>>
        /\ routers[t].pc = "query"
    BY <1>4 DEF QueryOutcomes, RouterTo, RouterAt
  <2>2. /\ next \in RouterRecords
        /\ next.pc = "write pair" /\ next.now = routers[t].now /\ next.rows = all
    <3>1. all \in PriorsTables
      BY <1>0, RoutersAreTyped DEF PriorsTables
    <3> HIDE DEF all
    <3> QED
      BY <1>0, <3>1 DEF RouterRecords, RouterPcs
  <2>3. HoldsUntil(all, routers[t].now)
    BY EndingsAreDated DEF HoldsUntil
  <2>4. priorsTick - routers[t].now <= MaxStall
    BY <1>0, <2>1 DEF HasRows, RouterCounts
  <2> HIDE DEF next, all
  <2>5. RouterCounts(next, priors)
    BY <2>2, <2>3, <2>4 DEF HasRows, RouterCounts
  <2> QED
    BY <1>0, <2>1, <2>2, <2>5, RouterMoves
<1>5. ASSUME NEW t \in Routers, QueryRaises(t) PROVE PriorsInv'
  BY <1>0, <1>1, <1>2, <1>5, RouterMoves DEF QueryRaises, RouterTo
<1>6. ASSUME NEW t \in Routers, WriteByPair(t) PROVE PriorsInv'
  <2> DEFINE p == [priors EXCEPT !.pair = routers[t].rows]
             next == [routers[t] EXCEPT !.pc = "write prefix"]
  <2>1. /\ routers' = [routers EXCEPT ![t] = next] /\ UNCHANGED <<endings, priorsTick>>
        /\ priors' = p /\ routers[t].pc = "write pair"
    BY <1>6 DEF WriteByPair, RouterTo, RouterAt
  <2>2. /\ next \in RouterRecords /\ p \in PriorsObjects
        /\ next.pc = "write prefix" /\ next.now = routers[t].now
        /\ next.rows = routers[t].rows
        /\ p.pair = routers[t].rows /\ p.prefix = priors.prefix /\ p.at = priors.at
    BY <1>0 DEF RouterRecords, RouterPcs, PriorsObjects
  <2> HIDE DEF next, p
  <2>3. PriorsHoldUntil(p, p.at - MaxStall)
    <3>1. HoldsUntil(routers[t].rows, priors.at - MaxStall)
      BY <2>1, WrittenRowsServeAll DEF HasRows
    <3> QED
      BY <1>0, <2>2, <3>1 DEF PriorsHoldUntil
  <2>4. RouterCounts(next, p)
    BY <1>0, <2>1, <2>2, WrittenRowsServeAll DEF HasRows, RouterCounts
  <2>5. \A u \in Routers \ {t} : RouterCounts(routers[u], p)
    BY <1>0, <2>1, <2>2, WrittenRowsServeAll DEF HasRows, RouterCounts, PriorsHoldUntil
  <2> QED
    BY <2>1, <2>2, <2>3, <2>4, <2>5, RouterMoves
<1>7. ASSUME NEW t \in Routers, WriteByPrefix(t) PROVE PriorsInv'
  <2> DEFINE p == [priors EXCEPT !.prefix = routers[t].rows]
             next == [routers[t] EXCEPT !.pc = "stamp"]
  <2>1. /\ routers' = [routers EXCEPT ![t] = next] /\ UNCHANGED <<endings, priorsTick>>
        /\ priors' = p /\ routers[t].pc = "write prefix"
    BY <1>7 DEF WriteByPrefix, RouterTo, RouterAt
  <2>2. /\ next \in RouterRecords /\ p \in PriorsObjects
        /\ next.pc = "stamp" /\ next.now = routers[t].now
        /\ next.rows = routers[t].rows
        /\ p.prefix = routers[t].rows /\ p.pair = priors.pair /\ p.at = priors.at
    BY <1>0 DEF RouterRecords, RouterPcs, PriorsObjects
  <2> HIDE DEF next, p
  <2>3. PriorsHoldUntil(p, p.at - MaxStall)
    <3>1. HoldsUntil(routers[t].rows, priors.at - MaxStall)
      BY <2>1, WrittenRowsServeAll DEF HasRows
    <3> QED
      BY <1>0, <2>2, <3>1 DEF PriorsHoldUntil
  <2>4. RouterCounts(next, p)
    BY <1>0, <2>1, <2>2, WrittenRowsServeAll DEF HasRows, RouterCounts
  <2>5. \A u \in Routers \ {t} : RouterCounts(routers[u], p)
    BY <1>0, <2>1, <2>2, WrittenRowsServeAll DEF HasRows, RouterCounts, PriorsHoldUntil
  <2> QED
    BY <2>1, <2>2, <2>3, <2>4, <2>5, RouterMoves
<1>8. ASSUME NEW t \in Routers, StampPriors(t) PROVE PriorsInv'
  <2> DEFINE p == [priors EXCEPT !.at = routers[t].now]
             next == [routers[t] EXCEPT !.pc = "read pair", !.rows = NoTable]
  <2>1. /\ routers' = [routers EXCEPT ![t] = next] /\ UNCHANGED <<endings, priorsTick>>
        /\ priors' = p /\ routers[t].pc = "stamp"
    BY <1>8 DEF StampPriors, RouterTo, RouterAt
  <2>2. /\ next \in RouterRecords /\ p \in PriorsObjects
        /\ next.pc = "read pair" /\ next.now = routers[t].now
        /\ p.prefix = priors.prefix /\ p.pair = priors.pair /\ p.at = routers[t].now
        /\ routers[t].now \in Nat
    <3>1. routers[t].now \in Unfilled..priorsTick /\ routers[t].now \in Nat
      BY RoutersAreTyped DEF Unfilled
    <3>2. /\ p \in PriorsObjects
          /\ p.prefix = priors.prefix /\ p.pair = priors.pair /\ p.at = routers[t].now
      BY <1>0, <3>1 DEF PriorsObjects
    <3>3. /\ next \in RouterRecords
          /\ next.pc = "read pair" /\ next.now = routers[t].now
      BY <1>0, <1>1 DEF RouterRecords, RouterPcs
    <3> QED
      BY <3>1, <3>2, <3>3
  <2> HIDE DEF next, p
  <2>3. /\ PriorsHoldUntil(p, p.at - MaxStall)
        /\ priorsTick - routers[t].now <= MaxStall
    BY <1>0, <2>1, <2>2 DEF PriorsHoldUntil, HasRows, RouterCounts
  <2>4. PriorsHoldUntil(p, p.at - MaxStall - PriorsTtl + 1)
    <3>1. PICK n \in Nat : n = p.at
      BY <2>2
    <3>2. /\ n - MaxStall \in Int /\ n - MaxStall - PriorsTtl + 1 \in Int
          /\ n - MaxStall - PriorsTtl + 1 <= n - MaxStall
      OBVIOUS
    <3> QED
      BY <2>3, <3>1, <3>2, EarlierHolds DEF PriorsHoldUntil
  <2>5. RouterCounts(next, p)
    BY <2>2, <2>3, <2>4 DEF HasRows, RouterCounts
  <2>6. \A u \in Routers \ {t} : RouterCounts(routers[u], p)
    BY <1>0, <2>2 DEF HasRows, RouterCounts, PriorsHoldUntil
  <2> QED
    BY <2>1, <2>2, <2>3, <2>5, <2>6, RouterMoves
<1>9. ASSUME NEW t \in Routers, NEW enough \in BOOLEAN, ReadByPair(t, enough)
      PROVE  PriorsInv'
  <2> DEFINE next == [routers[t] EXCEPT !.pc = "read prefix"]
  <2>1. /\ next \in RouterRecords /\ next.pc = "read prefix" /\ next.now = routers[t].now
    BY <1>0 DEF RouterRecords, RouterPcs
  <2>2. routers[t].pc = "read pair" /\ UNCHANGED <<endings, priorsTick, priors>>
    BY <1>9 DEF ReadByPair, RouterAt
  <2>3. routers' = [routers EXCEPT ![t] = AtRest] \/ routers' = [routers EXCEPT ![t] = next]
    BY <1>9 DEF ReadByPair, RouterTo
  <2> HIDE DEF next
  <2>4. RouterCounts(next, priors)
    BY <1>0, <2>1, <2>2 DEF HasRows, RouterCounts
  <2>5. CASE routers' = [routers EXCEPT ![t] = AtRest]
    BY <1>0, <1>1, <1>2, <2>2, <2>5, RouterMoves
  <2>6. CASE routers' = [routers EXCEPT ![t] = next]
    BY <1>0, <2>1, <2>2, <2>4, <2>6, RouterMoves
  <2> QED
    BY <2>3, <2>5, <2>6
<1>10. ASSUME NEW t \in Routers, ReadByPrefix(t) PROVE PriorsInv'
  BY <1>0, <1>1, <1>2, <1>10, RouterMoves DEF ReadByPrefix, RouterTo
<1>11. CASE Invalidate
  <2> DEFINE p == [priors EXCEPT !.at = Unfilled]
  <2>1. priors' = p /\ UNCHANGED <<endings, priorsTick, routers>>
    BY <1>11 DEF Invalidate
  <2>2. /\ p \in PriorsObjects /\ p.at = -1
        /\ p.prefix = priors.prefix /\ p.pair = priors.pair
    BY <1>0 DEF PriorsObjects, Unfilled
  <2> HIDE DEF p
  <2>3. \A table : HoldsUntil(table, -1 - MaxStall)
    BY EndingsAreDated DEF HoldsUntil
  <2>4. PriorsHoldUntil(p, p.at - MaxStall)
    BY <2>2, <2>3 DEF PriorsHoldUntil
  <2>5. \A t \in Routers : RouterCounts(routers[t], p)
    BY <1>0, <2>2 DEF HasRows, RouterCounts, PriorsHoldUntil
  <2> QED
    BY <2>1, <2>2, <2>4, <2>5
    DEF PriorsInv, PriorsObjects, RouterRecords, PriorsTables, HasRows, RouterCounts,
        PriorsHoldUntil, HoldsUntil
<1>12. ASSUME NEW tenant \in Tenants, WriteEnding(tenant) PROVE PriorsInv'
  <2> DEFINE Row == [tenant : Tenants, at : 0..priorsTick]
             row == [tenant |-> tenant, at |-> priorsTick]
  <2>1. /\ endings' = Append(endings, row) /\ row \in Row /\ Len(endings) < MaxEndings
        /\ UNCHANGED <<priorsTick, priors, routers>>
    BY <1>0, <1>12 DEF WriteEnding
  <2>2. row.at = priorsTick
    OBVIOUS
  <2>3. /\ endings' \in Seq(Row) /\ Len(endings') = Len(endings) + 1
        /\ DOMAIN endings' = 1..Len(endings) + 1
        /\ \A i \in 1..Len(endings) : endings'[i] = endings[i]
        /\ endings'[Len(endings) + 1] = row
    <3>1. endings \in Seq(Row)
      BY DEF PriorsInv
    <3> HIDE DEF row, Row
    <3> QED
      BY <2>1, <3>1, AppendProperties
  <2> HIDE DEF row
  <2>4. ASSUME NEW table, NEW time \in Int, time <= priorsTick, HoldsUntil(table, time)
        PROVE  HoldsUntil(table, time)'
    <3> SUFFICES ASSUME NEW i \in DOMAIN endings', i > table.upTo
                 PROVE  endings'[i].at >= time
      BY DEF HoldsUntil
    <3>1. CASE i = Len(endings) + 1
      BY <1>0, <2>2, <2>3, <2>4, <3>1
    <3>2. CASE i # Len(endings) + 1
      <4>1. i \in DOMAIN endings /\ endings'[i] = endings[i]
        BY <1>0, <2>3, <3>2, EndingsAreDated
      <4> QED
        BY <2>4, <4>1 DEF HoldsUntil
    <3> QED
      BY <3>1, <3>2
  <2>5. PriorsTables \subseteq PriorsTables'
    BY <1>0, <2>1, <2>3 DEF PriorsTables
  <2>6. PriorsObjects \subseteq PriorsObjects' /\ RouterRecords \subseteq RouterRecords'
    BY <2>1, <2>5 DEF PriorsObjects, RouterRecords
  <2>7. priors' \in PriorsObjects' /\ routers' \in [Routers -> RouterRecords']
    BY <1>0, <2>1, <2>6
  <2>8. PriorsHoldUntil(priors, priors.at - MaxStall)'
    <3>1. PICK time \in Int : time = priors.at - MaxStall /\ time <= priorsTick
      BY <1>0 DEF PriorsObjects, Unfilled
    <3> QED
      BY <1>0, <2>1, <2>4, <3>1 DEF PriorsHoldUntil
  <2>9. ASSUME NEW t \in Routers PROVE RouterCounts(routers[t], priors)'
    <3>1. PICK n \in 0..priorsTick : n = routers[t].now
      BY <1>0 DEF RouterRecords
    <3>2. /\ n \in Int /\ n <= priorsTick
          /\ n - MaxStall \in Int /\ n - MaxStall <= priorsTick
          /\ n - MaxStall - PriorsTtl + 1 \in Int /\ n - MaxStall - PriorsTtl + 1 <= priorsTick
      BY <1>0
    <3>3. PICK r : r = routers[t] /\ r = routers'[t] /\ RouterCounts(r, priors) /\ r.now = n
      BY <1>0, <2>1, <3>1
    <3>4. /\ HoldsUntil(r.rows, n) => HoldsUntil(r.rows, n)'
          /\ \A table : HoldsUntil(table, n - MaxStall) => HoldsUntil(table, n - MaxStall)'
          /\ \A table : HoldsUntil(table, n - MaxStall - PriorsTtl + 1)
                          => HoldsUntil(table, n - MaxStall - PriorsTtl + 1)'
      BY <2>4, <3>2
    <3> QED
      BY <2>1, <3>3, <3>4 DEF HasRows, RouterCounts, PriorsHoldUntil
  <2>10. (endings \in Seq([tenant : Tenants, at : 0..priorsTick]))' /\ Len(endings') <= MaxEndings
    BY <1>0, <2>1, <2>3
  <2> HIDE DEF Row
  <2> QED
    BY <1>0, <2>1, <2>7, <2>8, <2>9, <2>10 DEF PriorsInv
<1>13. CASE PriorsTicks
  <2>1. /\ priorsTick' = priorsTick + 1 /\ UNCHANGED <<endings, priors, routers>>
        /\ \A t \in Routers : routers[t].pc # "idle" => priorsTick - routers[t].now < MaxStall
    BY <1>13 DEF PriorsTicks, RouterAt
  <2>2. (endings \in Seq([tenant : Tenants, at : 0..priorsTick]))' /\ Len(endings') <= MaxEndings
    <3> DEFINE Row(h) == [tenant : Tenants, at : 0..h]
    <3>1. endings \in Seq(Row(priorsTick)) /\ Row(priorsTick) \subseteq Row(priorsTick + 1)
      BY <1>0 DEF PriorsInv
    <3>2. endings \in Seq(Row(priorsTick + 1))
      <4> HIDE DEF Row
      <4> QED
        BY <3>1
    <3> QED
      BY <2>1, <3>2 DEF PriorsInv
  <2>3. /\ PriorsTables' = PriorsTables
        /\ PriorsObjects \subseteq PriorsObjects' /\ RouterRecords \subseteq RouterRecords'
    BY <1>0, <2>1 DEF PriorsTables, PriorsObjects, RouterRecords, Unfilled
  <2>4. priors' \in PriorsObjects' /\ routers' \in [Routers -> RouterRecords']
    BY <1>0, <2>1, <2>3
  <2>5. \A table, time : HoldsUntil(table, time) => HoldsUntil(table, time)'
    BY <2>1 DEF HoldsUntil
  <2>6. ASSUME NEW t \in Routers PROVE RouterCounts(routers[t], priors)'
    <3>1. PICK r, p : /\ r = routers[t] /\ r = routers'[t] /\ p = priors /\ p = priors'
                      /\ RouterCounts(r, p)
      BY <1>0, <2>1
    <3>2. PICK later : later = priorsTick' /\ later = priorsTick + 1
      BY <2>1
    <3>3. r.pc # "idle" => later - r.now <= MaxStall
      <4>1. routers[t].now \in Nat
        BY RoutersAreTyped
      <4> QED
        BY <1>0, <2>1, <3>1, <3>2, <4>1
    <3>4. \A q, time : PriorsHoldUntil(q, time) => PriorsHoldUntil(q, time)'
      BY <2>5 DEF PriorsHoldUntil
    <3>5. RouterCounts(r, p)'
      BY <2>5, <3>1, <3>2, <3>3, <3>4, Zenon DEF HasRows, RouterCounts
    <3> QED
      BY <3>1, <3>5
  <2>7. PriorsHoldUntil(priors, priors.at - MaxStall)'
    BY <1>0, <2>1, <2>5 DEF PriorsHoldUntil
  <2> QED
    BY <1>0, <2>1, <2>2, <2>4, <2>6, <2>7 DEF PriorsInv
<1>14. CASE UNCHANGED priorsVars
  BY <1>14
  DEF priorsVars, PriorsInv, PriorsObjects, RouterRecords, PriorsTables, HasRows, RouterCounts,
      PriorsHoldUntil, HoldsUntil
<1>15. ASSUME NEW t \in Routers, Routes(t) PROVE PriorsInv'
  BY <1>3, <1>4, <1>5, <1>6, <1>7, <1>8, <1>9, <1>10, <1>15 DEF Routes
<1> QED
  BY <1>11, <1>12, <1>13, <1>14, <1>15 DEF NextPriors

LEMMA CountedPriorsAreCurrent == PriorsInv => PriorsAreCurrent
<1> SUFFICES ASSUME PriorsInv, NEW t \in Routers, RouterDecides(t), NEW i \in DOMAIN endings,
                    endings[i].at + PriorsTtl + MaxStall <= routers[t].now
             PROVE  i <= DecidedBy(t).upTo
  BY DEF PriorsAreCurrent
<1>1. PICK table : table = DecidedBy(t)
  OBVIOUS
<1>2. /\ HoldsUntil(table, routers[t].now - MaxStall - PriorsTtl + 1)
      /\ table \in PriorsTables /\ routers[t].now \in Nat
  <2>1. /\ routers[t].pc \in {"read pair", "read prefix"}
        /\ table \in {priors.pair, priors.prefix}
    BY <1>1 DEF RouterDecides, DecidedBy, RouterAt
  <2>2. PriorsHoldUntil(priors, routers[t].now - MaxStall - PriorsTtl + 1)
    BY <2>1 DEF PriorsInv, HasRows, RouterCounts
  <2> QED
    BY <2>1, <2>2, RoutersAreTyped DEF PriorsHoldUntil
<1>3. /\ endings[i].at \in Nat /\ i \in Nat /\ table.upTo \in Int
      /\ MaxStall \in Nat /\ PriorsTtl \in Nat
  BY <1>2, EndingsAreDated, PriorsAssumption DEF PriorsTables
<1>4. ~(i > table.upTo)
  BY <1>2, <1>3 DEF HoldsUntil
<1> QED
  BY <1>1, <1>3, <1>4

\* Threads check, refill and read the priors' shared cache in any order, and
\* none takes a lock: a ticket is decided by every outcome, of the organisation
\* its table was read for, that is older than the time to live and the longest
\* time a thread takes (memory/priors.py).
THEOREM PriorsKeepUp == PriorsSpec => []PriorsAreCurrent
  BY PriorsInit, PriorsNext, CountedPriorsAreCurrent, PTL DEF PriorsSpec

LEMMA PriorsKeepTypes == PriorsSpec => []PriorsTypeOK
<1>1. PriorsInv => PriorsTypeOK
  BY EndingsAreDated DEF PriorsInv, PriorsTypeOK, PriorsObjects, RouterRecords
<1> QED
  BY <1>1, PriorsInit, PriorsNext, PTL DEF PriorsSpec

LEMMA PriorsAlone == ServicesSpec => PriorsSpec
<1>1. [NextServices]_servicesVars => [NextPriors]_priorsVars
  BY DEF NextServices, servicesVars, OthersStay, Still
<1> QED
  BY <1>1, PTL DEF ServicesSpec, InitServices, PriorsSpec

\* What history decides and how recent what it decides from is, of the
\* specification that runs every component.
THEOREM HistoryIsKept == ServicesSpec => HistoryHolds /\ []PriorsHold
<1> DEFINE told == PriorsAreSound /\ ScorecardsAddUp
           kept == focus = "history" => told
           rewards == focus = "history" => MergesNeverDemote
<1>1. ServicesSpec => []told /\ [][MergesNeverDemote]_historyVars
  BY HistoryAlone, HistoryIsTold, MergesAreRewarded, PTL
<1>2. told => kept
  OBVIOUS
<1>3. [MergesNeverDemote]_historyVars => [rewards]_historyVars
  OBVIOUS
<1>4. ServicesSpec => []kept /\ [][rewards]_historyVars
  BY <1>1, <1>2, <1>3, PTL
<1>5. ServicesSpec => HistoryHolds
  BY <1>4 DEF HistoryHolds
<1>6. PriorsAreCurrent => PriorsHold
  BY DEF PriorsHold
<1> QED
  BY <1>5, <1>6, PriorsAlone, PriorsKeepUp, PTL

-----------------------------------------------------------------------------
(* DeliveryMetrics                                                           *)

\* A nearest rank has a value: the least that enough items do not exceed.
HasRank(items, val, rank, v) ==
  /\ Cardinality({i \in items : val[i] <= v}) >= rank
  /\ Cardinality({i \in items : val[i] < v}) < rank

LEMMA RanksHaveValues ==
  ASSUME NEW items, IsFiniteSet(items), NEW n \in Nat, NEW val \in [items -> 0..n],
         NEW rank \in 1..Cardinality(items)
  PROVE  \E v \in {val[i] : i \in items} : HasRank(items, val, rank, v)
<1> DEFINE values == {val[i] : i \in items}
           atMost(v) == {i \in items : val[i] <= v}
           below(v) == {i \in items : val[i] < v}
           enough == {v \in values : Cardinality(atMost(v)) >= rank}
<1>1. /\ \A part \in SUBSET items : IsFiniteSet(part) /\ Cardinality(part) \in Nat
      /\ \A v : atMost(v) \in SUBSET items /\ below(v) \in SUBSET items
      /\ values \in SUBSET (0..n) /\ rank \in Nat /\ rank >= 1
  BY FS_Subset, FS_CardinalityType
<1>2. ASSUME NEW part \in SUBSET items, part # {}
      PROVE  \E v \in values : (\E i \in part : val[i] = v) /\ \A i \in part : val[i] <= v
  <2> DEFINE own == {val[i] : i \in part}
  <2>1. own \in SUBSET (0..n) /\ own # {}
    BY <1>2
  <2>2. PICK m \in own : \A x \in own : x <= m
    <3> HIDE DEF own
    <3> QED
      BY <2>1, AnyNumbersHaveAMax
  <2> QED
    BY <2>2
<1>3. enough # {}
  <2>1. items # {}
    BY <1>1, FS_EmptySet
  <2>2. PICK v \in values : \A i \in items : val[i] <= v
    BY <1>2, <2>1
  <2>3. atMost(v) = items
    BY <2>2
  <2> QED
    BY <1>1, <2>3
<1>4. PICK v \in enough : \A u \in enough : v <= u
  <2>1. enough \in SUBSET Nat
    BY <1>1
  <2> HIDE DEF enough
  <2> QED
    BY <1>3, <2>1, NumbersHaveAFirst
<1>5. Cardinality(below(v)) < rank
  <2> SUFFICES ASSUME Cardinality(below(v)) >= rank PROVE FALSE
    <3>1. Cardinality(below(v)) \in Nat
      BY <1>1
    <3> HIDE DEF below
    <3> QED
      BY <1>1, <3>1
  <2>1. below(v) # {}
    BY <1>1, FS_EmptySet
  <2>2. PICK u \in values : /\ \E i \in below(v) : val[i] = u
                            /\ \A i \in below(v) : val[i] <= u
    <3>1. below(v) \in SUBSET items
      BY <1>1
    <3> HIDE DEF below, values
    <3> QED
      BY <1>2, <2>1, <3>1
  <2>3. u < v /\ u \in Nat /\ v \in Nat
    BY <1>1, <2>2
  <2>4. below(v) \subseteq atMost(u)
    BY <2>2
  <2>5. Cardinality(below(v)) <= Cardinality(atMost(u))
    BY <1>1, <2>4, FS_Subset
  <2>6. Cardinality(atMost(u)) >= rank
    <3>1. Cardinality(below(v)) \in Nat /\ Cardinality(atMost(u)) \in Nat
      BY <1>1
    <3> HIDE DEF below, atMost
    <3> QED
      BY <1>1, <2>5, <3>1
  <2>7. u \in enough
    BY <2>6
  <2>8. v <= u
    BY <1>4, <2>7
  <2> HIDE DEF values
  <2> QED
    BY <2>3, <2>8
<1> QED
  BY <1>4, <1>5 DEF HasRank

LEMMA RanksAreOrdered ==
  ASSUME NEW items, IsFiniteSet(items), NEW val \in [items -> Nat],
         NEW low \in Nat, NEW high \in Nat, low <= high, NEW u \in Nat, NEW v \in Nat,
         HasRank(items, val, low, u), HasRank(items, val, high, v)
  PROVE  u <= v
<1> SUFFICES ASSUME v < u PROVE FALSE
  OBVIOUS
<1> DEFINE a == {i \in items : val[i] <= v}
           b == {i \in items : val[i] < u}
<1>1. a \subseteq b /\ b \subseteq items
  OBVIOUS
<1>2. IsFiniteSet(b) /\ IsFiniteSet(a)
  BY <1>1, FS_Subset
<1>3. Cardinality(a) \in Nat /\ Cardinality(b) \in Nat /\ Cardinality(a) <= Cardinality(b)
  <2> HIDE DEF a, b
  <2> QED
    BY <1>1, <1>2, FS_Subset, FS_CardinalityType
<1>4. Cardinality(a) >= high /\ Cardinality(b) < low
  BY DEF HasRank
<1> HIDE DEF a, b
<1> QED
  BY <1>3, <1>4

LEMMA MedianIsARank ==
  ASSUME NEW n \in Nat \ {0}
  PROVE  /\ (5 * n + 9) \div 10 \in 1..n /\ (9 * n + 9) \div 10 \in 1..n
         /\ (5 * n + 9) \div 10 <= (9 * n + 9) \div 10
<1> DEFINE p == (5 * n + 9) \div 10
           q == (9 * n + 9) \div 10
           r == (5 * n + 9) % 10
           s == (9 * n + 9) % 10
<1>1. /\ p \in Int /\ r \in 0..9 /\ 5 * n + 9 = 10 * p + r
      /\ q \in Int /\ s \in 0..9 /\ 9 * n + 9 = 10 * q + s
  OBVIOUS
<1> HIDE DEF p, q, r, s
<1>2. p \in 1..n /\ q \in 1..n /\ p <= q
  BY <1>1
<1> QED
  BY <1>2 DEF p, q

LEMMA FewRuns ==
  /\ \A s : RunsIn(s) \in SUBSET MemoryRuns
  /\ \A part \in SUBSET MemoryRuns : IsFiniteSet(part) /\ Cardinality(part) \in Nat
<1>1. IsFiniteSet(MemoryRuns)
  BY MemoryAssumption
<1> QED
  BY <1>1, FS_Subset, FS_CardinalityType DEF RunsIn

LEMMA RunsInEither ==
  ASSUME NEW s, NEW t, s \cap t = {}
  PROVE  Cardinality(RunsIn(s \cup t)) = Cardinality(RunsIn(s)) + Cardinality(RunsIn(t))
<1>1. RunsIn(s \cup t) = RunsIn(s) \cup RunsIn(t) /\ RunsIn(s) \cap RunsIn(t) = {}
  BY DEF RunsIn
<1>2. IsFiniteSet(RunsIn(s)) /\ IsFiniteSet(RunsIn(t))
      /\ Cardinality(RunsIn(s)) \in Nat /\ Cardinality(RunsIn(t)) \in Nat
  BY FewRuns
<1> DEFINE a == RunsIn(s)
           b == RunsIn(t)
<1>3. Cardinality(a \cup b) = Cardinality(a) + Cardinality(b)
  <2>1. /\ IsFiniteSet(a) /\ IsFiniteSet(b) /\ a \cap b = {}
        /\ Cardinality(a) \in Nat /\ Cardinality(b) \in Nat
    BY <1>1, <1>2
  <2> HIDE DEF a, b
  <2>2. Cardinality(a \cup b) = Cardinality(a) + Cardinality(b) - Cardinality(a \cap b)
    BY <2>1, FS_Union
  <2>3. Cardinality(a \cap b) = 0
    BY <2>1, FS_EmptySet
  <2> QED
    BY <2>1, <2>2, <2>3
<1> QED
  BY <1>1, <1>3

LEMMA QueuesAddUp == FleetAddsUp
<1> DEFINE waits == {"waiting_approval", "review_required", "needs_clarification"}
<1>1. /\ DOMAIN ApprovalQueue = RunsIn(waits)
      /\ DOMAIN ExecutionQueue = RunsIn({"agent_running"})
      /\ DOMAIN ReviewQueue = RunsIn({"pr_open"})
  BY DEF ApprovalQueue, ExecutionQueue, ReviewQueue, HumanWaitStatuses
<1>2. Cardinality(RunsIn(waits)) = Cardinality(RunsIn({"waiting_approval"}))
        + Cardinality(RunsIn({"review_required"})) + Cardinality(RunsIn({"needs_clarification"}))
  <2>1. waits = ({"waiting_approval"} \cup {"review_required"}) \cup {"needs_clarification"}
    OBVIOUS
  <2>2. Cardinality(RunsIn({"waiting_approval"} \cup {"review_required"}))
          = Cardinality(RunsIn({"waiting_approval"})) + Cardinality(RunsIn({"review_required"}))
    BY RunsInEither
  <2>3. Cardinality(RunsIn(({"waiting_approval"} \cup {"review_required"})
                             \cup {"needs_clarification"}))
          = Cardinality(RunsIn({"waiting_approval"} \cup {"review_required"}))
              + Cardinality(RunsIn({"needs_clarification"}))
    <3>1. ({"waiting_approval"} \cup {"review_required"}) \cap {"needs_clarification"} = {}
      OBVIOUS
    <3> QED
      BY <3>1, RunsInEither
  <2> HIDE DEF waits
  <2> QED
    BY <2>1, <2>2, <2>3
<1>3. Cardinality(RunsIn(RunStatuses))
        = Cardinality(RunsIn(ActiveStatuses)) + Cardinality(RunsIn(TerminalStatuses))
  <2>1. ActiveStatuses \cap TerminalStatuses = {}
    BY DEF ActiveStatuses, TerminalStatuses
  <2> QED
    BY <2>1, RunsInEither DEF RunStatuses
<1>4. /\ FleetStatus.total = Cardinality(RunsIn(RunStatuses))
      /\ FleetStatus.active = Cardinality(RunsIn(ActiveStatuses))
      /\ FleetStatus.terminal = Cardinality(RunsIn(TerminalStatuses))
      /\ FleetStatus.awaitingHuman = Cardinality(RunsIn({"waiting_approval"}))
           + Cardinality(RunsIn({"review_required"})) + Cardinality(RunsIn({"needs_clarification"}))
      /\ FleetStatus.agentsRunning = Cardinality(RunsIn({"agent_running"}))
      /\ FleetStatus.prsOpen = Cardinality(RunsIn({"pr_open"}))
  BY DEF FleetStatus
<1> HIDE DEF waits
<1> QED
  BY <1>1, <1>2, <1>3, <1>4 DEF FleetAddsUp

\* Those of the rows that are in a part add up over the cells.
LEMMA PartsAddUp ==
  ASSUME NEW picked \in SUBSET MemoryRuns, NEW marks, IsFiniteSet(marks),
         NEW label \in [picked -> marks], NEW part \in SUBSET picked
  PROVE  SumFunction([x \in marks |-> Cardinality(part \cap Cell(picked, label, x))])
           = Cardinality(part)
<1> DEFINE own == [i \in part |-> label[i]]
<1>1. own \in [part -> marks] /\ IsFiniteSet(part)
  BY FewRuns
<1>2. \A x : part \cap Cell(picked, label, x) = Cell(part, own, x)
  BY DEF Cell
<1>3. [x \in marks |-> Cardinality(part \cap Cell(picked, label, x))]
        = [x \in marks |-> Cardinality(Cell(part, own, x))]
  <2> HIDE DEF own
  <2> QED
    BY <1>2
<1>4. SumFunction([x \in marks |-> Cardinality(Cell(part, own, x))]) = Cardinality(part)
  <2> HIDE DEF own
  <2> QED
    BY <1>1, CountsAddUp
<1> QED
  BY <1>3, <1>4

LEMMA RowsAreLegible ==
  ASSUME MemoryInv, NEW cutoff
  PROVE  /\ Finished(cutoff) \in SUBSET MemoryRuns /\ today \in Nat
         /\ \A r \in Finished(cutoff) :
              /\ outcomeRow[r].completed \in 1..today
              /\ outcomeRow[r].created \in Nat /\ outcomeRow[r].jobs \in Nat
BY MemoryAssumption DEF MemoryInv, Finished, Legible

LEMMA DeliveredColumns ==
  ASSUME NEW picked
  PROVE  /\ Delivered(picked).finished = Cardinality(picked)
         /\ Delivered(picked).shipped = Cardinality(WithOutcome(picked, "merged"))
         /\ Delivered(picked).blocked = Cardinality(WithOutcome(picked, "blocked"))
         /\ Delivered(picked).retries
              = SumFunction([r \in picked |-> AtLeastZero(outcomeRow[r].jobs - 1)])
         /\ Delivered(picked).mergeDays = Spread(WithOutcome(picked, "merged"), MergeDays)
BY DEF Delivered

\* What ColumnSum makes of the columns that are summed.
SumsToDelivered(view, all) ==
  /\ SumFunction([x \in DOMAIN view |-> view[x].finished]) = all.finished
  /\ SumFunction([x \in DOMAIN view |-> view[x].shipped]) = all.shipped
  /\ SumFunction([x \in DOMAIN view |-> view[x].retries]) = all.retries

\* A view that has a column for each cell.
CutsRows(picked, marks, label, view) ==
  /\ \E cutoff : picked \in SUBSET Finished(cutoff)
  /\ IsFiniteSet(marks) /\ label \in [picked -> marks]
  /\ view = [x \in marks |-> Delivered(Cell(picked, label, x))]

LEMMA CutRowsAddUp ==
  ASSUME MemoryInv, NEW picked, NEW marks, NEW label, NEW view, CutsRows(picked, marks, label, view)
  PROVE  SumsToDelivered(view, Delivered(picked))
<1>1. /\ picked \in SUBSET MemoryRuns /\ IsFiniteSet(picked)
      /\ \A r \in picked : outcomeRow[r].jobs \in Nat
      /\ IsFiniteSet(marks) /\ label \in [picked -> marks] /\ DOMAIN view = marks
      /\ \A x \in marks : view[x] = Delivered(Cell(picked, label, x))
  BY RowsAreLegible, FewRuns DEF CutsRows
<1>2. \A x : Cell(picked, label, x) \in SUBSET picked
  BY DEF Cell
<1>3. SumFunction([x \in DOMAIN view |-> view[x].finished]) = Delivered(picked).finished
  <2>1. [x \in DOMAIN view |-> view[x].finished]
          = [x \in marks |-> Cardinality(Cell(picked, label, x))]
    BY <1>1, DeliveredColumns
  <2>2. SumFunction([x \in marks |-> Cardinality(Cell(picked, label, x))]) = Cardinality(picked)
    BY <1>1, CountsAddUp
  <2> QED
    BY <2>1, <2>2, DeliveredColumns
<1>4. SumFunction([x \in DOMAIN view |-> view[x].shipped]) = Delivered(picked).shipped
  <2> DEFINE merges == WithOutcome(picked, "merged")
  <2>1. merges \in SUBSET picked
    BY DEF WithOutcome
  <2>2. \A x : WithOutcome(Cell(picked, label, x), "merged") = merges \cap Cell(picked, label, x)
    BY <1>2 DEF WithOutcome
  <2>3. [x \in DOMAIN view |-> view[x].shipped]
          = [x \in marks |-> Cardinality(merges \cap Cell(picked, label, x))]
    <3> HIDE DEF merges
    <3> QED
      BY <1>1, <2>2, DeliveredColumns
  <2>4. SumFunction([x \in marks |-> Cardinality(merges \cap Cell(picked, label, x))])
          = Cardinality(merges)
    <3> HIDE DEF merges
    <3> QED
      BY <1>1, <2>1, PartsAddUp
  <2> HIDE DEF merges
  <2>5. Delivered(picked).shipped = Cardinality(merges)
    BY DeliveredColumns DEF merges
  <2> QED
    BY <2>3, <2>4, <2>5
<1>5. SumFunction([x \in DOMAIN view |-> view[x].retries]) = Delivered(picked).retries
  <2> DEFINE again == [r \in picked |-> AtLeastZero(outcomeRow[r].jobs - 1)]
             sums == [x \in marks |-> SumWithin(again, Cell(picked, label, x))]
  <2>1. again \in [picked -> Int]
    BY <1>1 DEF AtLeastZero
  <2>2. ASSUME NEW x \in marks PROVE sums[x] \in Int
    <3> DEFINE cell == Cell(picked, label, x)
               own == [r \in cell |-> again[r]]
    <3>1. cell \in SUBSET picked /\ IsFiniteSet(cell)
      BY <1>1, <1>2, FS_Subset
    <3>2. own \in [cell -> Int]
      <4> HIDE DEF again, cell
      <4> QED
        BY <2>1, <3>1
    <3>3. SumFunction(own) \in Int
      <4> HIDE DEF own, cell
      <4> QED
        BY <3>1, <3>2, SumTyped
    <3> HIDE DEF again
    <3> QED
      BY <3>3 DEF SumWithin
  <2>3. sums \in [marks -> Int]
    <3>1. sums = [x \in marks |-> sums[x]]
      OBVIOUS
    <3> HIDE DEF sums
    <3> QED
      BY <2>2, <3>1
  <2>4. SumFunction(sums) = SumFunction(again)
    <3>1. \A x \in marks : sums[x] = SumWithin(again, Cell(picked, label, x))
      OBVIOUS
    <3> HIDE DEF sums, again
    <3>2. SumsByCell(picked, marks, label, again, sums)
      BY <1>1, <2>1, <2>3, <3>1 DEF SumsByCell
    <3> QED
      BY <3>2, CellsAddUp
  <2>5. ASSUME NEW x \in marks PROVE view[x].retries = sums[x]
    <3>1. [r \in Cell(picked, label, x) |-> AtLeastZero(outcomeRow[r].jobs - 1)]
            = [r \in Cell(picked, label, x) |-> again[r]]
      BY <1>2
    <3>2. view[x].retries
            = SumFunction([r \in Cell(picked, label, x) |-> AtLeastZero(outcomeRow[r].jobs - 1)])
      BY <1>1, DeliveredColumns
    <3> QED
      BY <3>1, <3>2 DEF SumWithin
  <2>6. [x \in DOMAIN view |-> view[x].retries] = sums
    <3>1. sums = [x \in marks |-> sums[x]]
      OBVIOUS
    <3> HIDE DEF sums
    <3> QED
      BY <1>1, <2>5, <3>1
  <2>7. Delivered(picked).retries = SumFunction(again)
    BY DeliveredColumns
  <2> HIDE DEF sums, again
  <2> QED
    BY <2>4, <2>6, <2>7
<1> QED
  BY <1>3, <1>4, <1>5 DEF SumsToDelivered

LEMMA RowsHaveAPeriod ==
  ASSUME MemoryInv, NEW cutoff, NEW bucket \in TrendBuckets
  PROVE  LET axis == DeliveryAxis(PeriodsOf(Finished(cutoff), bucket), bucket)
         IN  /\ IsFiniteSet(axis)
             /\ \A r \in Finished(cutoff) : BucketStart(outcomeRow[r].completed, bucket) \in axis
<1> DEFINE days == {outcomeRow[r].completed : r \in Finished(cutoff)}
           axis == DeliveryAxis({BucketStart(d, bucket) : d \in days}, bucket)
<1>1. days \in SUBSET (0..today) /\ today \in Nat
  BY RowsAreLegible
<1>2. PeriodsOf(Finished(cutoff), bucket) = {BucketStart(d, bucket) : d \in days}
  BY DEF PeriodsOf
<1>3. IsFiniteSet(axis) /\ \A d \in days : BucketStart(d, bucket) \in axis
  <2> HIDE DEF days
  <2> QED
    BY <1>1, AxisHoldsAll
<1> QED
  BY <1>2, <1>3

\* A view by label of what finished since a day, and its series over time.
LabelsRows(cutoff, label, view) ==
  /\ DOMAIN label = Finished(cutoff) /\ label = [r \in Finished(cutoff) |-> label[r]]
  /\ view = [x \in {label[r] : r \in Finished(cutoff)} |->
               Delivered(Cell(Finished(cutoff), label, x))]

LabelsPeriods(cutoff, label, bucket, series) ==
  series = [x \in {label[r] : r \in Finished(cutoff)} |->
              [start \in DeliveryAxis(PeriodsOf(Finished(cutoff), bucket), bucket) |->
                 Delivered(InPeriod(Cell(Finished(cutoff), label, x), start, bucket))]]

LEMMA LabelledRowsAddUp ==
  ASSUME MemoryInv, NEW cutoff, NEW label, NEW view, LabelsRows(cutoff, label, view)
  PROVE  SumsToDelivered(view, Delivered(Finished(cutoff)))
<1> DEFINE picked == Finished(cutoff)
           marks == {label[r] : r \in picked}
<1>1. IsFiniteSet(picked)
  BY RowsAreLegible, FewRuns
<1>2. IsFiniteSet(marks) /\ label \in [picked -> marks]
  <2>1. DOMAIN label = picked /\ label = [r \in picked |-> label[r]]
    BY DEF LabelsRows
  <2> HIDE DEF picked
  <2> QED
    BY <1>1, <2>1, FewLabels
<1>3. CutsRows(picked, marks, label, view)
  <2>1. \E day : picked \in SUBSET Finished(day)
    OBVIOUS
  <2>2. view = [x \in marks |-> Delivered(Cell(picked, label, x))]
    BY DEF LabelsRows
  <2> HIDE DEF picked, marks
  <2> QED
    BY <1>2, <2>1, <2>2 DEF CutsRows
<1> HIDE DEF picked, marks
<1>4. SumsToDelivered(view, Delivered(picked))
  BY <1>3, CutRowsAddUp
<1> QED
  BY <1>4 DEF picked

\* Rows of one cell, by the period they completed in.
LEMMA PeriodsAddUp ==
  ASSUME MemoryInv, NEW cutoff, NEW bucket \in TrendBuckets, NEW part \in SUBSET Finished(cutoff),
         NEW axis, axis = DeliveryAxis(PeriodsOf(Finished(cutoff), bucket), bucket)
  PROVE  SumsToDelivered([start \in axis |-> Delivered(InPeriod(part, start, bucket))],
                         Delivered(part))
<1> DEFINE label == [r \in part |-> BucketStart(outcomeRow[r].completed, bucket)]
           view == [start \in axis |-> Delivered(InPeriod(part, start, bucket))]
<1>1. IsFiniteSet(axis) /\ label \in [part -> axis]
  BY RowsHaveAPeriod
<1>2. view = [start \in axis |-> Delivered(Cell(part, label, start))]
  <2>1. \A start : InPeriod(part, start, bucket) = Cell(part, label, start)
    BY DEF InPeriod, Cell
  <2> HIDE DEF label
  <2> QED
    BY <2>1
<1> HIDE DEF label
<1>3. CutsRows(part, axis, label, view)
  <2> HIDE DEF view
  <2> QED
    BY <1>1, <1>2 DEF CutsRows
<1> HIDE DEF view
<1>4. SumsToDelivered(view, Delivered(part))
  BY <1>3, CutRowsAddUp
<1> QED
  BY <1>4 DEF view

LEMMA LabelledPeriodsAddUp ==
  ASSUME MemoryInv, NEW cutoff, NEW label, NEW view, LabelsRows(cutoff, label, view),
         NEW bucket \in TrendBuckets, NEW series, LabelsPeriods(cutoff, label, bucket, series),
         NEW x \in DOMAIN view
  PROVE  SumFunction([start \in DOMAIN series[x] |-> series[x][start].finished])
           = view[x].finished
<1> DEFINE axis == DeliveryAxis(PeriodsOf(Finished(cutoff), bucket), bucket)
           part == Cell(Finished(cutoff), label, x)
           own == [start \in axis |-> Delivered(InPeriod(part, start, bucket))]
<1>1. series[x] = own /\ view[x] = Delivered(part) /\ part \in SUBSET Finished(cutoff)
  BY DEF LabelsRows, LabelsPeriods, Cell
<1>2. SumsToDelivered(own, Delivered(part))
  <2>1. part \in SUBSET Finished(cutoff)
    BY <1>1
  <2> HIDE DEF part
  <2> QED
    BY <2>1, PeriodsAddUp
<1> HIDE DEF own, part
<1>3. SumFunction([start \in DOMAIN own |-> own[start].finished]) = Delivered(part).finished
  BY <1>2 DEF SumsToDelivered
<1> QED
  BY <1>1, <1>3

\* Whoever has merged everything has the days of everything.
LEMMA SoleMergersSpread ==
  ASSUME MemoryInv, NEW cutoff, NEW label, NEW view, LabelsRows(cutoff, label, view),
         NEW x \in DOMAIN view, Delivered(Finished(cutoff)).shipped = view[x].shipped
  PROVE  Delivered(Finished(cutoff)).mergeDays = view[x].mergeDays
<1> DEFINE picked == Finished(cutoff)
           part == Cell(picked, label, x)
           all == WithOutcome(picked, "merged")
           own == WithOutcome(part, "merged")
<1>1. /\ IsFiniteSet(all) /\ own \subseteq all
      /\ view[x] = Delivered(part)
  <2>1. picked \in SUBSET MemoryRuns
    BY RowsAreLegible
  <2>2. all \in SUBSET MemoryRuns /\ own \subseteq all
    BY <2>1 DEF WithOutcome, Cell
  <2>3. view[x] = Delivered(part)
    BY DEF LabelsRows
  <2> HIDE DEF all
  <2> QED
    BY <2>2, <2>3, FewRuns
<1>2. /\ Delivered(picked).shipped = Cardinality(all) /\ Delivered(part).shipped = Cardinality(own)
      /\ Delivered(picked).mergeDays = Spread(all, MergeDays)
      /\ Delivered(part).mergeDays = Spread(own, MergeDays)
  <2> HIDE DEF picked, part
  <2> QED
    BY DeliveredColumns
<1>3. own = all
  <2>1. Cardinality(own) = Cardinality(all)
    BY <1>1, <1>2
  <2> HIDE DEF own, all
  <2> QED
    BY <1>1, <2>1, FS_Subset
<1>4. Spread(own, MergeDays) = Spread(all, MergeDays)
  <2> HIDE DEF own, all
  <2> QED
    BY <1>3 DEF Spread
<1> QED
  BY <1>1, <1>2, <1>4

LEMMA MediansAreLow ==
  ASSUME MemoryInv, NEW cutoff
  PROVE  Delivered(Finished(cutoff)).mergeDays.median <= Delivered(Finished(cutoff)).mergeDays.p90
<1> DEFINE merges == WithOutcome(Finished(cutoff), "merged")
           days == Spread(merges, MergeDays)
           val == [r \in merges |-> MergeDays(r)]
           n == Cardinality(merges)
<1>1. Delivered(Finished(cutoff)).mergeDays = days
  BY DeliveredColumns
<1>2. /\ merges \in SUBSET Finished(cutoff) /\ IsFiniteSet(merges) /\ n \in Nat
      /\ today \in Nat
  <2>1. /\ merges \in SUBSET Finished(cutoff)
        /\ Finished(cutoff) \in SUBSET MemoryRuns /\ today \in Nat
    BY RowsAreLegible DEF WithOutcome
  <2> HIDE DEF merges
  <2> QED
    BY <2>1, FewRuns
<1>3. val \in [merges -> 0..today]
  <2> SUFFICES ASSUME NEW r \in merges PROVE MergeDays(r) \in 0..today
    OBVIOUS
  <2>1. /\ outcomeRow[r].completed \in 1..today /\ outcomeRow[r].created \in Nat
    BY <1>2, RowsAreLegible
  <2> QED
    BY <1>2, <2>1 DEF MergeDays, AtLeastZero
<1>4. CASE merges = {}
  <2>1. days = NoSpread
    BY <1>4 DEF Spread
  <2>2. NoSpread.median = -1 /\ NoSpread.p90 = -1
    BY DEF NoSpread
  <2> HIDE DEF days
  <2> QED
    BY <1>1, <2>1, <2>2
<1>5. CASE merges # {}
  <2> DEFINE low == (5 * n + 9) \div 10
             high == (9 * n + 9) \div 10
             values == {MergeDays(r) : r \in merges}
             u == Percentile(merges, MergeDays, 5)
             v == Percentile(merges, MergeDays, 9)
  <2>1. n \in Nat \ {0}
    <3> HIDE DEF merges
    <3> QED
      BY <1>2, <1>5, FS_EmptySet
  <2>2. low \in 1..n /\ high \in 1..n /\ low <= high
    <3> HIDE DEF n
    <3> QED
      BY <2>1, MedianIsARank
  <2>3. ASSUME NEW rank \in 1..n
        PROVE  \E w \in {val[r] : r \in merges} : HasRank(merges, val, rank, w)
    <3> HIDE DEF merges, val
    <3> QED
      BY <1>2, <1>3, <2>3, RanksHaveValues
  <2>4. \A rank, w : HasRank(merges, val, rank, w)
          <=> /\ Cardinality({r \in merges : MergeDays(r) <= w}) >= rank
              /\ Cardinality({r \in merges : MergeDays(r) < w}) < rank
    <3> TAKE rank, w
    <3>1. {r \in merges : val[r] <= w} = {r \in merges : MergeDays(r) <= w}
          /\ {r \in merges : val[r] < w} = {r \in merges : MergeDays(r) < w}
      OBVIOUS
    <3> QED
      BY <3>1 DEF HasRank
  <2>5. {val[r] : r \in merges} = values
    OBVIOUS
  <2> HIDE DEF val
  <2>6. u \in values /\ HasRank(merges, val, low, u)
    <3>1. \E w \in values :
            /\ Cardinality({r \in merges : MergeDays(r) <= w}) >= low
            /\ Cardinality({r \in merges : MergeDays(r) < w}) < low
      <4> HIDE DEF merges, low, values
      <4> QED
        BY <2>2, <2>3, <2>4, <2>5
    <3>2. /\ u \in values
          /\ Cardinality({r \in merges : MergeDays(r) <= u}) >= low
          /\ Cardinality({r \in merges : MergeDays(r) < u}) < low
      <4> HIDE DEF merges
      <4> QED
        BY <3>1 DEF Percentile
    <3> HIDE DEF u, low, merges
    <3> QED
      BY <2>4, <3>2
  <2>7. v \in values /\ HasRank(merges, val, high, v)
    <3>1. \E w \in values :
            /\ Cardinality({r \in merges : MergeDays(r) <= w}) >= high
            /\ Cardinality({r \in merges : MergeDays(r) < w}) < high
      <4> HIDE DEF merges, high, values
      <4> QED
        BY <2>2, <2>3, <2>4, <2>5
    <3>2. /\ v \in values
          /\ Cardinality({r \in merges : MergeDays(r) <= v}) >= high
          /\ Cardinality({r \in merges : MergeDays(r) < v}) < high
      <4> HIDE DEF merges
      <4> QED
        BY <3>1 DEF Percentile
    <3> HIDE DEF v, high, merges
    <3> QED
      BY <2>4, <3>2
  <2>8. values \in SUBSET Nat /\ val \in [merges -> Nat]
    <3>1. \A r \in merges : val[r] \in 0..today
      BY <1>3
    <3>2. val \in [merges -> Nat]
      <4> HIDE DEF merges
      <4> QED
        BY <1>2, <1>3
    <3> HIDE DEF merges, values
    <3> QED
      BY <2>5, <3>2
  <2>9. u <= v
    <3> HIDE DEF u, v, low, high, merges, values, n
    <3> QED
      BY <1>2, <2>2, <2>6, <2>7, <2>8, RanksAreOrdered
  <2>10. days = [median |-> u, p90 |-> v]
    BY <1>5 DEF Spread
  <2> HIDE DEF u, v, days
  <2> QED
    BY <1>1, <2>9, <2>10
<1> QED
  BY <1>4, <1>5

LEMMA DeliverySums ==
  ASSUME MemoryInv, NEW cutoff
  PROVE  DeliveryAddsUp(cutoff)
<1> DEFINE picked == Finished(cutoff)
           all == Delivered(picked)
           repos == [r \in picked |-> DeliveredRepo(r)]
           types == [r \in picked |-> DeliveredWorkType(r)]
<1>1. DeliveryOverall(cutoff).totals = all
  BY DEF DeliveryOverall
<1>2. /\ LabelsRows(cutoff, repos, DeliveryByRepo(cutoff))
      /\ \A bucket \in TrendBuckets :
           LabelsPeriods(cutoff, repos, bucket, DeliveryByRepoTrends(cutoff, bucket))
  <2> DEFINE marks == {DeliveredRepo(r) : r \in picked}
             inCell(x) == {r \in picked : DeliveredRepo(r) = x}
             axis(bucket) == DeliveryAxis(PeriodsOf(picked, bucket), bucket)
  <2>1. /\ marks = {repos[r] : r \in picked}
        /\ \A x : inCell(x) = Cell(picked, repos, x)
    BY DEF Cell
  <2>2. DOMAIN repos = picked /\ repos = [r \in picked |-> repos[r]]
    OBVIOUS
  <2>3. DeliveryByRepo(cutoff) = [x \in marks |-> Delivered(inCell(x))]
    BY DEF DeliveryByRepo, DeliveryCells
  <2>4. \A bucket : DeliveryByRepoTrends(cutoff, bucket) =
          [x \in marks |-> [start \in axis(bucket) |->
                               Delivered(InPeriod(inCell(x), start, bucket))]]
    BY DEF DeliveryByRepoTrends, DeliverySeries
  <2> HIDE DEF repos, marks, inCell, axis, picked
  <2>5. LabelsRows(cutoff, repos, DeliveryByRepo(cutoff))
    BY <2>1, <2>2, <2>3 DEF LabelsRows, picked
  <2>6. ASSUME NEW bucket \in TrendBuckets
        PROVE  LabelsPeriods(cutoff, repos, bucket, DeliveryByRepoTrends(cutoff, bucket))
    <3> DEFINE was(x) == [start \in axis(bucket) |-> Delivered(InPeriod(inCell(x), start, bucket))]
               is(x) == [start \in axis(bucket) |->
                           Delivered(InPeriod(Cell(picked, repos, x), start, bucket))]
               those == {repos[r] : r \in picked}
    <3>1. \A x : was(x) = is(x)
      BY <2>1
    <3>2. DeliveryByRepoTrends(cutoff, bucket) = [x \in marks |-> was(x)] /\ marks = those
      BY <2>1, <2>4
    <3>3. DeliveryByRepoTrends(cutoff, bucket) = [x \in those |-> is(x)]
      <4> HIDE DEF was, is, those
      <4> QED
        BY <3>1, <3>2
    <3> QED
      BY <3>3 DEF LabelsPeriods, picked, axis
  <2> QED
    BY <2>5, <2>6
<1>3. /\ LabelsRows(cutoff, types, DeliveryByWorkType(cutoff))
      /\ \A bucket \in TrendBuckets :
           LabelsPeriods(cutoff, types, bucket, DeliveryByWorkTypeTrends(cutoff, bucket))
  <2> DEFINE marks == {DeliveredWorkType(r) : r \in picked}
             inCell(x) == {r \in picked : DeliveredWorkType(r) = x}
             axis(bucket) == DeliveryAxis(PeriodsOf(picked, bucket), bucket)
  <2>1. /\ marks = {types[r] : r \in picked}
        /\ \A x : inCell(x) = Cell(picked, types, x)
    BY DEF Cell
  <2>2. DOMAIN types = picked /\ types = [r \in picked |-> types[r]]
    OBVIOUS
  <2>3. DeliveryByWorkType(cutoff) = [x \in marks |-> Delivered(inCell(x))]
    BY DEF DeliveryByWorkType, DeliveryCells
  <2>4. \A bucket : DeliveryByWorkTypeTrends(cutoff, bucket) =
          [x \in marks |-> [start \in axis(bucket) |->
                               Delivered(InPeriod(inCell(x), start, bucket))]]
    BY DEF DeliveryByWorkTypeTrends, DeliverySeries
  <2> HIDE DEF types, marks, inCell, axis, picked
  <2>5. LabelsRows(cutoff, types, DeliveryByWorkType(cutoff))
    BY <2>1, <2>2, <2>3 DEF LabelsRows, picked
  <2>6. ASSUME NEW bucket \in TrendBuckets
        PROVE  LabelsPeriods(cutoff, types, bucket, DeliveryByWorkTypeTrends(cutoff, bucket))
    <3> DEFINE was(x) == [start \in axis(bucket) |-> Delivered(InPeriod(inCell(x), start, bucket))]
               is(x) == [start \in axis(bucket) |->
                           Delivered(InPeriod(Cell(picked, types, x), start, bucket))]
               those == {types[r] : r \in picked}
    <3>1. \A x : was(x) = is(x)
      BY <2>1
    <3>2. DeliveryByWorkTypeTrends(cutoff, bucket) = [x \in marks |-> was(x)] /\ marks = those
      BY <2>1, <2>4
    <3>3. DeliveryByWorkTypeTrends(cutoff, bucket) = [x \in those |-> is(x)]
      <4> HIDE DEF was, is, those
      <4> QED
        BY <3>1, <3>2
    <3> QED
      BY <3>3 DEF LabelsPeriods, picked, axis
  <2> QED
    BY <2>5, <2>6
<1> HIDE DEF repos, types
<1>4. /\ SumsToDelivered(DeliveryByRepo(cutoff), all)
      /\ SumsToDelivered(DeliveryByWorkType(cutoff), all)
  BY <1>2, <1>3, LabelledRowsAddUp
<1>5. \A bucket \in TrendBuckets : SumsToDelivered(DeliveryTrends(cutoff, bucket), all)
  <2> TAKE bucket \in TrendBuckets
  <2> DEFINE axis == DeliveryAxis(PeriodsOf(picked, bucket), bucket)
  <2>1. DeliveryTrends(cutoff, bucket)
          = [start \in axis |-> Delivered(InPeriod(picked, start, bucket))]
    BY DEF DeliveryTrends
  <2>2. SumsToDelivered([start \in axis |-> Delivered(InPeriod(picked, start, bucket))], all)
    <3>1. picked \in SUBSET Finished(cutoff)
      OBVIOUS
    <3> QED
      BY <3>1, PeriodsAddUp
  <2> QED
    BY <2>1, <2>2
<1>6. \A bucket \in TrendBuckets :
        /\ \A x \in DOMAIN DeliveryByRepo(cutoff) :
             LET series == DeliveryByRepoTrends(cutoff, bucket)
             IN  SumFunction([start \in DOMAIN series[x] |-> series[x][start].finished])
                   = DeliveryByRepo(cutoff)[x].finished
        /\ \A x \in DOMAIN DeliveryByWorkType(cutoff) :
             LET series == DeliveryByWorkTypeTrends(cutoff, bucket)
             IN  SumFunction([start \in DOMAIN series[x] |-> series[x][start].finished])
                   = DeliveryByWorkType(cutoff)[x].finished
  BY <1>2, <1>3, LabelledPeriodsAddUp
<1>7. all.mergeDays.median <= all.mergeDays.p90
  BY MediansAreLow
<1>8. \A repo \in DOMAIN DeliveryByRepo(cutoff) :
        all.shipped = DeliveryByRepo(cutoff)[repo].shipped =>
          all.mergeDays = DeliveryByRepo(cutoff)[repo].mergeDays
  BY <1>2, SoleMergersSpread
<1> HIDE DEF all
<1> QED
  BY <1>1, <1>4, <1>5, <1>6, <1>7, <1>8 DEF DeliveryAddsUp, ColumnSum, SumsToDelivered

LEMMA FailuresAreDated ==
  ASSUME MemoryInv, NEW cutoff
  PROVE  /\ Failed(cutoff) \in SUBSET MemoryRuns /\ today \in Nat
         /\ \A r \in Failed(cutoff) : FailedAt(r) \in 0..today
<1>1. ASSUME NEW r \in MemoryRuns PROVE FailedAt(r) \in 0..today
  <2>1. /\ book[r] \in RememberedRuns /\ Dated(book[r], today) /\ today \in Nat
        /\ book[r].created \in Nat /\ book[r].created <= today
    BY BookTypes DEF Dated
  <2>2. FailedAt(r) \in Nat /\ FailedAt(r) <= today
    BY <2>1, LatestIsDated DEF FailedAt
  <2> QED
    BY <2>1, <2>2
<1>2. Failed(cutoff) \in SUBSET MemoryRuns
  BY DEF Failed, RunsIn
<1>3. today \in Nat
  BY MemoryAssumption DEF MemoryInv
<1> QED
  BY <1>1, <1>2, <1>3

LEMMA TallyColumns ==
  ASSUME NEW runs
  PROVE  /\ Tally(runs).count = Cardinality(runs)
         /\ Tally(runs).blocked = Cardinality({r \in runs : book[r].status = "blocked"})
         /\ Tally(runs).failed = Cardinality({r \in runs : book[r].status # "blocked"})
BY DEF Tally

\* tallies counts each cell.
CutsRuns(runs, marks, label, tallies) ==
  /\ runs \in SUBSET MemoryRuns /\ IsFiniteSet(marks) /\ label \in [runs -> marks]
  /\ tallies = [x \in marks |-> Tally(Cell(runs, label, x))]

SumsToTally(tallies, all) ==
  /\ SumFunction([x \in DOMAIN tallies |-> tallies[x].count]) = all.count
  /\ SumFunction([x \in DOMAIN tallies |-> tallies[x].blocked]) = all.blocked
  /\ SumFunction([x \in DOMAIN tallies |-> tallies[x].failed]) = all.failed

LEMMA CutRunsAddUp ==
  ASSUME NEW runs, NEW marks, NEW label, NEW tallies, CutsRuns(runs, marks, label, tallies)
  PROVE  SumsToTally(tallies, Tally(runs))
<1>1. /\ runs \in SUBSET MemoryRuns /\ IsFiniteSet(runs)
      /\ IsFiniteSet(marks) /\ label \in [runs -> marks] /\ DOMAIN tallies = marks
      /\ \A x \in marks : tallies[x] = Tally(Cell(runs, label, x))
  BY FewRuns DEF CutsRuns
<1>2. \A x : Cell(runs, label, x) \in SUBSET runs
  BY DEF Cell
<1>3. SumFunction([x \in DOMAIN tallies |-> tallies[x].count]) = Tally(runs).count
  <2>1. [x \in DOMAIN tallies |-> tallies[x].count]
          = [x \in marks |-> Cardinality(Cell(runs, label, x))]
    BY <1>1, TallyColumns
  <2>2. SumFunction([x \in marks |-> Cardinality(Cell(runs, label, x))]) = Cardinality(runs)
    BY <1>1, CountsAddUp
  <2> QED
    BY <2>1, <2>2, TallyColumns
<1>4. SumFunction([x \in DOMAIN tallies |-> tallies[x].blocked]) = Tally(runs).blocked
  <2> DEFINE part == {r \in runs : book[r].status = "blocked"}
  <2>1. part \in SUBSET runs
    OBVIOUS
  <2>2. \A x : {r \in Cell(runs, label, x) : book[r].status = "blocked"}
                 = part \cap Cell(runs, label, x)
    BY <1>2
  <2>3. Tally(runs).blocked = Cardinality(part)
    BY TallyColumns
  <2> HIDE DEF part
  <2>4. [x \in DOMAIN tallies |-> tallies[x].blocked]
          = [x \in marks |-> Cardinality(part \cap Cell(runs, label, x))]
    BY <1>1, <2>2, TallyColumns
  <2>5. SumFunction([x \in marks |-> Cardinality(part \cap Cell(runs, label, x))])
          = Cardinality(part)
    BY <1>1, <2>1, PartsAddUp
  <2> QED
    BY <2>3, <2>4, <2>5
<1>5. SumFunction([x \in DOMAIN tallies |-> tallies[x].failed]) = Tally(runs).failed
  <2> DEFINE part == {r \in runs : book[r].status # "blocked"}
  <2>1. part \in SUBSET runs
    OBVIOUS
  <2>2. \A x : {r \in Cell(runs, label, x) : book[r].status # "blocked"}
                 = part \cap Cell(runs, label, x)
    BY <1>2
  <2>3. Tally(runs).failed = Cardinality(part)
    BY TallyColumns
  <2> HIDE DEF part
  <2>4. [x \in DOMAIN tallies |-> tallies[x].failed]
          = [x \in marks |-> Cardinality(part \cap Cell(runs, label, x))]
    BY <1>1, <2>2, TallyColumns
  <2>5. SumFunction([x \in marks |-> Cardinality(part \cap Cell(runs, label, x))])
          = Cardinality(part)
    BY <1>1, <2>1, PartsAddUp
  <2> QED
    BY <2>3, <2>4, <2>5
<1> QED
  BY <1>3, <1>4, <1>5 DEF SumsToTally

LEMMA FailuresHaveAPeriod ==
  ASSUME MemoryInv, NEW cutoff, NEW bucket \in TrendBuckets
  PROVE  LET axis == DeliveryAxis(FailurePeriods(cutoff, bucket), bucket)
         IN  /\ IsFiniteSet(axis)
             /\ \A r \in Failed(cutoff) : BucketStart(FailedAt(r), bucket) \in axis
<1> DEFINE days == {FailedAt(r) : r \in Failed(cutoff)}
           axis == DeliveryAxis({BucketStart(d, bucket) : d \in days}, bucket)
<1>1. days \in SUBSET (0..today) /\ today \in Nat
  BY FailuresAreDated
<1>2. FailurePeriods(cutoff, bucket) = {BucketStart(d, bucket) : d \in days}
  BY DEF FailurePeriods
<1>3. IsFiniteSet(axis) /\ \A d \in days : BucketStart(d, bucket) \in axis
  <2> HIDE DEF days
  <2> QED
    BY <1>1, AxisHoldsAll
<1> QED
  BY <1>2, <1>3

\* Failures of one cell, by the period they happened in.
FailedIn(part, start, bucket) == {r \in part : BucketStart(FailedAt(r), bucket) = start}

LEMMA FailurePeriodsAddUp ==
  ASSUME MemoryInv, NEW cutoff, NEW bucket \in TrendBuckets, NEW part \in SUBSET Failed(cutoff),
         NEW axis, axis = DeliveryAxis(FailurePeriods(cutoff, bucket), bucket)
  PROVE  SumsToTally([start \in axis |-> Tally(FailedIn(part, start, bucket))], Tally(part))
<1> DEFINE label == [r \in part |-> BucketStart(FailedAt(r), bucket)]
           tallies == [start \in axis |-> Tally(FailedIn(part, start, bucket))]
<1>1. IsFiniteSet(axis) /\ label \in [part -> axis] /\ part \in SUBSET MemoryRuns
  BY FailuresHaveAPeriod, FailuresAreDated
<1>2. tallies = [start \in axis |-> Tally(Cell(part, label, start))]
  <2>1. \A start : FailedIn(part, start, bucket) = Cell(part, label, start)
    BY DEF FailedIn, Cell
  <2> HIDE DEF label
  <2> QED
    BY <2>1
<1> HIDE DEF label
<1>3. CutsRuns(part, axis, label, tallies)
  <2> HIDE DEF tallies
  <2> QED
    BY <1>1, <1>2 DEF CutsRuns
<1> HIDE DEF tallies
<1>4. SumsToTally(tallies, Tally(part))
  BY <1>3, CutRunsAddUp
<1> QED
  BY <1>4 DEF tallies

\* A failure view by label, and its series over time.
LabelsFailures(cutoff, label, view) ==
  /\ DOMAIN label = Failed(cutoff) /\ label = [r \in Failed(cutoff) |-> label[r]]
  /\ DOMAIN view = {label[r] : r \in Failed(cutoff)}
  /\ \A x \in DOMAIN view : view[x].tally = Tally(Cell(Failed(cutoff), label, x))

LabelsFailurePeriods(cutoff, label, bucket, series) ==
  \A x \in {label[r] : r \in Failed(cutoff)} :
    series[x] = [start \in DeliveryAxis(FailurePeriods(cutoff, bucket), bucket) |->
                   Tally(FailedIn(Cell(Failed(cutoff), label, x), start, bucket))]

LEMMA LabelledFailuresAddUp ==
  ASSUME MemoryInv, NEW cutoff, NEW label, NEW view, LabelsFailures(cutoff, label, view)
  PROVE  SumsToTally([x \in DOMAIN view |-> view[x].tally], Tally(Failed(cutoff)))
<1> DEFINE runs == Failed(cutoff)
           marks == {label[r] : r \in runs}
           tallies == [x \in DOMAIN view |-> view[x].tally]
<1>1. IsFiniteSet(runs) /\ runs \in SUBSET MemoryRuns
  BY FailuresAreDated, FewRuns
<1>2. IsFiniteSet(marks) /\ label \in [runs -> marks]
  <2>1. DOMAIN label = runs /\ label = [r \in runs |-> label[r]]
    BY DEF LabelsFailures
  <2> HIDE DEF runs
  <2> QED
    BY <1>1, <2>1, FewLabels
<1>3. tallies = [x \in marks |-> Tally(Cell(runs, label, x))]
  <2>1. DOMAIN view = marks /\ \A x \in DOMAIN view : view[x].tally = Tally(Cell(runs, label, x))
    BY DEF LabelsFailures
  <2> HIDE DEF marks, runs
  <2> QED
    BY <2>1
<1>4. CutsRuns(runs, marks, label, tallies)
  <2> HIDE DEF runs, marks, tallies
  <2> QED
    BY <1>1, <1>2, <1>3 DEF CutsRuns
<1> HIDE DEF runs, marks, tallies
<1>5. SumsToTally(tallies, Tally(runs))
  BY <1>4, CutRunsAddUp
<1> QED
  BY <1>5 DEF tallies, runs

LEMMA LabelledFailurePeriodsAddUp ==
  ASSUME MemoryInv, NEW cutoff, NEW label, NEW view, LabelsFailures(cutoff, label, view),
         NEW bucket \in TrendBuckets, NEW series,
         LabelsFailurePeriods(cutoff, label, bucket, series), NEW x \in DOMAIN view
  PROVE  SumFunction([start \in DOMAIN series[x] |-> series[x][start].count])
           = view[x].tally.count
<1> DEFINE axis == DeliveryAxis(FailurePeriods(cutoff, bucket), bucket)
           part == Cell(Failed(cutoff), label, x)
           own == [start \in axis |-> Tally(FailedIn(part, start, bucket))]
<1>1. series[x] = own /\ view[x].tally = Tally(part) /\ part \in SUBSET Failed(cutoff)
  BY DEF LabelsFailures, LabelsFailurePeriods, Cell
<1>2. SumsToTally(own, Tally(part))
  <2>1. part \in SUBSET Failed(cutoff)
    BY <1>1
  <2> HIDE DEF part
  <2> QED
    BY <2>1, FailurePeriodsAddUp
<1> HIDE DEF own, part
<1>3. SumFunction([start \in DOMAIN own |-> own[start].count]) = Tally(part).count
  BY <1>2 DEF SumsToTally
<1> QED
  BY <1>1, <1>3

LEMMA FailureSums ==
  ASSUME MemoryInv, NEW cutoff
  PROVE  FailuresAddUp(cutoff)
<1> DEFINE runs == Failed(cutoff)
           all == Tally(runs)
           reasons == [r \in runs |-> FailureReason(r)]
           repos == [r \in runs |-> FailedRepo(r)]
           types == [r \in runs |-> FailedWorkType(r)]
<1>1. FailureQueue(cutoff).tally = all
  BY DEF FailureQueue
<1>2. /\ LabelsFailures(cutoff, reasons, FailuresByCategory(cutoff))
      /\ \A bucket \in TrendBuckets :
           LabelsFailurePeriods(cutoff, reasons, bucket, FailuresByCategoryTrends(cutoff, bucket))
  <2> DEFINE inCell(x) == {r \in runs : FailureReason(r) = x}
             marks == {FailureReason(r) : r \in runs}
  <2>1. /\ marks = {reasons[r] : r \in runs}
        /\ \A x : inCell(x) = Cell(runs, reasons, x)
    BY DEF Cell
  <2>2. DOMAIN reasons = runs /\ reasons = [r \in runs |-> reasons[r]]
    OBVIOUS
  <2>3. /\ DOMAIN FailuresByCategory(cutoff) = marks
        /\ \A x \in marks : FailuresByCategory(cutoff)[x].tally = Tally(inCell(x))
    BY DEF FailuresByCategory, FailureCells
  <2>4. LabelsFailures(cutoff, reasons, FailuresByCategory(cutoff))
    <3> HIDE DEF reasons, marks, inCell, runs
    <3> QED
      BY <2>1, <2>2, <2>3 DEF LabelsFailures, runs
  <2>5. ASSUME NEW bucket \in TrendBuckets, NEW x \in marks
        PROVE  FailuresByCategoryTrends(cutoff, bucket)[x] =
                 [start \in DeliveryAxis(FailurePeriods(cutoff, bucket), bucket) |->
                    Tally(FailedIn(Cell(runs, reasons, x), start, bucket))]
    <3>1. \A start : FailedIn(Cell(runs, reasons, x), start, bucket)
                      = {r \in runs : FailureReason(r) = x
                                   /\ BucketStart(FailedAt(r), bucket) = start}
      BY DEF FailedIn, Cell
    <3>2. FailuresByCategoryTrends(cutoff, bucket)[x] =
            [start \in DeliveryAxis(FailurePeriods(cutoff, bucket), bucket) |->
               Tally({r \in runs : FailureReason(r) = x
                                  /\ BucketStart(FailedAt(r), bucket) = start})]
      BY DEF FailuresByCategoryTrends, FailureSeries
    <3> QED
      BY <3>1, <3>2
  <2> HIDE DEF reasons, marks, inCell
  <2>6. ASSUME NEW bucket \in TrendBuckets
        PROVE  LabelsFailurePeriods(cutoff, reasons, bucket,
                                    FailuresByCategoryTrends(cutoff, bucket))
    BY <2>1, <2>5 DEF LabelsFailurePeriods
  <2> QED
    BY <2>4, <2>6
<1>3. /\ LabelsFailures(cutoff, repos, FailuresByRepo(cutoff))
      /\ \A bucket \in TrendBuckets :
           LabelsFailurePeriods(cutoff, repos, bucket, FailuresByRepoTrends(cutoff, bucket))
  <2> DEFINE inCell(x) == {r \in runs : FailedRepo(r) = x}
             marks == {FailedRepo(r) : r \in runs}
  <2>1. /\ marks = {repos[r] : r \in runs}
        /\ \A x : inCell(x) = Cell(runs, repos, x)
    BY DEF Cell
  <2>2. DOMAIN repos = runs /\ repos = [r \in runs |-> repos[r]]
    OBVIOUS
  <2>3. /\ DOMAIN FailuresByRepo(cutoff) = marks
        /\ \A x \in marks : FailuresByRepo(cutoff)[x].tally = Tally(inCell(x))
    BY DEF FailuresByRepo, FailureCells
  <2>4. LabelsFailures(cutoff, repos, FailuresByRepo(cutoff))
    <3> HIDE DEF repos, marks, inCell, runs
    <3> QED
      BY <2>1, <2>2, <2>3 DEF LabelsFailures, runs
  <2>5. ASSUME NEW bucket \in TrendBuckets, NEW x \in marks
        PROVE  FailuresByRepoTrends(cutoff, bucket)[x] =
                 [start \in DeliveryAxis(FailurePeriods(cutoff, bucket), bucket) |->
                    Tally(FailedIn(Cell(runs, repos, x), start, bucket))]
    <3>1. \A start : FailedIn(Cell(runs, repos, x), start, bucket)
                      = {r \in runs : FailedRepo(r) = x /\ BucketStart(FailedAt(r), bucket) = start}
      BY DEF FailedIn, Cell
    <3>2. FailuresByRepoTrends(cutoff, bucket)[x] =
            [start \in DeliveryAxis(FailurePeriods(cutoff, bucket), bucket) |->
               Tally({r \in runs : FailedRepo(r) = x /\ BucketStart(FailedAt(r), bucket) = start})]
      BY DEF FailuresByRepoTrends, FailureSeries
    <3> QED
      BY <3>1, <3>2
  <2> HIDE DEF repos, marks, inCell
  <2>6. ASSUME NEW bucket \in TrendBuckets
        PROVE  LabelsFailurePeriods(cutoff, repos, bucket, FailuresByRepoTrends(cutoff, bucket))
    BY <2>1, <2>5 DEF LabelsFailurePeriods
  <2> QED
    BY <2>4, <2>6
<1>4. /\ LabelsFailures(cutoff, types, FailuresByWorkType(cutoff))
      /\ \A bucket \in TrendBuckets :
           LabelsFailurePeriods(cutoff, types, bucket, FailuresByWorkTypeTrends(cutoff, bucket))
  <2> DEFINE inCell(x) == {r \in runs : FailedWorkType(r) = x}
             marks == {FailedWorkType(r) : r \in runs}
  <2>1. /\ marks = {types[r] : r \in runs}
        /\ \A x : inCell(x) = Cell(runs, types, x)
    BY DEF Cell
  <2>2. DOMAIN types = runs /\ types = [r \in runs |-> types[r]]
    OBVIOUS
  <2>3. /\ DOMAIN FailuresByWorkType(cutoff) = marks
        /\ \A x \in marks : FailuresByWorkType(cutoff)[x].tally = Tally(inCell(x))
    BY DEF FailuresByWorkType, FailureCells
  <2>4. LabelsFailures(cutoff, types, FailuresByWorkType(cutoff))
    <3> HIDE DEF types, marks, inCell, runs
    <3> QED
      BY <2>1, <2>2, <2>3 DEF LabelsFailures, runs
  <2>5. ASSUME NEW bucket \in TrendBuckets, NEW x \in marks
        PROVE  FailuresByWorkTypeTrends(cutoff, bucket)[x] =
                 [start \in DeliveryAxis(FailurePeriods(cutoff, bucket), bucket) |->
                    Tally(FailedIn(Cell(runs, types, x), start, bucket))]
    <3>1. \A start : FailedIn(Cell(runs, types, x), start, bucket)
                      = {r \in runs : FailedWorkType(r) = x
                                   /\ BucketStart(FailedAt(r), bucket) = start}
      BY DEF FailedIn, Cell
    <3>2. FailuresByWorkTypeTrends(cutoff, bucket)[x] =
            [start \in DeliveryAxis(FailurePeriods(cutoff, bucket), bucket) |->
               Tally({r \in runs : FailedWorkType(r) = x
                                  /\ BucketStart(FailedAt(r), bucket) = start})]
      BY DEF FailuresByWorkTypeTrends, FailureSeries
    <3> QED
      BY <3>1, <3>2
  <2> HIDE DEF types, marks, inCell
  <2>6. ASSUME NEW bucket \in TrendBuckets
        PROVE  LabelsFailurePeriods(cutoff, types, bucket, FailuresByWorkTypeTrends(cutoff, bucket))
    BY <2>1, <2>5 DEF LabelsFailurePeriods
  <2> QED
    BY <2>4, <2>6
<1> HIDE DEF reasons, repos, types
<1>5. /\ LET view == FailuresByCategory(cutoff)
         IN  SumsToTally([x \in DOMAIN view |-> view[x].tally], all)
      /\ LET view == FailuresByRepo(cutoff)
         IN  SumsToTally([x \in DOMAIN view |-> view[x].tally], all)
      /\ LET view == FailuresByWorkType(cutoff)
         IN  SumsToTally([x \in DOMAIN view |-> view[x].tally], all)
  BY <1>2, <1>3, <1>4, LabelledFailuresAddUp
<1>6. \A view : SumsToTally([x \in DOMAIN view |-> view[x].tally], all) =>
        /\ SumFunction([x \in DOMAIN view |-> view[x].tally.count]) = all.count
        /\ SumFunction([x \in DOMAIN view |-> view[x].tally.blocked]) = all.blocked
  <2> HIDE DEF all
  <2> TAKE view
  <2> DEFINE tallies == [x \in DOMAIN view |-> view[x].tally]
  <2>1. /\ [x \in DOMAIN tallies |-> tallies[x].count] = [x \in DOMAIN view |-> view[x].tally.count]
        /\ [x \in DOMAIN tallies |-> tallies[x].blocked]
             = [x \in DOMAIN view |-> view[x].tally.blocked]
    OBVIOUS
  <2> HIDE DEF tallies
  <2>2. SumsToTally(tallies, all) =>
          /\ SumFunction([x \in DOMAIN view |-> view[x].tally.count]) = all.count
          /\ SumFunction([x \in DOMAIN view |-> view[x].tally.blocked]) = all.blocked
    BY <2>1 DEF SumsToTally
  <2> QED
    BY <2>2 DEF tallies
<1>7. ASSUME NEW bucket \in TrendBuckets
      PROVE  LET trend == FailureTrends(cutoff, bucket)
             IN  SumFunction([start \in DOMAIN trend |-> trend[start].failed]) = all.failed
  <2> DEFINE axis == DeliveryAxis(FailurePeriods(cutoff, bucket), bucket)
             own == [start \in axis |-> Tally(FailedIn(runs, start, bucket))]
  <2>1. FailureTrends(cutoff, bucket) = own
    BY DEF FailureTrends, FailedIn
  <2>2. SumsToTally(own, all)
    <3>1. runs \in SUBSET Failed(cutoff)
      OBVIOUS
    <3> QED
      BY <3>1, FailurePeriodsAddUp
  <2> HIDE DEF own, all
  <2> QED
    BY <2>1, <2>2 DEF SumsToTally
<1>8. ASSUME NEW bucket \in TrendBuckets, NEW x \in DOMAIN FailuresByCategory(cutoff)
      PROVE  LET series == FailuresByCategoryTrends(cutoff, bucket)
             IN  SumFunction([start \in DOMAIN series[x] |-> series[x][start].count])
                   = FailuresByCategory(cutoff)[x].tally.count
  BY <1>2, LabelledFailurePeriodsAddUp
<1>9. ASSUME NEW bucket \in TrendBuckets, NEW x \in DOMAIN FailuresByRepo(cutoff)
      PROVE  LET series == FailuresByRepoTrends(cutoff, bucket)
             IN  SumFunction([start \in DOMAIN series[x] |-> series[x][start].count])
                   = FailuresByRepo(cutoff)[x].tally.count
  BY <1>3, LabelledFailurePeriodsAddUp
<1>10. ASSUME NEW bucket \in TrendBuckets, NEW x \in DOMAIN FailuresByWorkType(cutoff)
      PROVE  LET series == FailuresByWorkTypeTrends(cutoff, bucket)
             IN  SumFunction([start \in DOMAIN series[x] |-> series[x][start].count])
                   = FailuresByWorkType(cutoff)[x].tally.count
  BY <1>4, LabelledFailurePeriodsAddUp
<1> HIDE DEF all
<1> QED
  BY <1>1, <1>5, <1>6, <1>7, <1>8, <1>9, <1>10 DEF FailuresAddUp, ColumnSum

LEMMA RowsTellTheEnd ==
  ASSUME NEW run, NEW row, ApartFromJobs(row) = ApartFromJobs(DeriveOutcome(run))
  PROVE  /\ row.outcome = OutcomeFor(run.status)
         /\ row.completed = LatestAt(run, TerminalEvents, run.created)
<1> DEFINE apart == ApartFromJobs(row)
<1>1. /\ "outcome" \in DOMAIN apart /\ apart.outcome = OutcomeFor(run.status)
      /\ "completed" \in DOMAIN apart
      /\ apart.completed = LatestAt(run, TerminalEvents, run.created)
  <2>1. apart = ApartFromJobs(DeriveOutcome(run))
    OBVIOUS
  <2> HIDE DEF apart
  <2> QED
    BY <2>1, ColumnsApartFromJobs
<1>2. /\ DOMAIN apart = DOMAIN row \ {"repo", "provider", "jobs", "cost"}
      /\ \A column \in DOMAIN apart : apart[column] = row[column]
  BY DEF ApartFromJobs
<1> HIDE DEF apart
<1> QED
  BY <1>1, <1>2

LEMMA ApartTheyAddUp ==
  ASSUME NEW S, IsFiniteSet(S), NEW a \in SUBSET S, NEW b \in SUBSET S, a \cap b = {}
  PROVE  Cardinality(a \cup b) = Cardinality(a) + Cardinality(b)
<1>1. IsFiniteSet(a) /\ IsFiniteSet(b)
  BY FS_Subset
<1>2. Cardinality(a \cup b) = Cardinality(a) + Cardinality(b) - Cardinality(a \cap b)
  BY <1>1, FS_Union
<1>3. Cardinality(a \cap b) = 0
  BY FS_EmptySet
<1> QED
  BY <1>1, <1>2, <1>3, FS_CardinalityType

\* Rows and live runs: a failed run is told by both, or its row is lost.
LEMMA SourcesAgree ==
  ASSUME MemoryInv, NEW cutoff,
         \A r \in MemoryRuns : outcomeRow[r] # NoRow =>
            book[r].status \in TerminalStatuses /\ r \notin lost
  PROVE  /\ FailureQueue(cutoff).tally.blocked
              = Delivered(Finished(cutoff)).blocked + Unrecorded(cutoff, "blocked")
         /\ FailureQueue(cutoff).tally.failed
              = Cardinality(WithOutcome(Finished(cutoff), "failed"))
                  + Unrecorded(cutoff, "execution_failed")
<1> DEFINE all == Failed(cutoff)
           closed == Finished(cutoff)
           gone(status) == {r \in all : r \in lost /\ book[r].status = status}
<1>1. ASSUME NEW r \in MemoryRuns, book[r].status \in TerminalStatuses, r \notin lost
      PROVE  /\ outcomeRow[r] # NoRow
             /\ outcomeRow[r].outcome = OutcomeFor(book[r].status)
             /\ book[r].status \in FailureStatuses => outcomeRow[r].completed = FailedAt(r)
  <2>1. /\ outcomeRow[r] # NoRow
        /\ ApartFromJobs(outcomeRow[r]) = ApartFromJobs(DeriveOutcome(book[r]))
    BY <1>1 DEF MemoryInv, RowTells
  <2>2. /\ outcomeRow[r].outcome = OutcomeFor(book[r].status)
        /\ outcomeRow[r].completed = LatestAt(book[r], TerminalEvents, book[r].created)
    BY <2>1, RowsTellTheEnd
  <2>3. book[r].status \in FailureStatuses =>
          LatestAt(book[r], TerminalEvents, book[r].created) = FailedAt(r)
    BY BookTypes DEF Marked, FailedAt
  <2> QED
    BY <2>1, <2>2, <2>3
<1>2. /\ \A status \in TerminalStatuses : OutcomeFor(status) = "blocked" <=> status = "blocked"
      /\ \A status \in TerminalStatuses :
           OutcomeFor(status) = "failed" <=> status = "execution_failed"
      /\ FailureStatuses \subseteq TerminalStatuses
      /\ FailureStatuses = {"blocked", "execution_failed"}
  BY DEF TerminalStatuses, OutcomeFor, FailureStatuses
<1>3. /\ all \subseteq MemoryRuns /\ closed \subseteq MemoryRuns /\ IsFiniteSet(MemoryRuns)
      /\ \A status : WithOutcome(closed, status) = {r \in closed : outcomeRow[r].outcome = status}
  BY MemoryAssumption DEF Failed, RunsIn, Finished, WithOutcome
<1>4. ASSUME NEW r \in MemoryRuns
      PROVE  /\ r \in all <=> book[r].status \in FailureStatuses /\ FailedAt(r) >= cutoff
             /\ r \in closed <=> outcomeRow[r] # NoRow /\ outcomeRow[r].completed >= cutoff
  BY DEF Failed, RunsIn, Finished
<1> HIDE DEF all, closed
<1>5. ASSUME NEW status \in FailureStatuses
      PROVE  LET told == WithOutcome(closed, OutcomeFor(status))
             IN  /\ {r \in all : book[r].status = status} = told \cup gone(status)
                 /\ told \in SUBSET MemoryRuns /\ gone(status) \in SUBSET MemoryRuns
                 /\ told \cap gone(status) = {}
  <2> DEFINE told == WithOutcome(closed, OutcomeFor(status))
  <2>1. OutcomeFor("blocked") = "blocked" /\ OutcomeFor("execution_failed") = "failed"
    BY DEF OutcomeFor
  <2>2. ASSUME NEW r \in MemoryRuns
        PROVE  r \in all /\ book[r].status = status /\ r \notin lost <=> r \in told
    <3>1. r \in told <=> r \in closed /\ outcomeRow[r].outcome = OutcomeFor(status)
      BY <1>3
    <3>2. CASE book[r].status \in TerminalStatuses /\ r \notin lost
      <4>1. outcomeRow[r].outcome = OutcomeFor(status) <=> book[r].status = status
        BY <1>1, <1>2, <2>1, <3>2
      <4> QED
        BY <1>1, <1>2, <1>4, <3>1, <3>2, <4>1
    <3>3. CASE book[r].status \notin TerminalStatuses \/ r \in lost
      BY <1>2, <1>4, <3>1, <3>3
    <3> QED
      BY <3>2, <3>3
  <2>3. told \subseteq MemoryRuns /\ gone(status) \subseteq MemoryRuns
    BY <1>3
  <2> HIDE DEF told
  <2>4. {r \in all : book[r].status = status} = told \cup gone(status)
    BY <1>3, <2>2, <2>3
  <2>5. told \cap gone(status) = {}
    BY <2>2, <2>3
  <2> QED
    BY <2>3, <2>4, <2>5 DEF told
<1>6. ASSUME NEW status \in FailureStatuses
      PROVE  Cardinality({r \in all : book[r].status = status})
               = Cardinality(WithOutcome(closed, OutcomeFor(status))) + Unrecorded(cutoff, status)
  <2> DEFINE told == WithOutcome(closed, OutcomeFor(status))
             these == {r \in all : book[r].status = status}
             apart == gone(status)
  <2>1. these = told \cup apart /\ told \in SUBSET MemoryRuns /\ apart \in SUBSET MemoryRuns
        /\ told \cap apart = {}
    BY <1>5
  <2>2. Unrecorded(cutoff, status) = Cardinality(apart)
    BY DEF Unrecorded, all
  <2> HIDE DEF told, these, apart
  <2>3. Cardinality(these) = Cardinality(told) + Cardinality(apart)
    BY <1>3, <2>1, ApartTheyAddUp
  <2> QED
    BY <2>2, <2>3 DEF told, these
<1>7. {r \in all : book[r].status # "blocked"} = {r \in all : book[r].status = "execution_failed"}
  BY <1>2, <1>3, <1>4
<1>8. OutcomeFor("blocked") = "blocked" /\ OutcomeFor("execution_failed") = "failed"
  BY DEF OutcomeFor
<1>9. /\ Tally(all).blocked = Cardinality({r \in all : book[r].status = "blocked"})
      /\ Tally(all).failed = Cardinality({r \in all : book[r].status = "execution_failed"})
      /\ Delivered(closed).blocked = Cardinality(WithOutcome(closed, "blocked"))
  BY <1>7, TallyColumns, DeliveredColumns
<1>10. FailureQueue(cutoff).tally = Tally(all)
  BY DEF FailureQueue, all
<1> QED
  BY <1>2, <1>6, <1>8, <1>9, <1>10 DEF closed

LEMMA ViewsTellTheSame == MemoryInv => ViewsAgree
<1> SUFFICES ASSUME MemoryInv PROVE ViewsAgree
  OBVIOUS
<1>1. \A cutoff : DeliveryAddsUp(cutoff) /\ FailuresAddUp(cutoff)
  BY DeliverySums, FailureSums
<1>2. ASSUME \A r \in MemoryRuns : outcomeRow[r] # NoRow =>
                book[r].status \in TerminalStatuses /\ r \notin lost,
             NEW cutoff
      PROVE  /\ FailureQueue(cutoff).tally.blocked
                  = Delivered(Finished(cutoff)).blocked + Unrecorded(cutoff, "blocked")
             /\ FailureQueue(cutoff).tally.failed
                  = Cardinality(WithOutcome(Finished(cutoff), "failed"))
                      + Unrecorded(cutoff, "execution_failed")
  BY <1>2, SourcesAgree
<1> QED
  BY <1>1, <1>2, QueuesAddUp DEF ViewsAgree

-----------------------------------------------------------------------------
(* The views' promise.                                                       *)

\* Whatever the runs, and whenever they are told: the queues hold every run
\* that is where they say, each cut of what was delivered or failed, by type,
\* repository, category or period, adds up to the whole, a median never
\* exceeds its ninetieth percentile, and the failures counted from the runs
\* are those counted from their outcome rows together with those whose row
\* was logged as lost (memory/metrics.py).
THEOREM ViewsAddUp == MemorySpec => []ViewsAgree
BY ViewsTellTheSame, MemoryInit, MemoryNext, PTL DEF MemorySpec

\* The same, of the specification that runs every component.
THEOREM ViewsAreKept == ServicesSpec => []ViewsHold
<1>1. ViewsAgree => ViewsHold
  BY DEF ViewsHold
<1> QED
  BY <1>1, MemoryAlone, ViewsAddUp, PTL

-----------------------------------------------------------------------------
(* Types: the freeze calendar, the keyrings and the provider's key set       *)

LEMMA FreezeKeepsTypes == FreezeSpec => []FreezeTypeOK
<1> DEFINE bounded == Len(freezes) <= MaxWindows
<1>1. InitFreeze => bounded
  BY FreezeAssumption DEF InitFreeze
<1>2. FreezeInv /\ bounded /\ [NextFreeze]_freezeVars => bounded'
  <2> SUFFICES ASSUME FreezeInv, bounded, [NextFreeze]_freezeVars PROVE bounded'
    OBVIOUS
  <2>1. freezes \in Seq(WindowsOffered) /\ MaxWindows \in Nat
    BY FreezeAssumption DEF FreezeInv
  <2>2. ASSUME NEW w \in WindowsOffered, AddWindow(w) PROVE bounded'
    BY <2>1, <2>2 DEF AddWindow
  <2>3. CASE DropWindow
    BY <2>1, <2>3 DEF DropWindow
  <2> QED
    BY <2>2, <2>3 DEF NextFreeze, MinutePasses, freezeVars
<1>3. FreezeInv /\ bounded => FreezeTypeOK
  BY DEF FreezeInv, FreezeTypeOK
<1> QED
  BY <1>1, <1>2, <1>3, FreezeInit, FreezeNext, PTL DEF FreezeSpec

\* A ring of one or two keys, as a function.
LEMMA RingsAreShort ==
  ASSUME NEW ring \in Seq(Keys), Len(ring) <= 2
  PROVE  ring \in Rings
<1>1. CASE Len(ring) = 0
  BY <1>1, EmptySeq DEF Rings
<1>2. CASE Len(ring) = 1
  <2>1. ring[1] \in Keys
    BY <1>2
  <2>2. ring = <<ring[1]>>
    BY <1>2
  <2> QED
    BY <2>1, <2>2 DEF Rings
<1>3. CASE Len(ring) = 2
  <2>1. ring[1] \in Keys /\ ring[2] \in Keys
    BY <1>3
  <2>2. ring = <<ring[1], ring[2]>>
    BY <1>3
  <2> QED
    BY <2>1, <2>2 DEF Rings
<1>4. Len(ring) \in Nat
  BY LenProperties
<1>5. \A n \in Nat : n <= 2 => n = 0 \/ n = 1 \/ n = 2
  OBVIOUS
<1> QED
  BY <1>1, <1>2, <1>3, <1>4, <1>5, Zenon

\* Keys are prepended to a ring of one at most.
RingsBound ==
  /\ configured \in Rings
  /\ serverKeys \in [Servers -> Rings]
  /\ primaries \subseteq Keys \cup {Plain}
  /\ rewrap # NoPass => rewrap.ring \in Rings

LEMMA KeysKeepTypes == KeysSpec => []KeysTypeOK
<1>1. InitKeys => RingsBound
  BY DEF InitKeys, RingsBound, Rings
<1>2. KeysInv /\ RingsBound /\ [NextKeys]_keysVars => RingsBound'
  <2> SUFFICES ASSUME KeysInv, RingsBound, [NextKeys]_keysVars PROVE RingsBound'
    OBVIOUS
  <2> USE DEF RingsBound
  <2>t. KeysTypes /\ configured \in Seq(Keys)
    BY DEF KeysInv, KeysTypes
  <2>p. /\ NoPass.pc = "none"
        /\ rewrap = NoPass \/ (rewrap \in Passes /\ rewrap.pc \in {"running", "ended"})
    BY <2>t, PassOrNone
  <2>e. /\ \A s \in Servers : Encrypted(serverKeys[s]) \in Keys \cup {Plain}
        /\ Encrypted(configured) \in Keys \cup {Plain}
    BY <2>t, EncryptedType DEF KeysTypes
  <2>1. ASSUME NEW k \in Keys, Rotate(k) PROVE RingsBound'
    <3>1. /\ configured' \in Seq(Keys) /\ Len(configured') <= 2
          /\ UNCHANGED <<serverKeys, stored, rewrap, primaries>>
      BY <2>1, <2>t DEF Rotate
    <3> QED
      BY <3>1, RingsAreShort
  <2>2. CASE Retire
    <3>1. /\ Len(configured) = 2 /\ configured' = <<configured[1]>>
          /\ UNCHANGED <<serverKeys, stored, rewrap, primaries>>
      BY <2>2 DEF Retire
    <3>2. configured' \in Seq(Keys) /\ Len(configured') <= 2
      BY <2>t, <3>1
    <3> QED
      BY <3>1, <3>2, RingsAreShort
  <2>3. ASSUME NEW s \in Servers, Restart(s) PROVE RingsBound'
    BY <2>3, <2>e DEF Restart
  <2>4. ASSUME NEW s \in Servers, NEW p \in Payloads, WritePayload(s, p) PROVE RingsBound'
    BY <2>4 DEF WritePayload
  <2>5. CASE StartPass
    <3>1. /\ rewrap'.ring = configured /\ UNCHANGED <<configured, serverKeys, stored>>
          /\ primaries' = {Encrypted(serverKeys[s]) : s \in Servers}
      BY <2>5 DEF StartPass
    <3> QED
      BY <3>1, <2>e
  <2>6. CASE CrashPass
    BY <2>6 DEF CrashPass
  <2>7. ASSUME NEW dryRun \in BOOLEAN, EndPass(dryRun) PROVE RingsBound'
    <3>1. /\ rewrap.pc = "running" /\ UNCHANGED <<configured, serverKeys, primaries>>
          /\ \/ rewrap' = NoPass
             \/ \E failed : rewrap' = [rewrap EXCEPT !.pc = "ended", !.failed = failed]
      BY <2>7 DEF EndPass
    <3>2. rewrap \in Passes
      BY <3>1, <2>p
    <3>3. rewrap' # NoPass => rewrap'.ring = rewrap.ring
      BY <3>1, <3>2 DEF Passes
    <3> QED
      BY <3>1, <3>3, <2>p
  <2>8. CASE UNCHANGED keysVars
    BY <2>8 DEF keysVars
  <2> QED
    BY <2>1, <2>2, <2>3, <2>4, <2>5, <2>6, <2>7, <2>8 DEF NextKeys
<1>3. KeysInv /\ RingsBound => KeysTypeOK
  <2> SUFFICES ASSUME KeysInv, RingsBound PROVE KeysTypeOK
    OBVIOUS
  <2>1. rewrap # NoPass => rewrap.pc \in {"running", "ended"}
    BY PassOrNone DEF KeysInv
  <2> QED
    BY <2>1 DEF KeysInv, KeysTypes, RingsBound, KeysTypeOK, Values
<1> QED
  BY <1>1, <1>2, <1>3, KeysInit, KeysNext, PTL DEF KeysSpec

LEMMA JwksKeepsTypes == JwksSpec => []JwksTypeOK
<1>1. InitJwks => JwksTypeOK
  BY JwksAssumption DEF InitJwks, JwksTypeOK
<1>2. JwksTypeOK /\ [NextJwks]_jwksVars => JwksTypeOK'
  <2> SUFFICES ASSUME JwksTypeOK, [NextJwks]_jwksVars PROVE JwksTypeOK'
    OBVIOUS
  <2> USE JwksAssumption DEF JwksTypeOK
  <2>1. ASSUME NEW k \in SigningKeys, VerifyToken(k) PROVE JwksTypeOK'
    <3>1. /\ fetching' = [key |-> k, now |-> jwksClock, document |-> NoDocument]
          /\ UNCHANGED <<jwksClock, published, turned, keyset, fetchedAt>>
      BY <2>1 DEF VerifyToken
    <3> QED
      BY <3>1
  <2>2. CASE ProviderAnswers
    <3>1. /\ fetching # NoToken /\ fetching' = [fetching EXCEPT !.document = published]
          /\ UNCHANGED <<jwksClock, published, turned, keyset, fetchedAt>>
      BY <2>2 DEF ProviderAnswers
    <3> QED
      BY <3>1
  <2>3. CASE FetchReturns
    BY <2>3 DEF FetchReturns
  <2>4. CASE FetchFails
    BY <2>4 DEF FetchFails
  <2>5. ASSUME NEW ks \in SUBSET SigningKeys, PublishKeys(ks) PROVE JwksTypeOK'
    BY <2>5 DEF PublishKeys
  <2>6. CASE JwksTick
    <3>1. /\ jwksClock' = jwksClock + 1 /\ jwksClock < LastJwksTick
          /\ UNCHANGED <<published, turned, keyset, fetchedAt, fetching>>
      BY <2>6 DEF JwksTick
    <3>2. 0..jwksClock \subseteq 0..jwksClock'
      BY <3>1
    <3> QED
      BY <3>1, <3>2
  <2>7. CASE UNCHANGED jwksVars
    BY <2>7 DEF jwksVars
  <2> QED
    BY <2>1, <2>2, <2>3, <2>4, <2>5, <2>6, <2>7 DEF NextJwks
<1> QED
  BY <1>1, <1>2, PTL DEF JwksSpec

-----------------------------------------------------------------------------
(* Types: sign-in                                                            *)

LEMMA SecondsGrow == \A t, u \in Nat : t <= u => Seconds(t) <= Seconds(u)
BY DEF Seconds

\* A cookie that is made carries whole seconds of the clock and a lifetime of
\* at most the cap.
LEMMA CookiesMade ==
  ASSUME SsoTypeOK, NEW sub \in Persons, NEW iat \in 0..Seconds(LastHalfSecond),
         NEW ttl \in 0..MaxLifetime
  PROVE  [sub |-> sub, iat |-> iat, exp |-> Expiry(ttl)] \in SessionCookies
<1>1. halfSecond \in Nat /\ LastHalfSecond \in Nat /\ halfSecond <= LastHalfSecond
  BY SessionAssumption DEF SsoTypeOK
<1>2. /\ Seconds(halfSecond) \in Nat /\ Seconds(LastHalfSecond) \in Nat
      /\ Seconds(halfSecond) <= Seconds(LastHalfSecond)
  BY <1>1, SecondsPass, SecondsGrow
<1>3. MaxLifetime \in Nat
  BY SessionAssumption
<1>4. Expiry(ttl) \in 0..(Seconds(LastHalfSecond) + MaxLifetime)
  BY <1>2, <1>3 DEF Expiry
<1> QED
  BY <1>4 DEF SessionCookies

LEMMA SsoKeepsTypes == SsoSpec => []SsoTypeOK
<1>1. InitSso => SsoTypeOK
  BY SessionAssumption DEF InitSso, SsoTypeOK
<1>2. SsoTypeOK /\ [NextSso]_ssoVars => SsoTypeOK'
  <2> SUFFICES ASSUME SsoTypeOK, [NextSso]_ssoVars PROVE SsoTypeOK'
    OBVIOUS
  <2>t. /\ halfSecond \in Nat /\ LastHalfSecond \in Nat /\ halfSecond <= LastHalfSecond
        /\ begun \in Nat /\ MaxLogins \in Nat /\ begun <= MaxLogins
        /\ LoginTtl \in Nat /\ SessionTtl \in Nat /\ MaxLifetime \in Nat
        /\ SessionTtl <= MaxLifetime
    BY SessionAssumption, SessionAssumption DEF SsoTypeOK
  <2>s. /\ Seconds(halfSecond) \in Nat /\ Seconds(LastHalfSecond) \in Nat
        /\ 2 * Seconds(halfSecond) <= halfSecond
        /\ Seconds(halfSecond) <= Seconds(LastHalfSecond)
    BY <2>t, HalfSeconds, SecondsPass, SecondsGrow
  <2>1. CASE BeginLogin
    <3>1. /\ begun < MaxLogins /\ begun' = begun + 1
          /\ loginCookie' = [state |-> begun + 1, exp |-> Expiry(LoginTtl)]
          /\ UNCHANGED <<halfSecond, session, codes, answers, signedIn, seen>>
      BY <2>1 DEF BeginLogin
    <3>2. begun + 1 \in 1..MaxLogins /\ Expiry(LoginTtl) \in 0..(LastHalfSecond + LoginTtl)
      BY <2>t, <2>s, <3>1 DEF Expiry
    <3>3. loginCookie' \in [state : 1..MaxLogins, exp : 0..(LastHalfSecond + LoginTtl)]
      BY <3>1, <3>2
    <3>4. begun' \in 0..MaxLogins
      BY <2>t, <3>1
    <3> QED
      BY <3>1, <3>3, <3>4 DEF SsoTypeOK
  <2>2. ASSUME NEW s \in 1..MaxLogins, NEW who \in Persons, ProviderReturns(s, who)
        PROVE  SsoTypeOK'
    BY <2>2 DEF ProviderReturns, SsoTypeOK
  <2>3. CASE ProviderDeclines
    BY <2>3 DEF ProviderDeclines, Answer, SsoTypeOK
  <2>4. ASSUME NEW c \in codes, Callback(c) PROVE SsoTypeOK'
    <3> DEFINE made == [sub |-> c.who, iat |-> Seconds(halfSecond), exp |-> Expiry(SessionTtl)]
               reply == [login |-> "clear", session |-> "set", value |-> made]
               entry == [who |-> c.who, at |-> halfSecond]
    <3>1. /\ codes' = codes \ {c} /\ answers' = answers \cup {reply}
          /\ signedIn' = signedIn \cup {entry} /\ seen' = [seen EXCEPT ![c.who] = halfSecond]
          /\ UNCHANGED <<halfSecond, begun, loginCookie, session>>
      BY <2>4 DEF Callback, Answer
    <3>2. c.who \in Persons /\ halfSecond \in 0..LastHalfSecond
      BY DEF SsoTypeOK
    <3>3. made \in SessionCookies
      BY <2>t, <2>s, <3>2, CookiesMade
    <3> HIDE DEF made
    <3>4. /\ reply \in [login : {"keep", "clear"}, session : {"keep", "set", "clear"},
                        value : SessionCookies \cup {NoCookie}]
          /\ entry \in [who : Persons, at : 0..LastHalfSecond]
      BY <3>2, <3>3
    <3> HIDE DEF reply, entry
    <3> QED
      BY <3>1, <3>2, <3>4 DEF SsoTypeOK
  <2>5. CASE Read
    <3> DEFINE made == RenewedCookie(session)
               reply == [login |-> "keep", session |-> "set", value |-> made]
    <3>1. /\ session # NoCookie /\ seen' = [seen EXCEPT ![session.sub] = halfSecond]
          /\ UNCHANGED <<halfSecond, begun, loginCookie, session, codes, signedIn>>
          /\ \/ Renews(session) /\ answers' = answers \cup {reply}
             \/ answers' = answers
      BY <2>5 DEF Read, Good, Answer
    <3>2. session \in SessionCookies /\ halfSecond \in 0..LastHalfSecond
      BY <3>1 DEF SsoTypeOK
    <3>3. session.sub \in Persons /\ session.iat \in 0..Seconds(LastHalfSecond)
      BY <3>2 DEF SessionCookies
    <3>4. ASSUME Renews(session) PROVE made \in SessionCookies
      <4>1. LeftToCap(session) \in Int
        BY <2>t, <2>s, <3>3 DEF LeftToCap
      <4>2. Seconds(LeftToCap(session)) \in Int
        BY <4>1, HalfSeconds
      <4>3. RenewedTtl(session) \in 0..MaxLifetime
        BY <2>t, <3>4, <4>2 DEF RenewedTtl, Renews, Least
      <4> QED
        BY <3>3, <4>3, CookiesMade DEF RenewedCookie
    <3> HIDE DEF made
    <3>5. Renews(session) =>
            reply \in [login : {"keep", "clear"}, session : {"keep", "set", "clear"},
                       value : SessionCookies \cup {NoCookie}]
      BY <3>4
    <3> HIDE DEF reply
    <3> QED
      BY <3>1, <3>2, <3>3, <3>5 DEF SsoTypeOK
  <2>6. CASE Logout
    BY <2>6 DEF Logout, Answer, SsoTypeOK
  <2>7. ASSUME NEW a \in answers, BrowserReceives(a) PROVE SsoTypeOK'
    <3>1. a.value \in SessionCookies \cup {NoCookie}
      BY DEF SsoTypeOK
    <3> QED
      BY <2>7, <3>1 DEF BrowserReceives, SsoTypeOK
  <2>8. CASE HalfSecondPasses
    BY <2>t, <2>8 DEF HalfSecondPasses, SsoTypeOK
  <2>9. CASE UNCHANGED ssoVars
    BY <2>9 DEF ssoVars, SsoTypeOK
  <2> QED
    BY <2>1, <2>2, <2>3, <2>4, <2>5, <2>6, <2>7, <2>8, <2>9 DEF NextSso
<1> QED
  BY <1>1, <1>2, PTL DEF SsoSpec

-----------------------------------------------------------------------------
(* Types: the limiter and the intake                                         *)

LEMMA LimiterKeepsTypes == LimiterSpec => []LimiterTypeOK
<1>1. InitLimiter => LimiterTypeOK
  BY LimiterAssumption DEF InitLimiter, LimiterTypeOK
<1>2. LimiterTypeOK /\ [NextLimiter]_limiterVars => LimiterTypeOK'
  <2> SUFFICES ASSUME LimiterTypeOK, [NextLimiter]_limiterVars PROVE LimiterTypeOK'
    OBVIOUS
  <2> USE DEF LimiterTypeOK
  <2>s. /\ DOMAIN Swept \subseteq Clients
        /\ \A c \in DOMAIN Swept : Swept[c] \in Windows
    BY DEF Swept
  <2>w. \A c : CurrentWindow(Swept, c) \in Windows
    BY <2>s, LimiterAssumption DEF CurrentWindow, Windows
  <2>1. ASSUME NEW c \in Clients, Admit(c) PROVE LimiterTypeOK'
    <3> DEFINE window == CurrentWindow(Swept, c)
               counted == [window EXCEPT !.count = @ + 1]
    <3>1. /\ Fits(window)
          /\ buckets' = [d \in DOMAIN Swept \cup {c} |-> IF d = c THEN counted ELSE Swept[d]]
          /\ admitted' = [admitted EXCEPT ![c] = Append(@, tick)]
          /\ UNCHANGED tick
      BY <2>1 DEF Admit
    <3>0. window \in Windows
      BY <2>w
    <3> HIDE DEF window
    <3>2. counted \in Windows
      <4>1. /\ window.start \in 0..MaxTick /\ window.count \in 0..RateLimit
            /\ window.count < RateLimit
        BY <3>0, <3>1 DEF Windows, Fits
      <4>2. window.count + 1 \in 0..RateLimit
        BY <4>1, LimiterConstants
      <4>3. counted = [start |-> window.start, count |-> window.count + 1]
        BY <3>0 DEF Windows
      <4> QED
        BY <4>1, <4>2, <4>3 DEF Windows
    <3> HIDE DEF counted
    <3> QED
      BY <2>s, <3>1, <3>2
  <2>2. ASSUME NEW c \in Clients, Refuse(c) PROVE LimiterTypeOK'
    <3>1. buckets' = Swept /\ UNCHANGED <<tick, admitted>>
      BY <2>2 DEF Refuse
    <3> QED
      BY <2>s, <3>1
  <2>3. CASE Tick
    BY <2>3, LimiterAssumption DEF Tick, LimiterAssumption
  <2>4. CASE UNCHANGED limiterVars
    BY <2>4 DEF limiterVars
  <2> QED
    BY <2>1, <2>2, <2>3, <2>4 DEF NextLimiter
<1> QED
  BY <1>1, <1>2, PTL DEF LimiterSpec

\* A delivery is signed for a tenant or for nobody.
LEMMA SignedForATenant == \A d \in Deliveries : OrgOf(d) \in Orgs \cup {NoOrg}
<1> SUFFICES ASSUME NEW d \in Deliveries PROVE OrgOf(d) \in Orgs \cup {NoOrg}
  OBVIOUS
<1>1. TenantOf(d.secret) \in Orgs \cup {NoOrg}
  BY IntakeAssumption DEF TenantOf, IntakeAssumption
<1> QED
  BY <1>1, IntakeAssumption DEF OrgOf

LEMMA IntakeTypesByStep ==
  ASSUME IntakeTypeOK, [NextIntake]_intakeVars
  PROVE  IntakeTypeOK'
<1> USE DEF IntakeTypeOK
<1>b. \A p \in Processes : process[p] # Idle =>
        process[p].delivery \in Deliveries /\ process[p].org \in Orgs
  BY DEF Busy
<1>i. /\ \A p \in Processes : process[p].pc # "idle" => process[p] # Idle
      /\ Idle.pc = "idle"
  BY DEF Idle
<1>r. ASSUME NEW o \in Orgs, NEW i, NEW s \in {"active", "ended"}
      PROVE  [runOf EXCEPT ![o][i] = s] \in [Orgs -> [Issues -> {"none", "active", "ended"}]]
  OBVIOUS
<1>1. ASSUME NEW p \in Processes, NEW d \in Deliveries, NEW fresh, Arrive(p, d, fresh)
      PROVE  IntakeTypeOK'
  <2>1. /\ process[p] = Idle /\ arrivals < MaxArrivals /\ arrivals' = arrivals + 1
        /\ UNCHANGED <<clock, runOf, touched>>
    BY <1>1 DEF Arrive
  <2>2. CASE OrgOf(d) # NoOrg /\ Recorded(d, OrgOf(d)) /\ process' = [process EXCEPT ![p] =
             [pc |-> "route", delivery |-> d, org |-> OrgOf(d)]]
    <3> DEFINE org == OrgOf(d)  key == <<d.provider, d.key>>
               row == [org |-> org, at |-> clock]
    <3>1. org \in Orgs
      BY <2>2, SignedForATenant
    <3>2. process' \in [Processes -> {Idle} \cup Busy]
      BY <2>2, <3>1 DEF Busy
    <3>3. /\ DOMAIN Kept(org) \subseteq DOMAIN rows
          /\ \A k \in DOMAIN Kept(org) : Kept(org)[k] = rows[k]
      BY DEF Kept
    <3>4. /\ row \in [org : Orgs, at : 0..MaxClock]
          /\ key \in {<<e.provider, e.key>> : e \in Deliveries}
      BY <3>1
    <3>5. \/ /\ rows' = [k \in DOMAIN Kept(org) \cup {key} |->
                         IF k = key THEN row ELSE Kept(org)[k]]
             /\ handled' = [handled EXCEPT ![d] = Append(@, clock)]
          \/ UNCHANGED <<rows, handled>>
      BY <2>2 DEF Recorded
    <3> HIDE DEF org, key, row
    <3>6. /\ DOMAIN rows' \subseteq {<<e.provider, e.key>> : e \in Deliveries}
          /\ \A k \in DOMAIN rows' : rows'[k] \in [org : Orgs, at : 0..MaxClock]
      BY <3>3, <3>4, <3>5
    <3>7. handled' \in [Deliveries -> Seq(0..MaxClock)]
      <4>1. Append(handled[d], clock) \in Seq(0..MaxClock)
        OBVIOUS
      <4> QED
        BY <3>5, <4>1
    <3>8. arrivals' \in 0..MaxArrivals
      BY <2>1, IntakeAssumption
    <3> QED
      BY <2>1, <3>2, <3>6, <3>7, <3>8
  <2>3. CASE UNCHANGED <<rows, handled, process>>
    BY <2>1, <2>3, IntakeAssumption
  <2> QED
    BY <1>1, <2>2, <2>3 DEF Arrive
<1>2. ASSUME NEW p \in Processes, NEW d \in Deliveries, AnyWebhook(p, d) PROVE IntakeTypeOK'
  BY <1>1, <1>2 DEF AnyWebhook, LinearWebhook, GithubWebhook, GitlabWebhook, JiraWebhook,
                    SlackWebhook, TeamsWebhook
<1>3. ASSUME NEW p \in Processes, HandlerStep(p) \/ Die(p) PROVE IntakeTypeOK'
  <2> DEFINE d == process[p].delivery  org == process[p].org
  <2>0. process[p] # Idle
    BY <1>3, <1>i DEF HandlerStep, RouteDecision, RouteTrigger, StartRun, RouteRest, Die
  <2>1. d \in Deliveries /\ org \in Orgs /\ process[p] \in Busy
    BY <1>b, <2>0
  <2>2. UNCHANGED <<clock, rows, arrivals, handled>>
    BY <1>3 DEF HandlerStep, RouteDecision, RouteTrigger, StartRun, RouteRest, Die
  <2>3. touched' = touched \/ touched' = [touched EXCEPT ![d] = @ \cup {org}]
    BY <1>3 DEF HandlerStep, RouteDecision, RouteTrigger, StartRun, RouteRest, Die, Touch
  <2>4. process' = [process EXCEPT ![p] = Idle] \/ process' = [process EXCEPT ![p].pc = "start"]
    BY <1>3 DEF HandlerStep, RouteDecision, RouteTrigger, StartRun, RouteRest, Die, Stay, Go
  <2>5. \/ runOf' = runOf
        \/ \E s \in {"active", "ended"} : runOf' = [runOf EXCEPT ![org][d.issue] = s]
    BY <1>3 DEF HandlerStep, RouteDecision, RouteTrigger, StartRun, RouteRest, Die
  <2> HIDE DEF d, org
  <2>6. runOf' \in [Orgs -> [Issues -> {"none", "active", "ended"}]]
    <3>1. CASE runOf' = runOf
      BY <3>1
    <3>2. ASSUME NEW s \in {"active", "ended"}, runOf' = [runOf EXCEPT ![org][d.issue] = s]
          PROVE  runOf' \in [Orgs -> [Issues -> {"none", "active", "ended"}]]
      BY <1>r, <2>1, <3>2
    <3> QED
      BY <2>5, <3>1, <3>2
  <2>7. process' \in [Processes -> {Idle} \cup Busy]
    <3>1. [process[p] EXCEPT !.pc = "start"] \in Busy
      BY <2>1 DEF Busy
    <3> QED
      BY <2>4, <3>1
  <2>8. touched' \in [Deliveries -> SUBSET Orgs]
    BY <2>1, <2>3
  <2> QED
    BY <2>2, <2>6, <2>7, <2>8
<1>4. CASE Pass
  BY <1>4, IntakeAssumption DEF Pass
<1>5. CASE UNCHANGED intakeVars
  BY <1>5 DEF intakeVars
<1> QED
  BY <1>2, <1>3, <1>4, <1>5 DEF NextIntake

LEMMA IntakeKeepsTypes == IntakeSpec => []IntakeTypeOK
<1>1. InitIntake => IntakeTypeOK
  BY IntakeAssumption DEF InitIntake, IntakeTypeOK
<1> QED
  BY <1>1, IntakeTypesByStep, PTL DEF IntakeSpec

-----------------------------------------------------------------------------
(* Types: the audit trail                                                    *)

\* A row's number is no higher than its id, which was given out.
GivenOut(events) ==
  \A e \in events : e.id \in 0..issued - 1 /\ e.sequence \in 0..e.id

AuditBound ==
  /\ issued \in 0..MaxRows + LegacyRows
  /\ GivenOut(trail)
  /\ \A s \in Sessions : GivenOut(flushing[s].pending \cup flushing[s].ready)

LEMMA NewRowsAreGivenOut ==
  ASSUME NEW visible, Whole(visible), NEW n \in 1..2, issued \in Nat, GivenOut(visible)
  PROVE  \A e \in Assigned(visible, n) :
           e.id \in 0..issued + n - 1 /\ e.sequence \in 0..e.id
<1> DEFINE first == IF visible = {} THEN 0 ELSE TipOf(visible).sequence + 1
<1>1. first \in 0..issued
  <2>1. CASE visible = {}
    BY <2>1
  <2>2. CASE visible # {}
    <3>1. PICK m \in Nat : Numbered(visible, m)
      BY DEF Whole
    <3>2. \A e \in visible : e.sequence \in Nat
      BY DEF Whole, AuditRows
    <3>3. m # 0
      BY <2>2, <3>1, <3>2 DEF Numbered, SequencesOf
    <3>4. TipOf(visible) \in visible
      BY <3>1, <3>2, <3>3, TipIsLast
    <3>5. /\ TipOf(visible).id \in 0..issued - 1
          /\ TipOf(visible).sequence \in 0..TipOf(visible).id
      BY <3>4 DEF GivenOut
    <3> QED
      BY <2>2, <3>5
  <2> QED
    BY <2>1, <2>2
<1>2. \A e \in Assigned(visible, n) :
        \E i \in 1..n : e.id = issued + i - 1 /\ e.sequence = first + i - 1
  BY DEF Assigned
<1> HIDE DEF first
<1> SUFFICES ASSUME NEW e \in Assigned(visible, n)
             PROVE  e.id \in 0..issued + n - 1 /\ e.sequence \in 0..e.id
  OBVIOUS
<1>3. PICK i \in 1..n : e.id = issued + i - 1 /\ e.sequence = first + i - 1
  BY <1>2
<1> QED
  BY <1>1, <1>3

LEMMA AuditBoundByStep ==
  ASSUME AuditInv, AuditBound, [NextAudit]_auditVars
  PROVE  AuditBound'
<1>0. /\ issued \in Nat /\ flushing \in [Sessions -> SessionStates]
      /\ \A s \in Sessions : Whole(trail \cup flushing[s].pending)
  BY DEF AuditInv, Tracked, GoesOn
<1>b. /\ issued \in 0..MaxRows + LegacyRows /\ GivenOut(trail)
      /\ \A s \in Sessions : GivenOut(flushing[s].pending) /\ GivenOut(flushing[s].ready)
  BY DEF AuditBound, GivenOut
\* A session moves; its rows were given out before.
<1>s. ASSUME NEW s \in Sessions, NEW f, flushing' = [flushing EXCEPT ![s] = f],
             UNCHANGED issued, GivenOut(trail'), GivenOut(f.pending), GivenOut(f.ready)
      PROVE  AuditBound'
  <2>1. \A t \in Sessions :
          /\ flushing'[t] = f \/ flushing'[t] = flushing[t]
    BY <1>0, <1>s
  <2>2. \A t \in Sessions :
          GivenOut(flushing'[t].pending) /\ GivenOut(flushing'[t].ready)
    BY <1>b, <1>s, <2>1
  <2> QED
    BY <1>b, <1>s, <2>2 DEF AuditBound, GivenOut
<1>c. Closed.pending = {} /\ Closed.ready = {}
  BY DEF Closed
<1>1. ASSUME NEW s \in Sessions, Load(s) PROVE AuditBound'
  <2>1. /\ flushing' = [flushing EXCEPT ![s] = [flushing[s] EXCEPT !.pc = "open"]]
        /\ UNCHANGED <<trail, issued>>
    BY <1>1 DEF Load
  <2>2. /\ [flushing[s] EXCEPT !.pc = "open"].pending = flushing[s].pending
        /\ [flushing[s] EXCEPT !.pc = "open"].ready = flushing[s].ready
    BY <1>0 DEF SessionStates
  <2> QED
    BY <1>b, <1>s, <2>1, <2>2
<1>2. ASSUME NEW s \in Sessions, NEW n \in 1..2, Flush(s, n) PROVE AuditBound'
  <2> DEFINE new == Assigned(trail \cup flushing[s].pending, n)
             f == [flushing[s] EXCEPT !.pc = "insert", !.ready = new]
  <2>1. /\ flushing' = [flushing EXCEPT ![s] = f] /\ UNCHANGED trail
        /\ issued' = issued + n /\ issued + n <= MaxRows + LegacyRows
    BY <1>2 DEF Flush
  <2>2. GivenOut(trail \cup flushing[s].pending)
    BY <1>b DEF GivenOut
  <2>3. \A e \in new : e.id \in 0..issued' - 1 /\ e.sequence \in 0..e.id
    BY <1>0, <2>1, <2>2, NewRowsAreGivenOut
  <2> HIDE DEF new
  <2>4. f.ready = new /\ f.pending = flushing[s].pending
    BY <1>0 DEF SessionStates
  <2> HIDE DEF f
  <2>5. issued' \in 0..MaxRows + LegacyRows /\ 0..issued - 1 \subseteq 0..issued' - 1
    BY <1>0, <2>1, AuditAssumption DEF AuditAssumption
  <2>6. \A t \in Sessions : flushing'[t] = f \/ flushing'[t] = flushing[t]
    BY <1>0, <2>1
  <2>7. \A t \in Sessions : \A e \in flushing'[t].pending \cup flushing'[t].ready :
          e.id \in 0..issued' - 1 /\ e.sequence \in 0..e.id
    BY <1>b, <2>3, <2>4, <2>5, <2>6 DEF GivenOut
  <2>8. \A e \in trail' : e.id \in 0..issued' - 1 /\ e.sequence \in 0..e.id
    BY <1>b, <2>1, <2>5 DEF GivenOut
  <2> QED
    BY <2>5, <2>7, <2>8 DEF AuditBound, GivenOut
<1>3. ASSUME NEW s \in Sessions, Insert(s) PROVE AuditBound'
  <2> DEFINE all == flushing[s].pending \cup flushing[s].ready
             full == [pc |-> "open", ready |-> {}, pending |-> all]
  <2>1. /\ \/ flushing' = [flushing EXCEPT ![s] = Closed]
           \/ flushing' = [flushing EXCEPT ![s] = full]
        /\ UNCHANGED <<trail, issued>>
    BY <1>3 DEF Insert
  <2>2. GivenOut(full.pending) /\ GivenOut(full.ready) /\ GivenOut({})
    BY <1>b DEF GivenOut
  <2> QED
    BY <1>b, <1>c, <1>s, <2>1, <2>2
<1>4. ASSUME NEW s \in Sessions, CommitEvents(s) PROVE AuditBound'
  <2>1. /\ trail' = trail \cup flushing[s].pending
        /\ flushing' = [flushing EXCEPT ![s] = Closed] /\ UNCHANGED issued
    BY <1>4 DEF CommitEvents
  <2>2. GivenOut(trail') /\ GivenOut({})
    BY <1>b, <2>1 DEF GivenOut
  <2> QED
    BY <1>c, <1>s, <2>1, <2>2
<1>5. ASSUME NEW s \in Sessions, Rollback(s) PROVE AuditBound'
  <2>1. flushing' = [flushing EXCEPT ![s] = Closed] /\ UNCHANGED <<trail, issued>>
    BY <1>5 DEF Rollback
  <2>2. GivenOut({})
    BY DEF GivenOut
  <2> QED
    BY <1>b, <1>c, <1>s, <2>1, <2>2
<1>6. CASE UNCHANGED auditVars
  BY <1>6 DEF auditVars, AuditBound, GivenOut
<1> QED
  BY <1>1, <1>2, <1>3, <1>4, <1>5, <1>6 DEF NextAudit

LEMMA AuditKeepsTypes == AuditSpec => []AuditTypeOK
<1>1. InitAudit => AuditBound
  <2> SUFFICES ASSUME InitAudit PROVE AuditBound
    OBVIOUS
  <2>0. LegacyRows \in Nat /\ MaxRows \in Nat
    BY AuditAssumption DEF AuditAssumption
  <2>1. /\ issued = LegacyRows /\ flushing = [s \in Sessions |-> Closed]
        /\ \E legacy \in {0, LegacyRows} :
             trail = {[id |-> n, sequence |-> n, fields |-> "written", hash |-> NoHash] :
                        n \in 0..legacy - 1}
    BY DEF InitAudit
  <2>2. \A s \in Sessions : flushing[s].pending \cup flushing[s].ready = {}
    BY <2>1 DEF Closed
  <2>3. \A e \in trail : \E n \in 0..LegacyRows - 1 : e.id = n /\ e.sequence = n
    BY <2>0, <2>1
  <2> QED
    BY <2>0, <2>1, <2>2, <2>3 DEF AuditBound, GivenOut
<1>2. AuditInv /\ AuditBound => AuditTypeOK
  <2> SUFFICES ASSUME AuditInv, AuditBound PROVE AuditTypeOK
    OBVIOUS
  <2>1. \A s \in Sessions : flushing[s].pc \in {"closed", "open", "insert"}
    BY DEF AuditInv, Tracked, SessionStates
  <2>2. MaxRows + LegacyRows \in Nat /\ issued \in 0..MaxRows + LegacyRows
    BY AuditAssumption DEF AuditBound, AuditAssumption
  <2>3. ASSUME NEW e, e.id \in 0..issued - 1 /\ e.sequence \in 0..e.id
        PROVE  e.id \in 0..MaxRows + LegacyRows /\ e.sequence \in 0..MaxRows + LegacyRows
    BY <2>2, <2>3
  <2>4. \A e \in trail \cup UNION {flushing[s].pending \cup flushing[s].ready : s \in Sessions} :
          e.id \in 0..issued - 1 /\ e.sequence \in 0..e.id
    BY DEF AuditBound, GivenOut
  <2> QED
    BY <2>1, <2>2, <2>3, <2>4 DEF AuditTypeOK
<1> QED
  BY <1>1, <1>2, AuditInit, AuditNext, AuditBoundByStep, PTL DEF AuditSpec

-----------------------------------------------------------------------------
(* Types: epics                                                              *)

\* Every name that is kept is a name.
LEMMA DedupeNames ==
  ASSUME NEW names \in Seq(DOMAIN Slug), NEW wanted,
         NEW k \in 1..Len(DedupeFirst(names, wanted))
  PROVE  DedupeFirst(names, wanted)[k] \in DOMAIN Slug
<1> DEFINE first == {i \in DOMAIN names :
                       names[i] \in wanted /\ \A j \in 1..i - 1 : names[j] # names[i]}
           nth(l) == CHOOSE i \in first : Cardinality({j \in first : j <= i}) = l
<1>1. Len(names) \in Nat /\ DOMAIN names = 1..Len(names)
  OBVIOUS
<1>2. first \in SUBSET (1..Len(names))
  BY <1>1
<1>3. DedupeFirst(names, wanted) = [l \in 1..Cardinality(first) |-> names[nth(l)]]
  BY Zenon DEF DedupeFirst
<1>4. \A l : nth(l) = CHOOSE i \in first : Rank(first, i) = l
  BY DEF Rank
<1> HIDE DEF first, nth
<1>5. /\ Cardinality(first) \in Nat
      /\ \A l \in 1..Cardinality(first) : \E i \in first : Rank(first, i) = l
  BY <1>1, <1>2, Ranks
<1>6. Len([l \in 1..Cardinality(first) |-> names[nth(l)]]) = Cardinality(first)
  BY <1>5
<1>7. k \in 1..Cardinality(first) /\ DedupeFirst(names, wanted)[k] = names[nth(k)]
  BY <1>3, <1>6
<1>8. nth(k) \in first
  BY <1>4, <1>5, <1>7
<1>9. nth(k) \in 1..Len(names)
  BY <1>2, <1>8
<1>10. names[nth(k)] \in DOMAIN Slug
  BY <1>9, ElementOfSeq
<1> QED
  BY <1>7, <1>10

LEMMA DecomposeNames ==
  ASSUME NEW epic \in DOMAIN Epics, NEW k \in 1..Len(Decompose(Epics[epic]))
  PROVE  Decompose(Epics[epic])[k] \in DOMAIN Slug
<1> DEFINE t == Epics[epic]
           listed == DedupeFirst(t.section, DOMAIN Slug)
           known == DedupeFirst(t.known, DOMAIN Slug)
           grounded == DedupeFirst(t.proposed, t.words)
<1>1. /\ \A l \in 1..Len(listed) : listed[l] \in DOMAIN Slug
      /\ \A l \in 1..Len(known) : known[l] \in DOMAIN Slug
      /\ \A l \in 1..Len(grounded) : grounded[l] \in DOMAIN Slug
  BY EpicAssumption, DedupeNames
<1>2. Decompose(t) \in {listed, known, grounded, <<>>}
  BY DEF Decompose, DecomposeEpic
<1>3. Len(<<>>) = 0
  OBVIOUS
<1> HIDE DEF listed, known, grounded
<1> QED
  BY <1>1, <1>2, <1>3

FamilyBound ==
  /\ Len(family) <= MaxRuns
  /\ \A r \in DOMAIN family : family[r].issue \in EpicIssues

LEMMA EpicsKeepTypes == EpicsSpec => []EpicTypeOK
<1>1. InitEpics => FamilyBound
  BY EpicAssumption DEF InitEpics, FamilyBound
<1>2. EpicInv /\ FamilyBound /\ [NextEpics]_epicVars => FamilyBound'
  <2> SUFFICES ASSUME EpicInv, FamilyBound, [NextEpics]_epicVars PROVE FamilyBound'
    OBVIOUS
  <2>0. family \in Seq(Rows)
    BY DEF EpicInv, EpicTypes
  <2>1. ASSUME NEW s \in Starters, InsertRun(s) PROVE FamilyBound'
    <3> DEFINE job == starter[s]
               row == [issue |-> IssueOf(job), status |-> "waiting_approval",
                       parent |-> IF job.next = 0 THEN NoParent ELSE job.parent]
    <3>1. job.pc = "insert" /\ family' = Append(family, row) /\ Len(family) < MaxRuns
      BY <2>1 DEF InsertRun
    <3>2. job \in Jobs
      BY <3>1, JobOrWaiting DEF EpicInv, EpicTypes
    <3>3. /\ job.epic \in DOMAIN Epics /\ job.next \in Nat
          /\ job.repos = Decompose(Epics[job.epic]) /\ job.next <= Len(job.repos)
      BY <3>2 DEF Jobs
    <3> HIDE DEF job
    <3>4. Len(job.repos) \in Nat
      BY <3>3, DecomposeLength
    <3>5. IssueOf(job) \in EpicIssues
      <4>1. CASE job.next = 0
        BY <3>3, <4>1 DEF IssueOf, EpicIssues
      <4>2. CASE job.next # 0
        <5>1. job.next \in 1..Len(job.repos)
          BY <3>3, <3>4, <4>2
        <5>2. job.repos[job.next] \in DOMAIN Slug
          BY <3>3, <5>1, DecomposeNames
        <5> QED
          BY <3>3, <4>2, <5>2 DEF IssueOf, EpicIssues, ChildIssue
      <4> QED
        BY <4>1, <4>2
    <3>6. row.issue \in EpicIssues
      BY <3>5
    <3> HIDE DEF row
    <3>7. /\ Len(family') = Len(family) + 1 /\ Len(family) \in Nat /\ MaxRuns \in Nat
          /\ \A r \in DOMAIN family' : family'[r] = row \/ (r \in DOMAIN family
                                                              /\ family'[r] = family[r])
      BY <2>0, <3>1, EpicAssumption
    <3> QED
      BY <3>1, <3>6, <3>7 DEF FamilyBound
  <2>2. ASSUME NEW r \in DOMAIN family, EndRun(r) PROVE FamilyBound'
    <3>1. PICK status \in {"complete", "blocked"} :
            family' = [family EXCEPT ![r].status = status]
      BY <2>2 DEF EndRun
    <3> DEFINE row == [family[r] EXCEPT !.status = status]
    <3>0. /\ family[r] \in Rows
          /\ status \in RunStatuses
      BY <2>0 DEF RunStatuses, ActiveStatuses, TerminalStatuses
    <3>2. row \in Rows /\ row.issue = family[r].issue
      BY <3>0 DEF Rows
    <3>3. family' = [family EXCEPT ![r] = row]
      BY <3>1
    <3> HIDE DEF row
    <3>4. DOMAIN family' = DOMAIN family /\ Len(family') = Len(family)
      BY <2>0, <3>2, <3>3, ExceptSeq
    <3> QED
      BY <2>0, <3>2, <3>3, <3>4 DEF FamilyBound
  <2>3. ASSUME UNCHANGED family PROVE FamilyBound'
    BY <2>3 DEF FamilyBound
  <2> QED
    BY <2>1, <2>2, <2>3 DEF NextEpics, Begin, Check, Attach, GiveUp, epicVars
<1>3. EpicInv /\ FamilyBound => EpicTypeOK
  <2> SUFFICES ASSUME EpicInv, FamilyBound PROVE EpicTypeOK
    OBVIOUS
  <2>1. \A s \in Starters : starter[s].pc \in {"idle", "check", "insert", "done"}
    BY JobOrWaiting DEF EpicInv, EpicTypes, Jobs
  <2>2. \A r \in DOMAIN family : family[r].status \in RunStatuses
    <3>1. \A r \in DOMAIN family : family[r] \in Rows
      BY DEF EpicInv, EpicTypes
    <3> QED
      BY <3>1 DEF Rows
  <2>3. \A r \in DOMAIN family : family[r].parent \in {NoParent} \cup DOMAIN family
    BY DEF EpicInv, Rooted
  <2> QED
    BY <2>1, <2>2, <2>3 DEF FamilyBound, EpicTypeOK
<1> QED
  BY <1>1, <1>2, <1>3, EpicsInit, EpicsNext, PTL DEF EpicsSpec

-----------------------------------------------------------------------------
(* Types: the catalog sync                                                   *)

\* The dates and versions that rows, listings and fetches carry are of the past.
CatalogBound ==
  /\ changes \in 0..MaxChanges
  /\ \A r \in OrgRepos : github[r].version \in 0..changes
  /\ \A r \in DOMAIN catalog :
       /\ catalog[r].pushed \in 0..instant
       /\ catalog[r].synced \in (0..instant) \cup {Never}
       /\ \A part \in Parts : catalog[r].held[part] \in (0..MaxChanges) \cup {Never}
  /\ sweep.pc \in {"list", "upsert"} =>
       \A r \in DOMAIN sweep.listed : sweep.listed[r].pushed \in 0..instant
  /\ sweep.pc = "store" => sweep.fetched.version \in 0..MaxChanges

LEMMA CatalogBoundByStep ==
  ASSUME CatalogInv, CatalogBound, [NextCatalog]_catalogVars
  PROVE  CatalogBound'
<1> USE DEF CatalogBound
<1>c. MaxChanges \in Nat
  BY CatalogAssumption DEF CatalogAssumption
<1>g. /\ instant \in Nat /\ github \in [OrgRepos -> Repositories]
      /\ \A r \in OrgRepos : github[r].pushed \in 0..instant
  BY DEF CatalogInv, GithubInv, Repositories
<1>r. \A r \in DOMAIN catalog : catalog[r] \in CatalogRows
  BY DEF CatalogInv, RowsInv
<1>p. /\ Quiet.pc = "idle" /\ "pc" \in DOMAIN sweep
      /\ sweep.pc \in {"list", "upsert", "prune", "select"} =>
           {"calls", "bootstrap", "listed"} \subseteq DOMAIN sweep
  BY DEF CatalogInv, SweepShape, Quiet
<1>o. 0..instant \subseteq 0..instant + 1
  BY <1>g
\* The organisation changes.
<1>1. ASSUME NEW r \in OrgRepos, NEW now, Change(r, now), now.version \in 0..changes + 1
      PROVE  CatalogBound'
  <2>1. /\ changes < MaxChanges /\ changes' = changes + 1 /\ instant' = instant + 1
        /\ github' = [github EXCEPT ![r] = now] /\ UNCHANGED <<catalog, sweep>>
    BY <1>1 DEF Change
  <2>2. \A q \in OrgRepos : github'[q].version \in 0..changes'
    <3>1. 0..changes \subseteq 0..changes + 1
      OBVIOUS
    <3>2. \A q \in OrgRepos : github'[q] = now \/ github'[q] = github[q]
      BY <1>g, <2>1
    <3> QED
      BY <1>1, <2>1, <3>1, <3>2
  <2> QED
    BY <1>c, <1>o, <2>1, <2>2
<1>2. ASSUME NEW r \in OrgRepos, Push(r) \/ Archive(r) \/ Delete(r) PROVE CatalogBound'
  <2>1. github[r] \in Repositories /\ github[r].version \in 0..changes /\ changes \in Nat
    BY <1>g
  <2> DEFINE pushed == [github[r] EXCEPT !.version = @ + 1, !.pushed = instant + 1]
             archived == [github[r] EXCEPT !.archived = ~@]
             gone == [github[r] EXCEPT !.exists = ~@, !.version = 0, !.pushed = instant + 1]
  <2>2. /\ pushed.version = github[r].version + 1
        /\ archived.version = github[r].version /\ gone.version = 0
    BY <2>1 DEF Repositories
  <2>3. Change(r, pushed) \/ Change(r, archived) \/ Change(r, gone)
    BY <1>2 DEF Push, Archive, Delete
  <2> HIDE DEF pushed, archived, gone
  <2>4. {pushed.version, archived.version, gone.version} \subseteq 0..changes + 1
    BY <2>1, <2>2
  <2> QED
    BY <1>1, <2>3, <2>4
<1>3. ASSUME NEW r \in OrgRepos, Nudge(r) PROVE CatalogBound'
  <2>1. /\ catalog' = IF r \in DOMAIN catalog
                      THEN [catalog EXCEPT ![r].pushed = instant + 1] ELSE catalog
        /\ instant' = instant + 1 /\ UNCHANGED <<github, sweep, changes>>
    BY <1>3 DEF Nudge
  <2>2. CASE r \in DOMAIN catalog
    <3> DEFINE row == [catalog[r] EXCEPT !.pushed = instant + 1]
    <3>1. /\ row.pushed = instant + 1 /\ row.synced = catalog[r].synced
          /\ row.held = catalog[r].held
      BY <1>r, <2>2 DEF CatalogRows
    <3>2. catalog' = [catalog EXCEPT ![r] = row]
      BY <2>1, <2>2
    <3> HIDE DEF row
    <3>3. /\ DOMAIN catalog' = DOMAIN catalog
          /\ \A q \in DOMAIN catalog : catalog'[q] = IF q = r THEN row ELSE catalog[q]
      BY <3>2
    <3>4. instant + 1 \in 0..instant + 1
      BY <1>g
    <3>5. \A q \in DOMAIN catalog' :
            /\ catalog'[q].pushed \in 0..instant'
            /\ catalog'[q].synced \in (0..instant') \cup {Never}
            /\ \A part \in Parts : catalog'[q].held[part] \in (0..MaxChanges) \cup {Never}
      BY <1>o, <2>1, <3>1, <3>3, <3>4
    <3> QED
      BY <1>o, <2>1, <3>5
  <2> QED
    BY <1>o, <2>1, <2>2
\* The sweep.
<1>4. ASSUME NEW bootstrap \in BOOLEAN, StartSweep(bootstrap) PROVE CatalogBound'
  BY <1>4 DEF StartSweep
<1>5. CASE ListPage
  <2> DEFINE page == Page(sweep.page)
             heard == [r \in DOMAIN sweep.listed \cup page |->
                         IF r \in page
                         THEN [archived |-> github[r].archived, pushed |-> github[r].pushed]
                         ELSE sweep.listed[r]]
             read == [sweep EXCEPT !.listed = heard, !.calls = @ + 1]
  <2>1. /\ sweep.pc = "list" /\ UNCHANGED <<github, catalog, instant, changes>>
        /\ \/ sweep' = [read EXCEPT !.pc = "upsert"]
           \/ sweep' = [read EXCEPT !.page = @ + 1]
    BY <1>5 DEF ListPage
  <2>2. page \subseteq OrgRepos
    BY DEF Page, OrgRepos
  <2> HIDE DEF page
  <2>3. \A r \in DOMAIN heard : heard[r].pushed \in 0..instant
    BY <1>g, <2>1, <2>2
  <2> HIDE DEF heard
  <2>4. sweep'.listed = heard /\ (sweep'.pc = "list" \/ sweep'.pc = "upsert")
    BY <1>p, <2>1
  <2> QED
    BY <2>1, <2>3, <2>4
<1>6. CASE Upsert
  <2> DEFINE row(r) ==
        IF r \in DOMAIN catalog
        THEN [catalog[r] EXCEPT !.archived = sweep.listed[r].archived,
                                !.pushed = sweep.listed[r].pushed]
        ELSE [archived |-> sweep.listed[r].archived,
              pushed |-> sweep.listed[r].pushed, synced |-> Never, held |-> AllAt(Never)]
  <2>1. /\ sweep.pc = "upsert" /\ UNCHANGED <<github, instant, changes>>
        /\ catalog' = [r \in DOMAIN catalog \cup DOMAIN sweep.listed |->
                         IF r \in DOMAIN sweep.listed THEN row(r) ELSE catalog[r]]
        /\ sweep' = [sweep EXCEPT !.pc = "prune"]
    BY <1>6 DEF Upsert, SweepTo
  <2>2. ASSUME NEW r \in DOMAIN sweep.listed
        PROVE  /\ row(r).pushed \in 0..instant
               /\ row(r).synced \in (0..instant) \cup {Never}
               /\ \A part \in Parts : row(r).held[part] \in (0..MaxChanges) \cup {Never}
    <3>1. \A part \in Parts : AllAt(Never)[part] = Never
      BY DEF AllAt
    <3>2. CASE r \in DOMAIN catalog
      <4>1. /\ row(r).pushed = sweep.listed[r].pushed /\ row(r).synced = catalog[r].synced
            /\ row(r).held = catalog[r].held
        BY <1>r, <3>2 DEF CatalogRows
      <4> HIDE DEF row
      <4> QED
        BY <2>1, <2>2, <3>2, <4>1
    <3>3. CASE r \notin DOMAIN catalog
      BY <2>1, <2>2, <3>1, <3>3
    <3> QED
      BY <3>2, <3>3
  <2> HIDE DEF row
  <2>3. sweep'.listed = sweep.listed /\ sweep'.pc = "prune"
    BY <1>p, <2>1
  <2> QED
    BY <2>1, <2>2, <2>3
<1>7. CASE Prune
  <2>1. /\ sweep.pc = "prune" /\ UNCHANGED <<github, instant, changes>>
        /\ catalog' = [r \in DOMAIN catalog \ (OrgRepos \ DOMAIN sweep.listed) |-> catalog[r]]
        /\ sweep' = [sweep EXCEPT !.pc = "select"]
    BY <1>7 DEF Prune, SweepTo
  <2>2. sweep'.listed = sweep.listed /\ sweep'.pc = "select"
    BY <1>p, <2>1
  <2> QED
    BY <2>1, <2>2
<1>8. CASE Select \/ Finish
  <2>1. UNCHANGED <<github, catalog, instant, changes>> /\ sweep'.pc \in {"deep", "done"}
    BY <1>8 DEF Select, Finish
  <2> QED
    BY <2>1
<1>9. CASE Abandon \/ Exhausted
  BY <1>9, <1>p DEF Abandon, Exhausted
<1>10. ASSUME NEW r, NEW n, NEW d, Fetch(r, n, d) PROVE CatalogBound'
  <2>1. /\ sweep.pc = "deep" /\ UNCHANGED <<github, catalog, instant, changes>>
        /\ sweep'.pc = "store"
        /\ sweep'.fetched.version = IF r \in OrgRepos THEN github[r].version ELSE 0
    BY <1>10 DEF Fetch
  <2>2. sweep'.fetched.version \in 0..MaxChanges
    BY <1>c, <2>1
  <2> QED
    BY <2>1, <2>2
<1>11. CASE Store
  <2> DEFINE r == sweep.fetched.repo
             held == Learned(catalog[r].held, sweep.fetched)
             synced == IF "tree" \in sweep.fetched.got THEN instant ELSE catalog[r].synced
             row == [catalog[r] EXCEPT !.held = held, !.synced = synced]
  <2>1. /\ sweep.pc = "store" /\ UNCHANGED <<github, changes, instant>>
        /\ catalog' = catalog \/ (r \in DOMAIN catalog /\ catalog' = [catalog EXCEPT ![r] = row])
        /\ sweep'.pc = "deep"
    BY <1>11 DEF Store, StoreAs
  <2>2. CASE catalog' = catalog
    BY <2>1, <2>2
  <2>3. CASE r \in DOMAIN catalog /\ catalog' = [catalog EXCEPT ![r] = row]
    <3>1. row.pushed = catalog[r].pushed /\ row.synced = synced /\ row.held = held
      BY <1>r, <2>3 DEF CatalogRows
    <3>2. synced \in (0..instant) \cup {Never}
      BY <1>g, <2>3
    <3>3. \A part \in Parts : held[part] \in (0..MaxChanges) \cup {Never}
      <4>1. sweep.fetched.version \in 0..MaxChanges
        BY <2>1
      <4>2. \A part \in Parts : held[part] \in {catalog[r].held[part], sweep.fetched.version, Never}
        BY DEF Learned
      <4> HIDE DEF held
      <4> QED
        BY <2>3, <4>1, <4>2
    <3> HIDE DEF row, held, synced, r
    <3>4. /\ DOMAIN catalog' = DOMAIN catalog
          /\ \A q \in DOMAIN catalog : catalog'[q] = IF q = r THEN row ELSE catalog[q]
      BY <2>3
    <3>5. \A q \in DOMAIN catalog' :
            /\ catalog'[q].pushed \in 0..instant'
            /\ catalog'[q].synced \in (0..instant') \cup {Never}
            /\ \A part \in Parts : catalog'[q].held[part] \in (0..MaxChanges) \cup {Never}
      BY <2>1, <3>1, <3>2, <3>3, <3>4
    <3> QED
      BY <2>1, <3>5
  <2> QED
    BY <2>1, <2>2, <2>3
<1>12. CASE UNCHANGED catalogVars
  BY <1>12 DEF catalogVars
<1> QED
  BY <1>2, <1>3, <1>4, <1>5, <1>6, <1>7, <1>8, <1>9, <1>10, <1>11, <1>12
     DEF NextCatalog, NextSweep

LEMMA CatalogKeepsTypes == CatalogSpec => []CatalogTypeOK
<1>1. InitCatalog => CatalogBound
  <2> SUFFICES ASSUME InitCatalog PROVE CatalogBound
    OBVIOUS
  <2>1. MaxChanges \in Nat
    BY CatalogAssumption DEF CatalogAssumption
  <2>2. /\ changes = 0 /\ instant = 0 /\ sweep.pc = "idle"
        /\ \A r \in OrgRepos : github[r].version = 0
    BY DEF InitCatalog, Quiet
  <2>3. \A r \in DOMAIN catalog :
          /\ catalog[r].pushed = 0 /\ catalog[r].synced = 0
          /\ \A part \in Parts : catalog[r].held[part] = 0
    BY DEF InitCatalog, AllAt
  <2> QED
    BY <2>1, <2>2, <2>3 DEF CatalogBound
<1>2. CatalogInv /\ CatalogBound => CatalogTypeOK
  <2> SUFFICES ASSUME CatalogInv, CatalogBound PROVE CatalogTypeOK
    OBVIOUS
  <2>1. /\ DOMAIN github = OrgRepos
        /\ \A r \in OrgRepos : github[r].pushed \in 0..instant
    BY DEF CatalogInv, GithubInv, Repositories
  <2>2. sweep.pc \in {"idle", "list", "upsert", "prune", "select", "deep", "store", "done"}
    BY DEF CatalogInv, SweepShape
  <2>3. MaxChanges \in Nat /\ changes \in 0..MaxChanges
    BY CatalogAssumption DEF CatalogAssumption, CatalogBound
  <2>4. \A r \in OrgRepos : github[r].version \in 0..MaxChanges
    BY <2>3 DEF CatalogBound
  <2> QED
    BY <2>1, <2>2, <2>4 DEF CatalogBound, CatalogTypeOK, Instants
<1> QED
  BY <1>1, <1>2, CatalogInit, CatalogNext, CatalogBoundByStep, PTL DEF CatalogSpec

-----------------------------------------------------------------------------
(* Types: the directory                                                      *)

\* A request's resource, rows and memberships are of the directory's sets.
RequestsTyped ==
  /\ drawn \subseteq Resources
  /\ request \in [Provisioners -> Transactions \cup {NoRequest}]

\* What a group PATCH has gathered after some of its operations.
Drafts == [cut : SUBSET Edges, put : SUBSET Edges]

LEMMA OperationsKeepDrafts ==
  ASSUME DirectoryInv, NEW g \in GroupIds, NEW draft \in Drafts, NEW op \in PatchOps
  PROVE  Applied(g, draft, op) \in Drafts
<1>1. Of(g) \subseteq Edges
  BY DEF DirectoryInv, TableHolds, Of
<1>2. op.op \in {"add", "replace", "remove", "remove all"} /\ op.ids \subseteq UserIds
  BY DEF PatchOps
<1> DEFINE asked == {g} \X op.ids
           there == (Of(g) \ draft.cut) \cup draft.put
<1>3. asked \subseteq Edges
  BY <1>2 DEF Edges
<1>4. draft.cut \subseteq Edges /\ draft.put \subseteq Edges
  BY DEF Drafts
<1> HIDE DEF asked, there
<1>5. CASE op.op = "add"
  <2>1. Applied(g, draft, op) = [draft EXCEPT !.put = @ \cup (asked \ there)]
    BY <1>5 DEF Applied, asked, there
  <2> QED
    BY <1>3, <1>4, <2>1 DEF Drafts
<1>6. CASE op.op = "replace"
  <2>1. Applied(g, draft, op) = [cut |-> Of(g), put |-> asked]
    BY <1>6 DEF Applied, asked
  <2> QED
    BY <1>1, <1>3, <2>1 DEF Drafts
<1>7. CASE op.op = "remove"
  <2>1. Applied(g, draft, op) = [cut |-> draft.cut \cup (Of(g) \cap asked),
                                 put |-> draft.put \ asked]
    BY <1>7 DEF Applied, asked
  <2> QED
    BY <1>1, <1>4, <2>1 DEF Drafts
<1>8. CASE op.op = "remove all"
  <2>1. Applied(g, draft, op) = [cut |-> Of(g), put |-> {}]
    BY <1>8 DEF Applied
  <2> QED
    BY <1>1, <2>1 DEF Drafts
<1> QED
  BY <1>2, <1>5, <1>6, <1>7, <1>8

\* The fold over the operations, unfolded over the parts of their indices.
DraftSteps(g, ops, f) ==
  [s \in SUBSET DOMAIN ops |->
     IF s = {} THEN [cut |-> {}, put |-> {}]
     ELSE Applied(g, f[s \ {Max(s)}], ops[Max(s)])]

Gathered(g, ops) ==
  FoldLeft(LAMBDA d, op : Applied(g, d, op), [cut |-> {}, put |-> {}], ops)

LEMMA DraftUnfolds ==
  ASSUME NEW g, NEW ops
  PROVE  Gathered(g, ops) = (CHOOSE f : f = DraftSteps(g, ops, f))[DOMAIN ops]
BY Zenon DEF Gathered, FoldLeft, MapThenFoldSet, DraftSteps

\* f tells what the operations of each part of D gather.
DraftsOf(g, ops, D, f) ==
  /\ f = [s \in SUBSET D |-> f[s]]
  /\ f[{}] = [cut |-> {}, put |-> {}]
  /\ \A s \in SUBSET D : s # {} => f[s] = Applied(g, f[s \ {Max(s)}], ops[Max(s)])

\* There is such an f for any list of operations: a least part of its indices
\* without one cannot exist.
LEMMA DraftsExist ==
  ASSUME NEW k \in Nat, NEW g, NEW ops
  PROVE  \E f : DraftsOf(g, ops, 1..k, f)
<1> DEFINE D == 1..k
           bare == {s \in SUBSET D : ~\E f : DraftsOf(g, ops, s, f)}
<1>0. IsFiniteSet(D)
  BY FS_Interval
<1>l. \A s \in SUBSET D : s # {} => Max(s) \in s /\ \A y \in s : y <= Max(s)
  BY SomeNumbersHaveAMax
<1>i. \A x \in D : x \in Int
  OBVIOUS
<1> HIDE DEF D
<1>1. bare = {}
  <2> SUFFICES ASSUME bare # {} PROVE FALSE
    OBVIOUS
  <2>1. PICK m \in bare : \A x \in m : m \ {x} \notin bare
    <3>1. bare \in SUBSET (SUBSET D)
      OBVIOUS
    <3> HIDE DEF bare
    <3> QED
      BY <1>0, <3>1, FiniteSetsHaveAMinimal
  <2>2. CASE m = {}
    <3> DEFINE f0 == [s \in SUBSET {} |-> [cut |-> {}, put |-> {}]]
    <3>1. DraftsOf(g, ops, {}, f0)
      BY DEF DraftsOf
    <3> QED
      BY <2>1, <2>2, <3>1
  <2>3. CASE m # {}
    <3> DEFINE x == Max(m)
               rest == m \ {x}
    <3>1. x \in m /\ \A y \in m : y <= x
      BY <1>l, <2>3
    <3>2. PICK f : DraftsOf(g, ops, rest, f)
      BY <2>1, <3>1
    <3> HIDE DEF x
    <3> DEFINE h == [s \in SUBSET m |->
                      IF x \in s THEN Applied(g, f[s \ {x}], ops[x]) ELSE f[s]]
    <3>3. h = [s \in SUBSET m |-> h[s]] /\ h[{}] = [cut |-> {}, put |-> {}]
      BY <3>2 DEF DraftsOf
    <3>4. ASSUME NEW s \in SUBSET m, s # {}
          PROVE  h[s] = Applied(g, h[s \ {Max(s)}], ops[Max(s)])
      <4>1. Max(s) \in s /\ \A y \in s : y <= Max(s)
        BY <1>l, <3>4
      <4>2. CASE x \in s
        <5>1. Max(s) = x
          BY <1>i, <3>1, <4>1, <4>2
        <5>2. h[s \ {x}] = f[s \ {x}] /\ h[s] = Applied(g, f[s \ {x}], ops[x])
          BY <4>2
        <5> QED
          BY <5>1, <5>2
      <4>3. CASE x \notin s
        <5>1. s \in SUBSET rest
          BY <4>3
        <5>2. f[s] = Applied(g, f[s \ {Max(s)}], ops[Max(s)])
          BY <3>2, <3>4, <5>1 DEF DraftsOf
        <5>3. h[s] = f[s] /\ h[s \ {Max(s)}] = f[s \ {Max(s)}]
          BY <4>3
        <5> QED
          BY <5>2, <5>3
      <4> QED
        BY <4>2, <4>3
    <3>5. DraftsOf(g, ops, m, h)
      <4> HIDE DEF h
      <4> QED
        BY <3>3, <3>4 DEF DraftsOf
    <3> QED
      BY <2>1, <3>5
  <2> QED
    BY <2>2, <2>3
<1> QED
  BY <1>1 DEF D

\* However many operations a PATCH has, it gathers memberships there can be.
LEMMA PatchesDraft ==
  ASSUME DirectoryInv, NEW g \in GroupIds, NEW k \in Nat, NEW ops \in [1..k -> PatchOps]
  PROVE  Gathered(g, ops) \in Drafts
<1> DEFINE D == 1..k
           h == CHOOSE f : f = DraftSteps(g, ops, f)
<1>0. DOMAIN ops = D /\ IsFiniteSet(D) /\ \A i \in D : ops[i] \in PatchOps
  BY FS_Interval
<1>l. \A s \in SUBSET D : s # {} => Max(s) \in s
  BY SomeNumbersHaveAMax
<1>1. PICK f : DraftsOf(g, ops, D, f)
  BY DraftsExist
<1> HIDE DEF D
<1>2. f = DraftSteps(g, ops, f)
  <2>1. \A s \in SUBSET D : f[s] = IF s = {} THEN [cut |-> {}, put |-> {}]
                                   ELSE Applied(g, f[s \ {Max(s)}], ops[Max(s)])
    BY <1>1 DEF DraftsOf
  <2>2. f = [s \in SUBSET D |-> f[s]]
    BY <1>1 DEF DraftsOf
  <2> QED
    BY <1>0, <2>1, <2>2 DEF DraftSteps
<1>3. h = DraftSteps(g, ops, h)
  BY <1>2
<1> HIDE DEF h
<1>4. ASSUME NEW s \in SUBSET D
      PROVE  h[s] = IF s = {} THEN [cut |-> {}, put |-> {}]
                    ELSE Applied(g, h[s \ {Max(s)}], ops[Max(s)])
  <2>1. DraftSteps(g, ops, h)[s] = IF s = {} THEN [cut |-> {}, put |-> {}]
                                   ELSE Applied(g, h[s \ {Max(s)}], ops[Max(s)])
    BY <1>0 DEF DraftSteps
  <2> QED
    BY <1>3, <2>1
<1> DEFINE wrong == {s \in SUBSET D : h[s] \notin Drafts}
<1>5. wrong = {}
  <2> SUFFICES ASSUME wrong # {} PROVE FALSE
    OBVIOUS
  <2>1. PICK m \in wrong : \A x \in m : m \ {x} \notin wrong
    <3>1. wrong \in SUBSET (SUBSET D)
      OBVIOUS
    <3> HIDE DEF wrong
    <3> QED
      BY <1>0, <3>1, FiniteSetsHaveAMinimal
  <2>2. CASE m = {}
    <3>1. h[m] = [cut |-> {}, put |-> {}]
      BY <1>4, <2>2
    <3> QED
      BY <2>1, <3>1 DEF Drafts
  <2>3. CASE m # {}
    <3>1. Max(m) \in m /\ m \in SUBSET D
      BY <1>l, <2>3
    <3>2. h[m \ {Max(m)}] \in Drafts /\ ops[Max(m)] \in PatchOps
      BY <1>0, <2>1, <3>1
    <3>3. h[m] = Applied(g, h[m \ {Max(m)}], ops[Max(m)])
      BY <1>4, <2>3, <3>1
    <3> QED
      BY <2>1, <3>2, <3>3, OperationsKeepDrafts
  <2> QED
    BY <2>2, <2>3
<1>6. h[D] \in Drafts
  BY <1>5
<1>7. Gathered(g, ops) = h[D]
  BY <1>0, DraftUnfolds DEF h
<1> QED
  BY <1>6, <1>7

LEMMA OpenTyped ==
  ASSUME DirectoryInv, RequestsTyped, NEW p \in Provisioners, NEW id \in Resources,
         NEW row \in UserRows \cup GroupRows \cup {NoResource},
         NEW cut \in SUBSET Edges, NEW put \in SUBSET Edges, NEW exact \in BOOLEAN,
         Open(p, id, row, cut, put, exact), drawn' \subseteq drawn \cup {id}
  PROVE  RequestsTyped'
<1> DEFINE t == [id |-> id, was |-> directory[id], row |-> row,
                 cut |-> cut, put |-> put, exact |-> exact]
<1>1. directory[id] \in UserRows \cup GroupRows \cup {NoResource}
  BY DEF DirectoryInv, TableHolds
<1>2. t \in Transactions
  BY <1>1 DEF Transactions
<1>3. request' = [request EXCEPT ![p] = t]
  BY DEF Open
<1> HIDE DEF t
<1> QED
  BY <1>2, <1>3 DEF RequestsTyped

LEMMA RequestsTypedByStep ==
  ASSUME DirectoryInv, RequestsTyped, [NextDirectory]_directoryVars
  PROVE  RequestsTyped'
<1>0. members \subseteq Edges /\ Resources = UserIds \cup GroupIds
  BY DEF DirectoryInv, TableHolds, Resources
<1>e. {} \in SUBSET Edges /\ NoResource \in UserRows \cup GroupRows \cup {NoResource}
  OBVIOUS
<1>r. /\ \A n \in UserNames, a \in BOOLEAN :
           [name |-> n, active |-> a] \in UserRows \cup GroupRows \cup {NoResource}
      /\ \A n \in GroupNames : [name |-> n] \in UserRows \cup GroupRows \cup {NoResource}
      /\ \A row \in UserRows : row \in UserRows \cup GroupRows \cup {NoResource}
  BY DEF UserRows, GroupRows
<1>w. \A g \in GroupIds, w \in SUBSET UserIds : {g} \X w \in SUBSET Edges
  BY DEF Edges
<1>o. \A g : Of(g) \in SUBSET Edges
  BY <1>0 DEF Of
<1>1. ASSUME NEW p \in Provisioners, NEW n \in UserNames, NEW a \in BOOLEAN,
             CreateUser(p, n, a)
      PROVE  RequestsTyped'
  <2>1. Drawn(UserIds) \in Resources
    BY <1>0, <1>1 DEF CreateUser, Drawn
  <2> QED
    BY <1>1, <1>e, <1>r, <2>1, OpenTyped DEF CreateUser
<1>2. ASSUME NEW p \in Provisioners, NEW u \in UserIds, NEW n \in UserNames,
             NEW a \in BOOLEAN, ReplaceUser(p, u, n, a)
      PROVE  RequestsTyped'
  BY <1>0, <1>2, <1>e, <1>r, OpenTyped DEF ReplaceUser
<1>3. ASSUME NEW p \in Provisioners, NEW u \in UserIds, NEW row \in UserRows,
             PatchUser(p, u, row)
      PROVE  RequestsTyped'
  BY <1>0, <1>3, <1>e, <1>r, OpenTyped DEF PatchUser
<1>4. ASSUME NEW p \in Provisioners, NEW u \in UserIds, DeleteUser(p, u)
      PROVE  RequestsTyped'
  <2>1. {e \in members : e[2] = u} \in SUBSET Edges
    BY <1>0
  <2> QED
    BY <1>0, <1>4, <1>e, <2>1, OpenTyped DEF DeleteUser
<1>5. ASSUME NEW p \in Provisioners, NEW n \in GroupNames, NEW w \in SUBSET UserIds,
             CreateGroup(p, n, w)
      PROVE  RequestsTyped'
  <2>1. Drawn(GroupIds) \in Resources /\ Drawn(GroupIds) \in GroupIds
    BY <1>0, <1>5 DEF CreateGroup, Drawn
  <2> QED
    BY <1>5, <1>e, <1>r, <1>w, <2>1, OpenTyped DEF CreateGroup
<1>6. ASSUME NEW p \in Provisioners, NEW g \in GroupIds, NEW n \in GroupNames,
             NEW w \in SUBSET UserIds, ReplaceGroup(p, g, n, w)
      PROVE  RequestsTyped'
  BY <1>0, <1>6, <1>o, <1>r, <1>w, OpenTyped DEF ReplaceGroup
<1>7. ASSUME NEW p \in Provisioners, NEW g \in GroupIds, NEW n \in GroupNames,
             NEW k \in 0..MaxPatchOps, NEW ops \in [1..k -> PatchOps],
             PatchGroup(p, g, n, ops)
      PROVE  RequestsTyped'
  <2> DEFINE draft == Gathered(g, ops)
  <2>1. Open(p, g, [name |-> n], draft.cut, draft.put, FALSE) /\ drawn' = drawn
    BY <1>7 DEF PatchGroup, Gathered
  <2>2. draft \in Drafts
    <3>1. k \in Nat
      OBVIOUS
    <3> QED
      BY <3>1, PatchesDraft
  <2> HIDE DEF draft
  <2>3. draft.cut \in SUBSET Edges /\ draft.put \in SUBSET Edges
    BY <2>2 DEF Drafts
  <2> QED
    BY <1>0, <1>r, <2>1, <2>3, OpenTyped
<1>8. ASSUME NEW p \in Provisioners, NEW g \in GroupIds, DeleteGroup(p, g)
      PROVE  RequestsTyped'
  BY <1>0, <1>8, <1>e, <1>o, OpenTyped DEF DeleteGroup
<1>9. ASSUME NEW p \in Provisioners, CommitDirectory(p) PROVE RequestsTyped'
  <2> DEFINE t == request[p]
  <2>1. /\ drawn' = drawn
        /\ request' = [q \in Provisioners |->
             IF q = p \/ request[q] = NoRequest THEN NoRequest
             ELSE [request[q] EXCEPT !.cut = @ \ t.put, !.exact = FALSE]]
    BY <1>9 DEF CommitDirectory
  <2> HIDE DEF t
  <2>2. ASSUME NEW s \in Transactions
        PROVE  [s EXCEPT !.cut = @ \ t.put, !.exact = FALSE] \in Transactions
    BY DEF Transactions
  <2> QED
    BY <2>1, <2>2 DEF RequestsTyped
<1>10. ASSUME NEW p \in Provisioners, RollBackDirectory(p) PROVE RequestsTyped'
  BY <1>10 DEF RollBackDirectory, RequestsTyped
<1>11. CASE UNCHANGED directoryVars
  BY <1>11 DEF directoryVars, RequestsTyped
<1> QED
  BY <1>1, <1>2, <1>3, <1>4, <1>5, <1>6, <1>7, <1>8, <1>9, <1>10, <1>11 DEF NextDirectory

LEMMA DirectoryKeepsTypes == DirectorySpec => []DirectoryTypeOK
<1>1. InitDirectory => RequestsTyped
  BY DEF InitDirectory, RequestsTyped
<1>2. DirectoryInv /\ RequestsTyped => DirectoryTypeOK
  BY DEF DirectoryInv, TableHolds, RequestsTyped, DirectoryTypeOK
<1> QED
  BY <1>1, <1>2, DirectoryInit, DirectoryNext, RequestsTypedByStep, PTL DEF DirectorySpec

-----------------------------------------------------------------------------
(* Types: delivery memory                                                    *)

LEMMA MemoryKeepsTypes == MemorySpec => []MemoryTypeOK
<1>1. MemoryInv => MemoryTypeOK
  <2> SUFFICES ASSUME MemoryInv PROVE MemoryTypeOK
    OBVIOUS
  <2>1. today \in 1..LastDay /\ LastDay \in Nat
    BY MemoryAssumption DEF MemoryInv
  <2>2. ASSUME NEW r \in MemoryRuns
        PROVE  /\ book[r].status \in RunStatuses \cup {NoStatus}
               /\ book[r].ticket \in DOMAIN MemoryTickets
               /\ book[r].calling \in {"no", "dispatch", "retry"}
               /\ {book[r].created, book[r].since, book[r].approved} \subseteq 0..LastDay
               /\ Len(book[r].trail) <= MaxTrail
               /\ outcomeRow[r] # NoRow => outcomeRow[r].completed \in 1..LastDay
    <3>1. /\ book[r] \in RememberedRuns /\ Dated(book[r], today)
          /\ Len(book[r].trail) <= MaxTrail /\ Legible(outcomeRow[r], today)
      BY DEF MemoryInv
    <3>2. /\ book[r].status \in RunStatuses \cup {NoStatus}
          /\ book[r].ticket \in DOMAIN MemoryTickets
          /\ book[r].calling \in {"no", "dispatch", "retry"}
          /\ book[r].created \in Nat /\ book[r].since \in Nat /\ book[r].approved \in Nat
      BY <3>1 DEF RememberedRuns
    <3>3. {book[r].created, book[r].since, book[r].approved} \subseteq 0..LastDay
      BY <2>1, <3>1, <3>2 DEF Dated
    <3> QED
      BY <2>1, <3>1, <3>2, <3>3 DEF Legible
  <2>3. lost \subseteq MemoryRuns
    BY DEF MemoryInv
  <2> QED
    BY <2>1, <2>2, <2>3 DEF MemoryTypeOK
<1> QED
  BY <1>1, MemoryInit, MemoryNext, PTL DEF MemorySpec

-----------------------------------------------------------------------------
(* Types: routing by history, and the engines                                *)

LEMMA HistoryKeepsTypes == HistorySpec => []HistoryTypeOK
<1> DEFINE short == Len(history) <= MaxHistory
<1>1. InitHistory => short
  BY HistoryAssumption DEF InitHistory
<1>2. HistoryInv /\ short /\ [NextHistory]_historyVars => short'
  <2> SUFFICES ASSUME HistoryInv, short, [NextHistory]_historyVars
               PROVE  short'
    OBVIOUS
  <2>0. Len(history) \in Nat /\ MaxHistory \in Nat
    BY HistoryAssumption DEF HistoryInv
  <2>1. ASSUME NEW kind \in HistoryRows, FinishRun(kind) PROVE short'
    <3>1. Len(history') = Len(history) + 1 /\ Len(history) < MaxHistory
      BY <2>1 DEF FinishRun, HistoryInv
    <3> QED
      BY <2>0, <3>1
  <2>2. CASE HourPasses \/ UNCHANGED historyVars
    BY <2>2 DEF HourPasses, historyVars
  <2> QED
    BY <2>1, <2>2 DEF NextHistory
<1>3. HistoryInv /\ short => HistoryTypeOK
  <2> SUFFICES ASSUME HistoryInv, short PROVE HistoryTypeOK
    OBVIOUS
  <2> DEFINE Told == [kind : HistoryRows, at : 0..hour]
  <2>1. history \in Seq(Told)
    BY DEF HistoryInv
  <2>2. \A row \in Told : row.kind \in HistoryRows /\ row.at \in 0..hour
    OBVIOUS
  <2> HIDE DEF Told
  <2>3. \A i \in DOMAIN history : history[i] \in Told
    BY <2>1
  <2>4. \A i \in DOMAIN history : history[i].kind \in HistoryRows /\ history[i].at \in 0..hour
    BY <2>2, <2>3
  <2> QED
    BY <2>4 DEF HistoryTypeOK
<1> HIDE DEF short
<1> QED
  BY <1>1, <1>2, <1>3, HistoryInit, HistoryNext, PTL DEF HistorySpec

\* Whatever the ticket says and the model answers, the gate is asked a request
\* its schema admits.
LEMMA RequestsAreAsked ==
  ASSUME EnginesInv, NEW best \in BestChoices
  PROVE  GateRequest(RiskAssessed, best) \in Requests
<1>1. best \in SUBSET Repos
  BY DEF BestChoices, BestRepositories
<1>2. AnalysisMade.readiness \in Readiness
  <2>1. HeuristicReadiness \in Readiness
    BY DEF HeuristicReadiness, Readiness
  <2>2. model.analysis \in ModelAnalyses
    BY DEF EnginesInv
  <2> QED
    BY <2>1, <2>2, EnginesAssumption DEF AnalysisMade
<1>3. RiskAssessed.overall \in OverallRisks /\ RiskAssessed.areas \in SUBSET SensitiveAreas
  BY RiskAdds DEF RiskOnlyAdded, RiskRanked
<1>4. Max({0} \cup {Confidence(r) : r \in best}) \in 0..100
  <2> DEFINE S == {0} \cup {Confidence(r) : r \in best}
  <2>1. \A r \in Repos : Confidence(r) \in 0..95
    BY SignalsCount DEF ConfidenceIsASignal
  <2>2. S \in SUBSET (0..95) /\ S # {}
    BY <1>1, <2>1
  <2> HIDE DEF S
  <2>3. Max(S) \in 0..95
    BY <2>2, BoundedNumbersHaveAMax
  <2>4. Max(S) \in 0..100
    BY <2>3
  <2> QED
    BY <2>4 DEF S
<1>5. (UNION {ConfiguredRoles[r] : r \in best}) \cup CustomApprovals \in SUBSET ApprovalRoles
  <2>1. \A r \in best : ConfiguredRoles[r] \in SUBSET ApprovalRoles
    BY <1>1, EnginesAssumption
  <2>2. operator.categories \subseteq DOMAIN CategoryWords
    BY DEF EnginesInv
  <2>3. \A c \in operator.categories : CategoryRoles[c] \in SUBSET ApprovalRoles
    BY <2>2, EnginesAssumption
  <2>4. CustomApprovals \in SUBSET ApprovalRoles
    BY <2>3 DEF CustomApprovals
  <2> QED
    BY <2>1, <2>4
<1>6. "start_agent" \in PolicyActions \cup {"unlisted"}
  BY DEF PolicyActions, AutonomousActions
<1>7. {} \in SUBSET ApprovalRoles /\ NoCap \in Nat
  BY DEF NoCap
<1> DEFINE confidence == Max({0} \cup {Confidence(r) : r \in best})
           roles == (UNION {ConfiguredRoles[r] : r \in best}) \cup CustomApprovals
           in == [action |-> "start_agent", readiness |-> AnalysisMade.readiness,
                  overall |-> RiskAssessed.overall, areas |-> RiskAssessed.areas,
                  confidence |-> confidence, repoRoles |-> roles,
                  approval |-> {}, approvalPresent |-> FALSE,
                  attempt |-> 0, maxAttempts |-> 0, cost |-> 0, pending |-> 0,
                  maxCost |-> NoCap]
<1>8. in = GateRequest(RiskAssessed, best)
  BY DEF GateRequest
<1>9. confidence \in 0..100 /\ roles \in SUBSET ApprovalRoles
  BY <1>4, <1>5
<1> HIDE DEF confidence, roles
<1>10. in \in Requests
  BY <1>2, <1>3, <1>6, <1>7, <1>9 DEF Requests, RequestsOn
<1> QED
  BY <1>8, <1>10

LEMMA EnginesKeepTypes == EnginesSpec => []EnginesTypeOK
<1>1. EnginesInv => EnginesTypeOK
  <2> SUFFICES ASSUME EnginesInv PROVE EnginesTypeOK
    OBVIOUS
  <2>1. /\ ticket.text \cup ticket.comments \subseteq TicketWords
        /\ ticket.length \in DOMAIN Lengths
        /\ model \in [analysis : ModelAnalyses, risk : ModelRisks, plan : ModelPlans]
    BY DEF EnginesInv, Tickets
  <2>2. \A r \in Repos : catalogue[r].age \in 0..(MaxCatalogAge + 1)
    BY DEF EnginesInv, CatalogueRows
  <2>3. \A r \in Repos : Confidence(r) \in 0..100
    <3>1. \A r \in Repos : Confidence(r) \in 0..95
      BY SignalsCount DEF ConfidenceIsASignal
    <3> QED
      BY <3>1
  <2>4. \A best \in BestChoices : GateRequest(RiskAssessed, best) \in Requests
    BY RequestsAreAsked
  <2> QED
    BY <2>1, <2>2, <2>3, <2>4 DEF EnginesTypeOK
<1> QED
  BY <1>1, EnginesInit, EnginesNext, PTL DEF EnginesSpec

-----------------------------------------------------------------------------
(* Types: calls to other services                                            *)

\* However a call goes on, it retries no more often than the transport allows
\* and asks for one page more than there can be files, at most.
CallWithin(call) == call.tries \in 0..TransportRetries /\ call.page \in 1..(LastFile + 1)

CallsWithin ==
  /\ pushes \in 0..MaxPushes /\ overlapped \in BOOLEAN
  /\ \A c \in Threads : calls[c] # NoCall => CallWithin(calls[c])
  /\ ended # NoCall => CallWithin(ended)

\* A full page has a file, and files of as many ranks as pages before it.
LEMMA FullPagesAreFew ==
  ASSUME prFiles \in SUBSET (1..LastFile), NEW n \in Nat \ {0}, ~LastPage(FilePage(n))
  PROVE  n + 1 \in 1..(LastFile + 1)
<1>0. FilesPerPage \in Nat \ {0} /\ LastFile \in Nat
  BY UpstreamAssumption
<1>1. PICK f \in prFiles : (n - 1) * FilesPerPage < Rank(prFiles, f)
  <2>1. FilePage(n) # {}
    <3> SUFFICES ASSUME FilePage(n) = {} PROVE FALSE
      OBVIOUS
    <3>1. Cardinality(FilePage(n)) = 0
      BY FS_EmptySet
    <3> QED
      BY <1>0, <3>1 DEF LastPage
  <2> QED
    BY <2>1, FilePageRanks
<1>2. Rank(prFiles, f) \in 1..Cardinality(prFiles) /\ Cardinality(prFiles) \in Nat
  BY <1>0, Ranks
<1>3. Cardinality(prFiles) <= LastFile
  <2>1. IsFiniteSet(1..LastFile) /\ Cardinality(1..LastFile) = LastFile
    BY <1>0, FS_Interval
  <2> QED
    BY <2>1, FS_Subset
<1>4. n - 1 <= (n - 1) * FilesPerPage
  <2> DEFINE k == n - 1
  <2>1. k \in Nat /\ FilesPerPage \in Nat /\ FilesPerPage >= 1
    BY <1>0
  <2> HIDE DEF k
  <2>2. k * 1 <= k * FilesPerPage
    BY <2>1
  <2> QED
    BY <2>1, <2>2 DEF k
<1> DEFINE skipped == (n - 1) * FilesPerPage
<1>5. skipped \in Int
  BY <1>0
<1> HIDE DEF skipped
<1>6. n - 1 <= skipped /\ skipped < Rank(prFiles, f)
  BY <1>1, <1>4 DEF skipped
<1> QED
  BY <1>0, <1>2, <1>3, <1>5, <1>6

LEMMA AnsweredWithin ==
  ASSUME prFiles \in SUBSET (1..LastFile), NEW call, CallHolds(call), call.step # "end",
         CallWithin(call), NEW reply
  PROVE  LET sent == WithSent(call, Request(call), reply)
         IN  /\ reply = "ok" => CallWithin(AfterReturn(sent))
             /\ CallWithin(AfterRaise(sent))
             /\ MayRepeat(call, Request(call), reply) =>
                  CallWithin([sent EXCEPT !.tries = @ + 1])
<1> DEFINE sent == WithSent(call, Request(call), reply)
<1>0. TransportRetries \in Nat /\ LastFile \in Nat
  BY UpstreamAssumption
<1>1. sent \in CallRecords /\ sent.step = call.step /\ sent.tries = call.tries
      /\ sent.page = call.page /\ sent.got = call.got /\ sent.left = call.left
  <2>1. call \in CallRecords
    BY DEF CallHolds
  <2>2. sent \in CallRecords /\ sent = [call EXCEPT !.sent = sent.sent]
    BY UpstreamAssumption, SendsOnce
  <2> HIDE DEF sent
  <2> QED
    BY <2>1, <2>2 DEF CallRecords
<1>2. call.tries \in 0..TransportRetries /\ call.page \in 1..(LastFile + 1)
  BY DEF CallWithin
<1>3. 0 \in 0..TransportRetries /\ 1 \in 1..(LastFile + 1)
  BY <1>0
<1>4. ASSUME NEW x \in CallRecords, NEW how PROVE CallWithin(Ended(x, how))
  BY <1>3, <1>4 DEF Ended, CallWithin, CallRecords
<1> HIDE DEF sent
<1>5. CallWithin(TellNext(sent))
  <2>1. CASE sent.left = {FirstOf(sent.left)}
    BY <1>1, <1>4, <2>1 DEF TellNext
  <2>2. CASE sent.left # {FirstOf(sent.left)}
    <3>1. TellNext(sent) = [sent EXCEPT !.left = @ \ {FirstOf(@)}, !.tries = 0]
      BY <2>2 DEF TellNext
    <3> QED
      BY <1>1, <1>2, <1>3, <3>1 DEF CallWithin, CallRecords
  <2> QED
    BY <2>1, <2>2
<1>6. \A left : CallWithin(DropNext(sent, left))
  <2> SUFFICES ASSUME NEW left PROVE CallWithin(DropNext(sent, left))
    OBVIOUS
  <2>1. CASE left = {}
    BY <1>1, <1>4, <2>1 DEF DropNext
  <2>2. CASE left # {}
    <3>1. DropNext(sent, left) = [sent EXCEPT !.step = "drop", !.left = left, !.tries = 0]
      BY <2>2 DEF DropNext
    <3> QED
      BY <1>1, <1>2, <1>3, <3>1 DEF CallWithin, CallRecords
  <2> QED
    BY <2>1, <2>2
<1>7. call.step = "page" => CallWithin(PageNext(sent, FilePage(sent.page)))
  <2> DEFINE batch == FilePage(sent.page)
             read == [sent EXCEPT !.got = @ \cup batch, !.tries = 0]
  <2>1. batch \subseteq 1..LastFile
    BY DEF FilePage
  <2>2. LastPage(batch) \/ sent.page + 1 \in 1..(LastFile + 1)
    <3>1. sent.page \in Nat \ {0}
      BY <1>1 DEF CallRecords
    <3> QED
      BY <3>1, FullPagesAreFew
  <2>3. PageNext(sent, batch) = IF LastPage(batch) THEN Ended(read, "returned")
                                ELSE [read EXCEPT !.page = @ + 1]
    BY DEF PageNext
  <2> HIDE DEF batch
  <2>4. read \in CallRecords /\ read.tries = 0 /\ read.page = sent.page
    BY <1>1, <2>1 DEF CallRecords
  <2> HIDE DEF read
  <2>5. CASE LastPage(batch)
    BY <1>4, <2>3, <2>4, <2>5 DEF batch
  <2>6. CASE ~LastPage(batch)
    <3>1. PageNext(sent, batch) = [read EXCEPT !.page = @ + 1]
      BY <2>3, <2>6
    <3> QED
      BY <1>3, <2>2, <2>4, <2>6, <3>1 DEF CallWithin, CallRecords, batch
  <2> QED
    BY <2>5, <2>6
<1>8. CallWithin(AfterRaise(sent))
  BY <1>1, <1>4, <1>5 DEF AfterRaise
<1>9. CallWithin(AfterReturn(sent))
  <2>1. sent.step \in {"write", "tell", "add", "read", "drop", "page"}
    BY <1>1 DEF CallRecords
  <2>2. CASE sent.step = "add"
    <3>1. AfterReturn(sent) = [sent EXCEPT !.step = "read", !.tries = 0]
      BY <2>2 DEF AfterReturn
    <3> QED
      BY <1>1, <1>2, <1>3, <3>1 DEF CallWithin, CallRecords
  <2>3. CASE sent.step = "write"
    BY <1>1, <1>4, <2>3 DEF AfterReturn
  <2>4. CASE sent.step = "tell"
    BY <1>5, <2>4 DEF AfterReturn
  <2>5. CASE sent.step = "read"
    BY <1>6, <2>5 DEF AfterReturn
  <2>6. CASE sent.step = "drop"
    BY <1>6, <2>6 DEF AfterReturn
  <2>7. CASE sent.step = "page"
    BY <1>1, <1>7, <2>7 DEF AfterReturn
  <2> QED
    BY <2>1, <2>2, <2>3, <2>4, <2>5, <2>6, <2>7
<1>10. ASSUME MayRepeat(call, Request(call), reply)
       PROVE  CallWithin([sent EXCEPT !.tries = @ + 1])
  <2>1. call.tries < TransportRetries
    BY <1>10 DEF MayRepeat
  <2>2. call.tries + 1 \in 0..TransportRetries
    BY <1>0, <1>2, <2>1
  <2> QED
    BY <1>1, <1>2, <2>2 DEF CallWithin, CallRecords
<1> QED
  BY <1>8, <1>9, <1>10 DEF sent

LEMMA CallsWithinByStep ==
  ASSUME UpstreamInv, CallsWithin, [NextUpstream]_upstreamVars
  PROVE  CallsWithin'
<1>0. /\ TransportRetries \in Nat /\ LastFile \in Nat /\ MaxPushes \in Nat
      /\ prFiles \in SUBSET (1..LastFile) /\ calls = [c \in Threads |-> calls[c]]
      /\ \A c \in Threads : calls[c] # NoCall => CallHolds(calls[c]) /\ calls[c].step # "end"
      /\ ended # NoCall => CallHolds(ended)
  BY UpstreamAssumption DEF UpstreamInv
<1>1. ASSUME NEW c \in Threads, NEW op, NEW step, NEW label, NEW left,
             BeginCall(c, Call(op, step, label, left))
      PROVE  CallsWithin'
  <2> DEFINE call == Call(op, step, label, left)
  <2>1. CallWithin(call)
    BY <1>0 DEF Call, CallWithin
  <2> HIDE DEF call
  <2>2. /\ calls' = [calls EXCEPT ![c] = call] /\ ended' = NoCall /\ pushes' = pushes
        /\ overlapped' \in BOOLEAN
    BY <1>1 DEF BeginCall, CallsWithin, call
  <2>3. \A d \in Threads : calls'[d] = IF d = c THEN call ELSE calls[d]
    BY <1>0, <2>2
  <2> QED
    BY <2>1, <2>2, <2>3 DEF CallsWithin
<1>2. ASSUME NEW c \in Threads, NEW call, CallWithin(call), Goes(c, call) PROVE CallsWithin'
  <2>1. /\ calls' = [calls EXCEPT ![c] = IF call.step = "end" THEN NoCall ELSE call]
        /\ ended' = IF call.step = "end" THEN call ELSE ended
        /\ UNCHANGED <<pushes, overlapped>>
    BY <1>2 DEF Goes
  <2>2. \A d \in Threads :
          calls'[d] = IF d = c THEN (IF call.step = "end" THEN NoCall ELSE call) ELSE calls[d]
    BY <1>0, <2>1
  <2> QED
    BY <1>2, <2>1, <2>2 DEF CallsWithin
<1>3. ASSUME NEW c \in Threads, Succeeds(c) \/ Repeats(c) \/ Fails(c) PROVE CallsWithin'
  <2> DEFINE call == calls[c]
  <2>1. CallHolds(call) /\ call.step # "end" /\ CallWithin(call)
    <3>1. call # NoCall
      BY <1>3 DEF Succeeds, Repeats, Fails
    <3> QED
      BY <1>0, <3>1 DEF CallsWithin
  <2>2. ASSUME NEW reply
        PROVE  LET sent == WithSent(call, Request(call), reply)
               IN  /\ reply = "ok" => CallWithin(AfterReturn(sent))
                   /\ CallWithin(AfterRaise(sent))
                   /\ MayRepeat(call, Request(call), reply) =>
                        CallWithin([sent EXCEPT !.tries = @ + 1])
    <3> HIDE DEF call
    <3> QED
      BY <1>0, <2>1, AnsweredWithin
  <2>3. CASE Succeeds(c)
    <3>1. Goes(c, AfterReturn(WithSent(call, Request(call), "ok")))
      BY <2>3 DEF Succeeds
    <3> QED
      BY <1>2, <2>2, <3>1
  <2>4. CASE Repeats(c)
    <3>1. PICK reply : /\ MayRepeat(call, Request(call), reply)
                       /\ Goes(c, [WithSent(call, Request(call), reply) EXCEPT !.tries = @ + 1])
      BY <2>4 DEF Repeats
    <3> QED
      BY <1>2, <2>2, <3>1
  <2>5. CASE Fails(c)
    <3>1. PICK reply : Goes(c, AfterRaise(WithSent(call, Request(call), reply)))
      BY <2>5 DEF Fails
    <3> QED
      BY <1>2, <2>2, <3>1
  <2> QED
    BY <1>3, <2>3, <2>4, <2>5
<1>4. ASSUME NEW ls \in SUBSET TeamLabels, EditLabels(ls) PROVE CallsWithin'
  BY <1>4 DEF EditLabels, CallsWithin
<1>5. ASSUME NEW fs \in SUBSET (1..LastFile), PushFiles(fs) PROVE CallsWithin'
  <2>1. ASSUME NEW call, CallHolds(call), CallWithin(call)
        PROVE  CallWithin([call EXCEPT !.moved = TRUE])
    BY <2>1 DEF CallHolds, CallRecords, CallWithin
  <2>2. /\ pushes < MaxPushes /\ pushes' = pushes + 1 /\ overlapped' = overlapped
        /\ calls' = [c \in Threads |->
                      IF calls[c] = NoCall THEN NoCall ELSE [calls[c] EXCEPT !.moved = TRUE]]
        /\ ended' = IF ended = NoCall THEN NoCall ELSE [ended EXCEPT !.moved = TRUE]
    BY <1>5 DEF PushFiles
  <2>3. pushes' \in 0..MaxPushes
    BY <1>0, <2>2 DEF CallsWithin
  <2>4. ASSUME NEW c \in Threads, calls'[c] # NoCall PROVE CallWithin(calls'[c])
    <3>1. calls[c] # NoCall /\ calls'[c] = [calls[c] EXCEPT !.moved = TRUE]
      BY <2>2, <2>4
    <3> QED
      BY <1>0, <2>1, <3>1 DEF CallsWithin
  <2>5. ended' # NoCall => CallWithin(ended')
    <3>1. ended' # NoCall => ended # NoCall /\ ended' = [ended EXCEPT !.moved = TRUE]
      BY <2>2
    <3> QED
      BY <1>0, <2>1, <3>1 DEF CallsWithin
  <2> QED
    BY <2>2, <2>3, <2>4, <2>5 DEF CallsWithin
<1>6. CASE UNCHANGED upstreamVars
  BY <1>6 DEF upstreamVars, CallsWithin
<1> QED
  BY <1>1, <1>3, <1>4, <1>5, <1>6
  DEF NextUpstream, BeginWrite, BeginState, BeginListing, BeginNotify

LEMMA UpstreamKeepsTypes == UpstreamSpec => []UpstreamTypeOK
<1>1. InitUpstream => CallsWithin
  <2> SUFFICES ASSUME InitUpstream PROVE CallsWithin
    OBVIOUS
  <2>1. MaxPushes \in Nat
    BY UpstreamAssumption
  <2>2. /\ pushes = 0 /\ calls = [c \in Threads |-> NoCall] /\ ended = NoCall
        /\ overlapped = FALSE
    BY DEF InitUpstream
  <2>3. \A c \in Threads : calls[c] = NoCall
    BY <2>2
  <2>4. pushes \in 0..MaxPushes
    BY <2>1, <2>2
  <2>5. overlapped \in BOOLEAN
    BY <2>2, Zenon
  <2> QED
    BY <2>2, <2>3, <2>4, <2>5 DEF CallsWithin
<1>2. UpstreamInv /\ CallsWithin => UpstreamTypeOK
  <2> SUFFICES ASSUME UpstreamInv, CallsWithin PROVE UpstreamTypeOK
    OBVIOUS
  <2>1. ASSUME NEW call, CallHolds(call), CallWithin(call) PROVE call \in CallsSeen
    BY <2>1 DEF CallHolds, CallRecords, CallWithin, CallsSeen
  <2>2. /\ \A c \in Threads : calls[c] = NoCall \/ calls[c] \in CallsSeen
        /\ ended = NoCall \/ ended \in CallsSeen
    BY <2>1 DEF UpstreamInv, CallsWithin
  <2>3. /\ labels \subseteq StatusLabels \cup TeamLabels /\ teamLabels \subseteq TeamLabels
        /\ prFiles \subseteq 1..LastFile /\ pushes \in 0..MaxPushes /\ overlapped \in BOOLEAN
    BY DEF UpstreamInv, CallsWithin
  <2> QED
    BY <2>2, <2>3 DEF UpstreamTypeOK
<1> QED
  BY <1>1, <1>2, UpstreamInit, UpstreamNext, CallsWithinByStep, PTL DEF UpstreamSpec

-----------------------------------------------------------------------------
(* Types: every component                                                    *)

\* The type invariant of every component that is not a run, over every number of
\* steps of any of them: what the rows, caches, clocks, requests and counters of
\* the services around a run can hold (ratelimit.py, dedup.py, db/models.py,
\* memory/, catalog/, crypto.py, oidc.py, scim.py, connectors/), their bounds
\* and the validity of what the gate is asked included.
THEOREM TypesAreKept == ServicesSpec => []ServicesTypeOK
<1>1. ServicesSpec => [](focus \in Components)
  <2>1. InitServices => focus \in Components
    BY FocusAssumption DEF InitServices
  <2>2. focus \in Components /\ [NextServices]_servicesVars => (focus \in Components)'
    BY DEF NextServices, servicesVars, OthersStay
  <2> QED
    BY <2>1, <2>2, PTL DEF ServicesSpec
<1>2. ServicesSpec => []LimiterTypeOK
  BY LimiterAlone, LimiterKeepsTypes, PTL
<1>3. ServicesSpec => []IntakeTypeOK
  BY IntakeAlone, IntakeKeepsTypes, PTL
<1>4. ServicesSpec => []AuditTypeOK
  BY AuditAlone, AuditKeepsTypes, PTL
<1>5. ServicesSpec => []CatalogTypeOK
  BY CatalogAlone, CatalogKeepsTypes, PTL
<1>6. ServicesSpec => []KeysTypeOK
  BY KeysAlone, KeysKeepTypes, PTL
<1>7. ServicesSpec => []EpicTypeOK
  BY EpicsAlone, EpicsKeepTypes, PTL
<1>8. ServicesSpec => []FreezeTypeOK
  BY FreezeAlone, FreezeKeepsTypes, PTL
<1>9. ServicesSpec => []MemoryTypeOK
  BY MemoryAlone, MemoryKeepsTypes, PTL
<1>10. ServicesSpec => []HistoryTypeOK
  BY HistoryAlone, HistoryKeepsTypes, PTL
<1>11. ServicesSpec => []EnginesTypeOK
  BY EnginesAlone, EnginesKeepTypes, PTL
<1>12. ServicesSpec => []DirectoryTypeOK
  BY DirectoryAlone, DirectoryKeepsTypes, PTL
<1>13. ServicesSpec => []SsoTypeOK
  BY SsoAlone, SsoKeepsTypes, PTL
<1>14. ServicesSpec => []JwksTypeOK
  BY JwksAlone, JwksKeepsTypes, PTL
<1>15. ServicesSpec => []UpstreamTypeOK
  BY UpstreamAlone, UpstreamKeepsTypes, PTL
<1>16. ServicesSpec => []PriorsTypeOK
  BY PriorsAlone, PriorsKeepTypes, PTL
<1>17. (focus \in Components
       /\ LimiterTypeOK
       /\ IntakeTypeOK
       /\ AuditTypeOK
       /\ CatalogTypeOK
       /\ KeysTypeOK
       /\ EpicTypeOK
       /\ FreezeTypeOK
       /\ MemoryTypeOK
       /\ HistoryTypeOK
       /\ PriorsTypeOK
       /\ EnginesTypeOK
       /\ DirectoryTypeOK
       /\ SsoTypeOK
       /\ JwksTypeOK
       /\ UpstreamTypeOK)
     => ServicesTypeOK
  BY Zenon DEF Components, ServicesTypeOK
<1> QED
  BY <1>1, <1>2, <1>3, <1>4, <1>5, <1>6, <1>7, <1>8,
     <1>9, <1>10, <1>11, <1>12, <1>13, <1>14, <1>15, <1>16, <1>17, PTL
=============================================================================
