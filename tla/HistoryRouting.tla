---------------------------- MODULE HistoryRouting ----------------------------
(****************************************************************************)
(* What outcome rows decide: where a ticket is routed (DeliveryMemoryPriors, *)
(* memory/priors.py) and which agent a first dispatch calls                 *)
(* (recommend_provider, memory/scorecards.py, and                           *)
(* _select_dispatch_provider, orchestrator.py).  Rows come in as runs end.  *)
(* They are those of one organisation: every query is filtered to it.  The  *)
(* priors read them through a cache, which is PriorsCache's part.           *)
(*                                                                          *)
(* Money is in cents.  Work types and repositories are always known here.   *)
(****************************************************************************)
EXTENDS Integers, Sequences, FiniteSets, TrendPeriods

CONSTANTS
  HistoryRows,    \* rows that may come in: [prefix, workType, repo, provider,
                  \* merged, jobs, cost]
  Agents,         \* providers, in the order of their names
  Candidates,     \* auto_candidates, the configured ones
  DefaultAgent,   \* the provider a dispatch falls back to
  MinSamples,     \* min_samples
  ConfidenceCap,  \* confidence_cap: 89, below the 90 of an explicit association
  MaxHistory,     \* bound on rows
  MaxHour,        \* bound on the clock
  Unreported,     \* a cost no provider reported
  Nobody

AgentNames == {Agents[i] : i \in DOMAIN Agents}

\* "Each dispatched run has >= 1 job" (scorecard_rows); the settings are
\* validated so.
ASSUME HistoryAssumption ==
  /\ Agents \in Seq(AgentNames)
  /\ \A i, j \in DOMAIN Agents : Agents[i] = Agents[j] => i = j
  /\ Candidates \subseteq AgentNames
  /\ Nobody \notin AgentNames
  /\ Unreported \notin Nat
  /\ \A row \in HistoryRows :
       /\ row.provider \in AgentNames /\ row.merged \in BOOLEAN
       /\ row.jobs \in Nat \ {0} /\ row.cost \in Nat \cup {Unreported}
  /\ ConfidenceCap \in 0..100
  /\ MinSamples \in Nat \ {0}
  /\ {MaxHistory, MaxHour} \subseteq Nat

VARIABLES
  history,     \* outcome rows of dispatched runs, [kind, at]
  hour         \* the clock

historyVars == <<history, hour>>

InitHistory ==
  /\ history = <<>>
  /\ hour = 0

----------------------------------------------------------------------------
(* Cells: rows, counted.                                                    *)

\* The indices of the rows up to n that fit.
RowsWhere(n, Fits(_)) == {i \in 1..n : Fits(history[i].kind)}

MergedIn(rows) == Cardinality({i \in rows : history[i].kind.merged})

\* Slip: one imagined run instead of two, as if the merge were not one of them.
MajorityOfOneMore(rows) == 2 * (MergedIn(rows) + 1) >= Cardinality(rows) + 1

\* _beta_rate >= 0.5.
MajorityMerged(rows) == 2 * (MergedIn(rows) + 1) >= Cardinality(rows) + 2

\* _Cell and its stat.
Card(rows) ==
  LET priced == {i \in rows : history[i].kind.cost # Unreported}
      jobs == SumFunction([i \in rows |-> history[i].kind.jobs])
      cost == SumFunction([i \in priced |-> history[i].kind.cost])
  IN  [runs |-> Cardinality(rows),
       merged |-> MergedIn(rows),
       smoothed |-> SmoothedConfidence(MergedIn(rows), Cardinality(rows), 100),
       retries |-> jobs - Cardinality(rows),
       total |-> IF priced = {} THEN Unreported ELSE cost,
       avg |-> IF priced = {} THEN Unreported ELSE Rounded(cost, Cardinality(priced)),
       enough |-> Cardinality(rows) >= MinSamples]

----------------------------------------------------------------------------
(* Routing priors.                                                          *)

\* The rows of the pair, or of the team if the pair is too thin.  The table by
\* pair may have been read when there were m rows, the other when there were n.
PriorScope(m, n, prefix, workType) ==
  LET pair == RowsWhere(m, LAMBDA k : k.prefix = prefix /\ k.workType = workType)
  IN  IF Cardinality(pair) >= MinSamples THEN pair
      ELSE RowsWhere(n, LAMBDA k : k.prefix = prefix)

\* candidates_for: a repository with enough rows of which most merged.
CandidatesFor(m, n, prefix, workType) ==
  LET scope == PriorScope(m, n, prefix, workType)
      rows(repo) == {i \in scope : history[i].kind.repo = repo}
      offered == {repo \in {history[i].kind.repo : i \in scope} :
                    Cardinality(rows(repo)) >= MinSamples /\ MajorityMerged(rows(repo))}
  IN  [repo \in offered |->
         SmoothedConfidence(MergedIn(rows(repo)), Cardinality(rows(repo)), ConfidenceCap)]

----------------------------------------------------------------------------
(* Scorecards.                                                              *)

AllRows == 1..Len(history)
RunsOf(agent, rows) == {i \in rows : history[i].kind.provider = agent}
AgentsIn(rows) == {history[i].kind.provider : i \in rows}

\* agent_scorecards.
AgentScorecards ==
  [agent \in AgentsIn(AllRows) |->
     LET rows == RunsOf(agent, AllRows)
     IN  [overall |-> Card(rows),
          byWorkType |-> [w \in {history[i].kind.workType : i \in rows} |->
                            Card({i \in rows : history[i].kind.workType = w})],
          byRepo |-> [repo \in {history[i].kind.repo : i \in rows} |->
                        Card({i \in rows : history[i].kind.repo = repo})]]]

\* agent_scorecard_trends: one axis for all agents.
AgentScorecardTrends(since, bucket) ==
  LET rows == {i \in AllRows : history[i].at >= since}
      axis == DeliveryAxis({BucketStart(history[i].at, bucket) : i \in rows}, bucket)
  IN  [agent \in AgentsIn(rows) |->
         [start \in axis |->
            Card({i \in RunsOf(agent, rows) : BucketStart(history[i].at, bucket) = start})]]

\* The ladder of recommend_provider: the narrowest scope with enough rows of
\* agents that can be dispatched, else all of them.
LadderScope(workType, repo) ==
  LET all == RowsWhere(Len(history), LAMBDA k : k.provider \in Candidates)
      ofType == {i \in all : history[i].kind.workType = workType}
      pair == {i \in ofType : history[i].kind.repo = repo}
  IN  IF Cardinality(pair) >= MinSamples THEN pair
      ELSE IF Cardinality(ofType) >= MinSamples THEN ofType
      ELSE all

Eligible(agent, scope) ==
  LET rows == RunsOf(agent, scope)
  IN  Cardinality(rows) >= MinSamples /\ MajorityMerged(rows)

NameRank(agent) == CHOOSE i \in DOMAIN Agents : Agents[i] = agent

\* _rank_key: the stronger history, then the longer, the cheaper, the name; an
\* unreported cost is the highest.
Outranks(agent, other, scope) ==
  LET a == Card(RunsOf(agent, scope))
      b == Card(RunsOf(other, scope))
      cheaper == a.avg # Unreported /\ (b.avg = Unreported \/ a.avg < b.avg)
  IN  \/ a.smoothed > b.smoothed
      \/ a.smoothed = b.smoothed /\ a.runs > b.runs
      \/ /\ a.smoothed = b.smoothed /\ a.runs = b.runs
         /\ cheaper \/ (a.avg = b.avg /\ NameRank(agent) < NameRank(other))

\* recommend_provider.
RecommendProvider(workType, repo) ==
  LET scope == LadderScope(workType, repo)
      eligible == {a \in AgentsIn(scope) : Eligible(a, scope)}
  IN  IF eligible = {} THEN Nobody
      ELSE CHOOSE a \in eligible : \A b \in eligible \ {a} : Outranks(a, b, scope)

\* _select_dispatch_provider, under agent.provider: auto.
SelectDispatchProvider(workType, repo) ==
  LET chosen == RecommendProvider(workType, repo)
  IN  IF chosen = Nobody THEN DefaultAgent ELSE chosen

----------------------------------------------------------------------------
FinishRun(kind) ==
  /\ Len(history) < MaxHistory
  /\ history' = Append(history, [kind |-> kind, at |-> hour])
  /\ UNCHANGED hour

HourPasses ==
  /\ hour < MaxHour
  /\ hour' = hour + 1
  /\ UNCHANGED history

NextHistory ==
  \/ \E kind \in HistoryRows : FinishRun(kind)
  \/ HourPasses

HistoryTypeOK ==
  /\ Len(history) <= MaxHistory
  /\ \A i \in DOMAIN history : history[i].kind \in HistoryRows /\ history[i].at \in 0..hour

----------------------------------------------------------------------------
\* A ticket is offered repositories that merge at least as often as not, and
\* never above the cap, whenever the priors' tables were read.
PriorsAreSound ==
  \A kind \in HistoryRows, m, n \in 0..Len(history) :
    LET offered == CandidatesFor(m, n, kind.prefix, kind.workType)
    IN  \A repo \in DOMAIN offered :
          offered[repo] = ConfidenceCap \/ offered[repo] \in 50..ConfidenceCap

\* Scorecards cut the same rows by work type, by repository and by period.
ScorecardsAddUp ==
  \A agent \in DOMAIN AgentScorecards :
    LET card == AgentScorecards[agent]
        same(view) == /\ card.overall.runs = SumFunction([x \in DOMAIN view |-> view[x].runs])
                      /\ card.overall.merged = SumFunction([x \in DOMAIN view |-> view[x].merged])
                      /\ card.overall.retries = SumFunction([x \in DOMAIN view |-> view[x].retries])
    IN  /\ same(card.byWorkType) /\ same(card.byRepo)
        /\ \A bucket \in TrendBuckets : same(AgentScorecardTrends(0, bucket)[agent])

\* What a step that records a merged run does to the decisions about its kind
\* of work: where the scope of the decision stays the same, its agent stays
\* recommended and its repository offered, with no less confidence.
MergesNeverDemote ==
  \A kind \in HistoryRows :
    /\ Len(history') > Len(history) /\ history'[Len(history')].kind = kind /\ kind.merged
    => LET before == CandidatesFor(Len(history), Len(history), kind.prefix, kind.workType)
           after == CandidatesFor(Len(history), Len(history), kind.prefix, kind.workType)'
           added(scope, now) == now = scope \cup {Len(history) + 1}
       IN  /\ added(LadderScope(kind.workType, kind.repo), LadderScope(kind.workType, kind.repo)')
              /\ RecommendProvider(kind.workType, kind.repo) = kind.provider
              => SelectDispatchProvider(kind.workType, kind.repo)' = kind.provider
           /\ added(PriorScope(Len(history), Len(history), kind.prefix, kind.workType),
                    PriorScope(Len(history), Len(history), kind.prefix, kind.workType)')
              /\ kind.repo \in DOMAIN before
              => kind.repo \in DOMAIN after /\ after[kind.repo] >= before[kind.repo]
=============================================================================
