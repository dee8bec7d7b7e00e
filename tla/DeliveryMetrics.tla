---------------------------- MODULE DeliveryMetrics ----------------------------
(****************************************************************************)
(* memory/metrics.py: the views an operator reads of the rows that          *)
(* DeliveryMemory keeps.  Delivery views read outcome rows; queues and      *)
(* failure views read runs and date them by their audit events.             *)
(*                                                                          *)
(* A view is a function of the rows, so it is an operator.  Rounding, names *)
(* and the order of a view's entries are left out.                          *)
(****************************************************************************)
EXTENDS DeliveryMemory, TrendPeriods, FiniteSetsExt

----------------------------------------------------------------------------
(* Numbers.                                                                 *)

\* _percentile by the nearest rank, of the Value of each item; p in tenths.
Percentile(items, Value(_), p) ==
  LET rank == (p * Cardinality(items) + 9) \div 10
  IN  CHOOSE v \in {Value(i) : i \in items} :
        /\ Cardinality({i \in items : Value(i) <= v}) >= rank
        /\ Cardinality({i \in items : Value(i) < v}) < rank

\* _band.
BandOf(confidence) == (confidence \div 10) * 10

NoSpread == [median |-> -1, p90 |-> -1]   \* None: nothing to measure

AtLeastZero(n) == IF n < 0 THEN 0 ELSE n

----------------------------------------------------------------------------
(* Delivery: outcome rows completed since a day.                            *)

Finished(since) == {r \in MemoryRuns : outcomeRow[r] # NoRow /\ outcomeRow[r].completed >= since}

WithOutcome(rows, outcome) == {r \in rows : outcomeRow[r].outcome = outcome}

Spend(rows) ==
  LET reported == {r \in rows : outcomeRow[r].cost # NoCost}
  IN  IF reported = {} THEN NoCost ELSE SumFunction([r \in reported |-> outcomeRow[r].cost])

ApprovalDays(r) == AtLeastZero(outcomeRow[r].approved - outcomeRow[r].created)
MergeDays(r) == AtLeastZero(outcomeRow[r].completed - outcomeRow[r].created)

\* Median and 90th percentile, if there is anything to take them of.
Spread(items, Value(_)) ==
  IF items = {} THEN NoSpread
  ELSE [median |-> Percentile(items, Value, 5), p90 |-> Percentile(items, Value, 9)]

\* What every delivery view accumulates of the rows that fall into one cell.
Delivered(rows) ==
  LET approved == {r \in rows : outcomeRow[r].approved # 0}
      merged == WithOutcome(rows, "merged")
  IN  [finished |-> Cardinality(rows),
       shipped |-> Cardinality(merged),
       blocked |-> Cardinality(WithOutcome(rows, "blocked")),
       retries |-> SumFunction([r \in rows |-> AtLeastZero(outcomeRow[r].jobs - 1)]),
       cost |-> Spend(rows),
       mergeDays |-> Spread(merged, MergeDays),
       approvalDays |-> Spread(approved, ApprovalDays)]

\* delivery_metrics.
DeliveryOverall(since) ==
  LET rows == Finished(since)
      blocked == WithOutcome(rows, "blocked")
      routed == {r \in rows : outcomeRow[r].repo # NoRepo /\ outcomeRow[r].confidence # 0}
      bands == {BandOf(outcomeRow[r].confidence) : r \in routed}
      inBand(b) == {r \in routed : BandOf(outcomeRow[r].confidence) = b}
      merges == WithOutcome({r \in MemoryRuns : outcomeRow[r] # NoRow}, "merged")
  IN  [totals |-> Delivered(rows),
       escalations |-> SumFunction([r \in rows |-> outcomeRow[r].escalations]),
       ciFailures |-> SumFunction([r \in rows |-> outcomeRow[r].ciFailures]),
       blocksByReason |-> [c \in {outcomeRow[r].category : r \in blocked} |->
                             Cardinality({r \in blocked : outcomeRow[r].category = c})],
       superseded |-> {b \in blocked : \E m \in merges :
                         /\ outcomeRow[m].ticket = outcomeRow[b].ticket
                         /\ outcomeRow[m].created > outcomeRow[b].created},
       precision |-> [b \in bands |-> <<Cardinality(WithOutcome(inBand(b), "merged")),
                                        Cardinality(inBand(b))>>]]

\* The label of a row in a view; NoRepo is shown as "(unrouted)".
DeliveredRepo(r) == outcomeRow[r].repo
DeliveredWorkType(r) == outcomeRow[r].workType

DeliveryCells(Label(_), since) ==
  LET rows == Finished(since)
  IN  [label \in {Label(r) : r \in rows} |-> Delivered({r \in rows : Label(r) = label})]

\* delivery_by_repo and delivery_by_work_type.
DeliveryByRepo(since) == DeliveryCells(DeliveredRepo, since)
DeliveryByWorkType(since) == DeliveryCells(DeliveredWorkType, since)

PeriodsOf(rows, bucket) == {BucketStart(outcomeRow[r].completed, bucket) : r \in rows}

InPeriod(rows, start, bucket) ==
  {r \in rows : BucketStart(outcomeRow[r].completed, bucket) = start}

\* delivery_trends.
DeliveryTrends(since, bucket) ==
  LET rows == Finished(since)
  IN  [start \in DeliveryAxis(PeriodsOf(rows, bucket), bucket) |->
         Delivered(InPeriod(rows, start, bucket))]

\* One axis for all labels.
DeliverySeries(Label(_), since, bucket) ==
  LET rows == Finished(since)
  IN  [label \in {Label(r) : r \in rows} |->
         [start \in DeliveryAxis(PeriodsOf(rows, bucket), bucket) |->
            Delivered(InPeriod({r \in rows : Label(r) = label}, start, bucket))]]

\* delivery_by_repo_trends and delivery_by_work_type_trends.
DeliveryByRepoTrends(since, bucket) == DeliverySeries(DeliveredRepo, since, bucket)
DeliveryByWorkTypeTrends(since, bucket) == DeliverySeries(DeliveredWorkType, since, bucket)

----------------------------------------------------------------------------
(* Queues: runs by status, dated by their latest marker.                    *)

RunsIn(statuses) == {r \in MemoryRuns : book[r].status \in statuses}

HumanWaitStatuses == {"waiting_approval", "review_required", "needs_clarification"}

\* Slip: the marker of a failed retry is forgotten.
WaitMarkersWithoutFailures(status) ==
  CASE status = "waiting_approval" -> {"approval_requested"}
    [] status = "review_required" -> {"risk_escalated", "run_blocked"}
    [] OTHER -> {}

\* _WAIT_START_EVENTS_BY_STATUS.
WaitMarkers(status) ==
  CASE status = "waiting_approval" -> {"approval_requested"}
    [] status = "review_required" -> {"risk_escalated", "agent_failed", "run_blocked"}
    [] OTHER -> {}

\* _wait_since_map and its default.
WaitSince(r) == LatestAt(book[r], WaitMarkers(book[r].status), book[r].created)

\* _dispatch_since_map, _pr_opened_since_map and _pr_activity_since_map.
RunningSince(r) == LatestAt(book[r], {"agent_started"}, book[r].created)
OpenedSince(r) == LatestAt(book[r], {"pr_opened"}, book[r].created)
ActiveSince(r) == LatestAt(book[r], {"pr_opened", "pr_updated"}, OpenedSince(r))

\* approval_queue, execution_queue (with _agent_cost_map) and review_queue.
ApprovalQueue == [r \in RunsIn(HumanWaitStatuses) |-> today - WaitSince(r)]
ExecutionQueue ==
  [r \in RunsIn({"agent_running"}) |->
     [running |-> today - RunningSince(r), cost |-> CostOf(book[r].jobs)]]
ReviewQueue ==
  [r \in RunsIn({"pr_open"}) |->
     [unreviewed |-> today - OpenedSince(r), inactive |-> today - ActiveSince(r)]]

ReportedCost(runs) ==
  LET reported == {r \in runs : CostOf(book[r].jobs) # NoCost}
  IN  SumFunction([r \in reported |-> CostOf(book[r].jobs)])

\* fleet_status.
FleetStatus ==
  [total |-> Cardinality(RunsIn(RunStatuses)),
   active |-> Cardinality(RunsIn(ActiveStatuses)),
   terminal |-> Cardinality(RunsIn(TerminalStatuses)),
   awaitingHuman |-> Cardinality(RunsIn({"waiting_approval"})) + Cardinality(RunsIn({"review_required"}))
                       + Cardinality(RunsIn({"needs_clarification"})),
   agentsRunning |-> Cardinality(RunsIn({"agent_running"})),
   prsOpen |-> Cardinality(RunsIn({"pr_open"})),
   activeCost |-> ReportedCost(RunsIn(ActiveStatuses))]

----------------------------------------------------------------------------
(* Failures: runs that ended blocked or failed, dated the same way.         *)

FailureStatuses == {"blocked", "execution_failed"}

\* _FAILURE_EVENTS_BY_STATUS and _failure_event_map.
FailureMarkers(status) == IF status = "blocked" THEN {"run_blocked"} ELSE {"agent_failed"}
FailedAt(r) == LatestAt(book[r], FailureMarkers(book[r].status), book[r].created)
FailureReason(r) ==
  LET markers == FailureMarkers(book[r].status)
  IN  IF EventsOf(book[r], markers) = {} THEN "(unknown)" ELSE LatestOf(book[r], markers).why

Failed(since) == {r \in RunsIn(FailureStatuses) : FailedAt(r) >= since}

\* What a failure view counts of the runs in one cell.
Tally(runs) ==
  [count |-> Cardinality(runs),
   blocked |-> Cardinality({r \in runs : book[r].status = "blocked"}),
   failed |-> Cardinality({r \in runs : book[r].status # "blocked"})]

\* failure_queue.
FailureQueue(since) ==
  [tally |-> Tally(Failed(since)),
   runs |-> [r \in Failed(since) |-> [age |-> today - FailedAt(r), reason |-> FailureReason(r)]]]

\* _run_repo_map, _run_work_type_map.
FailedRepo(r) == RepoOf(book[r])
FailedWorkType(r) == MemoryTickets[book[r].ticket].workType

FailureCells(Label(_), since) ==
  LET runs == Failed(since)
      in(label) == {r \in runs : Label(r) = label}
  IN  [label \in {Label(r) : r \in runs} |->
         [tally |-> Tally(in(label)),
          newest |-> Min({today - FailedAt(r) : r \in in(label)}),
          last |-> Max({FailedAt(r) : r \in in(label)})]]

\* failures_by_category, failures_by_repo and failures_by_work_type.
FailuresByCategory(since) == FailureCells(FailureReason, since)
FailuresByRepo(since) == FailureCells(FailedRepo, since)
FailuresByWorkType(since) == FailureCells(FailedWorkType, since)

FailurePeriods(since, bucket) == {BucketStart(FailedAt(r), bucket) : r \in Failed(since)}

\* failure_trends.
FailureTrends(since, bucket) ==
  [start \in DeliveryAxis(FailurePeriods(since, bucket), bucket) |->
     Tally({r \in Failed(since) : BucketStart(FailedAt(r), bucket) = start})]

\* One axis for all labels.
FailureSeries(Label(_), since, bucket) ==
  [label \in {Label(r) : r \in Failed(since)} |->
     [start \in DeliveryAxis(FailurePeriods(since, bucket), bucket) |->
        Tally({r \in Failed(since) : /\ Label(r) = label
                                     /\ BucketStart(FailedAt(r), bucket) = start})]]

\* failures_by_category_trends, failures_by_repo_trends and
\* failures_by_work_type_trends.
FailuresByCategoryTrends(since, bucket) == FailureSeries(FailureReason, since, bucket)
FailuresByRepoTrends(since, bucket) == FailureSeries(FailedRepo, since, bucket)
FailuresByWorkTypeTrends(since, bucket) == FailureSeries(FailedWorkType, since, bucket)

----------------------------------------------------------------------------
(* Properties.                                                              *)

\* The sum of one column of a view.
ColumnSum(view, Column(_)) == SumFunction([x \in DOMAIN view |-> Column(view[x])])

\* However the same rows are cut, by repository, work type or period, they
\* add up to what delivery_metrics says.
DeliveryAddsUp(since) ==
  LET all == DeliveryOverall(since).totals
      same(view) == /\ ColumnSum(view, LAMBDA c : c.finished) = all.finished
                    /\ ColumnSum(view, LAMBDA c : c.shipped) = all.shipped
                    /\ ColumnSum(view, LAMBDA c : c.retries) = all.retries
      refined(view, series) == \A label \in DOMAIN view :
        ColumnSum(series[label], LAMBDA c : c.finished) = view[label].finished
  IN  /\ same(DeliveryByRepo(since)) /\ same(DeliveryByWorkType(since))
      /\ all.mergeDays.median <= all.mergeDays.p90
      /\ \A repo \in DOMAIN DeliveryByRepo(since) :
           all.shipped = DeliveryByRepo(since)[repo].shipped =>
             all.mergeDays = DeliveryByRepo(since)[repo].mergeDays
      /\ \A bucket \in TrendBuckets :
           /\ same(DeliveryTrends(since, bucket))
           /\ refined(DeliveryByRepo(since), DeliveryByRepoTrends(since, bucket))
           /\ refined(DeliveryByWorkType(since), DeliveryByWorkTypeTrends(since, bucket))

FailuresAddUp(since) ==
  LET all == FailureQueue(since).tally
      same(view) == /\ ColumnSum(view, LAMBDA c : c.tally.count) = all.count
                    /\ ColumnSum(view, LAMBDA c : c.tally.blocked) = all.blocked
      refined(view, series) == \A label \in DOMAIN view :
        ColumnSum(series[label], LAMBDA c : c.count) = view[label].tally.count
  IN  /\ same(FailuresByCategory(since)) /\ same(FailuresByRepo(since))
      /\ same(FailuresByWorkType(since))
      /\ \A bucket \in TrendBuckets :
           /\ ColumnSum(FailureTrends(since, bucket), LAMBDA c : c.failed) = all.failed
           /\ refined(FailuresByCategory(since), FailuresByCategoryTrends(since, bucket))
           /\ refined(FailuresByRepo(since), FailuresByRepoTrends(since, bucket))
           /\ refined(FailuresByWorkType(since), FailuresByWorkTypeTrends(since, bucket))

\* The three queues are disjoint, hold as many runs as the fleet snapshot
\* says, and every run is active or ended.
FleetAddsUp ==
  /\ Cardinality(DOMAIN ApprovalQueue) = FleetStatus.awaitingHuman
  /\ Cardinality(DOMAIN ExecutionQueue) = FleetStatus.agentsRunning
  /\ Cardinality(DOMAIN ReviewQueue) = FleetStatus.prsOpen
  /\ FleetStatus.active + FleetStatus.terminal = FleetStatus.total

\* What the failure views show of ended runs whose outcome row is lost.
Unrecorded(since, status) ==
  Cardinality({r \in Failed(since) : r \in lost /\ book[r].status = status})

\* The views agree with each other; and outcome rows and live runs, two
\* sources, report the same blocked and failed runs of any window, those apart
\* whose row was logged as lost (unless a run has the row of an ending that a
\* failed retry wrote over).
ViewsAgree ==
  /\ FleetAddsUp
  /\ \A since \in {1, today} :
    /\ DeliveryAddsUp(since) /\ FailuresAddUp(since)
    /\ (\A r \in MemoryRuns : outcomeRow[r] # NoRow =>
            book[r].status \in TerminalStatuses /\ r \notin lost) =>
         /\ FailureQueue(since).tally.blocked
              = Delivered(Finished(since)).blocked + Unrecorded(since, "blocked")
         /\ FailureQueue(since).tally.failed
              = Cardinality(WithOutcome(Finished(since), "failed"))
                  + Unrecorded(since, "execution_failed")

\* An operator reads how long a run has been where it is: a run awaiting
\* approval or blocked is dated to the day it got there, one in review or
\* failed (which may escalate or fail again) no earlier, a first attempt to
\* its launch, and a pull request has not been idle for longer than it has
\* been open (metrics.py:38-134).
ClocksAreFaithful ==
  \A r \in MemoryRuns :
    LET run == book[r]
    IN  /\ run.status \in {"waiting_approval", "needs_clarification"} => WaitSince(r) = run.since
        /\ run.status = "review_required" => WaitSince(r) >= run.since
        /\ run.status = "blocked" => FailedAt(r) = run.since
        /\ run.status = "execution_failed" => FailedAt(r) >= run.since
        /\ run.status = "agent_running" /\ Len(run.jobs) = 1 /\ run.calling = "no" =>
             RunningSince(r) = run.since
        /\ run.status = "pr_open" =>
             ReviewQueue[r].inactive <= ReviewQueue[r].unreviewed

\* "The wait clock is dated from the latest AGENT_STARTED event - the dispatch
\* that put the run in flight, so a retry re-dispatch correctly resets the age
\* to the current attempt" (metrics.py:83-85).
RetryRestartsTheClock ==
  \A r \in MemoryRuns :
    book[r].status = "agent_running" /\ book[r].calling = "no" =>
      RunningSince(r) = book[r].since
=============================================================================
