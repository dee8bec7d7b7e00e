----------------------------- MODULE TrendPeriods -----------------------------
(****************************************************************************)
(* The periods that memory/metrics.py and memory/scorecards.py cut time     *)
(* into, and the arithmetic they share.                                     *)
(****************************************************************************)
EXTENDS Integers, FiniteSets, FiniteSetsExt

CONSTANTS
  DaysPerWeek,   \* 7 in the code
  FirstWeekday   \* the weekday of day 0

ASSUME PeriodsAssumption == DaysPerWeek \in Nat \ {0} /\ FirstWeekday \in 0..DaysPerWeek - 1

\* TREND_BUCKETS.
TrendBuckets == {"day", "week"}

\* Slip: a week starts where its first row is.
BucketAsIs(day, bucket) == day

\* bucket_start, with days for midnights.
BucketStart(day, bucket) ==
  IF bucket = "week" THEN day - ((day + FirstWeekday) % DaysPerWeek) ELSE day

\* _delivery_axis: every period from the first populated one to the last.
DeliveryAxis(populated, bucket) ==
  LET step == IF bucket = "day" THEN 1 ELSE DaysPerWeek
  IN  IF populated = {} THEN {}
      ELSE {start \in Min(populated)..Max(populated) : (start - Min(populated)) % step = 0}

\* n/d for a reader: to the nearest integer, a half to the even one.
Rounded(n, d) ==
  LET twice == 2 * (n % d)
  IN  n \div d + (IF twice > d \/ (twice = d /\ (n \div d) % 2 = 1) THEN 1 ELSE 0)

\* smoothed_confidence: the Beta(1,1)-smoothed merge rate, in percent.
SmoothedConfidence(merged, routed, cap) ==
  LET percent == Rounded(100 * (merged + 1), routed + 2)
  IN  IF percent > cap THEN cap ELSE percent
=============================================================================
