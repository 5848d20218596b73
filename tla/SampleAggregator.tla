-------------------------- MODULE SampleAggregator --------------------------
(***************************************************************************)
(* SampleAggregator: what the controller reports of a signal per region,   *)
(* per epoch, per period and for the application, gathered one control     *)
(* interval at a time in a sum (a monotone signal) or in a mean weighted   *)
(* by time (a variable one).  history is all that PlatformIO sampled, and  *)
(* the properties compute the same results from it at once.                *)
(*                                                                         *)
(* The value of the signal grows by 2^n in the n-th interval, so that no   *)
(* two sets of intervals have the same sum.                                *)
(***************************************************************************)
EXTENDS Integers, Sequences, FiniteSetsExt

CONSTANTS
  Hashes,     \* region hashes, GEOPM_REGION_HASH_UNMARKED among them
  Unmarked,
  StartTime,  \* TIME at the first update()
  Duration,   \* m_period_duration
  MaxUpdate,  \* bound: calls of update()
  MaxNan      \* bound: intervals in which the signal is NAN

ASSUME AggregatorAssumption ==
  /\ Unmarked \in Hashes
  /\ StartTime \in Nat
  /\ Duration \in Nat
  /\ MaxUpdate \in Nat
  /\ MaxNan \in Nat

VARIABLES
  kind,       \* "none" before push_signal(), then "sum" or "average"
  signal,     \* m_sum_signal_s or m_avg_signal_s
  periodLast, \* m_period_last
  history     \* the samples of every update(), oldest first

aggVars == <<kind, signal, periodLast, history>>

isUpdated == history # <<>>

----------------------------------------------------------------------------
(* Accumulators.  A sum is a mean whose weight nobody asks for. *)

Empty == [total |-> 0, weight |-> 0, current |-> 0, span |-> 0, last |-> <<0, 0>>]

Add(a, value, weight) ==
  [a EXCEPT !.total = @ + value, !.weight = @ + weight,
            !.current = @ + value, !.span = @ + weight]

Enter(a) == [a EXCEPT !.current = 0, !.span = 0]

\* interval_total() is the first of the pair, interval_average() the quotient.
Exit(a) == [a EXCEPT !.last = <<a.current, a.span>>]

----------------------------------------------------------------------------
(* update() *)

Fresh == [valueLast |-> 0, hadValue |-> FALSE, timeLast |-> 0, hashLast |-> Unmarked, epochLast |-> 0,
          app |-> Empty, epoch |-> Empty, period |-> Empty, region |-> [h \in Hashes |-> Empty]]

\* The first call only looks at where the application is.
First(s, u) ==
  [s EXCEPT !.valueLast = u.value, !.hadValue = ~u.nan, !.timeLast = 0,
            !.hashLast = u.hash, !.epochLast = u.epoch]

\* What an interval adds to a sum, and to a mean with its weight.
SumDelta(s, u) == IF s.hadValue THEN u.value - s.valueLast ELSE 0
AvgWeight(s, u) == IF u.nan THEN 0 ELSE u.time - s.timeLast
AvgDelta(s, u) == AvgWeight(s, u) * u.value

Accumulate(s, u) ==
  LET value == IF kind = "sum" THEN SumDelta(s, u) ELSE AvgDelta(s, u)
      weight == IF kind = "sum" THEN 0 ELSE AvgWeight(s, u)
  IN [s EXCEPT !.app = Add(@, value, weight),
               !.epoch = IF s.epochLast # 0 THEN Add(@, value, weight) ELSE @,
               !.period = Add(@, value, weight),
               !.region[s.hashLast] = Add(@, value, weight)]

UpdateEpoch(s, e) ==
  IF e = s.epochLast
    THEN s
    ELSE [s EXCEPT !.epoch = Enter(IF s.epochLast # 0 THEN Exit(@) ELSE @), !.epochLast = e]

\* (bug) The region that is entered goes on from its former visit.
UpdateHashNoEnter(s, h) ==
  IF h = s.hashLast \/ s.hashLast = Unmarked THEN s ELSE [s EXCEPT !.region[s.hashLast] = Exit(@)]

UpdateHash(s, h) ==
  IF h = s.hashLast
    THEN s
    ELSE [s EXCEPT !.region = [x \in Hashes |->
           CASE x = s.hashLast /\ x # Unmarked -> Exit(@[x])
             [] x = h /\ x # Unmarked -> Enter(@[x])
             [] OTHER -> @[x]]]

UpdatePeriod(s, p) ==
  IF p = periodLast THEN s ELSE [s EXCEPT !.period = Enter(IF p # 0 THEN Exit(@) ELSE @)]

GetPeriod(u) == IF Duration = 0 THEN 0 ELSE u.time \div Duration

\* A sum passes over an interval without a value, and does not see what the
\* application did in it; a mean only adds nothing.
Updated(s, u) ==
  IF kind = "sum" /\ u.nan
    THEN s
    ELSE LET gathered == UpdatePeriod(UpdateHash(UpdateEpoch(Accumulate(s, u), u.epoch), u.hash), GetPeriod(u))
         IN [gathered EXCEPT !.hashLast = u.hash, !.timeLast = u.time,
                             !.valueLast = u.value, !.hadValue = TRUE]

Update(u) ==
  /\ kind # "none"
  /\ signal' = IF isUpdated THEN Updated(signal, u) ELSE First(signal, u)
  /\ periodLast' = GetPeriod(u)
  /\ history' = Append(history, u)
  /\ UNCHANGED kind

\* push_signal(): a monotone signal is summed, a variable one averaged; after
\* the first update() it throws.
PushSignal(k) ==
  /\ ~isUpdated
  /\ kind = "none"
  /\ kind' = k
  /\ signal' = Fresh
  /\ UNCHANGED <<periodLast, history>>

\* What the reports read: the value and the weight, of which a mean is the
\* quotient; nothing before the first update().
Whole(a) == <<a.total, a.weight>>

SampleApplication == IF isUpdated THEN Whole(signal.app) ELSE <<>>
SampleEpoch == IF isUpdated THEN Whole(signal.epoch) ELSE <<>>
SampleEpochLast == IF isUpdated THEN signal.epoch.last ELSE <<>>
SampleRegion(h) == IF isUpdated THEN Whole(signal.region[h]) ELSE <<>>
SampleRegionLast(h) == IF isUpdated THEN signal.region[h].last ELSE <<>>
SamplePeriodLast == IF isUpdated /\ Duration # 0 THEN signal.period.last ELSE <<>>

\* What read_batch() finds next.
Readings ==
  LET n == Len(history)
      before == IF n = 0 THEN 0 ELSE history[n].epoch
  IN {u \in [value : {2 ^ n}, nan : BOOLEAN, hash : Hashes, epoch : {before, before + 1}, time : {StartTime + n}] :
        u.nan => Cardinality({i \in 1..n : history[i].nan}) < MaxNan}

AggInit ==
  /\ kind = "none"
  /\ signal = Fresh
  /\ periodLast = 0
  /\ history = <<>>

AggNext ==
  \/ \E k \in {"sum", "average"} : PushSignal(k)
  \/ Len(history) < MaxUpdate /\ \E u \in Readings : Update(u)

----------------------------------------------------------------------------
(* The same results from the whole history *)

\* The updates that a signal takes part in.
Seen == IF kind = "sum" THEN SelectSeq(history, LAMBDA u : ~u.nan) ELSE history

\* The value and the weight of the interval that ends with the k-th of q.  The
\* first interval of a mean starts at TIME zero.
IntervalValue(q, k) ==
  IF kind = "sum" THEN q[k].value - q[k - 1].value
  ELSE IF q[k].nan THEN 0
  ELSE IF k = 2 THEN q[k].time * q[k].value
  ELSE (q[k].time - q[k - 1].time) * q[k].value
IntervalWeight(q, k) ==
  IF kind = "sum" \/ q[k].nan THEN 0
  ELSE IF k = 2 THEN q[k].time
  ELSE q[k].time - q[k - 1].time

ValueOf(q, ks) == MapThenSumSet(LAMBDA k : IntervalValue(q, k), ks)
WeightOf(q, ks) == MapThenSumSet(LAMBDA k : IntervalWeight(q, k), ks)

\* The intervals of the last stretch of q that began and ended within it, where
\* changes are the positions at which a stretch begins or ends and closing those
\* at which one ends.
LastStretch(changes, closing) ==
  IF closing = {}
    THEN {}
    ELSE LET end == Max(closing)
             begin == Max({1} \union {k \in changes : k < end})
         IN (begin + 1)..end

HashChanges(q) == {k \in 2..Len(q) : q[k].hash # q[k - 1].hash}
EpochChanges(q) == {k \in 2..Len(q) : q[k].epoch # q[k - 1].epoch}
PeriodChanges(q) == {k \in 2..Len(q) : GetPeriod(q[k]) # GetPeriod(q[k - 1])}

\* The type invariant.
AggTypeOK ==
  /\ kind \in {"none", "sum", "average"}
  /\ DOMAIN signal = DOMAIN Fresh
  /\ signal.hashLast \in Hashes
  /\ periodLast \in Nat
  /\ Len(history) <= MaxUpdate

\* What is reported of a region (update_total() and update_average() with their
\* accumulators) is what the signal did in the intervals that began in it, and
\* the last visit of a region counts from where it was entered to where it was
\* left, whatever was visited in between and however often the signal was NAN.
RegionTotals ==
  isUpdated => \A h \in Hashes :
    LET q == Seen
        in == {k \in 2..Len(q) : q[k - 1].hash = h}
        visit == LastStretch(HashChanges(q), {k \in HashChanges(q) : q[k - 1].hash = h})
    IN /\ SampleRegion(h) = <<ValueOf(q, in), WeightOf(q, in)>>
       /\ h # Unmarked => SampleRegionLast(h) = <<ValueOf(q, visit), WeightOf(q, visit)>>

\* Epoch totals begin with the first epoch, and the last epoch counts from one
\* epoch to the next one (sample_aggregator_update_epoch()); this is what the
\* power balancer compares between nodes.
EpochTotals ==
  isUpdated =>
  LET q == Seen
      in == {k \in 2..Len(q) : q[k - 1].epoch # 0}
      epoch == LastStretch(EpochChanges(q), {k \in EpochChanges(q) : q[k - 1].epoch # 0})
  IN /\ SampleEpoch = <<ValueOf(q, in), WeightOf(q, in)>>
     /\ SampleEpochLast = <<ValueOf(q, epoch), WeightOf(q, epoch)>>

\* sample_period_last() is about the last whole period (update_period()): not
\* so when the signal was NAN in the interval in which a period ended.
PeriodTotals ==
  isUpdated /\ Duration # 0 =>
  LET q == Seen
      period == LastStretch(PeriodChanges(q), PeriodChanges(q))
  IN SamplePeriodLast = <<ValueOf(q, period), WeightOf(q, period)>>

\* A mean weights what was sampled by the time since the update before it ("a
\* time weighted mean of the values sampled while in the region"): not so in the
\* first interval, which counts from TIME zero.
WeightsAreTime ==
  kind = "average" /\ Len(history) > 1 /\ (\A i \in 1..Len(history) : ~history[i].nan)
    => SampleApplication[2] = history[Len(history)].time - history[1].time
=============================================================================
