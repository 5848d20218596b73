---------------------------- MODULE RecordFilter ----------------------------
(***************************************************************************)
(* The record filters, which put epochs into the stream of records of a    *)
(* process that does not mark them: ProxyEpochRecordFilter counts the      *)
(* entries of one region, EditDistEpochRecordFilter looks for a period in  *)
(* the regions entered, with the help of EditDistPeriodicityDetector.      *)
(*                                                                         *)
(* The detector keeps the distances between what was entered before and    *)
(* since each position in a cube whose indices wrap around (dp); entries   *)
(* is the whole stream, which the detector does not have.                  *)
(***************************************************************************)
EXTENDS CircularBuffer, FiniteSetsExt
LOCAL INSTANCE SequencesExt

CONSTANTS
  Regions,     \* the hashes of the regions that are entered
  Proxy,       \* m_proxy_hash
  Calls,       \* m_num_per_epoch
  Startup,     \* startup_count
  History,     \* m_history_buffer_size
  BasePeriod,  \* m_min_hysteresis_base_period
  MinPeriod,   \* m_min_detectable_period
  StableHalves, UnstableHalves,  \* the two hysteresis factors, in halves
  Filters,     \* the filters of this instance
  MaxEntries   \* bound: region entries

ASSUME FilterAssumption ==
  /\ Proxy \in Regions
  /\ Calls \in Nat \ {0}
  /\ Startup \in Nat
  /\ History \in Nat \ {0}
  /\ {BasePeriod, MinPeriod, StableHalves, UnstableHalves, MaxEntries} \subseteq Nat

VARIABLES
  filter,    \* which filter the process has
  count,     \* m_count of the proxy filter
  buffer,    \* m_history_buffer
  dp,        \* m_DP
  detected,  \* m_period, m_score and m_record_count of the detector
  machine,   \* the state machine of EditDistEpochRecordFilter
  passed,    \* the EPOCH_COUNT records that came out: signal, and entries before it
  ownEpochs, \* EPOCH_COUNT records of the application itself
  entries    \* the regions entered so far

filterVars == <<filter, count, buffer, dp, detected, machine, passed, ownEpochs, entries>>

----------------------------------------------------------------------------
(* EditDistPeriodicityDetector *)

Infinite == 1000

Didx(ii, jj, mm) == ((ii % History) * History + (jj % History)) * History + (mm % History)

Dget(d, n, ii, jj, mm) ==
  IF n - ii < History /\ jj < History /\ n - mm < History THEN d[Didx(ii, jj, mm)] ELSE Infinite

From(lo, n) == Max({lo, n - History})
Counted(lo, hi) == [k \in 1..hi - lo + 1 |-> lo + k - 1]

\* (bug) A pattern has to begin where the stream does.
BasesGlobal(d, n) ==
  LET index(ii) == Didx(ii, 0, n - 1)
  IN FoldLeft(LAMBDA c, mm : [c EXCEPT ![Didx(0, n - mm, mm)] = n - mm],
              FoldLeft(LAMBDA c, ii : [c EXCEPT ![index(ii)] = ii], d, Counted(From(0, n), n - 1)),
              Counted(From(0, n), n - 1))

\* Nothing against the newest record alone; everything against no record.
Bases(d, n) ==
  LET against == {Didx(ii, 0, n - 1) : ii \in From(0, n)..n - 1}
  IN FoldLeft(LAMBDA c, mm : [c EXCEPT ![Didx(0, n - mm, mm)] = n - mm],
              [x \in DOMAIN d |-> IF x \in against THEN 0 ELSE d[x]], Counted(From(0, n), n - 1))

\* Whether the ii-th record is still there and is the same as the newest.
Term(b, n, ii) ==
  LET age == n - (ii - 1)
  IN IF age <= b.count /\ CBValue(b, b.count - age) = CBValue(b, b.count - 1) THEN 0 ELSE 2

Cell(d, b, n, mm, ii) ==
  [d EXCEPT ![Didx(ii, n - mm, mm)] =
     Min({Dget(d, n, ii - 1, n - mm, mm) + 1, Dget(d, n, ii, n - mm - 1, mm) + 1,
          Dget(d, n, ii - 1, n - mm - 1, mm) + Term(b, n, ii)})]

Distances(d, b, n) ==
  FoldLeft(LAMBDA c, mm : FoldLeft(LAMBDA e, ii : Cell(e, b, n, mm, ii), c, Counted(From(1, n), mm)),
           Bases(d, n), Counted(From(1, n), n - 1))

\* find_smallest_repeating_pattern(): the length of the shortest sequence that
\* recs repeats.
SmallestPattern(recs) ==
  Min({len \in 1..Len(recs) : Len(recs) % len = 0
                              /\ \A i \in 1..Len(recs) - len : recs[i + len] = recs[i]})

Positions(n) == Max({(n + 1) \div 2, n - History})..n - 1

\* The best position is the first of those with the least distance.
Calculated(d, b, n) ==
  LET score == Min({Dget(d, n, mm, n - mm, mm) : mm \in Positions(n)})
      best == Min({mm \in Positions(n) : Dget(d, n, mm, n - mm, mm) = score})
      recs == [i \in 1..n - best |-> CBValue(b, b.count - (n - best) + i - 1)]
  IN [period |-> IF recs = <<>> THEN 1 ELSE SmallestPattern(recs), score |-> score, records |-> n]

----------------------------------------------------------------------------
(* EditDistEpochRecordFilter *)

\* parse_stable_period_hysteresis() and its like return an int.
Truncated(halves) == halves \div 2
Stable == Truncated(StableHalves)
Unstable == Truncated(UnstableHalves)

\* Before a period is accepted: how often was it found in a row.
Watch(m, det) ==
  IF det.score >= det.period \/ det.period < MinPeriod THEN [m EXCEPT !.last = -1, !.stable = 0]
  ELSE IF det.period = m.last THEN [m EXCEPT !.stable = @ + 1]
  ELSE [m EXCEPT !.last = det.period, !.stable = 0]

Accepted(m, det) ==
  \/ det.period <= BasePeriod /\ m.stable = Stable * BasePeriod
  \/ det.period > BasePeriod /\ m.stable >= Stable * det.period

\* epoch_detected(): the machine that follows, and whether there is an epoch.
EpochDetected(m, det) ==
  IF ~m.detected
    THEN LET w == Watch(m, det)
         IN IF Accepted(w, det)
              THEN <<[w EXCEPT !.detected = TRUE, !.lastEpoch = det.records, !.stable = 0], TRUE>>
              ELSE <<w, FALSE>>
    ELSE LET w == [m EXCEPT !.unstable = IF det.period = m.last THEN 0 ELSE @ + 1]
         IN CASE w.unstable >= Unstable * m.last -> <<[w EXCEPT !.detected = FALSE, !.unstable = 0], FALSE>>
              [] w.unstable < Unstable * m.last /\ det.period >= m.last /\ det.records - m.lastEpoch >= det.period ->
                   <<[w EXCEPT !.lastEpoch = det.records], TRUE>>
              [] OTHER -> <<w, FALSE>>

----------------------------------------------------------------------------
(* filter() *)

Epoch(signal) == Append(passed, [signal |-> signal, after |-> Len(entries) + 1])

EditEntry(h) ==
  LET n == detected.records + 1
      b == CBInsert(buffer, h)
      d == IF n < 2 THEN dp ELSE Distances(dp, b, n)
      det == IF n < 2 THEN [detected EXCEPT !.records = n] ELSE Calculated(d, b, n)
      result == EpochDetected(machine, det)
  IN /\ filter = "edit_distance"
     /\ buffer' = b
     /\ dp' = d
     /\ detected' = det
     /\ machine' = [result[1] EXCEPT !.epochs = IF result[2] THEN @ + 1 ELSE @]
     /\ passed' = IF result[2] THEN Epoch(machine.epochs + 1) ELSE passed
     /\ UNCHANGED <<filter, count>>

ProxySignal(n) == 1 + n \div Calls

ProxyEntry(h) ==
  /\ filter = "proxy_epoch"
  /\ count' = IF h = Proxy THEN count + 1 ELSE count
  /\ passed' = IF h = Proxy /\ count >= 0 /\ count % Calls = 0 THEN Epoch(ProxySignal(count)) ELSE passed
  /\ UNCHANGED <<filter, buffer, dp, detected, machine>>

FilterEntry(h) ==
  /\ EditEntry(h) \/ ProxyEntry(h)
  /\ entries' = Append(entries, h)
  /\ UNCHANGED ownEpochs

\* A record of the application's own epochs is dropped by either filter.
FilterEpoch ==
  /\ ownEpochs' = ownEpochs + 1
  /\ UNCHANGED <<filter, count, buffer, dp, detected, machine, passed, entries>>

FilterInit ==
  /\ filter \in Filters
  /\ count = -Startup
  /\ buffer = CBNew(History)
  /\ dp = [x \in 0..History * History * History - 1 |-> 0]
  /\ detected = [period |-> -1, score |-> -1, records |-> 0]
  /\ machine = [last |-> -1, stable |-> 0, unstable |-> 0, detected |-> FALSE, lastEpoch |-> -1, epochs |-> 0]
  /\ passed = <<>>
  /\ ownEpochs = 0
  /\ entries = <<>>

FilterNext ==
  \/ Len(entries) < MaxEntries /\ \E h \in Regions : FilterEntry(h)
  \/ ownEpochs < 1 /\ FilterEpoch

----------------------------------------------------------------------------
(* Properties *)

\* The type invariant.
FilterTypeOK ==
  /\ filter \in Filters
  /\ count \in Int
  /\ DOMAIN dp = 0..History * History * History - 1
  /\ detected.records <= MaxEntries
  /\ machine.detected \in BOOLEAN
  /\ ownEpochs \in 0..1

\* The longest sequence that is part of both, in this order.
CommonLength(s, t) ==
  Max({Cardinality(S) : S \in {X \in SUBSET (DOMAIN s) :
    \E f \in [X -> DOMAIN t] : \A i, j \in X : s[i] = t[f[i]] /\ (i < j => f[i] < f[j])}})

\* The changes that turn the end of s into t: an insertion or a deletion is one,
\* a replacement two.
EditDistance(s, t) ==
  Min({LET u == SubSeq(s, k, Len(s)) IN Len(u) + Len(t) - 2 * CommonLength(u, t) : k \in 1..Len(s) + 1})

TrueDistance(mm) == EditDistance(SubSeq(entries, 1, mm), SubSeq(entries, mm + 1, Len(entries)))

\* The score and the period of calc_period(), gathered in a cube that is written
\* over and over, are what the edit distances of the stream say, for as long as the
\* stream fits the history buffer.
DetectorExact ==
  LET n == Len(entries)
      score == Min({TrueDistance(mm) : mm \in Positions(n)})
      best == Min({mm \in Positions(n) : TrueDistance(mm) = score})
  IN filter = "edit_distance" /\ n \in 2..History - 1
       => detected = [period |-> SmallestPattern(SubSeq(entries, best + 1, n)), score |-> score, records |-> n]

Periodic(s, p) == \A i \in 1..Len(s) - p : s[i + p] = s[i]

\* Whatever was entered before, once a pattern that fits twice into the history
\* buffer has been repeated three times, epoch_detected() reports one epoch in
\* each repetition: none is missed and none is reported twice, although the
\* history was written over and the period is guessed anew with every record.
EpochPerPeriod ==
  filter = "edit_distance" =>
    \A p \in MinPeriod..History \div 2 :
      LET n == Len(entries)
          recent == SubSeq(entries, n - 3 * p, n)
      IN n > 3 * p /\ Periodic(recent, p) /\ (\A q \in 1..p - 1 : ~Periodic(recent, q))
           => Cardinality({i \in DOMAIN passed : passed[i].after > n - p}) = 1

\* The validator of the sampler, which fails on the gap, accepts the epochs that
\* come out: they are counted from one, whatever the application itself marks.
EpochsContiguous == \A i \in DOMAIN passed : passed[i].signal = i
=============================================================================
