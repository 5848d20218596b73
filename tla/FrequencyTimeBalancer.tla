------------------------ MODULE FrequencyTimeBalancer ------------------------
(***************************************************************************)
(* FrequencyTimeBalancerImp: the frequencies at which the cores of a       *)
(* package get through the same work in the same time.  Times and measured *)
(* frequencies are integers.  A computed value is a triple <<numerator,    *)
(* denominator, exact>>; when it is not exact the double may lie next to   *)
(* the quotient, on either side, and where a comparison depends on that    *)
(* both outcomes are possible.  A time that is not known is NoTime; it     *)
(* stands for NAN.                                                         *)
(***************************************************************************)
EXTENDS Integers, Sequences, SequencesExt, FiniteSetsExt

NoTime == -1

Less(a, b) == a[1] * b[2] < b[1] * a[2]
Same(a, b) == a[1] * b[2] = b[1] * a[2]
Larger(a, b) == IF Less(a, b) THEN b ELSE a
Smaller(a, b) == IF Less(b, a) THEN b ELSE a

Exactly(n) == <<n, 1, TRUE>>
Computed(n, d) == <<n, d, FALSE>>

\* What std::min() and std::max() can make of a computed value.
Clamped(f, min, max) ==
  IF Less(f, Exactly(min)) THEN {Exactly(min)}
  ELSE IF Less(Exactly(max), f) THEN {Exactly(max)}
  ELSE {f} \union {Exactly(n) : n \in {k \in {min, max} : Same(f, Exactly(k))}}

\* One of each of the sets.
OneOfEach(sets) == {f \in [DOMAIN sets -> UNION {sets[i] : i \in DOMAIN sets}] : \A i \in DOMAIN sets : f[i] \in sets[i]}

\* What a core has to do in its region of interest.
Cycles(times, achieved, i) == times[i] * achieved[i]

\* m_lagginess_idx: the most cycles first, those that are not known last.
Laggiest(times, achieved) ==
  LET before(i, j) == /\ times[i] # NoTime
                      /\ \/ times[j] = NoTime
                         \/ Cycles(times, achieved, i) > Cycles(times, achieved, j)
                         \/ Cycles(times, achieved, i) = Cycles(times, achieved, j) /\ i < j
      order(i, j) == before(i, j) \/ (times[i] = NoTime /\ times[j] = NoTime /\ i < j)
  IN SetToSortSeq(DOMAIN times, order)

\* A core that had no limit and has the most cycles of these, or the one that lags
\* most; std::sort() leaves the order of equal ones open.
References(times, ctl, achieved, max) ==
  LET free == {i \in DOMAIN times : times[i] # NoTime /\ ctl[i] >= max}
      pool == IF free = {} THEN {i \in DOMAIN times : times[i] # NoTime} ELSE free
  IN {i \in pool : \A j \in pool : Cycles(times, achieved, j) <= Cycles(times, achieved, i)}

\* How long the longest takes with the first count cores at the frequency that so
\* many can have, and the others at the low one; {} if that is not known.
LongPoles(times, achieved, limit, low) ==
  LET order == Laggiest(times, achieved)
      high == Computed(Cycles(times, achieved, order[1]), limit[2])
      next == order[limit[1] + 1]
  IN IF times[order[1]] = NoTime THEN {}
     ELSE IF limit[1] >= Len(order) THEN {high}
     ELSE IF times[next] = NoTime THEN {}
     ELSE {Larger(Computed(Cycles(times, achieved, next), low), high)}

\* update_balance_targets(): the time to match, and the frequency up to which a core
\* has low priority.
Targets(times, ctl, achieved, limits, low, min, max) ==
  LET poles == UNION {LongPoles(times, achieved, limits[k], low) : k \in DOMAIN limits}
      target(time) ==
        LET shorter == {pole \in poles : Less(pole, time)}
        IN {[time |-> FoldSet(Smaller, time, poles), cutoff |-> cutoff] :
              cutoff \in IF shorter # {} THEN {low}
                         ELSE IF \E pole \in poles : Same(pole, time) THEN {min, low}
                         ELSE {min}}
  IN IF \A i \in DOMAIN times : times[i] = NoTime THEN {[time |-> Exactly(NoTime), cutoff |-> min]}
     ELSE UNION {target(Exactly(times[i])) : i \in References(times, ctl, achieved, max)}

KnownTime(times, achieved, t, i) ==
  times[i] # NoTime /\ t.time[1] # NoTime /\ ~(t.time[1] = 0 /\ Cycles(times, achieved, i) = 0)

\* The frequency that gets a core through in that time, within the limits; the
\* former one if that is not known.
Desired(times, ctl, achieved, t, min, max, i) ==
  LET cycles == Cycles(times, achieved, i)
  IN IF ~KnownTime(times, achieved, t, i) THEN {Exactly(ctl[i])}
     ELSE IF t.time[1] = 0 THEN {Exactly(max)}
     ELSE Clamped(Computed(cycles * t.time[2], t.time[1]), min, max)

\* (bug) Nobody is scaled up.
ScaledNot(d, group, cutoff, step, min, max) == {d}

\* A core of high priority, or close to the fastest, is scaled as far as takes the
\* fastest to the highest frequency, or in doubles next to that.
Scaled(d, group, cutoff, step, min, max) ==
  LET near == <<d[1] + step * d[2], d[2], d[3] /\ group[3]>>
      scaled == Clamped(Computed(d[1] * max * group[2], d[2] * group[1]), min, max)
      surely == Less(Exactly(cutoff), d) \/ Less(group, near)
      perhaps == (Same(Exactly(cutoff), d) /\ ~d[3]) \/ (Same(group, near) /\ ~near[3])
  IN (IF surely \/ perhaps THEN scaled ELSE {}) \union (IF surely THEN {} ELSE {d})

\* get_balanced_frequencies(): unless nobody has been without a limit, the desired
\* frequencies d, scaled up if all of them are below the highest.
BalancedTo(t, d, times, ctl, achieved, min, max, step) ==
  LET known == {i \in DOMAIN times : KnownTime(times, achieved, t, i)}
      group == FoldSet(LAMBDA i, g : Larger(g, d[i]), Exactly(min), known)
  IN IF \A i \in DOMAIN ctl : ctl[i] < max THEN {[i \in DOMAIN ctl |-> Exactly(max)]}
     ELSE IF Exactly(max) \in {d[i] : i \in known} THEN {d}
     ELSE OneOfEach([i \in DOMAIN d |-> IF times[i] # NoTime THEN Scaled(d[i], group, t.cutoff, step, min, max) ELSE {d[i]}])

\* balance_frequencies_by_time(): what it may return for a target.
Balanced(t, times, ctl, achieved, min, max, step) ==
  UNION {BalancedTo(t, d, times, ctl, achieved, min, max, step) :
           d \in OneOfEach([i \in DOMAIN times |-> Desired(times, ctl, achieved, t, min, max, i)])}
=============================================================================
