----------------------- MODULE FrequencyBalancerAgent -----------------------
(***************************************************************************)
(* FrequencyBalancerAgent on one node with SST-TF: after a group of epochs *)
(* it balances the frequency limits within each package, and in every      *)
(* pass it lowers the cores that wait for the network or do not belong to  *)
(* the application.  Cores are numbered through the packages, in order.    *)
(***************************************************************************)
EXTENDS FrequencyTimeBalancer

CONSTANTS
  NumPackages, PerPackage,
  BalMin, BalMax, BalStep,  \* limits and step of the core frequencies
  LowPriority,   \* the low priority frequencies that the detector may find
  HighPriority,  \* for each of them, the limits by the number of cores
  BalTimes,      \* times per epoch outside of the network
  Achieved,      \* achieved frequencies
  NetworkLength, \* NETWORK_HINT_MINIMUM_SAMPLE_LENGTH
  EpochWait,     \* MINIMUM_EPOCHS_FOR_NEW_EPOCH_CONTROL
  MinPeriods,    \* MINIMUM_WAIT_PERIODS_FOR_NEW_EPOCH_CONTROL
  MaxBalance     \* bound: passes of the controller

ASSUME BalancerAssumption ==
  /\ {NumPackages, PerPackage} \subseteq Nat \ {0}
  /\ BalMin <= BalMax /\ BalStep > 0
  /\ {NetworkLength, EpochWait, MinPeriods, MaxBalance} \subseteq Nat

VARIABLES
  ctl,       \* m_last_ctl_frequency
  detector,  \* per core: low priority frequency and limits
  hints,     \* per core: m_network_hint_sample_length, and whether it is the application's
  epochs,    \* m_last_epoch_count, _time, m_epoch_wait_count and m_handle_new_epoch
  measured,  \* m_last_epoch_non_network_time_diff and m_last_epoch_frequency
  settings,  \* what the governors have set: frequency and CLOS of each core
  target,    \* per package, m_target_time of the latest balance
  balPhase,  \* the part of the pass that is next
  balPass    \* passes so far

balVars == <<ctl, detector, hints, epochs, measured, settings, target, balPhase, balPass>>

BalCores == 1..NumPackages * PerPackage
CoreAt(p, i) == (p - 1) * PerPackage + i
Package(p) == {CoreAt(p, i) : i \in 1..PerPackage}
Of(f, p) == [i \in 1..PerPackage |-> f[CoreAt(p, i)]]

----------------------------------------------------------------------------
(* adjust_platform() *)

\* The limits of the core that can go highest, with its low priority frequency.
BestLimits(det, p) ==
  LET top(c) == Max({det[c].limits[k][2] : k \in DOMAIN det[c].limits})
      highest == Max({top(c) : c \in Package(p)})
  IN det[Min({c \in Package(p) : top(c) = highest})]

\* Towards the former setting, in whole steps; a computed value may lie on either
\* side of one.
Rounded(before, f) ==
  LET steps == f[1] \div (f[2] * BalStep)
      down == Less(f, Exactly(before))
      outcomes == IF steps * f[2] * BalStep # f[1] THEN {IF down THEN steps + 1 ELSE steps}
                  ELSE IF f[3] \/ Same(f, Exactly(before)) THEN {steps}
                  ELSE IF down THEN {steps, steps + 1} ELSE {steps - 1, steps}
  IN {n * BalStep : n \in outcomes}

\* balance_frequencies_by_time() for one package, with the limits it is rounded to.
Balances(p) ==
  LET best == BestLimits(detector, p)
      times == Of(measured.times, p)
      achieved == Of(measured.achieved, p)
      before == Of(ctl, p)
      rounded(d) == OneOfEach([i \in DOMAIN d |-> Rounded(before[i], d[i])])
      balanced(t) == UNION {rounded(d) : d \in Balanced(t, times, before, achieved, BalMin, BalMax, BalStep)}
  IN UNION {{[target |-> t.time, limits |-> limits] : limits \in balanced(t)} :
              t \in Targets(times, before, achieved, best.limits, best.low, BalMin, BalMax)}

\* The cores that need no turbo now.
NeedsNoTurbo(c) == ~hints[c].app \/ hints[c].network >= NetworkLength

Lowered(limits) == [c \in BalCores |-> IF NeedsNoTurbo(c) THEN detector[c].low ELSE limits[c]]

\* If all of the fast cores of a package wait, every core with another hint is
\* freed.
Immediate(limits) ==
  LET lowered == Lowered(limits)
      idle(p) == \A c \in Package(p) : NeedsNoTurbo(c) \/ lowered[c] < BalMax
  IN [c \in BalCores |->
        IF (\E p \in 1..NumPackages : c \in Package(p) /\ idle(p)) /\ hints[c].network = 0 /\ hints[c].sampled
          THEN BalMax ELSE lowered[c]]

\* CLOS by core, for as many of them as frequency_by_core has: in a pass that
\* balances these are the cores of one package, and the others get what
\* m_last_ctl_clos has had since the start.
Clos(immediate, balances) ==
  [c \in BalCores |->
     IF balances /\ c > PerPackage THEN "high"
     ELSE IF immediate[c] > detector[c].low THEN "high" ELSE "low"]

PackageOf(c) == CHOOSE p \in 1..NumPackages : c \in Package(p)

AdjustTo(limits) ==
  /\ balPhase = "down"
  /\ balPhase' = "up"
  /\ ctl' = limits
  /\ epochs' = [epochs EXCEPT !.handle = FALSE]
  /\ \E immediate \in {Immediate(limits)} :
       settings' = [freq |-> immediate, clos |-> Clos(immediate, epochs.handle), balanced |-> epochs.handle]
  /\ UNCHANGED <<detector, hints, measured, balPass>>

BalAdjust ==
  IF epochs.handle
    THEN \E b \in OneOfEach([p \in 1..NumPackages |-> Balances(p)]) :
           /\ AdjustTo([c \in BalCores |-> b[PackageOf(c)].limits[c - (PackageOf(c) - 1) * PerPackage]])
           /\ target' = [p \in 1..NumPackages |-> b[p].target]
    ELSE AdjustTo(ctl) /\ UNCHANGED target

----------------------------------------------------------------------------
(* sample_platform() *)

\* The signals over a group of epochs.  max(0, NAN) makes a time that is not known
\* zero: over the first group all of them, and later that of a core without the
\* application.
MeasuredTimes(first) ==
  IF first THEN {[times |-> [c \in BalCores |-> 0], achieved |-> [c \in BalCores |-> BalMax]]}
           ELSE [times : [BalCores -> BalTimes \union {0}], achieved : [BalCores -> Achieved]]

\* update_max_frequency_estimates(), at the start of the next adjust_platform().
Detected == [BalCores -> {[low |-> l, limits |-> HighPriority[l]] : l \in LowPriority}]

\* A group of epochs has been long enough in epochs, and then in time.
EpochsDone(count) == epochs.count # NoTime /\ count - epochs.count >= epochs.wait
Early == epochs.time # NoTime /\ balPass - epochs.time < MinPeriods

BalSample(count) ==
  /\ balPhase = "up" /\ balPass < MaxBalance
  /\ balPhase' = "down"
  /\ balPass' = balPass + 1
  /\ \E app \in [BalCores -> BOOLEAN], network \in SUBSET BalCores :
       hints' = [c \in BalCores |-> [app |-> app[c], sampled |-> TRUE,
                                     network |-> IF c \in network THEN Min({NetworkLength, hints[c].network + 1}) ELSE 0]]
  /\ CASE EpochsDone(count) /\ Early ->
            epochs' = [epochs EXCEPT !.wait = @ + 1] /\ UNCHANGED <<measured, detector>>
       [] EpochsDone(count) /\ ~Early ->
            /\ epochs' = [count |-> count, time |-> balPass, wait |-> EpochWait, handle |-> TRUE]
            /\ measured' \in MeasuredTimes(epochs.time = NoTime)
            /\ detector' \in Detected
       [] OTHER -> epochs' = [epochs EXCEPT !.count = IF @ = NoTime THEN count ELSE @] /\ UNCHANGED <<measured, detector>>
  /\ UNCHANGED <<ctl, settings, target>>

\* The first pass only sets everything to the highest.
BalInit ==
  /\ ctl = [c \in BalCores |-> BalMax]
  /\ detector = [c \in BalCores |-> [low |-> Max(LowPriority), limits |-> <<<<PerPackage, BalMax>>>>]]
  /\ hints = [c \in BalCores |-> [app |-> FALSE, sampled |-> FALSE, network |-> 0]]
  /\ epochs = [count |-> NoTime, time |-> NoTime, wait |-> EpochWait, handle |-> FALSE]
  /\ measured = [times |-> [c \in BalCores |-> NoTime], achieved |-> [c \in BalCores |-> BalMax]]
  /\ settings = [freq |-> [c \in BalCores |-> BalMax], clos |-> [c \in BalCores |-> "high"], balanced |-> FALSE]
  /\ target = [p \in 1..NumPackages |-> Exactly(NoTime)]
  /\ balPhase = "up"
  /\ balPass = 0

\* EPOCH_COUNT never goes back; there have been as many as are waited for, or fewer.
BalNext ==
  \/ BalAdjust
  \/ \E more \in {0, epochs.wait} : BalSample(Max({0, epochs.count}) + more)

----------------------------------------------------------------------------
(* Properties *)

\* The type invariant.
BalTypeOK ==
  /\ \A c \in BalCores : ctl[c] \in BalMin..BalMax
  /\ epochs.handle \in BOOLEAN
  /\ balPhase \in {"down", "up"}
  /\ balPass \in 0..MaxBalance

\* A balance that finds a core without a limit in a package leaves one there, or one
\* limited by a single step, when rounding takes that off; a balance that finds none
\* frees all.  So whatever is measured and however often it is balanced, every
\* second balance has something to compare with (get_balanced_frequencies()).
UnlimitedAgain ==
  [][epochs.handle /\ ~epochs'.handle =>
       \A p \in 1..NumPackages :
         IF \E c \in Package(p) : ctl[c] = BalMax THEN \E c \in Package(p) : ctl'[c] >= BalMax - BalStep
         ELSE \A c \in Package(p) : ctl'[c] = BalMax]_balVars

\* Every balance leaves a core of a package without a limit.
OneUnlimited == \A p \in 1..NumPackages : \E c \in Package(p) : ctl[c] = BalMax

\* A core that is slowed down by a balance is predicted to finish its work within
\* the time that was aimed at, or within one step of the frequency for it, which
\* is at most what the slowest of those without a limit took.
SlowedInTime ==
  balPhase = "up" /\ settings.balanced =>
    \A p \in 1..NumPackages, c \in BalCores :
      c \in Package(p) /\ ctl[c] < BalMax /\ measured.times[c] # NoTime /\ target[p][1] > 0
        => measured.times[c] * measured.achieved[c] * target[p][2] <= (ctl[c] + BalStep) * target[p][1]

\* A core that waits for the network or is not the application's has its low priority
\* frequency, unless its package has no other fast core.
WaitingLow ==
  balPhase = "up" => \A c \in BalCores :
    hints[c].sampled /\ hints[c].network >= NetworkLength => settings.freq[c] = detector[c].low

\* The CLOS says which cores need more than the low priority frequency: not in a
\* pass that balances, where the loop over frequency_by_core ends after one package.
ClosMatches ==
  balPhase = "up" => \A c \in BalCores :
    settings.clos[c] = IF settings.freq[c] > detector[c].low THEN "high" ELSE "low"
=============================================================================
