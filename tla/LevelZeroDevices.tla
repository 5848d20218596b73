-------------------------- MODULE LevelZeroDevices --------------------------
(***************************************************************************)
(* How LevelZeroImp finds the GPUs and the handles of their chips, how     *)
(* LevelZeroDevicePool turns the index of a chip into a device and a place *)
(* in its list of handles, and how LevelZeroIOGroup decides which of its   *)
(* signals and controls this node has.                                     *)
(*                                                                         *)
(* What the driver reports is arbitrary within the ways below.  A handle   *)
(* is the chip it belongs to, DeviceLevel if it belongs to the whole GPU.  *)
(* Signals that the same function of the device pool reads are one signal. *)
(***************************************************************************)
EXTENDS Integers, Sequences, FiniteSetsExt, SequencesExt

CONSTANTS
  MaxGpu,      \* GPUs of the node
  MaxSub,      \* subdevices of a GPU
  MaxOdd,      \* features that the driver does not report in full
  Factors      \* settings of the performance factor

ASSUME LzDevAssumption == MaxGpu \in Nat \ {0} /\ MaxSub \in Nat /\ MaxOdd \in Nat /\ Factors # {}

VARIABLES
  lzHw,        \* subdevices of each GPU, and how the driver reports each feature
  lzPhase,       \* how far the constructors are, "ready", or how they ended
  lzCache,       \* per feature and GPU: was the list sized, and the handles in it
  sigNames,    \* m_signal_available
  ctlNames,    \* m_control_available
  perf,        \* per chip: the performance factor
  perfSaved    \* m_perf_factor

lzDevVars == <<lzHw, lzPhase, lzCache, sigNames, ctlNames, perf, perfSaved>>

DeviceLevel == -1
LzFeatures == {"frequency", "power", "perf", "engine", "temperature", "ras", "metric"}
Reports == {"full", "none", "short", "reversed", "device", "unsupported"}

LzGpus == 0..Len(lzHw.subs) - 1
Subs(d) == lzHw.subs[d + 1]

\* The handles that the driver enumerates for a feature of a GPU.
Reported(f, d) ==
  LET chips == [k \in 1..Subs(d) |-> k - 1]
      how == lzHw.report[f]
      onChips == CASE how \in {"none", "device"} -> <<>>
                   [] how = "short" /\ d = Len(lzHw.subs) - 1 -> SubSeq(chips, 1, Subs(d) - 1)
                   [] how = "reversed" -> Reverse(chips)
                   [] OTHER -> chips
      whole == IF how = "device" \/ (how \notin {"none", "unsupported"} /\ (f = "power" \/ Subs(d) = 0))
                 THEN <<DeviceLevel>> ELSE <<>>
  IN whole \o onChips

IsUnsupported(f) == lzHw.report[f] = "unsupported"
OnChip(h) == h # DeviceLevel

----------------------------------------------------------------------------
(* LevelZeroImp() *)

NumGpu == Len(lzHw.subs)

\* A GPU without subdevices counts as one chip.
NumChip == FoldSeq(LAMBDA n, sum : sum + (IF n = 0 THEN 1 ELSE n), 0, lzHw.subs)

IsEven == NumChip % NumGpu = 0 /\ \A d \in LzGpus : Subs(d) = Subs(0)

NoHandles == [sized |-> FALSE, list |-> <<>>]

FrequencyDomainCache(d) ==
  IF IsUnsupported("frequency") THEN NoHandles
  ELSE [sized |-> TRUE, list |-> SelectSeq(Reported("frequency", d), LAMBDA h : OnChip(h) \/ Subs(d) = 0)]

\* One handle of the whole GPU is required and kept apart.
PowerFails(d) ==
  /\ ~IsUnsupported("power")
  /\ \/ Cardinality({k \in DOMAIN Reported("power", d) : Reported("power", d)[k] = DeviceLevel}) # 1
     \/ Len(SelectSeq(Reported("power", d), OnChip)) > Subs(d)

PowerDomainCache(d) ==
  IF IsUnsupported("power") THEN NoHandles ELSE [sized |-> TRUE, list |-> SelectSeq(Reported("power", d), OnChip)]

PerfDomainCache(d) ==
  IF IsUnsupported("perf") THEN NoHandles ELSE [sized |-> TRUE, list |-> SelectSeq(Reported("perf", d), OnChip)]

EngineDomainCache(d) ==
  IF IsUnsupported("engine") THEN NoHandles
  ELSE [sized |-> TRUE, list |-> SelectSeq(Reported("engine", d), LAMBDA h : OnChip(h) \/ Subs(d) = 0)]

TemperatureDomainCache(d) ==
  IF IsUnsupported("temperature") THEN NoHandles
  ELSE [sized |-> TRUE, list |-> SelectSeq(Reported("temperature", d), OnChip)]

\* Error sets are stored by the number of their chip; all must be there, also where
\* the driver does not support them.
ErrorSets(d) == IF IsUnsupported("ras") THEN <<>> ELSE Reported("ras", d)

RasFails(d) == Len(SelectSeq(ErrorSets(d), OnChip)) # Subs(d)

RasDomainCache(d) ==
  [sized |-> ErrorSets(d) # <<>>, list |-> SortSeq(SelectSeq(ErrorSets(d), OnChip), <)]

\* Chips without the metric group are left uncached; a failure is caught.
MetricGroupInit(d) == [sized |-> ~IsUnsupported("metric"), list |-> SelectSeq(Reported("metric", d), OnChip)]

LzCached(f, d) ==
  CASE f = "frequency" -> FrequencyDomainCache(d)
    [] f = "power" -> PowerDomainCache(d)
    [] f = "perf" -> PerfDomainCache(d)
    [] f = "engine" -> EngineDomainCache(d)
    [] f = "temperature" -> TemperatureDomainCache(d)
    [] f = "ras" -> RasDomainCache(d)
    [] f = "metric" -> MetricGroupInit(d)

LzDevInit ==
  /\ \E n \in 1..MaxGpu : \E subs \in [1..n -> 0..MaxSub] :
     \E odd \in UNION {kSubset(k, LzFeatures) : k \in 0..MaxOdd} : \E how \in [odd -> Reports \ {"full"}] :
         lzHw = [subs |-> subs, report |-> [f \in LzFeatures |-> IF f \in odd THEN how[f] ELSE "full"]]
  /\ lzPhase = "new"
  /\ lzCache = [f \in LzFeatures |-> [d \in LzGpus |-> NoHandles]]
  /\ sigNames = {} /\ ctlNames = {}
  /\ perf \in {[i \in 0..NumChip - 1 |-> v] : v \in Factors}
  /\ perfSaved = perf

FindDevices ==
  /\ lzPhase = "new"
  /\ IF IsEven /\ \A d \in LzGpus : ~PowerFails(d) /\ ~RasFails(d)
       THEN /\ lzPhase' = "found"
            /\ lzCache' = [f \in LzFeatures |-> [d \in LzGpus |-> LzCached(f, d)]]
       ELSE lzPhase' = "refused" /\ UNCHANGED lzCache
  /\ UNCHANGED <<lzHw, sigNames, ctlNames, perf, perfSaved>>

----------------------------------------------------------------------------
(* LevelZeroDevicePool: what reading gives is a chip, nothing, a             *)
(* geopm::Exception, or the std::out_of_range of a vector.                   *)

FromHandle(d, h) == <<"ok", d, h>>
NoReading == <<"zero">>
Denied == <<"exception">>
OutOfRange == <<"out_of_range">>

\* (bug) Neighbouring chips are taken to be on different GPUs.
ConvertIndexInterleaved(i) == <<i % NumGpu, i \div NumGpu>>

ConvertIndex(i) == LET each == NumChip \div NumGpu IN <<i \div each, i % each>>

\* at() in the list of a GPU.
HandleAt(d, list, k) == IF k < Len(list) THEN FromHandle(d, list[k + 1]) ELSE OutOfRange

\* The list of a feature that is not supported was never sized.
FromList(f, i) ==
  LET e == lzCache[f][ConvertIndex(i)[1]]
  IN IF ~e.sized THEN OutOfRange
     ELSE IF e.list = <<>> THEN Denied
     ELSE HandleAt(ConvertIndex(i)[1], e.list, ConvertIndex(i)[2])

ReadFrequency(i) == FromList("frequency", i)
ReadTemperature(i) == FromList("temperature", i)
ReadActiveTime(i) == FromList("engine", i)
ReadPerformanceFactor(i) == FromList("perf", i)

ReadPowerLimit(d) == IF IsUnsupported("power") THEN NoReading ELSE FromHandle(d, DeviceLevel)
ReadGpuEnergy(d) == IF IsUnsupported("power") THEN NoReading ELSE FromHandle(d, DeviceLevel)
ReadGpuEnergyTimestamp(d) == IF IsUnsupported("power") THEN Denied ELSE FromHandle(d, DeviceLevel)

\* energy_pair() compares the count with >= before it takes the handle.
ReadCoreEnergy(i) ==
  LET d == ConvertIndex(i)[1]
      list == lzCache["power"][d].list
  IN IF list = <<>> THEN Denied
     ELSE IF Len(list) >= ConvertIndex(i)[2] THEN HandleAt(d, list, ConvertIndex(i)[2])
     ELSE NoReading

ReadCoreEnergyTimestamp(i) ==
  LET d == ConvertIndex(i)[1]
      list == lzCache["power"][d].list
  IN IF list = <<>> THEN Denied ELSE HandleAt(d, list, ConvertIndex(i)[2])

ReadRas(i) ==
  LET e == lzCache["ras"][ConvertIndex(i)[1]]
  IN IF ~e.sized THEN Denied ELSE HandleAt(ConvertIndex(i)[1], e.list, ConvertIndex(i)[2])

\* The error sets of the two kinds are cached together.
ReadRasCorrectable(i) == ReadRas(i)
ReadRasUncorrectable(i) == ReadRas(i)

ReadMetric(i) ==
  LET d == ConvertIndex(i)[1]
  IN IF Contains(lzCache["metric"][d].list, ConvertIndex(i)[2]) THEN FromHandle(d, ConvertIndex(i)[2]) ELSE Denied

----------------------------------------------------------------------------
(* LevelZeroIOGroup(): the table of signals by the domain they have *)

NativeDomain == IF NumGpu = NumChip THEN "gpu" ELSE "chip"

FrequencySignals == {"CORE_FREQUENCY", "FREQUENCY_CONTROL"}
EnergySignals == {"CORE_ENERGY", "CORE_ENERGY_TIMESTAMP", "GPU_ENERGY", "GPU_ENERGY_TIMESTAMP"}
UncoreSignals == {"UNCORE_FREQUENCY"}
PowerLimitSignals == {"POWER_LIMIT"}
ActiveTimeSignals == {"ACTIVE_TIME", "ACTIVE_TIME_TIMESTAMP"}
FactorSignals == {"PERFORMANCE_FACTOR", "TEMPERATURE"}
RasSignals == {"RAS_CORRECTABLE"}
RasUncorrectableSignals == {"RAS_UNCORRECTABLE"}
MetricSignals == {"METRIC"}

LzSignals ==
  FrequencySignals \union EnergySignals \union UncoreSignals \union PowerLimitSignals \union ActiveTimeSignals
    \union FactorSignals \union RasSignals \union RasUncorrectableSignals \union MetricSignals

LzControls == {"FREQUENCY_CONTROL", "PERFORMANCE_FACTOR_CONTROL"}

\* m_derivative_signal_map
DerivedFrom == [GPU_POWER |-> {"GPU_ENERGY", "GPU_ENERGY_TIMESTAMP"},
                CORE_POWER |-> {"CORE_ENERGY", "CORE_ENERGY_TIMESTAMP"},
                UTILIZATION |-> {"ACTIVE_TIME", "ACTIVE_TIME_TIMESTAMP"}]

\* The names without prefix, and the signal that goes with a control.
AliasOf == [ALIAS_FREQUENCY |-> "CORE_FREQUENCY", ALIAS_POWER |-> "GPU_POWER", ALIAS_CORE_POWER |-> "CORE_POWER",
            ALIAS_UTILIZATION |-> "UTILIZATION",
            PERFORMANCE_FACTOR_CONTROL |-> "PERFORMANCE_FACTOR"]

SourceOf(c) == IF c \in DOMAIN AliasOf THEN AliasOf[c] ELSE c

SignalDomain(s) ==
  CASE s \in {"GPU_ENERGY", "GPU_ENERGY_TIMESTAMP", "POWER_LIMIT"} -> "gpu"
    [] s \in {"CORE_ENERGY", "CORE_ENERGY_TIMESTAMP", "PERFORMANCE_FACTOR"} -> NativeDomain
    [] OTHER -> "chip"

IndicesOf(dom) == IF dom = "gpu" THEN LzGpus ELSE 0..NumChip - 1

ReadOf(s, i) ==
  CASE s \in FrequencySignals \union UncoreSignals -> ReadFrequency(i)
    [] s = "CORE_ENERGY" -> ReadCoreEnergy(i)
    [] s = "CORE_ENERGY_TIMESTAMP" -> ReadCoreEnergyTimestamp(i)
    [] s = "GPU_ENERGY" -> ReadGpuEnergy(i)
    [] s = "GPU_ENERGY_TIMESTAMP" -> ReadGpuEnergyTimestamp(i)
    [] s = "POWER_LIMIT" -> ReadPowerLimit(i)
    [] s \in ActiveTimeSignals -> ReadActiveTime(i)
    [] s = "PERFORMANCE_FACTOR" -> ReadPerformanceFactor(i)
    [] s = "TEMPERATURE" -> ReadTemperature(i)
    [] s \in RasSignals -> ReadRasCorrectable(i)
    [] s \in RasUncorrectableSignals -> ReadRasUncorrectable(i)
    [] s = "METRIC" -> ReadMetric(i)

\* A signal is tried on chip 0, a metric on all, the slow counters on none.
Tried(s) ==
  CASE s \in RasSignals \union RasUncorrectableSignals -> {}
    [] s \in MetricSignals -> IndicesOf("chip")
    [] OTHER -> {0}

IsPruned(s) == \E i \in Tried(s) : ReadOf(s, i) = Denied

PopulateTables ==
  /\ lzPhase = "found"
  /\ IF \E s \in LzSignals : \E i \in Tried(s) : ReadOf(s, i) = OutOfRange
       THEN lzPhase' = "crashed" /\ UNCHANGED <<sigNames, ctlNames>>
       ELSE \E pruned \in {{s \in LzSignals : IsPruned(s)}} :
            LET kept == LzSignals \ pruned
                derived == {s \in DOMAIN DerivedFrom : DerivedFrom[s] \subseteq kept}
                alias == {s \in DOMAIN AliasOf : AliasOf[s] \in kept \union derived}
            IN /\ lzPhase' = "signals"
               /\ sigNames' = kept \union derived \union alias
               /\ ctlNames' = LzControls \ pruned
  /\ UNCHANGED <<lzHw, lzCache, perf, perfSaved>>

----------------------------------------------------------------------------
(* save_control(), restore_control() and the check of the controls *)

IsPerfEnabled == ReadPerformanceFactor(0)[1] = "ok"

\* The frequency range and the factor of every chip.
SaveReads ==
  {ReadFrequency(i) : i \in IndicesOf("chip")}
    \union (IF IsPerfEnabled THEN {ReadPerformanceFactor(i) : i \in IndicesOf("chip")} ELSE {})

ChipOf(r) == r[2] * (NumChip \div NumGpu) + (IF r[3] = DeviceLevel THEN 0 ELSE r[3])

SavedFactors ==
  [i \in DOMAIN perf |-> IF IsPerfEnabled THEN perf[ChipOf(ReadPerformanceFactor(i))] ELSE perfSaved[i]]

\* performance_factor_control() of the device pool accepts the domain of chips only.
FactorRestored(i) == perfSaved[CHOOSE k \in DOMAIN perf : ChipOf(ReadPerformanceFactor(k)) = i]

FactorRestorable == IsPerfEnabled /\ NativeDomain = "chip"

AfterRestore == IF FactorRestorable THEN [i \in DOMAIN perf |-> FactorRestored(i)] ELSE perf

\* Each control is written with what its signal reads, where both have the same domain.
CheckControls ==
  /\ lzPhase = "signals"
  /\ \E reads \in {SaveReads} :
     IF OutOfRange \in reads THEN lzPhase' = "crashed" /\ UNCHANGED <<ctlNames, perfSaved>>
     ELSE IF Denied \in reads THEN lzPhase' = "refused" /\ UNCHANGED <<ctlNames, perfSaved>>
     ELSE /\ lzPhase' = "ready"
          /\ perfSaved' = SavedFactors
          /\ ctlNames' = {c \in ctlNames :
                            c \in sigNames /\ SignalDomain(SourceOf(c)) = "chip" =>
                              \A i \in IndicesOf("chip") : ReadOf(SourceOf(c), i)[1] = "ok"}
  /\ UNCHANGED <<lzHw, lzCache, sigNames, perf>>

WriteFactor(i, v) ==
  /\ lzPhase = "ready" /\ "PERFORMANCE_FACTOR_CONTROL" \in ctlNames
  /\ ReadPerformanceFactor(i)[1] = "ok"
  /\ perf' = [perf EXCEPT ![ChipOf(ReadPerformanceFactor(i))] = v]
  /\ UNCHANGED <<lzHw, lzPhase, lzCache, sigNames, ctlNames, perfSaved>>

SaveFactors ==
  /\ lzPhase = "ready" /\ IsPerfEnabled
  /\ perfSaved' = SavedFactors
  /\ UNCHANGED <<lzHw, lzPhase, lzCache, sigNames, ctlNames, perf>>

RestoreFactors ==
  /\ lzPhase = "ready" /\ IsPerfEnabled
  /\ perf' = AfterRestore
  /\ UNCHANGED <<lzHw, lzPhase, lzCache, sigNames, ctlNames, perfSaved>>

LzDevNext ==
  \/ FindDevices \/ PopulateTables \/ CheckControls \/ SaveFactors \/ RestoreFactors
  \/ \E i \in DOMAIN perf, v \in Factors : WriteFactor(i, v)

LzDevSpec == LzDevInit /\ [][LzDevNext]_lzDevVars

----------------------------------------------------------------------------
(* Properties *)

\* The type invariant.
LzDevTypeOK ==
  /\ lzPhase \in {"new", "found", "signals", "ready", "refused", "crashed"}
  /\ sigNames \subseteq LzSignals \union DOMAIN DerivedFrom \union DOMAIN AliasOf
  /\ ctlNames \subseteq LzControls
  /\ perf \in [0..NumChip - 1 -> Factors] /\ perfSaved \in [0..NumChip - 1 -> Factors]

IndexOf(s, r) == IF s \in {"GPU_ENERGY", "GPU_ENERGY_TIMESTAMP", "POWER_LIMIT"} THEN r[2] ELSE ChipOf(r)

FeatureOf(s) ==
  CASE s \in FrequencySignals \union UncoreSignals -> "frequency"
    [] s \in EnergySignals \union PowerLimitSignals -> "power"
    [] s \in ActiveTimeSignals -> "engine"
    [] s = "PERFORMANCE_FACTOR" -> "perf"
    [] s = "TEMPERATURE" -> "temperature"
    [] s = "METRIC" -> "metric"
    [] OTHER -> "ras"

\* Whatever a signal reads for an index comes from the GPU or chip with that index,
\* where the driver enumerates handles in the order of the chips; error counters do
\* not depend on that order (index conversion of LevelZeroDevicePool over the lists
\* that LevelZeroImp filled).
ReadsOwnChip ==
  lzPhase = "ready" =>
    \A s \in sigNames \intersect LzSignals : \A i \in IndicesOf(SignalDomain(s)) :
      ReadOf(s, i)[1] = "ok" /\ (lzHw.report[FeatureOf(s)] # "reversed" \/ FeatureOf(s) = "ras")
        => IndexOf(s, ReadOf(s, i)) = i

\* ReadsOwnChip whatever the order of the driver: not so, lists are filled as they come.
ReadsOwnChipAlways ==
  lzPhase = "ready" =>
    \A s \in sigNames \intersect LzSignals : \A i \in IndicesOf(SignalDomain(s)) :
      ReadOf(s, i)[1] = "ok" => IndexOf(s, ReadOf(s, i)) = i

\* What is derived or renamed has what it comes from: the table is pruned before.
SourcesAvailable ==
  /\ \A s \in sigNames \intersect DOMAIN DerivedFrom : DerivedFrom[s] \subseteq sigNames
  /\ \A s \in sigNames \intersect DOMAIN AliasOf : AliasOf[s] \in sigNames

HasSaved(factors) == \A i \in DOMAIN factors : factors[ChipOf(ReadPerformanceFactor(i))] = perfSaved[i]

\* A restore brings back the factors that were saved, where GPUs have several chips.
FactorsRestored == lzPhase = "ready" /\ FactorRestorable => HasSaved(AfterRestore)

\* FactorsRestored on every node: not so where each GPU is one chip, because the
\* restore passes the native domain on.
FactorsRestoredAlways == lzPhase = "ready" /\ IsPerfEnabled => HasSaved(AfterRestore)

\* A feature that the driver does not support costs its own signals and nothing else:
\* not so.
FeaturesOptional ==
  IsEven /\ (\A f \in LzFeatures : lzHw.report[f] \in {"full", "unsupported"})
    => lzPhase \notin {"refused", "crashed"}

\* A control that is offered can be written: not so for the performance factor.
ControlsWork ==
  lzPhase = "ready" => \A c \in ctlNames : \A i \in IndicesOf("chip") : ReadOf(SourceOf(c), i)[1] = "ok"

\* Reading a signal that is offered gives a value or a geopm::Exception: not so for the
\* error counters of a GPU without subdevices.
ReadsDefined ==
  lzPhase = "ready" =>
    \A s \in sigNames \intersect LzSignals : \A i \in IndicesOf(SignalDomain(s)) : ReadOf(s, i) # OutOfRange
=============================================================================
