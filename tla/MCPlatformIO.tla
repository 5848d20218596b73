---------------------------- MODULE MCPlatformIO ----------------------------
(* PlatformIO over its IOGroups, how each of these reads its signals, the two    *)
(* threads of the metrics of one of them, and agents that write through it, each *)
(* on its own with its sampled signals as input: object says which of them TLC   *)
(* looks at.  They share nothing.                                                *)
EXTENDS PlatformIO, LevelZeroMetrics, FrequencyMapAgent, GPUActivityAgent, FrequencyBalancerAgent, SignalGroups, LevelZeroDevices, TLC

VARIABLE object

\* The IOGroup registered first has another native domain and is no fallback.
MCNative == [g \in 1..NumGroup |-> IF g + 2 <= NumGroup THEN "board" ELSE "part"]

\* A root controller with another one below it.
MCFan == <<2>>

\* Turbo limits by the number of cores of high priority.
MCHigh == [l \in LowPriority |-> <<<<1, 6>>, <<2, 4>>>>]

\* The chips are treated alike.
ChipSymmetry == Permutations(Chips)

MCInit ==
  /\ object \in {"pio", "metrics", "map", "gpu", "balancer", "signals", "devices"}
  /\ IF object = "devices" THEN TRUE ELSE lzHw = [subs |-> <<0>>, report |-> [f \in LzFeatures |-> "full"]]
  /\ LzDevInit
  /\ object # "devices" => perf[0] = 1
  /\ IF object = "signals" THEN TRUE ELSE sigGroup = "TIME"
  /\ SignalInit
  /\ IF object = "pio" THEN TRUE
     ELSE /\ caller = "batch"
          /\ access = [g \in Groups |-> [p \in Parts |-> "ok"]]
          /\ platform = [p \in Parts |-> Max(Levels)]
  /\ Init
  /\ MetricsInit
  /\ MapInit
  /\ GpuActInit
  /\ BalInit

MCNext ==
  \/ object = "pio" /\ Next /\ UNCHANGED <<lzVars, mapVars, gpuActVars, balVars, sigVars, lzDevVars>>
  \/ object = "metrics" /\ MetricsNext /\ UNCHANGED <<pioVars, mapVars, gpuActVars, balVars, sigVars, lzDevVars>>
  \/ object = "map" /\ MapNext /\ UNCHANGED <<pioVars, lzVars, gpuActVars, balVars, sigVars, lzDevVars>>
  \/ object = "gpu" /\ GpuActNext /\ UNCHANGED <<pioVars, lzVars, mapVars, balVars, sigVars, lzDevVars>>
  \/ object = "balancer" /\ BalNext /\ UNCHANGED <<pioVars, lzVars, mapVars, gpuActVars, sigVars, lzDevVars>>
  \/ object = "signals" /\ SignalNext /\ UNCHANGED <<pioVars, lzVars, mapVars, gpuActVars, balVars, lzDevVars>>
  \/ object = "devices" /\ LzDevNext /\ UNCHANGED <<pioVars, lzVars, mapVars, gpuActVars, balVars, sigVars>>

MCSpec == MCInit /\ [][MCNext /\ UNCHANGED object]_<<object, pioVars, lzVars, mapVars, gpuActVars, balVars, sigVars, lzDevVars>>
=============================================================================
