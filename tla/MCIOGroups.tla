----------------------------- MODULE MCIOGroups -----------------------------
(* The IOGroups share nothing, so TLC looks at one at a time: object says which, *)
(* and the others keep one of their initial states.                             *)
EXTENDS MSRIOGroup, MSRSignal, SysfsIOGroup, SSTIOGroup, GPUControls

VARIABLE object

\* A field in each of two registers, and two fields of one.
MCSst == {<<1, "priority">>, <<2, "priority">>}
MCSstShared == {<<1, "priority">>, <<1, "frequency">>}

Init ==
  /\ object \in {"msr", "signal", "sysfs", "sst", "gpu"}
  /\ MSRInit
  /\ object # "msr" => ~lockBit /\ saver = "memory" /\ msr["EN"] = 0 /\ msr["PL"] = 0
  /\ SignalInit
  /\ object # "signal" => rate = Max(Rates) /\ origin = 0
  /\ SysfsInit
  /\ object # "sysfs" => unreadable = {} /\ attr["min"] = Max(Freqs)
  /\ SstInit
  /\ object # "sst" => uses = "registers"
  /\ uses = "registers" => feature = [x \in Features |-> 0]
  /\ object # "sst" \/ uses = "features" => mmio = [r \in SstRegs |-> [f \in SstFields |-> {}]]
  /\ GpuInit
  /\ object # "gpu" => vendor = "nvml"

Next ==
  \/ object = "msr" /\ MSRNext /\ UNCHANGED <<object, sigVars, sysVars, sstVars, gpuVars>>
  \/ object = "signal" /\ SignalNext /\ UNCHANGED <<object, msrVars, sysVars, sstVars, gpuVars>>
  \/ object = "sysfs" /\ SysfsNext /\ UNCHANGED <<object, msrVars, sigVars, sstVars, gpuVars>>
  \/ object = "sst" /\ SstNext /\ UNCHANGED <<object, msrVars, sigVars, sysVars, gpuVars>>
  \/ object = "gpu" /\ GpuNext /\ UNCHANGED <<object, msrVars, sigVars, sysVars, sstVars>>

Spec == Init /\ [][Next]_<<object, msrVars, sigVars, sysVars, sstVars, gpuVars>>
=============================================================================
