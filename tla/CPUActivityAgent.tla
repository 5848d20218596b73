-------------------------- MODULE CPUActivityAgent --------------------------
(***************************************************************************)
(* CPUActivityAgent on one node, with the FrequencyGovernor it sets the    *)
(* core frequencies through.  In every pass of the controller a policy     *)
(* (CPU_PHI) arrives, the agent adjusts what has changed, PlatformIO       *)
(* writes the batch if the agent says so, and the signals are sampled.     *)
(*                                                                         *)
(* CPU_PHI and the scalability ratios are in quarters; frequencies are     *)
(* multiples of sixteen apart, so that no division leaves a remainder.     *)
(***************************************************************************)
EXTENDS Integers, FiniteSetsExt

CONSTANTS
  CpuCores, CpuPackages,  \* domains of the two kinds of control
  FreqMin, FreqMax,       \* CPU_FREQUENCY_MIN_AVAIL and _MAX_AVAIL
  FreqEfficient,          \* CONST_CONFIG::CPU_FREQUENCY_EFFICIENT_HIGH_INTENSITY
  UncoreMax,              \* CPU_UNCORE_FREQUENCY_MAX_CONTROL at start
  UncoreEfficient,        \* CONST_CONFIG::CPU_UNCORE_FREQUENCY_EFFICIENT_HIGH_INTENSITY
  MaxRate,                \* m_qm_max_rate: bandwidth at each uncore frequency, in quarters
  Phis,                   \* policies
  Scalabilities, Rates    \* what the signals may be, besides NAN

ASSUME CPUActivityAssumption ==
  /\ {FreqMin, FreqEfficient, FreqMax, UncoreEfficient, UncoreMax} \subseteq Nat
  /\ FreqMin <= FreqEfficient /\ FreqEfficient <= FreqMax
  /\ UncoreEfficient <= UncoreMax
  /\ IsFiniteSet(DOMAIN MaxRate) /\ DOMAIN MaxRate # {}
  /\ \A f \in DOMAIN MaxRate : f \in Nat /\ MaxRate[f] \in Nat \ {0}
  /\ Phis \subseteq 0..4
  /\ Scalabilities \subseteq Nat /\ Rates \subseteq Nat

VARIABLES
  governor,  \* m_freq_min, m_freq_max and m_last_freq of FrequencyGovernorImp
  uncoreLast, \* last_setting of the uncore controls
  cpuPending, \* what adjust() left in the batch
  cpuHardware, \* what write_batch() wrote
  cpuSignals, \* the samples of the latest sample_platform()
  cpuPhase,  \* the part of the pass that is next, or "dead" after an exception
  cpuPhi     \* the policy of the latest pass

CpuNan == -1

cpuVars == <<governor, uncoreLast, cpuPending, cpuHardware, cpuSignals, cpuPhase, cpuPhi>>

----------------------------------------------------------------------------
(* What a policy asks for *)

\* CPU_PHI above one half brings the maximum down to the efficient frequency,
\* CPU_PHI below brings the efficient frequency up.
Resolved(efficient, max, phi) ==
  LET range == max - efficient
  IN [low |-> IF phi < 2 THEN Min({max, efficient + (range * (2 - phi)) \div 2}) ELSE efficient,
      high |-> IF phi > 2 THEN Max({efficient, max - (range * (phi - 2)) \div 2}) ELSE max]

\* FrequencyGovernorImp::validate_policy(): the bounds it has had so far count.
CpuValidated(g, r) == [low |-> Max({r.low, g.min}), high |-> Min({r.high, g.max})]

\* The last entry of m_qm_max_rate that is not above the frequency, or the first;
\* NAN is above all of them.
RateAt(freq) ==
  LET known == DOMAIN MaxRate
      below == IF freq = CpuNan THEN known ELSE {f \in known : f <= freq}
  IN MaxRate[IF below = {} THEN Min(known) ELSE Max(below)]

\* A request, range * rate / maximum above the lower end and clamped.
UncoreRequest(r, s) ==
  LET range == r.high - r.low
      above == IF s.rate = CpuNan THEN range ELSE (range * s.rate) \div RateAt(s.uncore)
  IN Min({r.high, Max({r.low, r.low + above})})

CoreRequest(r, scalability) ==
  r.low + ((r.high - r.low) * (IF scalability = CpuNan THEN 4 ELSE scalability)) \div 4

\* Clamped() is what FrequencyGovernorImp::adjust_platform() sets.
Clamped(g, f) == Min({g.max, Max({g.min, f})})

----------------------------------------------------------------------------
(* One pass *)

\* (bug) Only the uncore controls decide whether the batch is written.
DoWriteCpuUncore(core, uncore) == uncore

DoWriteCpu(core, uncore) == core \/ uncore

\* walk_down(): adjust_platform() and write_batch().  set_frequency_bounds()
\* throws when the bounds cross.
CpuAdjust(phi) ==
  LET bounds == CpuValidated(governor, Resolved(FreqEfficient, FreqMax, phi))
      uncore == Resolved(UncoreEfficient, UncoreMax, phi)
      bounded == [governor EXCEPT !.min = bounds.low, !.max = bounds.high]
      request == [c \in CpuCores |-> CoreRequest(bounds, cpuSignals.core[c])]
      actual == [c \in CpuCores |-> Clamped(bounded, request[c])]
      wanted == [p \in CpuPackages |-> UncoreRequest(uncore, cpuSignals.package[p])]
      batch == [core |-> actual,
                uncore |-> [p \in CpuPackages |-> IF wanted[p] # uncoreLast[p] THEN wanted[p] ELSE cpuPending.uncore[p]]]
  IN /\ cpuPhase = "down"
     /\ cpuPhi' = phi
     /\ IF bounds.low > bounds.high
          THEN cpuPhase' = "dead" /\ UNCHANGED <<governor, uncoreLast, cpuPending, cpuHardware>>
          ELSE /\ cpuPhase' = "up"
               /\ governor' = [bounded EXCEPT !.last = actual]
               /\ uncoreLast' = wanted
               /\ cpuPending' = batch
               /\ cpuHardware' = IF DoWriteCpu(governor.last # request, uncoreLast # wanted) THEN batch ELSE cpuHardware
     /\ UNCHANGED cpuSignals

\* walk_up(): read_batch() and sample_platform().
CpuSample ==
  /\ cpuPhase = "up"
  /\ cpuPhase' = "down"
  /\ \E core \in [CpuCores -> Scalabilities \union {CpuNan}], rate \in [CpuPackages -> Rates \union {CpuNan}] :
       cpuSignals' = [core |-> core,
                      package |-> [p \in CpuPackages |-> [uncore |-> cpuHardware.uncore[p], rate |-> rate[p]]]]
  /\ UNCHANGED <<governor, uncoreLast, cpuPending, cpuHardware, cpuPhi>>

\* init(): what the controls were set to before.
CpuInit ==
  /\ governor = [min |-> FreqMin, max |-> FreqMax, last |-> [c \in CpuCores |-> CpuNan]]
  /\ uncoreLast = [p \in CpuPackages |-> CpuNan]
  /\ cpuPending = [core |-> [c \in CpuCores |-> CpuNan], uncore |-> [p \in CpuPackages |-> CpuNan]]
  /\ cpuHardware = [core |-> [c \in CpuCores |-> FreqMax], uncore |-> [p \in CpuPackages |-> UncoreMax]]
  /\ cpuSignals = [core |-> [c \in CpuCores |-> CpuNan],
                   package |-> [p \in CpuPackages |-> [uncore |-> CpuNan, rate |-> CpuNan]]]
  /\ cpuPhase = "down"
  /\ cpuPhi = 2

CpuNext == (\E phi \in Phis : CpuAdjust(phi)) \/ CpuSample

CpuSpec == CpuInit /\ [][CpuNext]_cpuVars

----------------------------------------------------------------------------
(* Properties *)

\* The type invariant.
CpuTypeOK ==
  /\ governor.min \in Int /\ governor.max \in Int /\ DOMAIN governor.last = CpuCores
  /\ DOMAIN cpuHardware.core = CpuCores /\ DOMAIN cpuHardware.uncore = CpuPackages
  /\ cpuPhase \in {"down", "up", "dead"}
  /\ cpuPhi \in Phis \union {2}

\* After each pass the hardware has what the samples and the bounds ask for now, on
\* every core and every package, although a pass only adjusts and writes what
\* differs from what it asked for before (FrequencyGovernorImp::adjust_platform(),
\* last_setting) and the policy may have changed in between.
CpuFollows ==
  cpuPhase = "up" =>
    /\ \A c \in CpuCores :
         cpuHardware.core[c] = CoreRequest([low |-> governor.min, high |-> governor.max], cpuSignals.core[c])
    /\ \A p \in CpuPackages :
         cpuHardware.uncore[p] = UncoreRequest(Resolved(UncoreEfficient, UncoreMax, cpuPhi), cpuSignals.package[p])

\* The core bounds are those of the policy: not so after another policy, because
\* validate_policy() clamps to the bounds of before, which only ever get narrower.
BoundsFollow ==
  cpuPhase = "up" => [low |-> governor.min, high |-> governor.max] = Resolved(FreqEfficient, FreqMax, cpuPhi)

\* No policy that validate_policy() accepts ends the controller: CPU_PHI of 1 after
\* 0 does, the bounds of the two cross.
PolicySurvived == cpuPhase # "dead"

\* A core is never above what the bounds allow: with a scalability above one the
\* request is clamped after it was compared, and is adjusted but not written.
CoresBounded == cpuPhase = "up" => \A c \in CpuCores : cpuHardware.core[c] <= governor.max
=============================================================================
