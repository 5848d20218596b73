-------------------------- MODULE GPUActivityAgent --------------------------
(***************************************************************************)
(* GPUActivityAgent on one node with one GPU: the frequency it asks for    *)
(* each chip, which it sets only when it differs from the last one, the    *)
(* timer after which an idle chip gets the lowest frequency, and what the  *)
(* report says of the time and the energy of the GPU while it was active.  *)
(*                                                                         *)
(* GPU_PHI and the signals are in quarters.  The n-th sample is taken at   *)
(* TIME n and GPU_ENERGY 2^n; passes is what the agent does not keep.      *)
(***************************************************************************)
EXTENDS Integers, Sequences, FiniteSetsExt

CONSTANTS
  Units,           \* chips, of which 0 stands for the GPU in the report
  GpuMin, GpuMax,  \* GPU_CORE_FREQUENCY_MIN_AVAIL and _MAX_AVAIL
  GpuEfficient,    \* m_freq_gpu_efficient
  IdleTimer,       \* 10 in the code
  GpuPhis,         \* policies
  Activities, Stalls, Utilizations,  \* what the signals may be, besides NAN
  MaxPasses        \* bound: passes of the controller

ASSUME GPUActivityAssumption ==
  /\ 0 \in Units
  /\ GpuMin <= GpuEfficient /\ GpuEfficient <= GpuMax
  /\ IdleTimer \in Nat \ {0}
  /\ MaxPasses \in Nat

VARIABLES
  gpuSignals,  \* the samples of the latest sample_platform()
  gpuLast,     \* last_setting of the controls
  gpuHardware, \* what write_batch() wrote
  timer,       \* m_gpu_idle_timer
  region,      \* the active region and the on time of the report
  gpuPhase,    \* the part of the pass that is next
  passes       \* what was sampled and asked for in each pass, oldest first

gpuActVars == <<gpuSignals, gpuLast, gpuHardware, timer, region, gpuPhase, passes>>

GpuNan == -1
Now == Len(passes)
Energy(n) == 2 ^ n

\* m_freq_gpu_efficient and m_freq_gpu_max with the policy applied.
Bias(phi) ==
  LET range == GpuMax - GpuEfficient
  IN [low |-> IF phi < 2 THEN Min({GpuMax, GpuEfficient + (range * (2 - phi)) \div 2}) ELSE GpuEfficient,
      high |-> IF phi > 2 THEN Max({GpuEfficient, GpuMax - (range * (phi - 2)) \div 2}) ELSE GpuMax]

\* The activity that counts, as a share of the time the chip was used.
ActiveShare(s) ==
  LET activity == IF s.stall = GpuNan THEN s.activity * 4 ELSE s.activity * (4 - s.stall)
  IN IF s.util > 0 THEN activity \div s.util ELSE activity \div 4

FreqRequest(phi, s) ==
  LET b == Bias(phi)
      asked == IF s.activity = GpuNan THEN b.high ELSE b.low + ((b.high - b.low) * ActiveShare(s)) \div 4
  IN Max({b.low, Min({b.high, asked})})

ChipIdle(s) == s.util = 0

\* The timer counts while the policy does not favour performance.
TimerNext(t, phi, s) ==
  IF phi < 2 THEN t ELSE IF ChipIdle(s) THEN Max({0, t - 1}) ELSE IdleTimer

Request(phi, s, t) == IF phi >= 2 /\ t = 0 THEN GpuMin ELSE FreqRequest(phi, s)

----------------------------------------------------------------------------
(* The report *)

\* M_GPU_ACTIVITY_CUTOFF: whether the GPU is active, and whether that is known.
Active(s) == s.activity > 0
Known(s) == s.activity # GpuNan

Opened(r, n) == IF r.open THEN r ELSE [r EXCEPT !.open = TRUE, !.start = n]

Closed(r, n) == IF r.open THEN [r EXCEPT !.open = FALSE, !.stop = n - 1] ELSE r

\* m_prev_time is NAN until two samples were taken.
OnTime(r, n) ==
  IF n < 2 THEN r ELSE [r EXCEPT !.onTime = @ + 1, !.onEnergy = @ + Energy(n) - Energy(n - 1)]

Tracked(r, s, n) ==
  CASE ~Known(s) -> r
    [] Active(s) -> OnTime(Opened(r, n), n)
    [] OTHER -> Closed(r, n)

----------------------------------------------------------------------------
(* One pass *)

\* walk_down(): adjust_platform() and write_batch().
GpuAdjustPlatform(phi) ==
  LET left == [u \in Units |-> TimerNext(timer[u], phi, gpuSignals[u])]
      request == [u \in Units |-> Request(phi, gpuSignals[u], left[u])]
  IN /\ gpuPhase = "down"
     /\ Now < MaxPasses
     /\ gpuPhase' = "up"
     /\ timer' = left
     /\ region' = Tracked(region, gpuSignals[0], Now)
     /\ gpuLast' = request
     /\ gpuHardware' = IF request # gpuLast THEN [u \in Units |-> IF request[u] # gpuLast[u] THEN request[u] ELSE gpuHardware[u]]
                                            ELSE gpuHardware
     /\ passes' = Append(passes, [phi |-> phi, idle |-> [u \in Units |-> ChipIdle(gpuSignals[u])],
                                  known |-> Known(gpuSignals[0]), active |-> Active(gpuSignals[0])])
     /\ UNCHANGED gpuSignals

\* walk_up(): sample_platform().  Without LEVELZERO signals nothing is stalled.
GpuSample ==
  /\ gpuPhase = "up"
  /\ gpuPhase' = "down"
  /\ gpuSignals' \in [Units -> [activity : Activities \union {GpuNan}, stall : Stalls, util : Utilizations \union {GpuNan}]]
  /\ UNCHANGED <<gpuLast, gpuHardware, timer, region, passes>>

GpuActInit ==
  /\ gpuSignals = [u \in Units |-> [activity |-> GpuNan, stall |-> 0, util |-> GpuNan]]
  /\ gpuLast = [u \in Units |-> GpuNan]
  /\ gpuHardware = [u \in Units |-> GpuMax]
  /\ timer = [u \in Units |-> IdleTimer]
  /\ region = [open |-> FALSE, start |-> 0, stop |-> 0, onTime |-> 0, onEnergy |-> 0]
  /\ gpuPhase = "down"
  /\ passes = <<>>

GpuActNext == (\E phi \in GpuPhis : GpuAdjustPlatform(phi)) \/ GpuSample

----------------------------------------------------------------------------
(* Properties.  The k-th pass uses the sample k - 1; the first has none. *)

\* The type invariant.
GpuActTypeOK ==
  /\ \A u \in Units : timer[u] \in 0..IdleTimer /\ gpuHardware[u] \in Int
  /\ region.open \in BOOLEAN
  /\ gpuPhase \in {"down", "up"}
  /\ Len(passes) <= MaxPasses

\* The passes in which the timer counts, and whether the last of them were all idle.
Counting == SelectSeq(passes, LAMBDA p : p.phi >= 2)
IdleFor(u, n) == LET c == Counting IN Len(c) >= n /\ \A i \in Len(c) - n + 1..Len(c) : c[i].idle[u]

\* After a pass a chip has the lowest frequency if and only if it was idle in the last
\* passes that count, ten of them, and otherwise what its activity asks for
\* under the latest policy, although only what differs from the last request
\* is set (m_gpu_idle_timer, last_setting in adjust_platform()).
ChipsFollow ==
  gpuPhase = "up" => \A u \in Units :
    LET phi == passes[Len(passes)].phi
    IN gpuHardware[u] = IF phi >= 2 /\ IdleFor(u, IdleTimer) THEN GpuMin ELSE FreqRequest(phi, gpuSignals[u])

\* The on time and the on energy of the report are those of the intervals at whose
\* end the GPU was active, and the active region is the latest stretch of them,
\* however often activity began and ended (the tracking in adjust_platform()).
ActiveExact ==
  LET on == {k \in 1..Len(passes) : passes[k].active /\ passes[k].known}
      off == {k \in 1..Len(passes) : ~passes[k].active /\ passes[k].known}
      begin == Min({k \in on : \A i \in off : i < k \/ i > Max(on)})
  IN /\ region.onTime = Cardinality({k \in on : k > 2})
     /\ region.onEnergy = MapThenSumSet(LAMBDA k : Energy(k - 1) - Energy(k - 2), {k \in on : k > 2})
     /\ on # {} => region.start = begin - 1
     /\ region.open = (on # {} /\ \A i \in off : i < Max(on))

\* A region is closed "at the previous sample, which was the last active one": not so
\* when the activity was not known in between.
ClosedAtLastActive ==
  LET on == {k \in 1..Len(passes) : passes[k].active /\ passes[k].known}
  IN on # {} /\ ~region.open => region.stop = Max(on) - 1

\* A chip has the lowest frequency only after it was idle for that long: not so when
\* it was busy under a policy that favours performance in between.
LowestMeansIdle ==
  gpuPhase = "up" => \A u \in Units :
    passes[Len(passes)].phi >= 2 /\ gpuHardware[u] = GpuMin /\ GpuMin < GpuEfficient
      => \A i \in Len(passes) - IdleTimer + 1..Len(passes) : passes[i].idle[u]
=============================================================================
