---------------------------- MODULE GPUControls -----------------------------
(***************************************************************************)
(* The frequency controls of the LevelZeroIOGroup and of the NVMLIOGroup:  *)
(* the two bounds of each GPU's clock, which the device accepts only as a  *)
(* range.  A write of one bound is therefore a write of both: LevelZero    *)
(* reads the other bound back from the device, NVML cannot and keeps the   *)
(* last request of each.  Both share the code of push, adjust and          *)
(* write_batch(), whose aliases share the object of the control they name. *)
(***************************************************************************)
EXTENDS Integers, Sequences, SequencesExt

CONSTANTS
  Gpus,      \* domain indices
  Clocks,    \* the supported frequencies
  MaxOutage  \* bound: times a device stops answering

ASSUME GpuAssumption ==
  /\ Gpus \subseteq Nat /\ Gpus # {}
  /\ Clocks \subseteq Nat \ {0} /\ Clocks # {}
  /\ MaxOutage \in Nat

VARIABLES
  vendor,     \* "levelzero" or "nvml"
  gpuClock,   \* the device's range: [max |-> , min |-> ] of each GPU
  request,    \* m_frequency_max_control_request, m_frequency_min_control_request
  gpuSaved,   \* m_frequency_range, set by the constructor's save_control()
  adjusted,   \* m_control_available[...].m_controls: the setting, 0 when not m_is_adjusted
  pushedGpu,  \* m_control_pushed
  silent,     \* devices that refuse every call
  outages,    \* times a device became silent
  gpuLast,    \* the call that has just ended: "write_batch", "threw" or ""
  gpuAsked    \* what was adjusted when that write_batch() began

gpuVars == <<vendor, gpuClock, request, gpuSaved, adjusted, pushedGpu, silent, outages, gpuLast, gpuAsked>>

Bounds == {"max", "min"}
Lowest == CHOOSE c \in Clocks : \A d \in Clocks : c <= d
Highest == CHOOSE c \in Clocks : \A d \in Clocks : c >= d
Supported == [max |-> Highest, min |-> Lowest]
Other(b) == IF b = "max" THEN "min" ELSE "max"

\* m_control_available in the order of its names: the aliases, which begin with
\* GPU_, come before the names they stand for.
ControlOrder == <<"max", "min", "max", "min">>
GpuOrder == SetToSortSeq(Gpus, LAMBDA g, h : g < h)

Unasked == [g \in Gpus |-> [b \in Bounds |-> 0]]

GpuInit ==
  /\ vendor \in {"levelzero", "nvml"}
  /\ gpuClock \in IF vendor = "nvml" THEN {[g \in Gpus |-> Supported]}
               ELSE {[g \in Gpus |-> r] : r \in {r \in [Bounds -> Clocks] : r["min"] <= r["max"]}}
  /\ request = [g \in Gpus |-> Supported]
  /\ gpuSaved = gpuClock
  /\ adjusted = Unasked
  /\ pushedGpu = {}
  /\ silent = {} /\ outages = 0
  /\ gpuLast = ""
  /\ gpuAsked = Unasked

----------------------------------------------------------------------------
\* The range that write_control() asks the device for.
RangeFor(st, g, b, setting) ==
  LET other == IF vendor = "levelzero" THEN st.clock[g][Other(b)] ELSE st.request[g][Other(b)]
  IN  [c \in Bounds |-> IF c = b THEN setting ELSE other]

\* The device's answer.  External: zesFrequencySetRange, nvmlDeviceSetGpuLockedClocks.
DeviceAccepts(g, range) == g \notin silent /\ range["min"] <= range["max"]

\* write_control(): the range and, for NVML, the request.
WriteBound(st, g, b, setting) ==
  LET range == RangeFor(st, g, b, setting)
  IN  IF ~DeviceAccepts(g, range) THEN [st EXCEPT !.refused = TRUE]
      ELSE [st EXCEPT !.clock[g] = range, !.refused = FALSE,
                     !.request[g][b] = IF vendor = "nvml" THEN setting ELSE @]

Now == [clock |-> gpuClock, request |-> request, adjusted |-> adjusted, refused |-> FALSE,
        retry |-> FALSE, threw |-> FALSE]

\* One control of one GPU in write_batch(); in the last pass a refusal throws.
BatchOne(st, g, b, lastPass) ==
  LET tried == WriteBound(st, g, b, st.adjusted[g][b])
  IN  IF st.threw \/ st.adjusted[g][b] = 0 THEN st
      ELSE IF ~tried.refused THEN [tried EXCEPT !.adjusted[g][b] = 0]
      ELSE IF lastPass THEN [st EXCEPT !.threw = TRUE]
      ELSE [st EXCEPT !.retry = TRUE]

\* One pass over the names and, for each, over the GPUs.
BatchPass(st, lastPass) ==
  FoldLeft(LAMBDA s, b : FoldLeft(LAMBDA t, g : BatchOne(t, g, b, lastPass), s, GpuOrder),
           st, ControlOrder)

\* (bug) No second pass.
BatchResultOnce == BatchPass(Now, FALSE)

\* The second pass is made when something was refused in the first.
BatchResult ==
  LET first == BatchPass(Now, FALSE)
  IN  IF first.retry THEN BatchPass(first, TRUE) ELSE first

----------------------------------------------------------------------------
Quiet == gpuLast' = "" /\ gpuAsked' = Unasked

GpuPushControl(g, b) ==
  /\ pushedGpu' = pushedGpu \cup {<<g, b>>}
  /\ Quiet
  /\ UNCHANGED <<vendor, gpuClock, request, gpuSaved, adjusted, silent, outages>>

GpuAdjust(g, b, setting) ==
  /\ <<g, b>> \in pushedGpu
  /\ adjusted' = [adjusted EXCEPT ![g][b] = setting]
  /\ Quiet
  /\ UNCHANGED <<vendor, gpuClock, request, gpuSaved, pushedGpu, silent, outages>>

GpuWriteBatch ==
  /\ gpuClock' = BatchResult.clock
  /\ request' = BatchResult.request
  /\ adjusted' = BatchResult.adjusted
  /\ gpuLast' = IF BatchResult.threw THEN "threw" ELSE "write_batch"
  /\ gpuAsked' = adjusted
  /\ UNCHANGED <<vendor, gpuSaved, pushedGpu, silent, outages>>

GpuWriteControl(g, b, setting) ==
  LET st == WriteBound(Now, g, b, setting)
  IN  /\ ~st.refused
      /\ gpuClock' = st.clock
      /\ request' = st.request
      /\ Quiet
      /\ UNCHANGED <<vendor, gpuSaved, adjusted, pushedGpu, silent, outages>>

\* save_control(): LevelZero records the ranges, and throws when it cannot read one;
\* NVML only has the power limit to record.
GpuSaveControl ==
  /\ silent = {}
  /\ gpuSaved' = IF vendor = "levelzero" THEN gpuClock ELSE gpuSaved
  /\ Quiet
  /\ UNCHANGED <<vendor, gpuClock, request, adjusted, pushedGpu, silent, outages>>

\* restore_control(): the recorded range, or the reset of the clocks by NVML, which
\* keeps the requests.  A device's refusal is swallowed.
GpuRestoreControl ==
  /\ gpuClock' = [g \in Gpus |-> IF g \in silent THEN gpuClock[g]
                             ELSE IF vendor = "levelzero" THEN gpuSaved[g] ELSE Supported]
  /\ Quiet
  /\ UNCHANGED <<vendor, request, gpuSaved, adjusted, pushedGpu, silent, outages>>

\* A device stops and starts answering.
Outage(g) ==
  /\ silent' = IF g \in silent THEN silent \ {g} ELSE silent \cup {g}
  /\ g \notin silent => outages < MaxOutage
  /\ outages' = IF g \in silent THEN outages ELSE outages + 1
  /\ Quiet
  /\ UNCHANGED <<vendor, gpuClock, request, gpuSaved, adjusted, pushedGpu>>

GpuNext ==
  \/ \E g \in Gpus, b \in Bounds : GpuPushControl(g, b)
  \/ \E g \in Gpus, b \in Bounds, c \in Clocks : GpuAdjust(g, b, c) \/ GpuWriteControl(g, b, c)
  \/ GpuWriteBatch \/ GpuSaveControl \/ GpuRestoreControl
  \/ \E g \in Gpus : Outage(g)

GpuSpec == GpuInit /\ [][GpuNext]_gpuVars

----------------------------------------------------------------------------
(* Properties *)

\* A write_batch() that returns has given every GPU the bounds that were adjusted,
\* whichever of the two had to come first; and one that throws has done so for
\* every GPU that answers and whose bounds make a range: the retry is enough for
\* every pair of settings, and one GPU's failure does not keep the others back.
RangesReach ==
  LET reached(g) == \A b \in Bounds : gpuAsked[g][b] # 0 => gpuClock[g][b] = gpuAsked[g][b] /\ adjusted[g][b] = 0
      both(g) == \A b \in Bounds : gpuAsked[g][b] # 0
  IN  /\ gpuLast = "write_batch" => \A g \in Gpus : reached(g)
      /\ gpuLast = "threw" =>
           \A g \in Gpus \ silent : both(g) /\ gpuAsked[g]["min"] <= gpuAsked[g]["max"] => reached(g)

\* Writing one bound leaves the other as it was, although the device takes both.
OtherBoundKept ==
  [][\A g \in Gpus, b \in Bounds :
       (\E c \in Clocks : GpuWriteControl(g, b, c)) => gpuClock'[g][Other(b)] = gpuClock[g][Other(b)]]_gpuVars
=============================================================================
