------------------------------ MODULE MSRSignal ------------------------------
(***************************************************************************)
(* A counter of the MSRIOGroup (CPU_ENERGY: a field of a few bits that     *)
(* wraps, made monotone by a RolloverGenerator) and the signal derived     *)
(* from it (CPU_POWER: the slope of a window of its samples).  Both are    *)
(* sampled from the batch, and both may be read directly at any time; the  *)
(* two paths share one MSRFieldSignal and so one rollover count.           *)
(*                                                                         *)
(* The hardware counts at a constant rate.  It is looked at often enough:  *)
(* never does it count a whole turn between two looks.                     *)
(***************************************************************************)
EXTENDS CircularBuffer

CONSTANTS
  Turn,      \* number of values of the field: the rollover factor
  Rates,     \* what the hardware may count in a tick
  Window,    \* M_NUM_SAMPLE_HISTORY
  MaxTime    \* bound: ticks of the clock

ASSUME MSRSignalAssumption ==
  /\ Turn \in Nat \ {0}
  /\ Rates \subseteq 0..Turn - 1
  /\ Window \in Nat \ {0, 1}
  /\ MaxTime \in Nat

VARIABLES
  clock,     \* the time
  rate,      \* counts in a tick
  origin,    \* the hardware's count at time 0
  batch,     \* m_time_batch and the register, at the last read_batch()
  gen,       \* RolloverGenerator: m_last_value and m_rollover_total
  look,      \* the time at which the value last given to the generator was read
  firstLook, \* the same for the first value
  energy,    \* what the last sample() or read() of the counter returned
  history,   \* m_history of the DerivativeSignal
  numFit,    \* m_derivative_num_fit
  lastTime,  \* m_last_time
  power,     \* m_last_result: a numerator and a denominator
  disorder   \* a sample was older than a value already given to the generator

sigVars == <<clock, rate, origin, batch, gen, look, firstLook, energy, history, numFit,
             lastTime, power, disorder>>

Never == -1
Register(time) == (origin + rate * time) % Turn

SignalInit ==
  /\ clock = 0
  /\ rate \in Rates
  /\ origin \in 0..Turn - 1
  /\ batch = [time |-> Never, reg |-> 0]
  /\ gen = [last |-> 0, total |-> 0]
  /\ look = Never /\ firstLook = Never
  /\ energy = 0
  /\ history = CBNew(Window)
  /\ numFit = 0
  /\ lastTime = Never
  /\ power = [num |-> 0, den |-> 0]
  /\ disorder = FALSE

\* (bug) A counter that stands still has rolled over.
UpdateOnEqual(g, value) == [last  |-> value,
                            total |-> IF g.last >= value THEN g.total + Turn ELSE g.total]

\* RolloverGenerator::update()
Update(g, value) == [last  |-> value,
                     total |-> IF g.last > value THEN g.total + Turn ELSE g.total]

\* convert_raw_value() of a counter that was read at the time given.  Bound: the
\* count may be wrong for good after a sample out of order, and is not followed.
Convert(value, time) ==
  /\ ~disorder
  /\ gen' = Update(gen, value)
  /\ energy' = value + gen'.total
  /\ look' = time
  /\ firstLook' = IF firstLook = Never THEN time ELSE firstLook
  /\ disorder' = (time < look)

\* The slope of the last n entries by least squares, as compute_next() finds
\* it, times n in numerator and denominator.
Slope(cb, n) ==
  LET first == cb.count - n
      dt    == [i \in 1..n |-> CBValue(cb, first + i - 1).time - CBValue(cb, first).time]
      dv    == [i \in 1..n |-> CBValue(cb, first + i - 1).value - CBValue(cb, first).value]
      sum   == [f \in {"A", "B", "C", "D"} |->
                  LET term(i) == CASE f = "A" -> dt[i] * dv[i] [] f = "B" -> dt[i]
                                   [] f = "C" -> dv[i] [] f = "D" -> dt[i] * dt[i]
                      upTo[i \in 0..n] == IF i = 0 THEN 0 ELSE upTo[i - 1] + term(i)
                  IN  upTo[n]]
  IN  [num |-> n * sum["A"] - sum["B"] * sum["C"], den |-> n * sum["D"] - sum["B"] * sum["B"]]

\* read_batch(): the register, then the time.
ReadBatch ==
  /\ clock > batch.time
  /\ batch' = [time |-> clock, reg |-> Register(clock)]
  /\ UNCHANGED <<clock, rate, origin, gen, look, firstLook, energy, history, numFit, lastTime,
                 power, disorder>>

\* sample() of the counter.
SampleEnergy ==
  /\ batch.time # Never
  /\ Convert(batch.reg, batch.time)
  /\ UNCHANGED <<clock, rate, origin, batch, history, numFit, lastTime, power>>

\* sample() of the derived signal: once for each batch, the counter is sampled
\* and the window moves on.
SamplePower ==
  /\ batch.time # Never /\ lastTime # batch.time
  /\ Convert(batch.reg, batch.time)
  /\ history' = CBInsert(history, [time |-> batch.time, value |-> energy'])
  /\ numFit' = IF numFit < Window THEN numFit + 1 ELSE numFit
  /\ power' = IF numFit' >= 2 THEN Slope(history', numFit') ELSE power
  /\ lastTime' = batch.time
  /\ UNCHANGED <<clock, rate, origin, batch>>

\* read_signal() of the counter, and each of the reads that read_signal() of the
\* derived signal makes.
ReadSignal ==
  /\ Convert(Register(clock), clock)
  /\ UNCHANGED <<clock, rate, origin, batch, history, numFit, lastTime, power>>

\* The hardware counts for a tick.  External.
Tick ==
  /\ clock < MaxTime
  /\ LET since == IF look = Never THEN batch.time ELSE look
     IN  since # Never => rate * (clock + 1 - since) < Turn
  /\ clock' = clock + 1
  /\ UNCHANGED <<rate, origin, batch, gen, look, firstLook, energy, history, numFit, lastTime,
                 power, disorder>>

SignalNext == ReadBatch \/ SampleEnergy \/ SamplePower \/ ReadSignal \/ Tick

SignalSpec == SignalInit /\ [][SignalNext]_sigVars

----------------------------------------------------------------------------
\* The value returned is the hardware's count at the time it was read, counted
\* from the register's value at the first look, across every rollover; and the
\* slope of the window is the rate.  For callers that never sample a batch after
\* a direct read that is newer than the batch.
CounterExact ==
  ~disorder =>
    /\ look # Never => energy = Register(firstLook) + rate * (look - firstLook)
    /\ numFit >= 2 => power.den > 0 /\ power.num = rate * power.den

\* The counter never counts more than the hardware: what "signals that increase
\* monotonically" asks of every caller.
CounterTrue == look # Never => energy = Register(firstLook) + rate * (look - firstLook)
=============================================================================
