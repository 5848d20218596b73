-------------------------- MODULE LevelZeroMetrics --------------------------
(***************************************************************************)
(* The GPU metrics of LevelZeroImp.  The thread that serves read_batch()   *)
(* drains each chip's metric streamer in metric_read() and reduces what    *)
(* was gathered to a mean; a background thread, started by the first       *)
(* metric_read() that returns, drains the chips that were not drained for  *)
(* a period, so that the streamer does not fill up.  One mutex guards each *)
(* chip's turn of either thread, so a turn is one step.                    *)
(*                                                                         *)
(* A report is counted, not valued: what matters is that each one is in    *)
(* the mean of one read_batch() at most.                                   *)
(***************************************************************************)
EXTENDS Integers, Sequences, FiniteSets

CONSTANTS
  Chips,       \* the GPU chips whose metrics are pushed
  FifoSize,    \* reports that a streamer holds before it drops some
  MaxPerRead,  \* DEFAULT_MAX_REPORTS_PER_READ
  MaxReports,  \* bound: reports that each chip makes
  MaxFaults    \* bound: driver calls that fail

ASSUME MetricsAssumption ==
  /\ IsFiniteSet(Chips)
  /\ FifoSize \in Nat \ {0}
  /\ MaxPerRead \in Nat \ {0}
  /\ MaxReports \in Nat
  /\ MaxFaults \in Nat

VARIABLES
  fifo,        \* reports in each chip's streamer
  metricGroup, \* chips whose metric group is activated in the driver
  streamer,    \* chips whose streamer is open in the driver
  initialized, \* metrics_initialized
  metricActive,\* metric_active
  accum,       \* metric_data_accum: the count of each chip
  age,         \* metric_last_drain: "new" since the thread looked at the clock,
               \* "mid" in the period before that, "old" before that
  error,       \* m_metric_thread_error: the chip it is about, or NoChip
  started,     \* m_metric_thread_started
  threadActive,\* m_metric_thread_active
  thread,      \* the background thread: where it is and the chips to look at
  server,      \* the serving thread: where it is and the chips to read
  told,        \* NUM_REPORTS of every mean so far, added up
  lost,        \* reports the driver dropped or a drain passed over
  made,        \* reports the hardware made
  faults,      \* driver calls that failed
  unheard      \* chips whose failure in the thread no metric_read() has thrown

lzVars == <<fifo, metricGroup, streamer, initialized, metricActive, accum, age, error, started,
            threadActive, thread, server, told, lost, made, faults, unheard>>

NoChip == "none"
Zero == [c \in Chips |-> 0]

MetricsInit ==
  /\ fifo = Zero /\ accum = Zero /\ told = Zero /\ lost = Zero /\ made = Zero
  /\ metricGroup = {} /\ streamer = {} /\ initialized = {} /\ metricActive = {}
  /\ age = [c \in Chips |-> "old"]
  /\ error = NoChip
  /\ started = FALSE /\ threadActive = FALSE
  /\ thread = [at |-> "none", todo |-> {}]
  /\ server = [at |-> "idle", todo |-> {}]
  /\ faults = 0
  /\ unheard = {}

Faulty == faults < MaxFaults /\ faults' = faults + 1

----------------------------------------------------------------------------
(* metric_drain(), by whoever holds the mutex *)

Least(m, n) == IF m < n THEN m ELSE n

\* The reports that are queued are read, and the newest ones are added up;
\* or all are passed over, when their number is not that of whole reports.
\* gathered is what the accumulator holds after it.
DrainOk(c, gathered) ==
  /\ \/ gathered = accum[c] + Least(fifo[c], MaxPerRead)
     \/ gathered = accum[c] /\ fifo[c] > 0
  /\ lost' = [lost EXCEPT ![c] = @ + fifo[c] - (gathered - accum[c])]
  /\ fifo' = [fifo EXCEPT ![c] = 0]
  /\ age' = [age EXCEPT ![c] = "new"]

\* zetMetricStreamerReadData() fails, or metric_calc() after the streamer was emptied:
\* what it held is gone then.  The attempt is recorded all the same.
DrainFails(c) ==
  /\ Faulty
  /\ age' = [age EXCEPT ![c] = "new"]
  /\ \/ UNCHANGED <<fifo, lost>>
     \/ /\ fifo[c] > 0
        /\ fifo' = [fifo EXCEPT ![c] = 0]
        /\ lost' = [lost EXCEPT ![c] = @ + fifo[c]]

----------------------------------------------------------------------------
(* The serving thread *)

\* LevelZeroIOGroup::read_batch(): metric_read() for each chip in turn.
ReadMetrics ==
  /\ server.at = "idle"
  /\ server' = [at |-> "read", todo |-> Chips]
  /\ UNCHANGED <<fifo, metricGroup, streamer, initialized, metricActive, accum, age, error, started,
                 threadActive, thread, told, lost, made, faults, unheard>>

\* metric_read() throws, and with it read_batch().
Throw == server' = [at |-> "idle", todo |-> {}]

\* metric_read(): the thread's error is thrown first, and forgotten.
MetricReadError(c) ==
  /\ server.at = "read" /\ c \in server.todo /\ error # NoChip
  /\ error' = NoChip
  /\ unheard' = unheard \ {error}
  /\ Throw
  /\ UNCHANGED <<fifo, metricGroup, streamer, initialized, metricActive, accum, age, started, threadActive,
                 thread, told, lost, made, faults>>

\* metric_execute() fails: the group is activated, or not, and no streamer opened.
MetricExecuteFails(c) ==
  /\ server.at = "read" /\ c \in server.todo /\ error = NoChip /\ c \notin initialized
  /\ Faulty
  /\ metricGroup' \in {metricGroup, metricGroup \cup {c}}
  /\ Throw
  /\ UNCHANGED <<fifo, streamer, initialized, metricActive, accum, age, error, started, threadActive,
                 thread, told, lost, made, unheard>>

\* (bug) The accumulator is not cleared when its mean is taken.
MetricReadKeeps(c) ==
  /\ server.at = "read" /\ c \in server.todo /\ error = NoChip
  /\ metricGroup' = metricGroup \cup {c}
  /\ streamer' = streamer \cup {c}
  /\ initialized' = initialized \cup {c}
  /\ metricActive' = metricActive \cup {c}
  /\ \E n \in accum[c]..accum[c] + FifoSize :
        DrainOk(c, n) /\ told' = [told EXCEPT ![c] = @ + n] /\ accum' = [accum EXCEPT ![c] = n]
  /\ server' = [at |-> "start", todo |-> server.todo \ {c}]
  /\ UNCHANGED <<error, started, threadActive, thread, made, faults, unheard>>

\* metric_read(): the streamer is opened at the first call, the chip is drained,
\* and what was gathered since the last call becomes the mean.
MetricRead(c) ==
  /\ server.at = "read" /\ c \in server.todo /\ error = NoChip
  /\ metricGroup' = metricGroup \cup {c}
  /\ streamer' = streamer \cup {c}
  /\ initialized' = initialized \cup {c}
  /\ metricActive' = metricActive \cup {c}
  /\ \/ /\ \E n \in accum[c]..accum[c] + FifoSize :
             DrainOk(c, n) /\ told' = [told EXCEPT ![c] = @ + n]
        /\ accum' = [accum EXCEPT ![c] = 0]
        /\ server' = [at |-> "start", todo |-> server.todo \ {c}]
        /\ UNCHANGED <<faults, unheard>>
     \/ /\ DrainFails(c)
        /\ Throw
        /\ unheard' = unheard \ {c}
        /\ UNCHANGED <<told, accum>>
  /\ UNCHANGED <<error, started, threadActive, thread, made>>

\* metric_thread_start(), after the mutex was released.
MetricThreadStart ==
  /\ server.at = "start"
  /\ IF started THEN UNCHANGED <<started, threadActive, thread>>
     ELSE /\ started' = TRUE /\ threadActive' = TRUE
          /\ thread' = [at |-> "loop", todo |-> {}]
  /\ server' = [at |-> IF server.todo = {} THEN "idle" ELSE "read", todo |-> server.todo]
  /\ UNCHANGED <<fifo, metricGroup, streamer, initialized, metricActive, accum, age, error, told, lost,
                 made, faults, unheard>>

\* ~LevelZeroImp(): metric_thread_stop() clears the flag and joins the thread ...
StopThread ==
  /\ server.at = "idle"
  /\ threadActive' = FALSE
  /\ server' = [at |-> IF threadActive THEN "join" ELSE "destroy", todo |-> Chips]
  /\ UNCHANGED <<fifo, metricGroup, streamer, initialized, metricActive, accum, age, error, started, thread,
                 told, lost, made, faults, unheard>>

Join ==
  /\ server.at = "join" /\ thread.at = "ended"
  /\ server' = [server EXCEPT !.at = "destroy"]
  /\ UNCHANGED <<fifo, metricGroup, streamer, initialized, metricActive, accum, age, error, started,
                 threadActive, thread, told, lost, made, faults, unheard>>

\* ... and metric_destroy() of each chip closes the streamer and deactivates the
\* group of a chip that was initialized; a call that fails ends the chip's part.
MetricDestroy(c) ==
  /\ server.at = "destroy" /\ c \in server.todo
  /\ initialized' = initialized \ {c}
  /\ \/ /\ streamer' = IF c \in initialized THEN streamer \ {c} ELSE streamer
        /\ metricGroup' = IF c \in initialized THEN metricGroup \ {c} ELSE metricGroup
        /\ UNCHANGED faults
     \/ /\ c \in initialized /\ Faulty
        /\ streamer' \in {streamer, streamer \ {c}}
        /\ UNCHANGED metricGroup
  /\ server' = [at |-> IF server.todo = {c} THEN "gone" ELSE "destroy", todo |-> server.todo \ {c}]
  /\ UNCHANGED <<fifo, metricActive, accum, age, error, started, threadActive, thread, told, lost, made,
                 unheard>>

----------------------------------------------------------------------------
(* The background thread *)

\* The loop's condition, and a look at the clock: at least a period has passed
\* since the last one.
ThreadLoop ==
  /\ thread.at = "loop"
  /\ IF threadActive
     THEN /\ thread' = [at |-> "scan", todo |-> Chips]
          /\ age' = [c \in Chips |-> IF age[c] = "new" THEN "mid" ELSE "old"]
     ELSE /\ thread' = [at |-> "ended", todo |-> {}]
          /\ UNCHANGED age
  /\ UNCHANGED <<fifo, metricGroup, streamer, initialized, metricActive, accum, error, started, threadActive,
                 server, told, lost, made, faults, unheard>>

NextTurn(c) == thread' = [at |-> IF thread.todo = {c} THEN "loop" ELSE "scan", todo |-> thread.todo \ {c}]

\* A chip that is not sampled, or was drained less than a period ago.
ThreadSkips(c) ==
  /\ thread.at = "scan" /\ c \in thread.todo
  /\ c \notin metricActive \cap initialized \/ age[c] # "old"
  /\ NextTurn(c)
  /\ UNCHANGED <<fifo, metricGroup, streamer, initialized, metricActive, accum, age, error, started,
                 threadActive, server, told, lost, made, faults, unheard>>

ThreadDrains(c) ==
  /\ thread.at = "scan" /\ c \in thread.todo
  /\ c \in metricActive \cap initialized /\ age[c] # "new"
  /\ \/ /\ \E n \in accum[c]..accum[c] + FifoSize :
             DrainOk(c, n) /\ accum' = [accum EXCEPT ![c] = n]
        /\ UNCHANGED <<metricActive, error, unheard, faults>>
     \/ /\ DrainFails(c)
        /\ metricActive' = metricActive \ {c}
        /\ error' = IF error = NoChip THEN c ELSE error
        /\ unheard' = unheard \cup {c}
        /\ UNCHANGED accum
  /\ NextTurn(c)
  /\ UNCHANGED <<metricGroup, streamer, initialized, started, threadActive, server, told, made>>

----------------------------------------------------------------------------
\* The hardware makes a report; a full streamer drops one.  External.
Report(c) ==
  /\ c \in streamer /\ made[c] < MaxReports
  /\ made' = [made EXCEPT ![c] = @ + 1]
  /\ IF fifo[c] < FifoSize
     THEN fifo' = [fifo EXCEPT ![c] = @ + 1] /\ UNCHANGED lost
     ELSE lost' = [lost EXCEPT ![c] = @ + 1] /\ UNCHANGED fifo
  /\ UNCHANGED <<metricGroup, streamer, initialized, metricActive, accum, age, error, started, threadActive,
                 thread, server, told, faults, unheard>>

MetricsNext ==
  \/ ReadMetrics \/ MetricThreadStart \/ StopThread \/ Join \/ ThreadLoop
  \/ \E c \in Chips :
       \/ MetricReadError(c) \/ MetricExecuteFails(c) \/ MetricRead(c) \/ MetricDestroy(c)
       \/ ThreadSkips(c) \/ ThreadDrains(c) \/ Report(c)

\* The background thread keeps running, and so does the destructor once it runs.
MetricsFairness ==
  /\ WF_lzVars(ThreadLoop)
  /\ \A c \in Chips : WF_lzVars(ThreadSkips(c) \/ ThreadDrains(c))
  /\ WF_lzVars(Join)
  /\ \A c \in Chips : WF_lzVars(MetricDestroy(c))

MetricsSpec == MetricsInit /\ [][MetricsNext]_lzVars
MetricsLive == MetricsSpec /\ MetricsFairness

----------------------------------------------------------------------------
(* Properties *)

\* Every report the hardware made is in the streamer, in the accumulator, in one
\* mean, or was lost: no report is in two means, and none that was gathered is
\* forgotten, also when a metric_read() throws half way through a read_batch() or
\* hands on the failure of the thread.
ReportsConserved ==
  \A c \in Chips : made[c] = fifo[c] + accum[c] + told[c] + lost[c]

\* The thread drains a chip only while its streamer is open, and none is closed
\* before the thread has ended: what the destructor's order is for.
DrainsOpenOnly ==
  /\ metricActive \cap initialized \subseteq streamer
  /\ server.at \in {"destroy", "gone"} => thread.at \in {"none", "ended"}

\* The streamer of a chip that is sampled does not stay full: it is drained again
\* and again, by either thread, until the chip fails or the object is destroyed.
KeepsDraining ==
  \A c \in Chips : []<>(fifo[c] < FifoSize \/ c \notin metricActive \/ ~threadActive)

\* Every failure that the thread met is thrown by a metric_read(): what the
\* comment in metric_sample_thread() says, as far as the pending error goes.
FailuresHandedOver == unheard # {} => error # NoChip

\* After the destructor no metric group is left activated.
GroupsReleased == server.at = "gone" /\ faults = 0 => metricGroup = {}
=============================================================================
