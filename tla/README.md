# TLA+ models of GEOPM

GEOPM reads telemetry from a node's hardware and sets its controls, on behalf
of users who may not do so themselves and of controllers that steer the power of
a parallel job. The parts whose correctness rests on the order of events, on
processes that die, on calls that fail half way and on what survives them are
modelled here in TLA+. TLC checks small instances of every model; TLAPS proves the
main safety results for every value of the constants.

## 1. Inventory

Every part of the system is listed under "components" in `PROJECT.json` with its
sources. The parts with their own logic are these.

| component | state | operations | interacts with | what is hard |
|---|---|---|---|---|
| PlatformService (`geopmdpy/service.py`) | `_write_pid`, GLib timers | open and close session, read, write, restore, start and stop batch, `check_client()`, start, SIGTERM | clients by D-Bus, files in `/run/geopm`, PlatformIO | a client or the daemon dies between two steps; a PID is reused; SIGTERM inside a handler; saving or restoring fails |
| ActiveSessions (`system_files.py`) | session records and `session-PID.json`, profiles, region names | add, remove, load, reference counts, profiles | PlatformService, shared memory files | file and memory disagree after a crash |
| WriteLock | `CONTROL_LOCK`, `PROFILER_LOCK` | `try_lock()`, `unlock()` | PlatformService | a holder that nobody watches |
| AccessLists | a file of signals and one of controls per group | `get_user_access()`, `geopmaccess` | sessions, administrators | files replaced or damaged while they are read one after the other |
| SaveControl | `SAVE_FILES` | save, restore | PlatformIO | copy complete or absent; a write refused at first |
| Batch server | FIFOs, two shared memory buffers, `g_sigterm_count` | read, write, quit, SIGTERM | its client, the daemon | signal between test and blocking call; either side gone |
| PlatformIO | pushed signals and controls, combined ones | push, adjust, sample, batch calls, save, restore | a list of IOGroups | one of several IOGroups fails |
| IOGroups (MSR, SST, sysfs, GPU and those that only read) | pushed entries, last settings, saved settings | the same | devices | registers written as a whole; limits that bound each other; completions out of order; counters that wrap; stale caches |
| LevelZero devices and metrics | handles, streamers, a background thread | discovery, `metric_read()` | drivers, LevelZeroIOGroup | two threads drain one streamer; lists of different lengths |
| Profile and record log (`libgeopm`) | hint stack, record and region table, status table | enter, exit, epoch, work units, shutdown | the controller reads the tables | `dump()` at any point; a full table |
| ApplicationSampler, ApplicationIO | record buffer, short regions, start and stop counts | connect, update, shutdown test | record logs, the profile service | several logs joined; processes that never say goodbye |
| Record filters | history, edit distances, a state machine | filter a record | ApplicationSampler | a ring of distances against their definition |
| SampleAggregator | accumulators per region, epoch, period | push, update, sample | PlatformIO | region and epoch change in one interval; NAN |
| Controller, TreeComm, TreeCommLevel | policies and samples in one sided windows | `walk_down()`, `walk_up()` | other nodes, endpoint, policy file | nodes at different speeds, overwritten mailboxes |
| PowerBalancerAgent, PowerBalancer | step counters, caps, limits, slack | descend, ascend, adjust, sample | the tree, PlatformIO | a message of an older step; power handed out twice |
| Frequency and activity agents | last settings, policies, timers | the same | PlatformIO | only what differs is written |
| Endpoint, EndpointUser | policy and sample in shared memory | open, attach, write, read, detach | resource manager, root controller | a job that dies, a region that is unlinked or cleared |
| PMPI wrappers | communicators, controllers of a job | `MPI_Init()`, calls, `MPI_Finalize()` | MPI, Controller | barriers on several communicators |
| geopmopt (`optimizer.py`, `grid.py`) | trials, settings in force | trial, choice of the best | PlatformIO, the application | failed trials, what an earlier trial left |
| ServiceIOGroup, D-Bus and gRPC, PlatformTopo, reports, neural nets, launcher | | | | section 8 |

What makes them correct, in one line each:

- **service**: whatever happens, settings that a writer changed can be restored;
  sessions, timers, locks and batch servers end with their clients; a session may
  use what the access lists said while it was opened.
- **batch server**: success means done; nobody waits for ever; nothing stays in
  `/run/geopm`.
- **PlatformIO and IOGroups**: an adjusted setting reaches the hardware and nothing
  else changes; restoring puts back what was saved; a sample is of the device, the
  time and the batch it is said to be of.
- **profiling**: every visit of a region is counted once; the controller does not
  fail on what a correct process writes, and ends when the application has ended;
  what is reported of a region is what happened in it.
- **profile service**: a process is in exactly the profile that its session
  names, and its shared memory files exist for as long as that.
- **tree and power balancer**: all nodes are in the same step, the target is the
  slowest node's, and the sum of the limits stays within the budget at every moment.
- **other agents**: after each pass the hardware has what the latest samples and
  policy ask for, although only differences are written; balancing does not end
  with every core limited.
- **endpoint**: values are those of the job that is attached.
- **MPI**: a job with controllers starts and ends.
- **geopmopt**: every trial runs under its own settings, and the best one is reported.

The hazards that the properties are meant for are listed in `PROJECT.json`, each
at its line in the source.

## 2. Modules

| module | models | extends or uses |
|---|---|---|
| `PlatformService` | sessions, write mode, batch bookkeeping, crash and restart of `geopmd` | instantiates `WriteSession` |
| `WriteSession` | the promise of write mode: one owner, who leaves what it found | |
| `AccessLists` | the files of access lists, their editors and the request that reads them | |
| `BatchServer` | one client, its servers in turn, the daemon | |
| `ProfileService` | profiles, their shared memory files and the profiler lock | |
| `PlatformIO` | PlatformIOImp over IOGroups that may throw | |
| `MSRIOGroup`, `SysfsIOGroup`, `SSTIOGroup`, `GPUControls` | the controls of one IOGroup each, with their device | |
| `CircularBuffer`, `MSRSignal` | the container; a counter that wraps and its derivative | `MSRSignal` extends `CircularBuffer` |
| `SignalGroups` | how eleven IOGroups push, read and sample signals | |
| `LevelZeroDevices`, `LevelZeroMetrics` | discovery and numbering of chips; the two threads that drain metrics | |
| `ApplicationRecordLog` | the record log as functions from log to log | |
| `ApplicationProfile` | processes that call Profile, and the controller that samples them | extends `ApplicationRecordLog` |
| `RecordFilter` | the two filters and the period detector | extends `CircularBuffer` |
| `SampleAggregator` | accumulation of a signal | |
| `TreeComm` | the tree of controllers for a fan-out, as operators | |
| `PowerBalancer`, `PowerBalancerAgent` | the search for the limit of one package; the controllers of a job with this agent | the second extends the first |
| `CPUActivityAgent`, `GPUActivityAgent` | one node with the agent | |
| `FrequencyMapAgent` | a tree of controllers with the agent | extends `TreeComm` |
| `FrequencyTimeBalancer`, `FrequencyBalancerAgent` | frequencies for equal times; the agent that uses them | the second extends the first |
| `Endpoint` | resource manager and jobs at one endpoint | |
| `PMPI` | the processes of an MPI job | |
| `Optimizer` | geopmopt | |
| `MC...` | finite instances for TLC | |
| `PlatformService_proofs`, `ApplicationProfile_proofs`, `PowerBalancerAgent_proofs` | theorems about the module of that name | TLAPS; the last two extend `NumberSetTheorems` |
| `Clients_proofs` | theorems about `BatchServer` and `Optimizer` | TLAPS, extends `NumberSetTheorems` |
| `Service_proofs` | theorems about `ProfileService` and `AccessLists` | TLAPS |
| `Runtime_proofs` | theorems about `Endpoint`, `CPUActivityAgent`, `FrequencyMapAgent` and `PlatformIO` | TLAPS, extends `NumberSetTheorems` |
| `NumberSetTheorems` | least and greatest numbers, and the laws of sums over finite sets | TLAPS |
| `IOGroups_proofs` | theorems about `MSRIOGroup`, `SysfsIOGroup`, `SSTIOGroup`, `LevelZeroMetrics` and `SignalGroups` | TLAPS, extends `NumberSetTheorems` |

`MCService`, `MCClients`, `MCProfileService`, `MCRuntime`, `MCIOGroups` and
`MCPlatformIO` hold several parts that share nothing: their variable `object` says
which of them TLC looks at, while the others keep an initial state, so a run
explores the union of the parts and not their product.

Operators marked *(bug)* in the modules are wrong versions of the definition that
follows; putting one in its place must make the property named in
`PROJECT.json` ("mutants") fail.

### PlatformService

`geopmd` runs one request at a time in a GLib main loop. A handler is a sequence
of steps, one for every write to a file or to the hardware, and `d` is its frame:
the step (`pc`), the request, the client `p`, the session owner `q`, where
to go on after a session is closed (`k`) and sessions still to be treated
(`todo`). Between two steps processes die or PIDs are reused, batch servers write
controls, and the daemon may be killed. `files`, `lock`, `save` and `hw`
survive; `sessions`, `watch` and `writePid` do not. `base` is a history variable:
the settings that the open write session has to leave behind. All controls are one
value. Time is a logical clock: process creation times are even and a
session file written after the latest creation has the odd time that follows, so
that the comparison in `_is_pid_valid()` is exact. A PID in use as a session ID is
not recycled while the session has members, as Linux does it. A batch server
dies with the daemon's crash, because the systemd unit kills the whole control
group.

`Faults` says what the environment may do: reuse PIDs, crash the daemon, fail to
save or restore, and, for the runs of section 6, deliver SIGTERM inside a handler,
reuse a GLib source ID, or name the wrong server in `stop_batch()`.

### BatchServer

Server, client and daemon are three processes with a step each (`spc`, `cpc`,
`dpc`). A server starts in steps: it makes the FIFO of requests and hands it to the
client, then the FIFO of replies, then the shared memory. Handing over looks the
client up by its PID, so it throws when the client has died; the files stay then, and
`excused` has those that a server found when it started or had when it was killed. A
FIFO opens when both ends are being opened; bytes in a FIFO are
a sequence. A step at which a process is in a
system call stands for the moment before the call as well, so a signal may be
handled just before the call blocks (`sigterm = "seen"`). SIGKILL, exceptions of
PlatformIO and the end of the client are separate actions. The signals and
controls of a batch are one value; `sample` records the request for which
the signals were sampled.

### ApplicationRecordLog and ApplicationProfile

Every method of the log holds the mutex in its shared memory, so each is one
function. An action of a process is a call of Profile, including the error path:
when the log throws, everything Profile did before stays done. A process dies between
two calls, or inside one while it holds the lock of its log. The mutex is not robust:
such a log stays locked (`locked`), what the call had written to it is never read, and
a controller that comes to it waits for ever. The controller itself is not killed. Its
update is three steps (`"dump"`, one process at a time, `"digest"`, `"check"`) so
that processes run in between. `visits`, `nest`, `entries`, `outside`, `work` and
`threw` are what the process itself knows; properties compare them with
what the controller has counted.

### FrequencyTimeBalancer and FrequencyBalancerAgent

Times and measured frequencies are integers. The balancer's quotients are doubles: a
computed value is a fraction that is marked as not exact, and where the code compares
or rounds it at a tie both outcomes are possible. So the fastest core, scaled "to the
maximum", may come out just below it, and the agent's rounding towards the former
limit then takes a whole step off. Which of two cores with equal work is first is
open as well.

### ProfileService

The same daemon seen from the profiling side. `start_profile()` is two steps,
because `open_session()` is complete before the rest; every other request is one.
A crash may fall between any two steps. `status` and `logs` are the shared memory
files, `files` the session files.

### PowerBalancerAgent

Every node has a controller whose loop goes down its levels and up again (`pc`);
one level is one step, and levels of different nodes interleave freely. `pbox[a]`
is the mailbox of the latest policy for agent `a`, `sbox[a]` the mailbox of its
sample at its parent; neither is acknowledged. `tree[a]` is a TreeRole or the
RootRole, `leaf[n]` the LeafRole of a node with its balancer. Measured runtimes
are inputs, so the balancer's comparisons with the target have any outcome; power
is in whole units and the share of the slack is rounded down. `sampled` stands for
the circular buffer: a runtime is stable only after an earlier sample under the
same limit. A node has one package; with one package the division of slack in
`SendDownLimitStep::enter_step()` is the addition that the model makes. Puts to
several children are one step, which changes nothing since each child reads
only its own mailbox; the two locked parts of `receive_up()` are one step, and a
sample that arrives between them would be read as well. An agent that
throws ends its controller (`failed`).
`source` says whether the root reads a policy file or an endpoint to which a
resource manager writes at any time.

### AccessLists

`get_user_access()` goes through the groups of a user and opens one file after the
other (`request.groups`, `request.next`); looking at a file and moving it away are
two steps. Meanwhile processes of `geopmaccess` write a file under another name and
rename it, and files or directories become unusable. `always` and `atTimes` record
what was allowed throughout, and at some time in, the request.

### PlatformIO and the IOGroups

`PlatformIO` has one name, summed over the parts of the board, and sees an IOGroup
as what it pushes, adjusts, writes and saves; every batch call is a loop in which
each IOGroup's turn is a step that may throw. The IOGroups that set controls are
modules of their own, because what makes each of them hard is its device:

- `MSRIOGroup`: one register with an enable bit, a limit with a unit and a time
  window, so all three encodings. Each access of the register is a step and may fail;
  `ctx` are the two batch contexts of MSRIO. Another program may write the
  `ForeignFields`. Saving is in memory or through a file that SaveControl replays.
- `SysfsIOGroup`: two files that the kernel keeps ordered, and an alias. The writes
  of a batch complete in any order (`flight`), refused ones are tried once more.
- `SSTIOGroup`: fields of registers written in batches of whole registers, and the
  two mailbox features of which one needs the other.
- `GPUControls`: two bounds that a device accepts as a range, for two vendors.
- `MSRSignal`: a counter that turns over and its derivative, sampled from batches and
  read directly through the same object.
- `SignalGroups`: eleven IOGroups differ in when a push is refused, what a second
  push returns and in which order a batch is read; these differences are records.
- `LevelZeroDevices`: what the driver reports is an arbitrary choice; the caches that
  are sized and filled from it, and the names that are dropped, follow the code.
- `LevelZeroMetrics`: the mutex of a chip makes each turn of either thread one step.

### RecordFilter and SampleAggregator

Both keep the whole input (`entries`, `history`) beside the state of the code, and
the properties compute the result from that: edit distances by their definition,
totals of a region as sums over the intervals in which it was sampled. A signal
grows by a different power of two in each interval, so that no wrong attribution
gives the same total.

### Agents of one node, frequency map

An action is a part of a pass of the controller: a policy arrives and the agent
adjusts and writes, or the platform is sampled with any values. Ratios are in
quarters and frequencies multiples of sixteen, so that no rounding is left out.
In `FrequencyMapAgent` each rank makes its passes at its own pace and a mailbox
holds the latest policy.

### Endpoint

`mem[g]` are the two regions made by the g-th `open()`; a job keeps what it mapped
after it was unlinked. `open()`, `attach` and `wait` are several steps. A value is
the number of the write that made it, so a stale one is recognised.

### PMPI

A process is at a step of `MPI_Init()`, of a call, or of `MPI_Finalize()`; a
collective call is left when all processes of the communicator have entered it as
often. The file with which the processes of a node find each other is shared with
other jobs of the user, which may remove it.

### Optimizer

A command line is one of `CommandLines`; which coordinate comes next, and what
a trial measures, is arbitrary. Scores are multiplied by the bound to stay integers.

## 3. Runs

| run | instance | distinct states | shows |
|---|---|---|---|
| `ps_alone` | two clients in their own sessions, two settings, one crash, creation times to 4, symmetry over clients and settings; beside it two groups, one administrator, two changes, one damaged file | 1.6 million | settings can always be restored, servers belong to sessions; sessions have justified lists |
| `ps_grouped` | a client in the session of a leader | 2.3 million | write mode implements `WriteSession` |
| `ps_live` | two clients, one crash, no PID reuse, fair specification | 125 thousand | sessions and locks of dead clients are released |
| `bs_all` | two servers in turn, three requests, SIGKILL, exceptions; geopmopt with 23 command lines and up to three trials | 268 thousand | answers are true, files are removed, waits end; trials run under their own settings, the best is found |
| `AP_one` | one process, two regions, depth two, a record table of four | 5.0 million | visits conserved, validator accepts |
| `AP_two` | two processes, one region, table of four | 832 thousand | handles across logs, the loop ends |
| `PF_all` | two processes of one user, two profile names, one crash; four ranks on two nodes in three modes, one call each | 209 thousand | profiles and sessions match, files, liveness; a job ends |
| `pb_two` | two nodes, two runtimes, up to step 5; policy file, and endpoint with three limits | 261 thousand | lockstep, budget, every step ends |
| `runtime` | four nodes in two levels up to step 1; five updates of an aggregator with a NAN; eleven entries of two regions in a history of six; two endpoints opened, two jobs, two writes; two cores and a package | 379 thousand | nobody gets out of step through a middle agent; region totals; detector; samples; settings |
| `iogroups` | the five modules of controls and counters: two settings per field or file, one failure or refusal | 1.7 million | batches, other fields, restores, counters |
| `platformio` | two IOGroups with two parts, one exception; two chips; trees of two; four passes of the GPU agent, eight of the frequency balancer; eleven groups with two requests; two GPUs with two subdevices; symmetry over chips | 1.7 million | settings reach the hardware, reports conserved, samples paired, chips named right, cores freed again |
| `sst_batch` | two fields of one SST register | 11 thousand | expected violation: section 6 |

- Two clients are the smallest number with contention for the lock. A second
  crash meets a disk state that the first one can leave already, and the theorems
  hold for any number of clients and crashes. Four creation times let a PID be
  reused while a session file of its former owner exists.
- Two servers are needed for files left by the first to disturb the second; three
  requests allow a read after a write and a quit.
- A table of four records is filled by one short visit and the start records, so
  that every call meets the full table; the code's 1024 differ in nothing else.
- Step 5 of the balancer is the second search for slack, after the first slack was
  handed out in step 3; steps are alike modulo three. The limits (8 to 24, trials
  of 4 and 2) let a node hit the minimum, reach the cap again, and halve its trial.
  In the tree of four nodes the first change of step is where a middle agent can
  fall behind; `MaxStep = 2` was checked as well (329,605 states for the tree alone),
  and `FileInSync` holds for every tree and step.
- One failure, exception or refusal is enough to leave each loop half way and to go on
  with what it left; the theorems about these modules hold for any number of them.
- Eleven entries fill the history of six and shift it by five, more than the longest
  period the detector can find in it.
- A counter with four values wraps with rates 1 and 3 within six ticks, in every
  position of a window of three samples.
- Eight passes of the frequency balancer hold three balances with measured times, the least
  for a limited core to become the fastest, be rounded down, and be freed. The same holds
  with achieved frequencies {2, 3, 6} (three balances, 2.9 million states) and with three
  cores (two balances, 1.6 million).
- Two GPUs with two subdevices are the least for which exchanging the two parts of
  an index names another chip.
- `CHECK_DEADLOCK FALSE` is set where the system really may stop: a client
  that makes no more requests (`bs_all`), all clients dead or the job ended
  (`PF_all`), and objects whose history has its full length or that were destroyed
  (`runtime`, `iogroups`, `platformio`).

These hold in the same instances, checked with their configuration and not listed
as properties of the runs: the type invariant of each module; `LockHolderWatched`,
`SessionsDurable`, `StoppedClean` (`PS_alone.cfg`); `DeadClientStops`, `PenaltyWorse`
(`BS.cfg`); `StatusCurrent` (`AP_one.cfg`), `EndsWhenStopped` (`AP_two.cfg`);
`FilesUntilRestart`, `SessionFreesLock`, `OneController`, `CallsMatch`,
`ControllersFirst` (`PF.cfg`); `InSync`, `TargetIsSlowest`, `StepReached`, `LimitArrives`
(`PB_two.cfg`); `EpochTotals`, `EpochPerPeriod`, `EpochsContiguous`, `PolicyWhole`
(`Runtime.cfg`); `RestoreExact`, `SysfsRestoreExact`, `SstBatchAlone` (`IOGroups.cfg`);
`IndicesNameRequests`, `RestoreReturns`, `DrainsOpenOnly`, `GroupsReleased`, `SentUnlessCleared`,
`ChipsFollow`, `ActiveExact`, `WaitingLow`, `SlowedInTime`, `SampleOfLastRead`,
`IndexNamesRequest`, `SourcesAvailable`, `FactorsRestored` (`PIO.cfg`).

## 4. Fairness

- `ps_live`: a handler that has begun goes on (weak fairness); systemd starts the
  daemon again after a crash (weak); the GLib timer of every session fires
  (strong, because other requests disable it again and again). No client has to do
  anything.
- `bs_all`: `Fairness` of BatchServer: each process that can take a step takes one, and
  the daemon goes on with a server that has started; nobody has to make a request or
  send a signal.
- `AP_two`: only the controller thread. Processes may stop for ever between two calls,
  and die there or inside a call. `EndsWhenDead` does not say that the controller gets past a log
  that was left locked (section 6).
- `PF_all`: `Fairness` of ProfileService: the second step of `start_profile()`, the
  restart, and timers as above. `JobEnds` needs none: it says that some process can
  go on until all have ended.
- `pb_two`: each controller's loop goes on. Nothing makes the application reach an
  epoch, so a measuring step need not end.
- `KeepsDraining` of LevelZeroMetrics holds under `MetricsLive`, the loop of the
  background thread, with the constants of `PIO.cfg`.

The other runs check safety only.

## 5. Proofs

Each theorem is for every value of the constants that satisfies the named assumption
of its module. A safety property is proved through an inductive invariant that adds
what the property alone does not say: what each step of a handler or a call in
progress relies on.

`PlatformService_proofs` (`ConstantsAssumption`; all but `TypeCorrect` for a
`Contained` environment):

- `TypeCorrect`: `Spec => []TypeOK`.
- `Inductive`: `IInv` is an invariant. `RestorableAlways` alone is not inductive: that
  the copy is complete when the lock is taken, and the lock still held while
  the hardware differs, depends on the step the handler is in. `IInv` adds what
  each step knows: `ModeSteps` (in `_write_mode()` the lock is free until the
  copy equals the settings), `CloseSteps` (while a write session is being closed its
  session and its file are gone already), `StartFrames` (which steps belong to the
  start of the daemon), `CopyKept` (the only time a held lock has no copy is after
  the restore), and `WritersHoldLock` (a batch server with controls belongs to the
  open session that holds the lock).
- `Restorable`: `RestorableAlways`, for any clients, settings and crashes.
- `ServersBelong`: `ServersHaveSessions`. It speaks of the time between handlers only;
  `ServersRecorded` holds at every step and also says that the session has recorded
  the server, which is what the steps that close a session look at.
- `Implements`: every step is a step of `WriteSession` or a stutter, with
  `owner <- lock`.

`Contained` excludes SIGTERM inside a handler, a wrong PID in `stop_batch()`, and
batch writers that do not lead their session: section 6 shows that each of them
breaks the result.

`Service_proofs` about ProfileService (`ProfileServiceAssumption`):

- `TypeCorrect`.
- `Membership`: `ProfilesMatch`, with `Inv = SessionsSound /\ ProfilesMatch`: only an
  open session has a profile, also in its file, which is what a restart reads.
- `CleanWithOneUser`: `SingleUser => (Spec => []NoLeftover)`. The hypothesis cannot
  be dropped (section 6).

`Clients_proofs` about BatchServer (`BatchAssumption`), for any number of requests and servers and
all faults:

- `RepliesAreTrue` (`AnswersAreTrue`) and `ServersCleanUp` (the action property
  `NothingLeftOver`), from `BatchInv`: without a request under way both FIFOs are empty
  and the server is not busy (`HoldingOK`), a request under way is in exactly one place
  (in the FIFO, in the server, carried out with its reply pending: `FlightOK`), and the
  server has unlinked its files before it can find its client gone (`FilesOK`). An answer
  left over by a former request is what would make a later one untrue. `StartOK` is about
  the start: at each of its steps the files are those that the server found or has made
  itself, and nothing goes through them yet.
  `NothingLeftOver` names the two starts that do leave files behind: the client died before
  its FIFO was handed over, or a file of a former server was in the way.
- `TypesHold`: that the server answers with one of two messages needs `LoopOK`.

`Clients_proofs` about Optimizer (`OptimizerAssumption`):

- `BestIsFound` (`BestFound`), for any command lines, any set of natural numbers as
  measures, and any number of trials. The entry is selected by its score, and the scores were
  computed one by one with a scale that grows in between. `OptInv` says of every entry that
  it is feasible exactly when its violation is zero, and that the score of a feasible entry
  is the objective alone (`EntryOK`): then scores of feasible entries compare whatever
  the scales were (`ScoreIsObjective`). That the selection has an answer at all is
  `SelectsLeast`. A strict constraint is left out by the property (section 6).

`Service_proofs` about AccessLists (`AccessAssumption`):

- `SessionsJustified`: `SessionJustified`, for any groups, names, editors and changes.
  `AccessInv` follows the request through the files: groups that are done are in the
  answer, names that were allowed throughout are still in the file that is read next,
  and nothing was taken that was not allowed at some time (`Reading`); a file has the
  list that was written last, because it is replaced as a whole (`WholeOK`).

`ApplicationProfile_proofs` (`LogAssumption` and
`ProfileAssumption`), for any processes, regions, calls and size of the record table, and
for a dump at any point between two calls, with processes that die there
or inside a call:

- `ProfileTypes`: `TypeOK`.
- `UpdateNeverThrows` (`ControllerSurvives`): as long as no call of a process has thrown,
  the validator accepts every record that the sampler reads, no count of processes goes
  below zero, and no handle is out of range.
- `NoVisitLost` (`VisitsConserved`): a visit is counted, in the buffer, or in the log.
- `HandlesInOrder` (`HandlesMatch`).

All follow from `Inv`, one induction over the whole step relation. None of the properties
speaks of the map with which the log remembers where it put a region, but all depend on it.
`LogExact` says what that map means once the resetting of the next call has been done
(`ResetExact`): a region that is entered has its entry record at the index in the map and
nothing of regions after it (`Open`), or its entry was dumped (`Carried`), or its visits
are counted by the one short region of its name (`Listed`); no other region is in the
map (`MapExact`); the short region events name the short regions in order (`Shorts`); the
validator that reads on from where the last dump ended accepts the log and ends in
the region that the process is in (`Unfinished`). A visit that turns an entry record into a
short region event therefore loses nothing, whether or not a dump has come between.
`StopOnce` says that a process has at most one stop record, in its log or in the buffer and
not yet digested, `Starts` and `Together` that every stop that may still come has a start
record, counted or on the way before it: without the second, update_stop() could count below
zero. Processes one of whose calls has thrown are left out of all but the types.

`NumberSetTheorems`: SumFunctionOnSet() of the community modules does what its name says:
its recursion has a solution (`SumDefined`), a term can be split off whichever it is
(`SumSplit`), and it depends on the terms only (`SumSame`). These are proved from a
smallest set for which they fail, since a theorem of induction with an operator as its
parameter cannot be used.

`PowerBalancerAgent_proofs` (`TreeAssumption`: every agent but the root has one parent,
and the highest level is the root's alone; `PowerAssumption`), for any tree and number
of steps, with a policy file:

- `FileInSync`: nobody throws because a policy or a sample is of the wrong step.
- `FileLockstep`: `Lockstep`.

Both follow from `InStep`. Neither is inductive: a parent may go on only because each
child has completed the step, which it knows from a sample in a mailbox that could be
old. `FollowOK` relates the steps of parent and child (equal, or one behind and
complete), `SamplesOK` says that a sample in a mailbox is of a step that its sender has
completed, `BoxesOK` that a policy in a mailbox is of the sender's step, and `RootOK`
what the root has sent. That all nodes follow the root (`AllFollowRoot`) is an
induction over levels, by the least level at which it would fail. With an endpoint a
new limit takes the root back to step 0, and these results do not hold in this form.

`Runtime_proofs`:

- `SamplesAreOfTheJob` (`EndpointAssumption`): `SampleOfThisJob`, for any number of opens,
  jobs and writes. `EndpointInv` says of each region, linked or not, whose values it
  has: a region that names an agent has only values of the job that wrote the name.
- `CpuSettingsFollow` (`CPUActivityAssumption`, and scalability ratios of at most one):
  `CpuFollows`, for any cores, packages, frequencies and tables of bandwidth. `LastIsSet`
  is the missing part: what the agent remembers as its last setting is what the
  hardware has, so that leaving out equal settings changes nothing. With a ratio above
  one the request is clamped after the comparison (section 6).
- `PoliciesApplied` (`MapAssumption`): `MapApplied`, for any fan-out of the tree, any domains,
  regions and frequencies, and any sequence of policies. `LeafOK` relates what the leaf agent
  remembers to its controls, also in the half of the loop in which the property says nothing:
  a domain has the frequency remembered for it, the uncore has what the last policy had or
  is back at its initial setting, and before the first policy nothing was touched.
  `WalkedIs` is the other half: whatever the mailboxes hold and whichever levels a controller
  has, what reaches its leaf is a policy that somebody asked for; `walk_down()` is a
  recursive function of the level, whose existence is `WalkDefined`.
- `SettingsArrive` (`PioAssumption`): `SettingsReach`, for any IOGroups, any parts and any
  settings, whatever throws. `TableOK` says that the table of pushed controls has one entry
  for each part that was pushed, none that nothing leads to, and for the board the entries of
  all parts; the IOGroup of a part depends only on what can be accessed (`HomeOf`), so that no
  two IOGroups ever keep settings of one part. `Due` says that what was asked for a part is kept
  by that IOGroup or has been written, also when a batch threw, and `LoopOK` that an
  IOGroup that had its turn in `write_batch()` has nothing left. The push of all parts is a
  recursive function whose existence is `PartsDefined`, and that a finite set of numbers
  can be put in order is `InAscendingOrder`.

`IOGroups_proofs`:

- `OtherFieldsKept` (`MSRAssumption`): the action property `KeepsOthers`, for any
  settings, foreign writes and failures. `MsrInv` says of a batch between its two passes
  that what it read is still what the register has (`ContextsOK`, unless the batch
  stopped half way before), and the same of `write_msr()` (`BufferOK`).
- `OneRetryIsEnough` (`SysfsAssumption`): `BatchReaches`, for any frequencies. Of two
  settings that fit together only one is ever refused (`OneRefused`), because a refused
  minimum means a maximum that is raised, and what the second pass refuses is refused
  for good (`RefusedForGood`).
- `FeaturesRestored` (`SstAssumption`): `SstRestoreExact`. The driver accepts the features
  as they are and as a restore would leave them (`SstInv`), also after controls that
  could not be saved were dropped.
- `ReportsAreConserved` (`MetricsAssumption`): `ReportsConserved`, for any number of chips,
  reports and failures of either thread.
- `PairsAreRead` (`SignalAssumption`): `PairsMatch`, for any indices, any order of pushes and
  reads, and failures in the middle of a batch. `ListOK` says that a signal is in the list once
  and a time stamp after its energy, `PartsListed` that a derivative has both its parts there, and
  `PairsStored` follows `read_batch()` down the list: while the stamp of an energy that was
  read has not been read, the device keeps exactly that stamp. If the time stamp could come first it
  would be that of the batch before.
- `ThreadDrainsOpen`: `DrainsOpenOnly`; the thread has ended before the destructor begins
  to close streamers (`ThreadsOK`, `OpenOK`).

Only model-checked, and why:

- liveness under fairness and `ENABLED` (`JobEnds`) are outside the prover's reach;
- `WithinBudget` does not hold for all constants (section 6: a limit at the minimum), and a
  condition on them that excludes just these cases is not known;
- `RegionTotals`, `UnlimitedAgain`, `RangesReach`, `NoResidue` and the batches of SST registers are
  about folds over sequences, `CounterExact` about sums over a window, `DetectorExact`
  about a recursively defined distance: each needs an induction over data of its own;
- `ReadsOwnChip` is about lists that are filtered, folded and sorted, for the same reason;
- `RestoreFileExact` is about the encoding of the time window, with powers of two and
  a logarithm;
- `RestoreReturns` and the exactness of MSRIOGroup's restore, and the results of
  PowerBalancerAgent with an endpoint, which are within reach (section 7).

## 6. Statements the code does not satisfy

One of these is a run of `PROJECT.json`: `sst_batch` (`SstBatchDone`, `SSTIO.cpp:364`). Every
pushed SST control has its own copy of its register and all are read before any is
written, so of two fields of one register the one written second puts back the old
value of the other.

The others are definitions of their modules that no run lists. TLC refutes each one
with the configuration in the first column, changed as said there, with the property
added (and `SYMMETRY` left out for a temporal one).

The service:

| configuration | property | where | what happens |
|---|---|---|---|
| `PS_grouped.cfg`, `BatchWriters = {a}`, `Faults = {}`, `MaxCrash = 0` | RestorableAlways | `service.py:502` | a batch server belongs to the client that started it, the lock to its session leader: after the leader's session was closed and the controls restored the follower's server still writes them |
| the same with `BatchWriters = {}`, `MaxClock = 2`, `FairSpec` | DeadWriterReleased | `service.py:899` | the leader dies while `_write_mode()` opens its session: the lock is assigned and no timer releases it |
| `PS_live.cfg`, `Pid = {a}`, `BatchWriters = {}`, `Faults = {"recycle"}`, `MaxClock = 4`, `MaxCrash = 0` | SessionEndsWithClient | `service.py:930` | `check_client()` looks at the PID only: the session of a dead client whose PID was reused stays open. The docstring of `open_session()`: "will also be ended if the client thread terminates for any reason" |
| `PS_live.cfg`, `Pid = {a}`, `BatchWriters = {}`, `Faults = {"sigterm"}`, `Spec` | StoppedRestored | `__main__.py:34` | an interrupted `write_control()` goes on after `close_all_sessions()` and writes after the restore |
| `PS_live.cfg`, `BatchWriters = {}`, `Faults = {"crash", "idclash"}`, `Spec` | SessionsWatched | `service.py:502` | at start a session is closed with the watch ID of the former daemon, which may be that of a new timer |
| `PS_live.cfg`, `Pid = {a}`, `BatchWriters = {a}`, `Faults = {"wrongstop"}`, `Spec` | ServersHaveSessions | `service.py:668` | `stop_batch()` with another PID warns and forgets the running server |
| `PS_alone.cfg` | OnlyBadDiscarded | `system_files.py:331` | a file that `geopmaccess` put in place after `is_secure_file()` looked at the former one is moved away |
| `BS.cfg`, `Faults = {}`, `MaxRequest = 2`, `MaxStart = 1` | StopReturns | `BatchServer.cpp:206` | SIGTERM between the test of `g_sigterm_count` and the blocking call is counted and wakes nobody; the daemon waits in `communicate()` |
| the same | CallReturns | `BatchStatus.cpp:187` | the client blocks in `open()` of a FIFO whose server has gone |
| the same with `Faults = {"sigpipe"}` | ErrorNotDeath | `BatchStatus.cpp:54` | a write to a FIFO without reader raises SIGPIPE, which nothing ignores |
| `BS.cfg`, `Faults = {}`, `MaxRequest = 1`, `MaxStart = 1` | NothingLeftOverAlways | `BatchStatus.cpp:117` | the server makes a FIFO and then looks up the client to hand it over; if the client has just died it throws from the constructor, and the FIFOs stay |
| the same | CleanedUp | `system_files.py:805` | the daemon looks for left-over files under names the server does not use |
| `PF.cfg`, `Name = {n1}`, `MaxCrash = 0`, `Uid <- TwoUsers` | NoLeftover | `system_files.py:866` | the status file is one per user but is made with the first and removed with the last profile of any user |
| `PF.cfg`, `Name = {n1}` | FilesPresent | `system_files.py:418` | a restart removes the files of processes that are being profiled and loads their sessions |
| the same | KillFreesLock | `service.py:873` | a controller without a session that dies keeps the profiler lock |

The runtime:

| configuration | property | where | what happens |
|---|---|---|---|
| `AP_one.cfg`, `MaxRecord = 3`, `MaxEpoch = 1`, `WorkUnits = 0` | NoOverrun | `ApplicationRecordLog.cpp:145` | `enter()` registers a region with an index past the table before it throws; a later `exit()` writes there |
| the same with `Ignore = {r2}` | IgnoredEpochs | `Profile.cpp:337` | the test for the IGNORE hint reads a member that is never assigned |
| `AP_one.cfg`, `MaxRecord = 3`, `MaxVisit = 1`, `MaxEpoch = 1` | ProgressBounded | `ApplicationStatus.cpp:127` | a second `geopm_tprof_init()` does not reset the completed units |
| `AP_one.cfg`, `MaxRecord = 3`, `MaxEpoch = 3`, `WorkUnits = 0` | StreamAlwaysValid | `ApplicationRecordLog.cpp:164` | `epoch()` counts before it throws: the controller's validator fails on the gap |
| `AP_two.cfg` | EndsWhenDeadAlways | `ApplicationRecordLog.cpp:248` | the mutex of a record log is shared between processes and not robust (`SharedMemory.cpp:52-78`): a process killed inside `enter()`, `exit()` or `epoch()` leaves `dump()`, and with it the controller, waiting for ever |
| `AP_two.cfg` | ShutdownWaits | `ApplicationSampler.cpp:275` | a process whose start record was not read yet is not waited for |
| `PF.cfg` | JobEndsAlways | `geopm_pmpi_helper.cpp:310` | a controller that could not be made, or an error of `geopm_prof_shutdown()`, leaves processes and controllers waiting for each other in barriers |
| `PF.cfg` | ControllersFirstAlways | `geopm_pmpi_helper.cpp:310` | after an error of `geopm_prof_shutdown()` the controller's thread is not joined |
| `PF.cfg` | OneControllerAlways | `MPICommSplit.cpp:55` | another job of the user removes the file between two processes that look for it |
| `PB_two.cfg`, `Budget = NoCap`, `UseEndpoint = {TRUE}`, `MaxStep = 2` | InSync | `PowerBalancerAgent.cpp:406` | with an endpoint that has no policy at start the leaves complete step 0 with the default limit and the root, whose own policy is not set, throws |
| `PB_two.cfg`, `Budget = 8`, `Budgets = {}`, `UseEndpoint = {FALSE}` | WithinBudget | `PowerBalancerAgent.cpp:240` | at the minimum power the balancer is not told that its request was raised, reports slack that does not exist, and the budget is exceeded when it is handed out |
| `PB_two.cfg`, `Budgets = {12}`, `UseEndpoint = {TRUE}`, `MaxStep = 2` | EndpointSteps | `Controller.cpp:448` | with an endpoint `split_policy()` is called only when the policy changed, so the root never leaves step 0 |
| the same with `Runtime = {1}` and the tree of four nodes (`Node22`, `Ctl22`, `Kids22`) | LimitArrives | `PowerBalancerAgent.cpp:339` | a middle agent forwards a policy only if its step differs: a second limit, again at step 0, stays there |
| `Runtime.cfg` | PeriodTotals | `SampleAggregator.cpp:242` | with NAN in the interval in which a period ended, its end is skipped as well |
| `Runtime.cfg` | WeightsAreTime | `SampleAggregator.cpp:282` | the first interval counts from TIME zero |
| `Runtime.cfg` | AttachmentSeen | `EndpointUser.cpp:54` | a job that attaches between the creation of the region and its clearing in `open()` is not seen |
| `Runtime.cfg` | TimeoutMeansAbsent | `Endpoint.cpp:162` | the exception is thrown also if the agent was seen in the last poll |
| `Runtime.cfg` | SampleFits | `Endpoint.cpp:120` | the job has changed since `get_agent()`, and more values are copied than there is room for |
| `Runtime.cfg` | PolicyForThisJob | `EndpointUser.cpp:119` | the former job's policy stays in the region; a longer one is an error |
| `Runtime.cfg` | BoundsFollow | `CPUActivityAgent.cpp:307` | `validate_policy()` clamps to the earlier bounds, which only ever get narrower |
| `Runtime.cfg` | PolicySurvived | `CPUActivityAgent.cpp:307` | CPU_PHI of 1 after 0 crosses the bounds and ends the controller |
| `Runtime.cfg`, `Scalabilities` and `Rates = {0, 2, 4, 8}` | CoresBounded | `CPUActivityAgent.cpp:390` | with a scalability above one the request is clamped after it was compared, and is adjusted but not written |
| `PIO.cfg` | SentWhole | `FrequencyMapAgent.cpp:216` | a policy that only clears a frequency is not sent |
| `PIO.cfg`, `UseGpu = TRUE` | GpuApplied | `FrequencyMapAgent.cpp:331` | a GPU frequency that is cleared stays in force, unlike the uncore's |
| the same | GpuPolicyAccepted | `FrequencyMapAgent.cpp:128` | agents above the leaves never set `m_do_gpu_ctl` and throw |
| `PIO.cfg`, `MCFan == <<2, 2>>` | PassedOn | `TreeCommLevel.cpp:173` | in a tree of several levels a policy with a NAN in it is taken for none |
| `PIO.cfg` | ClosedAtLastActive | `GPUActivityAgent.cpp:434` | "at the previous sample, which was the last active one": not if the activity was unknown in between |
| `PIO.cfg` | LowestMeansIdle | `GPUActivityAgent` | a chip that was busy under a policy that favours performance goes on with the time it was idle before |
| `PIO.cfg` | OneUnlimited | `FrequencyTimeBalancer.cpp:249` | "ensure at least the cores with the highest requested frequency are not limited": the highest one, scaled in doubles, can be just below the maximum, and `FrequencyBalancerAgent.cpp:342` rounds a core that was limited before down to one step below it; the next balance frees all |
| `PIO.cfg`, `NumPackages = 2`, `PerPackage = 1` | ClosMatches | `FrequencyBalancerAgent.cpp:399` | `frequency_by_core` has the length of one package in a pass that balances, and the loop ends there |

PlatformIO, the IOGroups and geopmopt:

| configuration | property | where | what happens |
|---|---|---|---|
| `PIO.cfg` | PushedReadable | `PlatformIO.cpp:254` | the read that `push_signal()` tries "to ensure batch reads will succeed" is left out for a name that was pushed before, from whichever IOGroup |
| `PIO.cfg` | RestoreNeedsSave | `PlatformIO.cpp:714` | `m_do_restore` is set before anything is saved: after a save that threw a restore writes |
| `PIO.cfg`, `MaxFaults = 2` | FailuresHandedOver | `LevelZero.cpp:999` | of two errors the thread meets before anybody asks only one reaches a caller |
| `PIO.cfg` | SameIndex | `ConstConfigIOGroup.cpp:138` | a constant with one value for all, pushed again for a domain index other than 0, gets another index |
| `PIO.cfg` | FailedReadIsNotSampled | `SignalGroups` | some groups note the call of `read_batch()` before they read |
| `PIO.cfg` | ReadsOwnChipAlways | `LevelZeroDevicePool.cpp:67` | lists of handles are filled in the order in which the driver names subdevices |
| `PIO.cfg` | FactorsRestoredAlways | `LevelZeroIOGroup.cpp:1540` | where each GPU is one chip the restore passes the native domain on, and fails |
| `PIO.cfg` | FeaturesOptional | `LevelZero.cpp:205` | a feature that the driver does not support costs more than its own signals |
| `PIO.cfg` | ControlsWork | `LevelZeroIOGroup.cpp:977` | pruning erases another name than that of the performance factor, which is offered and cannot be written |
| `PIO.cfg` | ReadsDefined | `LevelZero.cpp` | the error counters of a GPU without subdevices are read past the end of a list |
| `IOGroups.cfg` | OtherBoundKept | `NVMLIOGroup.cpp:804` | a restore resets the device but not the remembered requests: writing one bound afterwards puts the other one back |
| `IOGroups.cfg` | RestoreFileAll | `SaveControl.cpp:152` | the enable bit is restored before the limit, which also writes it: a limit other than zero that was disabled comes back enabled |
| `IOGroups.cfg` | KeepsOthersAlways | `MSRIOGroup.cpp:865` | the batch after one that stopped half way writes fields that nobody adjusted since |
| `IOGroups.cfg` | CounterTrue | `IOGroup.hpp:39` | a sample that is older than a direct read counts as a turn of the counter |
| `IOGroups.cfg` | AdjustReaches | `IOGroup.hpp:119` | `adjust()` ignores a setting equal to the last one, although the file was written under its other name since |
| `BS.cfg` | BestFoundAlways | `optimizer.py:1138` | a metric equal to the bound of a strict constraint has violation 0 and counts as feasible |
| `BS.cfg`, `Bound = 1` | LeastInfeasible | `optimizer.py:1346` | scores that were computed with different scales are compared |
| `BS.cfg` | TrialAlone | `optimizer.py:802` | a timeout kills `geopmsession` and not the application under it |
| `BS.cfg` | RefusedEarly | `Optimizer` | metrics that refer to each other are found out in the first trial |
| `BS.cfg` | OrderFree | `Optimizer` | a metric with the name of a base metric is used by those that follow it on the command line only |
| `BS.cfg` | OwnRange | `grid.py:401` | the ranges of a control that is swept twice are merged |

Seen while modelling, without a property: the two parsers of hysteresis times in
`RecordFilter` return `int`, so 1.5 becomes 1; `geopmlaunch.1.rst` says that the default buffer
size is 100, the code's is 50; `FrequencyBalancerAgent::update_policy()` never sets
`m_is_policy_updated`; `geopmaccess.1.rst:178-181` differs from `access.py:300-307`;
`WriteLock.__enter__()` leaves `_is_file_active` true when it throws
(`system_files.py:1321-1350`).

## 7. Plan

Done: the service with its abstract specification and proofs; the batch server; the
record log and the profiling of applications; the profile service; the tree of controllers
with the power balancer; access lists; PlatformIO and the IOGroups that set controls; LevelZero;
record filters and aggregation; the agents of one node and the frequency map; the endpoint; the
start and end of MPI jobs; geopmopt.

Theorems to add, most important first:

1. `RestoreReturns` of PlatformIO, with what each IOGroup has saved in the invariant of
   `SettingsReach`, and the same of MSRIOGroup in memory.
2. The first half of `CounterExact`: the number of wraps counted so far.
3. `InSync` of the balancer with an endpoint and one level.

To model next: ServiceIOGroup, the client side of a session across `fork()`; the worker
threads of the gRPC server around the same PlatformService; the nesting of domains in
PlatformTopo; the balancer with several packages and in single node mode.

## 8. Not modelled

- Transport (D-Bus, gRPC, SD-Bus messages) and ServiceIOGroup; the threads of the gRPC server.
- Statistics (StatsCollector, RuntimeStats) and neural nets, which are floating point.
- Reports, traces, parsing of files and environment, the policy store, the launcher and the
  Python clients other than geopmopt and `geopmaccess`; language bindings; benchmarks.
- PlatformTopo and the tables of registers and files from which IOGroups are built;
  RestorableFileWriter.
- In the modelled parts: the JSON schema of session files and the ownership checks
  on them; time stamps, overhead and affinity of records; hint times and CPU maps of
  the sampler; `fork()`; PID reuse in ProfileService; a controller killed while it holds
  the lock of a record log;
  the conversion of units and the functions that aggregate samples over a domain; the choice
  between ioctl and IOUring; PowerGovernor and MonitorAgent.
