-------------------------- MODULE ApplicationProfile --------------------------
(***************************************************************************)
(* Profiled processes and the controller that samples them: the Profile    *)
(* object of each process (libgeopm/src/Profile.cpp) writes its record log *)
(* and its entry of the status table, the ApplicationSampler of the        *)
(* controller empties the logs one by one, validates every record, and     *)
(* the ProcessRegionAggregator turns them into the visit counts of the     *)
(* report.  ApplicationIO finds the processes and tells when they ended.   *)
(*                                                                         *)
(* A process is a PID; the set of CPUs it runs on is one entry of the      *)
(* status table.  A process calls Profile with properly nested regions and *)
(* ignores the error codes of the C interface, which is all the interface  *)
(* asks of it.  Every region has its own hint.                             *)
(***************************************************************************)
EXTENDS ApplicationRecordLog, FiniteSetsExt

CONSTANTS NumProc,     \* GEOPM_NUM_PROC; the processes are 1 .. NumProc
          Unmarked,    \* GEOPM_REGION_HASH_UNMARKED and ..._HINT_UNSET
          Ignore,      \* the regions registered with GEOPM_REGION_HINT_IGNORE
          MaxVisit,    \* bound: outermost entries of one process
          MaxEpoch,    \* bound: epoch calls of one process
          MaxDepth,    \* bound: nested regions
          WorkUnits    \* bound: units announced by one geopm_tprof_init(), 0 for none

ASSUME ProfileAssumption ==
    /\ NumProc \in Nat \ {0}
    /\ Unmarked \notin Hash \cup {NoHash}
    /\ Ignore \subseteq Hash
    /\ {MaxVisit, MaxEpoch, MaxDepth, WorkUnits} \subseteq Nat

Process == 1 .. NumProc

VARIABLES
    phase,      \* a process: "new", "registered", "on", "leaving", "off" or "dead"
    registered, \* the PIDs that the service answers to get_profile_pids()
    hint_stack, \* Profile::m_hint_stack
    current,    \* Profile::m_current_hash
    log,        \* the record log of each process
    status,     \* the process's entry of ApplicationStatus
    pc,         \* the controller: "connect", "dump", "digest", "check", "done" or "failed"
    last,       \* the controller is in the update that follows the loop
    todo,       \* processes whose log this update has still to dump
    sampler,    \* members of ApplicationSampler
    valid,      \* the ValidateRecord of each process
    counts,     \* ProcessRegionAggregator::m_region_info, the total_count part
    io_pids,    \* ApplicationIO::m_profile_pids
    nest,       \* the regions the process itself is in, outermost first
    work,       \* work units the process has still to post
    visits,     \* how often the process has left a region it entered outermost
    entries,    \* outermost entries so far, for the bound
    outside,    \* epoch calls made outside of a region hinted IGNORE
    threw,      \* the processes one of whose Profile calls has thrown
    locked      \* the processes that died holding the mutex of their record log

appVars == <<nest, work, visits, entries, outside, threw, locked>>
profVars == <<phase, registered, hint_stack, current, log, status, appVars>>
ctlVars == <<pc, last, todo, sampler, valid, counts, io_pids>>
vars == <<profVars, ctlVars>>

Idle == [hash |-> Unmarked, hint |-> Unmarked, total |-> 0, done |-> 0]

Init == /\ phase = [p \in Process |-> "new"]
        /\ registered = {}
        /\ hint_stack = [p \in Process |-> <<>>]
        /\ current = [p \in Process |-> Unmarked]
        /\ log = [p \in Process |-> NewLog]
        /\ status = [p \in Process |-> Idle]
        /\ pc = "connect"
        /\ last = FALSE
        /\ todo = {}
        /\ sampler = [buffer |-> <<>>, shorts |-> <<>>, clients |-> {}, client_pids |-> {},
                      num_registered |-> 0, do_shutdown |-> FALSE]
        /\ valid = [p \in Process |-> [epoch |-> 0, hash |-> NoHash, ok |-> TRUE]]
        /\ counts = [p \in Process |-> [h \in Hash |-> 0]]
        /\ io_pids = {}
        /\ nest = [p \in Process |-> <<>>]
        /\ work = [p \in Process |-> 0]
        /\ visits = [p \in Process |-> [h \in Hash |-> 0]]
        /\ entries = [p \in Process |-> 0]
        /\ outside = [p \in Process |-> 0]
        /\ threw = {} /\ locked = {}

-----------------------------------------------------------------------------
(* The calls of one process.                                               *)

\* Profile::connect(), up to the service's answer: the PID is registered and
\* its record log and status table exist.
Register(p) ==
    /\ phase[p] = "new"
    /\ phase' = [phase EXCEPT ![p] = "registered"]
    /\ registered' = registered \cup {p}
    /\ UNCHANGED <<hint_stack, current, log, status, appVars, ctlVars>>

\* The rest of Profile::connect(): init_app_record_log() and reset_cpu_set().
Start(p) ==
    /\ phase[p] = "registered"
    /\ phase' = [phase EXCEPT ![p] = "on"]
    /\ log' = [log EXCEPT ![p] = LogMark(LogMark(@, "START"), "AFFINITY")]
    /\ status' = [status EXCEPT ![p].hash = current[p], ![p].hint = Unmarked]
    /\ UNCHANGED <<registered, hint_stack, current, appVars, ctlVars>>

\* Profile::enter().  The hash is taken before the log may throw, the hint and
\* the status after it.
Enter(p, h) ==
    LET outermost == current[p] = Unmarked
        throws == outermost /\ EnterThrows(log[p], h)
        bounded == outermost \/ nest[p] = <<>>
    IN  /\ phase[p] = "on"
        /\ Len(nest[p]) < MaxDepth /\ (bounded => entries[p] < MaxVisit)
        /\ entries' = [entries EXCEPT ![p] = IF bounded THEN @ + 1 ELSE @]
        /\ nest' = [nest EXCEPT ![p] = Append(@, h)]
        /\ current' = [current EXCEPT ![p] = IF outermost THEN h ELSE @]
        /\ log' = [log EXCEPT ![p] = IF outermost THEN LogEnter(@, h) ELSE @]
        /\ IF throws
           THEN threw' = threw \cup {p} /\ UNCHANGED <<status, hint_stack>>
           ELSE /\ status' = [status EXCEPT ![p].hash = IF outermost THEN h ELSE @,
                                            ![p].hint = h]
                /\ hint_stack' = [hint_stack EXCEPT ![p] = Append(@, h)]
                /\ UNCHANGED threw
        /\ UNCHANGED <<phase, registered, work, visits, outside, locked, ctlVars>>

\* Profile::exit().  The hint is popped before the log may throw, the hash and
\* the status are reset after it.
Exit(p) ==
    LET h == Last(nest[p])
        stack == Front(hint_stack[p])
    IN  /\ phase[p] = "on" /\ nest[p] # <<>>
        /\ nest' = [nest EXCEPT ![p] = Front(@)]
        /\ visits' = [visits EXCEPT ![p][h] = IF Len(nest[p]) = 1 THEN @ + 1 ELSE @]
        /\ \/ /\ hint_stack[p] = <<>>
              /\ threw' = threw \cup {p}
              /\ UNCHANGED <<hint_stack, log, current, status>>
           \/ /\ hint_stack[p] # <<>> /\ stack # <<>>
              /\ hint_stack' = [hint_stack EXCEPT ![p] = stack]
              /\ status' = [status EXCEPT ![p].hint = Last(stack)]
              /\ UNCHANGED <<log, current, threw>>
           \/ /\ hint_stack[p] # <<>> /\ stack = <<>>
              /\ hint_stack' = [hint_stack EXCEPT ![p] = stack]
              /\ log' = [log EXCEPT ![p] = LogExit(@, h)]
              /\ IF ExitThrows(log[p], h)
                 THEN threw' = threw \cup {p} /\ UNCHANGED <<current, status>>
                 ELSE /\ current' = [current EXCEPT ![p] = Unmarked]
                      /\ status' = [status EXCEPT ![p] = Idle]
                      /\ UNCHANGED threw
        /\ UNCHANGED <<phase, registered, work, entries, outside, locked, ctlVars>>

\* Profile::epoch().  m_curr_region_id is zero from the constructor on and no
\* method assigns it, so its hint is never IGNORE and no call returns early.
Epoch(p) ==
    /\ phase[p] = "on" /\ log[p].epochs < MaxEpoch
    /\ log' = [log EXCEPT ![p] = LogEpoch(@)]
    /\ threw' = IF IsFull(log[p]) THEN threw \cup {p} ELSE threw
    /\ outside' = [outside EXCEPT ![p] =
                     IF nest[p] # <<>> /\ Head(nest[p]) \in Ignore THEN @ ELSE @ + 1]
    /\ UNCHANGED <<phase, registered, hint_stack, current, status, nest, work, visits,
                   entries, locked, ctlVars>>

\* Profile::thread_init(): a total of one unit is ignored.
ThreadInit(p) ==
    /\ phase[p] = "on" /\ work[p] = 0 /\ WorkUnits > 1 /\ status[p].done <= WorkUnits
    /\ work' = [work EXCEPT ![p] = WorkUnits]
    /\ status' = [status EXCEPT ![p].total = WorkUnits]
    /\ UNCHANGED <<phase, registered, hint_stack, current, log, nest, visits, entries,
                   outside, threw, locked, ctlVars>>

\* Profile::thread_post()
ThreadPost(p) ==
    /\ phase[p] = "on" /\ work[p] > 0
    /\ work' = [work EXCEPT ![p] = @ - 1]
    /\ status' = [status EXCEPT ![p].done = IF status[p].total # 0 THEN @ + 1 ELSE @]
    /\ UNCHANGED <<phase, registered, hint_stack, current, log, nest, visits, entries,
                   outside, threw, locked, ctlVars>>

\* The first half of Profile::shutdown(): the service forgets the PID.
Unregister(p) ==
    /\ phase[p] = "on" /\ nest[p] = <<>>
    /\ phase' = [phase EXCEPT ![p] = "leaving"]
    /\ registered' = registered \ {p}
    /\ UNCHANGED <<hint_stack, current, log, status, appVars, ctlVars>>

\* The second half: the overhead record, then the stop record.  When the first
\* one throws the second is not tried and Profile stays enabled.
Shutdown(p) ==
    LET overhead == LogMark(log[p], "OVERHEAD")
        throws == MarkThrows(log[p]) \/ MarkThrows(overhead)
    IN  /\ phase[p] = "leaving"
        /\ log' = [log EXCEPT ![p] = IF MarkThrows(@) THEN overhead ELSE LogMark(overhead, "STOP")]
        /\ threw' = IF throws THEN threw \cup {p} ELSE threw
        /\ phase' = [phase EXCEPT ![p] = "off"]
        /\ UNCHANGED <<registered, hint_stack, current, status, nest, work, visits,
                       entries, outside, locked, ctlVars>>

\* The process ends, at any time.  When it is killed in a call of Profile that has
\* taken the mutex of the record log nobody unlocks it: the mutex is not robust.  What
\* the call had written by then is never read.
Die(p) ==
    /\ phase[p] # "dead"
    /\ phase' = [phase EXCEPT ![p] = "dead"]
    /\ \/ UNCHANGED locked
       \/ phase[p] \in {"registered", "on", "leaving"} /\ locked' = locked \cup {p}
    /\ UNCHANGED <<registered, hint_stack, current, log, status, nest, work, visits,
                   entries, outside, threw, ctlVars>>

\* The service notices that a registered process is gone.
Forget(p) ==
    /\ phase[p] = "dead" /\ p \in registered
    /\ registered' = registered \ {p}
    /\ UNCHANGED <<phase, hint_stack, current, log, status, appVars, ctlVars>>

-----------------------------------------------------------------------------
(* The controller: Controller::run() around its calls of the sampler.      *)

\* ApplicationIO::connect() and ApplicationSampler::connect(): enough processes
\* are registered, or the timeout has passed.  Without a process there is no
\* status table to attach to.
Connect ==
    /\ pc = "connect"
    /\ io_pids' = registered
    /\ sampler' = [sampler EXCEPT !.clients = registered, !.client_pids = registered]
    /\ todo' = registered
    /\ pc' = IF registered = {} THEN "failed" ELSE "dump"
    /\ UNCHANGED <<profVars, last, valid, counts>>

\* What ValidateRecord holds when it meets record i of a dump that it began as v:
\* m_region_hash, set by an entry and reset by an exit, and m_epoch_count.
RegionAt(v, records, i) ==
    LET before == {j \in 1 .. i - 1 : records[j].event \in {"ENTRY", "EXIT"}}
    IN  IF before = {} THEN v.hash
        ELSE IF records[Max(before)].event = "ENTRY" THEN records[Max(before)].signal ELSE NoHash

EpochAt(v, records, i) ==
    LET before == {j \in 1 .. i - 1 : records[j].event = "EPOCH"}
    IN  IF before = {} THEN v.epoch ELSE records[Max(before)].signal

\* ValidateRecord::check() does not throw on record i.
Check(v, records, i) ==
    /\ records[i].event = "ENTRY" => RegionAt(v, records, i) = NoHash
    /\ records[i].event = "EXIT" => RegionAt(v, records, i) = records[i].signal
    /\ records[i].event = "EPOCH" => records[i].signal = EpochAt(v, records, i) + 1

\* The checks of all records of one dump.
Checked(v, records) ==
    [epoch |-> EpochAt(v, records, Len(records) + 1),
     hash |-> RegionAt(v, records, Len(records) + 1),
     ok |-> v.ok /\ \A i \in DOMAIN records : Check(v, records, i)]

\* (bug) the short region events keep the index into their own process's table
NoReindex(records, num_short, offset) == records

\* The loop of ApplicationSampler::update() that makes the signal of the first
\* num_short short region records an index into m_short_region_buffer.
Reindex(records, num_short, offset) ==
    [i \in DOMAIN records |->
        LET before == {j \in 1 .. i - 1 : records[j].event = "SHORT"}
        IN  IF records[i].event = "SHORT" /\ Cardinality(before) < num_short
            THEN [records[i] EXCEPT !.signal = @ + offset] ELSE records[i]]

\* One pass of the loop over m_process_map in update(): dump the log of the
\* next process, validate its records, append them to the buffers.  dump() waits for
\* the mutex of the log.
DumpOne ==
    LET p == Min(todo)
        records == log[p].records
        checked == Checked(valid[p], records)
        tagged == [i \in DOMAIN records |->
                     [event |-> records[i].event, signal |-> records[i].signal, process |-> p]]
    IN  /\ pc = "dump" /\ todo # {} /\ p \notin locked
        /\ log' = [log EXCEPT ![p] = Dumped(@)]
        /\ valid' = [valid EXCEPT ![p] = checked]
        /\ IF checked.ok
           THEN /\ sampler' = [sampler EXCEPT
                     !.buffer = @ \o Reindex(tagged, Len(log[p].regions), Len(sampler.shorts)),
                     !.shorts = @ \o log[p].regions]
                /\ todo' = todo \ {p}
                /\ pc' = IF todo = {p} THEN "digest" ELSE "dump"
           ELSE pc' = "failed" /\ UNCHANGED <<sampler, todo>>
        /\ UNCHANGED <<phase, registered, hint_stack, current, status, appVars, last,
                       counts, io_pids>>

InBuffer(event) == {i \in DOMAIN sampler.buffer : sampler.buffer[i].event = event}

\* The start records of the buffer, as update_start() counts them.
NumStarted == Cardinality(InBuffer("START"))

\* ProcessRegionAggregator::update(): what the buffer adds to a count.
Completed(p, h) ==
    LET mine(event) == {i \in InBuffer(event) : sampler.buffer[i].process = p}
        short(i) == sampler.shorts[sampler.buffer[i].signal + 1]
        complete == [i \in mine("SHORT") |-> short(i).num_complete]
    IN  Cardinality({i \in mine("EXIT") : sampler.buffer[i].signal = h})
        + SumFunctionOnSet(complete, {i \in mine("SHORT") : short(i).hash = h})

\* get_short_region() throws for an index past the buffer.
BadHandle == \E i \in InBuffer("SHORT") : sampler.buffer[i].signal >= Len(sampler.shorts)

\* The rest of update(): update_start() and update_stop(), which throw when a
\* process stops twice; then the aggregator reads the buffer.
Digest ==
    LET stopped == {sampler.buffer[i].process : i \in InBuffer("STOP")}
        started == sampler.num_registered + NumStarted
        left == started - Cardinality(InBuffer("STOP"))
        twice == Cardinality(stopped) < Cardinality(InBuffer("STOP"))
        throws == twice \/ ~(stopped \subseteq sampler.client_pids) \/ left < 0 \/ BadHandle
    IN  /\ pc = "digest"
        /\ sampler' = [sampler EXCEPT
                         !.num_registered = left,
                         !.client_pids = @ \ stopped,
                         !.do_shutdown = @ \/ (~throws /\ started # 0 /\ left = 0)]
        /\ counts' = IF throws THEN counts
                     ELSE [p \in Process |-> [h \in Hash |-> counts[p][h] + Completed(p, h)]]
        /\ pc' = IF throws THEN "failed" ELSE IF last THEN "done" ELSE "check"
        /\ UNCHANGED <<profVars, last, todo, valid, io_pids>>

\* (bug) dead processes are not looked for
AliveForgetsDead(pids) == pids

\* ApplicationIO::do_shutdown(): the dead PIDs before the first live one go.
StillAlive(pids) ==
    {p \in pids : \E q \in pids : q <= p /\ phase[q] # "dead"}

\* The condition of the loop in Controller::run(); the next update clears the
\* buffers first.  One more update follows the loop.
CheckShutdown ==
    /\ pc = "check"
    /\ io_pids' = StillAlive(io_pids)
    /\ last' = (io_pids' = {} \/ sampler.do_shutdown)
    /\ todo' = sampler.clients
    /\ sampler' = [sampler EXCEPT !.buffer = <<>>, !.shorts = <<>>]
    /\ pc' = "dump"
    /\ UNCHANGED <<profVars, valid, counts>>

\* dump() waits for a process that will never unlock its log.
Blocked == pc = "dump" /\ Min(todo) \in locked

Finished == (pc \in {"done", "failed"} \/ Blocked) /\ UNCHANGED vars

Controller == Connect \/ DumpOne \/ Digest \/ CheckShutdown

Application(p) == \/ Register(p) \/ Start(p) \/ Exit(p) \/ Epoch(p)
                  \/ \E h \in Hash : Enter(p, h)
                  \/ ThreadInit(p) \/ ThreadPost(p)
                  \/ Unregister(p) \/ Shutdown(p) \/ Die(p) \/ Forget(p)

Next == Controller \/ Finished \/ \E p \in Process : Application(p)

Spec == Init /\ [][Next]_vars /\ WF_vars(Controller)

-----------------------------------------------------------------------------
\* Types, and the bound of the record table.
TypeOK ==
    /\ phase \in [Process -> {"new", "registered", "on", "leaving", "off", "dead"}]
    /\ registered \subseteq Process /\ threw \subseteq Process /\ locked \subseteq Process
    /\ current \in [Process -> Hash \cup {Unmarked}]
    /\ \A p \in Process :
         /\ hint_stack[p] \in Seq(Hash) /\ nest[p] \in Seq(Hash)
         /\ Len(log[p].records) <= MaxRecord
         /\ log[p].entered \in Hash \cup {NoHash}
    /\ pc \in {"connect", "dump", "digest", "check", "done", "failed"}
    /\ {todo, io_pids, sampler.clients, sampler.client_pids} \subseteq SUBSET Process
    /\ sampler.num_registered \in Int
    /\ counts \in [Process -> [Hash -> Nat]]

(* What holds as long as no call of a process has thrown.                  *)

\* The controller only fails, in update() or in the aggregator, when it found
\* no process at all or a call of some process has thrown: the logs as the
\* Profile objects write them, cut by dump() at any point, pass every check of
\* ValidateRecord::check(), get_short_region() and update_stop().
ControllerSurvives == pc = "failed" => threw # {} \/ sampler.clients = {}

NumExit(p, h) == Cardinality({i \in DOMAIN log[p].records : log[p].records[i] = Rec("EXIT", h)})

NumShort(p, h) ==
    LET complete == [i \in DOMAIN log[p].regions |-> log[p].regions[i].num_complete]
    IN  SumFunctionOnSet(complete, {i \in DOMAIN log[p].regions : log[p].regions[i].hash = h})

\* Every visit of an outermost region is reported exactly once, as an exit
\* record or as one completion of a short region, wherever dump() falls between
\* enter() and exit(): the visits a process made are those the aggregator has
\* counted plus those still in the log or in the sampler's buffer.
VisitsConserved ==
    pc # "failed" =>
      \A p \in Process \ threw, h \in Hash :
        visits[p][h] = counts[p][h] + NumExit(p, h) + NumShort(p, h)
                       + (IF pc \in {"dump", "digest"} THEN Completed(p, h) ELSE 0)

\* Once all logs are dumped, the signal of the k-th short region event in the
\* sampler's buffer is the k-th short region, over all processes, and there is
\* no short region without its event.
HandlesMatch ==
    pc = "digest" /\ threw = {} =>
      LET short == InBuffer("SHORT")
      IN  /\ Cardinality(short) = Len(sampler.shorts)
          /\ \A i \in short :
               sampler.buffer[i].signal = Cardinality({j \in short : j < i})

\* Between the calls of a process the status table shows the outermost region
\* it is in and the hint of the innermost.
StatusCurrent ==
    \A p \in Process \ threw :
      phase[p] = "on" =>
        /\ status[p].hash = (IF nest[p] = <<>> THEN Unmarked ELSE Head(nest[p]))
        /\ status[p].hint = (IF nest[p] = <<>> THEN Unmarked ELSE Last(nest[p]))

\* The controller ends once all processes are dead, although none of them has
\* written a stop record, unless it has to read the log of one that died in a call
\* and left the log locked.
EndsWhenDead == (\A p \in Process : phase[p] = "dead") ~> pc \in {"done", "failed"} \/ Blocked

\* The controller ends once every process has written its stop record, while
\* the processes live on.
EndsWhenStopped ==
    (threw = {} /\ \A p \in Process : phase[p] = "off") ~> pc \in {"done", "failed"}

(* What the code does not keep.                                            *)

\* The controller ends once all processes are dead, wherever they died.
EndsWhenDeadAlways == (\A p \in Process : phase[p] = "dead") ~> pc \in {"done", "failed"}

\* append_record(): "Don't overrun the buffer".
NoOverrun == \A p \in Process : ~log[p].overrun

\* ValidateRecord::check() asserts that the epoch count is "monotone and
\* contiguous" and that exits match entries.
StreamAlwaysValid == \A p \in Process : valid[p].ok

\* geopm_prof.3: epoch calls inside an IGNORE region "will be ignored".
IgnoredEpochs == \A p \in Process : log[p].epochs = outside[p]

\* geopm_prof.3: geopm_tprof_init() "resets the thread progress", so a process
\* that posts no more units than it announced stays within the total.
ProgressBounded == \A p \in Process : status[p].total # 0 => status[p].done <= status[p].total

\* The controller's loop ends when the application has ended: every process that
\* it waited for has stopped or is dead.
ShutdownWaits ==
    sampler.do_shutdown => \A p \in sampler.clients : phase[p] \in {"leaving", "off", "dead"}

=============================================================================
