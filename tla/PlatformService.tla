--------------------------- MODULE PlatformService ---------------------------
(***************************************************************************)
(* The session and write-mode core of geopmd: class PlatformService         *)
(* (geopmdpy/service.py) with the ActiveSessions and WriteLock objects it   *)
(* owns (geopmdpy/system_files.py), under the DBus main program             *)
(* (geopmdpy/__main__.py).                                                  *)
(*                                                                          *)
(* The daemon runs one handler at a time.  A handler is a sequence of steps *)
(* named by d.pc; between two steps a client process may die (or its PID be *)
(* recycled), a batch server may write a control, the daemon may crash and  *)
(* SIGTERM may arrive.  Everything under /run/geopm (files, lock, save) and *)
(* the hardware outlive the daemon; sessions, watch and writePid do not.    *)
(* The profiles and PROFILER_LOCK, which some of the same handlers touch     *)
(* after what is modelled here, share no state with it: ProfileService.tla.  *)
(***************************************************************************)
EXTENDS Naturals, FiniteSets

CONSTANTS
    Pid,           \* Linux PIDs that call the service
    NoPid,         \* an empty lock file, an unused field
    Val,           \* settings of the controls, all of them as one value
    NoVal,         \* SAVE_FILES does not exist
    Leader,        \* [Pid -> Pid]: os.getsid() of each client
    BatchWriters,  \* clients that start batch servers with controls
    Faults,        \* what the environment may do, a subset of FaultNames
    MaxClock,      \* bound on process creation times
    MaxRef,        \* bound on the reference count of a session
    MaxCrash       \* bound on the number of daemon crashes

FaultNames == {"recycle",     \* a PID is given to a new process
               "crash",       \* the daemon is killed at any step
               "restorefail", \* PlatformIO fails to restore the controls
               "savefail",    \* PlatformIO fails to save the controls
               "sigterm",     \* SIGTERM arrives while a handler runs
               "idclash",     \* a new GLib source gets the ID of an old one
               "wrongstop"}   \* stop_batch() is given another server's PID

ASSUME ConstantsAssumption ==
    /\ NoPid \notin Pid
    /\ NoVal \notin Val
    /\ Leader \in [Pid -> Pid]
    /\ \A p \in Pid : Leader[Leader[p]] = Leader[p]
    /\ BatchWriters \subseteq Pid
    /\ Faults \subseteq FaultNames
    /\ MaxClock \in Nat /\ MaxRef \in Nat /\ MaxCrash \in Nat

VARIABLES
    proc,      \* proc[p]: creation time of the process with PID p, 0 if none
    clock,     \* creation time of the newest process
    hw,        \* current settings of the controls
    base,      \* history: settings the open write session must leave behind
    files,     \* session-PID.json
    lock,      \* CONTROL_LOCK
    save,      \* SAVE_FILES
    sessions,  \* ActiveSessions._sessions
    watch,     \* watch[p]: GLib sources that call check_client(p)
    writePid,  \* PlatformService._write_pid
    server,    \* server[p]: the batch server process of client p
    untracked, \* clients whose running server is not the recorded one
    d,         \* the handler the daemon runs: its step and its locals
    saved,     \* the handler that SIGTERM interrupted
    stopping,  \* the main loop was told to quit by SIGTERM
    crashes    \* number of crashes so far

osVars    == <<proc, clock>>
memVars   == <<sessions, watch, writePid>>
batchVars == <<server, untracked>>
sigVars   == <<saved, stopping, crashes>>
vars == <<proc, clock, hw, base, files, lock, save, sessions, watch, writePid,
          server, untracked, d, saved, stopping, crashes>>

-----------------------------------------------------------------------------
(* Records.  A creation time of 0 marks the absent session or file.         *)

Sessions == [ct : Nat, ref : Nat, batch : BOOLEAN]
Session(ct, ref, batch) == [ct |-> ct, ref |-> ref, batch |-> batch]
NoSession == Session(0, 0, FALSE)

Files == [ct : Nat, ref : Nat, time : Nat]
File(ct, ref, time) == [ct |-> ct, ref |-> ref, time |-> time]
NoFile == File(0, 0, 0)

IsOpen(p)  == sessions[p].ct # 0
HasFile(p) == files[p].ct # 0

\* Process creation times are even and the file written after the latest
\* creation has the odd time that follows: a file is never as old as a process.
Now == clock + 1

\* _update_session_file(): the file holds what the session holds.
FileOf(s) == File(s.ct, s.ref, Now)

Frame(pc, op, p, q, k, todo) ==
    [pc |-> pc, op |-> op, p |-> p, q |-> q, k |-> k, todo |-> todo]

Idle == Frame("idle", "none", NoPid, NoPid, "none", {})
Down == Frame("down", "none", NoPid, NoPid, "none", {})
Exiting == Frame("exit", "none", NoPid, NoPid, "none", {})
NoFrame == Frame("none", "none", NoPid, NoPid, "none", {})

WriteOps == {"write", "restore", "batchrw"}
ClientOps == WriteOps \cup {"open", "close", "read", "batchro", "stop", "wrongstop"}
Ops == ClientOps \cup {"none", "start", "watch", "admin", "term"}

\* Steps taken inside "with WriteLock(CONTROL_LOCK)".
LockedPcs == {"stat", "lopen", "save", "setlock", "restore", "rename", "aside",
              "unlock"}
Pcs == LockedPcs \cup {"none", "down", "idle", "exit", "entry", "add", "mode",
                       "do", "close", "term", "rwatch", "rlock"}
Conts == {"none", "return", "add", "term", "rwatch", "rdone"}

\* A handler returns to the main loop, which ends if SIGTERM was handled.
Return == d' = IF stopping THEN Exiting ELSE Idle

Goto(pc) == d' = Frame(pc, d.op, d.p, d.q, d.k, d.todo)

Frames == [pc : Pcs, op : Ops, p : Pid \cup {NoPid}, q : Pid \cup {NoPid},
           k : Conts, todo : SUBSET Pid]

\* The locals that a step uses are set.
FrameOK(f) ==
    /\ f \in Frames
    /\ f.pc \in {"entry", "add", "mode", "stat", "lopen", "save", "setlock", "do"} =>
          f.p \in Pid /\ f.q \in Pid
    /\ f.pc \in {"close", "restore", "rename", "aside", "unlock"} => f.q \in Pid
    /\ f.k = "add" => f.p \in Pid

\* The type of every variable.
TypeOK ==
    /\ proc \in [Pid -> Nat] /\ clock \in Nat
    /\ hw \in Val /\ base \in Val
    /\ files \in [Pid -> Files]
    /\ lock \in Pid \cup {NoPid}
    /\ save \in Val \cup {NoVal}
    /\ sessions \in [Pid -> Sessions]
    /\ watch \in [Pid -> Nat]
    /\ writePid \in Pid \cup {NoPid}
    /\ server \in [Pid -> {"none", "ro", "rw"}]
    /\ untracked \subseteq Pid
    /\ FrameOK(d) /\ FrameOK(saved)
    /\ stopping \in BOOLEAN
    /\ crashes \in Nat

Init ==
    /\ proc = [p \in Pid |-> 2] /\ clock = 2
    /\ hw \in Val /\ base = hw
    /\ files = [p \in Pid |-> NoFile]
    /\ lock = NoPid /\ save = NoVal
    /\ sessions = [p \in Pid |-> NoSession]
    /\ watch = [p \in Pid |-> 0]
    /\ writePid = NoPid
    /\ server = [p \in Pid |-> "none"] /\ untracked = {}
    /\ d = Down /\ saved = NoFrame /\ stopping = FALSE
    /\ crashes = 0

-----------------------------------------------------------------------------
(* Processes and batch servers: the environment of the daemon.              *)

Die(p) ==
    /\ proc[p] # 0
    /\ proc' = [proc EXCEPT ![p] = 0]
    /\ UNCHANGED <<clock, hw, base, files, lock, save, memVars, batchVars, d, sigVars>>

\* Linux gives out a free PID again, but not while it names a live session,
\* and a process joins a session only by being forked in it.
Recycle(p) ==
    /\ "recycle" \in Faults
    /\ proc[p] = 0 /\ clock < MaxClock
    /\ ~\E r \in Pid \ {p} : Leader[r] = p /\ proc[r] # 0
    /\ Leader[p] = p \/ \E s \in Pid \ {p} : Leader[s] = Leader[p] /\ proc[s] # 0
    /\ clock' = clock + 2
    /\ proc' = [proc EXCEPT ![p] = clock + 2]
    /\ UNCHANGED <<hw, base, files, lock, save, memVars, batchVars, d, sigVars>>

\* A batch server with controls writes whatever its client asks for.
BatchWrite(p) ==
    /\ server[p] = "rw"
    /\ \E v \in Val : hw' = v
    /\ UNCHANGED <<osVars, base, files, lock, save, memVars, batchVars, d, sigVars>>

\* A batch server ends on its own: the client sent QUIT or an error occurred.
BatchExit(p) ==
    /\ server[p] # "none"
    /\ server' = [server EXCEPT ![p] = "none"]
    /\ untracked' = untracked \ {p}
    /\ UNCHANGED <<osVars, hw, base, files, lock, save, memVars, d, sigVars>>

-----------------------------------------------------------------------------
(* The daemon's start: PlatformService.__init__().                          *)

\* _is_pid_valid(): the process is there and is older than the file.
PidValid(p) == proc[p] # 0 /\ proc[p] < files[p].time

\* ActiveSessions.__init__(): load the session files, rename the invalid ones.
\* A batch server died with the daemon, so it is dropped from the session.
Start ==
    /\ d.pc = "down"
    /\ LET ok == {p \in Pid : HasFile(p) /\ PidValid(p)}
       IN  /\ sessions' = [p \in Pid |->
                  IF p \in ok
                  THEN Session(files[p].ct, files[p].ref, FALSE)
                  ELSE NoSession]
           /\ files' = [p \in Pid |->
                  IF p \in ok THEN FileOf(files[p]) ELSE NoFile]
           /\ d' = Frame("rwatch", "start", NoPid, NoPid, "none", ok)
    /\ stopping' = FALSE
    /\ UNCHANGED <<osVars, hw, base, lock, save, watch, writePid, batchVars, saved, crashes>>

\* _watch_client(): one more GLib source that calls check_client(p).
WatchClient(p) == watch' = [watch EXCEPT ![p] = @ + 1]

\* A loaded session gets a watch of this process, set_watch_id().
Rewatch(p) ==
    /\ WatchClient(p)
    /\ files' = [files EXCEPT ![p] = FileOf(sessions[p])]

\* check_client() for every loaded client, then a new watch for the live ones.
StartWatch ==
    /\ d.pc = "rwatch"
    /\ \/ /\ d.todo = {}
          /\ d' = Frame("rlock", "start", NoPid, NoPid, "none", {})
          /\ UNCHANGED <<files, watch>>
       \/ \E p \in d.todo :
             \/ /\ proc[p] # 0
                /\ Rewatch(p)
                /\ d' = Frame("rwatch", "start", NoPid, NoPid, "none", d.todo \ {p})
             \/ /\ proc[p] = 0
                /\ d' = Frame("close", "start", NoPid, p, "rwatch", d.todo \ {p})
                /\ UNCHANGED <<files, watch>>
    /\ UNCHANGED <<osVars, hw, base, lock, save, sessions, writePid, batchVars, sigVars>>

\* The process and its children end; the memory of the daemon is gone.
LoseMemory ==
    /\ sessions' = [p \in Pid |-> NoSession]
    /\ watch' = [p \in Pid |-> 0]
    /\ writePid' = NoPid
    /\ server' = [p \in Pid |-> "none"]
    /\ untracked' = {}
    /\ saved' = NoFrame
    /\ d' = Down

\* ActiveSessions.is_client_active(): the creation time did not change.
IsClientActive(p) == IsOpen(p) /\ proc[p] = sessions[p].ct

\* (bug) A lock found without a session is released, nothing is restored.
ReleaseOrphanForgets ==
    /\ lock # NoPid /\ ~IsOpen(lock)
    /\ files' = [files EXCEPT ![lock] = NoFile]
    /\ d' = Frame("unlock", "start", NoPid, lock, "rdone", {})
    /\ UNCHANGED <<memVars, batchVars, saved>>

\* (bug) A lock found without a session is kept.
ReleaseOrphanTrusts ==
    /\ lock # NoPid /\ ~IsOpen(lock)
    /\ d' = Idle
    /\ UNCHANGED <<files, memVars, batchVars, saved>>

\* The holder has no session: restore its controls and release the lock.
ReleaseOrphan ==
    /\ lock # NoPid /\ ~IsOpen(lock)
    /\ files' = [files EXCEPT ![lock] = NoFile]
    /\ d' = Frame("restore", "start", NoPid, lock, "rdone", {})
    /\ UNCHANGED <<memVars, batchVars, saved>>

\* The write lock found at start belongs to an open session or is released.
\* Closing an invalid session here fails on the lock that is already held.
StartLock ==
    /\ d.pc = "rlock"
    /\ \/ /\ lock = NoPid
          /\ d' = Idle
          /\ UNCHANGED <<files, memVars, batchVars, saved>>
       \/ /\ lock # NoPid /\ IsClientActive(lock)
          /\ writePid' = lock
          /\ d' = Idle
          /\ UNCHANGED <<files, sessions, watch, batchVars, saved>>
       \/ /\ lock # NoPid /\ IsOpen(lock) /\ ~IsClientActive(lock)
          /\ files' = [files EXCEPT ![lock] = NoFile]
          /\ LoseMemory
       \/ ReleaseOrphan
    /\ UNCHANGED <<osVars, hw, base, lock, save, stopping, crashes>>

-----------------------------------------------------------------------------
(* Calls and timers that the main loop dispatches.                          *)

\* The GEOPMService methods take the caller's PID from the bus.  The guard on
\* the reference counts is the model's bound.
Call(p, op) ==
    /\ d.pc = "idle" /\ proc[p] # 0
    /\ op = "batchrw" => p \in BatchWriters
    /\ op = "wrongstop" => "wrongstop" \in Faults
    /\ op = "open" => sessions[p].ref < MaxRef
    /\ op \in WriteOps /\ Leader[p] # p => sessions[Leader[p]].ref < MaxRef
    /\ d' = Frame("entry", op, p, p, "none", {})
    /\ UNCHANGED <<osVars, hw, base, files, lock, save, memVars, batchVars, sigVars>>

\* close_session_admin()
CloseSessionAdmin(p) ==
    /\ d.pc = "idle"
    /\ d' = Frame("close", "admin", NoPid, p, "return", {})
    /\ UNCHANGED <<osVars, hw, base, files, lock, save, memVars, batchVars, sigVars>>

\* check_client() called by a GLib timer.  It returns False after closing the
\* session, so a second, leaked, source of the same PID is removed too when it
\* is the one that fired.
CheckClient(p) ==
    /\ d.pc = "idle" /\ watch[p] > 0
    /\ IsOpen(p) /\ proc[p] = 0
    /\ \/ UNCHANGED watch
       \/ watch[p] > 1 /\ watch' = [watch EXCEPT ![p] = @ - 1]
    /\ d' = Frame("close", "watch", NoPid, p, "return", {})
    /\ UNCHANGED <<osVars, hw, base, files, lock, save, sessions, writePid, batchVars, sigVars>>

-----------------------------------------------------------------------------
(* ActiveSessions operations.  Each one updates the session and its file.   *)

SetSession(p, s) ==
    /\ sessions' = [sessions EXCEPT ![p] = s]
    /\ files' = [files EXCEPT ![p] = FileOf(s)]

SetRef(p, n) == SetSession(p, Session(sessions[p].ct, n, sessions[p].batch))

SetBatch(p, v) == SetSession(p, Session(sessions[p].ct, sessions[p].ref, v))

\* (bug) A new session is not watched.
AddClientMutant(p) ==
    /\ UNCHANGED watch
    /\ IF proc[p] # 0
       THEN SetSession(p, Session(proc[p], 1, FALSE))
       ELSE files' = [files EXCEPT ![p] = NoFile] /\ UNCHANGED sessions

\* _watch_client() and add_client(): no session if the process is gone.  The
\* file that is_client_active() found for an unknown client was renamed.
AddClient(p) ==
    /\ WatchClient(p)
    /\ IF proc[p] # 0
       THEN SetSession(p, Session(proc[p], 1, FALSE))
       ELSE /\ files' = [files EXCEPT ![p] = NoFile]
            /\ UNCHANGED sessions

\* (bug) The server of a client that died is left to itself.
StopRecordedMutant(p) ==
    server' = IF sessions[p].batch /\ p \notin untracked /\ proc[p] # 0
              THEN [server EXCEPT ![p] = "none"] ELSE server

\* The recorded batch server is sent SIGTERM and waited for.
StopRecorded(p) ==
    server' = IF sessions[p].batch /\ p \notin untracked
              THEN [server EXCEPT ![p] = "none"] ELSE server

\* GLib.source_remove(): until start has replaced it, the watch ID of a loaded
\* session is one of the previous daemon process and may name any new source.
SourceRemove(q) ==
    IF ~IsOpen(q) THEN UNCHANGED watch
    ELSE IF d.op # "start"
         THEN watch' = [watch EXCEPT ![q] = IF @ > 0 THEN @ - 1 ELSE 0]
         ELSE \/ UNCHANGED watch
              \/ /\ "idclash" \in Faults
                 /\ \E r \in Pid : watch[r] > 0 /\ watch' = [watch EXCEPT ![r] = @ - 1]

\* _close_session_completely() up to remove_client().
EndSession(q) ==
    /\ SourceRemove(q)
    /\ StopRecorded(q)
    /\ sessions' = [sessions EXCEPT ![q] = NoSession]
    /\ files' = [files EXCEPT ![q] = NoFile]

-----------------------------------------------------------------------------
(* The first step of a client's call: is its session active?                *)

\* open_session()
OpenSession ==
    /\ d.pc = "entry" /\ d.op = "open"
    /\ \/ /\ IsClientActive(d.p)
          /\ SetRef(d.p, sessions[d.p].ref + 1)
          /\ Return
       \/ /\ IsOpen(d.p) /\ ~IsClientActive(d.p)
          /\ d' = Frame("close", "open", d.p, d.p, "add", {})
          /\ UNCHANGED <<sessions, files>>
       \/ /\ ~IsOpen(d.p)
          /\ files' = [files EXCEPT ![d.p] = NoFile]
          /\ Goto("add")
          /\ UNCHANGED sessions
    /\ UNCHANGED <<osVars, hw, base, lock, save, watch, writePid, batchVars, sigVars>>

AddSession ==
    /\ d.pc = "add"
    /\ AddClient(d.p)
    /\ Return
    /\ UNCHANGED <<osVars, hw, base, lock, save, writePid, batchVars, sigVars>>

\* _check_client_active() fails: what is left of the client is closed.
RejectCall ==
    /\ d.pc = "entry" /\ d.op # "open" /\ ~IsClientActive(d.p)
    /\ d' = Frame("close", d.op, d.p, d.p, "return", {})
    /\ UNCHANGED <<osVars, hw, base, files, lock, save, memVars, batchVars, sigVars>>

\* A crash inside close_session() may have left a count of zero.
DropReference(p) ==
    IF sessions[p].ref = 0 THEN UNCHANGED <<sessions, files>>
    ELSE SetRef(p, sessions[p].ref - 1)

\* close_session(): the reference count goes to the file before the session.
CloseSession ==
    /\ d.pc = "entry" /\ d.op = "close" /\ IsClientActive(d.p)
    /\ DropReference(d.p)
    /\ IF sessions[d.p].ref > 1
       THEN Return
       ELSE d' = Frame("close", "close", d.p, d.p, "return", {})
    /\ UNCHANGED <<osVars, hw, base, lock, save, watch, writePid, batchVars, sigVars>>

\* read_signal() changes nothing but what the check above may close.
ReadSignal ==
    /\ d.pc = "entry" /\ d.op = "read" /\ IsClientActive(d.p)
    /\ Return
    /\ UNCHANGED <<osVars, hw, base, files, lock, save, memVars, batchVars, sigVars>>

\* write_control(), restore_control() and start_batch() with controls go on
\* with _write_mode(), start_batch() without controls does not.  A name that is
\* not in the allowed list ends the call.
BeginWork ==
    /\ d.pc = "entry" /\ d.op \in WriteOps \cup {"batchro"} /\ IsClientActive(d.p)
    /\ \/ Goto(IF d.op = "batchro" THEN "do" ELSE "mode")
       \/ d.op # "restore" /\ Return
    /\ UNCHANGED <<osVars, hw, base, files, lock, save, memVars, batchVars, sigVars>>

\* stop_batch().  The record is removed even if the PID given is not the one
\* recorded, and then the server keeps running.
StopBatch ==
    /\ d.pc = "entry" /\ d.op \in {"stop", "wrongstop"} /\ IsClientActive(d.p)
    /\ IF sessions[d.p].batch
       THEN /\ SetBatch(d.p, FALSE)
            /\ IF d.op = "stop"
               THEN StopRecorded(d.p) /\ UNCHANGED untracked
               ELSE /\ untracked' = IF server[d.p] = "none" THEN untracked
                                    ELSE untracked \cup {d.p}
                    /\ UNCHANGED server
       ELSE UNCHANGED <<sessions, files, batchVars>>
    /\ Return
    /\ UNCHANGED <<osVars, hw, base, lock, save, watch, writePid, sigVars>>

-----------------------------------------------------------------------------
(* _write_mode()                                                            *)

\* The session leader of the client owns the lock while it is alive.
Writer(p) == IF Leader[p] # p /\ proc[Leader[p]] # 0 THEN Leader[p] ELSE p

\* (bug) A lock of another client is not looked at.
MayWriteMutant(p) == proc[p] # 0

\* os.getsid() succeeds and nobody else holds the lock.
MayWrite(p) == proc[p] # 0 /\ lock \in {NoPid, Writer(p)}

WriteMode ==
    /\ d.pc = "mode"
    /\ IF ~MayWrite(d.p)
       THEN Return
       ELSE d' = Frame(IF lock # NoPid THEN "do"
                       ELSE IF Writer(d.p) = d.p THEN "save" ELSE "stat",
                       d.op, d.p, Writer(d.p), "none", {})
    /\ UNCHANGED <<osVars, hw, base, files, lock, save, memVars, batchVars, sigVars>>

\* os.stat() of the leader fails if it died meanwhile.
StatLeader ==
    /\ d.pc = "stat"
    /\ IF proc[d.q] = 0 THEN Return ELSE Goto("lopen")
    /\ UNCHANGED <<osVars, hw, base, files, lock, save, memVars, batchVars, sigVars>>

\* open_session() for the leader.  Closing an invalid session of the leader
\* fails on the lock that is already held.
OpenLeader ==
    /\ d.pc = "lopen"
    /\ \/ /\ IsClientActive(d.q)
          /\ SetRef(d.q, sessions[d.q].ref + 1)
          /\ Goto("save")
          /\ UNCHANGED <<watch, server>>
       \/ /\ IsOpen(d.q) /\ ~IsClientActive(d.q)
          /\ EndSession(d.q)
          /\ Return
       \/ /\ ~IsOpen(d.q)
          /\ AddClient(d.q)
          /\ Goto("save")
          /\ UNCHANGED server
    /\ UNCHANGED <<osVars, hw, base, lock, save, writePid, untracked, sigVars>>

\* A SAVE_FILES without an owner is moved aside, then a new one is written
\* beside it and renamed into place.
SaveControls ==
    /\ d.pc = "save"
    /\ \/ save' = hw /\ Goto("setlock")
       \/ "savefail" \in Faults /\ save' = NoVal /\ Return
    /\ UNCHANGED <<osVars, hw, base, files, lock, memVars, batchVars, sigVars>>

SetLock ==
    /\ d.pc = "setlock"
    /\ lock' = d.q /\ writePid' = d.q
    /\ Goto("do")
    /\ UNCHANGED <<osVars, hw, base, files, save, sessions, watch, batchVars, sigVars>>

-----------------------------------------------------------------------------
(* What write mode was for.                                                 *)

WriteControl ==
    /\ d.pc = "do" /\ d.op = "write"
    /\ \E v \in Val : hw' = v
    /\ Return
    /\ UNCHANGED <<osVars, base, files, lock, save, memVars, batchVars, sigVars>>

\* restore_control() keeps the write session open.
RestoreControl ==
    /\ d.pc = "do" /\ d.op = "restore"
    /\ \/ hw' = IF save = NoVal THEN hw ELSE save
       \/ "restorefail" \in Faults /\ \E v \in Val : hw' = v
    /\ Return
    /\ UNCHANGED <<osVars, base, files, lock, save, memVars, batchVars, sigVars>>

\* start_batch() after _write_mode().  geopmbatch may fail to start (it does
\* when the pipes of another server of the client exist); it is recorded anyway.
StartBatch ==
    /\ d.pc = "do" /\ d.op \in {"batchro", "batchrw"}
    /\ IF IsOpen(d.p) /\ ~sessions[d.p].batch
       THEN /\ SetBatch(d.p, TRUE)
            /\ \/ UNCHANGED server
               \/ /\ server[d.p] = "none"
                  /\ server' = [server EXCEPT ![d.p] =
                                  IF d.op = "batchrw" THEN "rw" ELSE "ro"]
       ELSE UNCHANGED <<sessions, files, server>>
    /\ Return
    /\ UNCHANGED <<osVars, hw, base, lock, save, watch, writePid, untracked, sigVars>>

-----------------------------------------------------------------------------
(* _close_session_completely() and _close_session_write()                   *)

\* Where the caller of the close goes on.
Continue ==
    IF d.k = "return" THEN Return
    ELSE IF d.k = "rdone" THEN d' = Idle
         ELSE Goto(d.k)

\* (bug) The lock is released and the settings are not restored.
CloseCompletelyMutant ==
    /\ d.pc = "close"
    /\ EndSession(d.q)
    /\ Goto("unlock")
    /\ UNCHANGED <<osVars, hw, base, lock, save, writePid, untracked, sigVars>>

\* Inside a lock that SIGTERM interrupted, taking the lock again raises an
\* error after the session was removed; close_all_sessions() goes on.
CloseCompletely ==
    /\ d.pc = "close"
    /\ EndSession(d.q)
    /\ Goto(IF saved.pc \in LockedPcs THEN "term" ELSE "restore")
    /\ UNCHANGED <<osVars, hw, base, lock, save, writePid, untracked, sigVars>>

\* The saved settings are restored if the session was the write session.  A
\* failed restore leaves the controls anyhow.
RestoreSaved ==
    /\ d.pc = "restore"
    /\ \/ /\ lock # d.q
          /\ Continue
          /\ UNCHANGED <<hw, base>>
       \/ /\ lock = d.q /\ save # NoVal
          /\ hw' = save
          /\ Goto("rename")
       \/ /\ lock = d.q /\ save # NoVal /\ "restorefail" \in Faults
          /\ \E v \in Val : hw' = v
          /\ Goto("aside")
       \/ /\ lock = d.q /\ save = NoVal
          /\ Goto("unlock")
          /\ UNCHANGED hw
    /\ UNCHANGED <<osVars, base, files, lock, save, memVars, batchVars, sigVars>>

\* The copy is deleted, or moved aside for the administrator if it could not be
\* restored: then the service gives up the original settings (base).
RemoveSaved ==
    /\ d.pc \in {"rename", "aside"}
    /\ save' = NoVal
    /\ base' = IF d.pc = "rename" THEN base ELSE hw
    /\ writePid' = IF d.pc = "rename" THEN NoPid ELSE writePid
    /\ Goto("unlock")
    /\ UNCHANGED <<osVars, hw, files, lock, sessions, watch, batchVars, sigVars>>

Unlock ==
    /\ d.pc = "unlock"
    /\ lock' = IF lock = d.q THEN NoPid ELSE lock
    /\ Continue
    /\ UNCHANGED <<osVars, hw, base, files, save, memVars, batchVars, sigVars>>

-----------------------------------------------------------------------------
(* Signals, crashes and the end of the daemon.                              *)

\* stop(): the handler of SIGTERM, which may interrupt any other handler.
Sigterm ==
    /\ d.pc \notin {"down", "exit"} /\ d.op # "start" /\ ~stopping
    /\ d = Idle \/ "sigterm" \in Faults
    /\ saved' = IF d = Idle THEN NoFrame ELSE d
    /\ stopping' = TRUE
    /\ d' = Frame("term", "term", NoPid, NoPid, "none", {p \in Pid : IsOpen(p)})
    /\ UNCHANGED <<osVars, hw, base, files, lock, save, memVars, batchVars, crashes>>

\* close_all_sessions(): the write session is the first one closed.
CloseAllSessions ==
    /\ d.pc = "term"
    /\ \/ /\ d.todo = {}
          /\ d' = IF saved = NoFrame THEN Exiting ELSE saved
          /\ saved' = NoFrame
       \/ /\ \E q \in d.todo :
                /\ writePid \in d.todo => q = writePid
                /\ d' = Frame("close", "term", NoPid, q, "term", d.todo \ {q})
          /\ UNCHANGED saved
    /\ UNCHANGED <<osVars, hw, base, files, lock, save, memVars, batchVars, stopping, crashes>>

Exit ==
    /\ d.pc = "exit"
    /\ LoseMemory
    /\ UNCHANGED <<osVars, hw, base, files, lock, save, stopping, crashes>>

\* The daemon is killed, or SIGINT makes it quit for a restart.
Crash ==
    /\ "crash" \in Faults
    /\ crashes < MaxCrash /\ d.pc # "down"
    /\ LoseMemory
    /\ crashes' = crashes + 1
    /\ stopping' = FALSE
    /\ UNCHANGED <<osVars, hw, base, files, lock, save>>

-----------------------------------------------------------------------------

Handler ==
    \/ StartWatch \/ StartLock
    \/ OpenSession \/ AddSession \/ RejectCall \/ CloseSession \/ ReadSignal
    \/ BeginWork \/ StopBatch
    \/ WriteMode \/ StatLeader \/ OpenLeader \/ SaveControls \/ SetLock
    \/ WriteControl \/ RestoreControl \/ StartBatch
    \/ CloseCompletely \/ RestoreSaved \/ RemoveSaved \/ Unlock
    \/ CloseAllSessions \/ Exit

Next ==
    \/ Start \/ Sigterm \/ Crash \/ Handler
    \/ \E p \in Pid : \/ Die(p) \/ Recycle(p) \/ BatchWrite(p) \/ BatchExit(p)
                      \/ CloseSessionAdmin(p) \/ CheckClient(p)
                      \/ \E op \in ClientOps : Call(p, op)

Spec == Init /\ [][Next]_vars

\* A handler runs to its end, systemd restarts a daemon that failed, and the
\* main loop dispatches every timer that stays due between calls.
FairSpec ==
    /\ Spec
    /\ WF_vars(Handler)
    /\ WF_vars(Start /\ ~stopping)
    /\ \A p \in Pid : SF_vars(CheckClient(p))

-----------------------------------------------------------------------------
(* Properties                                                               *)

\* Settings that differ from what the write session found are always covered
\* by a held lock and a complete copy of the original settings, at every step
\* of _write_mode() and _close_session_write(): a crash at any point leaves
\* what the next start needs to restore them.
RestorableAlways == hw # base => lock # NoPid /\ save = base

\* Between handlers the lock that _write_mode() assigned is held by an open
\* session that a timer watches, so that its end releases the lock.
LockHolderWatched ==
    d.pc = "idle" /\ lock # NoPid => IsOpen(lock) /\ watch[lock] > 0

\* Between handlers every session is on disk as it is in memory, in a file
\* that the next start accepts as long as the client lives.
SessionsDurable ==
    d.pc = "idle" =>
        \A p \in Pid : /\ IsOpen(p) <=> HasFile(p)
                       /\ IsOpen(p) => /\ files[p].ct = sessions[p].ct
                                       /\ files[p].ref = sessions[p].ref
                                       /\ proc[p] = sessions[p].ct => PidValid(p)

\* Between handlers every session is watched by a timer.
SessionsWatched ==
    d.pc = "idle" => \A p \in Pid : IsOpen(p) => watch[p] > 0

\* A batch server runs only while the session that started it is open.
ServersHaveSessions ==
    d.pc = "idle" => \A p \in Pid : server[p] # "none" => IsOpen(p)

\* When the daemon was stopped with SIGTERM, no session is left on disk, no
\* lock is held and the controls have their original settings.
StoppedClean ==
    d.pc = "down" /\ stopping =>
        hw = base /\ lock = NoPid /\ \A p \in Pid : ~HasFile(p)

\* The controls have their original settings when SIGTERM has stopped the daemon,
\* as the manual of "systemctl stop geopm" says.
StoppedRestored == d.pc = "down" /\ stopping => hw = base

\* The session of a client that died ends.
DeadClientClosed ==
    \A p \in Pid : IsOpen(p) /\ proc[p] = 0 ~> ~IsOpen(p) \/ proc[p] # 0

\* The lock of a writer that died is released.
DeadWriterReleased ==
    \A p \in Pid : lock = p /\ proc[p] = 0 ~> lock # p \/ proc[p] # 0

\* A session outlives its client only for a while, even if the PID is reused.
SessionEndsWithClient ==
    \A p \in Pid : IsOpen(p) /\ proc[p] # sessions[p].ct
                      ~> ~IsOpen(p) \/ proc[p] = sessions[p].ct

-----------------------------------------------------------------------------
(* The inductive invariant behind RestorableAlways.                         *)

\* What the proofs assume of the environment: SIGTERM does not interrupt a
\* handler, stop_batch() names the recorded server, and the clients that start
\* batch servers with controls lead their sessions.
Contained ==
    /\ "sigterm" \notin Faults /\ "wrongstop" \notin Faults
    /\ \A p \in BatchWriters : Leader[p] = p

\* Which steps belong to the start of the daemon, and how they end.
StartFrames ==
    /\ d.op = "start" => /\ d.pc \in {"rwatch", "rlock", "close", "restore",
                                     "rename", "aside", "unlock"}
                         /\ d.k \in {"none", "rwatch", "rdone"}
    /\ d.k = "rwatch" \/ d.pc \in {"rwatch", "rlock"} => d.op = "start"
    /\ d.k = "rdone" => d.pc \in {"restore", "rename", "aside", "unlock"} /\ lock = d.q

\* While the lock is held the copy is complete, except after the restore: then
\* the session of the holder and its file are already gone.
CopyKept ==
    lock # NoPid =>
        \/ save = base
        \/ /\ save = NoVal /\ hw = base
           /\ ~IsOpen(lock) /\ ~HasFile(lock)
           /\ d.op = "start" \/ d.pc \in {"down", "unlock"}

\* The steps of _write_mode().
ModeSteps ==
    /\ d.pc \in {"stat", "lopen", "save", "setlock"} => lock = NoPid
    /\ d.pc = "setlock" => save = base
    /\ d.pc = "do" /\ d.op \in WriteOps => lock = d.q
    /\ d.op = "batchrw" => d.p \in BatchWriters /\ d.q = d.p

\* The steps of _close_session_completely().
CloseSteps ==
    /\ d.pc \in {"restore", "rename", "aside", "unlock"} => ~IsOpen(d.q) /\ ~HasFile(d.q)
    /\ d.pc \in {"rename", "aside", "unlock"} => lock = d.q
    /\ d.pc \in {"close", "restore", "rename", "aside", "unlock"} => d.k # "none"
    /\ d.pc = "rename" => hw = base
    /\ d.pc = "unlock" => hw = base /\ save = NoVal
    /\ d.k = "add" => d.p = d.q
    /\ d.pc = "add" => ~IsOpen(d.p)

\* A batch server that writes controls belongs to the session holding the lock.
WritersHoldLock ==
    /\ \A p \in Pid : server[p] = "rw" => lock = p /\ IsOpen(p) /\ sessions[p].batch
    /\ d.pc = "down" => \A p \in Pid : server[p] = "none"
    /\ untracked = {} /\ d.op # "wrongstop"

\* In a contained environment every step keeps all of the above together.
IInv ==
    /\ TypeOK
    /\ saved = NoFrame
    /\ RestorableAlways
    /\ StartFrames
    /\ CopyKept
    /\ ModeSteps
    /\ CloseSteps
    /\ WritersHoldLock

\* write_mode and the end of the write session implement WriteSession: the lock
\* goes from one owner to the next only through the original settings.
Promise == INSTANCE WriteSession WITH owner <- lock

ImplementsWriteSession == Promise!Spec

=============================================================================
