---------------------------- MODULE ProfileService ----------------------------
(***************************************************************************)
(* Application profiling in geopmd: the profiles of ActiveSessions         *)
(* (geopmdpy/system_files.py), the shared memory files made for them, and  *)
(* PROFILER_LOCK, which admits one profiling controller at a time          *)
(* (geopmdpy/service.py).  The shared memory files are                     *)
(*   profile-<uid>-status       one per user, made with the first profile  *)
(*   profile-<pid>-record-log   one per profiled process                   *)
(* geopmd serves one request at a time and may be killed and restarted at  *)
(* any point; the session files, the shared memory files and the lock file *)
(* survive.  The write lock and the batch servers, which the same session  *)
(* carries, are the subject of PlatformService.  PIDs are not reused here. *)
(***************************************************************************)
EXTENDS Naturals, FiniteSets

CONSTANTS Client,      \* the PIDs of profiled processes and of controllers
          NoClient,    \* an empty lock file
          Uid,         \* [Client -> the user that owns it]
          Name,        \* profile names
          NoName,      \* a session without a profile
          MaxRef,      \* bound on the reference count of a session
          MaxCrash     \* bound on the number of times geopmd is killed

ASSUME ProfileServiceAssumption ==
    /\ NoClient \notin Client /\ NoName \notin Name
    /\ DOMAIN Uid = Client
    /\ MaxRef \in Nat /\ MaxCrash \in Nat

VARIABLES
    alive,      \* the clients that are running
    up,         \* geopmd is running
    crashes,    \* how often it was killed
    sessions,   \* ActiveSessions._sessions: reference count and profile name
    files,      \* the session files
    profiles,   \* ActiveSessions._profiles
    names,      \* the names in ActiveSessions._region_names
    status,     \* users that have a status file
    logs,       \* processes that have a record log file
    profiler,   \* the PID in PROFILER_LOCK
    pending     \* start_profile() between open_session() and the rest

memVars == <<sessions, profiles, names, pending>>
diskVars == <<files, status, logs, profiler>>
vars == <<alive, up, crashes, memVars, diskVars>>

NoSession == [ref |-> 0, name |-> NoName, open |-> FALSE]
NoRequest == [client |-> NoClient, name |-> NoName]

Init == /\ alive = Client
        /\ up = TRUE /\ crashes = 0
        /\ sessions = [c \in Client |-> NoSession]
        /\ files = [c \in Client |-> NoSession]
        /\ profiles = [n \in Name |-> {}]
        /\ names = {}
        /\ status = {} /\ logs = {}
        /\ profiler = NoClient
        /\ pending = NoRequest

Ready == up /\ pending = NoRequest

IsOpen(c) == sessions[c].open

SetSession(c, s) == /\ sessions' = [sessions EXCEPT ![c] = s]
                    /\ files' = [files EXCEPT ![c] = s]

-----------------------------------------------------------------------------
(* Sessions                                                                *)

\* What open_session() leaves: one more reference, or a new session.
Opened(s) == IF s.open THEN [s EXCEPT !.ref = @ + 1]
             ELSE [ref |-> 1, name |-> NoName, open |-> TRUE]

OpenSession(c) ==
    /\ Ready /\ c \in alive /\ sessions[c].ref < MaxRef
    /\ SetSession(c, Opened(sessions[c]))
    /\ UNCHANGED <<alive, up, crashes, profiles, names, pending, status, logs, profiler>>

\* (bug) the last process of a profile leaves the status file
UnlinkedKeepsStatus(c, left) == status

\* The status file goes with the last profile: it is the file of the user of
\* the process that leaves last.
Unlinked(c, left) == IF \A n \in Name : left[n] = {} THEN status \ {Uid[c]} ELSE status

\* (bug) the process stays a member of its profile
LeftForgetsRemove(c) == profiles

\* ActiveSessions.stop_profile(), the part about the profile itself.
Left(c) == [n \in Name |-> profiles[n] \ {c}]

\* ActiveSessions.stop_profile() for a session with a profile.
LeaveProfile(c) ==
    /\ profiles' = Left(c)
    /\ names' = names \cup {sessions[c].name}
    /\ logs' = logs \ {c}
    /\ status' = Unlinked(c, Left(c))

\* The profiler lock after _close_session_completely().
Release(c) == IF profiler = c THEN NoClient ELSE profiler

\* _close_session_completely(): remove_client(), which stops the profile too,
\* then the locks.
CloseCompletely(c) ==
    /\ SetSession(c, NoSession)
    /\ IF sessions[c].name # NoName THEN LeaveProfile(c)
       ELSE UNCHANGED <<profiles, names, logs, status>>
    /\ profiler' = Release(c)

CloseSession(c) ==
    /\ Ready /\ c \in alive /\ IsOpen(c)
    /\ IF sessions[c].ref > 1
       THEN /\ SetSession(c, [sessions[c] EXCEPT !.ref = @ - 1])
            /\ UNCHANGED <<profiles, names, logs, status, profiler>>
       ELSE CloseCompletely(c)
    /\ UNCHANGED <<alive, up, crashes, pending>>

\* Any request that needs a session, without one: _check_client_active() closes
\* whatever the client has, the profiler lock included.
Unsessioned(c) ==
    /\ Ready /\ c \in alive /\ ~IsOpen(c)
    /\ CloseCompletely(c)
    /\ UNCHANGED <<alive, up, crashes, pending>>

\* (bug) the timer of a session ends when a profile is started
CheckClientUnprofiled(c) ==
    /\ Ready /\ IsOpen(c) /\ c \notin alive /\ sessions[c].name = NoName
    /\ CloseCompletely(c)
    /\ UNCHANGED <<alive, up, crashes, pending>>

\* check_client(), called by a timer for every session.
CheckClient(c) ==
    /\ Ready /\ IsOpen(c) /\ c \notin alive
    /\ CloseCompletely(c)
    /\ UNCHANGED <<alive, up, crashes, pending>>

-----------------------------------------------------------------------------
(* Profiles                                                                *)

\* start_profile(): open_session() first.
StartProfile(c, n) ==
    /\ Ready /\ c \in alive /\ sessions[c].ref < MaxRef
    /\ SetSession(c, Opened(sessions[c]))
    /\ pending' = [client |-> c, name |-> n]
    /\ UNCHANGED <<alive, up, crashes, profiles, names, status, logs, profiler>>

\* The condition under which start_profile() makes the status file.
NoProfiles == \A n \in Name : profiles[n] = {}

\* ActiveSessions.start_profile() ends in an exception before it changes
\* anything: a second profile, a process that is gone, or a status file that is
\* there already.
Rejected(c) == \/ sessions[c].name # NoName
               \/ c \notin alive
               \/ (NoProfiles /\ Uid[c] \in status)

\* The rest of start_profile().  The record log may be there already too; the
\* profile is then in memory and not in the session file.
AddProfile ==
    LET c == pending.client
        n == pending.name
    IN  /\ up /\ pending # NoRequest
        /\ pending' = NoRequest
        /\ IF Rejected(c)
           THEN UNCHANGED <<sessions, files, profiles, status, logs>>
           ELSE /\ status' = IF NoProfiles THEN status \cup {Uid[c]} ELSE status
                /\ profiles' = [profiles EXCEPT ![n] = @ \cup {c}]
                /\ sessions' = [sessions EXCEPT ![c].name = n]
                /\ logs' = logs \cup {c}
                /\ files' = IF c \in logs THEN files ELSE [files EXCEPT ![c] = sessions'[c]]
        /\ UNCHANGED <<alive, up, crashes, names, profiler>>

\* stop_profile(): the profile, then close_session().
StopProfile(c) ==
    LET s == sessions[c]
    IN  /\ Ready /\ c \in alive /\ IsOpen(c) /\ s.name # NoName
        /\ LeaveProfile(c)
        /\ IF s.ref > 1
           THEN /\ SetSession(c, [ref |-> s.ref - 1, name |-> NoName, open |-> TRUE])
                /\ UNCHANGED profiler
           ELSE SetSession(c, NoSession) /\ profiler' = Release(c)
        /\ UNCHANGED <<alive, up, crashes, pending>>

\* get_profile_pids(): takes the profiler lock when it is free; nothing asks for
\* a session.
GetProfilePids(c) ==
    /\ Ready /\ c \in alive /\ profiler = NoClient
    /\ profiler' = c
    /\ UNCHANGED <<alive, up, crashes, memVars, files, status, logs>>

\* pop_profile_region_names()
PopRegionNames(c, n) ==
    /\ Ready /\ c \in alive /\ profiler = c
    /\ profiler' = NoClient
    /\ names' = names \ {n}
    /\ UNCHANGED <<alive, up, crashes, sessions, profiles, pending, files, status, logs>>

-----------------------------------------------------------------------------
(* Processes that die, and geopmd killed and started again                 *)

Die(c) ==
    /\ c \in alive
    /\ alive' = alive \ {c}
    /\ UNCHANGED <<up, crashes, memVars, diskVars>>

Crash ==
    /\ up /\ crashes < MaxCrash
    /\ up' = FALSE /\ crashes' = crashes + 1
    /\ pending' = NoRequest
    /\ UNCHANGED <<alive, sessions, profiles, names, diskVars>>

\* _load_session_file(): the session of a process that is gone is set aside.
Reloaded(c) == IF c \in alive THEN files[c] ELSE NoSession

\* ActiveSessions.__init__() removes every profile-* file and then loads the
\* sessions, profile names included; PlatformService.__init__() frees the
\* profiler lock of a client without a session.
Restart ==
    /\ ~up /\ up' = TRUE
    /\ status' = {} /\ logs' = {}
    /\ sessions' = [c \in Client |-> Reloaded(c)]
    /\ files' = sessions'
    /\ profiles' = [n \in Name |-> {c \in Client : sessions'[c].name = n}]
    /\ names' = {}
    /\ profiler' = IF profiler # NoClient /\ sessions'[profiler].open THEN profiler ELSE NoClient
    /\ UNCHANGED <<alive, crashes, pending>>

Request(c) == \/ OpenSession(c) \/ CloseSession(c) \/ Unsessioned(c)
              \/ StopProfile(c) \/ GetProfilePids(c)
              \/ \E n \in Name : StartProfile(c, n) \/ PopRegionNames(c, n)

Next == \/ AddProfile \/ Crash \/ Restart
        \/ \E c \in Client : Request(c) \/ CheckClient(c) \/ Die(c)

\* The handler goes on, systemd starts geopmd again, and GLib's timers fire; no
\* client has to do anything.
Fairness == /\ WF_vars(AddProfile) /\ WF_vars(Restart)
            /\ \A c \in Client : SF_vars(CheckClient(c))

Spec == Init /\ [][Next]_vars /\ Fairness

-----------------------------------------------------------------------------
SessionType == [ref : Nat, name : Name \cup {NoName}, open : BOOLEAN]

\* Types; region names are kept for profile names only.
TypeOK ==
    /\ alive \subseteq Client /\ logs \subseteq Client
    /\ up \in BOOLEAN /\ crashes \in 0 .. MaxCrash
    /\ sessions \in [Client -> SessionType] /\ files \in [Client -> SessionType]
    /\ profiles \in [Name -> SUBSET Client]
    /\ names \subseteq Name
    /\ status \subseteq {Uid[c] : c \in Client}
    /\ profiler \in Client \cup {NoClient}
    /\ pending \in {NoRequest} \cup [client : Client, name : Name]

\* Only an open session has a profile, in memory and in its file, and the
\* session that start_profile() opened is open when it goes on.
SessionsSound ==
    /\ \A c \in Client : sessions[c].name # NoName => sessions[c].open
    /\ \A c \in Client : files[c].name # NoName => files[c].open
    /\ pending # NoRequest => up /\ sessions[pending.client].open

\* _profiles and the sessions agree, through failures between the two steps of
\* start_profile(), clients that die and restarts of geopmd: a process is a
\* member of exactly the profile its session names.
ProfilesMatch ==
    up => \A c \in Client, n \in Name : c \in profiles[n] <=> sessions[c].name = n

\* A profile file exists only for a process, or for a user, that is profiled:
\* nothing is left in /run/geopm that would make a later start_profile() fail.
NoLeftover ==
    up => /\ \A c \in logs : \E n \in Name : c \in profiles[n]
          /\ NoProfiles => status = {}

\* What an induction on the steps needs beside the types.
Inv == SessionsSound /\ ProfilesMatch

\* Every process of a profile finds the status file of its user and its record
\* log, which Profile::connect() and ApplicationSampler::connect() attach to.
FilesPresent ==
    up => \A n \in Name : \A c \in profiles[n] : c \in logs /\ Uid[c] \in status

\* The same as long as geopmd has not been restarted, which removes the files of
\* running processes too.
FilesUntilRestart == crashes = 0 => FilesPresent

\* A process that is gone is forgotten by every profile.
DeadForgotten == \A c \in Client : c \notin alive ~> (up => \A n \in Name : c \notin profiles[n])

\* The lock of a controller that has a session is freed when the controller dies.
SessionFreesLock == \A c \in Client : (c \notin alive /\ IsOpen(c)) ~> profiler # c

\* _profiler_mode() tells a second controller: "To start a new controller kill
\* {lock_pid} and retry."  Killing the holder frees the lock.
KillFreesLock == \A c \in Client : c \notin alive ~> profiler # c

=============================================================================
