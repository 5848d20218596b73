-------------------------------- MODULE PMPI --------------------------------
(***************************************************************************)
(* The MPI processes of a job whose MPI calls go through the wrappers of   *)
(* libgeopm: MPI_Init() finds out which processes share a node and takes   *)
(* one of each node for the controller, as a process of its own or as a    *)
(* thread; all other calls replace MPI_COMM_WORLD; MPI_Finalize() ends the *)
(* controllers.                                                            *)
(*                                                                         *)
(* A collective call is left when every process of the communicator has    *)
(* entered as many on it; met is what each one has entered.                *)
(***************************************************************************)
EXTENDS Integers, Sequences, SequencesExt, FiniteSetsExt

CONSTANTS
  Procs,       \* ranks in MPI_COMM_WORLD
  NodeOf,      \* the node of each
  CtlModes,    \* GEOPM_CTL: "process", "pthread" or "application"
  NumCalls,    \* collective calls of the application
  PmpiFaults,  \* "create": a controller cannot be made; "shutdown": a profile cannot be ended
  MaxOther     \* bound: steps of another job of the same user that is starting

ASSUME PMPIAssumption ==
  /\ Procs \subseteq Nat /\ Procs # {}
  /\ DOMAIN NodeOf = Procs
  /\ CtlModes \subseteq {"process", "pthread", "application"}
  /\ NumCalls \in Nat /\ MaxOther \in Nat
  /\ PmpiFaults \subseteq {"create", "shutdown"}

VARIABLES
  ctlMode,   \* Environment::pmpi_ctl()
  at,        \* per process: where it is
  shmFile,   \* per node: the file of geopm_comm_split_shared(), by its creator
  group,     \* per process: the creator of the file it has open, the color
  isRoot,    \* per process: is_shm_root
  met,       \* per process: the collective calls entered, with their communicators
  ctlState,  \* per process: g_ctl and what it is doing
  made,      \* per process: calls of the application
  ended,     \* per process: geopm_prof_shutdown() was called, and its result
  others     \* steps of the other job

pmpiVars == <<ctlMode, at, shmFile, group, isRoot, met, ctlState, made, ended, others>>

NoProc == -1
OtherProc == Max(Procs) + 1  \* a process of another job
HostNodes == {NodeOf[r] : r \in Procs}

\* Communicators.  geopm_swap_comm_world() has the world replaced in process mode by
\* the part that the process belongs to.
Members(c, r) ==
  CASE c = "world" -> Procs
    [] c = "node" -> {q \in Procs : group[q] = group[r]}
    [] c = "swap" -> IF ctlMode = "process" THEN {q \in Procs : isRoot[q] = isRoot[r]} ELSE Procs
    [] c = "ctl" -> {q \in Procs : isRoot[q]}

Enter(r, c, call) == met' = [met EXCEPT ![r] = Append(@, <<c, call>>)]

\* The calls of a process on a communicator.
On(q, c) == SelectSeq(met[q], LAMBDA x : x[1] = c)

CanLeave(r, c) == \A q \in Members(c, r) : Len(On(q, c)) >= Len(On(r, c))

Go(r, from, to) == at[r] = from /\ at' = [at EXCEPT ![r] = to]

----------------------------------------------------------------------------
(* MPI_Init(): geopm_comm_split_shared() *)

Unlink(r) ==
  /\ ctlMode # "application" /\ Go(r, "start", "cleared")
  /\ shmFile' = [shmFile EXCEPT ![NodeOf[r]] = NoProc]
  /\ Enter(r, "world", "cleared")
  /\ UNCHANGED <<ctlMode, group, isRoot, ctlState, made, ended, others>>

\* A file that is there again is an error: in process mode the job is aborted, with
\* threads MPI_Init() of this process returns the error.
Look(r) ==
  /\ CanLeave(r, "world") /\ at[r] = "cleared"
  /\ IF shmFile[NodeOf[r]] = NoProc
       THEN Go(r, "cleared", "looked") /\ Enter(r, "world", "looked")
       ELSE /\ at' = IF ctlMode = "process" THEN [q \in Procs |-> "aborted"] ELSE [at EXCEPT ![r] = "app"]
            /\ UNCHANGED met
  /\ UNCHANGED <<ctlMode, shmFile, group, isRoot, ctlState, made, ended, others>>

\* The file is made by the first process of the node, the others open it.
Open(r) ==
  /\ CanLeave(r, "world") /\ Go(r, "looked", "opened")
  /\ LET owner == IF shmFile[NodeOf[r]] = NoProc THEN r ELSE shmFile[NodeOf[r]]
     IN /\ shmFile' = [shmFile EXCEPT ![NodeOf[r]] = owner]
        /\ group' = [group EXCEPT ![r] = owner]
  /\ Enter(r, "world", "opened")
  /\ UNCHANGED <<ctlMode, isRoot, ctlState, made, ended, others>>

Split(r) ==
  /\ CanLeave(r, "world") /\ Go(r, "opened", "split")
  /\ Enter(r, "world", "split")
  /\ UNCHANGED <<ctlMode, shmFile, group, isRoot, ctlState, made, ended, others>>

\* geopm_comm_split_imp() after it: the lowest rank of a node is its root.
SplitRoots(r) ==
  /\ CanLeave(r, "world") /\ Go(r, "split", "parted")
  /\ shmFile' = IF group[r] = r THEN [shmFile EXCEPT ![NodeOf[r]] = NoProc] ELSE shmFile
  /\ isRoot' = [isRoot EXCEPT ![r] = (r = Min(Members("node", r)))]
  /\ Enter(r, "world", "parted")
  /\ UNCHANGED <<ctlMode, group, ctlState, made, ended, others>>

ShareNum(r) ==
  /\ CanLeave(r, "world") /\ Go(r, "parted", "shared")
  /\ Enter(r, "node", "shared")
  /\ UNCHANGED <<ctlMode, shmFile, group, isRoot, ctlState, made, ended, others>>

----------------------------------------------------------------------------
(* geopm_pmpi_init() after the split, and Controller *)

\* A process without a controller goes on with the application.
Begin(r) ==
  /\ \/ ctlMode = "application" /\ Go(r, "start", "app")
     \/ ctlMode # "application" /\ ~isRoot[r] /\ CanLeave(r, "node") /\ Go(r, "shared", "app")
  /\ UNCHANGED <<ctlMode, shmFile, group, isRoot, met, ctlState, made, ended, others>>

\* geopm_ctl_create(): TreeComm makes the controllers meet.
Create(r) ==
  /\ isRoot[r] /\ CanLeave(r, "node") /\ Go(r, "shared", "creating")
  /\ ctlState' = [ctlState EXCEPT ![r] = "created"]
  /\ Enter(r, "ctl", "tree")
  /\ UNCHANGED <<ctlMode, shmFile, group, isRoot, made, ended, others>>

CreateFails(r) ==
  /\ "create" \in PmpiFaults
  /\ isRoot[r] /\ CanLeave(r, "node") /\ Go(r, "shared", IF ctlMode = "process" THEN "last" ELSE "app")
  /\ ctlState' = [ctlState EXCEPT ![r] = "failed"]
  /\ IF ctlMode = "process" THEN Enter(r, "swap", "last") ELSE UNCHANGED met
  /\ UNCHANGED <<ctlMode, shmFile, group, isRoot, made, ended, others>>

\* The process runs the controller, or starts a thread for it.
Run(r) ==
  /\ ctlState[r] = "created" /\ CanLeave(r, "ctl")
  /\ Go(r, "creating", IF ctlMode = "process" THEN "controller" ELSE "app")
  /\ ctlState' = [ctlState EXCEPT ![r] = "running"]
  /\ UNCHANGED <<ctlMode, shmFile, group, isRoot, met, made, ended, others>>

\* do_shutdown(): the processes of the application on this node have ended; then the
\* report is gathered.
Profiled(r) == {q \in Procs : NodeOf[q] = NodeOf[r] /\ (ctlMode = "process" => ~isRoot[q])}

Report(r) ==
  /\ ctlState[r] = "running"
  /\ \A q \in Profiled(r) : ended[q] = "ok"
  /\ ctlState' = [ctlState EXCEPT ![r] = "reporting"]
  /\ Enter(r, "ctl", "report")
  /\ UNCHANGED <<ctlMode, at, shmFile, group, isRoot, made, ended, others>>

ControllerEnds(r) ==
  /\ ctlState[r] = "reporting" /\ CanLeave(r, "ctl")
  /\ ctlState' = [ctlState EXCEPT ![r] = "done"]
  /\ UNCHANGED <<ctlMode, at, shmFile, group, isRoot, met, made, ended, others>>

----------------------------------------------------------------------------
(* The wrapped calls of the application, from C and from Fortran, and          *)
(* MPI_Finalize()                                                              *)

\* (bug) The wrapper passes MPI_COMM_WORLD on.
CallWorld(r) ==
  /\ made[r] < NumCalls /\ Go(r, "app", "call")
  /\ Enter(r, "world", "call")
  /\ UNCHANGED <<ctlMode, shmFile, group, isRoot, ctlState, made, ended, others>>

Call(r) ==
  /\ made[r] < NumCalls /\ Go(r, "app", "call")
  /\ Enter(r, "swap", "call")
  /\ UNCHANGED <<ctlMode, shmFile, group, isRoot, ctlState, made, ended, others>>

\* The Fortran wrappers have handles of their own for both communicators.
FortranCall(r) ==
  /\ made[r] < NumCalls /\ Go(r, "app", "call")
  /\ Enter(r, "swap", "call")
  /\ UNCHANGED <<ctlMode, shmFile, group, isRoot, ctlState, made, ended, others>>

\* The calls that do not block: the application goes on and waits later, for this
\* call or for others with it.
StartCall(r) ==
  /\ made[r] < NumCalls /\ Go(r, "app", "started")
  /\ Enter(r, "swap", "call")
  /\ UNCHANGED <<ctlMode, shmFile, group, isRoot, ctlState, made, ended, others>>

FortranStart(r) ==
  /\ made[r] < NumCalls /\ Go(r, "app", "started")
  /\ Enter(r, "swap", "call")
  /\ UNCHANGED <<ctlMode, shmFile, group, isRoot, ctlState, made, ended, others>>

WaitAll(r) ==
  /\ Go(r, "started", "call")
  /\ UNCHANGED <<ctlMode, shmFile, group, isRoot, met, ctlState, made, ended, others>>

Return(r) ==
  /\ CanLeave(r, "swap") /\ Go(r, "call", "app")
  /\ made' = [made EXCEPT ![r] = @ + 1]
  /\ UNCHANGED <<ctlMode, shmFile, group, isRoot, met, ctlState, ended, others>>

Finalize(r) ==
  /\ made[r] = NumCalls /\ Go(r, "app", "last")
  /\ Enter(r, "swap", "last")
  /\ UNCHANGED <<ctlMode, shmFile, group, isRoot, ctlState, made, ended, others>>

Shutdown(r) ==
  /\ CanLeave(r, "swap") /\ Go(r, "last", "shut")
  /\ \E result \in {"ok"} \union (IF "shutdown" \in PmpiFaults THEN {"error"} ELSE {}) :
       ended' = [ended EXCEPT ![r] = result]
  /\ UNCHANGED <<ctlMode, shmFile, group, isRoot, met, ctlState, made, others>>

\* The thread is joined unless there was an error; the process of a controller comes
\* here after it has run.
Join(r) ==
  /\ \/ (ended[r] = "error" \/ ctlState[r] \in {"none", "failed", "done"}) /\ Go(r, "shut", "end")
     \/ ctlState[r] = "done" /\ Go(r, "controller", "end")
  /\ Enter(r, "world", "end")
  /\ UNCHANGED <<ctlMode, shmFile, group, isRoot, ctlState, made, ended, others>>

\* The communicators are freed and PMPI_Finalize() is called.
Final(r) ==
  /\ CanLeave(r, "world") /\ Go(r, "end", "done")
  /\ UNCHANGED <<ctlMode, shmFile, group, isRoot, met, ctlState, made, ended, others>>

----------------------------------------------------------------------------
\* Another job of the same user in geopm_comm_split_shared(): the name of the file has
\* the user in it and not the job.
OtherJob(n) ==
  /\ others < MaxOther
  /\ others' = others + 1
  /\ \E file \in {NoProc, OtherProc} : shmFile' = [shmFile EXCEPT ![n] = file]
  /\ UNCHANGED <<ctlMode, at, group, isRoot, met, ctlState, made, ended>>

\* A file of an earlier job may be left.
PmpiInit ==
  /\ ctlMode \in CtlModes
  /\ at = [r \in Procs |-> "start"]
  /\ shmFile \in [HostNodes -> {NoProc, OtherProc}]
  /\ group = [r \in Procs |-> NoProc]
  /\ isRoot = [r \in Procs |-> FALSE]
  /\ met = [r \in Procs |-> <<>>]
  /\ ctlState = [r \in Procs |-> "none"]
  /\ made = [r \in Procs |-> 0]
  /\ ended = [r \in Procs |-> "no"]
  /\ others = 0

ProcStep(r) ==
  \/ Unlink(r) \/ Look(r) \/ Open(r) \/ Split(r) \/ SplitRoots(r) \/ ShareNum(r)
  \/ Begin(r) \/ Create(r) \/ CreateFails(r) \/ Run(r) \/ Report(r) \/ ControllerEnds(r)
  \/ Call(r) \/ FortranCall(r) \/ StartCall(r) \/ FortranStart(r) \/ WaitAll(r) \/ Return(r) \/ Finalize(r) \/ Shutdown(r) \/ Join(r) \/ Final(r)

PmpiNext == (\E r \in Procs : ProcStep(r)) \/ (\E n \in HostNodes : OtherJob(n))

----------------------------------------------------------------------------
(* Properties *)

\* The type invariant.
PmpiTypeOK ==
  /\ ctlMode \in CtlModes
  /\ \A n \in HostNodes : shmFile[n] \in Procs \union {NoProc, OtherProc}
  /\ \A r \in Procs : /\ group[r] \in Procs \union {NoProc, OtherProc}
                      /\ isRoot[r] \in BOOLEAN
                      /\ ctlState[r] \in {"none", "failed", "created", "running", "reporting", "done"}
                      /\ made[r] \in 0..NumCalls
                      /\ ended[r] \in {"no", "ok", "error"}

\* No controller failed, every profile was ended, and no other job was starting.
Undisturbed == others = 0 /\ \A r \in Procs : ctlState[r] # "failed" /\ ended[r] # "error"

\* The job does not hang: when nothing can happen any more, every process has ended
\* (MPI_Init() and MPI_Finalize() have barriers on three communicators).
JobEnds == Undisturbed => (\E r \in Procs : ENABLED ProcStep(r)) \/ \A r \in Procs : at[r] = "done"

\* JobEnds also when something failed: not so.  A controller that cannot be made waits for
\* the others in the barrier of geopm_pmpi_finalize(), and they wait for its report;
\* after an error of geopm_prof_shutdown() the process waits for the controllers in
\* the last barrier, and they wait for its end.
JobEndsAlways == (\E r \in Procs : ENABLED ProcStep(r)) \/ \A r \in Procs : at[r] \in {"done", "aborted"}

\* OneController also while another job of the user starts: not so, it removes the file
\* between two processes that look for it.
OneControllerAlways ==
  (\A r \in Procs : at[r] \notin {"start", "cleared", "looked", "opened", "split", "parted"}) /\ ctlMode # "application"
    => \A n \in HostNodes : Cardinality({r \in Procs : NodeOf[r] = n /\ isRoot[r]}) = 1

\* When the processes have split, each node has one controller (geopm_comm_split()).
OneController == others = 0 => OneControllerAlways

\* Collective calls that meet are the same call: controllers and application never
\* meet in one.
CallsMatch ==
  Undisturbed =>
    \A r, q \in Procs, c \in {"world", "node", "swap", "ctl"} :
      q \in Members(c, r) => \A k \in 1..Min({Len(On(r, c)), Len(On(q, c))}) : On(r, c)[k] = On(q, c)[k]

\* ControllersFirst also after an error of geopm_prof_shutdown(): not so, the thread is
\* not joined then.
ControllersFirstAlways ==
  (\E r \in Procs : at[r] = "done") => \A q \in Procs : ctlState[q] \in {"none", "failed", "done"}

\* MPI is shut down only after the controllers of all nodes have written their report
\* (geopm_pmpi_finalize() joins the thread before the last barrier).
ControllersFirst == (\A r \in Procs : ended[r] # "error") => ControllersFirstAlways
=============================================================================
