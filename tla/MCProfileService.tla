-------------------------- MODULE MCProfileService --------------------------
(* Finite instances of ProfileService and of PMPI for TLC: object says which  *)
(* of them it looks at.  They share nothing.                                  *)
EXTENDS ProfileService, PMPI

CONSTANTS c1, c2, c3, u1, u2

VARIABLE object

OneUser == [c \in Client |-> u1]
TwoUsers == [c \in Client |-> IF c = c1 THEN u1 ELSE u2]

\* Two processes on each node.
MCNodeOf == [r \in Procs |-> r \div 2]

MCInit ==
  /\ object \in {"profile", "mpi"}
  /\ Init
  /\ PmpiInit
  /\ object # "mpi" => ctlMode = "application" /\ shmFile = [n \in HostNodes |-> NoProc]

MCNext ==
  \/ object = "profile" /\ Next /\ UNCHANGED pmpiVars
  \/ object = "mpi" /\ PmpiNext /\ UNCHANGED vars

\* Fairness is that of ProfileService.
MCSpec == MCInit /\ [][MCNext /\ UNCHANGED object]_<<object, vars, pmpiVars>> /\ Fairness

=============================================================================
