----------------------------- MODULE MCService -----------------------------
(* The sessions of the service and its access lists, in finite instances:    *)
(* object says which of them TLC looks at.                                   *)
EXTENDS MCPlatformService, AccessLists

VARIABLE object

\* The groups of the user.
MCOrder == <<"users">>

MCInit ==
  /\ object \in {"sessions", "access"}
  /\ Init
  /\ AccessInit

MCNext ==
  \/ object = "sessions" /\ Next /\ UNCHANGED accessVars
  \/ object = "access" /\ AccessNext /\ UNCHANGED vars

MCSpec == MCInit /\ [][MCNext /\ UNCHANGED object]_<<object, vars, accessVars>>
============================================================================
