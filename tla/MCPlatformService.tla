------------------------- MODULE MCPlatformService -------------------------
(* Instances of PlatformService for TLC. *)
EXTENDS PlatformService, TLC

CONSTANTS a, b, leader

\* Every client leads its own session.
Alone == [p \in Pid |-> p]

\* Client a runs in the session of the leader, b in its own.
Grouped == [p \in Pid |-> IF p = a THEN leader ELSE p]

Symmetry == Permutations(Pid) \cup Permutations(Val)

=============================================================================
