---------------------------- MODULE WriteSession ----------------------------
(***************************************************************************)
(* What write mode promises its users, without the daemon that implements   *)
(* it: at most one owner at a time, and the owner leaves the controls with  *)
(* the settings it found (geopmdpy/service.py, open_session()).             *)
(***************************************************************************)
CONSTANTS Pid, NoPid, Val

VARIABLES
    hw,     \* current settings of the controls
    base,   \* settings that the owner found
    owner   \* the writer, or NoPid

vars == <<hw, base, owner>>

Init == hw \in Val /\ base = hw /\ owner = NoPid

Acquire(p) ==
    /\ owner = NoPid /\ hw = base
    /\ owner' = p
    /\ UNCHANGED <<hw, base>>

Modify ==
    /\ owner # NoPid
    /\ hw' \in Val
    /\ UNCHANGED <<base, owner>>

\* The original settings cannot be restored and are given up.
GiveUp ==
    /\ owner # NoPid
    /\ base' = hw
    /\ UNCHANGED <<hw, owner>>

Release ==
    /\ owner # NoPid /\ hw = base
    /\ owner' = NoPid
    /\ UNCHANGED <<hw, base>>

Next == (\E p \in Pid : Acquire(p)) \/ Modify \/ GiveUp \/ Release

Spec == Init /\ [][Next]_vars

=============================================================================
