------------------------ MODULE MCPowerBalancerAgent ------------------------
(* Finite instances of PowerBalancerAgent for TLC, with the tree that         *)
(* TreeComm builds for a fan-out.                                             *)
EXTENDS PowerBalancerAgent, TreeComm

Two == <<2>>
TwoByTwo == <<2, 2>>

NodesOf(fan) == Ranks(fan)
CtlOf(fan) == [r \in Ranks(fan) |-> NumLevelControlled(fan, r)]
KidsOf(fan) ==
    [a \in {b \in Ranks(fan) \X (1 .. Len(fan)) : b[2] <= NumLevelControlled(fan, b[1])} |->
        LevelRanks(fan, a[1], a[2] - 1)]

Node2 == NodesOf(Two)
Ctl2 == CtlOf(Two)
Kids2 == KidsOf(Two)
Node22 == NodesOf(TwoByTwo)
Ctl22 == CtlOf(TwoByTwo)
Kids22 == KidsOf(TwoByTwo)

=============================================================================
