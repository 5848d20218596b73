---------------------- MODULE PowerBalancerAgent_proofs ----------------------
(***************************************************************************)
(* Proofs about PowerBalancerAgent with a policy file, for any tree of     *)
(* controllers: no agent ever finds its mailboxes out of step (InSync),    *)
(* and the root is never ahead of a node that has work left (Lockstep).    *)
(*                                                                         *)
(* The induction hypothesis relates each agent with the agents below it    *)
(* only; that the root and the leaves are in step follows from it by       *)
(* descending the tree.                                                    *)
(***************************************************************************)
EXTENDS PowerBalancerAgent, NumberSetTheorems, TLAPS

\* Where an agent is in the algorithm, and whether it has completed that step.
Step(b) == IF b[2] = 0 THEN leaf[b[1]].step ELSE tree[b].step
Done(b) == IF b[2] = 0 THEN leaf[b[1]].complete ELSE tree[b].complete

\* The agent has sent a policy to its children.
Sent(a) == IF a = RootAgent THEN rootCap # 0 ELSE tree[a].step >= 0

\* The limit of the policy file, as it is sent to the nodes.
FileCap == Validated(Budget).cap

\* A power limit is in the policies of step 0 and of no other.
CapAtStart(p) == p.cap = 0 <=> p.step > 0

\* The fields that the proofs are about are there.
ShapeOK ==
    /\ ~source.endpoint /\ source.cap = Budget
    /\ pc \in [Node -> [dir : {"down", "up"}, level : Nat]]
    /\ \A n \in Node : pc[n].level <= Ctl[n]
    /\ DOMAIN tree = TreeAgent /\ DOMAIN leaf = Node
    /\ DOMAIN pbox = Agent /\ DOMAIN sbox = Agent
    /\ \A a \in TreeAgent : DOMAIN tree[a] = {"step", "complete", "policy"}
    /\ \A n \in Node : {"step", "complete"} \subseteq DOMAIN leaf[n]

\* Nobody has completed a step that it did not begin.
StepsOK ==
    /\ \A a \in TreeAgent : /\ tree[a].step \in Nat \cup {-1} /\ tree[a].complete \in BOOLEAN
                            /\ tree[a].step = -1 => tree[a].complete
    /\ \A n \in Node : /\ leaf[n].step \in Nat \cup {-1} /\ leaf[n].complete \in BOOLEAN
                       /\ leaf[n].step = -1 => leaf[n].complete
                       /\ pc[n].dir = "up" => leaf[n].step >= 0

\* The policy of the root is that of its step, or of the next one once the step is
\* complete.
RootOK ==
    LET r == tree[RootAgent]
    IN  /\ rootCap \in {0, FileCap}
        /\ r.step \in Nat
        /\ rootCap = 0 => pc[Root] = At("down", Ctl[Root]) /\ r.step = 0 /\ ~r.complete
        /\ rootCap # 0 => /\ {"cap", "step"} \subseteq DOMAIN r.policy
                          /\ r.policy.step = IF r.complete THEN r.step + 1 ELSE r.step
                          /\ CapAtStart(r.policy)

\* A mailbox holds the policy of the step of the agent above.
BoxesOK ==
    \A a \in TreeAgent : \A b \in Children(a) :
        /\ Sent(a) => pbox[b].step = tree[a].step /\ CapAtStart(pbox[b])
        /\ ~Sent(a) => pbox[b] = NoPolicy

\* An agent is in the step of the agent above, or has completed the one before.  A leaf
\* that has no policy yet starts with step 0 by itself.
Behind(a, b) ==
    \/ Step(b) = tree[a].step
    \/ Done(b) /\ Step(b) = tree[a].step - 1
    \/ Done(b) /\ b[2] = 0 /\ Step(b) = 0 /\ tree[a].step = -1

\* The agents below one that has completed a step have completed it.
Finished(a, b) ==
    tree[a].complete /\ tree[a].step >= 0 => Step(b) = tree[a].step /\ Done(b)

FollowOK == \A a \in TreeAgent : \A b \in Children(a) : Behind(a, b) /\ Finished(a, b)

\* A sample in a mailbox is of a step that the agent has completed.
SamplesOK ==
    \A b \in Agent \ {RootAgent} : sbox[b] # NoSample =>
        /\ sbox[b].step \in Nat /\ sbox[b].step <= Step(b)
        /\ sbox[b].step = Step(b) => Done(b)

\* The induction hypothesis.
InStep == /\ ShapeOK /\ StepsOK /\ RootOK /\ BoxesOK /\ FollowOK /\ SamplesOK
          /\ failed = {}

-----------------------------------------------------------------------------
(* The tree                                                                *)

\* The levels of the tree are those of the root.
LEMMA HighestLevel == Max({Ctl[n] : n \in Node}) = Ctl[Root]
  <1> DEFINE C == {Ctl[n] : n \in Node}
  <1>0. \A n \in Node : Ctl[n] \in Nat /\ Ctl[Root] >= Ctl[n]
    BY TreeAssumption
  <1>1. Ctl[Root] \in C /\ \A y \in C : y \in Nat /\ Ctl[Root] >= y
    BY <1>0, TreeAssumption
  <1> HIDE DEF C
  <1>2. ASSUME NEW x \in C, \A y \in C : x >= y
        PROVE  x = Ctl[Root]
    BY <1>1, <1>2
  <1> QED BY <1>1, <1>2 DEF Max, C

\* An agent is a node and one of the levels that it controls.
LEMMA Agents ==
    /\ \A b \in Agent : b = <<b[1], b[2]>> /\ b[1] \in Node /\ b[2] \in 0 .. Ctl[b[1]]
    /\ \A n \in Node : \A l \in 0 .. Ctl[n] : <<n, l>> \in Agent
    /\ \A n \in Node : \A l \in 1 .. Ctl[n] : <<n, l>> \in TreeAgent
  <1>1. Ctl[Root] \in Nat /\ \A n \in Node : Ctl[n] \in Nat /\ Ctl[n] <= Ctl[Root]
    BY TreeAssumption
  <1>2. Agent = {a \in Node \X (0 .. Ctl[Root]) : a[2] <= Ctl[a[1]]}
    BY HighestLevel DEF Agent
  <1>3. ASSUME NEW b \in Agent
        PROVE  b = <<b[1], b[2]>> /\ b[1] \in Node /\ b[2] \in 0 .. Ctl[b[1]]
    <2>1. b \in Node \X (0 .. Ctl[Root]) /\ b[2] <= Ctl[b[1]]
      BY <1>2
    <2>2. b[1] \in Node /\ b[2] \in 0 .. Ctl[Root] /\ b = <<b[1], b[2]>>
      BY <2>1
    <2> QED BY <1>1, <2>1, <2>2
  <1>4. ASSUME NEW n \in Node, NEW l \in 0 .. Ctl[n]
        PROVE  <<n, l>> \in Agent
    <2>1. l \in 0 .. Ctl[Root] /\ l <= Ctl[n]
      BY <1>1
    <2>2. <<n, l>> \in Node \X (0 .. Ctl[Root])
      BY <2>1
    <2> QED BY <1>2, <2>1, <2>2
  <1>5. ASSUME NEW n \in Node, NEW l \in 1 .. Ctl[n]
        PROVE  <<n, l>> \in TreeAgent
    <2>1. l \in 0 .. Ctl[n] /\ l > 0
      BY <1>1
    <2> QED BY <1>4, <2>1 DEF TreeAgent
  <1> QED BY <1>3, <1>4, <1>5

\* A child is an agent one level below, and not the root.
LEMMA Below ==
    ASSUME NEW a \in TreeAgent, NEW b \in Children(a)
    PROVE  /\ a \in Agent /\ a[2] \in Nat \ {0}
           /\ b \in Agent /\ b[2] = a[2] - 1
           /\ b # RootAgent /\ b # a
           /\ b[2] # 0 => b \in TreeAgent
  <1>1. a \in Agent /\ a[2] > 0 /\ b \in Agent
    BY TreeAssumption DEF TreeAgent
  <1>2. b[2] = a[2] - 1
    BY DEF Children
  <1>3. a[2] \in Nat \ {0} /\ a[2] <= Ctl[Root] /\ Ctl[Root] \in Nat
    BY <1>1, Agents, TreeAssumption
  <1>4. b # RootAgent /\ b # a
    BY <1>2, <1>3 DEF RootAgent
  <1> QED BY <1>1, <1>2, <1>3, <1>4 DEF TreeAgent

\* Every agent but the root is below exactly one other.
LEMMA Above ==
    ASSUME NEW b \in Agent \ {RootAgent}
    PROVE  \E a \in TreeAgent : /\ b \in Children(a)
                                /\ \A x \in TreeAgent : b \in Children(x) => x = a
  BY TreeAssumption

\* The root and the leaves are different agents.
LEMMA RootIsNoLeaf ==
    /\ RootAgent \in TreeAgent
    /\ \A n \in Node : <<n, 0>> \in Agent \ {RootAgent}
  BY Agents, TreeAssumption DEF RootAgent

-----------------------------------------------------------------------------
(* What the helpers keep                                                   *)

\* Writing the limit to the hardware does not move the algorithm.
LEMMA WrittenKeeps ==
    ASSUME NEW f, {"step", "complete"} \subseteq DOMAIN f
    PROVE  /\ Written(f).step = f.step /\ Written(f).complete = f.complete
           /\ {"step", "complete"} \subseteq DOMAIN Written(f)
  <1> DEFINE request == IF f.bal.limit < MinPower THEN MinPower ELSE f.bal.limit
             g == [f EXCEPT !.oob = @ \/ f.bal.limit < MinPower]
             h == [g EXCEPT !.actual = request, !.bal = LimitAdjusted(@, request)]
  <1>1. g.step = f.step /\ g.complete = f.complete /\ DOMAIN g = DOMAIN f
    OBVIOUS
  <1>2. h.step = g.step /\ h.complete = g.complete /\ DOMAIN h = DOMAIN g
    BY <1>1
  <1>3. Written(f) \in {f, g, h}
    BY DEF Written
  <1> HIDE DEF request, g, h
  <1> QED BY <1>1, <1>2, <1>3

\* A policy with a limit starts the algorithm over.
LEMMA NewCapStarts ==
    ASSUME NEW f, {"step", "complete"} \subseteq DOMAIN f, NEW p
    PROVE  /\ NewCap(f, p).step = 0 /\ NewCap(f, p).complete
           /\ {"step", "complete"} \subseteq DOMAIN NewCap(f, p)
  BY DEF NewCap

\* The next step is the one after, and is complete at once when it only sets a limit.
LEMMA NextStepAdvances ==
    ASSUME NEW f, {"step", "complete"} \subseteq DOMAIN f, NEW p, p.step \in Nat, NEW slow
    PROVE  /\ NextStep(f, p, slow).step = f.step + 1
           /\ NextStep(f, p, slow).complete \in BOOLEAN
           /\ {"step", "complete"} \subseteq DOMAIN NextStep(f, p, slow)
  <1> DEFINE g == [f EXCEPT !.step = @ + 1, !.complete = (p.step % 3 = 0)]
  <1>1. g.step = f.step + 1 /\ g.complete \in BOOLEAN /\ DOMAIN g = DOMAIN f
    OBVIOUS
  <1>2. p.step % 3 \in {0, 1, 2}
    OBVIOUS
  <1> DEFINE power == [g EXCEPT !.bal = PowerCap(@, @.limit + p.slack)]
             target == [g EXCEPT !.bal = TargetRuntime(@, slow)]
  <1>3. NextStep(f, p, slow) = CASE p.step % 3 = 0 -> power
                                 [] p.step % 3 = 1 -> g
                                 [] p.step % 3 = 2 -> target
    BY DEF NextStep
  <1>4. /\ power.step = g.step /\ power.complete = g.complete /\ DOMAIN power = DOMAIN g
        /\ target.step = g.step /\ target.complete = g.complete /\ DOMAIN target = DOMAIN g
    BY <1>1
  <1> HIDE DEF g, power, target
  <1>5. NextStep(f, p, slow) \in {g, power, target}
    BY <1>2, <1>3
  <1> QED BY <1>1, <1>4, <1>5

\* An epoch may complete a step, and no step is undone.
LEMMA SamplingKeeps ==
    ASSUME NEW f, {"step", "complete"} \subseteq DOMAIN f, f.complete \in BOOLEAN,
           NEW h \in Sampling(f)
    PROVE  /\ h.step = f.step /\ h.complete \in BOOLEAN /\ (f.complete => h.complete)
           /\ {"step", "complete"} \subseteq DOMAIN h
  <1>1. CASE h = f
    BY <1>1
  <1>2. CASE ~f.complete /\ h \in Measured(f)
    <2>1. ASSUME NEW r \in Runtime, h = [f EXCEPT !.runtime = r, !.bal = Sampled(@)]
          PROVE  h.step = f.step /\ h.complete = f.complete /\ DOMAIN h = DOMAIN f
      BY <2>1
    <2>2. ASSUME h = [f EXCEPT !.complete = TRUE]
          PROVE  h.step = f.step /\ h.complete /\ DOMAIN h = DOMAIN f
      BY <2>2
    <2>3. h = [f EXCEPT !.complete = TRUE]
            \/ \E r \in Runtime : h = [f EXCEPT !.runtime = r, !.bal = Sampled(@)]
      BY <1>2 DEF Measured
    <2> QED BY <1>2, <2>1, <2>2, <2>3
  <1>3. CASE ~f.complete /\ h \in Reduced(f)
    <2>1. PICK b : h = [f EXCEPT !.complete = f.oob \/ b.met, !.oob = FALSE, !.bal = SlackRead(b),
                                 !.slack = PowerSlack(b), !.headroom = MaxPower - b.limit]
      BY <1>3 DEF Reduced
    <2>2. h.step = f.step /\ h.complete \in BOOLEAN /\ DOMAIN h = DOMAIN f
      BY <2>1
    <2> QED BY <1>3, <2>2
  <1> QED BY <1>1, <1>2, <1>3 DEF Sampling

\* The root goes on to the next step; only the policy of step 0 has a limit.
LEMMA UpdatePolicyAdvances ==
    ASSUME NEW p, {"cap", "step"} \subseteq DOMAIN p, p.step \in Nat, CapAtStart(p), NEW s
    PROVE  /\ UpdatePolicy(p, s).step = p.step + 1
           /\ {"cap", "step"} \subseteq DOMAIN UpdatePolicy(p, s)
           /\ CapAtStart(UpdatePolicy(p, s))
  <1> DEFINE q == [p EXCEPT !.step = @ + 1]
             u == UpdatePolicy(p, s)
  <1>1. q.step = p.step + 1 /\ q.cap = p.cap /\ DOMAIN q = DOMAIN p
    OBVIOUS
  <1>2. p.step % 3 \in {0, 1, 2} /\ (p.step = 0 => p.step % 3 = 0)
    OBVIOUS
  <1> DEFINE share == s.slack \div Cardinality(Node)
             none == [q EXCEPT !.cap = 0]
             slowest == [q EXCEPT !.runtime = s.runtime]
             spare == [q EXCEPT !.slack = IF s.headroom < share THEN s.headroom ELSE share]
  <1>3. u = CASE p.step % 3 = 0 -> none
              [] p.step % 3 = 1 -> slowest
              [] p.step % 3 = 2 -> spare
    BY DEF UpdatePolicy
  <1>4. /\ none.step = q.step /\ none.cap = 0 /\ DOMAIN none = DOMAIN q
        /\ slowest.step = q.step /\ slowest.cap = q.cap /\ DOMAIN slowest = DOMAIN q
        /\ spare.step = q.step /\ spare.cap = q.cap /\ DOMAIN spare = DOMAIN q
    BY <1>1
  <1> HIDE DEF q, u, none, slowest, spare
  <1>5. u = none \/ (p.step # 0 /\ u \in {slowest, spare})
    BY <1>2, <1>3
  <1>6. p.step # 0 => p.cap = 0
    BY DEF CapAtStart
  <1>7. u.step = p.step + 1 /\ u.cap = 0 /\ DOMAIN u = DOMAIN p
    BY <1>1, <1>4, <1>5, <1>6
  <1>8. u.step > 0
    BY <1>7
  <1> QED BY <1>7, <1>8 DEF u, CapAtStart

\* The limit of the policy file is a power.
LEMMA FileCapIsPower ==
    /\ FileCap \in Nat \ {0} /\ Validated(Budget).step = 0
    /\ DOMAIN Validated(Budget) = {"cap", "step", "runtime", "slack"}
  BY PowerAssumption DEF FileCap, Validated, Policy, Clamp

\* The aggregate of the samples is of the oldest step among them.
LEMMA AggregateStep ==
    ASSUME InStep, NEW a \in TreeAgent, Complete(a), Children(a) # {}
    PROVE  /\ Aggregate(Children(a)).step \in Nat
           /\ \A b \in Children(a) : Aggregate(Children(a)).step <= sbox[b].step
  <1> DEFINE T == {s.step : s \in {sbox[b] : b \in Children(a)}}
  <1>1. \A b \in Children(a) : sbox[b].step \in Nat
    BY Below DEF Complete, InStep, SamplesOK
  <1>2. T \subseteq Nat /\ T # {} /\ \A b \in Children(a) : sbox[b].step \in T
    BY <1>1
  <1>3. Aggregate(Children(a)).step = Min(T)
    BY DEF Aggregate, Sample
  <1> HIDE DEF T
  <1> QED BY <1>2, <1>3, MinIsLeast

-----------------------------------------------------------------------------
(* The induction                                                           *)

\* With a policy file, everybody starts in step.
LEMMA InStepInit ==
    ASSUME Init, ~source.endpoint
    PROVE  InStep
  <1>1. source.cap = Budget
    BY DEF Init
  <1>2. \A a \in TreeAgent : /\ tree[a] = NewRole(a)
                             /\ DOMAIN tree[a] = {"step", "complete", "policy"}
                             /\ a = RootAgent => tree[a].step = 0 /\ tree[a].complete = FALSE
                             /\ a # RootAgent => tree[a].step = -1 /\ tree[a].complete = TRUE
    BY DEF Init, NewRole
  <1>3. \A n \in Node : /\ leaf[n].step = -1 /\ leaf[n].complete = TRUE
                        /\ {"step", "complete"} \subseteq DOMAIN leaf[n]
    BY DEF Init, NewLeaf
  <1>4. ShapeOK
    <2>1. pc \in [Node -> [dir : {"down", "up"}, level : Nat]]
      BY TreeAssumption DEF Init, At
    <2>2. \A n \in Node : pc[n].level <= Ctl[n]
      BY TreeAssumption DEF Init, At
    <2> QED BY <1>1, <1>2, <1>3, <2>1, <2>2 DEF Init, ShapeOK
  <1>5. \A n \in Node : pc[n].dir = "down"
    BY DEF Init, At
  <1>6. StepsOK
    <2>1. ASSUME NEW a \in TreeAgent
          PROVE  /\ tree[a].step \in Nat \cup {-1} /\ tree[a].complete \in BOOLEAN
                 /\ tree[a].step = -1 => tree[a].complete
      <3>1. CASE a = RootAgent
        <4>1. tree[a].step = 0 /\ tree[a].complete = FALSE
          BY <1>2, <3>1
        <4>2. tree[a].complete \in BOOLEAN
          BY <4>1
        <4> QED BY <4>1, <4>2
      <3>2. CASE a # RootAgent
        BY <1>2, <3>2
      <3> QED BY <3>1, <3>2
    <2>2. ASSUME NEW n \in Node
          PROVE  /\ leaf[n].step \in Nat \cup {-1} /\ leaf[n].complete \in BOOLEAN
                 /\ leaf[n].step = -1 => leaf[n].complete
                 /\ pc[n].dir = "up" => leaf[n].step >= 0
      BY <1>3, <1>5
    <2> QED BY <2>1, <2>2 DEF StepsOK
  <1>7. RootOK
    BY <1>2, RootIsNoLeaf, TreeAssumption DEF RootOK, Init
  <1>8. BoxesOK
    BY <1>2, Below DEF BoxesOK, Sent, Init
  <1>9. FollowOK
    <2> SUFFICES ASSUME NEW a \in TreeAgent, NEW b \in Children(a)
                 PROVE  Behind(a, b) /\ Finished(a, b)
      BY DEF FollowOK
    <2>1. Step(b) = -1 /\ Done(b)
      BY Below, Agents, <1>2, <1>3 DEF Step, Done
    <2> QED BY <2>1, <1>2 DEF Behind, Finished
  <1>10. SamplesOK
    BY DEF SamplesOK, Init
  <1> QED BY <1>4, <1>6, <1>7, <1>8, <1>9, <1>10 DEF InStep, Init

\* The root and every other agent: each is in the root's step, or has completed the one
\* before.
LEMMA AllFollowRoot ==
    ASSUME InStep
    PROVE  \A b \in Agent : \/ Step(b) = RootStep
                            \/ Done(b) /\ Step(b) = RootStep - 1
  <1> DEFINE Follows(b) == \/ Step(b) = RootStep
                           \/ Done(b) /\ Step(b) = RootStep - 1
             Bad == {b \in Agent : ~Follows(b)}
             Depth == {Ctl[Root] - b[2] : b \in Bad}
  <1>0. \A b \in Agent : b[2] \in Nat /\ Ctl[Root] \in Nat /\ Ctl[Root] - b[2] \in Nat
    BY Agents, TreeAssumption
  <1>1. Depth \subseteq Nat
    BY <1>0
  <1>2. SUFFICES ASSUME Depth # {} PROVE FALSE
    OBVIOUS
  <1>3. PICK d \in Depth : \A e \in Depth : d <= e
    BY <1>1, <1>2, LeastNatural
  <1>4. PICK b \in Bad : d = Ctl[Root] - b[2]
    OBVIOUS
  <1>5. Follows(RootAgent)
    BY RootIsNoLeaf, TreeAssumption DEF RootStep, Step, RootAgent
  <1>6. b \in Agent \ {RootAgent}
    BY <1>5
  <1>7. PICK a \in TreeAgent : b \in Children(a)
    BY <1>6, Above
  <1>8. a \in Agent /\ a[2] # 0 /\ b[2] = a[2] - 1 /\ a[2] \in Nat
    BY <1>7, Below
  <1>9. Follows(a)
    <2>1. Ctl[Root] - a[2] < d
      BY <1>0, <1>4, <1>8
    <2>2. a \in Bad => Ctl[Root] - a[2] \in Depth
      OBVIOUS
    <2>3. Ctl[Root] - a[2] \in Nat /\ d \in Nat
      BY <1>0, <1>1, <1>3, <1>8
    <2>4. a \notin Bad
      BY <1>3, <2>1, <2>2, <2>3
    <2> QED BY <1>8, <2>4
  <1>10. Behind(a, b) /\ Finished(a, b)
    BY <1>7 DEF InStep, FollowOK
  <1>11. Step(a) = tree[a].step /\ Done(a) = tree[a].complete
    BY <1>8 DEF Step, Done
  <1>12. RootStep \in Nat
    BY DEF InStep, RootOK, RootStep
  <1>13. Step(b) \in Nat \cup {-1} /\ (Step(b) = -1 => Done(b))
    BY <1>6, Agents, <1>7, Below DEF InStep, StepsOK, Step, Done
  <1>14. Follows(b)
    BY <1>9, <1>10, <1>11, <1>12, <1>13 DEF Behind, Finished
  <1> QED BY <1>14

\* What a step leaves alone keeps its part of the hypothesis.
LEMMA FollowUnchanged ==
    ASSUME FollowOK, UNCHANGED <<tree, leaf>>
    PROVE  FollowOK'
  BY DEF FollowOK, Behind, Finished, Step, Done

LEMMA SamplesUnchanged ==
    ASSUME SamplesOK, UNCHANGED <<tree, leaf, sbox>>
    PROVE  SamplesOK'
  BY DEF SamplesOK, Step, Done

\* The loop of a controller stays within its levels.
LEMMA DownInLevels ==
    ASSUME InStep, NEW n \in Node, Down(n), pc[n].level > 0
    PROVE  /\ pc' \in [Node -> [dir : {"down", "up"}, level : Nat]]
           /\ \A m \in Node : pc'[m].level <= Ctl[m]
           /\ pc'[n].dir = "down"
           /\ \A m \in Node \ {n} : pc'[m] = pc[m]
  <1>1. pc[n].level \in Nat /\ pc[n].level <= Ctl[n] /\ Ctl[n] \in Nat
    BY TreeAssumption DEF InStep, ShapeOK
  <1>2. pc' = [pc EXCEPT ![n] = [dir |-> "down", level |-> pc[n].level - 1]]
    BY DEF Down, At, InStep, ShapeOK
  <1>3. pc[n].level - 1 \in Nat /\ pc[n].level - 1 <= Ctl[n]
    BY <1>1
  <1> QED BY <1>2, <1>3 DEF InStep, ShapeOK

LEMMA UpInLevels ==
    ASSUME InStep, NEW n \in Node, Up(n)
    PROVE  /\ pc' \in [Node -> [dir : {"down", "up"}, level : Nat]]
           /\ \A m \in Node : pc'[m].level <= Ctl[m]
           /\ \A m \in Node \ {n} : pc'[m] = pc[m]
  <1>1. pc[n].level \in Nat /\ pc[n].level <= Ctl[n] /\ Ctl[n] \in Nat
    BY TreeAssumption DEF InStep, ShapeOK
  <1>2. pc' = [pc EXCEPT ![n] = IF pc[n].level = Ctl[n] THEN [dir |-> "down", level |-> Ctl[n]]
                                ELSE [dir |-> "up", level |-> pc[n].level + 1]]
    BY DEF Up, At, InStep, ShapeOK
  <1>3. pc[n].level # Ctl[n] => pc[n].level + 1 \in Nat /\ pc[n].level + 1 <= Ctl[n]
    BY <1>1
  <1> QED BY <1>1, <1>2, <1>3 DEF InStep, ShapeOK

\* A policy goes to the mailboxes of the children and to no other.
LEMMA SendDownFills ==
    ASSUME NEW a \in TreeAgent, NEW p, SendDown(a, p)
    PROVE  /\ DOMAIN pbox' = Agent
           /\ \A b \in Children(a) : pbox'[b] = p
           /\ \A x \in TreeAgent \ {a} : \A b \in Children(x) : pbox'[b] = pbox[b]
  <1>1. DOMAIN pbox' = Agent /\ \A b \in Agent : pbox'[b] = IF b \in Children(a) THEN p ELSE pbox[b]
    BY DEF SendDown
  <1>2. \A x \in TreeAgent \ {a} : \A b \in Children(x) : b \in Agent /\ b \notin Children(a)
    BY TreeAssumption
  <1>3. Children(a) \subseteq Agent
    BY TreeAssumption
  <1> QED BY <1>1, <1>2, <1>3

\* An agent's role changes by itself: the step and the completion of the others stay.
LEMMA OtherRoles ==
    ASSUME InStep, NEW a \in TreeAgent, NEW r, tree' = [tree EXCEPT ![a] = r], UNCHANGED leaf
    PROVE  /\ DOMAIN tree' = TreeAgent /\ tree'[a] = r
           /\ \A x \in TreeAgent \ {a} : tree'[x] = tree[x]
           /\ \A b \in Agent \ {a} : Step(b)' = Step(b) /\ Done(b)' = Done(b)
           /\ Step(a)' = r.step /\ Done(a)' = r.complete
  <1>1. DOMAIN tree = TreeAgent
    BY DEF InStep, ShapeOK
  <1>2. a[2] # 0
    BY Agents DEF TreeAgent
  <1>3. DOMAIN tree' = TreeAgent /\ tree'[a] = r /\ \A x \in TreeAgent \ {a} : tree'[x] = tree[x]
    BY <1>1
  <1>4. \A b \in Agent : b[2] # 0 => b \in TreeAgent
    BY Agents DEF TreeAgent
  <1> QED BY <1>2, <1>3, <1>4 DEF Step, Done

\* RootRole::descend() sends what the root has decided, and does not throw.
LEMMA RootDescendInStep ==
    ASSUME InStep, NEW n \in Node, RootDescend(n)
    PROVE  InStep'
  <1> DEFINE r == tree[RootAgent]
             p == Validated(source.cap)
             new == [r EXCEPT !.step = 0, !.policy = p]
             next == [r EXCEPT !.step = @ + 1, !.complete = FALSE]
  <1>1. /\ pc[n].dir = "down" /\ n = Root /\ pc[n].level = Ctl[Root]
        /\ <<n, pc[n].level>> = RootAgent
        /\ UNCHANGED <<source, leaf, sbox>>
    BY DEF RootDescend, RootAgent
  <1>2. DoSend /\ p.cap = FileCap /\ p.step = 0 /\ {"cap", "step"} \subseteq DOMAIN p /\ p.cap # 0
    BY FileCapIsPower DEF DoSend, InStep, ShapeOK, FileCap
  <1>3. /\ RootAgent \in TreeAgent /\ DOMAIN r = {"step", "complete", "policy"}
        /\ r.step \in Nat /\ r.complete \in BOOLEAN
    BY RootIsNoLeaf DEF InStep, ShapeOK, StepsOK, RootOK
  <1>4. \A m \in Node \ {Root} : <<m, Ctl[m]>> # RootAgent
    BY DEF RootAgent
  <1>5. CASE p.cap # rootCap /\ rootCap' = p.cap /\ tree' = [tree EXCEPT ![RootAgent] = new]
             /\ SendDown(RootAgent, new.policy) /\ Down(n) /\ UNCHANGED failed
    <2>1. rootCap = 0 /\ r.step = 0 /\ ~r.complete
      BY <1>2, <1>5 DEF InStep, RootOK
    <2>2. /\ new.step = r.step /\ new.complete = r.complete /\ new.policy = p
          /\ DOMAIN new = {"step", "complete", "policy"}
      BY <1>3, <2>1
    <2> HIDE DEF new, p
    <2>3. /\ DOMAIN tree' = TreeAgent /\ tree'[RootAgent] = new
          /\ \A x \in TreeAgent \ {RootAgent} : tree'[x] = tree[x]
          /\ \A b \in Agent : Step(b)' = Step(b) /\ Done(b)' = Done(b)
      <3>1. /\ DOMAIN tree' = TreeAgent /\ tree'[RootAgent] = new
            /\ \A x \in TreeAgent \ {RootAgent} : tree'[x] = tree[x]
            /\ \A b \in Agent \ {RootAgent} : Step(b)' = Step(b) /\ Done(b)' = Done(b)
            /\ Step(RootAgent)' = new.step /\ Done(RootAgent)' = new.complete
        BY <1>1, <1>3, <1>5, OtherRoles
      <3>2. RootAgent[2] # 0
        BY TreeAssumption DEF RootAgent
      <3>3. Step(RootAgent) = r.step /\ Done(RootAgent) = r.complete
        BY <3>2 DEF Step, Done
      <3> QED BY <2>2, <3>1, <3>3
    <2>4. ShapeOK'
      BY <1>1, <1>5, <2>2, <2>3, DownInLevels, TreeAssumption, SendDownFills, <1>3 DEF InStep, ShapeOK
    <2>5. \A a \in TreeAgent : tree'[a].step = tree[a].step /\ tree'[a].complete = tree[a].complete
      BY <2>2, <2>3
    <2>6. StepsOK'
      <3>1. \A m \in Node : pc'[m].dir = "up" => pc[m].dir = "up"
        BY <1>1, <1>5, DownInLevels, TreeAssumption
      <3> QED BY <1>1, <2>5, <3>1 DEF InStep, StepsOK
    <2>7. RootOK'
      BY <1>2, <1>3, <1>5, <2>1, <2>2, <2>3 DEF RootOK, CapAtStart
    <2>8. BoxesOK'
      <3> SUFFICES ASSUME NEW a \in TreeAgent, NEW b \in Children(a)
                   PROVE  /\ Sent(a)' => pbox'[b].step = tree'[a].step /\ CapAtStart(pbox'[b])
                          /\ ~Sent(a)' => pbox'[b] = NoPolicy
        BY DEF BoxesOK
      <3>1. CASE a = RootAgent
        BY <1>2, <1>3, <1>5, <2>1, <2>2, <2>3, <3>1, SendDownFills DEF Sent, CapAtStart
      <3>2. CASE a # RootAgent
        BY <1>3, <1>5, <2>5, <3>2, SendDownFills DEF InStep, BoxesOK, Sent, CapAtStart
      <3> QED BY <3>1, <3>2
    <2>9. FollowOK'
      BY <2>3, <2>5, Below DEF InStep, FollowOK, Behind, Finished
    <2>10. SamplesOK'
      BY <1>1, <2>3 DEF InStep, SamplesOK
    <2> QED BY <1>5, <2>4, <2>6, <2>7, <2>8, <2>9, <2>10 DEF InStep
  <1>6. CASE p.cap = rootCap /\ r.policy.step = r.step + 1 /\ tree' = [tree EXCEPT ![RootAgent] = next]
             /\ SendDown(RootAgent, next.policy) /\ Down(n) /\ UNCHANGED <<rootCap, failed>>
    <2>1. rootCap # 0 /\ r.complete /\ CapAtStart(r.policy) /\ {"cap", "step"} \subseteq DOMAIN r.policy
      BY <1>2, <1>3, <1>6 DEF InStep, RootOK
    <2>2. /\ next.step = r.step + 1 /\ next.complete = FALSE /\ next.policy = r.policy
          /\ DOMAIN next = {"step", "complete", "policy"}
      BY <1>3
    <2> HIDE DEF next, p
    <2>3. /\ DOMAIN tree' = TreeAgent /\ tree'[RootAgent] = next
          /\ \A x \in TreeAgent \ {RootAgent} : tree'[x] = tree[x]
          /\ \A b \in Agent \ {RootAgent} : Step(b)' = Step(b) /\ Done(b)' = Done(b)
      BY <1>1, <1>3, <1>6, OtherRoles
    <2>4. ShapeOK'
      BY <1>1, <1>6, <2>2, <2>3, DownInLevels, TreeAssumption, SendDownFills, <1>3 DEF InStep, ShapeOK
    <2>6. StepsOK'
      <3>1. \A m \in Node : pc'[m].dir = "up" => pc[m].dir = "up"
        BY <1>1, <1>6, DownInLevels, TreeAssumption
      <3>2. /\ tree'[RootAgent].step \in Nat \cup {-1} /\ tree'[RootAgent].complete \in BOOLEAN
            /\ tree'[RootAgent].step # -1
        <4>1. tree'[RootAgent].step = r.step + 1 /\ tree'[RootAgent].complete = FALSE
          BY <2>2, <2>3
        <4>2. tree'[RootAgent].complete \in BOOLEAN
          BY <4>1
        <4> QED BY <1>3, <4>1, <4>2
      <3> QED BY <1>1, <2>3, <3>1, <3>2 DEF InStep, StepsOK
    <2>7. RootOK'
      BY <1>2, <1>3, <1>6, <2>1, <2>2, <2>3 DEF RootOK, CapAtStart
    <2>8. BoxesOK'
      <3> SUFFICES ASSUME NEW a \in TreeAgent, NEW b \in Children(a)
                   PROVE  /\ Sent(a)' => pbox'[b].step = tree'[a].step /\ CapAtStart(pbox'[b])
                          /\ ~Sent(a)' => pbox'[b] = NoPolicy
        BY DEF BoxesOK
      <3>1. CASE a = RootAgent
        BY <1>3, <1>6, <2>1, <2>2, <2>3, <3>1, SendDownFills DEF Sent, CapAtStart
      <3>2. CASE a # RootAgent
        BY <1>3, <1>6, <2>3, <3>2, SendDownFills DEF InStep, BoxesOK, Sent, CapAtStart
      <3> QED BY <3>1, <3>2
    <2>9. FollowOK'
      <3> SUFFICES ASSUME NEW a \in TreeAgent, NEW b \in Children(a)
                   PROVE  Behind(a, b)' /\ Finished(a, b)'
        BY DEF FollowOK
      <3>0. Behind(a, b) /\ Finished(a, b) /\ Step(b)' = Step(b) /\ Done(b)' = Done(b)
        BY <2>3, Below DEF InStep, FollowOK
      <3>1. CASE a = RootAgent
        <4>1. Step(b) = r.step /\ Done(b)
          BY <1>3, <2>1, <3>0, <3>1 DEF Finished
        <4> QED BY <1>3, <2>2, <2>3, <3>0, <3>1, <4>1 DEF Behind, Finished
      <3>2. CASE a # RootAgent
        BY <2>3, <3>0, <3>2 DEF Behind, Finished
      <3> QED BY <3>1, <3>2
    <2>10. SamplesOK'
      BY <1>1, <2>3 DEF InStep, SamplesOK
    <2> QED BY <1>6, <2>4, <2>6, <2>7, <2>8, <2>9, <2>10 DEF InStep
  <1>7. CASE p.cap = rootCap /\ r.policy.step = r.step /\ Down(n) /\ UNCHANGED <<rootCap, tree, pbox, failed>>
    <2>1. ShapeOK'
      BY <1>1, <1>7, DownInLevels, TreeAssumption DEF InStep, ShapeOK
    <2>2. StepsOK'
      <3>1. \A m \in Node : pc'[m].dir = "up" => pc[m].dir = "up"
        BY <1>1, <1>7, DownInLevels, TreeAssumption
      <3> QED BY <1>1, <1>7, <3>1 DEF InStep, StepsOK
    <2>3. RootOK'
      BY <1>2, <1>7 DEF InStep, RootOK, CapAtStart
    <2>4. BoxesOK'
      BY <1>7 DEF InStep, BoxesOK, Sent, CapAtStart
    <2> QED
      BY <1>1, <1>7, <2>1, <2>2, <2>3, <2>4, FollowUnchanged, SamplesUnchanged DEF InStep
  <1>8. rootCap # 0 => r.policy.step \in {r.step, r.step + 1}
    BY <1>3 DEF InStep, RootOK
  <1> QED
    BY <1>1, <1>2, <1>5, <1>6, <1>7, <1>8 DEF RootDescend

\* What an agent knows of the agent above from its mailbox.
LEMMA MailboxOfParent ==
    ASSUME InStep, NEW a \in TreeAgent, NEW b \in Children(a)
    PROVE  /\ tree[a].step \in Nat \cup {-1}
           /\ Received(b) => tree[a].step \in Nat /\ pbox[b].step = tree[a].step /\ CapAtStart(pbox[b])
           /\ ~Received(b) => tree[a].step = -1 \/ (tree[a].step = 0 /\ ~tree[a].complete)
  <1>1. tree[a].step \in Nat \cup {-1}
    BY DEF InStep, StepsOK
  <1>2. Sent(a) => tree[a].step \in Nat /\ pbox[b].step = tree[a].step /\ CapAtStart(pbox[b])
    BY <1>1 DEF InStep, BoxesOK, RootOK, Sent
  <1>3. ~Sent(a) => pbox[b] = NoPolicy /\ (tree[a].step = -1 \/ (tree[a].step = 0 /\ ~tree[a].complete))
    BY <1>1 DEF InStep, BoxesOK, RootOK, Sent
  <1>4. NoPolicy.step = -1
    BY DEF NoPolicy, Policy
  <1> QED BY <1>1, <1>2, <1>3, <1>4 DEF Received

\* TreeRole::descend() passes on the policy of the next step, and does not throw.
LEMMA TreeDescendInStep ==
    ASSUME InStep, NEW n \in Node, NEW l \in TreeLevels(n), TreeDescend(n, l)
    PROVE  InStep'
  <1> DEFINE a == <<n, l>>
             r == tree[a]
             p == pbox[a]
             next == [r EXCEPT !.step = p.step, !.complete = FALSE]
  <1>1. a \in TreeAgent /\ a \in Agent \ {RootAgent} /\ a[2] = l /\ l > 0 /\ l \in Nat
    BY Agents, TreeAssumption DEF TreeLevels, TreeAgent
  <1>2. /\ pc[n].dir = "down" /\ pc[n].level > 0
        /\ UNCHANGED <<source, last, rootCap, leaf, sbox>>
    BY <1>1 DEF TreeDescend
  <1>3. /\ DOMAIN r = {"step", "complete", "policy"}
        /\ r.step \in Nat \cup {-1} /\ r.complete \in BOOLEAN
    BY <1>1 DEF InStep, ShapeOK, StepsOK
  <1>4. PICK x \in TreeAgent : /\ a \in Children(x)
                               /\ \A y \in TreeAgent : a \in Children(y) => y = x
    BY <1>1, Above
  <1>5. Step(a) = r.step /\ Done(a) = r.complete
    BY <1>1 DEF Step, Done
  <1>6. Behind(x, a) /\ Finished(x, a)
    BY <1>4 DEF InStep, FollowOK
  <1>7. ASSUME Received(a), r.complete, p.step # r.step
        PROVE  /\ p.step = r.step + 1 /\ p.step \in Nat /\ p.step = tree[x].step
               /\ CapAtStart(p) /\ ~tree[x].complete
    <2>1. p.step = tree[x].step /\ p.step \in Nat /\ CapAtStart(p)
      BY <1>4, <1>7, MailboxOfParent
    <2> QED BY <1>1, <1>3, <1>5, <1>6, <1>7, <2>1, <1>4 DEF Behind, Finished, InStep, StepsOK
  <1>8. CASE ~(Received(a) /\ r.complete /\ p.step # r.step)
    <2>0. Down(n) /\ UNCHANGED <<tree, pbox, failed>>
      BY <1>8 DEF TreeDescend
    <2>1. ShapeOK'
      BY <1>2, <2>0, DownInLevels DEF InStep, ShapeOK
    <2>2. StepsOK'
      <3>1. \A m \in Node : pc'[m].dir = "up" => pc[m].dir = "up"
        BY <1>2, <2>0, DownInLevels
      <3> QED BY <1>2, <2>0, <3>1 DEF InStep, StepsOK
    <2>3. RootOK'
      <3>1. rootCap = 0 => n # Root
        BY <1>1, <1>2 DEF InStep, RootOK, At, RootAgent, TreeDescend
      <3> QED BY <1>2, <2>0, <3>1, DownInLevels, TreeAssumption DEF InStep, RootOK, CapAtStart
    <2>4. BoxesOK'
      BY <1>2, <2>0 DEF InStep, BoxesOK, Sent, CapAtStart
    <2> QED
      BY <1>2, <2>0, <2>1, <2>2, <2>3, <2>4, FollowUnchanged, SamplesUnchanged DEF InStep
  <1>9. CASE Received(a) /\ r.complete /\ p.step # r.step
    <2>0. tree' = [tree EXCEPT ![a] = next] /\ SendDown(a, p) /\ Down(n) /\ UNCHANGED failed
      BY <1>1, <1>3, <1>7, <1>9 DEF TreeDescend, InStep, ShapeOK
    <2>1. /\ next.step = p.step /\ next.complete = FALSE /\ next.policy = r.policy
          /\ DOMAIN next = {"step", "complete", "policy"}
      BY <1>3
    <2> HIDE DEF next
    <2>2. /\ DOMAIN tree' = TreeAgent /\ tree'[a] = next
          /\ \A y \in TreeAgent \ {a} : tree'[y] = tree[y]
          /\ \A b \in Agent \ {a} : Step(b)' = Step(b) /\ Done(b)' = Done(b)
          /\ Step(a)' = next.step /\ Done(a)' = next.complete
      BY <1>1, <1>2, <2>0, OtherRoles
    <2>3. ShapeOK'
      BY <1>1, <1>2, <2>0, <2>1, <2>2, DownInLevels, SendDownFills DEF InStep, ShapeOK
    <2>4. StepsOK'
      <3>1. \A m \in Node : pc'[m].dir = "up" => pc[m].dir = "up"
        BY <1>2, <2>0, DownInLevels
      <3>2. tree'[a].step \in Nat /\ tree'[a].complete = FALSE
        BY <1>7, <1>9, <2>1, <2>2
      <3>3. tree'[a].complete \in BOOLEAN
        BY <3>2
      <3>4. tree'[a].step # -1
        BY <3>2
      <3> QED BY <1>2, <2>2, <3>1, <3>2, <3>3, <3>4 DEF InStep, StepsOK
    <2>5. RootOK'
      <3>1. rootCap = 0 => n # Root
        BY <1>1, <1>2 DEF InStep, RootOK, At, RootAgent, TreeDescend
      <3>2. tree'[RootAgent] = tree[RootAgent]
        BY <1>1, <2>2, RootIsNoLeaf
      <3> QED BY <1>2, <2>0, <3>1, <3>2, DownInLevels, TreeAssumption DEF InStep, RootOK, CapAtStart
    <2>6. BoxesOK'
      <3> SUFFICES ASSUME NEW y \in TreeAgent, NEW b \in Children(y)
                   PROVE  /\ Sent(y)' => pbox'[b].step = tree'[y].step /\ CapAtStart(pbox'[b])
                          /\ ~Sent(y)' => pbox'[b] = NoPolicy
        BY DEF BoxesOK
      <3>1. CASE y = a
        <4>1. pbox'[b] = p /\ Sent(y)'
          BY <1>1, <1>7, <1>9, <2>0, <2>1, <2>2, <3>1, SendDownFills DEF Sent
        <4> QED BY <1>7, <1>9, <2>1, <2>2, <3>1, <4>1 DEF CapAtStart
      <3>2. CASE y # a
        BY <1>1, <1>2, <2>0, <2>2, <3>2, SendDownFills DEF InStep, BoxesOK, Sent, CapAtStart
      <3> QED BY <3>1, <3>2
    <2>7. FollowOK'
      <3> SUFFICES ASSUME NEW y \in TreeAgent, NEW b \in Children(y)
                   PROVE  Behind(y, b)' /\ Finished(y, b)'
        BY DEF FollowOK
      <3>0. Behind(y, b) /\ Finished(y, b) /\ b \in Agent /\ b # y
        BY Below DEF InStep, FollowOK
      <3>1. CASE y = a
        <4>1. Step(b)' = Step(b) /\ Done(b)' = Done(b)
          BY <2>2, <3>0, <3>1
        <4>2. Step(b) = -1 => Done(b)
          BY <3>0, Agents, Below DEF InStep, StepsOK, Step, Done
        <4>3. Step(b) = r.step + 1 \/ (Done(b) /\ Step(b) = r.step)
          <5>1. Step(b) \in Nat \cup {-1}
            BY <3>0, Agents, Below DEF InStep, StepsOK, Step
          <5> QED BY <1>3, <1>9, <3>0, <3>1, <4>2, <5>1 DEF Behind, Finished
        <4>4. p.step = r.step + 1 /\ r.step \in Int
          BY <1>3, <1>7, <1>9
        <4>5. tree'[y].step = r.step + 1 /\ tree'[y].complete = FALSE
          BY <2>1, <2>2, <3>1, <4>4
        <4> QED BY <4>1, <4>3, <4>4, <4>5 DEF Behind, Finished
      <3>2. CASE b = a
        <4>1. y = x /\ tree'[y] = tree[y]
          BY <1>4, <2>2, <3>0, <3>2
        <4> QED BY <1>7, <1>9, <2>1, <2>2, <3>2, <4>1 DEF Behind, Finished
      <3>3. CASE y # a /\ b # a
        BY <2>2, <3>0, <3>3 DEF Behind, Finished
      <3> QED BY <3>1, <3>2, <3>3
    <2>8. SamplesOK'
      <3> SUFFICES ASSUME NEW b \in Agent \ {RootAgent}, sbox'[b] # NoSample
                   PROVE  /\ sbox'[b].step \in Nat /\ sbox'[b].step <= Step(b)'
                          /\ sbox'[b].step = Step(b)' => Done(b)'
        BY DEF SamplesOK
      <3>1. sbox[b].step \in Nat /\ sbox[b].step <= Step(b) /\ (sbox[b].step = Step(b) => Done(b))
        BY <1>2 DEF InStep, SamplesOK
      <3>2. CASE b = a
        BY <1>2, <1>3, <1>5, <1>7, <1>9, <2>1, <2>2, <3>1, <3>2
      <3>3. CASE b # a
        BY <1>2, <2>2, <3>1, <3>3
      <3> QED BY <3>2, <3>3
    <2> QED BY <2>0, <2>3, <2>4, <2>5, <2>6, <2>7, <2>8 DEF InStep
  <1> QED BY <1>8, <1>9

\* A leaf changes by itself.
LEMMA OtherLeaves ==
    ASSUME InStep, NEW n \in Node, NEW f, leaf' = [leaf EXCEPT ![n] = f], UNCHANGED tree
    PROVE  /\ DOMAIN leaf' = Node /\ leaf'[n] = f
           /\ \A m \in Node \ {n} : leaf'[m] = leaf[m]
           /\ \A b \in Agent \ {<<n, 0>>} : Step(b)' = Step(b) /\ Done(b)' = Done(b)
           /\ Step(<<n, 0>>)' = f.step /\ Done(<<n, 0>>)' = f.complete
           /\ Step(<<n, 0>>) = leaf[n].step /\ Done(<<n, 0>>) = leaf[n].complete
  <1>1. DOMAIN leaf' = Node /\ leaf'[n] = f /\ \A m \in Node \ {n} : leaf'[m] = leaf[m]
    BY DEF InStep, ShapeOK
  <1>2. ASSUME NEW b \in Agent \ {<<n, 0>>}
        PROVE  Step(b)' = Step(b) /\ Done(b)' = Done(b)
    <2>1. b = <<b[1], b[2]>> /\ b[1] \in Node
      BY Agents
    <2>2. b[2] = 0 => leaf'[b[1]] = leaf[b[1]]
      BY <1>1, <2>1
    <2> QED BY <2>2 DEF Step, Done
  <1>3. /\ Step(<<n, 0>>)' = f.step /\ Done(<<n, 0>>)' = f.complete
        /\ Step(<<n, 0>>) = leaf[n].step /\ Done(<<n, 0>>) = leaf[n].complete
    BY <1>1 DEF Step, Done
  <1> QED BY <1>1, <1>2, <1>3

\* LeafRole::adjust_platform() follows its policy, and does not throw.
LEMMA AdjustPlatformInStep ==
    ASSUME InStep, NEW n \in Node, AdjustPlatform(n)
    PROVE  InStep'
  <1> DEFINE a == <<n, 0>>
             p == IF Received(a) THEN pbox[a] ELSE FirstPolicy
             f == leaf[n]
  <1>1. /\ pc[n].dir = "down" /\ pc[n].level = 0
        /\ UNCHANGED <<source, last, rootCap, tree, pbox, sbox>>
        /\ a \in Agent \ {RootAgent}
    BY RootIsNoLeaf DEF AdjustPlatform, At
  <1>2. PICK x \in TreeAgent : /\ a \in Children(x)
                               /\ \A y \in TreeAgent : a \in Children(y) => y = x
    BY <1>1, Above
  <1>3. /\ {"step", "complete"} \subseteq DOMAIN f
        /\ f.step \in Nat \cup {-1} /\ f.complete \in BOOLEAN
        /\ f.step = -1 => f.complete
        /\ tree[x].complete \in BOOLEAN
    BY <1>2 DEF InStep, ShapeOK, StepsOK
  <1>4. Step(a) = f.step /\ Done(a) = f.complete
    BY DEF Step, Done
  <1>5. Behind(x, a) /\ Finished(x, a) /\ a[2] = 0
    BY <1>2 DEF InStep, FollowOK
  <1>6. ASSUME p.cap # 0
        PROVE  tree[x].step \in {0, -1}
    BY <1>2, <1>6, MailboxOfParent DEF CapAtStart
  <1>7. ASSUME p.cap = 0
        PROVE  p.step = tree[x].step /\ p.step \in Nat \ {0} /\ f.step \in {p.step, p.step - 1}
    <2>1. FirstPolicy.cap # 0
      BY FileCapIsPower, PowerAssumption DEF FirstPolicy, InStep, ShapeOK, FileCap
    <2>2. Received(a) /\ p = pbox[a]
      BY <1>7, <2>1
    <2>3. p.step = tree[x].step /\ p.step \in Nat \ {0}
      BY <1>2, <1>7, <2>2, MailboxOfParent DEF CapAtStart
    <2> QED BY <1>4, <1>5, <2>3 DEF Behind
  <1>8. PICK g : /\ leaf' = [leaf EXCEPT ![n] = g]
                 /\ \/ p.cap # 0 /\ g.step = 0 /\ g.complete = TRUE
                    \/ p.cap = 0 /\ p.step # f.step /\ g.step = f.step + 1 /\ g.complete \in BOOLEAN
                    \/ p.cap = 0 /\ p.step = f.step /\ g.step = f.step /\ g.complete = f.complete
                 /\ {"step", "complete"} \subseteq DOMAIN g
    <2>1. PICK slow \in BOOLEAN :
            leaf' = [leaf EXCEPT ![n] = Written(IF p.cap # 0 THEN NewCap(f, p)
                                                ELSE IF p.step # f.step THEN NextStep(f, p, slow)
                                                ELSE f)]
      <3>1. ~(p.cap = 0 /\ p.step \notin {f.step, f.step + 1})
        BY <1>3, <1>7
      <3> QED BY <3>1 DEF AdjustPlatform
    <2>2. CASE p.cap # 0
      <3>1. NewCap(f, p).step = 0 /\ NewCap(f, p).complete /\ {"step", "complete"} \subseteq DOMAIN NewCap(f, p)
        BY <1>3, NewCapStarts
      <3>2. NewCap(f, p).complete = TRUE
        BY <1>3 DEF NewCap
      <3> WITNESS Written(NewCap(f, p))
      <3> QED BY <2>1, <2>2, <3>1, <3>2, WrittenKeeps
    <2>3. CASE p.cap = 0 /\ p.step # f.step
      <3>1. /\ NextStep(f, p, slow).step = f.step + 1 /\ NextStep(f, p, slow).complete \in BOOLEAN
            /\ {"step", "complete"} \subseteq DOMAIN NextStep(f, p, slow)
        BY <1>3, <1>7, <2>3, NextStepAdvances
      <3> WITNESS Written(NextStep(f, p, slow))
      <3> QED BY <2>1, <2>3, <3>1, WrittenKeeps
    <2>4. CASE p.cap = 0 /\ p.step = f.step
      <3> WITNESS Written(f)
      <3> QED BY <1>3, <2>1, <2>4, WrittenKeeps
    <2> QED BY <2>2, <2>3, <2>4
  <1>9. pc' = [pc EXCEPT ![n] = At("up", 0)] /\ UNCHANGED failed
    <2>1. ~(p.cap = 0 /\ p.step \notin {f.step, f.step + 1})
      BY <1>3, <1>7
    <2> QED BY <2>1 DEF AdjustPlatform
  <1> HIDE DEF p
  <1>10. /\ DOMAIN leaf' = Node /\ leaf'[n] = g
         /\ \A m \in Node \ {n} : leaf'[m] = leaf[m]
         /\ \A b \in Agent \ {a} : Step(b)' = Step(b) /\ Done(b)' = Done(b)
         /\ Step(a)' = g.step /\ Done(a)' = g.complete
    BY <1>1, <1>8, OtherLeaves
  <1>11. /\ g.step \in Nat /\ g.complete \in BOOLEAN /\ g.step >= f.step
         /\ g.step = f.step => (f.complete => g.complete)
    <2>1. CASE p.cap # 0
      <3>1. g.step = 0 /\ g.complete = TRUE
        BY <1>8, <2>1
      <3>2. tree[x].step \in {0, -1}
        BY <1>6, <2>1
      <3>3. f.step <= 0
        BY <1>3, <1>4, <1>5, <3>2 DEF Behind
      <3>4. g.complete \in BOOLEAN /\ g.complete
        BY <3>1
      <3>5. g.step \in Nat /\ g.step >= f.step
        BY <1>3, <3>1, <3>3
      <3> QED BY <3>4, <3>5
    <2>2. CASE p.cap = 0 /\ p.step # f.step
      <3>1. g.step = f.step + 1 /\ g.complete \in BOOLEAN
        BY <1>8, <2>2
      <3> QED BY <1>3, <3>1
    <2>3. CASE p.cap = 0 /\ p.step = f.step
      <3>1. g.step = f.step /\ g.complete = f.complete /\ f.step \in Nat
        BY <1>7, <1>8, <2>3
      <3> QED BY <1>3, <3>1
    <2> QED BY <2>1, <2>2, <2>3
  <1>12. ShapeOK'
    <2>0. pc' = [pc EXCEPT ![n] = [dir |-> "up", level |-> 0]]
      BY <1>9 DEF At
    <2>1. /\ pc' \in [Node -> [dir : {"down", "up"}, level : Nat]]
          /\ \A m \in Node : pc'[m].level <= Ctl[m]
      <3>1. pc \in [Node -> [dir : {"down", "up"}, level : Nat]]
        BY DEF InStep, ShapeOK
      <3>2. pc' \in [Node -> [dir : {"down", "up"}, level : Nat]]
        BY <2>0, <3>1
      <3>3. ASSUME NEW m \in Node
            PROVE  pc'[m].level <= Ctl[m]
        <4>1. Ctl[m] \in Nat /\ pc[m].level <= Ctl[m]
          BY TreeAssumption DEF InStep, ShapeOK
        <4>2. pc'[m].level \in {0, pc[m].level}
          BY <2>0, <3>1
        <4> QED BY <4>1, <4>2
      <3> QED BY <3>2, <3>3
    <2> QED BY <1>1, <1>8, <1>10, <2>1 DEF InStep, ShapeOK
  <1>13. StepsOK'
    <2>1. \A m \in Node \ {n} : pc'[m] = pc[m]
      BY <1>9 DEF InStep, ShapeOK
    <2>2. /\ leaf'[n].step \in Nat \cup {-1} /\ leaf'[n].complete \in BOOLEAN
          /\ leaf'[n].step = -1 => leaf'[n].complete
          /\ leaf'[n].step >= 0
      BY <1>10, <1>11
    <2> QED BY <1>1, <1>10, <2>1, <2>2 DEF InStep, StepsOK
  <1>14. RootOK'
    <2>1. rootCap = 0 => n # Root
      BY <1>1, TreeAssumption DEF InStep, RootOK, At
    <2>2. rootCap = 0 => pc'[Root] = pc[Root]
      BY <1>9, <2>1, TreeAssumption DEF InStep, ShapeOK
    <2> QED BY <1>1, <2>2 DEF InStep, RootOK, CapAtStart
  <1>15. BoxesOK'
    BY <1>1 DEF InStep, BoxesOK, Sent, CapAtStart
  <1>16. FollowOK'
    <2> SUFFICES ASSUME NEW y \in TreeAgent, NEW b \in Children(y)
                 PROVE  Behind(y, b)' /\ Finished(y, b)'
      BY DEF FollowOK
    <2>0. Behind(y, b) /\ Finished(y, b) /\ b \in Agent
      BY Below DEF InStep, FollowOK
    <2>1. CASE b = a
      <3>1. y = x /\ tree'[y] = tree[y]
        BY <1>1, <1>2, <2>1
      <3>2. tree[x].step \in Nat \cup {-1}
        BY DEF InStep, StepsOK
      <3>3. CASE p.cap # 0
        <4>1. g.step = 0 /\ g.complete = TRUE
          BY <1>8, <3>3
        <4> QED BY <1>5, <1>6, <1>10, <2>1, <3>1, <3>3, <4>1 DEF Behind, Finished
      <3>4. CASE p.cap = 0 /\ p.step # f.step
        <4>1. g.step = tree[x].step /\ ~tree[x].complete
          BY <1>3, <1>4, <1>5, <1>7, <1>8, <3>2, <3>4 DEF Finished
        <4> QED BY <1>10, <2>1, <3>1, <4>1 DEF Behind, Finished
      <3>5. CASE p.cap = 0 /\ p.step = f.step
        <4>1. g.step = f.step /\ g.complete = f.complete
          BY <1>8, <3>5
        <4> QED BY <1>4, <1>5, <1>10, <2>1, <3>1, <4>1 DEF Behind, Finished
      <3> QED BY <3>3, <3>4, <3>5
    <2>2. CASE b # a
      BY <1>1, <1>10, <2>0, <2>2 DEF Behind, Finished
    <2> QED BY <2>1, <2>2
  <1>17. SamplesOK'
    <2> SUFFICES ASSUME NEW b \in Agent \ {RootAgent}, sbox'[b] # NoSample
                 PROVE  /\ sbox'[b].step \in Nat /\ sbox'[b].step <= Step(b)'
                        /\ sbox'[b].step = Step(b)' => Done(b)'
      BY DEF SamplesOK
    <2>1. sbox[b].step \in Nat /\ sbox[b].step <= Step(b) /\ (sbox[b].step = Step(b) => Done(b))
      BY <1>1 DEF InStep, SamplesOK
    <2>2. CASE b = a
      BY <1>1, <1>3, <1>4, <1>10, <1>11, <2>1, <2>2
    <2>3. CASE b # a
      BY <1>1, <1>10, <2>1, <2>3
    <2> QED BY <2>2, <2>3
  <1> QED BY <1>9, <1>12, <1>13, <1>14, <1>15, <1>16, <1>17 DEF InStep

\* LeafRole::sample_platform() sends only what is complete.
LEMMA SamplePlatformInStep ==
    ASSUME InStep, NEW n \in Node, SamplePlatform(n)
    PROVE  InStep'
  <1> DEFINE a == <<n, 0>>
             f == leaf[n]
  <1>1. /\ pc[n].dir = "up" /\ Up(n)
        /\ UNCHANGED <<source, last, rootCap, tree, pbox, failed>>
        /\ a \in Agent \ {RootAgent}
    BY RootIsNoLeaf DEF SamplePlatform, At
  <1>2. /\ {"step", "complete"} \subseteq DOMAIN f
        /\ f.step \in Nat /\ f.complete \in BOOLEAN
    BY <1>1 DEF InStep, ShapeOK, StepsOK
  <1>3. PICK g \in Sampling(f) :
          /\ leaf' = [leaf EXCEPT ![n] = g]
          /\ sbox' = [sbox EXCEPT ![a] = IF g.complete THEN LeafSample(g) ELSE @]
    BY DEF SamplePlatform
  <1>4. /\ g.step = f.step /\ g.complete \in BOOLEAN /\ (f.complete => g.complete)
        /\ {"step", "complete"} \subseteq DOMAIN g
    BY <1>2, SamplingKeeps
  <1>5. /\ DOMAIN leaf' = Node /\ leaf'[n] = g
        /\ \A m \in Node \ {n} : leaf'[m] = leaf[m]
        /\ \A b \in Agent \ {a} : Step(b)' = Step(b) /\ Done(b)' = Done(b)
        /\ Step(a)' = g.step /\ Done(a)' = g.complete
        /\ Step(a) = f.step /\ Done(a) = f.complete
    BY <1>1, <1>3, OtherLeaves
  <1>6. /\ DOMAIN sbox' = Agent
        /\ \A b \in Agent \ {a} : sbox'[b] = sbox[b]
        /\ g.complete => sbox'[a].step = g.step
        /\ ~g.complete => sbox'[a] = sbox[a]
    BY <1>1, <1>3 DEF LeafSample, Sample, InStep, ShapeOK
  <1>7. ShapeOK'
    BY <1>1, <1>4, <1>5, <1>6, UpInLevels DEF InStep, ShapeOK
  <1>8. StepsOK'
    <2>1. \A m \in Node \ {n} : pc'[m] = pc[m]
      BY <1>1, UpInLevels
    <2>2. /\ leaf'[n].step \in Nat \cup {-1} /\ leaf'[n].complete \in BOOLEAN
          /\ leaf'[n].step # -1 /\ leaf'[n].step >= 0
      BY <1>2, <1>4, <1>5
    <2> QED BY <1>1, <1>5, <2>1, <2>2 DEF InStep, StepsOK
  <1>9. RootOK'
    <2>1. rootCap = 0 => n # Root
      BY <1>1 DEF InStep, RootOK, At
    <2> QED BY <1>1, <2>1, UpInLevels, TreeAssumption DEF InStep, RootOK, CapAtStart
  <1>10. BoxesOK'
    BY <1>1 DEF InStep, BoxesOK, Sent, CapAtStart
  <1>11. FollowOK'
    <2> SUFFICES ASSUME NEW y \in TreeAgent, NEW b \in Children(y)
                 PROVE  Behind(y, b)' /\ Finished(y, b)'
      BY DEF FollowOK
    <2>1. Behind(y, b) /\ Finished(y, b) /\ b \in Agent
      BY Below DEF InStep, FollowOK
    <2>2. Step(b)' = Step(b) /\ (Done(b) => Done(b)')
      BY <1>4, <1>5, <2>1
    <2> QED BY <1>1, <2>1, <2>2 DEF Behind, Finished
  <1>12. SamplesOK'
    <2> SUFFICES ASSUME NEW b \in Agent \ {RootAgent}, sbox'[b] # NoSample
                 PROVE  /\ sbox'[b].step \in Nat /\ sbox'[b].step <= Step(b)'
                        /\ sbox'[b].step = Step(b)' => Done(b)'
      BY DEF SamplesOK
    <2>1. CASE b = a /\ g.complete
      BY <1>2, <1>4, <1>5, <1>6, <2>1
    <2>2. CASE b = a /\ ~g.complete
      BY <1>4, <1>5, <1>6, <2>2 DEF InStep, SamplesOK
    <2>3. CASE b # a
      BY <1>5, <1>6, <2>3 DEF InStep, SamplesOK
    <2> QED BY <2>1, <2>2, <2>3
  <1> QED BY <1>1, <1>7, <1>8, <1>9, <1>10, <1>11, <1>12 DEF InStep

\* Emptying mailboxes keeps what is said of the samples in them.
LEMMA ReceiveUpEmpties ==
    ASSUME InStep, NEW a \in TreeAgent
    PROVE  /\ DOMAIN ReceiveUp(a) = Agent
           /\ \A b \in Agent : ReceiveUp(a)[b] \in {sbox[b], NoSample}
  BY DEF ReceiveUp

\* TreeRole::ascend() and RootRole::ascend() complete a step only when every agent below
\* has completed it, and do not throw.
LEMMA AscendInStep ==
    ASSUME InStep, NEW n \in Node, Ascend(n)
    PROVE  InStep'
  <1>0. PICK l \in Nat : pc[n].level = l
    BY DEF InStep, ShapeOK
  <1> DEFINE a == <<n, l>>
             r == tree[a]
             s == Aggregate(Children(a))
             done == Complete(a) /\ ~r.complete /\ s.step = r.step
             emptied == ReceiveUp(a)
             treeDone == [r EXCEPT !.complete = TRUE]
             rootDone == [r EXCEPT !.complete = TRUE, !.policy = UpdatePolicy(@, s)]
  <1>1. /\ pc[n].dir = "up" /\ pc[n].level > 0
        /\ UNCHANGED <<source, last, rootCap, leaf, pbox>>
    BY DEF Ascend
  <1>2. a \in TreeAgent /\ a \in Agent /\ a[2] # 0
    <2>1. l \in 1 .. Ctl[n]
      BY <1>0, <1>1, TreeAssumption DEF InStep, ShapeOK
    <2> QED BY <2>1, Agents DEF TreeAgent
  <1>3. /\ DOMAIN r = {"step", "complete", "policy"}
        /\ r.step \in Nat \cup {-1} /\ r.complete \in BOOLEAN
        /\ r.step = -1 => r.complete
    BY <1>2 DEF InStep, ShapeOK, StepsOK
  <1>4. rootCap # 0 \/ n # Root
    BY <1>1 DEF InStep, RootOK, At
  <1>5. /\ DOMAIN emptied = Agent
        /\ \A b \in Agent : emptied[b] \in {sbox[b], NoSample}
    BY <1>2, ReceiveUpEmpties
  <1>6. ASSUME done
        PROVE  r.step \in Nat /\ \A b \in Children(a) : Step(b) = r.step /\ Done(b)
    <2>1. r.step \in Nat
      BY <1>3, <1>6
    <2>2. \A b \in Children(a) : r.step <= sbox[b].step
      <3>1. <<a[1], a[2] - 1>> \in Children(a)
        BY <1>2, TreeAssumption DEF Children
      <3> QED BY <1>2, <1>6, <3>1, AggregateStep
    <2> SUFFICES ASSUME NEW b \in Children(a)
                 PROVE  Step(b) = r.step /\ Done(b)
      BY <2>1
    <2>3. /\ sbox[b].step \in Nat /\ sbox[b].step <= Step(b)
          /\ sbox[b].step = Step(b) => Done(b)
      BY <1>2, <1>6, Below DEF InStep, SamplesOK, Complete
    <2>4. Behind(a, b) /\ Step(b) \in Int
      BY <1>2, Below, Agents DEF InStep, FollowOK, StepsOK, Step
    <2> QED BY <2>1, <2>2, <2>3, <2>4 DEF Behind
  <1>7. CASE sbox' = emptied /\ Up(n) /\ UNCHANGED <<tree, failed>>
    <2>1. ShapeOK'
      BY <1>1, <1>5, <1>7, UpInLevels DEF InStep, ShapeOK
    <2>2. StepsOK'
      BY <1>1, <1>7, UpInLevels DEF InStep, StepsOK
    <2>3. RootOK'
      BY <1>1, <1>4, <1>7, UpInLevels, TreeAssumption DEF InStep, RootOK, CapAtStart
    <2>4. BoxesOK'
      BY <1>1, <1>7 DEF InStep, BoxesOK, Sent, CapAtStart
    <2>5. FollowOK'
      BY <1>1, <1>7, FollowUnchanged DEF InStep
    <2>6. SamplesOK'
      BY <1>1, <1>5, <1>7 DEF InStep, SamplesOK, Step, Done
    <2> QED BY <1>7, <2>1, <2>2, <2>3, <2>4, <2>5, <2>6 DEF InStep
  <1>8. CASE done /\ a # RootAgent /\ tree' = [tree EXCEPT ![a] = treeDone]
             /\ sbox' = [emptied EXCEPT ![a] = s] /\ Up(n) /\ UNCHANGED failed
    <2>1. /\ treeDone.step = r.step /\ treeDone.complete = TRUE
          /\ DOMAIN treeDone = {"step", "complete", "policy"}
      BY <1>3
    <2> HIDE DEF treeDone
    <2>2. /\ DOMAIN tree' = TreeAgent /\ tree'[a] = treeDone
          /\ \A y \in TreeAgent \ {a} : tree'[y] = tree[y]
          /\ \A b \in Agent \ {a} : Step(b)' = Step(b) /\ Done(b)' = Done(b)
          /\ Step(a)' = treeDone.step /\ Done(a)' = treeDone.complete
      BY <1>1, <1>2, <1>8, OtherRoles
    <2>3. Step(a) = r.step /\ Done(a) = r.complete
      BY <1>2 DEF Step, Done
    <2>4. ShapeOK'
      BY <1>1, <1>5, <1>8, <2>1, <2>2, UpInLevels DEF InStep, ShapeOK
    <2>5. tree'[a].step = r.step /\ tree'[a].complete = TRUE /\ tree'[a].complete \in BOOLEAN
      BY <2>1, <2>2
    <2>6. StepsOK'
      BY <1>1, <1>3, <1>8, <2>2, <2>5, UpInLevels DEF InStep, StepsOK
    <2>7. RootOK'
      <3>1. tree'[RootAgent] = tree[RootAgent]
        BY <1>8, <2>2, RootIsNoLeaf
      <3> QED BY <1>1, <1>4, <1>8, <3>1, UpInLevels, TreeAssumption DEF InStep, RootOK, CapAtStart
    <2>8. BoxesOK'
      BY <1>1, <1>8, <2>2, <2>5 DEF InStep, BoxesOK, Sent, CapAtStart
    <2>9. FollowOK'
      <3> SUFFICES ASSUME NEW y \in TreeAgent, NEW b \in Children(y)
                   PROVE  Behind(y, b)' /\ Finished(y, b)'
        BY DEF FollowOK
      <3>0. Behind(y, b) /\ Finished(y, b) /\ b \in Agent /\ b # y
        BY Below DEF InStep, FollowOK
      <3>1. CASE y = a
        BY <1>6, <1>8, <2>2, <2>5, <3>0, <3>1 DEF Behind, Finished
      <3>2. CASE y # a
        <4>1. tree'[y] = tree[y] /\ Step(b)' = Step(b) /\ (Done(b) => Done(b)')
          BY <2>1, <2>2, <2>3, <3>0, <3>2
        <4> QED BY <3>0, <4>1 DEF Behind, Finished
      <3> QED BY <3>1, <3>2
    <2>10. SamplesOK'
      <3>1. s.step = r.step /\ r.step \in Nat
        BY <1>6, <1>8
      <3>2. sbox'[a] = s /\ \A b \in Agent \ {a} : sbox'[b] \in {sbox[b], NoSample}
        BY <1>2, <1>5, <1>8
      <3> SUFFICES ASSUME NEW b \in Agent \ {RootAgent}, sbox'[b] # NoSample
                   PROVE  /\ sbox'[b].step \in Nat /\ sbox'[b].step <= Step(b)'
                          /\ sbox'[b].step = Step(b)' => Done(b)'
        BY DEF SamplesOK
      <3>3. CASE b = a
        BY <2>1, <2>2, <3>1, <3>2, <3>3
      <3>4. CASE b # a
        BY <2>2, <3>2, <3>4 DEF InStep, SamplesOK
      <3> QED BY <3>3, <3>4
    <2> QED BY <1>8, <2>4, <2>6, <2>7, <2>8, <2>9, <2>10 DEF InStep
  <1>9. CASE done /\ a = RootAgent /\ tree' = [tree EXCEPT ![a] = rootDone]
             /\ sbox' = emptied /\ Up(n) /\ UNCHANGED failed
    <2>0. /\ rootCap # 0 /\ {"cap", "step"} \subseteq DOMAIN r.policy
          /\ r.policy.step = r.step /\ CapAtStart(r.policy)
      BY <1>4, <1>9 DEF InStep, RootOK, RootAgent
    <2>1. /\ rootDone.step = r.step /\ rootDone.complete = TRUE
          /\ rootDone.policy = UpdatePolicy(r.policy, s)
          /\ DOMAIN rootDone = {"step", "complete", "policy"}
      BY <1>3
    <2> HIDE DEF rootDone
    <2>2. /\ DOMAIN tree' = TreeAgent /\ tree'[a] = rootDone
          /\ \A y \in TreeAgent \ {a} : tree'[y] = tree[y]
          /\ \A b \in Agent \ {a} : Step(b)' = Step(b) /\ Done(b)' = Done(b)
      BY <1>1, <1>2, <1>9, OtherRoles
    <2>4. ShapeOK'
      BY <1>1, <1>5, <1>9, <2>1, <2>2, UpInLevels DEF InStep, ShapeOK
    <2>5. tree'[a].step = r.step /\ tree'[a].complete = TRUE /\ tree'[a].complete \in BOOLEAN
      BY <2>1, <2>2
    <2>6. StepsOK'
      BY <1>1, <1>3, <1>9, <2>2, <2>5, UpInLevels DEF InStep, StepsOK
    <2>7. RootOK'
      <3>1. /\ UpdatePolicy(r.policy, s).step = r.step + 1
            /\ {"cap", "step"} \subseteq DOMAIN UpdatePolicy(r.policy, s)
            /\ CapAtStart(UpdatePolicy(r.policy, s))
        BY <1>6, <1>9, <2>0, UpdatePolicyAdvances
      <3> QED BY <1>1, <1>6, <1>9, <2>0, <2>1, <2>2, <2>5, <3>1 DEF InStep, RootOK, CapAtStart
    <2>8. BoxesOK'
      BY <1>1, <1>9, <2>2, <2>5 DEF InStep, BoxesOK, Sent, CapAtStart
    <2>9. FollowOK'
      <3> SUFFICES ASSUME NEW y \in TreeAgent, NEW b \in Children(y)
                   PROVE  Behind(y, b)' /\ Finished(y, b)'
        BY DEF FollowOK
      <3>0. Behind(y, b) /\ Finished(y, b) /\ b \in Agent \ {a}
        BY <1>9, Below DEF InStep, FollowOK
      <3>1. CASE y = a
        BY <1>6, <1>9, <2>2, <2>5, <3>0, <3>1 DEF Behind, Finished
      <3>2. CASE y # a
        BY <2>2, <3>0, <3>2 DEF Behind, Finished
      <3> QED BY <3>1, <3>2
    <2>10. SamplesOK'
      BY <1>5, <1>9, <2>2 DEF InStep, SamplesOK
    <2> QED BY <1>9, <2>4, <2>6, <2>7, <2>8, <2>9, <2>10 DEF InStep
  <1>10. done /\ a = RootAgent => r.step = r.policy.step
    BY <1>4 DEF InStep, RootOK, RootAgent
  <1>11. \/ sbox' = emptied /\ Up(n) /\ UNCHANGED <<tree, failed>>
         \/ /\ done /\ a # RootAgent /\ tree' = [tree EXCEPT ![a].complete = TRUE]
            /\ sbox' = [emptied EXCEPT ![a] = s] /\ Up(n) /\ UNCHANGED failed
         \/ /\ done /\ a = RootAgent
            /\ tree' = [tree EXCEPT ![a].complete = TRUE, ![a].policy = UpdatePolicy(@, s)]
            /\ sbox' = emptied /\ Up(n) /\ UNCHANGED failed
    BY <1>0, <1>10 DEF Ascend
  <1>12. [tree EXCEPT ![a].complete = TRUE] = [tree EXCEPT ![a] = treeDone]
    OBVIOUS
  <1>13. [tree EXCEPT ![a].complete = TRUE, ![a].policy = UpdatePolicy(@, s)]
           = [tree EXCEPT ![a] = rootDone]
    BY <1>2, <1>3 DEF InStep, ShapeOK
  <1> QED BY <1>7, <1>8, <1>9, <1>11, <1>12, <1>13

-----------------------------------------------------------------------------
(* Theorems                                                                *)

\* No step of a controller puts anybody out of step.
LEMMA InStepNext ==
    ASSUME InStep, [Next]_vars
    PROVE  InStep'
  <1>1. ~WritePolicy
    BY DEF WritePolicy, InStep, ShapeOK
  <1>2. CASE UNCHANGED vars
    <2>1. UNCHANGED <<pc, source, rootCap, tree, leaf, pbox, sbox, failed>>
      BY <1>2 DEF vars
    <2>2. ShapeOK' /\ StepsOK' /\ RootOK' /\ BoxesOK'
      BY <2>1 DEF InStep, ShapeOK, StepsOK, RootOK, BoxesOK, Sent, CapAtStart
    <2> QED BY <2>1, <2>2, FollowUnchanged, SamplesUnchanged DEF InStep
  <1>3. CASE \E n \in Node : Loop(n)
    BY <1>3, RootDescendInStep, TreeDescendInStep, AdjustPlatformInStep, SamplePlatformInStep,
       AscendInStep DEF Loop
  <1> QED BY <1>1, <1>2, <1>3 DEF Next

\* With a policy file everybody stays in step.
LEMMA AlwaysInStep == Spec /\ ~source.endpoint => []InStep
  BY InStepInit, InStepNext, PTL DEF Spec

\* With a policy file, no agent of a tree of any shape ever reads a policy or a sample
\* that is out of step (the exceptions of PowerBalancerAgent.cpp are not thrown),
\* although each mailbox holds the latest message only and nobody knows what was read.
THEOREM FileInSync == Spec /\ ~source.endpoint => []InSync
  <1>1. InStep => InSync
    BY DEF InStep, InSync
  <1> QED BY <1>1, AlwaysInStep, PTL

\* With a policy file, the root of a tree of any shape begins a step only when every
\* node has completed the one before.
THEOREM FileLockstep == Spec /\ ~source.endpoint => []Lockstep
  <1>1. ASSUME InStep PROVE Lockstep
    <2> SUFFICES ASSUME NEW n \in Node
                 PROVE  leaf[n].step = RootStep \/ (leaf[n].step = RootStep - 1 /\ leaf[n].complete)
      BY DEF Lockstep
    <2>1. Step(<<n, 0>>) = leaf[n].step /\ Done(<<n, 0>>) = leaf[n].complete
      BY DEF Step, Done
    <2> QED BY <1>1, <2>1, AllFollowRoot, RootIsNoLeaf
  <1> QED BY <1>1, AlwaysInStep, PTL

=============================================================================
