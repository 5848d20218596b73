------------------------- MODULE PowerBalancerAgent -------------------------
(***************************************************************************)
(* The controllers of a job that run the power balancer agent: every node  *)
(* has a Controller (libgeopm/src/Controller.cpp) whose loop walks its     *)
(* agents (PowerBalancerAgent.cpp) down with policies and up with samples, *)
(* at its own pace.  The nodes communicate through one sided windows       *)
(* (TreeCommLevel.cpp): each agent below the root has a mailbox for the    *)
(* latest policy of its parent and one, at its parent, for its own sample. *)
(*                                                                         *)
(* <<n, l>> is the agent of node n at level l.  The root sends the budget  *)
(* down (step 0), asks for a runtime (step 1), asks for the power that     *)
(* nodes can spare at the slowest node's runtime (step 2) and hands that   *)
(* power out (step 3, of the kind of step 0), and so on.  A node has one   *)
(* package.  A controller whose agent throws an exception ends.            *)
(***************************************************************************)
EXTENDS PowerBalancer, FiniteSets, FiniteSetsExt

CONSTANTS Node,        \* the compute nodes, one controller each
          Root,        \* the node that controls the top level
          Ctl,         \* [Node -> Nat]: num_level_controlled()
          Kids,        \* nodes with a level l - 1 agent below <<n, l>>
          Budget,      \* CPU_POWER_LIMIT of the policy file, or of the endpoint at start
          Budgets,     \* limits that the resource manager may write later
          UseEndpoint, \* {TRUE}: policies come from an endpoint, {FALSE}: from a file
          NoCap,       \* NAN: the endpoint has no policy yet
          Tdp,         \* CPU_POWER_LIMIT_DEFAULT
          MinPower, MaxPower,
          Runtime,     \* epoch runtimes
          MaxStep      \* bound: no epochs after this step

Agent == {a \in Node \X (0 .. Max({Ctl[n] : n \in Node})) : a[2] <= Ctl[a[1]]}
RootAgent == <<Root, Ctl[Root]>>
TreeAgent == {a \in Agent : a[2] > 0}

\* The agents below <<n, l>>.
Children(a) == {<<m, a[2] - 1>> : m \in Kids[a]}

\* A job of several nodes: the one leaf of a job of one node is another role.
ASSUME TreeAssumption ==
    /\ Root \in Node /\ Ctl \in [Node -> Nat] /\ Ctl[Root] > 0
    /\ \A n \in Node \ {Root} : Ctl[n] < Ctl[Root]
    /\ \A a \in TreeAgent : a[1] \in Kids[a] /\ Children(a) \subseteq Agent
    /\ \A b \in Agent \ {RootAgent} : \E a \in TreeAgent : b \in Children(a)
    /\ \A a, b \in TreeAgent : a # b => Children(a) \cap Children(b) = {}

ASSUME PowerAssumption ==
    /\ MinPower \in Nat \ {0} /\ MaxPower \in Nat /\ Tdp \in Nat /\ MinPower <= Tdp /\ Tdp <= MaxPower
    /\ Budgets \cup {Budget} \subseteq (Nat \ {0}) \cup {NoCap}
    /\ NoCap \notin Nat /\ UseEndpoint \subseteq BOOLEAN
    /\ Runtime \subseteq Nat \ {0} /\ MaxStep \in Nat

VARIABLES
    pc,       \* pc[n]: the controller's place in its loop
    source,   \* where policies come from: an endpoint or not, and the limit in it
    last,     \* Controller::m_last_policy of the root
    rootCap,  \* RootRole::m_root_cap, 0 before the first policy
    tree,     \* the TreeRole or RootRole of each agent above a leaf
    leaf,     \* the LeafRole of each node
    pbox,     \* the policy mailbox of each agent
    sbox,     \* the sample mailbox of each agent, at its parent
    failed    \* controllers that ended with an exception

vars == <<pc, source, last, rootCap, tree, leaf, pbox, sbox, failed>>

-----------------------------------------------------------------------------
(* Messages                                                                *)

Policy(cap, step, runtime, slack) ==
    [cap |-> cap, step |-> step, runtime |-> runtime, slack |-> slack]

Sample(step, runtime, slack, headroom) ==
    [step |-> step, runtime |-> runtime, slack |-> slack, headroom |-> headroom]

\* An empty mailbox, and the m_policy of NANs of a RootRole.
NoPolicy == Policy(0, -1, 0, 0)
NoSample == Sample(-1, 0, 0, 0)

Clamp(c) == IF c < MinPower THEN MinPower ELSE IF c > MaxPower THEN MaxPower ELSE c

\* validate_policy() of a policy from outside, whose other fields are NAN.
Validated(c) == Policy(IF c = NoCap THEN Tdp ELSE Clamp(c), 0, 0, 0)

\* What m_in_policy of a node holds until a policy arrives: the file was read by
\* every controller, the endpoint only by the root.
FirstPolicy == Validated(IF source.endpoint THEN NoCap ELSE Budget)

\* receive_down(): the mailbox keeps the last policy, read or not.
Received(a) == pbox[a] # NoPolicy

At(dir, level) == [dir |-> dir, level |-> level]

NewLeaf == [step |-> -1, complete |-> TRUE, bal |-> NewBalancer, actual |-> 0,
            oob |-> FALSE, runtime |-> 0, slack |-> 0, headroom |-> 0]

NewRole(a) == IF a = RootAgent THEN [step |-> 0, complete |-> FALSE, policy |-> NoPolicy]
              ELSE [step |-> -1, complete |-> TRUE, policy |-> NoPolicy]

Init == /\ pc = [n \in Node |-> At("down", Ctl[n])]
        /\ source \in [endpoint : UseEndpoint, cap : {Budget}]
        /\ last = NoCap /\ rootCap = 0
        /\ tree = [a \in TreeAgent |-> NewRole(a)]
        /\ leaf = [n \in Node |-> NewLeaf]
        /\ pbox = [a \in Agent |-> NoPolicy]
        /\ sbox = [a \in Agent |-> NoSample]
        /\ failed = {}

-----------------------------------------------------------------------------
(* Controller::walk_down()                                                 *)

\* One level of the loop.  The next level's mailbox is this node's own memory.
Down(n) == pc' = [pc EXCEPT ![n] = At("down", @.level - 1)]

\* send_down(): a child whose policy did not change is left out, which changes
\* nothing in its mailbox.
SendDown(a, p) == pbox' = [b \in Agent |-> IF b \in Children(a) THEN p ELSE pbox[b]]

Throw(n) == failed' = failed \cup {n}

\* An endpoint's policy is only passed to split_policy() when it changed.
DoSend == ~source.endpoint \/ source.cap # last

\* RootRole::descend()
RootDescend(n) ==
    LET a == <<n, pc[n].level>>
        r == tree[a]
        p == Validated(source.cap)
        new == [r EXCEPT !.step = 0, !.policy = p]
        next == [r EXCEPT !.step = @ + 1, !.complete = FALSE]
    IN  /\ pc[n].dir = "down" /\ a = RootAgent /\ n \notin failed
        /\ last' = source.cap
        /\ \/ /\ ~DoSend
              /\ Down(n) /\ UNCHANGED <<rootCap, tree, pbox, failed>>
           \/ /\ DoSend /\ p.cap # rootCap
              /\ rootCap' = p.cap
              /\ tree' = [tree EXCEPT ![a] = new]
              /\ SendDown(a, new.policy)
              /\ Down(n) /\ UNCHANGED failed
           \/ /\ DoSend /\ p.cap = rootCap /\ r.policy.step = r.step + 1
              /\ tree' = [tree EXCEPT ![a] = next]
              /\ SendDown(a, next.policy)
              /\ Down(n) /\ UNCHANGED <<rootCap, failed>>
           \/ /\ DoSend /\ p.cap = rootCap /\ r.policy.step # r.step + 1
              /\ IF r.policy.step = r.step THEN Down(n) /\ UNCHANGED failed
                 ELSE Throw(n) /\ UNCHANGED pc
              /\ UNCHANGED <<rootCap, tree, pbox>>
        /\ UNCHANGED <<source, leaf, sbox>>

\* The levels of a controller below the root that have children.
TreeLevels(n) == {l \in 1 .. Ctl[n] : <<n, l>> # RootAgent}

\* TreeRole::descend()
TreeDescend(n, l) ==
    LET a == <<n, l>>
        r == tree[a]
        p == pbox[a]
    IN  /\ pc[n].dir = "down" /\ pc[n].level = l /\ n \notin failed
        /\ IF Received(a) /\ r.complete /\ p.step # r.step
           THEN IF p.step \in {0, r.step + 1}
                THEN /\ tree' = [tree EXCEPT ![a].step = p.step, ![a].complete = FALSE]
                     /\ SendDown(a, p)
                     /\ Down(n) /\ UNCHANGED failed
                ELSE Throw(n) /\ UNCHANGED <<pc, tree, pbox>>
           ELSE Down(n) /\ UNCHANGED <<tree, pbox, failed>>
        /\ UNCHANGED <<source, last, rootCap, leaf, sbox>>

\* The second half of LeafRole::adjust_platform(): the limit is written to the
\* hardware if it differs from the one written last.
Written(f) ==
    LET request == IF f.bal.limit < MinPower THEN MinPower ELSE f.bal.limit
        g == [f EXCEPT !.oob = @ \/ f.bal.limit < MinPower]
    IN  IF f.bal.limit = 0 THEN f
        ELSE IF request = f.actual THEN g
        ELSE [g EXCEPT !.actual = request, !.bal = LimitAdjusted(@, request)]

\* A policy with a power cap: start over.
NewCap(f, p) == [f EXCEPT !.step = 0, !.complete = TRUE, !.bal = PowerCap(@, p.cap)]

\* The next step of the algorithm, with enter_step().
NextStep(f, p, slow) ==
    LET g == [f EXCEPT !.step = @ + 1, !.complete = (p.step % 3 = 0)]
    IN  CASE p.step % 3 = 0 -> [g EXCEPT !.bal = PowerCap(@, @.limit + p.slack)]
          [] p.step % 3 = 1 -> g
          [] p.step % 3 = 2 -> [g EXCEPT !.bal = TargetRuntime(@, slow)]

\* LeafRole::adjust_platform(), the end of walk_down().
AdjustPlatform(n) ==
    LET a == <<n, 0>>
        p == IF Received(a) THEN pbox[a] ELSE FirstPolicy
        f == leaf[n]
    IN  /\ pc[n] = At("down", 0) /\ n \notin failed
        /\ IF p.cap = 0 /\ p.step \notin {f.step, f.step + 1}
           THEN Throw(n) /\ UNCHANGED <<pc, leaf>>
           ELSE /\ \E slow \in BOOLEAN :
                     leaf' = [leaf EXCEPT ![n] = Written(
                                IF p.cap # 0 THEN NewCap(f, p)
                                ELSE IF p.step # f.step THEN NextStep(f, p, slow)
                                ELSE f)]
                /\ pc' = [pc EXCEPT ![n] = At("up", 0)]
                /\ UNCHANGED failed
        /\ UNCHANGED <<source, last, rootCap, tree, pbox, sbox>>

-----------------------------------------------------------------------------
(* Controller::walk_up()                                                   *)

\* MeasureRuntimeStep::sample_platform() after an epoch.
Measured(f) ==
    {[f EXCEPT !.runtime = r, !.bal = Sampled(@)] : r \in Runtime}
      \cup (IF MayBeStable(f.bal) THEN {[f EXCEPT !.complete = TRUE]} ELSE {})

\* ReduceLimitStep::sample_platform() after an epoch; the runtime is not kept while
\* the limit is not stable.
Reduced(f) ==
    LET tried == IF f.oob \/ f.bal.met THEN {f.bal}
                 ELSE {f.bal, Sampled(f.bal)}
                        \cup (IF MayBeStable(f.bal)
                              THEN {TargetTried(f.bal, slow) : slow \in BOOLEAN} ELSE {})
    IN  {[f EXCEPT !.complete = f.oob \/ b.met, !.oob = FALSE, !.bal = SlackRead(b),
                   !.slack = PowerSlack(b), !.headroom = MaxPower - b.limit] : b \in tried}

\* What an epoch, or none, makes of a leaf.
Sampling(f) ==
    {f} \cup (IF f.complete \/ f.step >= MaxStep THEN {}
              ELSE IF f.step % 3 = 1 THEN Measured(f) ELSE Reduced(f))

\* The sample of a node goes to the mailbox as long as its step is complete.
LeafSample(f) == Sample(f.step, f.runtime, f.slack, f.headroom)

\* The next level of the walk up, or the next loop.
Up(n) == pc' = [pc EXCEPT ![n] = IF @.level = Ctl[n] THEN At("down", Ctl[n])
                                 ELSE At("up", @.level + 1)]

\* (bug) The sample is sent only by the call that completes the step.
SamplePlatformOnce(n) ==
    /\ pc[n] = At("up", 0) /\ n \notin failed
    /\ \E f \in Sampling(leaf[n]) :
          /\ leaf' = [leaf EXCEPT ![n] = f]
          /\ sbox' = [sbox EXCEPT ![<<n, 0>>] = IF f.complete /\ ~leaf[n].complete THEN LeafSample(f) ELSE @]
    /\ Up(n)
    /\ UNCHANGED <<source, last, rootCap, tree, pbox, failed>>

\* LeafRole::sample_platform() and send_up().
SamplePlatform(n) ==
    /\ pc[n] = At("up", 0) /\ n \notin failed
    /\ \E f \in Sampling(leaf[n]) :
          /\ leaf' = [leaf EXCEPT ![n] = f]
          /\ sbox' = [sbox EXCEPT ![<<n, 0>>] = IF f.complete THEN LeafSample(f) ELSE @]
    /\ Up(n)
    /\ UNCHANGED <<source, last, rootCap, tree, pbox, failed>>

\* (bug) The step of the most advanced child.
AggregateLatest(S) ==
    Sample(Max({s.step : s \in {sbox[b] : b \in S}}),
           Max({s.runtime : s \in {sbox[b] : b \in S}}),
           MapThenSumSet(LAMBDA b : sbox[b].slack, S),
           Min({s.headroom : s \in {sbox[b] : b \in S}}))

\* Agent::aggregate_sample() with M_AGG_FUNC.
Aggregate(S) ==
    Sample(Min({s.step : s \in {sbox[b] : b \in S}}),
           Max({s.runtime : s \in {sbox[b] : b \in S}}),
           MapThenSumSet(LAMBDA b : sbox[b].slack, S),
           Min({s.headroom : s \in {sbox[b] : b \in S}}))

\* (bug) The sum of the slack goes to every node.
UpdatePolicyUndivided(p, s) ==
    LET q == [p EXCEPT !.step = @ + 1]
    IN  CASE p.step % 3 = 0 -> [q EXCEPT !.cap = 0]
          [] p.step % 3 = 1 -> [q EXCEPT !.runtime = s.runtime]
          [] p.step % 3 = 2 -> [q EXCEPT !.slack = IF s.headroom < s.slack THEN s.headroom ELSE s.slack]

\* (bug) The step is advanced here and again by the caller.
UpdatePolicyTwice(p, s) == [p EXCEPT !.step = @ + 2, !.cap = 0]

\* update_policy() of the three steps, and the step that comes next.
UpdatePolicy(p, s) ==
    LET q == [p EXCEPT !.step = @ + 1]
        share == s.slack \div Cardinality(Node)
    IN  CASE p.step % 3 = 0 -> [q EXCEPT !.cap = 0]
          [] p.step % 3 = 1 -> [q EXCEPT !.runtime = s.runtime]
          [] p.step % 3 = 2 -> [q EXCEPT !.slack = IF s.headroom < share THEN s.headroom ELSE share]

\* receive_up(): the mailboxes of the children are emptied once all have a sample.
Complete(a) == \A b \in Children(a) : sbox[b] # NoSample
ReceiveUp(a) ==
    [b \in Agent |-> IF Complete(a) /\ b \in Children(a) THEN NoSample ELSE sbox[b]]

\* TreeRole::ascend() and RootRole::ascend().
Ascend(n) ==
    LET a == <<n, pc[n].level>>
        r == tree[a]
        s == Aggregate(Children(a))
        done == Complete(a) /\ ~r.complete /\ s.step = r.step
        emptied == ReceiveUp(a)
    IN  /\ pc[n].dir = "up" /\ pc[n].level > 0 /\ n \notin failed
        /\ \/ /\ ~done
              /\ sbox' = emptied
              /\ Up(n) /\ UNCHANGED <<tree, failed>>
           \/ /\ done /\ a # RootAgent
              /\ tree' = [tree EXCEPT ![a].complete = TRUE]
              /\ sbox' = [emptied EXCEPT ![a] = s]
              /\ Up(n) /\ UNCHANGED failed
           \/ /\ done /\ a = RootAgent
              /\ sbox' = emptied
              /\ IF r.step = r.policy.step
                 THEN /\ tree' = [tree EXCEPT ![a].complete = TRUE,
                                              ![a].policy = UpdatePolicy(@, s)]
                      /\ Up(n) /\ UNCHANGED failed
                 ELSE Throw(n) /\ UNCHANGED <<pc, tree>>
        /\ UNCHANGED <<source, last, rootCap, leaf, pbox>>

-----------------------------------------------------------------------------

\* The resource manager writes a policy to the endpoint: write_policy().
WritePolicy ==
    /\ source.endpoint
    /\ \E c \in Budgets : source' = [source EXCEPT !.cap = c]
    /\ UNCHANGED <<pc, last, rootCap, tree, leaf, pbox, sbox, failed>>

Loop(n) == \/ RootDescend(n) \/ (\E l \in TreeLevels(n) : TreeDescend(n, l)) \/ AdjustPlatform(n)
           \/ SamplePlatform(n) \/ Ascend(n)

Next == WritePolicy \/ \E n \in Node : Loop(n)

\* Every controller's loop goes on; nothing makes the application reach an epoch.
Spec == Init /\ [][Next]_vars /\ \A n \in Node : WF_vars(Loop(n))

-----------------------------------------------------------------------------
(* Properties                                                              *)

PolicyType == [cap : Nat, step : Int, runtime : Nat, slack : Int]
SampleType == [step : Int, runtime : Nat, slack : Int, headroom : Int]

\* The type of every variable.
TypeOK ==
    /\ \A n \in Node : pc[n].dir \in {"down", "up"} /\ pc[n].level \in 0 .. Ctl[n]
    /\ source \in [endpoint : BOOLEAN, cap : Nat \cup {NoCap}] /\ last \in Nat \cup {NoCap} /\ rootCap \in Nat
    /\ \A a \in TreeAgent : tree[a] \in [step : Int, complete : BOOLEAN, policy : PolicyType]
    /\ pbox \in [Agent -> PolicyType] /\ sbox \in [Agent -> SampleType]
    /\ \A n \in Node : leaf[n].step \in Int /\ leaf[n].complete \in BOOLEAN
    /\ failed \subseteq Node

RootStep == tree[RootAgent].step

\* No agent finds its policy or its samples out of step and throws an exception,
\* although every mailbox holds only the latest message and nobody knows whether
\* it was read.
InSync == failed = {}

\* The root moves on only when every node has completed the step: a node is in the
\* root's step, or has completed the one before and not read its mailbox yet.
Lockstep ==
    \A n \in Node :
        leaf[n].step = RootStep \/ (leaf[n].step = RootStep - 1 /\ leaf[n].complete)

\* The runtime that a node reduces its power to is the slowest that any node has
\* measured under the same distribution of power.
TargetIsSlowest ==
    \A n \in Node : leaf[n].step % 3 = 2 =>
        pbox[<<n, 0>>].runtime = Max({leaf[m].runtime : m \in Node})

TotalWanted == MapThenSumSet(LAMBDA n : leaf[n].bal.limit, Node)
TotalLimit == MapThenSumSet(LAMBDA n : leaf[n].actual, Node)
TotalBudget == Cardinality(Node) * Validated(Budget).cap

\* The power handed out never exceeds what nodes have given back, while some have
\* read the new slack and others have not: the limits that the balancers want, and
\* those written to the hardware, are within the budget of all nodes.  (The budget of
\* a policy file does not change.)
WithinBudget ==
    ~source.endpoint => TotalWanted <= TotalBudget /\ TotalLimit <= TotalBudget

\* Whatever the root sends gets to every node: again and again all nodes are in the
\* root's step, so no policy waits in a mailbox for ever.
StepReached == []<>(\A n \in Node : leaf[n].step = RootStep)

\* The root learns that a step has ended: it does not stay for ever where every node
\* has completed it, although samples are sent again and again, and are discarded
\* with those of another step.  (With a policy file.)
StepEnds ==
    []<>~(/\ RootStep < MaxStep /\ ~source.endpoint
          /\ \A n \in Node : leaf[n].step = RootStep /\ leaf[n].complete)

\* The nodes of an endpoint's job leave step 0.
EndpointSteps ==
    []<>~(/\ RootStep < MaxStep /\ source.endpoint
          /\ \A n \in Node : leaf[n].step = RootStep /\ leaf[n].complete)

\* A limit that the resource manager leaves in the endpoint gets to every node.
LimitArrives ==
    <>[][UNCHANGED source]_source =>
        []<>(source.endpoint => \A n \in Node : leaf[n].bal.cap = Validated(source.cap).cap)

=============================================================================
