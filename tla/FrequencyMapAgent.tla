-------------------------- MODULE FrequencyMapAgent --------------------------
(***************************************************************************)
(* FrequencyMapAgent in a tree of controllers: agents above the leaves     *)
(* pass on a policy that has changed, the leaf sets each frequency domain  *)
(* to what the policy has for the region that was sampled there, and the   *)
(* uncore and the GPU to what the policy has for the node.                 *)
(*                                                                         *)
(* Every controller goes through its passes at its own pace; a policy that *)
(* is sent waits in the mailbox of the child (TreeCommLevel) and is        *)
(* written over by the next one.                                           *)
(***************************************************************************)
EXTENDS TreeComm, FiniteSets

CONSTANTS
  FanIn,        \* level sizes, the leaves' level first
  MapDomains,   \* frequency domains of a node
  MapRegions,   \* region hashes that a policy may name
  Elsewhere,    \* the hash of a domain that is in none of them
  Freqs,        \* CPU frequencies of policies
  Initial,      \* any setting from before the run
  Highest,      \* GPU_CORE_FREQUENCY_MAX_AVAIL
  MapSlots,        \* (hash, frequency) pairs of a policy
  UseGpu,       \* whether the policies name a GPU frequency
  MaxPolicies   \* bound: changes of the policy

MapNan == "nan"

ASSUME MapAssumption ==
  /\ Elsewhere \notin MapRegions
  /\ Initial \notin Freqs
  /\ MapNan \notin Freqs
  /\ FanIn \in Seq(Nat \ {0})
  /\ MapSlots \in Nat
  /\ MaxPolicies \in Nat

VARIABLES
  asked,    \* the policy in the endpoint
  policies, \* changes of it so far
  rootLast, \* m_last_policy of the root's controller
  upper,    \* update_policy() of the agents above the leaves
  boxes,    \* policy mailboxes
  lower,    \* the leaf agent of each rank
  mapHw,    \* the controls of each node
  mapPhase  \* per rank: the part of the pass that is next, or "dead"

mapVars == <<asked, policies, rootLast, upper, boxes, lower, mapHw, mapPhase>>

Nodes == Ranks(FanIn)
Depth == Len(FanIn)

\* A policy: FREQ_CPU_DEFAULT, FREQ_CPU_UNCORE, FREQ_GPU_DEFAULT and the pairs.
Policies ==
  [cpu : Freqs, uncore : Freqs \union {MapNan}, gpu : IF UseGpu THEN Freqs \union {MapNan} ELSE {MapNan},
   map : UNION {[S -> Freqs] : S \in {X \in SUBSET MapRegions : Cardinality(X) <= MapSlots}}]

AllNan == [cpu |-> MapNan, uncore |-> MapNan, gpu |-> MapNan, map |-> <<>>]

HasNan(p) == MapNan \in {p.cpu, p.uncore, p.gpu} \/ Cardinality(DOMAIN p.map) < MapSlots

\* validate_policy() throws for a GPU frequency where there is no GPU, which is what
\* an agent above the leaves takes every node to be.
Refused(p, level) == p.gpu # MapNan /\ level > 0

\* update_policy(): whether the policy is another one than the last.
Changed(old, p) ==
  \/ p # AllNan /\ (old.cpu # p.cpu \/ old.map # p.map)
  \/ p.uncore # MapNan /\ old.uncore # p.uncore
  \/ p.gpu # MapNan /\ old.gpu # p.gpu

\* update_policy() throws for a policy of nothing but NAN after a real one.
Revoked(old, p) == p = AllNan /\ old # AllNan

----------------------------------------------------------------------------
(* walk_down() above the leaf.  w is what a controller has while it goes    *)
(* through its levels from the highest it controls to that above the leaf.  *)

Receives(mail, l, r) == mail[l][r] # AllNan /\ ~HasNan(mail[l][r])

Descend(r, w, l) ==
  LET refused == w.send /\ (Refused(w.in, l + 1) \/ Revoked(w.agents[l + 1], w.in))
      sends == w.send /\ Changed(w.agents[l + 1], w.in)
      mail == IF sends THEN [w.mail EXCEPT ![l] = [c \in DOMAIN @ |-> IF c \in LevelRanks(FanIn, r, l) THEN w.in ELSE @[c]]]
                       ELSE w.mail
  IN IF w.dead \/ refused
       THEN [w EXCEPT !.dead = TRUE]
       ELSE [w EXCEPT !.mail = mail,
                      !.agents[l + 1] = IF w.send THEN w.in ELSE @,
                      !.in = IF mail[l][r] = AllNan THEN @ ELSE mail[l][r],
                      !.send = Receives(mail, l, r)]

\* The root sends what has changed in the endpoint; the others look into the mailbox
\* of their highest level.
Setout(r) ==
  LET top == NumLevelControlled(FanIn, r)
  IN [in |-> IF top = Depth THEN asked ELSE boxes[top][r],
      send |-> IF top = Depth THEN asked # rootLast ELSE Receives(boxes, top, r),
      mail |-> boxes, agents |-> upper[r], dead |-> FALSE]

Walked(r) ==
  LET top == NumLevelControlled(FanIn, r)
      walk[k \in 0..top] == IF k = 0 THEN Setout(r) ELSE Descend(r, walk[k - 1], top - k)
  IN walk[top]

----------------------------------------------------------------------------
(* adjust_platform() of the leaf *)

Wanted(p, hash) == IF hash \in DOMAIN p.map THEN p.map[hash] ELSE p.cpu

\* (bug) A policy without an uncore frequency leaves it as it is.
UncoreKept(last, p, hw) == IF p.uncore # last /\ p.uncore # MapNan THEN p.uncore ELSE hw

\* The uncore goes back to what it was when the policy no longer has it.
UncoreSet(last, p, hw) ==
  IF p.uncore = last THEN hw ELSE IF p.uncore # MapNan THEN p.uncore ELSE Initial

\* The first pass sets what is set already, and both limits of the GPU to the
\* highest.
FirstPass(leaf, hw) == IF UseGpu /\ ~leaf.started THEN [hw EXCEPT !.gpu = Highest] ELSE hw

\* What is adjusted is written.
AdjustedFrom(leaf, hw, p) ==
  IF p = AllNan
    THEN [leaf |-> [leaf EXCEPT !.started = TRUE], hw |-> hw]
    ELSE [leaf |-> [leaf EXCEPT !.started = TRUE, !.policy = p, !.uncore = p.uncore,
                                !.gpu = IF p.gpu # MapNan THEN p.gpu ELSE @,
                                !.freq = [d \in MapDomains |-> Wanted(p, leaf.hash[d])]],
          hw |-> [core |-> [d \in MapDomains |->
                              IF leaf.freq[d] # Wanted(p, leaf.hash[d]) THEN Wanted(p, leaf.hash[d]) ELSE hw.core[d]],
                  uncore |-> UncoreSet(leaf.uncore, p, hw.uncore),
                  gpu |-> IF p.gpu # MapNan /\ leaf.gpu # p.gpu THEN p.gpu ELSE hw.gpu]]

Adjusted(leaf, hw, p) == AdjustedFrom(leaf, FirstPass(leaf, hw), p)

\* A whole walk_down() with write_batch().
WalkDown(r) ==
  LET w == Walked(r)
      after == Adjusted(lower[r], mapHw[r], w.in)
      throws == w.dead \/ Revoked(lower[r].policy, w.in)
  IN /\ mapPhase[r] = "down"
     /\ rootLast' = IF NumLevelControlled(FanIn, r) = Depth THEN asked ELSE rootLast
     /\ boxes' = w.mail
     /\ upper' = [upper EXCEPT ![r] = w.agents]
     /\ mapPhase' = [mapPhase EXCEPT ![r] = IF throws THEN "dead" ELSE "up"]
     /\ lower' = IF throws THEN lower ELSE [lower EXCEPT ![r] = after.leaf]
     /\ mapHw' = IF throws THEN mapHw ELSE [mapHw EXCEPT ![r] = after.hw]
     /\ UNCHANGED <<asked, policies>>

\* sample_platform(): REGION_HASH of each domain.
SampleHash(r) ==
  /\ mapPhase[r] = "up"
  /\ mapPhase' = [mapPhase EXCEPT ![r] = "down"]
  /\ \E hash \in [MapDomains -> MapRegions \union {Elsewhere}] : lower' = [lower EXCEPT ![r].hash = hash]
  /\ UNCHANGED <<asked, policies, rootLast, upper, boxes, mapHw>>

\* The resource manager writes another policy.
NewPolicy(p) ==
  /\ policies < MaxPolicies
  /\ policies' = policies + 1
  /\ asked' = p
  /\ UNCHANGED <<rootLast, upper, boxes, lower, mapHw, mapPhase>>

MapInit ==
  /\ asked = AllNan
  /\ policies = 0
  /\ rootLast = AllNan
  /\ upper = [r \in Nodes |-> [l \in 1..Depth |-> AllNan]]
  /\ boxes = [l \in 0..Depth - 1 |-> [r \in Nodes |-> AllNan]]
  /\ lower = [r \in Nodes |-> [started |-> FALSE, policy |-> AllNan, hash |-> [d \in MapDomains |-> Elsewhere],
                               freq |-> [d \in MapDomains |-> MapNan], uncore |-> MapNan, gpu |-> MapNan]]
  /\ mapHw = [r \in Nodes |-> [core |-> [d \in MapDomains |-> Initial], uncore |-> Initial, gpu |-> Initial]]
  /\ mapPhase = [r \in Nodes |-> "down"]

MapNext ==
  \/ \E r \in Nodes : WalkDown(r) \/ SampleHash(r)
  \/ \E p \in Policies \union {AllNan} : NewPolicy(p)

MapSpec == MapInit /\ [][MapNext]_mapVars

----------------------------------------------------------------------------
(* Properties *)

\* The type invariant.
MapTypeOK ==
  /\ asked \in Policies \union {AllNan}
  /\ policies \in 0..MaxPolicies
  /\ DOMAIN upper = Nodes /\ DOMAIN lower = Nodes /\ DOMAIN mapHw = Nodes
  /\ \A r \in Nodes : mapPhase[r] \in {"down", "up", "dead"}

\* After a pass a node has what its policy has for the regions sampled before it,
\* in every domain, and for the uncore, which is back at what it was when the
\* policy no longer names it, whatever the policies and the regions before.
MapApplied ==
  \A r \in Nodes : mapPhase[r] = "up" /\ lower[r].policy # AllNan =>
    LET p == lower[r].policy
    IN /\ \A d \in MapDomains : LET hash == lower[r].hash[d]
            IN mapHw[r].core[d] = IF hash \in DOMAIN p.map THEN p.map[hash] ELSE p.cpu
       /\ mapHw[r].uncore = IF p.uncore = MapNan THEN Initial ELSE p.uncore

\* What the agents above the leaves have sent is the policy they had last, but for
\* the frequencies it no longer has: update_policy() takes a policy that
\* only clears one of them for unchanged.
SentUnlessCleared ==
  \A r \in Nodes, l \in 1..Depth :
    upper[r][l] # AllNan =>
      \A c \in LevelRanks(FanIn, r, l - 1) :
        LET p == upper[r][l]
            sent == boxes[l - 1][c]
        IN /\ sent.cpu = p.cpu /\ sent.map = p.map
           /\ p.uncore # MapNan => sent.uncore = p.uncore
           /\ p.gpu # MapNan => sent.gpu = p.gpu

\* A policy that was sent is the policy that was read: not so for one that only
\* clears a frequency.
SentWhole ==
  \A r \in Nodes, l \in 1..Depth :
    upper[r][l] # AllNan => \A c \in LevelRanks(FanIn, r, l - 1) : boxes[l - 1][c] = upper[r][l]

\* The GPU follows the policy as the uncore does: it keeps its frequency instead.
GpuApplied ==
  \A r \in Nodes : mapPhase[r] = "up" /\ lower[r].policy # AllNan =>
    mapHw[r].gpu = IF lower[r].policy.gpu = MapNan THEN Initial ELSE lower[r].policy.gpu

\* A policy with a GPU frequency is accepted where there are GPUs: not by the agents
\* above the leaves, where m_do_gpu_ctl is never set.
GpuPolicyAccepted == \A r \in Nodes : mapPhase[r] = "dead" => asked = AllNan

\* An agent above the leaves sends on what it receives: not in a tree of more than
\* one level, where a policy with a NAN in it, such as one that does not use all
\* pairs, is taken for none.
PassedOn ==
  \A r \in Nodes :
    LET top == NumLevelControlled(FanIn, r)
    IN mapPhase[r] = "up" /\ top > 0 /\ lower[r].policy # AllNan
         => \A c \in LevelRanks(FanIn, r, 0) : boxes[0][c] # AllNan
=============================================================================
