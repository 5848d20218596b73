--------------------------- MODULE Runtime_proofs ---------------------------
(***************************************************************************)
(* Proofs about parts of the runtime that share nothing with each other:   *)
(* the endpoint, for any agents and any number of opens, jobs and writes;  *)
(* the CPU activity agent, for any number of cores and packages and any    *)
(* frequencies; the frequency map agent, for any tree of controllers and   *)
(* any policies; PlatformIO, for any IOGroups, any parts of the board and  *)
(* any settings.                                                           *)
(***************************************************************************)
EXTENDS PlatformIO, Endpoint, CPUActivityAgent, FrequencyMapAgent, NumberSetTheorems, TLAPS

-----------------------------------------------------------------------------
(* The endpoint *)

\* The regions have room for the values of every agent.
LEMMA RoomForAll == \A a \in Agents : NumValues[a] \in Nat /\ 1..NumValues[a] \subseteq Slots
  <1>1. IsFiniteSet({NumValues[a] : a \in Agents})
    <2>1. NumValues \in Surjection(Agents, {NumValues[a] : a \in Agents})
      BY EndpointAssumption DEF Surjection
    <2> QED BY <2>1, FS_Surjection, EndpointAssumption
  <1>2. ASSUME NEW a \in Agents
        PROVE  NumValues[a] \in Nat /\ 1..NumValues[a] \subseteq Slots
    <2> DEFINE N == {NumValues[b] : b \in Agents}
    <2>1. N \subseteq Nat /\ NumValues[a] \in N
      BY EndpointAssumption
    <2>2. Max(N) \in Nat /\ Max(N) >= NumValues[a]
      <3>1. IsFiniteSet(N) /\ N \subseteq Int /\ N # {}
        BY <1>1, <2>1
      <3> HIDE DEF N
      <3> QED BY <2>1, <3>1, GreatestNumber
    <2> QED BY <2>1, <2>2 DEF Slots
  <1> QED BY <1>2

Names == Agents \union {NoName}

SampleRegion == [count : Nat, values : [Slots -> Int], agent : Names, job : Nat]

PolicyRegion == [count : Nat, values : [Slots -> Int]]

Region == [policy : PolicyRegion, sample : SampleRegion]

\* The parts of a region can be replaced.
LEMMA RegionParts ==
    ASSUME NEW m \in Region
    PROVE  /\ m.sample \in SampleRegion /\ m.policy \in PolicyRegion
           /\ \A s \in SampleRegion : [m EXCEPT !.sample = s] \in Region /\ [m EXCEPT !.sample = s].sample = s
           /\ \A p \in PolicyRegion : /\ [m EXCEPT !.policy = p] \in Region
                                     /\ [m EXCEPT !.policy = p].sample = m.sample
  BY DEF Region

\* What a region of samples holds while an agent is named in it.
OfItsJob(s) == s.agent # NoName => \A i \in 1..s.count : s.values[i] \in {Nan, s.job}

\* The regions, with what they hold.
RegionsOK ==
  /\ mem \in Seq(Region)
  /\ \A g \in 1..Len(mem) : OfItsJob(mem[g].sample)

Manager ==
  [at : {"closed", "opening", "clearing", "idle", "attach", "detach"},
   size : Nat, goOn : BOOLEAN, seen : Names, timedOut : BOOLEAN]

\* The resource manager uses the regions of the latest open().
ManagerOK ==
  /\ linked.policy \in 0..Len(mem) /\ linked.sample \in 0..Len(mem)
  /\ linked = [policy |-> linked.policy, sample |-> linked.sample]
  /\ rm \in Manager
  /\ rm.at # "closed" => Len(mem) > 0

\* The job that is attached is the one that is named in its region, if any is.
JobOK ==
  /\ jobs \in Nat
  /\ job \in [at : {"none", "mapping", "attached"}, agent : Names, policy : Nat, sample : Nat]
  /\ job.at # "none" => job.agent \in Agents
  /\ job.at = "attached" =>
       /\ job.sample \in 1..Len(mem)
       /\ mem[job.sample].sample.agent # NoName => mem[job.sample].sample.job = jobs

EndpointInv == RegionsOK /\ ManagerOK /\ JobOK /\ SampleOfThisJob

LEMMA EndpointInvInit == EndpointInit => EndpointInv
  BY DEF EndpointInit, EndpointInv, RegionsOK, ManagerOK, JobOK, SampleOfThisJob, NoJob, NoAnswer, Names, Manager

\* The cleared regions name no agent.
LEMMA ClearedOK ==
    /\ Cleared \in Region
    /\ Cleared.sample.agent = NoName
  BY DEF Cleared, Region, PolicyRegion, SampleRegion, Names, NoValue

\* Writing the first values of an agent leaves nothing else among them.
LEMMA CopiedValues ==
    ASSUME NEW values \in [Slots -> Int], NEW a \in Agents, NEW v \in Int
    PROVE  /\ Copied(values, NumValues[a], v) \in [Slots -> Int]
           /\ \A i \in 1..NumValues[a] : Copied(values, NumValues[a], v)[i] = v
  BY RoomForAll DEF Copied

\* Every step keeps the samples those of the attached job.
LEMMA EndpointInvNext == EndpointInv /\ [EndpointNext]_epVars => EndpointInv'
  <1> SUFFICES ASSUME EndpointInv, [EndpointNext]_epVars
               PROVE  EndpointInv'
    OBVIOUS
  <1>0. RegionsOK /\ ManagerOK /\ JobOK /\ SampleOfThisJob
    BY DEF EndpointInv
  <1>a. /\ Len(mem) \in Nat /\ mem \in Seq(Region)
        /\ \A g \in 1..Len(mem) : mem[g] \in Region /\ OfItsJob(mem[g].sample)
    BY <1>0 DEF RegionsOK
  <1>1. ASSUME got' = NoAnswer PROVE SampleOfThisJob'
    BY <1>1 DEF SampleOfThisJob, NoAnswer
  <1>2. CASE UNCHANGED epVars
    BY <1>2, <1>0 DEF EndpointInv, epVars, RegionsOK, ManagerOK, JobOK, SampleOfThisJob
  <1>3. CASE OpenPolicy
    <2>1. mem' = Append(mem, Cleared) /\ got' = NoAnswer
      BY <1>3 DEF OpenPolicy
    <2>2. mem' \in Seq(Region) /\ Len(mem') = Len(mem) + 1 /\ Len(mem) \in Nat
      BY <1>0, <2>1, ClearedOK DEF RegionsOK
    <2>3. mem'[Len(mem) + 1] = Cleared /\ \A g \in 1..Len(mem) : mem'[g] = mem[g]
      BY <1>0, <2>1, ClearedOK DEF RegionsOK
    <2>4. RegionsOK'
      <3>1. OfItsJob(Cleared.sample)
        BY ClearedOK DEF OfItsJob
      <3>2. ASSUME NEW g \in 1..Len(mem') PROVE OfItsJob(mem'[g].sample)
        BY <1>a, <2>2, <2>3, <3>1
      <3> QED BY <2>2, <3>2 DEF RegionsOK
    <2>5. ManagerOK'
      <3>1. rm' \in Manager
        BY <1>0, <1>3 DEF ManagerOK, OpenPolicy, Manager
      <3> QED BY <1>0, <1>3, <2>2, <3>1 DEF ManagerOK, OpenPolicy, Gen
    <2>6. JobOK'
      BY <1>0, <1>3, <2>2, <2>3 DEF JobOK, OpenPolicy
    <2> QED BY <1>1, <2>1, <2>4, <2>5, <2>6 DEF EndpointInv
  <1>4. ASSUME UNCHANGED <<mem, job, jobs>>, got' = NoAnswer, ManagerOK'
        PROVE  EndpointInv'
    BY <1>0, <1>1, <1>4 DEF EndpointInv, RegionsOK, JobOK
  <1>5. CASE OpenSample \/ Close \/ WaitEnds \/ SetWaitLoop
    <2>1. ManagerOK'
      <3>1. rm' \in Manager
        BY <1>0, <1>5 DEF ManagerOK, OpenSample, Close, WaitEnds, SetWaitLoop, Manager, Names
      <3>2. rm'.at # "closed" => rm.at # "closed"
        BY <1>0, <1>5 DEF ManagerOK, OpenSample, Close, WaitEnds, SetWaitLoop, Manager
      <3>3. UNCHANGED mem /\ linked' \in {linked, [linked EXCEPT !.sample = Len(mem)], [policy |-> 0, sample |-> 0]}
        BY <1>5 DEF OpenSample, Close, WaitEnds, SetWaitLoop, Gen
      <3> QED BY <1>0, <1>a, <3>1, <3>2, <3>3 DEF ManagerOK
    <2> QED BY <1>4, <1>5, <2>1 DEF OpenSample, Close, WaitEnds, SetWaitLoop
  <1>6. CASE OpenClear
    <2>1. Len(mem) \in Nat \ {0} /\ mem' = [mem EXCEPT ![Len(mem)] = Cleared] /\ got' = NoAnswer
      BY <1>0, <1>6 DEF OpenClear, Gen, ManagerOK, RegionsOK
    <2>2. mem' \in Seq(Region) /\ Len(mem') = Len(mem)
      BY <1>0, <2>1, ClearedOK DEF RegionsOK
    <2>3. mem'[Len(mem)] = Cleared /\ \A g \in 1..Len(mem) : g # Len(mem) => mem'[g] = mem[g]
      BY <1>0, <2>1 DEF RegionsOK
    <2>4. RegionsOK'
      BY <1>0, <2>1, <2>2, <2>3, ClearedOK DEF RegionsOK, OfItsJob
    <2>5. ManagerOK'
      BY <1>0, <1>6, <2>2 DEF ManagerOK, OpenClear, Manager
    <2>6. JobOK'
      BY <1>0, <1>6, <2>2, <2>3, ClearedOK DEF JobOK, OpenClear
    <2> QED BY <1>1, <2>1, <2>4, <2>5, <2>6 DEF EndpointInv
  <1>7. ASSUME NEW r \in Manager,
               NEW name \in Names
        PROVE  /\ Sized(r, name) \in Manager
               /\ Sized(r, name).at = r.at
    BY RoomForAll DEF Sized, Names, Manager
  <1>8. CASE GetAgent \/ Poll \/ \E what \in {"attach", "detach"} : Wait(what)
    <2>1. rm.at # "closed"
      BY <1>8 DEF GetAgent, Poll, Wait, Waiting
    <2>2. Len(mem) \in Nat \ {0} /\ mem[Len(mem)].sample.agent \in Names
      <3>1. Len(mem) \in Nat \ {0} /\ Len(mem) \in 1..Len(mem)
        BY <1>0, <1>a, <2>1 DEF ManagerOK
      <3>2. mem[Len(mem)].sample \in SampleRegion
        BY <1>a, <3>1, RegionParts
      <3> QED BY <3>1, <3>2 DEF SampleRegion
    <2> DEFINE r == Sized(rm, mem[Len(mem)].sample.agent)
    <2>3. /\ r \in Manager
          /\ r.at = rm.at
      BY <1>0, <1>7, <2>2 DEF ManagerOK
    <2> HIDE DEF r
    <2>4. UNCHANGED <<mem, linked, job, jobs>> /\ got' = NoAnswer
      BY <1>8 DEF GetAgent, Poll, Wait
    <2>5. ManagerOK'
      <3>1. CASE GetAgent
        BY <1>0, <2>1, <2>2, <2>3, <2>4, <3>1 DEF GetAgent, ManagerOK, Gen, r, Manager
      <3>2. CASE Poll
        <4>1. PICK late \in BOOLEAN : rm' = [r EXCEPT !.seen = mem[Len(mem)].sample.agent,
                !.timedOut = late, !.at = IF late THEN "idle" ELSE @]
          BY <3>2 DEF Poll, Gen, r
        <4> QED BY <1>0, <2>1, <2>2, <2>3, <2>4, <4>1 DEF ManagerOK, Manager
      <3>3. ASSUME NEW what \in {"attach", "detach"}, Wait(what) PROVE ManagerOK'
        <4>1. rm' = [r EXCEPT !.at = what, !.seen = mem[Len(mem)].sample.agent, !.timedOut = FALSE]
          BY <3>3 DEF Wait, Gen, r
        <4> QED BY <1>0, <2>1, <2>2, <2>3, <2>4, <4>1 DEF ManagerOK, Manager
      <3> QED BY <1>8, <3>1, <3>2, <3>3
    <2> QED BY <1>4, <2>4, <2>5
  <1>9. CASE EndpointWrite
    <2>1. /\ Len(mem) \in Nat \ {0} /\ rm.size \in Nat /\ got' = NoAnswer
          /\ UNCHANGED <<linked, rm, job, jobs>>
      BY <1>0, <1>a, <1>9 DEF EndpointWrite, ManagerOK, Manager
    <2> DEFINE p == PolicyWritten(mem[Len(mem)].policy, rm.size, Len(writes) + 1)
    <2>2. mem' = [mem EXCEPT ![Len(mem)].policy = p]
      BY <1>9 DEF EndpointWrite, Gen
    <2>3. p \in PolicyRegion
      <3>1. mem[Len(mem)].policy \in PolicyRegion
        BY <1>a, <2>1, RegionParts
      <3> QED BY <2>1, <3>1 DEF PolicyWritten, Copied, PolicyRegion
    <2> HIDE DEF p
    <2>4. mem' = [mem EXCEPT ![Len(mem)] = [mem[Len(mem)] EXCEPT !.policy = p]]
      BY <2>2
    <2>5. [mem[Len(mem)] EXCEPT !.policy = p] \in Region /\ [mem[Len(mem)] EXCEPT !.policy = p].sample = mem[Len(mem)].sample
      BY <1>a, <2>1, <2>3, RegionParts
    <2>6. /\ mem' \in Seq(Region) /\ Len(mem') = Len(mem)
          /\ \A g \in 1..Len(mem) : mem'[g].sample = mem[g].sample
      BY <1>a, <2>1, <2>4, <2>5
    <2>7. RegionsOK'
      BY <1>a, <2>6 DEF RegionsOK
    <2>8. ManagerOK' /\ JobOK'
      BY <1>0, <2>1, <2>6 DEF ManagerOK, JobOK
    <2> QED BY <1>1, <2>1, <2>7, <2>8 DEF EndpointInv
  <1>10. CASE ReadSample
    <2>1. rm.at = "idle" /\ UNCHANGED <<mem, linked, rm, job, jobs>>
      BY <1>10 DEF ReadSample
    <2>2. Len(mem) \in Nat \ {0} /\ OfItsJob(mem[Len(mem)].sample)
      <3>1. Len(mem) \in Nat \ {0} /\ Len(mem) \in 1..Len(mem)
        BY <1>0, <1>a, <2>1 DEF ManagerOK
      <3> QED BY <1>a, <3>1
    <2>3. /\ got'.sample.agent = mem[Len(mem)].sample.agent /\ got'.sample.job = mem[Len(mem)].sample.job
          /\ got'.sample.values = {mem[Len(mem)].sample.values[i] : i \in 1..mem[Len(mem)].sample.count}
      BY <1>10 DEF ReadSample, NoAnswer, Gen
    <2>4. SampleOfThisJob'
      BY <2>2, <2>3 DEF SampleOfThisJob, OfItsJob
    <2>5. RegionsOK' /\ ManagerOK' /\ JobOK'
      BY <1>0, <2>1 DEF RegionsOK, ManagerOK, JobOK
    <2> QED BY <2>4, <2>5 DEF EndpointInv
  <1>11. ASSUME NEW a \in Agents, MapPolicy(a) PROVE EndpointInv'
    <2>1. RegionsOK' /\ ManagerOK'
      BY <1>0, <1>11 DEF MapPolicy, RegionsOK, ManagerOK
    <2>2. JobOK'
      BY <1>0, <1>11 DEF MapPolicy, JobOK, ManagerOK, RegionsOK, Names
    <2> QED BY <1>1, <1>11, <2>1, <2>2 DEF EndpointInv, MapPolicy
  <1>12. CASE ReadPolicy
    <2>1. UNCHANGED <<mem, linked, rm, job, jobs>> /\ got'.sample.ok = FALSE
      BY <1>12 DEF ReadPolicy, NoAnswer
    <2> QED BY <1>0, <2>1 DEF EndpointInv, RegionsOK, ManagerOK, JobOK, SampleOfThisJob
  <1>13. ASSUME NEW g \in 1..Len(mem), NEW s \in SampleRegion, OfItsJob(s),
                mem' = [mem EXCEPT ![g].sample = s]
         PROVE  /\ RegionsOK' /\ Len(mem') = Len(mem) /\ mem'[g].sample = s
                /\ \A h \in 1..Len(mem) : h # g => mem'[h] = mem[h]
    <2>1. mem' \in Seq(Region) /\ Len(mem') = Len(mem)
      <3>1. [mem[g] EXCEPT !.sample = s] \in Region
        BY <1>a, RegionParts
      <3>2. mem' = [mem EXCEPT ![g] = [mem[g] EXCEPT !.sample = s]]
        BY <1>13
      <3> QED BY <1>a, <3>1, <3>2
    <2>2. mem'[g].sample = s /\ \A h \in 1..Len(mem) : h # g => mem'[h] = mem[h]
      BY <1>a, <1>13, RegionParts
    <2> QED BY <1>a, <1>13, <2>1, <2>2 DEF RegionsOK
  <1>14. CASE MapSample
    <2> DEFINE g == linked.sample
               s == Attached(mem[g].sample, job.agent)
    <2>1. /\ g \in 1..Len(mem) /\ job.agent \in Agents /\ job.at = "mapping" /\ got' = NoAnswer
          /\ UNCHANGED <<linked, rm, jobs>> /\ jobs \in Nat
      BY <1>0, <1>14 DEF MapSample, ManagerOK, JobOK, RegionsOK
    <2>2. mem[g].sample \in SampleRegion
      BY <1>a, <2>1, RegionParts
    <2>3. s \in SampleRegion /\ OfItsJob(s) /\ s.job = jobs
      <3>1. mem[g].sample.values \in [Slots -> Int] /\ NumValues[job.agent] \in Nat
        BY <2>1, <2>2, RoomForAll DEF SampleRegion
      <3>2. /\ Copied(mem[g].sample.values, NumValues[job.agent], Nan) \in [Slots -> Int]
            /\ \A i \in 1..NumValues[job.agent] : Copied(mem[g].sample.values, NumValues[job.agent], Nan)[i] = Nan
        BY <2>1, <3>1, CopiedValues, Nan \in Int DEF Nan
      <3> QED BY <2>1, <3>1, <3>2 DEF Attached, SampleRegion, OfItsJob, Names
    <2>4. mem' = [mem EXCEPT ![g].sample = s] /\ job' = [job EXCEPT !.at = "attached", !.sample = g]
      BY <1>14 DEF MapSample
    <2> HIDE DEF s
    <2>5. RegionsOK' /\ Len(mem') = Len(mem) /\ mem'[g].sample = s
      BY <1>13, <2>1, <2>3, <2>4
    <2>6. ManagerOK'
      BY <1>0, <2>1, <2>5 DEF ManagerOK
    <2>7. JobOK'
      <3>1. /\ job' \in [at : {"none", "mapping", "attached"}, agent : Names, policy : Nat, sample : Nat]
            /\ job'.agent = job.agent /\ job'.sample = g
        <4>1. g \in Nat
          BY <1>a, <2>1
        <4>2. job \in [at : {"none", "mapping", "attached"}, agent : Names, policy : Nat, sample : Nat]
          BY <1>0 DEF JobOK
        <4> HIDE DEF g
        <4> QED BY <2>4, <4>1, <4>2
      <3>2. g \in 1..Len(mem') /\ mem'[g].sample.job = jobs /\ jobs' \in Nat /\ jobs' = jobs
        BY <2>1, <2>3, <2>5
      <3> HIDE DEF g
      <3> QED BY <2>1, <3>1, <3>2 DEF JobOK
    <2> QED BY <1>1, <2>1, <2>5, <2>6, <2>7 DEF EndpointInv
  <1>15. CASE WriteSample
    <2> DEFINE g == job.sample
               v == Copied(mem[g].sample.values, NumValues[job.agent], jobs)
               s == [mem[g].sample EXCEPT !.count = NumValues[job.agent], !.values = v]
    <2>1. /\ g \in 1..Len(mem) /\ job.agent \in Agents /\ job.at = "attached" /\ got' = NoAnswer
          /\ UNCHANGED <<linked, rm, job, jobs>> /\ jobs \in Nat
          /\ mem[g].sample.agent # NoName => mem[g].sample.job = jobs
      BY <1>0, <1>15 DEF WriteSample, ManagerOK, JobOK, RegionsOK
    <2>2. mem[g].sample \in SampleRegion
      BY <1>a, <2>1, RegionParts
    <2>3. NumValues[job.agent] \in Nat /\ v \in [Slots -> Int] /\ \A i \in 1..NumValues[job.agent] : v[i] = jobs
      <3>1. mem[g].sample.values \in [Slots -> Int] /\ NumValues[job.agent] \in Nat
        BY <2>1, <2>2, RoomForAll DEF SampleRegion
      <3>2. jobs \in Int
        BY <2>1
      <3> QED BY <2>1, <3>1, <3>2, CopiedValues
    <2>4. mem' = [mem EXCEPT ![g].sample.count = NumValues[job.agent], ![g].sample.values = v]
      BY <1>15 DEF WriteSample
    <2>5. s \in SampleRegion /\ OfItsJob(s) /\ s.job = mem[g].sample.job /\ s.agent = mem[g].sample.agent
      BY <2>1, <2>2, <2>3 DEF SampleRegion, OfItsJob
    <2>6. mem' = [mem EXCEPT ![g].sample = s]
      BY <2>1, <2>4
    <2> HIDE DEF s
    <2>7. RegionsOK' /\ Len(mem') = Len(mem) /\ mem'[g].sample = s
      BY <1>13, <2>1, <2>5, <2>6
    <2>8. ManagerOK'
      BY <1>0, <2>1, <2>7 DEF ManagerOK
    <2>9. JobOK'
      BY <1>0, <2>1, <2>5, <2>7 DEF JobOK
    <2> QED BY <1>1, <2>1, <2>7, <2>8, <2>9 DEF EndpointInv
  <1>16. CASE Detach
    <2> DEFINE g == job.sample
               s == [mem[g].sample EXCEPT !.agent = NoName]
    <2>1. /\ g \in 1..Len(mem) /\ got' = NoAnswer
          /\ UNCHANGED <<linked, rm, jobs>> /\ job' = NoJob
      BY <1>0, <1>16 DEF Detach, ManagerOK, JobOK, RegionsOK
    <2>2. mem[g].sample \in SampleRegion
      BY <1>a, <2>1, RegionParts
    <2>3. s \in SampleRegion /\ OfItsJob(s)
      BY <2>2 DEF SampleRegion, OfItsJob, Names
    <2>4. mem' = [mem EXCEPT ![g].sample = s]
      <3>1. mem' = [mem EXCEPT ![g].sample.agent = NoName]
        BY <1>16 DEF Detach
      <3> QED BY <3>1
    <2> HIDE DEF s
    <2>5. RegionsOK' /\ Len(mem') = Len(mem)
      BY <1>13, <2>1, <2>3, <2>4
    <2>6. ManagerOK' /\ JobOK'
      BY <1>0, <2>1, <2>5 DEF ManagerOK, JobOK, NoJob, Names
    <2> QED BY <1>1, <2>1, <2>5, <2>6 DEF EndpointInv
  <1>17. CASE JobDies
    <2>1. RegionsOK' /\ ManagerOK' /\ JobOK'
      BY <1>0, <1>17 DEF JobDies, RegionsOK, ManagerOK, JobOK, NoJob, Names
    <2> QED BY <1>1, <1>17, <2>1 DEF EndpointInv, JobDies
  <1> QED
    BY <1>2, <1>3, <1>5, <1>6, <1>8, <1>9, <1>10, <1>11, <1>12, <1>14, <1>15, <1>16, <1>17 DEF EndpointNext

\* A sample that the resource manager reads while an agent is attached is of the job
\* that is attached, or NAN: for any agents, and however jobs, reads, writes and
\* reopenings of the endpoint interleave.
THEOREM SamplesAreOfTheJob == EndpointSpec => []SampleOfThisJob
  <1>1. EndpointInv => SampleOfThisJob
    BY DEF EndpointInv
  <1> QED BY <1>1, EndpointInvInit, EndpointInvNext, PTL DEF EndpointSpec

-----------------------------------------------------------------------------
(* The CPU activity agent *)

\* Max() and Min() of two natural numbers are natural numbers.
LEMMA MaxMinOfNaturals ==
    ASSUME NEW a \in Nat, NEW b \in Int
    PROVE  /\ Max({a, b}) \in Nat
           /\ b \in Nat => Min({a, b}) \in Nat
  <1>1. /\ Max({a, b}) = IF a >= b THEN a ELSE b
        /\ Min({a, b}) = IF a <= b THEN a ELSE b
    BY MaxMinOfTwo
  <1>2. Max({a, b}) \in Nat
    BY <1>1
  <1>3. b \in Nat => Min({a, b}) \in Nat
    BY <1>1
  <1> QED BY <1>2, <1>3

\* What a policy asks for is a pair of frequencies.
LEMMA ResolvedType ==
    ASSUME NEW e \in Nat, NEW m \in Nat, e <= m, NEW phi \in 0..4
    PROVE  Resolved(e, m, phi).low \in Nat /\ Resolved(e, m, phi).high \in Nat
  <1>1. m - e \in Nat
    OBVIOUS
  <1>2. CASE phi = 2
    BY <1>2 DEF Resolved
  <1>3. CASE phi \in {0, 1}
    <2>1. ((m - e) * (2 - phi)) \div 2 \in Nat
      BY <1>1, <1>3
    <2>2. Resolved(e, m, phi).high = m /\ Resolved(e, m, phi).low = Min({m, e + ((m - e) * (2 - phi)) \div 2})
      BY <1>3 DEF Resolved
    <2>3. e + ((m - e) * (2 - phi)) \div 2 \in Nat
      BY <2>1
    <2>4. Min({m, e + ((m - e) * (2 - phi)) \div 2}) \in Nat
      <3> DEFINE b == e + ((m - e) * (2 - phi)) \div 2
      <3>1. b \in Nat /\ b \in Int
        BY <2>3
      <3> HIDE DEF b
      <3>2. Min({m, b}) \in Nat
        BY <3>1, MaxMinOfNaturals
      <3> QED BY <3>2 DEF b
    <2> QED BY <2>2, <2>4
  <1>4. CASE phi \in {3, 4}
    <2>1. ((m - e) * (phi - 2)) \div 2 \in Nat
      BY <1>1, <1>4
    <2>2. Resolved(e, m, phi).low = e /\ Resolved(e, m, phi).high = Max({e, m - ((m - e) * (phi - 2)) \div 2})
      BY <1>4 DEF Resolved
    <2>3. m - ((m - e) * (phi - 2)) \div 2 \in Int
      BY <2>1
    <2> QED BY <2>2, <2>3, MaxMinOfTwo
  <1> QED BY <1>2, <1>3, <1>4

\* There is a bandwidth for every frequency.
LEMMA RateType == ASSUME NEW freq \in Int PROVE RateAt(freq) \in Nat \ {0}
  <1> DEFINE known == DOMAIN MaxRate
             below == IF freq = CpuNan THEN known ELSE {f \in known : f <= freq}
  <1>1. known \subseteq Nat /\ known # {} /\ below \subseteq known /\ IsFiniteSet(known)
    BY CPUActivityAssumption
  <1>2. IsFiniteSet(below)
    BY <1>1, FS_Subset
  <1>3. (IF below = {} THEN Min(known) ELSE Max(below)) \in known
    <2>1. known \subseteq Nat /\ below \subseteq Int
      BY <1>1
    <2> HIDE DEF known, below
    <2> QED BY <1>1, <1>2, <2>1, MinIsLeast, GreatestNumber
  <1> QED BY <1>3, CPUActivityAssumption DEF RateAt

\* A request for the uncore is never NAN, which is what an agent starts with.
LEMMA UncoreRequestType ==
    ASSUME NEW r, r.low \in Nat, r.high \in Nat, NEW s, s.uncore \in Int, s.rate \in Nat \union {CpuNan}
    PROVE  UncoreRequest(r, s) \in Nat
  <1> DEFINE range == r.high - r.low
             above == IF s.rate = CpuNan THEN range ELSE (range * s.rate) \div RateAt(s.uncore)
  <1>1. above \in Int
    <2>1. range \in Int /\ RateAt(s.uncore) \in Nat \ {0}
      BY RateType
    <2> HIDE DEF range
    <2>2. CASE s.rate = CpuNan
      BY <2>1, <2>2
    <2>3. CASE s.rate # CpuNan
      <3>1. range * s.rate \in Int
        BY <2>1, <2>3
      <3>2. (range * s.rate) \div RateAt(s.uncore) \in Int
        <4> DEFINE a == range * s.rate
                   b == RateAt(s.uncore)
        <4>1. a \in Int /\ b \in Nat \ {0}
          BY <2>1, <3>1
        <4> HIDE DEF a, b
        <4>2. a \div b \in Int
          BY <4>1
        <4> QED BY <4>2 DEF a, b
      <3> QED BY <2>3, <3>2
    <2> QED BY <2>2, <2>3
  <1> HIDE DEF above
  <1>2. Max({r.low, r.low + above}) \in Nat
    BY <1>1, MaxMinOfTwo
  <1>3. Min({r.high, Max({r.low, r.low + above})}) \in Nat
    <2> DEFINE m == Max({r.low, r.low + above})
    <2>1. m \in Int /\ r.high \in Int
      BY <1>2
    <2> HIDE DEF m
    <2>2. Min({r.high, m}) \in {r.high, m}
      BY <2>1, MaxMinOfTwo
    <2> QED BY <1>2, <2>2 DEF m
  <1> QED BY <1>3 DEF UncoreRequest, above

\* A request for a core is within the bounds it is made from, because scalabilities
\* are ratios: FrequencyGovernorImp::adjust_platform() does not clamp it.
LEMMA CoreRequestBounded ==
    ASSUME NEW g, g.min \in Nat, g.max \in Nat, g.min <= g.max, NEW s \in 0..4 \union {CpuNan}
    PROVE  LET f == CoreRequest([low |-> g.min, high |-> g.max], s)
           IN f \in Nat /\ Clamped(g, f) = f
  <1> DEFINE f == CoreRequest([low |-> g.min, high |-> g.max], s)
             t == IF s = CpuNan THEN 4 ELSE s
             range == g.max - g.min
  <1>1. f = g.min + (range * t) \div 4
    BY DEF CoreRequest
  <1>2. t \in 0..4 /\ range \in Nat
    OBVIOUS
  <1>3. (range * t) \div 4 \in 0..range
    <2> HIDE DEF range, t
    <2>1. t = 0 \/ t = 1 \/ t = 2 \/ t = 3 \/ t = 4
      BY <1>2
    <2> QED BY <1>2, <2>1
  <1>4. f \in Nat /\ g.min <= f /\ f <= g.max
    <2> HIDE DEF f, t
    <2> QED BY <1>1, <1>3
  <1> HIDE DEF f
  <1>5. Clamped(g, f) = f
    BY <1>4, MaxMinOfTwo DEF Clamped
  <1> QED BY <1>4, <1>5 DEF f

\* The samples are ratios of the bounds, in quarters.
CpuSignalsOK ==
  /\ \A c \in CpuCores : cpuSignals.core[c] \in 0..4 \union {CpuNan}
  /\ \A p \in CpuPackages : /\ cpuSignals.package[p].rate \in Nat \union {CpuNan}
                            /\ cpuSignals.package[p].uncore \in Int

\* What the agent and the governor take for set is set, in the batch that waits and in
\* the hardware; NAN is what neither has asked for yet.
LastIsSet ==
  /\ \A c \in CpuCores : governor.last[c] # CpuNan => cpuHardware.core[c] = governor.last[c]
  /\ \A p \in CpuPackages : uncoreLast[p] # CpuNan =>
       cpuHardware.uncore[p] = uncoreLast[p] /\ cpuPending.uncore[p] = uncoreLast[p]

CpuShape ==
  /\ governor \in [min : Nat, max : Nat, last : [CpuCores -> Int]]
  /\ uncoreLast \in [CpuPackages -> Int]
  /\ \A p \in CpuPackages : cpuHardware.uncore[p] \in Int

CpuInv == CpuShape /\ CpuSignalsOK /\ LastIsSet /\ CpuFollows

LEMMA CpuInvInit == CpuInit => CpuInv
  BY CPUActivityAssumption
     DEF CpuInit, CpuInv, CpuShape, CpuSignalsOK, LastIsSet, CpuFollows, CpuNan

\* The bounds that the governor ends up with are frequencies.
LEMMA ValidatedType ==
    ASSUME NEW g, g.min \in Nat, g.max \in Nat, NEW r, r.low \in Nat, r.high \in Nat
    PROVE  CpuValidated(g, r).low \in Nat /\ CpuValidated(g, r).high \in Nat
  <1>0. ASSUME NEW a \in Nat, NEW b \in Nat PROVE Max({a, b}) \in Nat /\ Min({a, b}) \in Nat
    BY MaxMinOfNaturals
  <1>1. Max({r.low, g.min}) \in Nat /\ Min({r.high, g.max}) \in Nat
    BY <1>0
  <1> QED BY <1>1 DEF CpuValidated

\* A pass that adjusts leaves the hardware with all that it asks for, although it
\* adjusts only what differs from what was asked for last and writes only if anything
\* does.
LEMMA CpuAdjustKeeps ==
    ASSUME CpuInv, NEW phi \in Phis, CpuAdjust(phi)
    PROVE  CpuInv'
  <1> DEFINE bounds == CpuValidated(governor, Resolved(FreqEfficient, FreqMax, phi))
             uncore == Resolved(UncoreEfficient, UncoreMax, phi)
             bounded == [governor EXCEPT !.min = bounds.low, !.max = bounds.high]
             request == [c \in CpuCores |-> CoreRequest(bounds, cpuSignals.core[c])]
             actual == [c \in CpuCores |-> Clamped(bounded, request[c])]
             uncores == [p \in CpuPackages |-> UncoreRequest(uncore, cpuSignals.package[p])]
             batch == [core |-> actual,
                       uncore |-> [p \in CpuPackages |-> IF uncores[p] # uncoreLast[p] THEN uncores[p] ELSE cpuPending.uncore[p]]]
  <1>0. CpuShape /\ CpuSignalsOK /\ LastIsSet
    BY DEF CpuInv
  <1>1. phi \in 0..4 /\ UNCHANGED cpuSignals /\ cpuPhi' = phi
    BY CPUActivityAssumption DEF CpuAdjust
  <1>2. bounds.low \in Nat /\ bounds.high \in Nat /\ bounds = [low |-> bounds.low, high |-> bounds.high]
    <2>1. FreqEfficient \in Nat /\ FreqMax \in Nat /\ FreqEfficient <= FreqMax
      BY CPUActivityAssumption
    <2>2. /\ Resolved(FreqEfficient, FreqMax, phi).low \in Nat
          /\ Resolved(FreqEfficient, FreqMax, phi).high \in Nat
      BY <1>1, <2>1, ResolvedType
    <2>3. governor.min \in Nat /\ governor.max \in Nat
      BY <1>0 DEF CpuShape
    <2>4. bounds.low \in Nat /\ bounds.high \in Nat
      BY <2>2, <2>3, ValidatedType
    <2> QED BY <2>4 DEF CpuValidated
  <1>3. uncore.low \in Nat /\ uncore.high \in Nat
    BY <1>1, ResolvedType, CPUActivityAssumption
  <1>4. CASE bounds.low > bounds.high
    <2>1. cpuPhase' = "dead" /\ UNCHANGED <<governor, uncoreLast, cpuPending, cpuHardware>>
      BY <1>4 DEF CpuAdjust
    <2> QED BY <1>0, <1>1, <2>1 DEF CpuInv, CpuShape, CpuSignalsOK, LastIsSet, CpuFollows
  <1>5. CASE ~(bounds.low > bounds.high)
    <2>1. /\ governor' = [bounded EXCEPT !.last = actual] /\ uncoreLast' = uncores /\ cpuPending' = batch
          /\ cpuHardware' = IF DoWriteCpu(governor.last # request, uncoreLast # uncores) THEN batch ELSE cpuHardware
      BY <1>5 DEF CpuAdjust
    <2>2. bounded.min = bounds.low /\ bounded.max = bounds.high /\ DOMAIN bounded = {"min", "max", "last"}
      BY <1>0 DEF CpuShape
    <2>3. \A c \in CpuCores : request[c] \in Nat /\ actual[c] = request[c]
      <3> SUFFICES ASSUME NEW c \in CpuCores PROVE request[c] \in Nat /\ actual[c] = request[c]
        OBVIOUS
      <3>1. cpuSignals.core[c] \in 0..4 \union {CpuNan}
        BY <1>0 DEF CpuSignalsOK
      <3>2. bounded.min \in Nat /\ bounded.max \in Nat /\ bounded.min <= bounded.max
        BY <1>2, <1>5, <2>2
      <3>3. /\ request[c] = CoreRequest([low |-> bounded.min, high |-> bounded.max], cpuSignals.core[c])
            /\ actual[c] = Clamped(bounded, request[c])
        BY <1>2, <2>2
      <3> HIDE DEF bounds, bounded, request, actual
      <3> QED BY <3>1, <3>2, <3>3, CoreRequestBounded
    <2>4. \A p \in CpuPackages : uncores[p] \in Nat
      BY <1>0, <1>3, UncoreRequestType DEF CpuSignalsOK
    <2>5. actual \in [CpuCores -> Int] /\ request \in [CpuCores -> Int] /\ actual = request
      BY <2>3
    <2>6. uncores \in [CpuPackages -> Int]
      BY <2>4
    <2>7. /\ governor'.min = bounds.low /\ governor'.max = bounds.high /\ governor'.last = actual
          /\ DOMAIN governor' = {"min", "max", "last"}
      BY <2>1, <2>2
    <2> HIDE DEF bounded, bounds, uncore
    <2>8. \A p \in CpuPackages : batch.uncore[p] = uncores[p]
      <3> SUFFICES ASSUME NEW p \in CpuPackages PROVE batch.uncore[p] = uncores[p]
        OBVIOUS
      <3>1. uncores[p] # CpuNan
        BY <2>4 DEF CpuNan
      <3>2. uncores[p] = uncoreLast[p] => cpuPending.uncore[p] = uncores[p]
        BY <1>0, <3>1 DEF LastIsSet
      <3> QED BY <3>2
    <2>9. batch.core = actual
      OBVIOUS
    <2> HIDE DEF uncores, request, actual, batch
    <2>10. /\ \A c \in CpuCores : cpuHardware'.core[c] = actual[c]
           /\ \A p \in CpuPackages : cpuHardware'.uncore[p] = uncores[p]
      <3>1. CASE cpuHardware' = batch
        BY <2>8, <2>9, <3>1
      <3>2. CASE cpuHardware' # batch
        <4>1. cpuHardware' = cpuHardware /\ governor.last = request /\ uncoreLast = uncores
          BY <2>1, <3>2 DEF DoWriteCpu
        <4>2. /\ \A c \in CpuCores : governor.last[c] # CpuNan
              /\ \A p \in CpuPackages : uncoreLast[p] # CpuNan
          BY <2>3, <2>4, <4>1 DEF CpuNan
        <4> QED BY <1>0, <2>5, <4>1, <4>2 DEF LastIsSet
      <3> QED BY <3>1, <3>2
    <2>11. CpuShape'
      <3>1. governor' \in [min : Nat, max : Nat, last : [CpuCores -> Int]]
        BY <1>2, <2>1, <2>5, <2>7 DEF bounded
      <3> QED BY <2>1, <2>4, <2>6, <2>10, <3>1 DEF CpuShape
    <2>12. CpuSignalsOK'
      BY <1>0, <1>1 DEF CpuSignalsOK
    <2>13. LastIsSet'
      BY <2>1, <2>7, <2>8, <2>10 DEF LastIsSet
    <2>14. CpuFollows'
      <3>1. /\ \A c \in CpuCores : actual[c] = CoreRequest([low |-> governor'.min, high |-> governor'.max], cpuSignals'.core[c])
            /\ \A p \in CpuPackages :
                 uncores[p] = UncoreRequest(Resolved(UncoreEfficient, UncoreMax, cpuPhi'), cpuSignals'.package[p])
        BY <1>1, <1>2, <2>5, <2>7 DEF request, uncores, uncore
      <3> QED BY <2>10, <3>1 DEF CpuFollows
    <2> QED BY <2>11, <2>12, <2>13, <2>14 DEF CpuInv
  <1> QED BY <1>4, <1>5

\* Taking the samples changes no setting.
LEMMA CpuSampleKeeps ==
    ASSUME Scalabilities \subseteq 0..4, CpuInv, CpuSample
    PROVE  CpuInv'
  <1>1. PICK core \in [CpuCores -> Scalabilities \union {CpuNan}], rate \in [CpuPackages -> Rates \union {CpuNan}] :
          cpuSignals' = [core |-> core,
                         package |-> [p \in CpuPackages |-> [uncore |-> cpuHardware.uncore[p], rate |-> rate[p]]]]
    BY DEF CpuSample
  <1>2. UNCHANGED <<governor, uncoreLast, cpuPending, cpuHardware>> /\ cpuPhase' = "down"
    BY DEF CpuSample
  <1>3. CpuSignalsOK'
    BY <1>1, CPUActivityAssumption DEF CpuSignalsOK, CpuInv, CpuShape
  <1> QED BY <1>2, <1>3 DEF CpuInv, CpuShape, LastIsSet, CpuFollows

\* With scalabilities of at most one, the cores and the uncore have after every pass
\* what the bounds and the samples of that pass ask for: for any cores, packages and
\* frequencies, and any policies in any order.
THEOREM CpuSettingsFollow == Scalabilities \subseteq 0..4 => (CpuSpec => []CpuFollows)
  <1> SUFFICES ASSUME Scalabilities \subseteq 0..4
               PROVE  CpuSpec => []CpuFollows
    OBVIOUS
  <1>1. CpuInv /\ [CpuNext]_cpuVars => CpuInv'
    <2>1. CpuInv /\ UNCHANGED cpuVars => CpuInv'
      BY DEF cpuVars, CpuInv, CpuShape, CpuSignalsOK, LastIsSet, CpuFollows
    <2> QED BY <2>1, CpuAdjustKeeps, CpuSampleKeeps DEF CpuNext
  <1>2. CpuInv => CpuFollows
    BY DEF CpuInv
  <1> QED BY <1>1, <1>2, CpuInvInit, PTL DEF CpuSpec

-----------------------------------------------------------------------------
(* The frequency map agent *)

\* What may be asked for, in the endpoint and in a mailbox.
Asked == Policies \union {AllNan}

\* The mailboxes of all levels.
Mail == [0..Depth - 1 -> [Nodes -> Asked]]

\* A controller on its way down the levels.
WalkOK(w) ==
    /\ w = [in |-> w.in, send |-> w.send, mail |-> w.mail, agents |-> w.agents, dead |-> w.dead]
    /\ w.in \in Asked /\ w.mail \in Mail

\* Where a policy leads a domain.
LEMMA WantedIs ==
    ASSUME NEW p \in Asked, p # AllNan, NEW hash
    PROVE  Wanted(p, hash) \in Freqs /\ Wanted(p, hash) # MapNan
  <1>1. p \in Policies
    BY DEF Asked
  <1>2. p.cpu \in Freqs
    BY <1>1 DEF Policies
  <1>3. PICK S : p.map \in [S -> Freqs]
    BY <1>1 DEF Policies
  <1>4. Wanted(p, hash) \in Freqs
    BY <1>2, <1>3 DEF Wanted
  <1> QED BY <1>4, MapAssumption

\* A rank controls at most the levels of the tree, from the leaves upwards.
LEMMA TopLevel ==
    ASSUME NEW r
    PROVE  NumLevelControlled(FanIn, r) \in Nat /\ NumLevelControlled(FanIn, r) <= Depth /\ Depth \in Nat
  <1> DEFINE S == {l \in 0..Len(FanIn) : \A k \in 0..l - 1 : Coordinate(FanIn, r, k) = 0}
  <1>1. Len(FanIn) \in Nat
    BY MapAssumption
  <1>2. 0 \in S
    BY <1>1
  <1>3. S \subseteq 0..Len(FanIn)
    OBVIOUS
  <1>4. NumLevelControlled(FanIn, r) = Max(S)
    BY DEF NumLevelControlled
  <1> HIDE DEF S
  <1>5. IsFiniteSet(0..Len(FanIn))
    BY <1>1, FS_Interval
  <1>6. IsFiniteSet(S)
    BY <1>3, <1>5, FS_Subset
  <1>7. S \subseteq Int /\ S # {}
    BY <1>1, <1>2, <1>3
  <1>8. Max(S) \in S
    BY <1>6, <1>7, GreatestNumber
  <1>9. Max(S) \in 0..Len(FanIn)
    BY <1>3, <1>8
  <1> QED BY <1>1, <1>4, <1>9 DEF Depth

\* One level down.
LEMMA DescendKeeps ==
    ASSUME NEW w, WalkOK(w), NEW r \in Nodes, NEW l \in 0..Depth - 1
    PROVE  WalkOK(Descend(r, w, l))
  <1> DEFINE refused == w.send /\ (Refused(w.in, l + 1) \/ Revoked(w.agents[l + 1], w.in))
             sends == w.send /\ Changed(w.agents[l + 1], w.in)
             passed == [c \in DOMAIN w.mail[l] |-> IF c \in LevelRanks(FanIn, r, l) THEN w.in ELSE w.mail[l][c]]
             mail == IF sends THEN [w.mail EXCEPT ![l] = passed] ELSE w.mail
             agents == [w.agents EXCEPT ![l + 1] = IF w.send THEN w.in ELSE @]
             down == IF mail[l][r] = AllNan THEN w.in ELSE mail[l][r]
  <1>1. w.in \in Asked /\ w.mail \in Mail /\ w.mail[l] \in [Nodes -> Asked]
    BY DEF WalkOK, Mail
  <1>2. passed \in [Nodes -> Asked]
    BY <1>1
  <1>3. mail \in Mail
    <2> HIDE DEF passed, sends
    <2> QED BY <1>1, <1>2 DEF Mail
  <1>4. down \in Asked
    <2>1. mail[l][r] \in Asked
      <3> HIDE DEF mail
      <3> QED BY <1>3 DEF Mail
    <2> HIDE DEF mail
    <2> QED BY <1>1, <2>1
  <1>5. CASE w.dead \/ refused
    <2>1. Descend(r, w, l) = [w EXCEPT !.dead = TRUE]
      BY <1>5 DEF Descend
    <2> QED BY <2>1 DEF WalkOK
  <1>6. CASE ~(w.dead \/ refused)
    <2>1. Descend(r, w, l) = [w EXCEPT !.mail = mail, !.agents[l + 1] = IF w.send THEN w.in ELSE @,
                                       !.in = IF mail[l][r] = AllNan THEN @ ELSE mail[l][r],
                                       !.send = Receives(mail, l, r)]
      BY <1>6 DEF Descend
    <2>2. Descend(r, w, l) = [in |-> down, send |-> Receives(mail, l, r), mail |-> mail,
                              agents |-> agents, dead |-> w.dead]
      <3> HIDE DEF mail
      <3> QED BY <2>1 DEF WalkOK
    <2> HIDE DEF mail, down, agents
    <2> QED BY <1>3, <1>4, <2>2 DEF WalkOK
  <1> QED BY <1>5, <1>6

\* One value of the function that walks down.
WalkStep(r, top, f, k) == IF k = 0 THEN Setout(r) ELSE Descend(r, f[k - 1], top - k)

\* The recursion of walk_down() has a solution.
LEMMA WalkDefined ==
    ASSUME NEW r, NEW top \in Nat, NEW n \in Nat
    PROVE  \E f : f = [k \in 0..n |-> WalkStep(r, top, f, k)]
  <1> DEFINE Good(m) == \E f : f = [k \in 0..m |-> WalkStep(r, top, f, k)]
             Bad == {m \in Nat : ~Good(m)}
  <1>1. Good(0)
    <2> DEFINE f == [k \in 0..0 |-> Setout(r)]
    <2>1. f = [k \in 0..0 |-> WalkStep(r, top, f, k)]
      BY DEF WalkStep
    <2> QED BY <2>1
  <1>2. ASSUME NEW m \in Nat, Good(m) PROVE Good(m + 1)
    <2>1. PICK f : f = [k \in 0..m |-> WalkStep(r, top, f, k)]
      BY <1>2
    <2> DEFINE g == [k \in 0..m + 1 |-> WalkStep(r, top, f, k)]
    <2>2. ASSUME NEW k \in 0..m + 1 PROVE WalkStep(r, top, f, k) = WalkStep(r, top, g, k)
      <3>1. CASE k = 0
        BY <3>1 DEF WalkStep
      <3>2. CASE k # 0
        <4>1. k - 1 \in 0..m /\ k - 1 \in 0..m + 1
          BY <3>2
        <4>2. g[k - 1] = WalkStep(r, top, f, k - 1) /\ f[k - 1] = WalkStep(r, top, f, k - 1)
          BY <2>1, <4>1
        <4> HIDE DEF g
        <4> QED BY <3>2, <4>2 DEF WalkStep
      <3> QED BY <3>1, <3>2
    <2>3. g = [k \in 0..m + 1 |-> WalkStep(r, top, g, k)]
      BY <2>2
    <2> QED BY <2>3
  <1>3. ASSUME Bad # {} PROVE FALSE
    <2>1. PICK m \in Bad : \A k \in Bad : m <= k
      BY <1>3, LeastNatural
    <2> HIDE DEF Good
    <2>2. m # 0
      BY <1>1
    <2>3. m - 1 \in Nat /\ m - 1 \notin Bad
      BY <2>1, <2>2
    <2>4. Good(m)
      BY <2>3, <1>2
    <2> QED BY <2>4
  <1>4. Good(n)
    <2> HIDE DEF Good
    <2> QED BY <1>3
  <1> QED BY <1>4

\* What arrives at the leaf is a policy.
LEMMA WalkedIs ==
    ASSUME asked \in Asked, boxes \in Mail, NEW r \in Nodes
    PROVE  WalkOK(Walked(r))
  <1> DEFINE top == NumLevelControlled(FanIn, r)
             walk == CHOOSE f : f = [k \in 0..top |-> WalkStep(r, top, f, k)]
  <1>1. top \in Nat /\ top <= Depth /\ Depth \in Nat
    BY TopLevel
  <1>2. Walked(r) = walk[top]
    BY DEF Walked, WalkStep
  <1>3. WalkOK(Setout(r))
    <2>1. Setout(r).in = IF top = Depth THEN asked ELSE boxes[top][r]
      BY DEF Setout
    <2>2. top # Depth => boxes[top][r] \in Asked
      <3> HIDE DEF top
      <3> QED BY <1>1 DEF Mail
    <2>3. Setout(r) = [in |-> Setout(r).in, send |-> Setout(r).send, mail |-> Setout(r).mail,
                       agents |-> Setout(r).agents, dead |-> Setout(r).dead] /\ Setout(r).mail = boxes
      BY DEF Setout
    <2> QED BY <2>1, <2>2, <2>3 DEF WalkOK
  <1> HIDE DEF top
  <1>4. walk = [k \in 0..top |-> WalkStep(r, top, walk, k)]
    BY <1>1, WalkDefined
  <1> HIDE DEF walk
  <1>5. walk[0] = Setout(r) /\ \A k \in 1..top : walk[k] = Descend(r, walk[k - 1], top - k)
    BY <1>1, <1>4 DEF WalkStep
  <1> DEFINE Bad == {k \in 0..top : ~WalkOK(walk[k])}
  <1>6. ASSUME Bad # {} PROVE FALSE
    <2>1. Bad \subseteq Nat
      BY <1>1
    <2>2. PICK k \in Bad : \A m \in Bad : k <= m
      BY <1>6, <2>1, LeastNatural
    <2>3. k # 0
      BY <1>3, <1>5
    <2>4. k \in 1..top /\ k - 1 \in 0..top /\ k - 1 \notin Bad
      BY <1>1, <2>2, <2>3
    <2>5. WalkOK(walk[k - 1]) /\ top - k \in 0..Depth - 1
      BY <1>1, <2>4
    <2>6. WalkOK(walk[k])
      BY <1>5, <2>4, <2>5, DescendKeeps
    <2> QED BY <2>6
  <1>7. top \in 0..top
    BY <1>1
  <1> QED BY <1>2, <1>6, <1>7

\* The leaf agent has written what it keeps.
LeafOK(leaf, hw, phase) ==
    /\ DOMAIN leaf = {"started", "policy", "hash", "freq", "uncore", "gpu"}
    /\ hw = [core |-> hw.core, uncore |-> hw.uncore, gpu |-> hw.gpu]
    /\ leaf.policy = AllNan =>
         leaf.uncore = MapNan /\ hw.uncore = Initial /\ \A d \in MapDomains : leaf.freq[d] = MapNan
    /\ leaf.policy # AllNan =>
         /\ leaf.uncore = leaf.policy.uncore
         /\ hw.uncore = IF leaf.policy.uncore = MapNan THEN Initial ELSE leaf.policy.uncore
         /\ \A d \in MapDomains : hw.core[d] = leaf.freq[d]
         /\ phase = "up" => \A d \in MapDomains : leaf.freq[d] = Wanted(leaf.policy, leaf.hash[d])

\* The induction hypothesis.
MapInv ==
    /\ asked \in Asked /\ boxes \in Mail
    /\ DOMAIN lower = Nodes /\ DOMAIN mapHw = Nodes /\ DOMAIN mapPhase = Nodes
    /\ \A r \in Nodes : LeafOK(lower[r], mapHw[r], mapPhase[r])

\* adjust_platform() brings the controls to what the policy has, from whatever they were.
LEMMA AdjustKeeps ==
    ASSUME NEW leaf, NEW hw, NEW phase, LeafOK(leaf, hw, phase), NEW p \in Asked, ~Revoked(leaf.policy, p)
    PROVE  LeafOK(Adjusted(leaf, hw, p).leaf, Adjusted(leaf, hw, p).hw, "up")
  <1> DEFINE first == FirstPass(leaf, hw)
  <1>0. DOMAIN leaf = {"started", "policy", "hash", "freq", "uncore", "gpu"}
    BY DEF LeafOK
  <1>1. /\ first = [core |-> first.core, uncore |-> first.uncore, gpu |-> first.gpu]
        /\ first.core = hw.core /\ first.uncore = hw.uncore
    BY DEF FirstPass, LeafOK
  <1>2. Adjusted(leaf, hw, p) = AdjustedFrom(leaf, first, p)
    BY DEF Adjusted
  <1> HIDE DEF first
  <1>3. CASE p = AllNan
    <2>1. leaf.policy = AllNan
      BY <1>3 DEF Revoked
    <2>2. AdjustedFrom(leaf, first, p) = [leaf |-> [leaf EXCEPT !.started = TRUE], hw |-> first]
      BY <1>3 DEF AdjustedFrom
    <2>3. AdjustedFrom(leaf, first, p).leaf = [leaf EXCEPT !.started = TRUE] /\ AdjustedFrom(leaf, first, p).hw = first
      BY <2>2
    <2> DEFINE on == [leaf EXCEPT !.started = TRUE]
    <2>4. /\ DOMAIN on = DOMAIN leaf
          /\ on.policy = leaf.policy /\ on.hash = leaf.hash /\ on.freq = leaf.freq /\ on.uncore = leaf.uncore
      BY <1>0
    <2> HIDE DEF on
    <2>5. LeafOK(on, first, "up")
      BY <1>0, <1>1, <2>1, <2>4 DEF LeafOK
    <2> QED BY <1>2, <2>3, <2>5 DEF on
  <1>4. CASE p # AllNan
    <2> DEFINE freq == [d \in MapDomains |-> Wanted(p, leaf.hash[d])]
               core == [d \in MapDomains |->
                          IF leaf.freq[d] # Wanted(p, leaf.hash[d]) THEN Wanted(p, leaf.hash[d]) ELSE first.core[d]]
               uncore == UncoreSet(leaf.uncore, p, first.uncore)
               after == [leaf EXCEPT !.started = TRUE, !.policy = p, !.uncore = p.uncore,
                                     !.gpu = IF p.gpu # MapNan THEN p.gpu ELSE @, !.freq = freq]
               set == [core |-> core, uncore |-> uncore,
                       gpu |-> IF p.gpu # MapNan /\ leaf.gpu # p.gpu THEN p.gpu ELSE first.gpu]
    <2>1. /\ DOMAIN after = DOMAIN leaf
          /\ after.policy = p /\ after.uncore = p.uncore /\ after.freq = freq /\ after.hash = leaf.hash
      <3> HIDE DEF freq
      <3> QED BY <1>0
    <2>2. AdjustedFrom(leaf, first, p) = [leaf |-> after, hw |-> set]
      BY <1>4 DEF AdjustedFrom
    <2>3. \A d \in MapDomains : core[d] = freq[d]
      <3> SUFFICES ASSUME NEW d \in MapDomains PROVE core[d] = freq[d]
        OBVIOUS
      <3>1. Wanted(p, leaf.hash[d]) # MapNan
        BY <1>4, WantedIs
      <3>2. leaf.freq[d] = Wanted(p, leaf.hash[d]) => first.core[d] = Wanted(p, leaf.hash[d])
        BY <1>1, <3>1 DEF LeafOK
      <3> QED BY <3>2
    <2>4. uncore = IF p.uncore = MapNan THEN Initial ELSE p.uncore
      <3>1. leaf.uncore = MapNan => first.uncore = Initial
        BY <1>1 DEF LeafOK
      <3>2. leaf.uncore # MapNan => first.uncore = leaf.uncore
        BY <1>1 DEF LeafOK
      <3> QED BY <3>1, <3>2 DEF UncoreSet
    <2>5. \A d \in MapDomains : freq[d] = Wanted(p, leaf.hash[d])
      OBVIOUS
    <2> HIDE DEF freq, core, uncore, after
    <2>6. set = [core |-> set.core, uncore |-> set.uncore, gpu |-> set.gpu] /\ set.core = core /\ set.uncore = uncore
      OBVIOUS
    <2> HIDE DEF set
    <2>7. LeafOK(after, set, "up")
      BY <1>0, <1>4, <2>1, <2>3, <2>4, <2>5, <2>6 DEF LeafOK
    <2>8. AdjustedFrom(leaf, first, p).leaf = after /\ AdjustedFrom(leaf, first, p).hw = set
      BY <2>2
    <2> QED BY <1>2, <2>7, <2>8
  <1> QED BY <1>3, <1>4

\* Before the first pass no control has been written.
LEMMA MapInvInit == MapInit => MapInv
  <1> SUFFICES ASSUME MapInit PROVE MapInv
    OBVIOUS
  <1>1. asked \in Asked /\ boxes \in Mail
    BY DEF MapInit, Asked, Mail
  <1>2. DOMAIN lower = Nodes /\ DOMAIN mapHw = Nodes /\ DOMAIN mapPhase = Nodes
    BY DEF MapInit
  <1>3. ASSUME NEW r \in Nodes PROVE LeafOK(lower[r], mapHw[r], mapPhase[r])
    <2>1. /\ lower[r] = [started |-> FALSE, policy |-> AllNan, hash |-> [d \in MapDomains |-> Elsewhere],
                         freq |-> [d \in MapDomains |-> MapNan], uncore |-> MapNan, gpu |-> MapNan]
          /\ mapHw[r] = [core |-> [d \in MapDomains |-> Initial], uncore |-> Initial, gpu |-> Initial]
      BY DEF MapInit
    <2> QED BY <2>1 DEF LeafOK
  <1> QED BY <1>1, <1>2, <1>3 DEF MapInv

\* A pass brings what it got to the leaf and adjusts the controls of its node to it; a sample
\* and a new policy leave the controls alone.
LEMMA MapInvNext == MapInv /\ [MapNext]_mapVars => MapInv'
  <1> SUFFICES ASSUME MapInv, [MapNext]_mapVars PROVE MapInv'
    OBVIOUS
  <1>1. ASSUME NEW r \in Nodes, WalkDown(r) PROVE MapInv'
    <2> DEFINE w == Walked(r)
               after == Adjusted(lower[r], mapHw[r], w.in)
               leaves == w.dead \/ Revoked(lower[r].policy, w.in)
    <2>1. w.in \in Asked /\ w.mail \in Mail
      BY WalkedIs DEF MapInv, WalkOK
    <2> HIDE DEF w
    <2>2. /\ boxes' = w.mail /\ UNCHANGED asked
          /\ mapPhase' = [mapPhase EXCEPT ![r] = IF leaves THEN "dead" ELSE "up"]
          /\ lower' = IF leaves THEN lower ELSE [lower EXCEPT ![r] = after.leaf]
          /\ mapHw' = IF leaves THEN mapHw ELSE [mapHw EXCEPT ![r] = after.hw]
      BY <1>1 DEF WalkDown, w
    <2>3. ~leaves => LeafOK(after.leaf, after.hw, "up")
      BY <2>1, AdjustKeeps DEF MapInv
    <2>4. leaves => LeafOK(lower[r], mapHw[r], "dead")
      BY DEF MapInv, LeafOK
    <2> HIDE DEF after, leaves
    <2>5. DOMAIN lower' = Nodes /\ DOMAIN mapHw' = Nodes /\ DOMAIN mapPhase' = Nodes
      BY <2>2 DEF MapInv
    <2>6. ASSUME NEW q \in Nodes PROVE LeafOK(lower'[q], mapHw'[q], mapPhase'[q])
      <3>1. CASE q # r
        <4>1. lower'[q] = lower[q] /\ mapHw'[q] = mapHw[q] /\ mapPhase'[q] = mapPhase[q]
          BY <2>2, <3>1 DEF MapInv
        <4> QED BY <4>1 DEF MapInv
      <3>2. CASE q = r /\ leaves
        <4>1. lower'[q] = lower[r] /\ mapHw'[q] = mapHw[r] /\ mapPhase'[q] = "dead"
          BY <2>2, <3>2 DEF MapInv
        <4> QED BY <2>4, <3>2, <4>1
      <3>3. CASE q = r /\ ~leaves
        <4>1. lower'[q] = after.leaf /\ mapHw'[q] = after.hw /\ mapPhase'[q] = "up"
          BY <2>2, <3>3 DEF MapInv
        <4> QED BY <2>3, <3>3, <4>1
      <3> QED BY <3>1, <3>2, <3>3
    <2> QED BY <2>1, <2>2, <2>5, <2>6 DEF MapInv
  <1>2. ASSUME NEW r \in Nodes, SampleHash(r) PROVE MapInv'
    <2>1. PICK hash : lower' = [lower EXCEPT ![r].hash = hash]
      BY <1>2 DEF SampleHash
    <2>2. mapPhase' = [mapPhase EXCEPT ![r] = "down"] /\ UNCHANGED <<asked, boxes, mapHw>>
      BY <1>2 DEF SampleHash
    <2>3. ASSUME NEW q \in Nodes PROVE LeafOK(lower'[q], mapHw'[q], mapPhase'[q])
      <3>1. CASE q # r
        <4>1. lower'[q] = lower[q] /\ mapPhase'[q] = mapPhase[q]
          BY <2>1, <2>2, <3>1 DEF MapInv
        <4> QED BY <2>2, <4>1 DEF MapInv
      <3>2. CASE q = r
        <4>1. lower'[q] = [lower[r] EXCEPT !.hash = hash] /\ mapPhase'[q] = "down"
          BY <2>1, <2>2, <3>2 DEF MapInv
        <4>2. LeafOK(lower[r], mapHw[r], mapPhase[r])
          BY DEF MapInv
        <4> QED BY <2>2, <3>2, <4>1, <4>2 DEF LeafOK
      <3> QED BY <3>1, <3>2
    <2> QED BY <2>1, <2>2, <2>3 DEF MapInv
  <1>3. ASSUME NEW p \in Policies \union {AllNan}, NewPolicy(p) PROVE MapInv'
    <2>1. asked' \in Asked /\ UNCHANGED <<boxes, lower, mapHw, mapPhase>>
      BY <1>3 DEF NewPolicy, Asked
    <2> QED BY <2>1 DEF MapInv
  <1>4. CASE UNCHANGED mapVars
    <2>1. UNCHANGED <<asked, boxes, lower, mapHw, mapPhase>>
      BY <1>4 DEF mapVars
    <2> QED BY <2>1 DEF MapInv
  <1> QED BY <1>1, <1>2, <1>3, <1>4 DEF MapNext

\* After a pass a node has what its policy has, for any tree, any domains and regions and any
\* number of policies, also when a policy no longer names an uncore frequency.
THEOREM PoliciesApplied == MapSpec => []MapApplied
  <1>1. MapInv => MapApplied
    <2> SUFFICES ASSUME MapInv, NEW r \in Nodes, mapPhase[r] = "up", lower[r].policy # AllNan
                 PROVE  /\ \A d \in MapDomains : mapHw[r].core[d] = Wanted(lower[r].policy, lower[r].hash[d])
                        /\ mapHw[r].uncore = IF lower[r].policy.uncore = MapNan THEN Initial ELSE lower[r].policy.uncore
      BY DEF MapApplied, Wanted
    <2>1. LeafOK(lower[r], mapHw[r], "up")
      BY DEF MapInv
    <2> QED BY <2>1 DEF LeafOK
  <1> QED BY <1>1, MapInvInit, MapInvNext, PTL DEF MapSpec

-----------------------------------------------------------------------------
(* PlatformIO: what was asked for is written *)

\* The IOGroup to which a control of a part is pushed: it depends only on what can be
\* accessed, which does not change.
HomeOf(p, a) == Max({g \in Found : a[g][p] # "error"})

\* An entry for a part that was pushed.
NativeEntry(p, a) == [group |-> HomeOf(p, a), part |-> p, of |-> <<>>]

\* An entry for the board after all parts were pushed.
BoardEntry(existing) ==
    [group |-> 0, part |-> 0, of |-> [i \in DOMAIN InOrder |-> existing[Part(InOrder[i])]]]

\* A table says for each part, and for the board, where its entry is, and has no other
\* entries.
TableOK(t, a) ==
    /\ DOMAIN t = {"active", "existing", "known", "threw"}
    /\ \E S : t.active \in Seq(S)
    /\ DOMAIN t.existing = Requests
    /\ \A p \in Parts : t.existing[Part(p)] # 0 =>
          /\ t.existing[Part(p)] \in DOMAIN t.active
          /\ t.active[t.existing[Part(p)]] = NativeEntry(p, a)
          /\ HomeOf(p, a) \in Groups
    /\ t.existing[Board] # 0 =>
          /\ t.existing[Board] \in DOMAIN t.active
          /\ t.active[t.existing[Board]] = BoardEntry(t.existing)
          /\ \A p \in Parts : t.existing[Part(p)] # 0
    /\ \A i \in DOMAIN t.active :
          IF t.active[i].group = 0 THEN i = t.existing[Board]
          ELSE \E p \in Parts : i = t.existing[Part(p)]

\* What is due for a part is kept by the IOGroup of the part and by no other; what was
\* adjusted and is not kept any more has been written.
Due ==
    \A p \in Parts :
      /\ \A g \in Groups : group[g].adjusted[p] # 0 => g = HomeOf(p, access)
      /\ wanted[p] # 0 =>
           LET h == HomeOf(p, access)
           IN  /\ h \in Groups
               /\ \/ group[h].adjusted[p] = wanted[p]
                  \/ group[h].adjusted[p] = 0 /\ platform[p] = wanted[p]

\* The IOGroups that have had their turn in a write_batch() have nothing left to write.
LoopOK ==
    turn.call = "write" =>
      /\ turn.at \in Groups
      /\ \A g \in Groups, p \in Parts : g < turn.at => group[g].adjusted[p] = 0

GroupFields == {"signals", "controls", "active", "read", "adjusted", "saved", "file"}

GroupsOK == DOMAIN group = Groups /\ \A g \in Groups : DOMAIN group[g] = GroupFields /\ DOMAIN group[g].adjusted = Parts

TurnOK == DOMAIN turn = {"call", "at", "failed"}

PioInv == TableOK(control, access) /\ GroupsOK /\ TurnOK /\ Due /\ LoopOK

-----------------------------------------------------------------------------

\* InOrder lists every part once.
LEMMA InOrderIs ==
    /\ InOrder \in Seq(Parts) /\ InOrder \in [1..Cardinality(Parts) -> Parts]
    /\ Len(InOrder) = Cardinality(Parts) /\ Cardinality(Parts) \in Nat
    /\ \A p \in Parts : \E i \in DOMAIN InOrder : InOrder[i] = p
  <1> DEFINE n == Cardinality(Parts)
             Asc(s) == \A i, j \in DOMAIN s : i < j => s[i] < s[j]
  <1>1. n \in Nat /\ Parts \subseteq Int /\ IsFiniteSet(Parts)
    BY PioAssumption, FS_CardinalityType
  <1>2. \E s \in [1..n -> Parts] : Asc(s)
    BY <1>1, InAscendingOrder
  <1>3. InOrder = CHOOSE s \in [1..n -> Parts] : Asc(s)
    BY DEF InOrder
  <1> HIDE DEF n, Asc
  <1>4. InOrder \in [1..n -> Parts] /\ Asc(InOrder)
    BY <1>2, <1>3
  <1>5. InOrder \in Seq(Parts) /\ Len(InOrder) = n
    BY <1>1, <1>4
  <1>6. InOrder \in Injection(1..n, Parts)
    <2>1. ASSUME NEW i \in 1..n, NEW j \in 1..n, InOrder[i] = InOrder[j] PROVE i = j
      <3>1. DOMAIN InOrder = 1..n /\ InOrder[i] \in Int /\ InOrder[j] \in Int
        BY <1>1, <1>4
      <3>2. ~(i < j) /\ ~(j < i)
        BY <1>4, <2>1, <3>1 DEF Asc
      <3> QED BY <1>1, <3>2
    <2> QED BY <1>4, <2>1 DEF Injection, IsInjective
  <1>7. Cardinality(1..n) = n
    BY <1>1, FS_Interval
  <1>8. InOrder \in Surjection(1..n, Parts)
    BY <1>1, <1>6, <1>7, FS_Injection DEF n
  <1>9. \A p \in Parts : \E i \in DOMAIN InOrder : InOrder[i] = p
    BY <1>4, <1>8 DEF Surjection
  <1> QED BY <1>1, <1>4, <1>5, <1>9 DEF n

\* The IOGroup of a part that can be pushed is one of them.
LEMMA HomeIs ==
    ASSUME NEW p \in Parts, {g \in Found : access[g][p] # "error"} # {}
    PROVE  HomeOf(p, access) \in Groups
  <1> DEFINE S == {g \in Found : access[g][p] # "error"}
  <1>1. S \subseteq 1..NumGroup /\ S # {} /\ NumGroup \in Nat
    BY PioAssumption DEF Found, Groups
  <1>2. HomeOf(p, access) = Max(S)
    BY DEF HomeOf
  <1> HIDE DEF S
  <1>3. IsFiniteSet(S) /\ S \subseteq Int
    <2>1. IsFiniteSet(1..NumGroup)
      BY <1>1, FS_Interval
    <2>2. S \subseteq Int
      BY <1>1
    <2>3. IsFiniteSet(S)
      BY <1>1, <2>1, FS_Subset
    <2> QED BY <2>2, <2>3
  <1> QED BY <1>1, <1>2, <1>3, GreatestNumber DEF Groups

\* The requests for the parts and for the board are all different.
LEMMA RequestsDiffer ==
    /\ Board \in Requests /\ Board # Cpu
    /\ \A p \in Parts : Part(p) \in Requests /\ Part(p) # Board /\ Part(p) # Cpu
    /\ \A p, q \in Parts : Part(p) = Part(q) => p = q
  BY DEF Board, Cpu, Part, Requests

\* What the push of one more part leaves of a table.
After1(t, u, p) ==
    /\ TableOK(u, access)
    /\ u.threw \/ u.existing[Part(p)] # 0
    /\ t.threw => u.threw
    /\ \A q \in Parts : t.existing[Part(q)] # 0 => u.existing[Part(q)] # 0
    /\ u.existing[Board] = t.existing[Board]

\* push_control() for a part.
LEMMA PushPartKeeps ==
    ASSUME NEW t, TableOK(t, access), NEW p \in Parts
    PROVE  After1(t, PushPartControl(t, p), p)
  <1> DEFINE u == PushPartControl(t, p)
             e == [group |-> HomeOf(p, access), part |-> p, of |-> <<>>]
  <1> SUFFICES After1(t, u, p)
    OBVIOUS
  <1>1. CASE u = t /\ (t.threw \/ t.existing[Part(p)] # 0)
    <2> HIDE DEF u
    <2> QED BY <1>1 DEF After1
  <1>2. CASE u = [t EXCEPT !.threw = TRUE]
    <2> HIDE DEF u
    <2>1. u.threw = TRUE /\ u.active = t.active /\ u.existing = t.existing /\ DOMAIN u = DOMAIN t
      BY <1>2 DEF TableOK
    <2>2. TableOK(u, access)
      BY <2>1 DEF TableOK
    <2> QED BY <2>1, <2>2 DEF After1
  <1>3. CASE /\ ~t.threw /\ t.existing[Part(p)] = 0 /\ HomeOf(p, access) \in Groups
             /\ u = Entry(t, Part(p), e)
    <2> HIDE DEF u
    <2>1. PICK S : t.active \in Seq(S)
      BY DEF TableOK
    <2> DEFINE n == Len(t.active) + 1
    <2>2. DOMAIN t.active = 1..n - 1 /\ n \in Nat /\ n > 0
      BY <2>1
    <2>3. /\ DOMAIN u = DOMAIN t /\ u.active = Append(t.active, e) /\ u.threw = t.threw
          /\ u.existing = [t.existing EXCEPT ![Part(p)] = n]
      BY <1>3 DEF Entry, TableOK
    <2>4. u.active \in Seq(S \cup {e})
      BY <2>1, <2>3
    <2>5. DOMAIN u.active = 1..n /\ u.active[n] = e /\ \A i \in 1..n - 1 : u.active[i] = t.active[i]
      BY <2>1, <2>3
    <2> HIDE DEF n
    <2>6. /\ DOMAIN u.existing = Requests /\ u.existing[Part(p)] = n /\ u.existing[Board] = t.existing[Board]
          /\ \A q \in Parts : q # p => u.existing[Part(q)] = t.existing[Part(q)]
      BY <2>3, RequestsDiffer DEF TableOK
    <2>7. t.existing[Board] = 0
      BY <1>3 DEF TableOK
    <2>8. ASSUME NEW q \in Parts, u.existing[Part(q)] # 0
          PROVE  /\ u.existing[Part(q)] \in DOMAIN u.active
                 /\ u.active[u.existing[Part(q)]] = NativeEntry(q, access)
                 /\ HomeOf(q, access) \in Groups
      <3>1. CASE q = p
        BY <1>3, <2>2, <2>5, <2>6, <3>1 DEF NativeEntry
      <3>2. CASE q # p
        <4>1. t.existing[Part(q)] \in 1..n - 1 /\ t.active[t.existing[Part(q)]] = NativeEntry(q, access)
              /\ HomeOf(q, access) \in Groups
          BY <2>2, <2>6, <2>8, <3>2 DEF TableOK
        <4> QED BY <2>2, <2>5, <2>6, <3>2, <4>1
      <3> QED BY <3>1, <3>2
    <2>9. ASSUME NEW i \in DOMAIN u.active
          PROVE  IF u.active[i].group = 0 THEN i = u.existing[Board]
                 ELSE \E q \in Parts : i = u.existing[Part(q)]
      <3>1. CASE i = n
        <4>1. u.active[i].group # 0
          BY <1>3, <2>5, <3>1 DEF Groups
        <4> QED BY <2>6, <3>1, <4>1
      <3>2. CASE i # n
        <4>1. i \in 1..n - 1 /\ u.active[i] = t.active[i]
          BY <2>2, <2>5, <3>2
        <4>2. t.active[i].group = 0 => i = t.existing[Board]
          BY <2>2, <4>1 DEF TableOK
        <4>3. t.active[i].group # 0 => \E q \in Parts : i = t.existing[Part(q)]
          BY <2>2, <4>1 DEF TableOK
        <4>4. i # 0
          BY <4>1
        <4> QED BY <1>3, <2>6, <4>1, <4>2, <4>3, <4>4
      <3> QED BY <3>1, <3>2
    <2>10. TableOK(u, access)
      BY <2>3, <2>4, <2>6, <2>7, <2>8, <2>9 DEF TableOK
    <2>11. n # 0
      BY <2>2
    <2> QED BY <1>3, <2>3, <2>6, <2>10, <2>11 DEF After1
  <1> DEFINE usable == {g \in Found : access[g][p] # "error"}
  <1>4. u = IF t.threw \/ t.existing[Part(p)] # 0 THEN t
            ELSE IF usable = {} \/ signalActive \/ controlActive THEN [t EXCEPT !.threw = TRUE]
            ELSE IF group[HomeOf(p, access)].active THEN [t EXCEPT !.threw = TRUE]
            ELSE Entry(t, Part(p), e)
    BY DEF PushPartControl, HomeOf
  <1>5. usable # {} => HomeOf(p, access) \in Groups
    BY HomeIs
  <1> HIDE DEF u, usable, e
  <1> QED BY <1>1, <1>2, <1>3, <1>4, <1>5 DEF e

\* One value of the function that pushes all parts.
PartStep(t, f, k) == IF k = 0 THEN t ELSE PushPartControl(f[k - 1], InOrder[k])

\* The recursion in PushPartControls() has a solution.
LEMMA PartsDefined ==
    ASSUME NEW t, NEW n \in Nat
    PROVE  \E f : f = [k \in 0..n |-> PartStep(t, f, k)]
  <1> DEFINE Good(m) == \E f : f = [k \in 0..m |-> PartStep(t, f, k)]
             Bad == {m \in Nat : ~Good(m)}
  <1>1. Good(0)
    <2> DEFINE f == [k \in 0..0 |-> t]
    <2>1. f = [k \in 0..0 |-> PartStep(t, f, k)]
      BY DEF PartStep
    <2> QED BY <2>1
  <1>2. ASSUME NEW m \in Nat, Good(m) PROVE Good(m + 1)
    <2>1. PICK f : f = [k \in 0..m |-> PartStep(t, f, k)]
      BY <1>2
    <2> DEFINE g == [k \in 0..m + 1 |-> PartStep(t, f, k)]
    <2>2. ASSUME NEW k \in 0..m + 1 PROVE PartStep(t, f, k) = PartStep(t, g, k)
      <3>1. CASE k = 0
        BY <3>1 DEF PartStep
      <3>2. CASE k # 0
        <4>1. k - 1 \in 0..m /\ k - 1 \in 0..m + 1
          BY <3>2
        <4>2. g[k - 1] = PartStep(t, f, k - 1) /\ f[k - 1] = PartStep(t, f, k - 1)
          BY <2>1, <4>1
        <4> HIDE DEF g
        <4> QED BY <3>2, <4>2 DEF PartStep
      <3> QED BY <3>1, <3>2
    <2>3. g = [k \in 0..m + 1 |-> PartStep(t, g, k)]
      BY <2>2
    <2> QED BY <2>3
  <1>3. ASSUME Bad # {} PROVE FALSE
    <2>1. PICK m \in Bad : \A k \in Bad : m <= k
      BY <1>3, LeastNatural
    <2> HIDE DEF Good
    <2>2. m # 0
      BY <1>1
    <2>3. m - 1 \in Nat /\ m - 1 \notin Bad
      BY <2>1, <2>2
    <2>4. Good(m)
      BY <2>3, <1>2
    <2> QED BY <2>4
  <1>4. Good(n)
    <2> HIDE DEF Good
    <2> QED BY <1>3
  <1> QED BY <1>4

\* The parts are pushed up to one that throws.
LEMMA PushPartControlsKeeps ==
    ASSUME TableOK(control, access)
    PROVE  LET u == PushPartControls(control)
           IN  /\ TableOK(u, access) /\ u.existing[Board] = control.existing[Board]
               /\ u.threw \/ \A p \in Parts : u.existing[Part(p)] # 0
  <1> DEFINE n == Len(InOrder)
             f == CHOOSE h : h = [k \in 0..n |-> PartStep(control, h, k)]
             Good(k) == /\ TableOK(f[k], access) /\ f[k].existing[Board] = control.existing[Board]
                        /\ f[k].threw \/ \A i \in 1..k : f[k].existing[Part(InOrder[i])] # 0
             Bad == {k \in 0..n : ~Good(k)}
  <1>1. n \in Nat /\ DOMAIN InOrder = 1..n /\ \A i \in 1..n : InOrder[i] \in Parts
    BY InOrderIs
  <1>2. PushPartControls(control) = f[n]
    BY DEF PushPartControls, PartStep
  <1> HIDE DEF n
  <1>3. f = [k \in 0..n |-> PartStep(control, f, k)]
    BY <1>1, PartsDefined
  <1> HIDE DEF f
  <1>4. f[0] = control /\ \A k \in 1..n : f[k] = PushPartControl(f[k - 1], InOrder[k])
    BY <1>1, <1>3 DEF PartStep
  <1>5. Good(0)
    BY <1>4
  <1>6. ASSUME NEW k \in 1..n, Good(k - 1) PROVE Good(k)
    <2>1. After1(f[k - 1], f[k], InOrder[k])
      BY <1>1, <1>4, <1>6, PushPartKeeps
    <2>2. TableOK(f[k], access) /\ f[k].existing[Board] = control.existing[Board]
      BY <1>6, <2>1 DEF After1
    <2>3. ASSUME ~f[k].threw, NEW i \in 1..k PROVE f[k].existing[Part(InOrder[i])] # 0
      <3>1. CASE i = k
        BY <2>1, <2>3, <3>1 DEF After1
      <3>2. CASE i # k
        <4>1. i \in 1..k - 1 /\ InOrder[i] \in Parts
          BY <1>1, <3>2
        <4>2. ~f[k - 1].threw
          BY <2>1, <2>3 DEF After1
        <4>3. f[k - 1].existing[Part(InOrder[i])] # 0
          BY <1>6, <4>1, <4>2
        <4> QED BY <2>1, <4>1, <4>3 DEF After1
      <3> QED BY <3>1, <3>2
    <2> QED BY <2>2, <2>3
  <1>7. Good(n)
    <2>1. ASSUME Bad # {} PROVE FALSE
      <3>1. Bad \subseteq Nat
        BY <1>1
      <3> HIDE DEF Good
      <3>2. PICK k \in Bad : \A m \in Bad : k <= m
        <4> HIDE DEF Bad
        <4> QED BY <2>1, <3>1, LeastNatural
      <3>3. k # 0
        BY <1>5
      <3>4. k \in 1..n /\ k - 1 \in 0..n /\ k - 1 \notin Bad
        BY <1>1, <3>2, <3>3
      <3> QED BY <1>6, <3>2, <3>4
    <2>2. n \in 0..n
      BY <1>1
    <2> HIDE DEF Good
    <2> QED BY <2>1, <2>2
  <1>8. f[n].threw \/ \A p \in Parts : f[n].existing[Part(p)] # 0
    BY <1>1, <1>7, InOrderIs
  <1> QED BY <1>2, <1>7, <1>8

\* The board gets an entry with the entries of the parts.
LEMMA CombineKeeps ==
    ASSUME NEW t, TableOK(t, access), t.existing[Board] = 0, \A p \in Parts : t.existing[Part(p)] # 0
    PROVE  TableOK(Combine(t), access)
  <1> DEFINE u == Combine(t)
             e == BoardEntry(t.existing)
             n == Len(t.active) + 1
  <1>1. PICK S : t.active \in Seq(S)
    BY DEF TableOK
  <1>2. DOMAIN t.active = 1..n - 1 /\ n \in Nat /\ n > 0
    BY <1>1
  <1>3. u = Entry(t, Board, e)
    BY DEF Combine, BoardEntry
  <1>4. e.group = 0
    BY DEF BoardEntry
  <1> HIDE DEF u, e
  <1>5. /\ DOMAIN u = DOMAIN t /\ u.active = Append(t.active, e)
        /\ u.existing = [t.existing EXCEPT ![Board] = n]
    BY <1>3 DEF Entry, TableOK
  <1>6. u.active \in Seq(S \cup {e})
    BY <1>1, <1>5
  <1>7. DOMAIN u.active = 1..n /\ u.active[n] = e /\ \A i \in 1..n - 1 : u.active[i] = t.active[i]
    BY <1>1, <1>5
  <1> HIDE DEF n
  <1>8. /\ DOMAIN u.existing = Requests /\ u.existing[Board] = n
        /\ \A q \in Parts : u.existing[Part(q)] = t.existing[Part(q)]
    BY <1>5, RequestsDiffer DEF TableOK
  <1>9. BoardEntry(u.existing) = e
    <2>1. \A i \in DOMAIN InOrder : u.existing[Part(InOrder[i])] = t.existing[Part(InOrder[i])]
      BY <1>8, InOrderIs
    <2> QED BY <2>1 DEF BoardEntry, e
  <1>10. ASSUME NEW q \in Parts
         PROVE  /\ u.existing[Part(q)] \in DOMAIN u.active
                /\ u.active[u.existing[Part(q)]] = NativeEntry(q, access)
                /\ HomeOf(q, access) \in Groups
    <2>1. t.existing[Part(q)] \in 1..n - 1 /\ t.active[t.existing[Part(q)]] = NativeEntry(q, access)
          /\ HomeOf(q, access) \in Groups
      BY <1>2 DEF TableOK
    <2> QED BY <1>2, <1>7, <1>8, <2>1
  <1>11. ASSUME NEW i \in DOMAIN u.active
         PROVE  IF u.active[i].group = 0 THEN i = u.existing[Board]
                ELSE \E q \in Parts : i = u.existing[Part(q)]
    <2>1. CASE i = n
      BY <1>4, <1>7, <1>8, <2>1
    <2>2. CASE i # n
      <3>1. i \in DOMAIN t.active /\ u.active[i] = t.active[i] /\ i # 0
        BY <1>2, <1>7, <2>2
      <3>2. t.active[i].group # 0 /\ \E q \in Parts : i = t.existing[Part(q)]
        BY <3>1 DEF TableOK
      <3> QED BY <1>8, <3>1, <3>2
    <2> QED BY <2>1, <2>2
  <1>12. n \in DOMAIN u.active
    BY <1>2, <1>7
  <1>13. TableOK(u, access)
    BY <1>5, <1>6, <1>7, <1>8, <1>9, <1>10, <1>11, <1>12 DEF TableOK
  <1> QED BY <1>13 DEF u

\* Whether a call threw says nothing about the entries.
LEMMA TableKept ==
    ASSUME NEW t, NEW a, TableOK(t, a)
    PROVE  TableOK([t EXCEPT !.threw = TRUE], a) /\ TableOK([t EXCEPT !.threw = FALSE], a)
  <1> DEFINE u == [t EXCEPT !.threw = TRUE]
             v == [t EXCEPT !.threw = FALSE]
  <1>1. u.active = t.active /\ u.existing = t.existing /\ DOMAIN u = DOMAIN t
    BY DEF TableOK
  <1>2. v.active = t.active /\ v.existing = t.existing /\ DOMAIN v = DOMAIN t
    BY DEF TableOK
  <1> HIDE DEF u, v
  <1>3. TableOK(u, a)
    BY <1>1 DEF TableOK
  <1>4. TableOK(v, a)
    BY <1>2 DEF TableOK
  <1> QED BY <1>3, <1>4 DEF u, v

\* push_control() of any request.
LEMMA PushedKeeps ==
    ASSUME TableOK(control, access), NEW r \in Requests,
           NEW table, table = Pushed(control, r, PushPartControl(control, r[2]), PushPartControls(control))
    PROVE  TableOK([table EXCEPT !.threw = FALSE], access)
  <1>1. TableOK(table, access)
    <2>1. ASSUME NEW p \in Parts, r = Part(p) PROVE TableOK(PushPartControl(control, r[2]), access)
      <3>1. r[2] = p
        BY <2>1 DEF Part
      <3> QED BY <3>1, PushPartKeeps DEF After1
    <2>2. TableOK([control EXCEPT !.threw = TRUE], access)
      BY TableKept
    <2> DEFINE parts == PushPartControls(control)
               native == PushPartControl(control, r[2])
    <2>3. /\ TableOK(parts, access) /\ parts.existing[Board] = control.existing[Board]
          /\ parts.threw \/ \A p \in Parts : parts.existing[Part(p)] # 0
      BY PushPartControlsKeeps
    <2>4. table = Pushed(control, r, native, parts)
      OBVIOUS
    <2> HIDE DEF parts, native
    <2>5. CASE r[1] = "part"
      <3>1. PICK p \in Parts : r = Part(p)
        BY <2>5 DEF Requests, Board, Cpu
      <3>2. TableOK(native, access)
        BY <2>1, <3>1 DEF native
      <3> QED BY <2>2, <2>4, <2>5, <3>2 DEF Pushed
    <2>6. CASE r[1] # "part"
      <3>1. r \in {Board, Cpu}
        BY <2>6 DEF Requests, Part
      <3>2. control.existing[r] = 0 /\ r # Cpu /\ ~parts.threw => TableOK(Combine(parts), access)
        BY <2>3, <3>1, CombineKeeps
      <3>3. control.existing[r] # 0 => table = control
        BY <2>4 DEF Pushed
      <3>4. control.existing[r] = 0 =>
              table \in {[control EXCEPT !.threw = TRUE], ConvertDomain(control, r, parts)}
        BY <2>4, <2>6 DEF Pushed
      <3>5. control.existing[r] = 0 => TableOK(ConvertDomain(control, r, parts), access)
        <4>1. CASE r = Cpu
          BY <2>2, <4>1 DEF ConvertDomain
        <4>2. CASE r # Cpu /\ parts.threw
          BY <2>3, <4>2 DEF ConvertDomain
        <4>3. CASE r # Cpu /\ ~parts.threw
          BY <3>2, <4>3 DEF ConvertDomain
        <4> QED BY <4>1, <4>2, <4>3
      <3> QED BY <2>2, <3>3, <3>4, <3>5
    <2> QED BY <2>5, <2>6
  <1> QED BY <1>1, TableKept

\* Initially nothing is pushed and nothing is due.
LEMMA PioInvInit == Init => PioInv
  <1> SUFFICES ASSUME Init PROVE PioInv
    OBVIOUS
  <1>1. TableOK(control, access)
    <2>1. /\ DOMAIN control = {"active", "existing", "known", "threw"} /\ control.active = <<>>
          /\ DOMAIN control.existing = Requests /\ \A r \in Requests : control.existing[r] = 0
      BY DEF Init, EmptyTable
    <2>2. control.active \in Seq({}) /\ DOMAIN control.active = {}
      BY <2>1
    <2> QED BY <2>1, <2>2, RequestsDiffer DEF TableOK
  <1>2. GroupsOK /\ \A g \in Groups, p \in Parts : group[g].adjusted[p] = 0
    BY DEF Init, GroupsOK, GroupFields, NewGroup
  <1>3. TurnOK /\ turn.call = "" /\ \A p \in Parts : wanted[p] = 0
    BY DEF Init, NoTurn, TurnOK
  <1> QED BY <1>1, <1>2, <1>3 DEF PioInv, Due, LoopOK

\* The requests of adjust() stay as they are where a part keeps its value.
LEMMA DueKept ==
    ASSUME Due, access' = access,
           \A g \in Groups, p \in Parts : group'[g].adjusted[p] = group[g].adjusted[p],
           \A p \in Parts : wanted'[p] # 0 => wanted'[p] = wanted[p] /\ platform'[p] = platform[p]
    PROVE  Due'
  BY DEF Due

\* The IOGroups keep what was adjusted when another part of them changes.
LEMMA FieldsKept ==
    ASSUME GroupsOK, NEW F, NEW field \in {"signals", "controls"},
           group' = [g \in Groups |-> [group[g] EXCEPT ![field] = F[g]]]
    PROVE  GroupsOK' /\ \A g \in Groups, p \in Parts : group'[g].adjusted[p] = group[g].adjusted[p]
  BY DEF GroupsOK, GroupFields

\* An adjust() asks the IOGroups of the parts Q for the value v.
Asks(Q, v) ==
    /\ Q \subseteq Parts
    /\ \A p \in Q : HomeOf(p, access) \in Groups
    /\ \A p \in Parts : wanted'[p] = IF p \in Q THEN v ELSE wanted[p]
    /\ \A p \in Parts, g \in Groups :
         group'[g].adjusted[p] = IF p \in Q /\ g = HomeOf(p, access) THEN v ELSE group[g].adjusted[p]
    /\ GroupsOK'

\* adjust() asks the IOGroups of some parts for one value.
LEMMA AdjustAsks ==
    ASSUME PioInv, NEW i, NEW setting, Adjust(i, setting)
    PROVE  \E Q, v : Asks(Q, v)
  <1> DEFINE given == {<<control.active[a[1]].group, control.active[a[1]].part, a[2]>> : a \in AdjustedBy(i, setting)}
             Is(Q, v) == given = {<<HomeOf(p, access), p, v>> : p \in Q}
  <1>0. i \in DOMAIN control.active /\ TableOK(control, access) /\ GroupsOK
    BY DEF Adjust, PioInv
  <1>1. wanted' = [p \in Parts |->
          IF i = control.existing[Part(p)] THEN setting
          ELSE IF i = control.existing[Board] THEN setting \div Cardinality(Parts) ELSE wanted[p]]
    BY DEF Adjust
  <1>2. group' = [g \in Groups |-> [group[g] EXCEPT !.adjusted = [p \in Parts |->
          IF \E a \in given : a[1] = g /\ a[2] = p
          THEN (CHOOSE a \in given : a[1] = g /\ a[2] = p)[3]
          ELSE @[p]]]]
    BY DEF Adjust
  <1>3. i # 0
    <2>1. PICK S : control.active \in Seq(S)
      BY <1>0 DEF TableOK
    <2> QED BY <1>0, <2>1
  <1>4. \E Q, v :
          /\ Q \subseteq Parts
          /\ Is(Q, v) /\ \A p \in Q : HomeOf(p, access) \in Groups
          /\ \A p \in Parts : wanted'[p] = IF p \in Q THEN v ELSE wanted[p]
    <2>1. CASE control.active[i].group # 0
      <3>1. PICK q \in Parts : i = control.existing[Part(q)]
        BY <1>0, <2>1 DEF TableOK
      <3>2. control.active[i] = NativeEntry(q, access) /\ HomeOf(q, access) \in Groups
        BY <1>0, <1>3, <3>1 DEF TableOK
      <3>3. AdjustedBy(i, setting) = {<<i, setting>>}
        BY <2>1 DEF AdjustedBy
      <3>4. Is({q}, setting)
        BY <3>2, <3>3 DEF NativeEntry
      <3>5. i # control.existing[Board]
        BY <1>0, <1>3, <2>1 DEF TableOK, BoardEntry
      <3>6. ASSUME NEW p \in Parts, i = control.existing[Part(p)] PROVE p = q
        <4>1. control.active[i] = NativeEntry(p, access)
          BY <1>0, <1>3, <3>6 DEF TableOK
        <4> QED BY <3>2, <4>1 DEF NativeEntry
      <3>7. \A p \in Parts : wanted'[p] = IF p \in {q} THEN setting ELSE wanted[p]
        BY <1>1, <3>1, <3>5, <3>6
      <3> HIDE DEF Is
      <3> QED BY <3>2, <3>4, <3>7
    <2>2. CASE control.active[i].group = 0
      <3> DEFINE v == Share(setting, Cardinality(Parts))
      <3>1. i = control.existing[Board]
        BY <1>0, <2>2 DEF TableOK
      <3>2. /\ control.active[i] = BoardEntry(control.existing)
            /\ \A p \in Parts : control.existing[Part(p)] # 0
        BY <1>0, <1>3, <3>1 DEF TableOK
      <3>3. \A p \in Parts : /\ control.active[control.existing[Part(p)]] = NativeEntry(p, access)
                             /\ HomeOf(p, access) \in Groups
        BY <1>0, <3>2 DEF TableOK
      <3> DEFINE of == [j \in DOMAIN InOrder |-> control.existing[Part(InOrder[j])]]
      <3>4. DOMAIN of = DOMAIN InOrder /\ Len(of) = Cardinality(Parts)
        <4>1. DOMAIN InOrder = 1..Len(InOrder) /\ Len(InOrder) \in Nat /\ Len(InOrder) = Cardinality(Parts)
          BY InOrderIs
        <4> QED BY <4>1
      <3>5. control.active[i].of = of
        BY <3>2 DEF BoardEntry
      <3> HIDE DEF of
      <3>6. AdjustedBy(i, setting) = {<<of[j], v>> : j \in DOMAIN InOrder}
        BY <2>2, <3>4, <3>5 DEF AdjustedBy
      <3> HIDE DEF v
      <3>7. \A j \in DOMAIN InOrder : of[j] = control.existing[Part(InOrder[j])] /\ InOrder[j] \in Parts
        BY InOrderIs DEF of
      <3>8. ASSUME NEW a \in AdjustedBy(i, setting)
            PROVE  \E p \in Parts : <<control.active[a[1]].group, control.active[a[1]].part, a[2]>>
                                      = <<HomeOf(p, access), p, v>>
        <4>1. PICK j \in DOMAIN InOrder : a = <<of[j], v>>
          BY <3>6
        <4>2. control.active[a[1]] = NativeEntry(InOrder[j], access) /\ InOrder[j] \in Parts /\ a[2] = v
          BY <3>3, <3>7, <4>1
        <4> QED BY <4>2 DEF NativeEntry
      <3>9. ASSUME NEW p \in Parts
            PROVE  \E a \in AdjustedBy(i, setting) :
                     <<control.active[a[1]].group, control.active[a[1]].part, a[2]>> = <<HomeOf(p, access), p, v>>
        <4>1. PICK j \in DOMAIN InOrder : InOrder[j] = p
          BY InOrderIs
        <4>2. <<of[j], v>> \in AdjustedBy(i, setting) /\ control.active[of[j]] = NativeEntry(p, access)
          BY <3>3, <3>6, <3>7, <4>1
        <4> QED BY <4>2 DEF NativeEntry
      <3>10. Is(Parts, v)
        <4>1. given \subseteq {<<HomeOf(p, access), p, v>> : p \in Parts}
          BY <3>8
        <4>2. {<<HomeOf(p, access), p, v>> : p \in Parts} \subseteq given
          BY <3>9
        <4> HIDE DEF given
        <4> QED BY <4>1, <4>2
      <3>11. \A p \in Parts : control.existing[Part(p)] # i
        <4>1. 0 \notin Groups
          BY PioAssumption DEF Groups
        <4>2. \A p \in Parts : control.active[control.existing[Part(p)]].group \in Groups
          <5> SUFFICES ASSUME NEW p \in Parts PROVE control.active[control.existing[Part(p)]].group \in Groups
            OBVIOUS
          <5>1. control.active[control.existing[Part(p)]] = NativeEntry(p, access) /\ HomeOf(p, access) \in Groups
            BY <3>3
          <5>2. NativeEntry(p, access).group = HomeOf(p, access)
            BY DEF NativeEntry
          <5> QED BY <5>1, <5>2
        <4> QED BY <2>2, <4>1, <4>2
      <3>12. \A p \in Parts : wanted'[p] = IF p \in Parts THEN v ELSE wanted[p]
        BY <1>1, <3>1, <3>11 DEF v, Share
      <3> HIDE DEF Is
      <3> QED BY <3>3, <3>10, <3>12
    <2> QED BY <2>1, <2>2
  <1>5. PICK Q, v :
          /\ Q \subseteq Parts
          /\ Is(Q, v) /\ \A p \in Q : HomeOf(p, access) \in Groups
          /\ \A p \in Parts : wanted'[p] = IF p \in Q THEN v ELSE wanted[p]
    <2> HIDE DEF Is
    <2> QED BY <1>4
  <1> HIDE DEF given
  <1>6. ASSUME NEW p \in Parts, NEW g \in Groups
        PROVE  group'[g].adjusted[p] = IF p \in Q /\ g = HomeOf(p, access) THEN v ELSE group[g].adjusted[p]
    <2>1. group'[g].adjusted[p] = IF \E a \in given : a[1] = g /\ a[2] = p
                                  THEN (CHOOSE a \in given : a[1] = g /\ a[2] = p)[3]
                                  ELSE group[g].adjusted[p]
      BY <1>0, <1>2 DEF GroupsOK, GroupFields
    <2>2. CASE p \in Q /\ g = HomeOf(p, access)
      <3>1. <<g, p, v>> \in given
        BY <1>5, <2>2
      <3>2. \A a \in given : a[3] = v
        BY <1>5
      <3> QED BY <2>1, <2>2, <3>1, <3>2
    <2>3. CASE ~(p \in Q /\ g = HomeOf(p, access))
      <3>1. ~\E a \in given : a[1] = g /\ a[2] = p
        BY <1>5, <2>3
      <3> QED BY <2>1, <2>3, <3>1
    <2> QED BY <2>2, <2>3
  <1>7. GroupsOK'
    BY <1>0, <1>2 DEF GroupsOK, GroupFields
  <1>8. \A p \in Parts, g \in Groups :
          group'[g].adjusted[p] = IF p \in Q /\ g = HomeOf(p, access) THEN v ELSE group[g].adjusted[p]
    BY <1>6
  <1> HIDE DEF Is
  <1>9. Asks(Q, v)
    BY <1>5, <1>7, <1>8 DEF Asks
  <1> QED BY <1>9

\* The loop goes on with the same call or is over.
LEMMA Advances ==
    ASSUME TurnOK, Advance
    PROVE  TurnOK' /\ turn'.call \in {turn.call, ""}
  <1>1. CASE turn' = NoTurn
    BY <1>1 DEF NoTurn, TurnOK
  <1>2. CASE turn' = [turn EXCEPT !.at = After(turn.call, turn.at)]
    BY <1>2 DEF TurnOK
  <1> QED BY <1>1, <1>2 DEF Advance

\* Every call, and every turn of an IOGroup in it, keeps the invariant.
LEMMA PioInvNext == PioInv /\ [Next]_pioVars => PioInv'
  <1> SUFFICES ASSUME PioInv, [Next]_pioVars PROVE PioInv'
    OBVIOUS
  <1>0. TableOK(control, access) /\ GroupsOK /\ TurnOK /\ Due /\ LoopOK
    BY DEF PioInv
  <1>1. ASSUME NEW r \in Requests, PushSignal(r) PROVE PioInv'
    <2> DEFINE table == Pushed(signal, r, PushPartSignal(signal, r[2]), PushPartSignals(signal))
               F == [g \in Groups |-> PartsOf(table, g)]
    <2>1. /\ group' = [g \in Groups |-> [group[g] EXCEPT !.signals = PartsOf(table, g)]]
          /\ turn.call = "" /\ UNCHANGED <<access, platform, control, turn, wanted>>
      BY <1>1 DEF PushSignal, Idle, NoTurn
    <2> HIDE DEF table
    <2>2. group' = [g \in Groups |-> [group[g] EXCEPT !["signals"] = F[g]]]
      BY <2>1
    <2> HIDE DEF F
    <2>3. GroupsOK' /\ \A g \in Groups, p \in Parts : group'[g].adjusted[p] = group[g].adjusted[p]
      BY <1>0, <2>2, FieldsKept
    <2>4. Due'
      BY <1>0, <2>1, <2>3, DueKept
    <2> QED BY <1>0, <2>1, <2>3, <2>4 DEF PioInv, LoopOK, TurnOK
  <1>2. ASSUME NEW r \in Requests, PushControl(r) PROVE PioInv'
    <2> DEFINE table == Pushed(control, r, PushPartControl(control, r[2]), PushPartControls(control))
               F == [g \in Groups |-> PartsOf(table, g)]
    <2>1. /\ group' = [g \in Groups |-> [group[g] EXCEPT !.controls = PartsOf(table, g)]]
          /\ control' = [table EXCEPT !.threw = FALSE]
          /\ turn.call = "" /\ UNCHANGED <<access, platform, turn, wanted>>
      BY <1>2 DEF PushControl, Idle, NoTurn
    <2>2. TableOK(control', access')
      BY <1>0, <2>1, PushedKeeps
    <2> HIDE DEF table
    <2>3. group' = [g \in Groups |-> [group[g] EXCEPT !["controls"] = F[g]]]
      BY <2>1
    <2> HIDE DEF F
    <2>4. GroupsOK' /\ \A g \in Groups, p \in Parts : group'[g].adjusted[p] = group[g].adjusted[p]
      BY <1>0, <2>3, FieldsKept
    <2>5. Due'
      BY <1>0, <2>1, <2>4, DueKept
    <2> QED BY <1>0, <2>1, <2>2, <2>4, <2>5 DEF PioInv, LoopOK, TurnOK
  <1>3. ASSUME NEW r, NEW setting, WriteControl(r, setting) PROVE PioInv'
    <2>1. /\ turn.call = "" /\ UNCHANGED <<access, control, group, turn>>
          /\ \A p \in Parts : wanted'[p] # 0 => wanted'[p] = wanted[p] /\ platform'[p] = platform[p]
      BY <1>3 DEF WriteControl, Idle, NoTurn
    <2>2. Due'
      BY <1>0, <2>1, DueKept
    <2> QED BY <1>0, <2>1, <2>2 DEF PioInv, GroupsOK, LoopOK, TurnOK
  <1>4. ASSUME NEW i, NEW setting, Adjust(i, setting) PROVE PioInv'
    <2>1. turn.call = "" /\ UNCHANGED <<access, platform, control, turn>>
      BY <1>4 DEF Adjust, Idle, NoTurn
    <2>2. PICK Q, v : Asks(Q, v)
      BY <1>4, AdjustAsks
    <2>3. Due'
      BY <1>0, <2>1, <2>2 DEF Due, Asks
    <2> QED BY <1>0, <2>1, <2>2, <2>3 DEF PioInv, LoopOK, TurnOK, Asks
  <1>5. ASSUME NEW call, Begin(call) PROVE PioInv'
    <2>1. /\ turn' = [call |-> call, at |-> FirstOf(call), failed |-> FALSE]
          /\ UNCHANGED <<access, platform, control, group, wanted>>
      BY <1>5 DEF Begin
    <2>2. Due'
      BY <1>0, <2>1, DueKept
    <2>3. TurnOK' /\ turn'.call = call /\ turn'.at = FirstOf(call)
      BY <2>1 DEF TurnOK
    <2>4. LoopOK'
      BY <2>3, PioAssumption DEF LoopOK, FirstOf, Groups
    <2> QED BY <1>0, <2>1, <2>2, <2>3, <2>4 DEF PioInv, GroupsOK
  <1>6. CASE ReadTurn
    <2>1. /\ turn.call = "read" /\ turn'.call # "write" /\ TurnOK'
          /\ group' = [group EXCEPT ![turn.at].active = TRUE, ![turn.at].read =
                     [p \in Parts |-> IF p \in group[turn.at].signals THEN platform[p] ELSE @[p]]]
          /\ UNCHANGED <<access, platform, control, wanted>>
      BY <1>0, <1>6, Advances DEF ReadTurn, Turn
    <2>2. GroupsOK' /\ \A g \in Groups, p \in Parts : group'[g].adjusted[p] = group[g].adjusted[p]
      BY <1>0, <2>1 DEF GroupsOK, GroupFields
    <2>3. Due'
      BY <1>0, <2>1, <2>2, DueKept
    <2> QED BY <1>0, <2>1, <2>2, <2>3 DEF PioInv, LoopOK
  <1>7. CASE WriteTurn
    <2> DEFINE h == turn.at
    <2>1. /\ turn.call = "write" /\ h \in Groups
          /\ platform' = [p \in Parts |-> IF group[h].adjusted[p] # 0 THEN group[h].adjusted[p] ELSE platform[p]]
          /\ group' = [group EXCEPT ![h].adjusted = [p \in Parts |-> 0]]
          /\ wanted' = IF LastTurn THEN [p \in Parts |-> 0] ELSE wanted
          /\ UNCHANGED <<access, control>>
      BY <1>0, <1>7 DEF WriteTurn, Turn, LoopOK
    <2>2. /\ GroupsOK'
          /\ \A g \in Groups, p \in Parts : group'[g].adjusted[p] = IF g = h THEN 0 ELSE group[g].adjusted[p]
      BY <1>0, <2>1 DEF GroupsOK, GroupFields
    <2>3. TurnOK' /\ (turn'.call = "write" => ~LastTurn /\ turn'.at = h + 1)
      <3>1. CASE LastTurn
        <4>1. turn' = NoTurn
          BY <1>7, <3>1 DEF WriteTurn, Advance, LastTurn
        <4> QED BY <4>1 DEF NoTurn, TurnOK
      <3>2. CASE ~LastTurn
        <4>1. turn' = [turn EXCEPT !.at = h + 1]
          BY <1>7, <2>1, <3>2 DEF WriteTurn, Advance, LastTurn, After
        <4> QED BY <1>0, <3>2, <4>1 DEF TurnOK
      <3> QED BY <3>1, <3>2
    <2>4. Due'
      <3> SUFFICES ASSUME NEW p \in Parts
                   PROVE  /\ \A g \in Groups : group'[g].adjusted[p] # 0 => g = HomeOf(p, access)
                          /\ wanted'[p] # 0 =>
                               /\ HomeOf(p, access) \in Groups
                               /\ \/ group'[HomeOf(p, access)].adjusted[p] = wanted'[p]
                                  \/ group'[HomeOf(p, access)].adjusted[p] = 0 /\ platform'[p] = wanted'[p]
        BY <2>1 DEF Due
      <3>1. \A g \in Groups : group'[g].adjusted[p] # 0 => g = HomeOf(p, access)
        BY <1>0, <2>2 DEF Due
      <3>2. ASSUME wanted'[p] # 0
            PROVE  /\ HomeOf(p, access) \in Groups
                   /\ \/ group'[HomeOf(p, access)].adjusted[p] = wanted'[p]
                      \/ group'[HomeOf(p, access)].adjusted[p] = 0 /\ platform'[p] = wanted'[p]
        <4>1. wanted'[p] = wanted[p] /\ HomeOf(p, access) \in Groups
              /\ \/ group[HomeOf(p, access)].adjusted[p] = wanted[p]
                 \/ group[HomeOf(p, access)].adjusted[p] = 0 /\ platform[p] = wanted[p]
          BY <1>0, <2>1, <3>2 DEF Due
        <4>2. CASE HomeOf(p, access) = h
          BY <2>1, <2>2, <3>2, <4>1, <4>2
        <4>3. CASE HomeOf(p, access) # h
          <5>1. group[h].adjusted[p] = 0
            BY <1>0, <2>1, <4>3 DEF Due
          <5>2. platform'[p] = platform[p]
            BY <2>1, <5>1
          <5> QED BY <2>2, <4>1, <4>3, <5>2
        <4> QED BY <4>2, <4>3
      <3> QED BY <3>1, <3>2
    <2>5. LoopOK'
      <3> SUFFICES ASSUME turn'.call = "write"
                   PROVE  /\ turn'.at \in Groups
                          /\ \A g \in Groups, p \in Parts : g < turn'.at => group'[g].adjusted[p] = 0
        BY DEF LoopOK
      <3>1. turn'.at = h + 1 /\ h # NumGroup /\ h \in Groups /\ NumGroup \in Nat
        BY <2>1, <2>3, PioAssumption DEF LastTurn, LastOf
      <3>2. turn'.at \in Groups
        BY <3>1 DEF Groups
      <3>3. ASSUME NEW g \in Groups, NEW p \in Parts, g < turn'.at PROVE group'[g].adjusted[p] = 0
        <4>1. g = h \/ g < h
          BY <3>1, <3>3 DEF Groups
        <4> QED BY <1>0, <2>1, <2>2, <4>1 DEF LoopOK
      <3> QED BY <3>2, <3>3
    <2> QED BY <1>0, <2>1, <2>2, <2>3, <2>4, <2>5 DEF PioInv
  <1>8. CASE SaveTurn
    <2>1. /\ turn.call # "write" /\ turn'.call # "write" /\ TurnOK'
          /\ UNCHANGED <<access, platform, control, wanted>>
      BY <1>0, <1>8, Advances DEF SaveTurn, Turn
    <2>2. PICK now : \/ group' = [group EXCEPT ![turn.at].saved = now]
                     \/ group' = [group EXCEPT ![turn.at].file = now]
      BY <1>8 DEF SaveTurn
    <2>3. GroupsOK' /\ \A g \in Groups, p \in Parts : group'[g].adjusted[p] = group[g].adjusted[p]
      BY <1>0, <2>2 DEF GroupsOK, GroupFields
    <2>4. Due'
      BY <1>0, <2>1, <2>3, DueKept
    <2> QED BY <1>0, <2>1, <2>3, <2>4 DEF PioInv, LoopOK
  <1>9. CASE RestoreTurn
    <2>1. /\ turn.call # "write" /\ turn'.call # "write" /\ TurnOK'
          /\ UNCHANGED <<access, control, group>> /\ wanted' = [p \in Parts |-> 0]
      BY <1>0, <1>9, Advances DEF RestoreTurn, Turn
    <2>2. Due'
      BY <1>0, <2>1, DueKept
    <2> QED BY <1>0, <2>1, <2>2 DEF PioInv, LoopOK, GroupsOK
  <1>10. CASE Throws
    <2>1. turn'.call # "write" /\ TurnOK' /\ UNCHANGED <<access, control, group, wanted>>
      <3>1. UNCHANGED <<access, control, group, wanted>>
        BY <1>10 DEF Throws
      <3>2. CASE turn' = NoTurn
        BY <3>1, <3>2 DEF NoTurn, TurnOK
      <3>3. CASE turn.call = "restoreDir" /\ turn' = [turn EXCEPT !.at = After(turn.call, turn.at), !.failed = TRUE]
        <4>1. turn'.call = turn.call /\ TurnOK'
          BY <1>0, <3>3 DEF TurnOK
        <4> QED BY <3>1, <3>3, <4>1
      <3> QED BY <1>10, <3>2, <3>3 DEF Throws, Turn
    <2>2. CASE turn.call # "write"
      <3>1. UNCHANGED platform
        BY <1>10, <2>2 DEF Throws, Turn
      <3>2. Due'
        BY <1>0, <2>1, <3>1, DueKept
      <3> QED BY <1>0, <2>1, <3>2 DEF PioInv, LoopOK, GroupsOK
    <2>3. CASE turn.call = "write"
      <3>1. PICK some \in SUBSET {p \in Parts : group[turn.at].adjusted[p] # 0} :
              platform' = [p \in Parts |-> IF p \in some THEN group[turn.at].adjusted[p] ELSE platform[p]]
        BY <1>10, <2>3 DEF Throws, Turn
      <3>2. turn.at \in Groups
        BY <1>0, <2>3 DEF LoopOK
      <3>3. Due'
        BY <1>0, <2>1, <3>1, <3>2 DEF Due
      <3> QED BY <1>0, <2>1, <3>3 DEF PioInv, LoopOK, GroupsOK
    <2> QED BY <2>2, <2>3
  <1>11. CASE UNCHANGED pioVars
    <2>1. UNCHANGED <<access, platform, control, group, turn, wanted>>
      BY <1>11 DEF pioVars
    <2>2. Due'
      BY <1>0, <2>1, DueKept
    <2> QED BY <1>0, <2>1, <2>2 DEF PioInv, LoopOK, GroupsOK, TurnOK
  <1> QED BY <1>1, <1>2, <1>3, <1>4, <1>5, <1>6, <1>7, <1>8, <1>9, <1>10, <1>11 DEF Next

\* The last IOGroup is the one with the greatest number.
LEMMA BelowLast == \A g \in Groups : g # NumGroup => g < NumGroup
  BY PioAssumption DEF Groups

\* A write_batch() that returns has written, for every part, the last value an adjust() of
\* the part or of the board asked for it, for any number of IOGroups and parts and whatever
\* IOGroups threw before: adjust() keeps a setting in the one IOGroup the part was pushed
\* to, and write_batch() gives every IOGroup its turn.
THEOREM SettingsArrive == Spec => SettingsReach
  <1>1. ASSUME PioInv, [Next]_pioVars
        PROVE  [ended' = "write" /\ ended = "" => \A p \in Parts : wanted[p] # 0 => platform'[p] = wanted[p]]_pioVars
    <2> SUFFICES ASSUME Next, ended' = "write", ended = "", NEW p \in Parts, wanted[p] # 0
                 PROVE  platform'[p] = wanted[p]
      BY <1>1 DEF pioVars
    <2>1. WriteTurn /\ LastTurn
      <3>1. ~\E r \in Requests : PushSignal(r) \/ PushControl(r)
        BY DEF PushSignal, PushControl
      <3>2. ~\E r, s : WriteControl(r, s)
        BY DEF WriteControl
      <3>3. ~\E i, s : Adjust(i, s)
        BY DEF Adjust
      <3>4. ~\E c : Begin(c)
        BY DEF Begin
      <3>5. ~(ReadTurn \/ SaveTurn \/ RestoreTurn)
        BY DEF ReadTurn, SaveTurn, RestoreTurn, Turn, Advance
      <3>6. ~Throws
        BY DEF Throws
      <3>7. WriteTurn
        BY <3>1, <3>2, <3>3, <3>4, <3>5, <3>6 DEF Next
      <3> QED BY <3>7 DEF WriteTurn, Advance, LastTurn
    <2> DEFINE h == turn.at
    <2>2. /\ turn.call = "write" /\ h = NumGroup /\ NumGroup \in Nat \ {0}
          /\ platform'[p] = IF group[h].adjusted[p] # 0 THEN group[h].adjusted[p] ELSE platform[p]
      BY <2>1, PioAssumption DEF WriteTurn, Turn, LastTurn, LastOf
    <2>3. /\ HomeOf(p, access) \in Groups
          /\ \/ group[HomeOf(p, access)].adjusted[p] = wanted[p]
             \/ group[HomeOf(p, access)].adjusted[p] = 0 /\ platform[p] = wanted[p]
      BY <1>1 DEF PioInv, Due
    <2>4. CASE HomeOf(p, access) = h
      BY <2>2, <2>3, <2>4
    <2>5. CASE HomeOf(p, access) # h
      <3>1. group[h].adjusted[p] = 0
        BY <1>1, <2>2, <2>5 DEF PioInv, Due, LoopOK
      <3>2. HomeOf(p, access) < h
        BY <2>2, <2>3, <2>5, BelowLast
      <3>3. group[HomeOf(p, access)].adjusted[p] = 0
        BY <1>1, <2>2, <2>3, <3>2 DEF PioInv, LoopOK
      <3> QED BY <2>2, <2>3, <3>1, <3>3
    <2> QED BY <2>4, <2>5
  <1> QED BY <1>1, PioInvInit, PioInvNext, PTL DEF Spec, SettingsReach

=============================================================================
