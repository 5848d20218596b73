------------------------------ MODULE Endpoint ------------------------------
(***************************************************************************)
(* The endpoint between a resource manager (EndpointImp) and the root      *)
(* controllers of the jobs it runs one after the other (EndpointUserImp):  *)
(* two shared memory regions, each with a mutex that every method holds.   *)
(* An owner creates them anew with each open(); a user keeps what it       *)
(* mapped, also after the owner unlinked it.                               *)
(*                                                                         *)
(* Values of a policy or a sample are the number of the write that made    *)
(* them; mem[g] are the regions of the g-th open().                        *)
(***************************************************************************)
EXTENDS Integers, Sequences, FiniteSetsExt

CONSTANTS
  Agents,      \* the agents that jobs use
  NumValues,   \* Agent::num_policy() and num_sample(), taken to be equal
  NoName,      \* the empty agent name
  MaxOpen, MaxJobs, MaxWrites  \* bounds: open() calls, jobs, writes of each kind

ASSUME EndpointAssumption ==
  /\ IsFiniteSet(Agents)
  /\ NumValues \in [Agents -> Nat \ {0}]
  /\ NoName \notin Agents
  /\ {MaxOpen, MaxJobs, MaxWrites} \subseteq Nat

VARIABLES
  mem,     \* the regions of each open(), linked or not
  linked,  \* which of the two names exist, and for which open()
  rm,      \* EndpointImp: where it is, and m_num_policy and m_num_sample
  job,     \* the job that runs: where it is, its agent and what it mapped
  jobs,    \* jobs started
  writes,  \* write_policy() calls that returned, with what they wrote
  samples, \* write_sample() calls
  got      \* what this step's read_policy() or read_sample() answered

epVars == <<mem, linked, rm, job, jobs, writes, samples, got>>

Slots == 1..Max({NumValues[a] : a \in Agents})
NoValue == 0
Nan == -1

\* *data_p = {} and *data_s = {}
Cleared == [policy |-> [count |-> 0, values |-> [i \in Slots |-> NoValue]],
            sample |-> [count |-> 0, values |-> [i \in Slots |-> NoValue], agent |-> NoName, job |-> 0]]

Gen == Len(mem)

NoAnswer == [policy |-> [ok |-> FALSE, job |-> 0, values |-> <<>>, latest |-> 0],
             sample |-> [copied |-> 0, room |-> 0, agent |-> NoName, job |-> 0, values |-> {}, ok |-> FALSE]]

\* std::copy() of n values; what is behind them stays.
Copied(values, n, v) == [i \in Slots |-> IF i <= n THEN v ELSE values[i]]

----------------------------------------------------------------------------
(* The resource manager *)

\* open() creates the policy region, then that of samples, and then clears them.
OpenPolicy ==
  /\ rm.at = "closed" /\ Gen < MaxOpen
  /\ mem' = Append(mem, Cleared)
  /\ linked' = [linked EXCEPT !.policy = Gen + 1]
  /\ rm' = [rm EXCEPT !.at = "opening"]
  /\ UNCHANGED <<job, jobs, writes, samples>>
  /\ got' = NoAnswer

OpenSample ==
  /\ rm.at = "opening"
  /\ linked' = [linked EXCEPT !.sample = Gen]
  /\ rm' = [rm EXCEPT !.at = "clearing"]
  /\ UNCHANGED <<mem, job, jobs, writes, samples>>
  /\ got' = NoAnswer

OpenClear ==
  /\ rm.at = "clearing"
  /\ mem' = [mem EXCEPT ![Gen] = Cleared]
  /\ rm' = [rm EXCEPT !.at = "idle"]
  /\ UNCHANGED <<linked, job, jobs, writes, samples>>
  /\ got' = NoAnswer

Close ==
  /\ rm.at = "idle"
  /\ linked' = [policy |-> 0, sample |-> 0]
  /\ rm' = [rm EXCEPT !.at = "closed"]
  /\ UNCHANGED <<mem, job, jobs, writes, samples>>
  /\ got' = NoAnswer

\* The sizes are those of the agent that was seen last.
Sized(r, name) == IF name = NoName THEN r ELSE [r EXCEPT !.size = NumValues[name]]

GetAgent ==
  /\ rm.at = "idle"
  /\ rm' = Sized(rm, mem[Gen].sample.agent)
  /\ UNCHANGED <<mem, linked, job, jobs, writes, samples>>
  /\ got' = NoAnswer

PolicyWritten(p, n, v) == [count |-> n, values |-> Copied(p.values, n, v)]

\* write_policy(): a policy of another size than m_num_policy is refused.
EndpointWrite ==
  /\ rm.at = "idle" /\ rm.size > 0
  /\ Len(writes) < MaxWrites
  /\ writes' = Append(writes, [gen |-> Gen, count |-> rm.size])
  /\ mem' = [mem EXCEPT ![Gen].policy = PolicyWritten(@, rm.size, Len(writes) + 1)]
  /\ UNCHANGED <<linked, rm, job, jobs, samples>>
  /\ got' = NoAnswer

\* read_sample(): the values are copied before the sizes are compared.
ReadSample ==
  LET s == mem[Gen].sample
  IN /\ rm.at = "idle" /\ rm.size > 0
     /\ got' = [NoAnswer EXCEPT !.sample = [copied |-> s.count, room |-> rm.size, agent |-> s.agent, job |-> s.job,
                                       values |-> {s.values[i] : i \in 1..s.count},
                                       ok |-> s.count = rm.size]]
     /\ UNCHANGED <<mem, linked, rm, job, jobs, writes, samples>>

\* wait_for_agent_attach() and wait_for_agent_detach() poll; seen is the name that
\* the latest poll found.
Wait(what) ==
  /\ rm.at = "idle"
  /\ rm' = [Sized(rm, mem[Gen].sample.agent) EXCEPT !.at = what, !.seen = mem[Gen].sample.agent, !.timedOut = FALSE]
  /\ UNCHANGED <<mem, linked, job, jobs, writes, samples>>
  /\ got' = NoAnswer

Waiting == rm.goOn /\ CASE rm.at = "attach" -> rm.seen = NoName
                        [] rm.at = "detach" -> rm.seen # NoName
                        [] OTHER -> FALSE

\* get_agent(), a pause, and then the test of the time that has passed.
Poll ==
  /\ Waiting
  /\ \E late \in BOOLEAN :
       rm' = [Sized(rm, mem[Gen].sample.agent) EXCEPT !.seen = mem[Gen].sample.agent,
                !.timedOut = late, !.at = IF late THEN "idle" ELSE @]
  /\ UNCHANGED <<mem, linked, job, jobs, writes, samples>>
  /\ got' = NoAnswer

WaitEnds ==
  /\ rm.at \in {"attach", "detach"} /\ ~Waiting
  /\ rm' = [rm EXCEPT !.at = "idle", !.seen = NoName]
  /\ UNCHANGED <<mem, linked, job, jobs, writes, samples>>
  /\ got' = NoAnswer

\* stop_wait_loop() and reset_wait_loop(), from a signal handler.
SetWaitLoop ==
  /\ rm' = [rm EXCEPT !.goOn = ~@]
  /\ UNCHANGED <<mem, linked, job, jobs, writes, samples>>
  /\ got' = NoAnswer

----------------------------------------------------------------------------
(* A job *)

\* The constructor maps the policy region as soon as it is there ...
MapPolicy(a) ==
  /\ job.at = "none" /\ jobs < MaxJobs
  /\ linked.policy # 0
  /\ jobs' = jobs + 1
  /\ job' = [at |-> "mapping", agent |-> a, policy |-> linked.policy, sample |-> 0]
  /\ UNCHANGED <<mem, linked, rm, writes, samples>>
  /\ got' = NoAnswer

\* (bug) The values of the former job stay until the first sample is written.
AttachedNoFill(s, a) == [s EXCEPT !.count = NumValues[a], !.agent = a, !.job = jobs]

Attached(s, a) ==
  [count |-> NumValues[a], values |-> Copied(s.values, NumValues[a], Nan), agent |-> a, job |-> jobs]

\* ... and then that of samples, where it says who it is.
MapSample ==
  /\ job.at = "mapping"
  /\ linked.sample # 0
  /\ job' = [job EXCEPT !.at = "attached", !.sample = linked.sample]
  /\ mem' = [mem EXCEPT ![linked.sample].sample = Attached(@, job.agent)]
  /\ UNCHANGED <<linked, rm, jobs, writes, samples>>
  /\ got' = NoAnswer

\* The values that are missing are NAN.
PolicyRead(p, n) == [i \in 1..n |-> IF i <= p.count THEN p.values[i] ELSE Nan]

\* read_policy(): it throws if the policy has more values than the agent's.
ReadPolicy ==
  LET p == mem[job.policy].policy
      n == NumValues[job.agent]
  IN /\ job.at = "attached"
     /\ got' = [NoAnswer EXCEPT !.policy = IF p.count > n THEN [ok |-> FALSE, job |-> jobs, values |-> <<>>, latest |-> 0]
                                      ELSE [ok |-> TRUE, job |-> jobs, values |-> PolicyRead(p, n),
                                            latest |-> Max({0} \union {i \in DOMAIN writes : writes[i].gen = job.policy})]]
     /\ UNCHANGED <<mem, linked, rm, job, jobs, writes, samples>>

WriteSample ==
  /\ job.at = "attached"
  /\ samples < MaxWrites
  /\ samples' = samples + 1
  /\ mem' = [mem EXCEPT ![job.sample].sample.count = NumValues[job.agent],
                        ![job.sample].sample.values = Copied(@, NumValues[job.agent], jobs)]
  /\ UNCHANGED <<linked, rm, job, jobs, writes>>
  /\ got' = NoAnswer

NoJob == [at |-> "none", agent |-> NoName, policy |-> 0, sample |-> 0]

\* ~EndpointUserImp(), or the end of a process that does not get to it.
Detach ==
  /\ job.at = "attached"
  /\ mem' = [mem EXCEPT ![job.sample].sample.agent = NoName]
  /\ job' = NoJob
  /\ UNCHANGED <<linked, rm, jobs, writes, samples>>
  /\ got' = NoAnswer

JobDies ==
  /\ job.at # "none"
  /\ job' = NoJob
  /\ UNCHANGED <<mem, linked, rm, jobs, writes, samples>>
  /\ got' = NoAnswer

EndpointInit ==
  /\ mem = <<>>
  /\ linked = [policy |-> 0, sample |-> 0]
  /\ rm = [at |-> "closed", size |-> 0, goOn |-> TRUE, seen |-> NoName, timedOut |-> FALSE]
  /\ job = NoJob
  /\ jobs = 0
  /\ writes = <<>>
  /\ samples = 0
  /\ got = NoAnswer

EndpointNext ==
  \/ OpenPolicy \/ OpenSample \/ OpenClear \/ Close
  \/ GetAgent \/ EndpointWrite \/ ReadSample
  \/ \E what \in {"attach", "detach"} : Wait(what)
  \/ Poll \/ WaitEnds \/ SetWaitLoop
  \/ \E a \in Agents : MapPolicy(a)
  \/ MapSample \/ ReadPolicy \/ WriteSample \/ Detach \/ JobDies

EndpointSpec == EndpointInit /\ [][EndpointNext]_epVars

EndpointFair == WF_epVars(Poll) /\ WF_epVars(WaitEnds)

----------------------------------------------------------------------------
(* Properties *)

\* The type invariant.
EndpointTypeOK ==
  /\ Len(mem) <= MaxOpen
  /\ linked.policy \in 0..Gen /\ linked.sample \in 0..Gen
  /\ rm.at \in {"closed", "opening", "clearing", "idle", "attach", "detach"}
  /\ job.at \in {"none", "mapping", "attached"}

\* A sample that read_sample() returns while an agent is attached is that of the
\* attached job or NAN, never what a former job left in the region, however that
\* job ended.
SampleOfThisJob ==
  got.sample.ok /\ got.sample.agent # NoName => got.sample.values \subseteq {Nan, got.sample.job}

\* A policy that read_policy() returns is the latest one in the region it mapped,
\* filled with NAN where that policy is shorter, and nothing of a longer one
\* that was written before.
PolicyWhole ==
  LET p == got.policy
  IN p.ok => \A i \in DOMAIN p.values :
       p.values[i] = IF p.latest # 0 /\ i <= writes[p.latest].count THEN p.latest ELSE Nan

\* "Once user attaches to sample shmem, RM knows it has attached": not so when it
\* attaches between the creation of the region and its clearing in open().
AttachmentSeen ==
  rm.at = "idle" /\ job.at = "attached" /\ job.sample = Gen => mem[Gen].sample.agent = job.agent

\* "Throws an exception if the given timeout is reached before an agent attaches":
\* it is also thrown if the agent was seen in the last poll.
TimeoutMeansAbsent == rm.timedOut /\ rm.at = "idle" => rm.seen = NoName

\* read_sample() copies no more values than there is room for: not so when the job
\* has changed since get_agent().
SampleFits == got.sample.copied <= got.sample.room

\* The policy that a job reads was written for it: the one of the former job stays
\* in the region, and a longer one is an error.
PolicyForThisJob == got.policy.job # 0 => got.policy.ok
=============================================================================
