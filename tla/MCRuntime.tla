------------------------------ MODULE MCRuntime ------------------------------
(* The parts of the runtime that share nothing with each other, each in a      *)
(* finite instance: object says which of them TLC looks at.                    *)
EXTENDS MCPowerBalancerAgent, SampleAggregator, RecordFilter, Endpoint, CPUActivityAgent

VARIABLE object

\* Policy and sample values of the agents of the endpoint.
MCNum == [a \in Agents |-> IF a = "monitor" THEN 1 ELSE 2]

\* Highest memory bandwidth at each uncore frequency.
MCMaxRate == [f \in {16, 32} |-> IF f = 16 THEN 2 ELSE 4]

MCInit ==
  /\ object \in {"tree", "aggregator", "filter", "endpoint", "cpu"}
  /\ Init
  /\ AggInit
  /\ FilterInit
  /\ object # "filter" => filter = "proxy_epoch"
  /\ EndpointInit
  /\ CpuInit

MCNext ==
  \/ object = "tree" /\ Next /\ UNCHANGED <<aggVars, filterVars, epVars, cpuVars>>
  \/ object = "aggregator" /\ AggNext /\ UNCHANGED <<vars, filterVars, epVars, cpuVars>>
  \/ object = "filter" /\ FilterNext /\ UNCHANGED <<vars, aggVars, epVars, cpuVars>>
  \/ object = "endpoint" /\ EndpointNext /\ UNCHANGED <<vars, aggVars, filterVars, cpuVars>>
  \/ object = "cpu" /\ CpuNext /\ UNCHANGED <<vars, aggVars, filterVars, epVars>>

MCSpec == MCInit /\ [][MCNext /\ UNCHANGED object]_<<object, vars, aggVars, filterVars, epVars, cpuVars>>
==============================================================================
