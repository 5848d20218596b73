----------------------------- MODULE MCClients -----------------------------
(* A batch server with its client, and the optimizer, which is a client too, *)
(* in finite instances: object says which of them TLC looks at.              *)
EXTENDS BatchServer, Optimizer, TLC

VARIABLE object

Symmetry == Permutations(Val)

\* Command lines of geopmopt.
SweepOf(k, d) == [key |-> k, domain |-> d, over |-> <<>>]
SweepOver(k, d, r) == [key |-> k, domain |-> d, over |-> r]
MetricOf(n, refs) == [name |-> n, refs |-> refs, sampled |-> refs = {}]
Cli == [general |-> FALSE, fom |-> TRUE, domain |-> "none", bounded |-> FALSE, minimize |-> FALSE, metrics |-> <<>>,
        objective |-> "time", limited |-> {}, op |-> "none", sweeps |-> <<SweepOf("cpu_frequency", "board")>>,
        penalty |-> "auto", fixed |-> 0, defer |-> FALSE, out |-> TRUE, trials |-> 2,
        hasSession |-> TRUE, signals |-> {"CPU_ENERGY", "POWERCAP"}]
General == [Cli EXCEPT !.general = TRUE, !.domain = "cpu", !.minimize = TRUE]
MCCommandLines ==
  {[Cli EXCEPT !.penalty = p, !.fixed = 1, !.domain = d] : p \in {"auto", "none", "fixed"}, d \in {"none", "gpu"}}
  \union {[Cli EXCEPT !.defer = TRUE, !.out = o] : o \in BOOLEAN}
  \union {[Cli EXCEPT !.bounded = TRUE, !.minimize = m, !.domain = "board", !.trials = 3, !.fom = f] : m, f \in BOOLEAN}
  \union {[General EXCEPT !.limited = {"energy"}, !.op = o, !.trials = 2] : o \in {"<=", "<", ">", "=="}}
  \union {[General EXCEPT !.metrics = ms] :
            ms \in {<<MetricOf("energy", {}), MetricOf("eff", {"energy"})>>, <<MetricOf("eff", {"energy"}), MetricOf("energy", {})>>,
                    <<MetricOf("a", {"b"}), MetricOf("b", {"a"})>>, <<MetricOf("a", {"none"})>>}}
  \union {[Cli EXCEPT !.sweeps = <<SweepOf("prefetch_disable", "package")>>],
          [Cli EXCEPT !.sweeps = <<SweepOver("cpu_uncore_frequency", "board", [min |-> 1, max |-> 3, step |-> 2]),
                                   SweepOver("cpu_uncore_frequency", "package", [max |-> 2, step |-> 1])>>],
          [Cli EXCEPT !.sweeps = <<SweepOver("cpu_frequency", "board", [min |-> 3]), SweepOf("prefetch_disable", "board")>>]}

MCInit ==
  /\ object \in {"batch", "optimizer"}
  /\ Init
  /\ object # "batch" => ctl = hw /\ hw = CHOOSE v \in Val : TRUE
  /\ IF object = "optimizer" THEN TRUE ELSE cli = CHOOSE c \in CommandLines : c.defer /\ c.out
  /\ OptInit

MCNext ==
  \/ object = "batch" /\ Next /\ UNCHANGED optVars
  \/ object = "optimizer" /\ OptNext /\ UNCHANGED vars

\* Fairness is that of BatchServer.
MCSpec == MCInit /\ [][MCNext /\ UNCHANGED object]_<<object, vars, optVars>> /\ Fairness
=============================================================================
