----------------------------- MODULE Optimizer -----------------------------
(***************************************************************************)
(* geopmopt: a grid of control settings is searched by running the         *)
(* application once for each trial, and the best settings are reported.    *)
(* The command line is one of CommandLines; which coordinate is tried next *)
(* is up to scikit-optimize, and what a trial measures is arbitrary.       *)
(*                                                                         *)
(* A controlled node has Parts; the domain "board" is all of them,         *)
(* "package" is each.  Scores are multiplied by Bound to stay integers.    *)
(***************************************************************************)
EXTENDS Integers, Sequences, FiniteSetsExt, SequencesExt, TLC

CONSTANTS
  CommandLines, \* what the tool may be called with
  OptParts,     \* indices of the domain package
  MaxLevel,     \* prefetchers of a part
  Measures,     \* what the objective and the constrained metric may be
  Bound,        \* the constraint's bound
  Bootstrap     \* penalty of a failure before any success

ASSUME OptimizerAssumption == Bound \in Nat \ {0} /\ Bootstrap \in Nat /\ Measures \subseteq Nat

VARIABLES
  cli,          \* the command line
  optPhase,     \* "start", "saved", "ready", "running", "ending", "ended"
  settings,     \* per control and part: the setting in force
  optSaved,     \* what save_control() kept
  cur,          \* the coordinate on trial
  history,      \* evaluation_history
  objScale,     \* _objective_scale, -1 for None
  best,         \* place of the entry that was selected, 0 before
  stray,        \* does an application of a timed out trial still run?
  outFile       \* what --output-file holds: the settings of a coordinate, or nothing

optVars == <<cli, optPhase, settings, optSaved, cur, history, objScale, best, stray, outFile>>

----------------------------------------------------------------------------
(* ControlGrid *)

Defaults ==
  [cpu_frequency |-> [min |-> 1, max |-> 2, step |-> 1],
   cpu_uncore_frequency |-> [min |-> 1, max |-> 2, step |-> 1],
   prefetch_disable |-> [min |-> 0, max |-> MaxLevel, step |-> 1]]

\* The overrides of all sweeps of a control are merged, the last one of a field counts.
RangeOf(c, key, f) ==
  LET given == SelectSeq(c.sweeps, LAMBDA s : s.key = key /\ f \in DOMAIN s.over)
  IN IF given = <<>> THEN Defaults[key][f] ELSE Last(given).over[f]

IsGridBad(c, key) ==
  LET span == RangeOf(c, key, "max") - RangeOf(c, key, "min")
  IN span < 0 \/ span % RangeOf(c, key, "step") # 0

GetDimensionGrid(c, key) ==
  LET num == (RangeOf(c, key, "max") - RangeOf(c, key, "min")) \div RangeOf(c, key, "step")
  IN [k \in 0..num |-> RangeOf(c, key, "min") + k * RangeOf(c, key, "step")]

\* One dimension for each index of the sweep's domain.
Dimensions(c) ==
  FlattenSeq([k \in DOMAIN c.sweeps |->
    IF c.sweeps[k].domain = "board" THEN <<[key |-> c.sweeps[k].key, parts |-> OptParts]>>
    ELSE [i \in 1..Cardinality(OptParts) |-> [key |-> c.sweeps[k].key, parts |-> {i - 1}]]])

\* _create_search_space() wants a choice in every dimension.
IsSpaceBad(c) ==
  \/ c.sweeps = <<>>
  \/ \E k \in DOMAIN c.sweeps : IsGridBad(c, c.sweeps[k].key) \/ DOMAIN GetDimensionGrid(c, c.sweeps[k].key) = {0}

Coordinates(c) ==
  {x \in [DOMAIN Dimensions(c) -> 0..Max({MaxLevel, 2})] :
     \A d \in DOMAIN x : x[d] \in DOMAIN GetDimensionGrid(c, Dimensions(c)[d].key)}

Prefetcher(k) == <<"PREFETCHER", k>>
OptControls == {<<"GOVERNOR">>, <<"CPU_MAX">>, <<"UNCORE_MAX">>, <<"UNCORE_MIN">>} \union {Prefetcher(k) : k \in 1..MaxLevel}

\* (bug) Only the prefetchers to be disabled are written.
PrefetchSettingsDisabled(level) == [k \in 1..level |-> <<Prefetcher(k), 1>>]

PrefetchSettings(level) == [k \in 1..MaxLevel |-> <<Prefetcher(k), IF level > k - 1 THEN 1 ELSE 0>>]

\* A maximum takes the minimum along, that of the CPU excepted.
ControlsOf(key, v) ==
  CASE key = "prefetch_disable" -> PrefetchSettings(v)
    [] key = "cpu_uncore_frequency" -> <<<<<<"UNCORE_MAX">>, v>>, <<<<"UNCORE_MIN">>, v>>>>
    [] key = "cpu_frequency" -> <<<<<<"CPU_MAX">>, v>>>>

GetConfig(c, x) ==
  LET dims == Dimensions(c)
      Cmds(d) == LET w == ControlsOf(dims[d].key, GetDimensionGrid(c, dims[d].key)[x[d]])
                 IN [k \in DOMAIN w |-> [control |-> w[k][1], parts |-> dims[d].parts, value |-> w[k][2]]]
      governor == IF \E d \in DOMAIN dims : dims[d].key = "cpu_frequency"
                    THEN <<[control |-> <<"GOVERNOR">>, parts |-> OptParts, value |-> 0]>> ELSE <<>>
  IN governor \o FlattenSeq([d \in DOMAIN dims |-> Cmds(d)])

\* write_config(): one batch, in the order of the commands.
WriteConfig(now, config) ==
  FoldLeft(LAMBDA s, w : [s EXCEPT ![w.control] = [p \in OptParts |-> IF p \in w.parts THEN w.value ELSE @[p]]],
           now, config)

----------------------------------------------------------------------------
(* The objective *)

Invalid == [valid |-> FALSE]

\* --metric-regex, --efficiency, --metric-bound and --minimize
ExpandObjective(c) ==
  IF c.bounded THEN IF ~c.fom \/ c.domain = "none" THEN Invalid
                    ELSE [valid |-> TRUE, minimize |-> TRUE, op |-> IF c.minimize THEN "<=" ELSE ">=", session |-> TRUE]
  ELSE [valid |-> TRUE, minimize |-> c.fom => c.minimize, op |-> "none", session |-> c.domain # "none"]

NamesOf(metrics) == {metrics[k].name : k \in DOMAIN metrics}
BaseNames(c) == {"time"} \union (IF c.domain # "none" THEN {"power", "energy"} ELSE {})

\* --metric, --maximize, --minimize NAME, --constraint and --energy-domain
BuildObjective(c) ==
  LET available == NamesOf(c.metrics) \union BaseNames(c)
  IN IF \/ Cardinality(NamesOf(c.metrics)) # Len(c.metrics)
        \/ \E k \in DOMAIN c.metrics : ~(c.metrics[k].refs \subseteq available)
        \/ ~({c.objective} \union c.limited \subseteq available)
       THEN Invalid
     ELSE [valid |-> TRUE, minimize |-> c.minimize, op |-> c.op,
           session |-> c.domain # "none" \/ \E k \in DOMAIN c.metrics : c.metrics[k].sampled]

ObjectiveOf(c) == IF c.general THEN BuildObjective(c) ELSE ExpandObjective(c)

\* The signals whose sum is the energy of a domain.
EnergySignalNames(domain, signals) ==
  LET cpu == IF "POWERCAP" \in signals THEN {"POWERCAP"} ELSE {"CPU_ENERGY"} \intersect signals
      gpu == {"GPU_ENERGY"} \intersect signals
  IN CASE domain = "board" -> IF "BOARD_ENERGY" \in signals THEN {"BOARD_ENERGY"}
                              ELSE gpu \union cpu \union ({"DRAM_ENERGY"} \intersect signals)
       [] domain = "cpu" -> cpu
       [] domain = "gpu" -> gpu

\* ApplicationEvaluator() looks for geopmsession and the signals.
IsEvaluatorBad(c) ==
  ObjectiveOf(c).session /\ (~c.hasSession \/ (c.domain # "none" /\ EnergySignalNames(c.domain, c.signals) = {}))

\* A value is the set of measurements it comes from.
ValueOf(m, values) == IF m.refs = {} THEN {<<"metric", m.name>>} ELSE UNION {values[r] : r \in m.refs}

\* One pass over the pending metrics: a reference is met once its name has a value.
EvaluatePass(s, names) ==
  FoldLeft(LAMBDA t, m : IF \E r \in m.refs : r \in names /\ r \notin DOMAIN t.values
                           THEN [t EXCEPT !.pending = Append(@, m)]
                           ELSE [t EXCEPT !.values = (m.name :> ValueOf(m, @)) @@ @],
           [s EXCEPT !.pending = <<>>], s.pending)

EvaluateMetricMap(c) ==
  FoldLeft(LAMBDA s, m : EvaluatePass(s, NamesOf(c.metrics)),
           [values |-> [n \in BaseNames(c) |-> {<<"base", n>>}], pending |-> c.metrics], c.metrics)

\* What still waits refers to a name without a value.
IsMapUnmet(c) == EvaluateMetricMap(c).pending # <<>>

----------------------------------------------------------------------------
(* Scores *)

Satisfied(op, m) ==
  CASE op = "<=" -> m <= Bound [] op = "<" -> m < Bound [] op = ">=" -> m >= Bound
    [] op = ">" -> m > Bound [] op = "==" -> m = Bound [] op = "none" -> TRUE

Abs(n) == IF n < 0 THEN -n ELSE n

ViolationOf(op, m) == IF Satisfied(op, m) THEN 0 ELSE Abs(m - Bound)

\* The running magnitude of the objective scales the violation.
ScaleAfter(raw) == Max({objScale, raw})

ScoreTrial(o, raw, m) ==
  (IF o.minimize THEN raw ELSE -raw) * Bound
    + (IF ScaleAfter(raw) = 0 THEN 1 ELSE ScaleAfter(raw)) * ViolationOf(o.op, m)

Successes == {k \in DOMAIN history : ~history[k].failed}

PenaltyValue ==
  LET scores == {history[k].score : k \in Successes}
      spread == Max(scores) - Min(scores)
      margin == IF spread > 0 THEN spread ELSE IF Max(scores) # 0 THEN Abs(Max(scores)) ELSE Bound
  IN IF cli.penalty = "fixed" THEN cli.fixed * Bound
     ELSE IF Successes = {} THEN Bootstrap * Bound
     ELSE Max(scores) + margin

\* (bug) The best score is taken whether or not it is feasible.
SelectBestAny ==
  CHOOSE k \in Successes :
    \A j \in Successes : history[k].score < history[j].score \/ (history[k].score = history[j].score /\ k <= j)

SelectBestEntry ==
  LET feasible == {k \in Successes : history[k].feasible}
      pool == IF feasible # {} THEN feasible ELSE Successes
  IN CHOOSE k \in pool :
       \A j \in pool : history[k].score < history[j].score \/ (history[k].score = history[j].score /\ k <= j)

----------------------------------------------------------------------------
(* main() and BayesianOptimizer.optimize() *)

OptInit ==
  /\ cli \in CommandLines
  /\ optPhase = "start"
  /\ settings = [s \in OptControls |-> [p \in OptParts |-> 5]]
  /\ optSaved = settings
  /\ cur = <<>> /\ history = <<>> /\ objScale = -1 /\ best = 0 /\ stray = FALSE /\ outFile = <<>>

Save ==
  /\ optPhase = "start"
  /\ cli.defer => cli.out
  /\ optSaved' = IF cli.defer THEN optSaved ELSE settings
  /\ optPhase' = "saved"
  /\ UNCHANGED <<cli, settings, cur, history, objScale, best, stray, outFile>>

BuildAll ==
  /\ optPhase = "saved"
  /\ optPhase' = IF IsSpaceBad(cli) \/ ~ObjectiveOf(cli).valid THEN "ending"
                 ELSE IF IsEvaluatorBad(cli) THEN "ending" ELSE "ready"
  /\ UNCHANGED <<cli, settings, optSaved, cur, history, objScale, best, stray, outFile>>

\* The settings of the coordinate go to the platform or, deferred, to the file.
Launch(x) ==
  /\ optPhase = "ready" /\ Len(history) < cli.trials
  /\ cur' = x
  /\ IF cli.defer THEN outFile' = x /\ UNCHANGED settings
     ELSE settings' = WriteConfig(settings, GetConfig(cli, x)) /\ UNCHANGED outFile
  /\ optPhase' = "running"
  /\ UNCHANGED <<cli, optSaved, history, objScale, best, stray>>

\* A batch that fails may have got anywhere.
LaunchFails(x) ==
  /\ optPhase = "ready" /\ Len(history) < cli.trials /\ ~cli.defer
  /\ \E k \in 0..Len(GetConfig(cli, x)) : settings' = WriteConfig(settings, SubSeq(GetConfig(cli, x), 1, k))
  /\ optPhase' = "ending"
  /\ UNCHANGED <<cli, optSaved, cur, history, objScale, best, stray, outFile>>

Measured(raw, m) ==
  /\ ~IsMapUnmet(cli)
  /\ LET o == ObjectiveOf(cli)
     IN history' = Append(history, [coord |-> cur, failed |-> FALSE, score |-> ScoreTrial(o, raw, m),
                                    feasible |-> ViolationOf(o.op, m) = 0, raw |-> raw, limited |-> m])
  /\ objScale' = ScaleAfter(raw)
  /\ optPhase' = "ready"
  /\ UNCHANGED <<cli, settings, optSaved, cur, best, stray, outFile>>

\* Metrics come from what the application printed.
EvaluateDirect(raw, m) == optPhase = "running" /\ ~ObjectiveOf(cli).session /\ Measured(raw, m)

\* Energy and sampled metrics come from the report of geopmsession.
EvaluateSession(raw, m) == optPhase = "running" /\ ObjectiveOf(cli).session /\ Measured(raw, m)

\* A recoverable failure is given a score; --penalty none makes it the end.
RecordFailure ==
  IF cli.penalty = "none" THEN optPhase' = "ending" /\ UNCHANGED history
  ELSE /\ optPhase' = "ready"
       /\ history' = Append(history, [coord |-> cur, failed |-> TRUE, score |-> PenaltyValue, feasible |-> FALSE,
                                      raw |-> 0, limited |-> 0])

TrialFails ==
  /\ optPhase = "running"
  /\ RecordFailure
  /\ UNCHANGED <<cli, settings, optSaved, cur, objScale, best, stray, outFile>>

\* The child is killed; under geopmsession the application is a child of that child.
TrialTimesOut ==
  /\ optPhase = "running"
  /\ RecordFailure
  /\ stray' \in {stray, stray \/ ObjectiveOf(cli).session}
  /\ UNCHANGED <<cli, settings, optSaved, cur, objScale, best, outFile>>

StrayEnds ==
  /\ stray
  /\ stray' = FALSE
  /\ UNCHANGED <<cli, optPhase, settings, optSaved, cur, history, objScale, best, outFile>>

\* No command, no report, or a report without the metrics.
TrialAborts ==
  /\ optPhase = "running"
  /\ optPhase' = "ending"
  /\ UNCHANGED <<cli, settings, optSaved, cur, history, objScale, best, stray, outFile>>

Report ==
  /\ optPhase = "ready" /\ Len(history) = cli.trials
  /\ optPhase' = "ending"
  /\ IF Successes = {} THEN UNCHANGED <<best, outFile>>
     ELSE /\ best' = SelectBestEntry
          /\ outFile' = IF cli.out THEN history[best'].coord ELSE outFile
  /\ UNCHANGED <<cli, settings, optSaved, cur, history, objScale, stray>>

\* The finally clause of main().
Restore ==
  /\ optPhase = "ending"
  /\ settings' = IF cli.defer THEN settings ELSE optSaved
  /\ optPhase' = "ended"
  /\ UNCHANGED <<cli, optSaved, cur, history, objScale, best, stray, outFile>>

\* The tool has ended, or refused the command line.
OptDone ==
  /\ (optPhase = "ended" /\ ~stray) \/ (optPhase = "start" /\ cli.defer /\ ~cli.out)
  /\ UNCHANGED optVars

OptNext ==
  \/ Save \/ BuildAll \/ TrialFails \/ TrialTimesOut \/ StrayEnds \/ TrialAborts \/ Report \/ Restore \/ OptDone
  \/ optPhase = "ready" /\ \E x \in Coordinates(cli) : Launch(x) \/ LaunchFails(x)
  \/ \E raw, m \in Measures : EvaluateDirect(raw, m) \/ EvaluateSession(raw, m)

OptSpec == OptInit /\ [][OptNext]_optVars

----------------------------------------------------------------------------
(* Properties *)

\* The type invariant.
OptTypeOK ==
  /\ optPhase \in {"start", "saved", "ready", "running", "ending", "ended"}
  /\ DOMAIN settings = OptControls /\ DOMAIN optSaved = OptControls
  /\ Len(history) <= cli.trials /\ best \in 0..Len(history)
  /\ objScale \in Measures \union {-1} /\ stray \in BOOLEAN

\* The application runs under the initial settings with those of its coordinate and
\* nothing of an earlier trial, whatever was tried before (get_config(), write_config()).
NoResidue ==
  optPhase = "running" /\ ~cli.defer => settings = WriteConfig(optSaved, GetConfig(cli, cur))

\* If any trial met the constraint, the configuration reported met it and no trial that
\* met it was better, whatever failures and penalties there were (_select_best_entry());
\* for constraints that include their bound.
BestFound ==
  best # 0 /\ ObjectiveOf(cli).op \in {"none", "<=", ">=", "=="} =>
    \A k \in Successes : Satisfied(ObjectiveOf(cli).op, history[k].limited) =>
      /\ Satisfied(ObjectiveOf(cli).op, history[best].limited)
      /\ IF ObjectiveOf(cli).minimize THEN history[best].raw <= history[k].raw ELSE history[best].raw >= history[k].raw

\* BestFound for strict constraints too: not so, a metric equal to the bound has violation 0.
BestFoundAlways ==
  best # 0 =>
    \A k \in Successes : Satisfied(ObjectiveOf(cli).op, history[k].limited) =>
      Satisfied(ObjectiveOf(cli).op, history[best].limited)

\* With the automatic penalty a failure counts as worse than every success before it
\* (_penalty_value()).
PenaltyWorse ==
  cli.penalty = "auto" =>
    \A k \in DOMAIN history : history[k].failed =>
      \A j \in 1..k - 1 : ~history[j].failed => history[j].score < history[k].score

\* Without a trial that meets the constraint the one reported is not worse than another
\* one in every respect: not so, scores of different trials have different scales.
LeastInfeasible ==
  best # 0 /\ (\A k \in Successes : ~history[k].feasible) =>
    \A k \in Successes :
      ~(history[k].raw = history[best].raw
          /\ ViolationOf(ObjectiveOf(cli).op, history[k].limited) < ViolationOf(ObjectiveOf(cli).op, history[best].limited))

\* A trial has the node to itself: not so after a timeout under geopmsession.
TrialAlone == optPhase = "running" => ~stray

\* A reference that cannot be satisfied is refused before the first trial: not so for
\* metrics that refer to each other.
RefusedEarly == optPhase = "running" => ~IsMapUnmet(cli)

\* What a metric is computed from does not depend on the order of the --metric options:
\* not so where a metric has the name of a base metric.
OrderFree ==
  cli.general /\ ObjectiveOf(cli).valid =>
    EvaluateMetricMap(cli).values = EvaluateMetricMap([cli EXCEPT !.metrics = Reverse(@)]).values

\* Every dimension has the range its own sweep asks for: not so if a control is swept twice.
OwnRange ==
  optPhase \notin {"start", "saved"} =>
    \A k \in DOMAIN cli.sweeps : \A f \in DOMAIN cli.sweeps[k].over :
      RangeOf(cli, cli.sweeps[k].key, f) = cli.sweeps[k].over[f]
=============================================================================
