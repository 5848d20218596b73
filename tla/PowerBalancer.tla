---------------------------- MODULE PowerBalancer ----------------------------
(***************************************************************************)
(* The object that searches the power limit of one package                 *)
(* (libgeopm/src/PowerBalancer.cpp), as functions from balancer to         *)
(* balancer.  A balancer is a record with the fields                       *)
(*   cap      m_power_cap                                                  *)
(*   limit    m_power_limit                                                *)
(*   delta    m_trial_delta                                                *)
(*   met      m_is_target_met                                              *)
(*   sampled  a runtime was measured since the limit last changed          *)
(* Runtimes are measured, so their comparisons have any outcome: the       *)
(* functions take the outcome as an argument.  Power is in whole units.    *)
(***************************************************************************)
EXTENDS Integers

CONSTANTS TrialDelta,   \* m_trial_delta in the constructor
          MinDelta      \* M_MIN_TRIAL_DELTA

ASSUME DeltaAssumption == /\ TrialDelta \in Nat /\ MinDelta \in Nat
                          /\ 0 < MinDelta /\ MinDelta <= TrialDelta

NewBalancer == [cap |-> 0, limit |-> 0, delta |-> TrialDelta, met |-> FALSE,
                sampled |-> FALSE]

\* power_cap(): the limit starts at the cap and the runtimes are forgotten.
PowerCap(b, cap) == [b EXCEPT !.cap = cap, !.limit = cap, !.sampled = FALSE]

\* power_limit_adjusted(): a limit that was raised to the minimum is not lowered
\* any further.
LimitAdjusted(b, actual) ==
    [b EXCEPT !.met = @ \/ actual > b.limit,
              !.limit = actual,
              !.sampled = @ /\ actual = b.limit]

\* target_runtime(): slow if the measured runtime is above the target.
TargetRuntime(b, slow) == [b EXCEPT !.met = slow]

\* is_runtime_stable(): one sample never fills the buffer.
MayBeStable(b) == b.sampled

Sampled(b) == [b EXCEPT !.sampled = TRUE]

\* is_target_met() with a stable runtime: back up one trial, at most to the cap,
\* when the target was missed, else try a lower limit.
TargetTried(b, slow) ==
    IF slow
    THEN [b EXCEPT !.limit = IF b.limit >= b.cap THEN b.limit
                             ELSE IF b.limit + b.delta > b.cap THEN b.cap
                             ELSE b.limit + b.delta,
                   !.met = TRUE]
    ELSE [b EXCEPT !.limit = b.limit - b.delta, !.sampled = FALSE]

PowerSlack(b) == b.cap - b.limit

\* power_slack(): the trials get finer while there is no slack.
SlackRead(b) ==
    IF PowerSlack(b) # 0 THEN b
    ELSE [b EXCEPT !.delta = IF b.delta \div 2 < MinDelta THEN MinDelta ELSE b.delta \div 2]

=============================================================================
