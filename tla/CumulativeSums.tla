--------------------------- MODULE CumulativeSums ----------------------------
(***************************************************************************)
(* The two-sided cumulative sums: MetaDriftDetector, whose reference is a  *)
(* moving average of the scores, and PerFeatureCusum, whose reference is   *)
(* the first value or what the caller sets (one feature; features share    *)
(* nothing but the configuration).  Both watch one stream.                 *)
(*                                                                         *)
(* Abstractions: the moving average is any number between the extremes     *)
(* seen, its deviation any of Spreads unless all scores were equal         *)
(* (score_decay below one).  A score that is not finite changes nothing.   *)
(***************************************************************************)
EXTENDS Integers, Sequences, FiniteSetsExt, SequencesExt

CONSTANTS
  Values,
  Slack, Limit,    \* allowance and threshold; per unit of spread in the first
  MinObservations,
  Spreads,         \* deviations above zero
  MaxArrivals      \* bound: values since PerFeatureCusum was last reset

VARIABLES
  observations, low, high,  \* EmaStats: scores folded in, and their extremes
  s_high, s_low,
  s_pos, s_neg, reference, reference_set, drift_samples, total_samples,
  excess,  \* history: deviation and allowance of each score since a reset
  shifts   \* history: value less reference, since the last reset

metaVars == <<observations, low, high, s_high, s_low, excess>>
cusumVars == <<s_pos, s_neg, reference, reference_set, drift_samples,
               total_samples, shifts>>
vars == <<metaVars, cusumVars>>

SumsAssumption ==
  /\ Values \subseteq Int /\ Spreads \subseteq Int
  /\ Slack \in Int /\ Limit \in Int /\ MinObservations \in Nat

Init ==
  /\ observations = 0 /\ low = 0 /\ high = 0
  /\ s_high = 0 /\ s_low = 0 /\ excess = <<>>
  /\ s_pos = 0 /\ s_neg = 0 /\ reference = 0 /\ reference_set = FALSE
  /\ drift_samples = 0 /\ total_samples = 0 /\ shifts = <<>>

------------------------------------------------------------------------------

Raised(sum, dev) == Max({0, sum + dev})

\* EmaStats::update.
Folded(score) ==
  /\ observations' = observations + 1
  /\ low' = IF observations = 0 THEN score ELSE Min({low, score})
  /\ high' = IF observations = 0 THEN score ELSE Max({high, score})

\* MetaDriftDetector::observe: against the average before the score.
Observe(score) ==
  /\ Folded(score)
  /\ \/ /\ observations < MinObservations \/ low = high
        /\ UNCHANGED <<s_high, s_low, excess>>
     \/ /\ observations >= MinObservations /\ low # high
        /\ \E mean \in low..high, spread \in Spreads :
             LET dev == score - mean
                 k == Slack * spread
             IN /\ s_high' = Raised(s_high, dev - k)
                /\ s_low' = Raised(s_low, -dev - k)
                /\ excess' = Append(excess, [dev |-> dev, slack |-> k])

\* reset and reset_stats of MetaDriftDetector.
ResetSums ==
  /\ s_high' = 0 /\ s_low' = 0 /\ excess' = <<>>
  /\ UNCHANGED <<observations, low, high, cusumVars>>

ResetStats ==
  /\ s_high' = 0 /\ s_low' = 0 /\ excess' = <<>>
  /\ observations' = 0 /\ low' = 0 /\ high' = 0
  /\ UNCHANGED cusumVars

\* PerFeatureCusumAccumulator::update; the first value becomes the reference.
Update(value) ==
  \/ /\ ~reference_set
     /\ reference' = value /\ reference_set' = TRUE
     /\ UNCHANGED <<s_pos, s_neg, drift_samples, shifts>>
  \/ /\ reference_set
     /\ s_pos' = Raised(s_pos, value - reference - Slack)
     /\ s_neg' = Raised(s_neg, reference - value - Slack)
     /\ drift_samples' = IF s_pos' > Limit \/ s_neg' > Limit THEN drift_samples + 1 ELSE 0
     /\ shifts' = Append(shifts, [dev |-> value - reference, slack |-> Slack])
     /\ UNCHANGED <<reference, reference_set>>

SetReference(mean) ==
  /\ reference' = mean /\ reference_set' = TRUE
  /\ UNCHANGED <<s_pos, s_neg, drift_samples, total_samples, shifts, metaVars>>

Reset ==
  /\ s_pos' = 0 /\ s_neg' = 0 /\ reference' = 0 /\ reference_set' = FALSE
  /\ drift_samples' = 0 /\ total_samples' = 0 /\ shifts' = <<>>
  /\ UNCHANGED metaVars

ObserveFeature(value) ==
  /\ total_samples < MaxArrivals
  /\ Update(value) /\ total_samples' = total_samples + 1
  /\ UNCHANGED metaVars

ObserveScore(score) ==
  /\ observations < MaxArrivals
  /\ Observe(score) /\ UNCHANGED cusumVars

Next ==
  \/ \E v \in Values : ObserveFeature(v) \/ SetReference(v) \/ ObserveScore(v)
  \/ Reset \/ ResetSums \/ ResetStats

Spec == Init /\ [][Next]_vars

------------------------------------------------------------------------------
(* Properties.                                                              *)

\* The most a run of consecutive entries ending at the n-th lies above (sign 1)
\* or below (sign -1) its references, less the allowances.
WorstRun(path, n, sign) ==
  Max({0} \cup {SumFunction([i \in m..n |-> sign * path[i].dev - path[i].slack]) : m \in 1..n})

\* Whatever was reset, set or answered in between, a sum is the worst run since
\* its last reset, on its own side, each value against the reference it met;
\* and an alert's duration is the number of values in a row that alerted.
SumsAreWorstRuns ==
  /\ s_high = WorstRun(excess, Len(excess), 1)
  /\ s_low = WorstRun(excess, Len(excess), -1)
  /\ s_pos = WorstRun(shifts, Len(shifts), 1)
  /\ s_neg = WorstRun(shifts, Len(shifts), -1)
  /\ LET quiet == {n \in 1..Len(shifts) :
                     WorstRun(shifts, n, 1) <= Limit /\ WorstRun(shifts, n, -1) <= Limit}
     IN drift_samples = Len(shifts) - Max({0} \cup quiet)
=============================================================================
