------------------------- MODULE ThresholdedForest --------------------------
(***************************************************************************)
(* The adaptive-threshold detector as a value: what decides whether its    *)
(* grades are ready, and what each call makes of it.  A point is scored    *)
(* against the forest before it enters it, and the score feeds the moving  *)
(* average and the digest that the next threshold is read from.            *)
(*                                                                         *)
(* Numbers are reduced to what readiness tells apart: whether any tree     *)
(* holds a leaf, how many scores were recorded (up to the number that      *)
(* matters), whether their deviation is above zero, whether the digest has *)
(* weight.  `fed` is a history field: the points accepted since the        *)
(* detector was built.                                                     *)
(***************************************************************************)
EXTENDS Naturals

CONSTANTS
  MinObservations,  \* ThresholdedConfig.min_observations
  MaxReplay         \* bound: points in one bootstrap

ASSUME ReadinessAssumption == MinObservations \in Nat /\ MaxReplay \in Nat

Modes == {"zsigma", "quantile"}

\* Counters are not followed past this: nothing tells larger ones apart.
Enough == IF MinObservations < 2 THEN 3 ELSE MinObservations + 1

UpTo(n) == IF n > Enough THEN Enough ELSE n

Detector ==
  [mode : Modes, stored : BOOLEAN, observations : 0..Enough,
   spread : BOOLEAN, digest : BOOLEAN, fed : 0..Enough]

\* from_parts on a forest just built.
FromParts(m) ==
  [mode |-> m, stored |-> FALSE, observations |-> 0,
   spread |-> FALSE, digest |-> FALSE, fed |-> 0]

\* The first score is the mean and leaves the variance at zero; a later one
\* raises it when it differs from the mean.  With score_decay = 1 none does.
RecordScore(d, differs) ==
  [d EXCEPT !.observations = UpTo(@ + 1),
            !.spread = d.observations > 0 /\ (differs \/ @),
            !.digest = TRUE]

Accepted(d) == [d EXCEPT !.fed = UpTo(@ + 1)]

\* Mutant: the warming-up verdict's zero score is recorded.
ColdStartRecords(d) ==
  {[RecordScore(Accepted(d), FALSE) EXCEPT !.stored = s] : s \in BOOLEAN}

\* A point that finds no leaf to be scored against is inserted only, and the
\* warm-up gates of the samplers may still turn it away in every tree.
ColdStart(d) == {[Accepted(d) EXCEPT !.stored = s] : s \in BOOLEAN}

\* The detectors `process` may leave behind on a finite point.
Processed(d) ==
  IF d.stored THEN {RecordScore(Accepted(d), differs) : differs \in BOOLEAN}
              ELSE ColdStart(d)

\* ... and `bootstrap`, on a history of which n points are finite.
Bootstrapped(d, n) ==
  LET after[i \in 0..MaxReplay] ==
        IF i = 0 THEN {d} ELSE UNION {Processed(x) : x \in after[i - 1]}
  IN  after[n]

\* A retraction takes points out of the forest and leaves the statistics.
Retracted(d) == {d, [d EXCEPT !.stored = FALSE]}

ResetStats(d) == [d EXCEPT !.observations = 0, !.spread = FALSE, !.digest = FALSE]

\* Whether score_only gives a grade that is ready.
GradeReady(d) ==
  /\ d.stored
  /\ d.observations >= MinObservations
  /\ d.mode = "zsigma" => d.spread
  /\ d.mode = "quantile" => d.digest

\* A score is recorded of a point that found another stored, so the points
\* accepted are ahead of the scores; and a spread takes two scores.
Warm(d) ==
  /\ d \in Detector
  /\ d.stored \/ d.observations > 0 => d.fed >= UpTo(d.observations + 1)
  /\ d.spread => d.observations >= 2
=============================================================================
