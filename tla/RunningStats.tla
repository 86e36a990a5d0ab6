---------------------------- MODULE RunningStats ----------------------------
(***************************************************************************)
(* Means and deviations kept in one pass: Welford's accumulator, alone and *)
(* over what the reservoirs of a forest hold, the moving average of one    *)
(* feature that judges each point by the points before it, and the ranges  *)
(* fitted to recorded samples.                                             *)
(*                                                                         *)
(* Values are multiples that every division here leaves whole; a deviation *)
(* stands by its square, and alpha is one half.                            *)
(***************************************************************************)
EXTENDS Integers, Sequences, SequencesExt, FiniteSetsExt

CONSTANTS
  Values, WarmUp,  \* PerFeatureEwmaConfig.warmup_samples
  Boundless,       \* a score of f64::MAX
  Unjudged,        \* no result
  MaxArrivals      \* bound: values observed

VARIABLES
  arrived,  \* history: all values
  stats,    \* OnlineStats
  average,  \* EwmaAccumulator of the feature
  samples,  \* PerFeatureEwma.total_samples
  verdict,  \* what the last `observe` returned
  stretch   \* history: values since the last reset

vars == <<arrived, stats, average, samples, verdict, stretch>>

Power[k \in 0..MaxArrivals] == IF k = 0 THEN 1 ELSE 2 * Power[k - 1]

\* Values lie so far apart that a deviation, which a step may halve, is never
\* rounded away.
RunningAssumption ==
  /\ Values \subseteq Int /\ WarmUp \in Nat /\ MaxArrivals \in Nat
  /\ \A v, w \in Values : v # w => (v - w) * (v - w) >= 2 * Power[MaxArrivals]
  /\ Unjudged # Boundless /\ Unjudged \notin Int \X Int /\ Boundless \notin Int \X Int

NewStats == [count |-> 0, mean |-> 0, m2 |-> 0]
NewAverage == [mean |-> 0, variance |-> 0, count |-> 0]

Init ==
  /\ arrived = <<>> /\ stretch = <<>>
  /\ stats = NewStats /\ average = NewAverage
  /\ samples = 0 /\ verdict = Unjudged

\* OnlineStats::update: the second factor is taken about the new mean.
Welford(s, v) ==
  LET delta == v - s.mean
      mean  == s.mean + delta \div (s.count + 1)
  IN  [count |-> s.count + 1, mean |-> mean, m2 |-> s.m2 + delta * (v - mean)]

\* EwmaAccumulator::update.
Ewma(a, v) ==
  IF a.count = 0 THEN [mean |-> v, variance |-> 0, count |-> 1]
  ELSE LET diff == v - a.mean
       IN  [mean |-> (v + a.mean) \div 2,
            variance |-> (diff * diff + a.variance) \div 2,
            count |-> a.count + 1]

\* z_score, squared: a ratio.
ZScore(a, v) ==
  LET diff == v - a.mean
  IN  IF a.variance > 0 THEN <<diff * diff, a.variance>>
      ELSE IF diff = 0 THEN <<0, 1>> ELSE Boundless

Observe(v) ==
  /\ Len(arrived) < MaxArrivals
  /\ stats' = Welford(stats, v)
  /\ verdict' = IF samples >= WarmUp THEN ZScore(average, v) ELSE Unjudged
  /\ average' = Ewma(average, v)
  /\ samples' = samples + 1
  /\ arrived' = Append(arrived, v) /\ stretch' = Append(stretch, v)

Reset ==
  /\ average' = NewAverage /\ samples' = 0
  /\ verdict' = Unjudged /\ stretch' = <<>>
  /\ UNCHANGED <<arrived, stats>>

Next == (\E v \in Values : Observe(v)) \/ Reset

Spec == Init /\ [][Next]_vars

------------------------------------------------------------------------------
(* Over what is stored: slot i holds the value arrived[i].                  *)

\* forensic_baseline: a slot counts once, however many samplers hold it.
ForensicBaseline(held) ==
  FoldLeft(LAMBDA acc, i : IF \E t \in DOMAIN held : i \in held[t]
                           THEN Welford(acc, arrived[i]) ELSE acc,
           NewStats, [i \in DOMAIN arrived |-> i])

\* Normalizer::fit, in two passes.  `dev` is the sum of squares about the mean.
Fit(xs) ==
  LET mean == FoldLeft(LAMBDA acc, x : acc + x, 0, xs) \div Len(xs)
  IN  [mean |-> mean, min |-> Min(ToSet(xs)), max |-> Max(ToSet(xs)),
       dev |-> FoldLeft(LAMBDA acc, x : acc + (x - mean) * (x - mean), 0, xs)]

\* transform under MinMax: a ratio, clamped to the fitted range.
MinMax(p, x) ==
  IF p.min = p.max THEN <<1, 2>>
  ELSE <<IF x < p.min THEN 0 ELSE IF x > p.max THEN p.max - p.min ELSE x - p.min,
         p.max - p.min>>

------------------------------------------------------------------------------
Sum(xs) == FoldLeft(LAMBDA acc, x : acc + x, 0, xs)

\* About the mean, times the number of values.
Scatter(xs) ==
  Len(xs) * Sum([i \in DOMAIN xs |-> xs[i] * xs[i]]) - Sum(xs) * Sum(xs)

Describes(s, xs) ==
  s.count = Len(xs) /\ s.mean * Len(xs) = Sum(xs) /\ s.m2 * Len(xs) = Scatter(xs)

Constant(xs) == Cardinality(ToSet(xs)) <= 1

\* The one pass gives what two passes over the same values give; a baseline
\* takes each stored point once, whichever trees share it; a fitted feature
\* goes onto the whole of the unit range in the order of its values.
OnePassIsTwo ==
  /\ Describes(stats, arrived)
  /\ \A held \in [1..2 -> SUBSET DOMAIN arrived] :
       Describes(ForensicBaseline(held),
                 SelectSeq([i \in DOMAIN arrived |-> IF i \in held[1] \cup held[2]
                                                     THEN arrived[i] ELSE -1],
                           LAMBDA x : x # -1))
  /\ arrived # <<>> => LET p == Fit(arrived) IN
       /\ p.dev * Len(arrived) = Scatter(arrived)
       /\ ~Constant(arrived) =>
            /\ {0, p.max - p.min} \subseteq {MinMax(p, x)[1] : x \in Values}
            /\ \A x, y \in Values : x <= y => MinMax(p, x)[1] <= MinMax(p, y)[1]

\* A point is judged from the warm-up on, by the points before it since the
\* last reset: without bound exactly when they were all alike and it is not.
JudgedByItsPast ==
  stretch # <<>> =>
    LET past == SubSeq(stretch, 1, Len(stretch) - 1)
        last == stretch[Len(stretch)]
    IN  /\ (verdict = Unjudged) = (Len(past) < WarmUp)
        /\ verdict # Unjudged /\ past # <<>> =>
             /\ (verdict = Boundless) = (Constant(past) /\ last # past[1])
             /\ ~Constant(past) => verdict[2] > 0
        /\ average.variance = 0 <=> Constant(stretch)
=============================================================================
