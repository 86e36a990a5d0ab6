-------------------------- MODULE QuantileSketches ---------------------------
(***************************************************************************)
(* The two summaries of a distribution, ScoreHistogram and TDigest, on one *)
(* stream of integer values, and the quantiles read off them.  A centroid  *)
(* is its weight and the sum of what it stands for.  Which neighbours the  *)
(* digest's scale function lets one centroid absorb is left open.          *)
(***************************************************************************)
EXTENDS Integers, Sequences, FiniteSets, SequencesExt

CONSTANTS
  Lowest, Highest, BinCount,  \* config.min < config.max, and at least one bin
  Values,      \* finite values that come, on both sides of the range
  Threshold,   \* length at which the digest's buffer is flushed
  Others,      \* summaries other collectors send, of the same shape
  Steps,       \* quantiles are read at the multiples of 1 / Steps
  MaxRecorded  \* bound: values recorded or merged since the last reset

VARIABLES
  bins, underflow, overflow, non_finite,
  centroids, buffer, total_weight, min, max,
  recorded     \* history: the values recorded, here or by a merged collector

vars == <<bins, underflow, overflow, non_finite, centroids, buffer,
          total_weight, min, max, recorded>>

Infinite == 1000000

Init ==
  /\ bins = [i \in 1..BinCount |-> 0]
  /\ underflow = 0 /\ overflow = 0 /\ non_finite = 0
  /\ centroids = <<>> /\ buffer = <<>> /\ total_weight = 0
  /\ min = Infinite /\ max = -Infinite
  /\ recorded = <<>>

------------------------------------------------------------------------------
(* The histogram.                                                           *)

BinOf(v) == Min({BinCount, 1 + ((v - Lowest) * BinCount) \div (Highest - Lowest)})

Binned(v) ==
  \/ /\ v < Lowest /\ underflow' = underflow + 1 /\ UNCHANGED <<bins, overflow>>
  \/ /\ v >= Highest /\ overflow' = overflow + 1 /\ UNCHANGED <<bins, underflow>>
  \/ /\ v >= Lowest /\ v < Highest
     /\ bins' = [bins EXCEPT ![BinOf(v)] = @ + 1]
     /\ UNCHANGED <<underflow, overflow>>

------------------------------------------------------------------------------
(* The digest.                                                              *)

Single(v) == [sum |-> v, weight |-> 1]
NotAbove(c, d) == c.sum * d.weight <= d.sum * c.weight

\* Centroids and values in one list, by mean.
Combined(cs, vs) ==
  SortSeq(cs \o [i \in DOMAIN vs |-> Single(vs[i])],
          LAMBDA c, d : NotAbove(c, d) /\ ~NotAbove(d, c))

Joined(c, d) == [sum |-> c.sum + d.sum, weight |-> c.weight + d.weight]

\* The outcomes of flush_buffer: neighbours are joined but where one is sealed.
Flushed(cs, vs) ==
  IF vs = <<>> THEN {cs}
  ELSE LET all == Combined(cs, vs)
           From(ends, i) == IF i = 1 THEN 1 ELSE ends[i - 1] + 1
           Runs(ends) == [i \in DOMAIN ends |->
             FoldLeft(Joined, all[From(ends, i)], SubSeq(all, From(ends, i) + 1, ends[i]))]
       IN  {Runs(SetToSortSeq(sealed \cup {Len(all)}, <)) : sealed \in SUBSET (1..Len(all) - 1)}

Weight(cs) == FoldLeft(LAMBDA w, c : w + c.weight, 0, cs)

Record ==
  \E v \in Values :
    /\ Len(recorded) < MaxRecorded
    /\ recorded' = Append(recorded, v)
    /\ Binned(v) /\ UNCHANGED non_finite
    /\ min' = Min({min, v}) /\ max' = Max({max, v})
    /\ IF Len(buffer) + 1 >= Threshold
       THEN /\ centroids' \in Flushed(centroids, Append(buffer, v))
            /\ buffer' = <<>> /\ total_weight' = Weight(centroids')
       ELSE buffer' = Append(buffer, v) /\ UNCHANGED <<centroids, total_weight>>

\* The histogram counts it, the digest ignores it.
RecordNonFinite ==
  /\ non_finite < 1 /\ non_finite' = non_finite + 1
  /\ UNCHANGED <<bins, underflow, overflow, centroids, buffer, total_weight,
                 min, max, recorded>>

\* flush, and every quantile.
Flush ==
  /\ centroids' \in Flushed(centroids, buffer)
  /\ buffer' = <<>> /\ total_weight' = Weight(centroids')
  /\ UNCHANGED <<bins, underflow, overflow, non_finite, min, max, recorded>>

\* A centroid of a merged digest comes as copies of its mean.
Copies(o) ==
  FlattenSeq([i \in DOMAIN o.centroids |->
    [j \in 1..o.centroids[i].weight |-> o.centroids[i].sum \div o.centroids[i].weight]])
  \o o.buffer

\* merge, which flushes before and after it takes them.
Merge ==
  \E o \in Others :
    /\ Len(recorded) + Len(o.recorded) <= MaxRecorded
    /\ recorded' = recorded \o o.recorded
    /\ \E own \in Flushed(centroids, buffer) : centroids' \in Flushed(own, Copies(o))
    /\ buffer' = <<>> /\ total_weight' = Weight(centroids')
    /\ min' = Min({min, o.min}) /\ max' = Max({max, o.max})
    /\ bins' = [i \in DOMAIN bins |-> bins[i] + o.bins[i]]
    /\ underflow' = underflow + o.underflow /\ overflow' = overflow + o.overflow
    /\ UNCHANGED non_finite

Reset ==
  /\ bins' = [i \in 1..BinCount |-> 0]
  /\ underflow' = 0 /\ overflow' = 0 /\ non_finite' = 0
  /\ centroids' = <<>> /\ buffer' = <<>> /\ total_weight' = 0
  /\ min' = Infinite /\ max' = -Infinite
  /\ recorded' = <<>>

Next == Record \/ RecordNonFinite \/ Flush \/ Merge \/ Reset

Spec == Init /\ [][Next]_vars

------------------------------------------------------------------------------
(* Reading quantiles, i / Steps of the way; a fraction is [n |-> , d |-> ].  *)

Frac(n, d) == [n |-> n, d |-> d]
AtMost(x, y) == x.n * y.d <= y.n * x.d

\* percentile, in bins above Lowest, when some value is in a bin.
Percentile(i) ==
  LET cum[b \in 0..BinCount] == IF b = 0 THEN 0 ELSE cum[b - 1] + bins[b]
      target == i * cum[BinCount]
      b == Min({j \in 1..BinCount : bins[j] > 0 /\ target <= Steps * cum[j]})
  IN  Frac((b - 1) * Steps * bins[b] + Max({0, target - Steps * cum[b - 1]}),
           Steps * bins[b])

\* The points quantile interpolates between: the minimum, the middles of the
\* centroids, the maximum.  "at" counts twice the weight to the left.
Anchors ==
  LET before[k \in 0..Len(centroids)] ==
        IF k = 0 THEN 0 ELSE before[k - 1] + centroids[k].weight
  IN  <<[at |-> 0, mean |-> Frac(min, 1)]>>
      \o [k \in DOMAIN centroids |->
           [at |-> 2 * before[k - 1] + centroids[k].weight,
            mean |-> Frac(centroids[k].sum, centroids[k].weight)]]
      \o <<[at |-> 2 * total_weight, mean |-> Frac(max, 1)]>>

Between(p, q, target) ==
  LET part == target - Steps * p.at
      span == Steps * (q.at - p.at)
  IN  Frac(p.mean.n * q.mean.d * span + part * (q.mean.n * p.mean.d - p.mean.n * q.mean.d),
           p.mean.d * q.mean.d * span)

\* quantile of a flushed digest; left of a single value it is that value.
Quantile(i) ==
  LET target == 2 * i * total_weight
      k == Max({j \in 1..Len(Anchors) - 1 : Steps * Anchors[j].at <= target})
  IN  IF i = 0 THEN Frac(min, 1)
      ELSE IF i = Steps THEN Frac(max, 1)
      ELSE IF k = 1 /\ centroids[1].weight = 1 THEN Anchors[2].mean
      ELSE Between(Anchors[k], Anchors[k + 1], target)

------------------------------------------------------------------------------
(* Properties.                                                              *)

Total(vs) == FoldLeft(+, 0, vs)

\* However values, flushes and merged digests come: every value is in exactly
\* the bin whose edges enclose it; the centroids stay sorted, weigh as much as
\* the values and have their sum, the extremes are exact, and a higher quantile
\* is never a smaller value, of the digest or of the histogram.
QuantilesInOrder ==
  /\ \A i \in 1..BinCount :
       bins[i] = Cardinality({k \in DOMAIN recorded : LET v == BinCount * (recorded[k] - Lowest) IN
         v >= (i - 1) * (Highest - Lowest) /\ v < i * (Highest - Lowest)})
  /\ underflow + overflow + FoldFunction(+, 0, bins) = Len(recorded)
  /\ Weight(centroids) = total_weight /\ total_weight + Len(buffer) = Len(recorded)
  /\ FoldLeft(LAMBDA t, c : t + c.sum, 0, centroids) + Total(buffer) = Total(recorded)
  /\ \A i \in 2..Len(centroids) : NotAbove(centroids[i - 1], centroids[i])
  /\ recorded # <<>> => min = Min(ToSet(recorded)) /\ max = Max(ToSet(recorded))
  /\ \A i \in 1..Steps :
       /\ centroids # <<>> /\ buffer = <<>> => AtMost(Quantile(i - 1), Quantile(i))
       /\ (\E b \in 1..BinCount : bins[b] > 0) => AtMost(Percentile(i - 1), Percentile(i))
=============================================================================
