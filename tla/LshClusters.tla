----------------------------- MODULE LshClusters -----------------------------
(***************************************************************************)
(* LshAlertClusterer: an alert's cluster is the cell its signed            *)
(* attributions fall in.  The seeded 128-bit hash of the cell is taken to  *)
(* be free of collisions, so that a bucket is named by its cell.           *)
(***************************************************************************)
EXTENDS Integers, Sequences, FiniteSets, Functions

CONSTANTS
  BucketsPerDim, AttrCap,  \* at least 2; at least 1
  Axes,
  Values,     \* signed attributions that may come, NonFinite among them
  NonFinite,
  MaxObs      \* bound on alerts between two clears, and on clears

VARIABLES
  buckets,   \* counts, of the cells seen since the last clear
  observed_total, joined_total, new_cluster_total,
  lost,      \* history: alerts in the buckets dropped by clear_buckets
  inputs     \* history: the alerts since the last clear

vars == <<buckets, observed_total, joined_total, new_cluster_total, lost, inputs>>

LshAssumption ==
  /\ BucketsPerDim \in Nat /\ BucketsPerDim >= 2 /\ AttrCap \in Nat \ {0}
  /\ Values \subseteq Int \cup {NonFinite} /\ NonFinite \notin Int
  /\ IsFiniteSet(Axes) /\ MaxObs \in Nat

Init ==
  /\ buckets = <<>> /\ inputs = <<>> /\ lost = 0
  /\ observed_total = 0 /\ joined_total = 0 /\ new_cluster_total = 0

Clamp(v, lo, hi) == IF v < lo THEN lo ELSE IF v > hi THEN hi ELSE v

Quantise(v) ==
  IF v = NonFinite THEN 0
  ELSE Clamp(((Clamp(v, -AttrCap, AttrCap) + AttrCap) * BucketsPerDim)
               \div (2 * AttrCap), 0, BucketsPerDim - 1)

\* hash_divector.
Cell(a) == [d \in Axes |-> Quantise(a[d])]

ClusterSize(h) == IF h \in DOMAIN buckets THEN buckets[h] ELSE 0

Observe ==
  /\ Len(inputs) < MaxObs
  /\ \E a \in [Axes -> Values] : LET h == Cell(a) IN
       /\ inputs' = Append(inputs, a)
       /\ buckets' = [g \in DOMAIN buckets \cup {h} |->
                        ClusterSize(g) + (IF g = h THEN 1 ELSE 0)]
       /\ IF ClusterSize(h) = 0
          THEN new_cluster_total' = new_cluster_total + 1 /\ UNCHANGED joined_total
          ELSE joined_total' = joined_total + 1 /\ UNCHANGED new_cluster_total
  /\ observed_total' = observed_total + 1
  /\ UNCHANGED lost

ClearBuckets ==
  /\ observed_total < 2 * MaxObs
  /\ buckets' = <<>> /\ inputs' = <<>>
  /\ lost' = lost + Len(inputs)
  /\ UNCHANGED <<observed_total, joined_total, new_cluster_total>>

Next == Observe \/ ClearBuckets

Spec == Init /\ [][Next]_vars

------------------------------------------------------------------------------
(* Properties.                                                              *)

\* v lies in cell b of the cells of equal width between -AttrCap and AttrCap,
\* values beyond the cap in the outermost.
InCell(v, b) ==
  /\ b > 0 => v * BucketsPerDim >= (2 * b - BucketsPerDim) * AttrCap
  /\ b < BucketsPerDim - 1 => v * BucketsPerDim < (2 * b + 2 - BucketsPerDim) * AttrCap

\* A cluster is exactly the alerts of one cell since the last clear, and the
\* lifetime counters account for every alert through any number of clears.
BucketsAreCells ==
  /\ \A h \in DOMAIN buckets :
       buckets[h] = Cardinality({i \in DOMAIN inputs : \A d \in Axes :
         IF inputs[i][d] = NonFinite THEN h[d] = 0 ELSE InCell(inputs[i][d], h[d])})
  /\ observed_total = lost + SumFunction(buckets)
  /\ observed_total = joined_total + new_cluster_total
  /\ new_cluster_total >= Cardinality(DOMAIN buckets)
------------------------------------------------------------------------------
(* What makes it so: the inductive invariant.                               *)

TypeOK ==
  /\ inputs \in Seq([Axes -> Values])
  /\ observed_total \in Nat /\ joined_total \in Nat /\ new_cluster_total \in Nat
  /\ lost \in Nat

\* A bucket counts the alerts of its cell.
CountInv ==
  /\ buckets = [h \in {Cell(inputs[i]) : i \in DOMAIN inputs} |->
                 Cardinality({i \in DOMAIN inputs : Cell(inputs[i]) = h})]
  /\ SumFunction(buckets) = Len(inputs)

TotalsInv ==
  /\ observed_total = lost + Len(inputs)
  /\ observed_total = joined_total + new_cluster_total
  /\ new_cluster_total >= Cardinality(DOMAIN buckets)

LshInv == TypeOK /\ CountInv /\ TotalsInv
=============================================================================
