-------------------------- MODULE FrequencySketches --------------------------
(***************************************************************************)
(* The two summaries of how often a key came, SpaceSaving and              *)
(* CountMinSketch, on one stream of weighted keys.  They share nothing;    *)
(* either is compared with the true counts.  The u64 counters saturate     *)
(* only past any stream, and do not here.                                  *)
(***************************************************************************)
EXTENDS Integers, FiniteSets, FiniteSetsExt, Functions

CONSTANTS
  Keys,
  Capacity,    \* of SpaceSaving, at least one
  Rows, Width, \* depth and width of the sketch; at least one
  MaxTotal     \* bound: weight of the stream since the last reset

VARIABLES
  counts,  \* SpaceSaving: estimate and error of the keys tracked
  total,   \* of either summary
  col,     \* hash_to_col: what the hashes make of a row and a key
  table,   \* CountMinSketch: a counter for each row and column
  truth    \* history: the weight of each key

vars == <<counts, total, col, table, truth>>

FrequencyAssumption ==
  /\ IsFiniteSet(Keys) /\ Capacity \in Nat \ {0} /\ Width \in Nat \ {0}
  /\ MaxTotal \in Nat

Cols == 0..Width-1

Init ==
  /\ counts = <<>> /\ total = 0
  /\ col \in [Rows \X Keys -> Cols]
  /\ table = [cell \in Rows \X Cols |-> 0]
  /\ truth = [k \in Keys |-> 0]

------------------------------------------------------------------------------

Tracked == DOMAIN counts

\* Mutant: the newcomer's count is taken for exact.
BoostedExact(min, weight) == [estimate |-> min.estimate + weight, error |-> 0]

\* The entry of a newcomer that takes over the entry min.
Boosted(min, weight) ==
  [estimate |-> min.estimate + weight, error |-> min.estimate]

\* observe_weighted; among equal minima the hash map's order decides.
Observe(key, weight) ==
  \/ /\ key \in Tracked
     /\ counts' = [counts EXCEPT ![key].estimate = @ + weight]
  \/ /\ key \notin Tracked /\ Cardinality(Tracked) < Capacity
     /\ counts' = [k \in Tracked \cup {key} |->
          IF k = key THEN [estimate |-> weight, error |-> 0] ELSE counts[k]]
  \/ /\ key \notin Tracked /\ Cardinality(Tracked) >= Capacity
     /\ \E min \in Tracked :
          /\ \A k \in Tracked : counts[min].estimate <= counts[k].estimate
          /\ counts' = [k \in (Tracked \ {min}) \cup {key} |->
               IF k = key THEN Boosted(counts[min], weight) ELSE counts[k]]

\* increment.
Increment(key, weight) ==
  table' = [cell \in Rows \X Cols |->
    table[cell] + (IF col[<<cell[1], key>>] = cell[2] THEN weight ELSE 0)]

Arrive ==
  \E key \in Keys, weight \in 1..(MaxTotal - total) :
    /\ Observe(key, weight) /\ Increment(key, weight)
    /\ total' = total + weight
    /\ truth' = [truth EXCEPT ![key] = @ + weight]
    /\ UNCHANGED col

\* SpaceSaving drops a weight of zero; the sketch adds it.
ArriveWeightless == UNCHANGED vars

Reset ==
  /\ counts' = <<>> /\ total' = 0
  /\ table' = [cell \in Rows \X Cols |-> 0]
  /\ truth' = [k \in Keys |-> 0]
  /\ UNCHANGED col

Next == Arrive \/ ArriveWeightless \/ Reset

Spec == Init /\ [][Next]_vars

\* estimate of the sketch, and error_bound of SpaceSaving.
Estimate(key) == Min({table[<<r, col[<<r, key>>]>>] : r \in Rows})
ErrorBound == total \div Capacity

------------------------------------------------------------------------------
(* Properties.                                                              *)

\* SpaceSaving: the estimate of a tracked key brackets the truth, with an error
\* within the bound; every key above the bound is tracked, however long the
\* churn; the estimates add up to the stream.  The sketch: an estimate is never
\* below the truth nor above what the colliding keys weigh together.
EstimatesBracketTruth ==
  /\ \A k \in Tracked :
       /\ truth[k] \in (counts[k].estimate - counts[k].error)..counts[k].estimate
       /\ counts[k].error <= ErrorBound
  /\ \A k \in Keys : truth[k] > ErrorBound => k \in Tracked
  /\ SumFunction([k \in Tracked |-> counts[k].estimate]) = total
  /\ \A k \in Keys, r \in Rows :
       LET met == {j \in Keys : col[<<r, j>>] = col[<<r, k>>]} IN
       Estimate(k) \in truth[k]..SumFunction([j \in met |-> truth[j]])
------------------------------------------------------------------------------
(* What makes it so: the inductive invariant.                               *)

TypeOK ==
  /\ Tracked \subseteq Keys /\ Cardinality(Tracked) <= Capacity
  /\ counts \in [Tracked -> [estimate : Nat, error : Nat]]
  /\ total \in Nat /\ truth \in [Keys -> Nat]
  /\ col \in [Rows \X Keys -> Cols] /\ table \in [Rows \X Cols -> Nat]

\* A key without an entry came no oftener than any entry says, and not at all
\* while there is room.
EntriesInv ==
  /\ \A k \in Tracked :
       /\ truth[k] \in (counts[k].estimate - counts[k].error)..counts[k].estimate
       /\ Capacity * counts[k].error <= total
  /\ \A k \in Keys \ Tracked :
       /\ \A j \in Tracked : truth[k] <= counts[j].estimate
       /\ Cardinality(Tracked) < Capacity => truth[k] = 0
  /\ SumFunction([k \in Tracked |-> counts[k].estimate]) = total

\* A cell holds what the keys hashed to it weigh.
CellsInv ==
  \A r \in Rows, c \in Cols :
    table[<<r, c>>] = SumFunction([j \in {i \in Keys : col[<<r, i>>] = c} |-> truth[j]])

FrequencyInv == TypeOK /\ EntriesInv /\ CellsInv
=============================================================================
