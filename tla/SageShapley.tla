----------------------------- MODULE SageShapley -----------------------------
(***************************************************************************)
(* SageEstimator::explain: for each permutation, drawn by a Fisher-Yates   *)
(* shuffle, the probe's dimensions join the baseline one by one, and each  *)
(* is credited with the change of the score.  The forest is any function   *)
(* of the set of dimensions taken from the probe.                          *)
(***************************************************************************)
EXTENDS Integers, FiniteSets, Functions

CONSTANTS
  Dimension,     \* D, at least one
  Scores,        \* scores a forest may give
  Draws          \* permutations per call

Dims == 1..Dimension

SageAssumption == Dimension \in Nat \ {0} /\ Scores \subseteq Int /\ Draws \in Nat

VARIABLES
  score,    \* the forest: a score for each set of joined dimensions
  order,    \* the permutation being drawn or walked
  swap_at,  \* the position to be swapped next; 1 when the shuffle is over
  joined, prev_score, shapley,
  runs      \* permutations finished

vars == <<score, order, swap_at, joined, prev_score, shapley, runs>>

Identity == [i \in Dims |-> i]

Init ==
  /\ score \in [SUBSET Dims -> Scores]
  /\ order = Identity /\ swap_at = Dimension
  /\ joined = {} /\ prev_score = score[{}]
  /\ shapley = [d \in Dims |-> 0] /\ runs = 0

Shuffle ==
  /\ runs < Draws /\ swap_at > 1
  /\ \E j \in 1..swap_at :
       order' = [order EXCEPT ![swap_at] = order[j], ![j] = order[swap_at]]
  /\ swap_at' = swap_at - 1
  /\ UNCHANGED <<score, joined, prev_score, shapley, runs>>

\* Mutant: compares with the baseline instead of the coalition before.
WalkFromBaseline ==
  /\ runs < Draws /\ swap_at = 1 /\ joined # Dims
  /\ LET d == order[Cardinality(joined) + 1] IN
       /\ joined' = joined \cup {d}
       /\ shapley' = [shapley EXCEPT ![d] = @ + score[joined'] - score[{}]]
       /\ prev_score' = score[joined']
  /\ UNCHANGED <<score, order, swap_at, runs>>

Walk ==
  /\ runs < Draws /\ swap_at = 1 /\ joined # Dims
  /\ LET d == order[Cardinality(joined) + 1] IN
       /\ joined' = joined \cup {d}
       /\ shapley' = [shapley EXCEPT ![d] = @ + score[joined'] - prev_score]
       /\ prev_score' = score[joined']
  /\ UNCHANGED <<score, order, swap_at, runs>>

NextPermutation ==
  /\ joined = Dims
  /\ joined' = {} /\ prev_score' = score[{}]
  /\ order' = Identity /\ swap_at' = Dimension
  /\ runs' = runs + 1
  /\ UNCHANGED <<score, shapley>>

Next == Shuffle \/ Walk \/ NextPermutation

Spec == Init /\ [][Next]_vars

------------------------------------------------------------------------------
(* Properties.                                                              *)

\* The credits of the finished permutations add up to the difference between
\* probe and baseline, exactly, whatever was drawn, and a dimension the score
\* never depends on gets none.
CreditsAddUp ==
  /\ SumFunction(shapley) = runs * (score[Dims] - score[{}]) + score[joined] - score[{}]
  /\ \A d \in Dims :
       (\A S \in SUBSET Dims : score[S \cup {d}] = score[S]) => shapley[d] = 0
------------------------------------------------------------------------------
(* What makes it so: the inductive invariant.                               *)

TypeOK ==
  /\ score \in [SUBSET Dims -> Scores] /\ order \in [Dims -> Dims]
  /\ swap_at \in Dims /\ joined \subseteq Dims
  /\ shapley \in [Dims -> Int] /\ runs \in Nat

SageInv == TypeOK /\ prev_score = score[joined] /\ CreditsAddUp
=============================================================================
