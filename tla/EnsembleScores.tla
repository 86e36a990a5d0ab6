--------------------------- MODULE EnsembleScores ----------------------------
(***************************************************************************)
(* From the scores of the trees to the score of the forest: the fan-out    *)
(* that adds them up, the walk that may stop early, the two-pass estimate  *)
(* with its dispersion, and the trimmed mean.                              *)
(*                                                                         *)
(* A tree's score is a whole number every count of trees divides, so means *)
(* are exact; a tree without a leaf has none.                              *)
(***************************************************************************)
EXTENDS Integers, Sequences, FiniteSets, SequencesExt

CONSTANTS
  NumTrees, Scores,
  Empty,
  MinTrees,     \* EarlyTermConfig.min_trees, at least one
  Confidence,   \* confidence_threshold, as a ratio
  Trim          \* trim_fraction, as a ratio below one half

VARIABLES
  trees,        \* the score of each tree, or Empty; fixed
  partials,     \* score_aggregate: sums not yet reduced, in order of trees
  walked,       \* score_early_term: trees looked at
  n, mean, m2,
  early

vars == <<trees, partials, walked, n, mean, m2, early>>

\* The trees of a list that have a score.
Samples(list) == SelectSeq(list, LAMBDA x : x # Empty)

Sum(s) == FoldLeft(+, 0, s)

\* What the serial arm of score_aggregate adds for one tree.
Step(x) == IF x = Empty THEN [total |-> 0, count |-> 0] ELSE [total |-> x, count |-> 1]

Init ==
  /\ trees \in [1..NumTrees -> Scores \cup {Empty}]
  /\ partials = [i \in 1..NumTrees |-> Step(trees[i])]
  /\ walked = 0 /\ n = 0 /\ mean = 0 /\ m2 = 0 /\ early = FALSE

------------------------------------------------------------------------------

\* try_fold and try_reduce join neighbours in any order.
Reduce ==
  \E i \in 1..Len(partials) - 1 :
    /\ partials' = SubSeq(partials, 1, i - 1)
         \o <<[total |-> partials[i].total + partials[i + 1].total,
               count |-> partials[i].count + partials[i + 1].count]>>
         \o SubSeq(partials, i + 2, Len(partials))
    /\ UNCHANGED <<trees, walked, n, mean, m2, early>>

\* Mutant: both factors are the distance to the old mean.
SpreadFromOld(x, old, new) == (x - old) * (x - old)

Spread(x, old, new) == (x - old) * (x - new)

\* stderr / |mean| is below the threshold, squared.  With a mean of zero the
\* code divides by the least positive number.
Confident(count, avg, sq) ==
  /\ count >= MinTrees /\ count >= 2
  /\ \/ sq * Confidence[2] * Confidence[2]
          < Confidence[1] * Confidence[1] * avg * avg * count * (count - 1)
     \/ avg = 0 /\ sq = 0

\* One turn of score_early_term's loop.
Walk ==
  /\ walked < NumTrees /\ ~early
  /\ walked' = walked + 1
  /\ LET x == trees[walked'] IN
     \/ x = Empty /\ UNCHANGED <<n, mean, m2, early>>
     \/ /\ x # Empty
        /\ n' = n + 1
        /\ mean' = mean + (x - mean) \div n'
        /\ m2' = m2 + Spread(x, mean, mean')
        /\ early' = Confident(n', mean', m2')
  /\ UNCHANGED <<trees, partials>>

Next == Reduce \/ Walk

Spec == Init /\ [][Next]_vars

------------------------------------------------------------------------------

\* score_with_confidence: mean and squared deviations, in two passes.
WithConfidence(list) ==
  LET samples == Samples(list)
      avg == Sum(samples) \div Len(samples)
  IN [evaluated |-> Len(samples), mean |-> avg,
      sq |-> Sum([i \in DOMAIN samples |-> (samples[i] - avg) * (samples[i] - avg)])]

TrimCount(samples) == (Len(samples) * Trim[1]) \div Trim[2]

\* reduce_trimmed: what is averaged.
ReduceTrimmed(samples) ==
  SubSeq(SortSeq(samples, <), 1 + TrimCount(samples), Len(samples) - TrimCount(samples))

------------------------------------------------------------------------------
(* Properties.                                                              *)

\* At every turn the running mean and deviations are those the two-pass formula
\* gives for the trees looked at; the walk stops at the first of them that may
\* end it and is confident, and otherwise ends with the full answer; the fan-out
\* has it however the sums are joined.  The trimmed mean stays within the scores
\* of any all but TrimCount trees, whatever the others say.
AnswersAgree ==
  LET seen == SubSeq(trees, 1, walked)
      all == Samples(trees)
      kept == ReduceTrimmed(all)
  IN /\ n = Len(Samples(seen))
     /\ n > 0 => WithConfidence(seen) = [evaluated |-> n, mean |-> mean, sq |-> m2]
     /\ early <=> \E k \in 1..walked :
          /\ Samples(SubSeq(trees, 1, k)) # <<>>
          /\ LET w == WithConfidence(SubSeq(trees, 1, k))
             IN Confident(w.evaluated, w.mean, w.sq)
     /\ Len(partials) = 1 => partials[1] = [total |-> Sum(all), count |-> Len(all)]
     /\ \A honest \in SUBSET DOMAIN all :
          honest # {} /\ Len(all) - Cardinality(honest) <= TrimCount(all) =>
            /\ \E i \in honest : all[i] * Len(kept) <= Sum(kept)
            /\ \E i \in honest : all[i] * Len(kept) >= Sum(kept)
==============================================================================
