---------------------------- MODULE RangePrecision ----------------------------
(***************************************************************************)
(* VUS-PR: how well a recorded stream of scores finds labelled anomalies   *)
(* when a hit within `buffer` positions counts.  Each buffer size is swept *)
(* score by score, highest first, and the area under its curve is summed   *)
(* on the way.  Precision and recall are fractions of counts; an area is   *)
(* kept in units of 1 / (2 * Scale * number of labels).                    *)
(***************************************************************************)
EXTENDS Integers, Sequences, SequencesExt, FiniteSets

CONSTANTS
  Length,     \* positions of the stream
  Levels,     \* scores
  MaxBuffer,  \* max_buffer
  Scale       \* a multiple of 1..Length, to divide by

Positions == 1..Length

VARIABLES
  scores, labels,   \* the input: labels is the set of the true ones
  buffer, areas,    \* the size being swept; per_l, the areas so far
  emitted, covered, \* predictions made; true positions they have met
  precision_tp,     \* predictions that lie in the inflated mask
  auc               \* the area being summed

input == <<scores, labels>>
sweep == <<emitted, covered, precision_tp, auc>>
vars  == <<input, buffer, areas, sweep>>

\* order: by descending score; sort_by is stable.
Order ==
  SetToSortSeq(Positions,
    LAMBDA p, q : scores[p] > scores[q] \/ (scores[p] = scores[q] /\ p < q))

\* saturating_sub and min(n - 1).
LowEnd(p)  == IF p - buffer < 1 THEN 1 ELSE p - buffer
HighEnd(p) == IF p + buffer > Length THEN Length ELSE p + buffer

\* The running count of labels that dilate looks windows up in.
Cumsum ==
  LET c[i \in 0..Length] ==
        IF i = 0 THEN 0 ELSE c[i - 1] + (IF i \in labels THEN 1 ELSE 0)
  IN  c

Inflated(p) == Cumsum[HighEnd(p)] > Cumsum[LowEnd(p) - 1]

\* The curve starts at precision 1.
Precision(tp, n) == IF n = 0 THEN Scale ELSE (tp * Scale) \div n

Init ==
  /\ scores \in [Positions -> Levels]
  /\ labels \in SUBSET Positions \ {{}}
  /\ buffer = 0 /\ areas = <<>>
  /\ emitted = 0 /\ covered = {} /\ precision_tp = 0 /\ auc = 0

\* The next prediction in the order: what it covers, and its strip of the area.
Emit ==
  /\ buffer <= MaxBuffer /\ emitted < Length
  /\ LET p == Order[emitted + 1] IN
       /\ emitted' = emitted + 1
       /\ precision_tp' = IF Inflated(p) THEN precision_tp + 1 ELSE precision_tp
       /\ covered' = covered \cup ((LowEnd(p)..HighEnd(p)) \cap labels)
       /\ auc' = auc + (Cardinality(covered') - Cardinality(covered))
                         * (Precision(precision_tp, emitted)
                              + Precision(precision_tp', emitted'))
  /\ UNCHANGED <<input, buffer, areas>>

NextBuffer ==
  /\ buffer <= MaxBuffer /\ emitted = Length
  /\ areas' = Append(areas, auc)
  /\ buffer' = buffer + 1
  /\ emitted' = 0 /\ covered' = {} /\ precision_tp' = 0 /\ auc' = 0
  /\ UNCHANGED input

Next == Emit \/ NextBuffer

Spec == Init /\ [][Next]_vars

------------------------------------------------------------------------------
Near(p, q) == p - q <= buffer /\ q - p <= buffer

Predicted == {Order[i] : i \in 1..emitted}

\* Every labelled position is scored above every other.
Perfect == \A p \in labels, q \in Positions \ labels : scores[p] > scores[q]

\* Each point of a curve counts, by definition, the labels that some prediction
\* is near and the predictions that some label is near; the sweep ends with all
\* labels found, an area is at most one, and one at every buffer size for a
\* ranking without a mistake.
CurveCountsHits ==
  /\ buffer <= MaxBuffer =>
       /\ covered = {q \in labels : \E p \in Predicted : Near(p, q)}
       /\ precision_tp = Cardinality({p \in Predicted : \E q \in labels : Near(p, q)})
       /\ auc <= 2 * Scale * Cardinality(covered)
       /\ emitted = Length => covered = labels
  /\ Perfect => \A l \in 1..Len(areas) : areas[l] = 2 * Scale * Cardinality(labels)
=============================================================================
