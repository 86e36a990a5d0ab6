---------------------------- MODULE MatrixProfile ----------------------------
(***************************************************************************)
(* The matrix profile of a recorded series: for each window of it the      *)
(* nearest other window, found row by row with one column of dot products  *)
(* that is carried along its diagonals.                                    *)
(*                                                                         *)
(* Values are integers.  Sums stand for means and deviations (Window times *)
(* the mean, Window squared times the variance), and a distance for the    *)
(* correlation it falls with, a fraction of a signed square (CorrAbove).   *)
(***************************************************************************)
EXTENDS Integers, Sequences, SequencesExt, FiniteSetsExt

CONSTANTS
  Values, Length,  \* the series: values, and how many of them
  Window,          \* MatrixProfile.window
  Exclusion,       \* MatrixProfile.exclusion_zone
  Far              \* a distance of f64::INFINITY

Count == Length - Window + 1    \* subseq_n
Starts == 1..Count

VARIABLES
  series, row,     \* the input; rows folded so far (j)
  sums,            \* per window: the sum of its values and of their squares
  qt,              \* dot products of each window with window j
  profile, index   \* per window: nearest distance so far, and whose it is

vars == <<series, row, sums, qt, profile, index>>

\* sliding_stats, carried from window to window.
SlidingStats ==
  LET s[i \in Starts] ==
        IF i = 1 THEN [sum |-> SumFunction([k \in 1..Window |-> series[k]]),
                       squares |-> SumFunction([k \in 1..Window |-> series[k] * series[k]])]
        ELSE LET add  == series[i + Window - 1]
                 drop == series[i - 1]
             IN  [sum |-> s[i - 1].sum + add - drop,
                  squares |-> s[i - 1].squares + add * add - drop * drop]
  IN  s

Spread(i) == Window * sums[i].squares - sums[i].sum * sums[i].sum

\* sliding_dot_product with the first window.
First == [i \in Starts |->
  SumFunction([k \in 1..Window |-> series[i + k - 1] * series[k]])]

\* A distance, by its correlation: the numerator and the square of the
\* denominator, both times Window squared.
Distance(q, i, j) ==
  [cross |-> Window * q - sums[i].sum * sums[j].sum, spread |-> Spread(i) * Spread(j)]

Sign(x) == IF x < 0 THEN -1 ELSE IF x > 0 THEN 1 ELSE 0

\* dist < profile[i]: a larger correlation is a smaller distance.
Nearer(d, e) ==
  \/ e = Far
  \/ Sign(d.cross) * d.cross * d.cross * e.spread
       > Sign(e.cross) * e.cross * e.cross * d.spread

Apart(i, j) == i - j >= Exclusion \/ j - i >= Exclusion

\* The windows row j takes part in: far enough, and neither is flat.
Compared(i, j) == Apart(i, j) /\ Spread(i) # 0 /\ Spread(j) # 0

\* update_row.
UpdateRow(q, j) ==
  LET better == {i \in Starts : Compared(i, j) /\ Nearer(Distance(q[i], i, j), profile[i])}
  IN  /\ profile' = [i \in Starts |->
                       IF i \in better THEN Distance(q[i], i, j) ELSE profile[i]]
      /\ index' = [i \in Starts |-> IF i \in better THEN j ELSE index[i]]

Stepped(below, i, j) ==
  below + series[i + Window - 1] * series[j + Window - 1] - series[i - 1] * series[j - 1]

\* The next column: each product from its neighbour on the diagonal.
Diagonal(q, j) ==
  [i \in Starts |-> IF i = 1 THEN First[j] ELSE Stepped(q[i - 1], i, j)]

Init ==
  /\ series \in [1..Length -> Values]
  /\ row = 0
  /\ sums = SlidingStats
  /\ qt = First
  /\ profile = [i \in Starts |-> Far]
  /\ index = [i \in Starts |-> 1]

NextRow ==
  /\ row < Count
  /\ row' = row + 1
  /\ qt' = IF row = 0 THEN qt ELSE Diagonal(qt, row')
  /\ UpdateRow(qt', row')
  /\ UNCHANGED <<series, sums>>

Next == NextRow
Spec == Init /\ [][Next]_vars

------------------------------------------------------------------------------
\* Candidates of discord_topk in the order of sort_by: farthest first, then by
\* position; windows without a distance are passed over.
Farther(i, j) == profile[i] # profile[j] /\ ~Nearer(profile[i], profile[j])
                 /\ Nearer(profile[j], profile[i])

Ranked ==
  SetToSortSeq({i \in Starts : profile[i] # Far},
               LAMBDA i, j : Farther(i, j) \/ (~Farther(j, i) /\ i < j))

Discords(k) ==
  FoldLeft(LAMBDA out, i :
             IF Len(out) >= k \/ \E p \in ToSet(out) : ~Apart(i, p)
             THEN out ELSE Append(out, i),
           <<>>, Ranked)

\* The products of two windows about their means, by the definition.
Sum(i) == SumFunction([k \in 1..Window |-> series[i + k - 1]])

Centred(i, j) ==
  SumFunction([k \in 1..Window |->
    (Window * series[i + k - 1] - Sum(i)) * (Window * series[j + k - 1] - Sum(j))])

\* After the last row each window has the distance to the nearest of the
\* windows that may be its neighbour, as their definition gives it, and the
\* first of them; a window that is flat, or has no such neighbour, has none.
ProfileIsNearest ==
  row = Count => \A i \in Starts :
    LET others == {j \in Starts : Apart(i, j) /\ Centred(i, i) # 0 /\ Centred(j, j) # 0}
        true(j) == [cross |-> Centred(i, j) , spread |-> Centred(i, i) * Centred(j, j)]
    IN  IF others = {} THEN profile[i] = Far
        ELSE /\ index[i] \in others
             /\ \A j \in others :
                  /\ ~Nearer(true(j), true(index[i]))
                  /\ j < index[i] => Nearer(true(index[i]), true(j))
             /\ ~Nearer(profile[i], true(index[i])) /\ ~Nearer(true(index[i]), profile[i])

\* The top discords keep their distance from each other, and every window left
\* out is no farther than the last of them or is too near one that is as far.
DiscordsStandApart ==
  row = Count => \A k \in 1..Count :
    LET top == Discords(k) IN
      /\ \A a, b \in 1..Len(top) : a < b => Apart(top[a], top[b]) /\ ~Farther(top[b], top[a])
      /\ \A i \in Starts \ ToSet(top) : profile[i] # Far =>
           \/ \E p \in ToSet(top) : ~Apart(i, p) /\ ~Farther(i, p)
           \/ Len(top) = k /\ ~Farther(i, top[k])
=============================================================================
