----------------------------- MODULE TreeScores ------------------------------
(***************************************************************************)
(* The read-only walks over a RandomCutTree that scores are made of: the   *)
(* codisplacement up from a leaf and its stateless twin down from the      *)
(* root, and the descent of traverse with the probability that each node   *)
(* it meets would have cut the query off, and the visitors that make a     *)
(* score or an attribution of it.  A tree that comes from a snapshot is    *)
(* walked once it has passed the checks of TreeSnapshot.  A ratio is a     *)
(* pair of naturals.                                                       *)
(***************************************************************************)
EXTENDS TreeSnapshot

CONSTANT Unit   \* a sum of shares is kept in units of 1 / Unit

MassOf(n) == node[n].mass

SiblingOf(n) ==
  LET parent == node[node[n].parent]
  IN IF parent.left = n THEN parent.right ELSE parent.left

\* What the subtree of n displaces were it taken away, as a ratio.
Displacement(n) == <<MassOf(SiblingOf(n)), MassOf(n)>>

AtMost(a, b) == a[1] * b[2] <= b[1] * a[2]

Larger(a, b) == IF AtMost(b, a) THEN a ELSE b

\* walk_codisp: up from a leaf along the parents.
CodispUp[n \in Nodes] ==
  IF ~IsLive(n) \/ node[n].parent = None THEN <<0, 1>>
  ELSE Larger(Displacement(n), CodispUp[node[n].parent])

\* traverse: the nodes met from n down to the leaf the query ends at.
Traversed(x) ==
  LET met[n \in Nodes] ==
        IF n \in Leaves \/ ~IsLive(n) THEN <<n>> ELSE <<n>> \o met[Routed(n, x)]
  IN met

\* codisp_stateless: down along the stored cuts.
CodispDown(x) ==
  LET down[n \in Nodes] ==
        IF n \in Leaves \/ ~IsLive(n) THEN <<0, 1>>
        ELSE Larger(Displacement(Routed(n, x)), down[Routed(n, x)])
  IN down

------------------------------------------------------------------------------
(* The probability of a cut.                                                *)

SpanAt(b, d) == b.max[d] - b.min[d]

Positive(k) == IF k > 0 THEN k ELSE 0

\* Mutant: a point below the box takes no extension.
ExtensionAbove(b, x, d) == Positive(x[d] - b.max[d])

\* extension_per_dim.
Extension(b, x, d) == Positive(x[d] - b.max[d]) + Positive(b.min[d] - x[d])

\* probability_of_cut, as the numerators per dimension and the denominator.
ProbabilityOfCut(b, x) ==
  [per_dim |-> [d \in Axes |-> Extension(b, x, d)],
   denom |-> SumFunction([d \in Axes |-> SpanAt(b, d) + Extension(b, x, d)])]

\* total_probability_of_cut: one pass, no numerators kept.
TotalProbabilityOfCut(b, x) ==
  LET extensions == SumFunction([d \in Axes |-> Extension(b, x, d)])
  IN  <<extensions, SumFunction([d \in Axes |-> SpanAt(b, d)]) + extensions>>

Divides(b, x) ==
  LET p == TotalProbabilityOfCut(b, x)
  IN  /\ p[2] > 0 => Unit % p[2] = 0
      /\ p[1] > 0 => (Unit \div p[2]) % p[1] = 0

ASSUME UnitAssumption ==
  /\ Unit \in Nat
  /\ \A b \in Boxes, x \in Coords : (\A d \in Axes : b.min[d] <= b.max[d]) => Divides(b, x)

------------------------------------------------------------------------------
(* The visitors.  Their weights stand as integers that grow and fall as the *)
(* logarithms do.  Every share they are cut into is a multiple of 1 / Unit. *)

\* score_unseen, score_seen and damp.
Unseen(depth, mass) == depth + mass - 1
Seen(depth, mass) == IF Unseen(depth, mass) > 0 THEN 12 \div Unseen(depth, mass) ELSE 0
Damp(mass) == 1 + MassOf(root) - mass

\* What a node adds, cut off with the probability p.
Dampened(n, depth, p) ==
  (Unit * ((p[2] - p[1]) * Seen(depth, MassOf(n)) + p[1] * Unseen(depth, MassOf(n)))
        * Damp(MassOf(n))) \div p[2]

AtLeaf(n, depth) == Unit * Seen(depth, MassOf(n)) * Damp(MassOf(n))

\* ScalarScoreVisitor.
ScalarScore(x) ==
  LET path == Traversed(x)[root] IN
  AtLeaf(path[Len(path)], Len(path) - 1)
    + SumFunction([i \in 1..(Len(path) - 1) |->
                     Dampened(path[i], i - 1, TotalProbabilityOfCut(BoxOf(path[i]), x))])

\* A node's contribution in d, to the side the query lies on.
Share(n, depth, x, d) ==
  LET p == ProbabilityOfCut(BoxOf(n), x)
      e == SumFunction(p.per_dim)
  IN  IF e = 0 THEN 0 ELSE (Dampened(n, depth, <<e, p.denom>>) * p.per_dim[d]) \div e

Routing(n, depth, x, d) ==
  CASE x[d] > BoxOf(n).max[d] -> [high |-> Share(n, depth, x, d), low |-> 0]
    [] x[d] < BoxOf(n).min[d] -> [high |-> 0, low |-> Share(n, depth, x, d)]
    [] OTHER -> [high |-> 0, low |-> 0]

\* AttributionVisitor.
Attribution(x) ==
  LET path == Traversed(x)[root]
      at(i, d) == Routing(path[i], i - 1, x, d)
  IN  [d \in Axes |->
        [high |-> SumFunction([i \in 1..(Len(path) - 1) |-> at(i, d).high]),
         low  |-> SumFunction([i \in 1..(Len(path) - 1) |-> at(i, d).low])]]

\* ScoreAttributionVisitor: both in one pass, over the numerators per dimension.
ScoreAndAttribution(x) ==
  LET path == Traversed(x)[root]
      p(n) == ProbabilityOfCut(BoxOf(n), x)
      after[k \in 0..Len(path) - 1] ==
        IF k = 0 THEN [score |-> 0, di |-> [d \in Axes |-> [high |-> 0, low |-> 0]]]
        ELSE [score |-> after[k - 1].score
                + Dampened(path[k], k - 1, <<SumFunction(p(path[k]).per_dim), p(path[k]).denom>>),
              di |-> [d \in Axes |->
                LET r == Routing(path[k], k - 1, x, d)
                IN  [high |-> after[k - 1].di[d].high + r.high,
                     low |-> after[k - 1].di[d].low + r.low]]]
  IN  [after[Len(path) - 1] EXCEPT !.score = @ + AtLeaf(path[Len(path)], Len(path) - 1)]

------------------------------------------------------------------------------
(* Properties.                                                              *)

\* The points in the subtree of n.
Below(n) == {p \in Points : Present(p) /\ n \in {leaf_index[p]} \cup Range(Above[leaf_index[p]])}

\* Between calls, in the default build: the codisplacement of a stored point is
\* the largest ratio of points beside to points in a subtree that holds it,
\* counted over the points and not over cached masses; and the stateless walk,
\* which only follows cuts, answers the same as the walk up from the leaf.
CodispCountsPoints ==
  ~Packed /\ adding = None => \A p \in Points : Present(p) =>
    LET leaf == leaf_index[p]
        ratios == {<<Cardinality(Below(SiblingOf(n))), Cardinality(Below(n))>> :
                     n \in {m \in {leaf} \cup Range(Above[leaf]) : node[m].parent # None}}
    IN /\ CodispUp[leaf] \in ratios \cup {<<0, 1>>}
       /\ \A r \in ratios : AtMost(r, CodispUp[leaf])
       /\ AtMost(CodispDown(coord[p])[root], CodispUp[leaf])
       /\ AtMost(CodispUp[leaf], CodispDown(coord[p])[root])

\* The probability a node reports for a query is the share of the draws of
\* augmented_random_cut, counted in unit steps, that would isolate it there; it
\* is zero for every stored point at every node above it.
ProbabilityIsShareOfCuts ==
  ~Packed /\ adding = None /\ root # None => \A x \in Coords :
    LET path == Traversed(x)[root] IN
    /\ \A i \in 1..(Len(path) - 1) :
         LET b == BoxOf(path[i])
             a == Extend(b, x)
             draws == UNION {{[dim |-> d, value |-> v] : v \in a.min[d]..(a.max[d] - 1)} : d \in Axes}
             p == ProbabilityOfCut(b, x)
         IN /\ p.denom = Cardinality(draws)
            /\ \A d \in Axes : p.per_dim[d] =
                 Cardinality({c \in draws : c.dim = d /\ Isolates(c, x, b)})
            /\ (\E q \in Points : Present(q) /\ coord[q] = x) =>
                 \A d \in Axes : p.per_dim[d] = 0

\* An attribution splits a score: what it leaves out is the leaf and the nodes
\* whose points surround the query; no axis is credited on both sides in one
\* tree, a stored point is credited nothing, and the single pass for both gives
\* what the two passes give.
AttributionSplitsScore ==
  ~Packed /\ adding = None /\ root # None => \A x \in Coords :
    LET path == Traversed(x)[root]
        di == Attribution(x)
        around == {i \in 1..(Len(path) - 1) : \A d \in Axes :
                     \E p, q \in Below(path[i]) : coord[p][d] <= x[d] /\ x[d] <= coord[q][d]}
    IN  /\ ScalarScore(x) =
             SumFunction([d \in Axes |-> di[d].high + di[d].low])
               + SumFunction([i \in around |-> Dampened(path[i], i - 1, <<0, 1>>)])
               + AtLeaf(path[Len(path)], Len(path) - 1)
        /\ \A d \in Axes : di[d].high = 0 \/ di[d].low = 0
        /\ (\E q \in Points : Present(q) /\ coord[q] = x) =>
             \A d \in Axes : di[d] = [high |-> 0, low |-> 0]
        /\ ScoreAndAttribution(x) = [score |-> ScalarScore(x), di |-> di]

\* Every walk of a stored point ends at its leaf, displaces the points it counts
\* and is cut off with the probability of such a draw (random_cut_tree.rs), and
\* what it credits to dimensions is the score (attribution.rs, combined.rs).
WalksMatchPoints ==
  /\ RouteFindsLeaf /\ CodispCountsPoints /\ ProbabilityIsShareOfCuts
  /\ AttributionSplitsScore

------------------------------------------------------------------------------
(* For TLC: an instance with its walks and its snapshots.                   *)

CONSTANTS p1, p2, p3, p4

\* Neighbours an f32 step cannot tell apart on one axis, and points it can.
FourPlaces == {<<0, 0>>, <<1, 0>>, <<0, 2>>, <<1, 2>>}

\* Every integer of the range for f64; the f32 grid is coarser.
Grids == [b \in Builds |-> IF b = "default" THEN 0..2 ELSE {-1, 1, 2}]

PointSymmetry == Permutations(Points)
==============================================================================
