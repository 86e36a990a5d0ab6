---------------------------- MODULE RandomCutTree ----------------------------
(***************************************************************************)
(* One random cut tree of a forest: an arena of leaves and internal nodes  *)
(* with parent pointers, masses and cached bounding boxes, and a reverse   *)
(* index from the points of the store to their leaves.  An insertion walks *)
(* down from the root and, at each node, draws a random cut of the node's  *)
(* box extended by the new point: a cut that isolates the point ends the   *)
(* walk in a new leaf, any other sends it one level down.                  *)
(*                                                                         *)
(* Coordinates are integers: only their order matters to the tree.  A cut  *)
(* between two neighbouring integers counts as one at the lower of them.   *)
(* The arena hands out its lowest free index, and a draw of the RNG is a   *)
(* choice among the cuts it can produce.                                   *)
(***************************************************************************)
EXTENDS Integers, Sequences, FiniteSets, Functions

CONSTANTS
  Dims,        \* number of dimensions, D
  Coords,      \* coordinates a point may have
  Points,      \* point indices of the store
  Capacity,    \* of each arena; the forest passes sample_size
  Builds,      \* subset of {"default", "packed"}: the packed-cut feature or not
  CutGrid,     \* per build, the cut values its representation has (f64 or f32)
  None

Axes      == 1..Dims
Leaves    == 1..Capacity
Internals == Capacity+1..2*Capacity
Nodes     == Leaves \cup Internals

\* The values coordinates take, and what a box, a cut and a node of the arena are.
Marks == {x[d] : x \in Coords, d \in Axes}
Boxes == [min : [Axes -> Marks], max : [Axes -> Marks]]
Parents   == Internals \cup {None}
LeafNode  == [point : Points, parent : Parents, mass : Nat \ {0}]
InnerNode == [cut : [dim : Axes, value : Int], box : Boxes, left : Nodes, right : Nodes,
              parent : Parents, mass : Nat \ {0}]
Adding    == [point : Points, at : Nodes]

\* A cut in f64 can be at any coordinate.
ASSUME TreeAssumption ==
  /\ Dims \in Nat \ {0} /\ Capacity \in Nat \ {0}
  /\ Coords \subseteq [Axes -> Int] /\ IsFiniteSet(Points)
  /\ Builds \subseteq {"default", "packed"}
  /\ CutGrid \in [Builds -> SUBSET Int]
  /\ "default" \in Builds => Marks \subseteq CutGrid["default"]
  /\ None \notin Nodes /\ None \notin Points /\ None \notin Coords
  /\ None \notin LeafNode /\ None \notin InnerNode /\ None \notin Adding

VARIABLES
  node,        \* NodeStore: the record of each live node, None when free
  root,
  leaf_index,  \* the leaf of each point, None when the tree lacks it
  coord,       \* the store's coordinates of each point the tree uses
  adding,      \* insertion in progress: its point and the node it has reached
  build        \* the build the tree runs in, fixed from the start

vars == <<node, root, leaf_index, coord, adding, build>>

Packed == build = "packed"

Init ==
  /\ node = [n \in Nodes |-> None]
  /\ root = None
  /\ leaf_index = [p \in Points |-> None]
  /\ coord = [p \in Points |-> None]
  /\ adding = None
  /\ build \in Builds

------------------------------------------------------------------------------
(* Bounding boxes and cuts.                                                 *)

Lower(x, y) == IF x < y THEN x ELSE y
Upper(x, y) == IF x < y THEN y ELSE x

FromPoint(x) == [min |-> x, max |-> x]

Merged(b, c) == [min |-> [d \in Axes |-> Lower(b.min[d], c.min[d])],
                 max |-> [d \in Axes |-> Upper(b.max[d], c.max[d])]]

Extend(b, x) == Merged(b, FromPoint(x))

BoxOf(n) == IF n \in Leaves THEN FromPoint(coord[node[n].point]) ELSE node[n].box

LeftOf(cut, x) == x[cut.dim] <= cut.value

Routed(n, x) == IF LeftOf(node[n].cut, x) THEN node[n].left ELSE node[n].right

\* The values a draw between lo < hi can be stored as.  In the default build
\* lo + r * (hi - lo) may round up to hi.  A packed value is pushed back into
\* [lo, hi), or below lo when the grid has none in there.
CutValues(lo, hi) ==
  LET inside == {v \in CutGrid[build] : lo <= v /\ v < hi}
      below  == {v \in CutGrid[build] : v < lo}
  IN IF ~Packed THEN inside \cup {hi}
     ELSE IF inside # {} THEN inside
     ELSE {v \in below : \A w \in below : w <= v}

\* The cuts augmented_random_cut may draw for box b and a point x outside it.
RandomCuts(b, x) ==
  LET a == Extend(b, x) IN
  UNION {{[dim |-> d, value |-> v] : v \in CutValues(a.min[d], a.max[d])} :
           d \in {e \in Axes : a.min[e] < a.max[e]}}

\* Mutant: a cut through the point itself does not count.
IsolatesStrictly(cut, x, b) ==
  \/ x[cut.dim] < cut.value /\ cut.value < b.min[cut.dim]
  \/ b.max[cut.dim] <= cut.value /\ cut.value < x[cut.dim]

Isolates(cut, x, b) ==
  \/ x[cut.dim] <= cut.value /\ cut.value < b.min[cut.dim]
  \/ b.max[cut.dim] <= cut.value /\ cut.value < x[cut.dim]

------------------------------------------------------------------------------
(* The arena.                                                               *)

IsLive(n) == node[n] # None

Lowest(arena) ==
  CHOOSE n \in arena : ~IsLive(n) /\ \A m \in arena : ~IsLive(m) => n <= m

NewLeaf     == Lowest(Leaves)
NewInternal == Lowest(Internals)

Leaf(p, parent) == [point |-> p, parent |-> parent, mass |-> 1]

\* The ancestors of a node, its parent first.
Above[n \in Nodes] ==
  IF ~IsLive(n) \/ node[n].parent = None THEN <<>>
  ELSE <<node[n].parent>> \o Above[node[n].parent]

AddMass(rec, k) == [rec EXCEPT !.mass = @ + k]

\* Mutant: the left child is replaced whichever one it was.
ReplacedLeft(rec, c, d) == [rec EXCEPT !.left = d]

\* Child c of node n becomes d, and d names n its parent.
Replaced(rec, c, d) ==
  IF rec.left = c THEN [rec EXCEPT !.left = d] ELSE [rec EXCEPT !.right = d]

------------------------------------------------------------------------------
(* Insertion.                                                               *)

BeginAdd(p, x) ==
  /\ adding = None
  /\ leaf_index[p] = None
  /\ Cardinality({q \in Points : leaf_index[q] # None}) < Capacity
  /\ coord' = [coord EXCEPT ![p] = x]
  /\ UNCHANGED build
  /\ IF root = None
     THEN /\ node' = [node EXCEPT ![NewLeaf] = Leaf(p, None)]
          /\ leaf_index' = [leaf_index EXCEPT ![p] = NewLeaf]
          /\ root' = NewLeaf
          /\ adding' = None
     ELSE /\ adding' = [point |-> p, at |-> root]
          /\ UNCHANGED <<node, root, leaf_index, build>>

\* The new point and the box of the node the walk has reached.
NewX == coord[adding.point]
Here == BoxOf(adding.at)
Cuts == RandomCuts(Here, NewX)

\* A cut that does not isolate the point: on to the child the point belongs to.
Descend ==
  /\ adding # None /\ adding.at \in Internals
  /\ \E cut \in Cuts : ~Isolates(cut, NewX, Here)
  /\ adding' = [adding EXCEPT !.at = Routed(adding.at, NewX)]
  /\ UNCHANGED <<node, root, leaf_index, coord, build>>

\* A cut that does: a new internal node takes n's place above n and a new leaf,
\* and every ancestor grows by the point.
Splice(cut) ==
  /\ adding # None
  /\ cut \in Cuts /\ Isolates(cut, NewX, Here)
  /\ LET n == adding.at
         parent == node[n].parent
         split == [cut |-> cut, box |-> Extend(Here, NewX),
                   left  |-> IF LeftOf(cut, NewX) THEN NewLeaf ELSE n,
                   right |-> IF LeftOf(cut, NewX) THEN n ELSE NewLeaf,
                   parent |-> parent, mass |-> node[n].mass + 1]
         Grown(a) == [AddMass(node[a], 1) EXCEPT !.box = Extend(@, NewX)]
     IN /\ node' = [m \in Nodes |->
             IF m = NewLeaf THEN Leaf(adding.point, NewInternal)
             ELSE IF m = NewInternal THEN split
             ELSE IF m = n THEN [node[n] EXCEPT !.parent = NewInternal]
             ELSE IF m = parent THEN Replaced(Grown(m), n, NewInternal)
             ELSE IF m \in Range(Above[n]) THEN Grown(m)
             ELSE node[m]]
        /\ root' = IF parent = None THEN NewInternal ELSE root
  /\ leaf_index' = [leaf_index EXCEPT ![adding.point] = NewLeaf]
  /\ adding' = None
  /\ UNCHANGED <<coord, build>>

\* At a leaf, a point with the leaf's coordinates (or, in the packed build, one
\* the drawn cut fails to isolate) adds to the leaf's mass.
Absorb ==
  /\ adding # None /\ adding.at \in Leaves
  /\ \/ Cuts = {}
     \/ Packed /\ \E cut \in Cuts : ~Isolates(cut, NewX, Here)
  /\ node' = [m \in Nodes |->
       IF m = adding.at \/ m \in Range(Above[adding.at]) THEN AddMass(node[m], 1)
       ELSE node[m]]
  /\ leaf_index' = [leaf_index EXCEPT ![adding.point] = adding.at]
  /\ adding' = None
  /\ UNCHANGED <<root, coord, build>>

\* The error branches: a leaf reached without isolation, and a duplicate to be
\* absorbed by an internal node.  The tree is left as it was.
Refuse ==
  /\ adding # None
  /\ \/ ~Packed /\ adding.at \in Leaves /\ \E cut \in Cuts : ~Isolates(cut, NewX, Here)
     \/ adding.at \in Internals /\ Cuts = {}
  /\ adding' = None
  /\ coord' = [coord EXCEPT ![adding.point] = None]
  /\ UNCHANGED <<node, root, leaf_index, build>>

------------------------------------------------------------------------------
(* Deletion.                                                                *)

Sharers(n) == {p \in Points : leaf_index[p] = n}

\* One of several copies: the leaf stays, under another copy's index when it
\* went by the deleted one's.
DropCopy(p, heir) ==
  LET leaf == leaf_index[p] IN
  /\ adding = None /\ leaf # None
  /\ node[leaf].mass > 1
  /\ IF node[leaf].point = p THEN heir \in Sharers(leaf) \ {p}
     ELSE heir = node[leaf].point
  /\ node' = [m \in Nodes |->
       IF m = leaf THEN [AddMass(node[m], -1) EXCEPT !.point = heir]
       ELSE IF m \in Range(Above[leaf]) THEN AddMass(node[m], -1)
       ELSE node[m]]
  /\ leaf_index' = [leaf_index EXCEPT ![p] = None]
  /\ coord' = [coord EXCEPT ![p] = None]
  /\ UNCHANGED <<root, adding, build>>

\* Mutant: the ancestors keep the boxes they had.
RecomputedNot(path, gone, sibling) == [k \in 1..Len(path) |-> node[path[k]].box]

\* recompute_ancestors: the boxes of the nodes above, from the sibling's up.
\* path is the ancestors from the grandparent to the root, gone its old child.
Recomputed(path, gone, sibling) ==
  LET Off(k) == LET below == IF k = 1 THEN gone ELSE path[k-1]
                IN IF node[path[k]].left = below
                   THEN node[path[k]].right ELSE node[path[k]].left
      box[k \in 1..Len(path)] ==
        Merged(BoxOf(Off(k)), IF k = 1 THEN BoxOf(sibling) ELSE box[k-1])
  IN box

Level(path, m) == CHOOSE k \in 1..Len(path) : path[k] = m

\* The last copy: its leaf and the parent go, the sibling takes the parent's
\* place, and every ancestor shrinks.
DropLeaf(p) ==
  LET leaf == leaf_index[p] IN
  /\ adding = None /\ leaf # None
  /\ node[leaf].mass = 1
  /\ leaf_index' = [leaf_index EXCEPT ![p] = None]
  /\ coord' = [coord EXCEPT ![p] = None]
  /\ UNCHANGED <<adding, build>>
  /\ IF node[leaf].parent = None
     THEN /\ node' = [node EXCEPT ![leaf] = None]
          /\ root' = None
     ELSE LET parent == node[leaf].parent
              sibling == IF node[parent].left = leaf
                         THEN node[parent].right ELSE node[parent].left
              path == Above[parent]
              boxes == Recomputed(path, parent, sibling)
              Shrunk(k) == [AddMass(node[path[k]], -1) EXCEPT !.box = boxes[k]]
          IN /\ node' = [m \in Nodes |->
                  IF m \in {leaf, parent} THEN None
                  ELSE IF m = sibling
                  THEN [node[m] EXCEPT !.parent = node[parent].parent]
                  ELSE IF m = node[parent].parent
                  THEN Replaced(Shrunk(1), parent, sibling)
                  ELSE IF m \in Range(path) THEN Shrunk(Level(path, m))
                  ELSE node[m]]
             /\ root' = IF path = <<>> THEN sibling ELSE root

------------------------------------------------------------------------------

Insertion ==
  \/ Descend
  \/ \E d \in Axes, v \in UNION Range(CutGrid) : Splice([dim |-> d, value |-> v])
  \/ Absorb
  \/ Refuse

Next ==
  \/ \E p \in Points, x \in Coords : BeginAdd(p, x)
  \/ Insertion
  \/ \E p \in Points, heir \in Points : DropCopy(p, heir)
  \/ \E p \in Points : DropLeaf(p)

Spec == Init /\ [][Next]_vars

------------------------------------------------------------------------------
(* Correctness.                                                             *)

Present(p) == leaf_index[p] # None
LiveNodes  == {n \in Nodes : IsLive(n)}

TypeOK ==
  /\ node \in [Nodes -> LeafNode \cup InnerNode \cup {None}]
  /\ \A n \in Leaves : IsLive(n) => node[n] \in LeafNode
  /\ \A n \in Internals : IsLive(n) =>
       node[n] \in InnerNode /\ node[n].cut.value \in CutGrid[build]
  /\ root \in Nodes \cup {None}
  /\ leaf_index \in [Points -> Leaves \cup {None}]
  /\ coord \in [Points -> Coords \cup {None}]
  /\ adding \in Adding \cup {None}
  /\ build \in Builds

\* A leaf's mass is the number of points indexed to it, an internal node's the
\* sum of its children's.  A leaf goes by one of its own points.
MassIsCount ==
  /\ \A n \in LiveNodes \cap Leaves :
       node[n].mass = Cardinality(Sharers(n)) /\ node[n].point \in Sharers(n)
  /\ \A n \in LiveNodes \cap Internals :
       node[n].mass = node[node[n].left].mass + node[node[n].right].mass

RootInv ==
  /\ root = None <=> LiveNodes = {}
  /\ root # None => IsLive(root) /\ node[root].parent = None

ParentInv ==
  \A n \in LiveNodes \ {root} :
    LET parent == node[n].parent IN
    parent # None /\ IsLive(parent) /\ n \in {node[parent].left, node[parent].right}

ChildInv ==
  \A n \in LiveNodes \cap Internals :
    /\ node[n].left # node[n].right
    /\ \A c \in {node[n].left, node[n].right} : IsLive(c) /\ node[c].parent = n

SizeInv ==
  Cardinality(LiveNodes \cap Internals) =
    IF root = None THEN 0 ELSE Cardinality(LiveNodes \cap Leaves) - 1

\* Masses count, the index names live leaves, and the arena is one binary tree:
\* parents and children name each other, each live node but the root is one child
\* of one live node, and since masses grow upwards no node is its own ancestor.  A
\* walk from the root or from a leaf therefore ends.
WellFormed ==
  /\ TypeOK /\ MassIsCount
  /\ \A p \in Points : Present(p) => IsLive(leaf_index[p])
  /\ RootInv /\ ParentInv /\ ChildInv /\ SizeInv

\* In the default build the cached box of an internal node is the union of its
\* children's, after any number of insertions above and deletions below.
BoxesTight ==
  ~Packed => \A n \in LiveNodes \cap Internals :
    node[n].box = Merged(BoxOf(node[n].left), BoxOf(node[n].right))

\* What an insertion relies on while it walks: there is room for its point, and
\* the nodes above are those a query for the point passes.
AddingInv ==
  adding # None =>
    /\ IsLive(adding.at) /\ ~Present(adding.point) /\ NewX # None
    /\ Cardinality({q \in Points : Present(q)}) < Capacity
    /\ \A a \in Range(Above[adding.at]) :
         Routed(a, NewX) \in {adding.at} \cup Range(Above[adding.at])

\* Points in the tree have coordinates, and in the default build the points of
\* a leaf have the same.
CoordInv ==
  \A p \in Points : Present(p) =>
    coord[p] # None /\ (~Packed => coord[p] = coord[node[leaf_index[p]].point])

\* In the default build a cut keeps the boxes of its two sides apart.
CutsSeparate ==
  ~Packed => \A n \in LiveNodes \cap Internals :
    LET d == node[n].cut.dim IN
    /\ BoxOf(node[n].left).max[d] <= node[n].cut.value
    /\ node[n].cut.value < BoxOf(node[n].right).min[d]

TreeInv == WellFormed /\ AddingInv /\ CoordInv

\* The leaf at which a query for point x ends, from each node.
RouteFrom(x) ==
  LET end[n \in Nodes] ==
        IF n \in Leaves \/ ~IsLive(n) THEN n ELSE end[Routed(n, x)]
  IN end

\* In the default build a point is found where the index says it is: routing its
\* coordinates from the root ends at its leaf, whatever nodes were spliced in or
\* promoted since, and the point that leaf goes by is a copy of it.
RouteFindsLeaf ==
  ~Packed => \A p \in Points : Present(p) =>
    /\ RouteFrom(coord[p])[root] = leaf_index[p]
    /\ coord[node[leaf_index[p]].point] = coord[p]

\* In the default build an insertion fails in one case only, a draw that rounds
\* up to the end of its range at a leaf: any other cut of the extended box of a
\* leaf isolates one of two distinct points.
RefusesOnRoundingOnly ==
  [][~Packed /\ Refuse =>
       /\ adding.at \in Leaves
       /\ \A cut \in Cuts : ~Isolates(cut, NewX, Here) =>
            cut.value = Extend(Here, NewX).max[cut.dim]]_vars
==============================================================================
