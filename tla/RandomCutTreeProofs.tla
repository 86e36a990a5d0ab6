------------------------- MODULE RandomCutTreeProofs --------------------------
(***************************************************************************)
(* Proofs about RandomCutTree, TreeSnapshot and TreeScores, for every      *)
(* number of points, dimensions and nodes and every cut that can be drawn: *)
(* the arena stays one tree whose masses count the points below each node; *)
(* what a snapshot's checks admit is such a tree; and the walks that       *)
(* scores are made of answer what the points themselves call for.          *)
(***************************************************************************)
EXTENDS TreeScores, FunctionSums, FiniteSetTheorems, SequenceTheorems, WellFoundedInduction, TLAPS

------------------------------------------------------------------------------
(* The arena.                                                               *)

LEMMA NodesFinite ==
  /\ Nodes \subseteq Nat /\ IsFiniteSet(Nodes) /\ Leaves \cap Internals = {}
  /\ IsFiniteSet(Leaves) /\ Cardinality(Leaves) = Capacity
  /\ IsFiniteSet(Internals) /\ Cardinality(Internals) = Capacity
<1>1. Capacity \in Nat /\ Capacity > 0
  BY TreeAssumption
<1>2. Nodes = 1..Capacity + Capacity
  BY <1>1 DEF Nodes, Leaves, Internals
<1>3. Leaves \cap Internals = {} /\ Nodes \subseteq Nat
  BY <1>1 DEF Nodes, Leaves, Internals
<1>4. IsFiniteSet(1..Capacity + Capacity)
  BY <1>1, FS_Interval
<1>5. IsFiniteSet(Leaves) /\ Cardinality(Leaves) = Capacity
  <2>1. Cardinality(1..Capacity) = Capacity /\ IsFiniteSet(1..Capacity)
    BY <1>1, FS_Interval
  <2> QED
    BY <2>1 DEF Leaves
<1>6. IsFiniteSet(Internals) /\ Cardinality(Internals) = Capacity
  <2>1. 2 * Capacity = Capacity + Capacity /\ Capacity + 1 \in Int /\ 2 * Capacity \in Int
    BY <1>1
  <2>2. /\ IsFiniteSet(Capacity + 1..2 * Capacity)
        /\ Cardinality(Capacity + 1..2 * Capacity)
             = IF Capacity + 1 > 2 * Capacity THEN 0 ELSE 2 * Capacity - (Capacity + 1) + 1
    BY <2>1, FS_Interval
  <2>3. Cardinality(Capacity + 1..2 * Capacity) = Capacity
    BY <1>1, <2>1, <2>2
  <2> QED
    BY <2>2, <2>3 DEF Internals
<1> QED
  BY <1>2, <1>3, <1>4, <1>5, <1>6

\* What a live node is.
LEMMA LiveNode ==
  ASSUME TypeOK, NEW n \in LiveNodes
  PROVE  /\ n \in Nodes /\ IsLive(n) /\ node[n].parent \in Parents
         /\ node[n].mass \in Nat /\ node[n].mass > 0
         /\ n \in Leaves => node[n] \in LeafNode /\ n \notin Internals
         /\ n \in Internals => node[n] \in InnerNode /\ n \notin Leaves
         /\ n \in Leaves \/ n \in Internals
<1>1. n \in Nodes /\ IsLive(n)
  BY DEF LiveNodes
<1>2. CASE n \in Leaves
  BY <1>1, <1>2, NodesFinite DEF TypeOK, LeafNode
<1>3. CASE n \in Internals
  BY <1>1, <1>3, NodesFinite DEF TypeOK, InnerNode
<1> QED
  BY <1>1, <1>2, <1>3 DEF Nodes

\* What the two children of an internal node are.
LEMMA Children ==
  ASSUME WellFormed, NEW n \in LiveNodes \cap Internals
  PROVE  /\ node[n].left \in LiveNodes /\ node[n].right \in LiveNodes
         /\ node[n].left # node[n].right
         /\ node[node[n].left].parent = n /\ node[node[n].right].parent = n
         /\ node[n].mass = node[node[n].left].mass + node[node[n].right].mass
<1>1. node[n] \in InnerNode
  BY LiveNode DEF WellFormed
<1>2. node[n].left \in Nodes /\ node[n].right \in Nodes
  BY <1>1 DEF InnerNode
<1> QED
  BY <1>2 DEF WellFormed, ChildInv, MassIsCount, LiveNodes

\* A node is a child of its parent, and lighter.
LEMMA ParentHeavier ==
  ASSUME WellFormed, NEW n \in LiveNodes, node[n].parent # None
  PROVE  /\ node[n].parent \in LiveNodes /\ node[n].parent \in Internals
         /\ n = node[node[n].parent].left \/ n = node[node[n].parent].right
         /\ node[n].mass < node[node[n].parent].mass
<1> DEFINE p == node[n].parent
<1>1. n # root
  BY DEF WellFormed, RootInv
<1>2. IsLive(p) /\ n \in {node[p].left, node[p].right}
  BY <1>1 DEF WellFormed, ParentInv
<1>3. p \in Internals
  BY LiveNode DEF WellFormed, Parents
<1>4. p \in LiveNodes
  BY <1>2, <1>3 DEF LiveNodes, Nodes
<1>5. /\ node[p].left \in LiveNodes /\ node[p].right \in LiveNodes
      /\ node[p].mass = node[node[p].left].mass + node[node[p].right].mass
  BY <1>3, <1>4, Children
<1>6. /\ node[node[p].left].mass \in Nat /\ node[node[p].left].mass > 0
      /\ node[node[p].right].mass \in Nat /\ node[node[p].right].mass > 0
  BY <1>5, LiveNode DEF WellFormed
<1> QED
  BY <1>2, <1>3, <1>4, <1>5, <1>6

------------------------------------------------------------------------------
(* Climbing: a node has fewer nodes heavier than itself than its children   *)
(* have.                                                                    *)

Heavier(n) == {m \in LiveNodes : node[m].mass > node[n].mass}
Depth(n)   == Cardinality(Heavier(n))

LEMMA DepthFalls ==
  ASSUME WellFormed, NEW n \in LiveNodes
  PROVE  /\ Depth(n) \in Nat
         /\ node[n].parent # None => Depth(node[n].parent) < Depth(n)
<1>1. IsFiniteSet(LiveNodes)
  BY NodesFinite, FS_Subset DEF LiveNodes
<1>2. \A m : IsFiniteSet(Heavier(m)) /\ Depth(m) \in Nat
  <2>1. \A m : Heavier(m) \in SUBSET LiveNodes
    BY DEF Heavier
  <2> QED
    BY <1>1, <2>1, FS_Subset, FS_CardinalityType DEF Depth
<1>3. ASSUME node[n].parent # None
      PROVE  Depth(node[n].parent) < Depth(n)
  <2> DEFINE p == node[n].parent
  <2>1. p \in LiveNodes /\ node[n].mass < node[p].mass
    BY <1>3, ParentHeavier
  <2>2. \A m \in LiveNodes : node[m].mass \in Nat
    BY LiveNode DEF WellFormed
  <2>3. Heavier(p) \in SUBSET Heavier(n)
    BY <2>1, <2>2 DEF Heavier
  <2>4. p \in Heavier(n) /\ p \notin Heavier(p)
    BY <2>1, <2>2 DEF Heavier
  <2>5. /\ Cardinality(Heavier(p)) <= Cardinality(Heavier(n))
        /\ Cardinality(Heavier(n)) = Cardinality(Heavier(p)) => Heavier(n) = Heavier(p)
    BY <1>2, <2>3, FS_Subset
  <2>6. Depth(p) \in Nat /\ Depth(n) \in Nat
    BY <1>2
  <2> QED
    BY <2>4, <2>5, <2>6 DEF Depth
<1> QED
  BY <1>2, <1>3

\* Among any nodes there is one whose parent is not one of them.
LEMMA Topmost ==
  ASSUME WellFormed, NEW S \in SUBSET LiveNodes, S # {}
  PROVE  \E n \in S : node[n].parent = None \/ node[n].parent \notin S
<1> DEFINE R == {Depth(n) : n \in S}
<1>1. R \subseteq Nat /\ R # {}
  BY DepthFalls
<1>2. PICK r \in R : \A y \in R : ~ (<<y, r>> \in OpToRel(<, Nat))
  <2> HIDE DEF R
  <2> QED
    BY <1>1, WFMin, NatLessThanWellFounded
<1>3. PICK n \in S : Depth(n) = r
  BY <1>2
<1>4. ASSUME node[n].parent # None, node[n].parent \in S
      PROVE  FALSE
  <2>1. Depth(node[n].parent) \in R /\ Depth(node[n].parent) < r
    BY <1>3, <1>4, DepthFalls
  <2> QED
    BY <1>1, <1>2, <2>1 DEF OpToRel
<1> QED
  BY <1>3, <1>4

\* One step of the recursion that lists a node's ancestors.
Climbed(f) ==
  [n \in Nodes |-> IF ~IsLive(n) \/ node[n].parent = None THEN <<>>
                   ELSE <<node[n].parent>> \o f[node[n].parent]]

\* A list right for all nodes above a depth.
RightUpTo(f, r) == \A n \in LiveNodes : Depth(n) < r => f[n] = Climbed(f)[n]

LEMMA RightExists ==
  ASSUME WellFormed, NEW m \in Nat
  PROVE  \E f : RightUpTo(f, m)
<1> DEFINE Bad == {r \in Nat : ~ \E f : RightUpTo(f, r)}
<1>1. SUFFICES ASSUME Bad # {} PROVE FALSE
  OBVIOUS
<1>2. PICK r \in Bad : \A y \in Bad : ~ (<<y, r>> \in OpToRel(<, Nat))
  <2>1. Bad \subseteq Nat
    OBVIOUS
  <2> HIDE DEF Bad
  <2> QED
    BY <1>1, <2>1, WFMin, NatLessThanWellFounded
<1>3. \A y \in Bad : ~ (y < r)
  BY <1>2 DEF OpToRel
<1>4. r # 0
  <2>1. RightUpTo(<<>>, 0)
    BY DepthFalls DEF RightUpTo
  <2> QED
    BY <2>1
<1>5. r - 1 \in Nat /\ r - 1 \notin Bad
  BY <1>3, <1>4
<1>6. PICK g : RightUpTo(g, r - 1)
  BY <1>5
<1>7. ASSUME NEW n \in LiveNodes, Depth(n) < r
      PROVE  Climbed(g)[n] = Climbed(Climbed(g))[n]
  <2>1. CASE node[n].parent = None
    BY <2>1 DEF Climbed, LiveNodes
  <2>2. CASE node[n].parent # None
    <3>1. /\ node[n].parent \in LiveNodes
          /\ Depth(node[n].parent) \in Nat /\ Depth(n) \in Nat
          /\ Depth(node[n].parent) < Depth(n)
      BY <2>2, DepthFalls, ParentHeavier
    <3>2. g[node[n].parent] = Climbed(g)[node[n].parent]
      BY <1>5, <1>6, <1>7, <3>1 DEF RightUpTo
    <3> QED
      BY <2>2, <3>2 DEF Climbed, LiveNodes
  <2> QED
    BY <2>1, <2>2
<1>8. RightUpTo(Climbed(g), r)
  BY <1>7 DEF RightUpTo
<1> QED
  BY <1>2, <1>8

\* The recursion has a solution, so Above is one.
LEMMA AboveIs ==
  ASSUME WellFormed
  PROVE  Above = Climbed(Above)
<1>1. IsFiniteSet(LiveNodes) /\ Cardinality(LiveNodes) \in Nat
  BY NodesFinite, FS_Subset, FS_CardinalityType DEF LiveNodes
<1>2. \A n \in LiveNodes : Depth(n) \in Nat /\ Depth(n) < Cardinality(LiveNodes) + 1
  <2>1. \A n \in LiveNodes : Heavier(n) \in SUBSET LiveNodes
    BY DEF Heavier
  <2>2. \A n \in LiveNodes : Cardinality(Heavier(n)) <= Cardinality(LiveNodes)
    BY <1>1, <2>1, FS_Subset
  <2> QED
    BY <1>1, <2>2, DepthFalls DEF Depth
<1>3. PICK g : RightUpTo(g, Cardinality(LiveNodes) + 1)
  BY <1>1, RightExists
<1>4. \A n \in LiveNodes : g[n] = Climbed(g)[n]
  BY <1>2, <1>3 DEF RightUpTo
<1>5. Climbed(g) = Climbed(Climbed(g))
  <2>1. ASSUME NEW n \in Nodes
        PROVE  Climbed(g)[n] = Climbed(Climbed(g))[n]
    <3>1. CASE ~IsLive(n) \/ node[n].parent = None
      BY <3>1 DEF Climbed
    <3>2. CASE IsLive(n) /\ node[n].parent # None
      <4>1. node[n].parent \in LiveNodes
        BY <3>2, ParentHeavier DEF LiveNodes
      <4>2. g[node[n].parent] = Climbed(g)[node[n].parent]
        BY <1>4, <4>1
      <4> QED
        BY <3>2, <4>2 DEF Climbed
    <3> QED
      BY <3>1, <3>2
  <2> DEFINE h == Climbed(g)
  <2>2. h = [n \in Nodes |-> h[n]]
    BY DEF Climbed
  <2>3. Climbed(h) = [n \in Nodes |-> Climbed(h)[n]]
    BY DEF Climbed
  <2> HIDE DEF h
  <2>4. h = Climbed(h)
    BY <2>1, <2>2, <2>3 DEF h
  <2> QED
    BY <2>4 DEF h
<1>6. \E f : f = Climbed(f)
  BY <1>5
<1> QED
  BY <1>6, Zenon DEF Above, Climbed

------------------------------------------------------------------------------
(* The ancestors of a node.                                                 *)

Up(n)    == Range(Above[n])
Chain(n) == {n} \cup Up(n)

LEMMA AboveSeq ==
  ASSUME WellFormed, NEW n \in LiveNodes
  PROVE  /\ Above[n] \in Seq(Internals)
         /\ node[n].parent = None => Above[n] = <<>>
         /\ node[n].parent # None => Above[n] = <<node[n].parent>> \o Above[node[n].parent]
<1>1. ASSUME NEW m \in LiveNodes
      PROVE  Above[m] = IF node[m].parent = None THEN <<>>
                        ELSE <<node[m].parent>> \o Above[node[m].parent]
  <2>1. Above[m] = Climbed(Above)[m]
    BY AboveIs
  <2> QED
    BY <2>1 DEF Climbed, LiveNodes
<1> DEFINE S == {m \in LiveNodes : Above[m] \notin Seq(Internals)}
<1>2. S = {}
  <2> SUFFICES ASSUME S # {} PROVE FALSE
    OBVIOUS
  <2>1. PICK m \in S : node[m].parent = None \/ node[m].parent \notin S
    <3>1. S \in SUBSET LiveNodes
      OBVIOUS
    <3> HIDE DEF S
    <3> QED
      BY <3>1, Topmost
  <2>2. CASE node[m].parent = None
    BY <1>1, <2>1, <2>2, EmptySeq
  <2>3. CASE node[m].parent # None
    <3>1. node[m].parent \in Internals /\ Above[node[m].parent] \in Seq(Internals)
      BY <2>1, <2>3, ParentHeavier
    <3>2. <<node[m].parent>> \in Seq(Internals)
      BY <3>1
    <3>3. <<node[m].parent>> \o Above[node[m].parent] \in Seq(Internals)
      BY <3>1, <3>2, ConcatProperties
    <3> QED
      BY <1>1, <2>1, <2>3, <3>3
  <2> QED
    BY <2>2, <2>3
<1> QED
  BY <1>1, <1>2

\* Prepending to a sequence adds one element to its range.
LEMMA RangePrepend ==
  ASSUME NEW S, NEW e \in S, NEW s \in Seq(S)
  PROVE  Range(<<e>> \o s) = {e} \cup Range(s)
<1> DEFINE c == <<e>> \o s
<1>1. <<e>> \in Seq(S) /\ Len(<<e>>) = 1 /\ <<e>>[1] = e
  OBVIOUS
<1>2. /\ c \in Seq(S) /\ Len(c) = 1 + Len(s)
      /\ \A i \in 1..1 + Len(s) : c[i] = IF i <= 1 THEN <<e>>[i] ELSE s[i - 1]
  BY <1>1, ConcatProperties
<1>3. DOMAIN c = 1..1 + Len(s) /\ DOMAIN s = 1..Len(s) /\ Len(s) \in Nat
  BY <1>2, LenProperties
<1>4. ASSUME NEW x \in Range(c)
      PROVE  x \in {e} \cup Range(s)
  <2>1. PICK i \in 1..1 + Len(s) : x = c[i]
    BY <1>3 DEF Range
  <2>2. CASE i <= 1
    BY <1>1, <1>2, <1>3, <2>1, <2>2
  <2>3. CASE i > 1
    <3>1. i - 1 \in DOMAIN s /\ x = s[i - 1]
      BY <1>2, <1>3, <2>1, <2>3
    <3> QED
      BY <3>1 DEF Range
  <2> QED
    BY <2>2, <2>3
<1>5. e \in Range(c)
  <2>1. 1 \in DOMAIN c /\ c[1] = e
    BY <1>1, <1>2, <1>3
  <2> QED
    BY <2>1 DEF Range
<1>6. ASSUME NEW x \in Range(s)
      PROVE  x \in Range(c)
  <2>1. PICK i \in 1..Len(s) : x = s[i]
    BY <1>3, <1>6 DEF Range
  <2>2. i + 1 \in 1..1 + Len(s) /\ ~(i + 1 <= 1) /\ (i + 1) - 1 = i
    BY <1>3
  <2>3. i + 1 \in DOMAIN c /\ c[i + 1] = s[i]
    BY <1>2, <1>3, <2>2
  <2> QED
    BY <2>1, <2>3 DEF Range
<1> QED
  BY <1>4, <1>5, <1>6

LEMMA UpIs ==
  ASSUME WellFormed, NEW n \in LiveNodes
  PROVE  /\ node[n].parent = None => Up(n) = {}
         /\ node[n].parent # None => Up(n) = {node[n].parent} \cup Up(node[n].parent)
<1>1. ASSUME node[n].parent = None
      PROVE  Up(n) = {}
  <2>1. Above[n] = <<>>
    BY <1>1, AboveSeq
  <2>2. Range(<<>>) = {}
    BY DEF Range
  <2> QED
    BY <2>1, <2>2 DEF Up
<1>2. ASSUME node[n].parent # None
      PROVE  Up(n) = {node[n].parent} \cup Up(node[n].parent)
  <2>1. node[n].parent \in LiveNodes /\ node[n].parent \in Internals
    BY <1>2, ParentHeavier
  <2>2. Above[node[n].parent] \in Seq(Internals)
    BY <2>1, AboveSeq
  <2>3. Above[n] = <<node[n].parent>> \o Above[node[n].parent]
    BY <1>2, AboveSeq
  <2>4. Range(<<node[n].parent>> \o Above[node[n].parent])
          = {node[n].parent} \cup Range(Above[node[n].parent])
    BY <2>1, <2>2, RangePrepend
  <2> QED
    BY <2>3, <2>4 DEF Up
<1> QED
  BY <1>1, <1>2

\* Ancestors are live internal nodes, and heavier.
LEMMA UpHeavier ==
  ASSUME WellFormed, NEW n \in LiveNodes, NEW a \in Up(n)
  PROVE  /\ a \in LiveNodes /\ a \in Internals /\ node[n].mass < node[a].mass
         /\ a # n /\ node[n].parent # None
<1> DEFINE Good(m) == \A b \in Up(m) :
                        b \in LiveNodes /\ b \in Internals /\ node[m].mass < node[b].mass
           S == {m \in LiveNodes : ~Good(m)}
<1>1. S = {}
  <2> SUFFICES ASSUME S # {} PROVE FALSE
    OBVIOUS
  <2>1. PICK m \in S : node[m].parent = None \/ node[m].parent \notin S
    <3>1. S \in SUBSET LiveNodes
      OBVIOUS
    <3> HIDE DEF S
    <3> QED
      BY <3>1, Topmost
  <2>2. CASE node[m].parent = None
    BY <2>1, <2>2, UpIs
  <2>3. CASE node[m].parent # None
    <3> DEFINE p == node[m].parent
    <3>1. p \in LiveNodes /\ p \in Internals /\ node[m].mass < node[p].mass
      BY <2>1, <2>3, ParentHeavier
    <3>2. Good(p)
      BY <2>1, <2>3, <3>1
    <3>3. Up(m) = {p} \cup Up(p)
      BY <2>1, <2>3, UpIs
    <3>4. \A k \in LiveNodes : node[k].mass \in Nat
      BY LiveNode DEF WellFormed
    <3>5. Good(m)
      BY <2>1, <3>1, <3>2, <3>3, <3>4
    <3> QED
      BY <2>1, <3>5
  <2> QED
    BY <2>2, <2>3
<1>2. a \in LiveNodes /\ a \in Internals /\ node[n].mass < node[a].mass
  BY <1>1
<1>3. node[n].mass \in Nat
  BY LiveNode DEF WellFormed
<1>4. node[n].parent # None
  BY UpIs
<1> QED
  BY <1>2, <1>3, <1>4

\* An ancestor's parent is an ancestor.
LEMMA UpClosed ==
  ASSUME WellFormed, NEW n \in LiveNodes, NEW a \in Chain(n), node[a].parent # None
  PROVE  node[a].parent \in Up(n)
<1> DEFINE Good(m) == \A b \in Chain(m) : node[b].parent # None => node[b].parent \in Up(m)
           S == {m \in LiveNodes : ~Good(m)}
<1>1. S = {}
  <2> SUFFICES ASSUME S # {} PROVE FALSE
    OBVIOUS
  <2>1. PICK m \in S : node[m].parent = None \/ node[m].parent \notin S
    <3>1. S \in SUBSET LiveNodes
      OBVIOUS
    <3> HIDE DEF S
    <3> QED
      BY <3>1, Topmost
  <2>2. CASE node[m].parent = None
    BY <2>1, <2>2, UpIs DEF Chain
  <2>3. CASE node[m].parent # None
    <3>1. node[m].parent \in LiveNodes
      BY <2>1, <2>3, ParentHeavier
    <3>2. Good(node[m].parent)
      BY <2>1, <2>3, <3>1
    <3>3. Up(m) = {node[m].parent} \cup Up(node[m].parent)
      BY <2>1, <2>3, UpIs
    <3>4. Good(m)
      BY <3>2, <3>3 DEF Chain
    <3> QED
      BY <2>1, <3>4
  <2> QED
    BY <2>2, <2>3
<1> QED
  BY <1>1

\* Of an ancestor's two children one is on the way down, and of other nodes none.
LEMMA OneChild ==
  ASSUME WellFormed, NEW n \in LiveNodes, NEW a \in LiveNodes, a \in Internals
  PROVE  /\ a \in Up(n) => \/ node[a].left \in Chain(n) /\ node[a].right \notin Chain(n)
                           \/ node[a].left \notin Chain(n) /\ node[a].right \in Chain(n)
         /\ a \notin Up(n) => node[a].left \notin Chain(n) /\ node[a].right \notin Chain(n)
<1> DEFINE Good(m) == \A b \in Up(m) :
                         \/ node[b].left \in Chain(m) /\ node[b].right \notin Chain(m)
                         \/ node[b].left \notin Chain(m) /\ node[b].right \in Chain(m)
           S == {m \in LiveNodes : ~Good(m)}
<1>1. S = {}
  <2> SUFFICES ASSUME S # {} PROVE FALSE
    OBVIOUS
  <2>1. PICK m \in S : node[m].parent = None \/ node[m].parent \notin S
    <3>1. S \in SUBSET LiveNodes
      OBVIOUS
    <3> HIDE DEF S
    <3> QED
      BY <3>1, Topmost
  <2>2. CASE node[m].parent = None
    BY <2>1, <2>2, UpIs
  <2>3. CASE node[m].parent # None
    <3> DEFINE p == node[m].parent
    <3>1. p \in LiveNodes /\ p \in Internals
      BY <2>1, <2>3, ParentHeavier
    <3>2. Good(p)
      BY <2>1, <2>3, <3>1
    <3>3. Up(m) = {p} \cup Up(p) /\ Chain(m) = {m} \cup Chain(p)
      BY <2>1, <2>3, UpIs DEF Chain
    <3>4. ASSUME NEW b \in Up(p)
          PROVE  /\ node[b].left \in Chain(m) <=> node[b].left \in Chain(p)
                 /\ node[b].right \in Chain(m) <=> node[b].right \in Chain(p)
      <4>1. b \in LiveNodes /\ b \in Internals /\ b # p
        BY <3>1, <3>4, UpHeavier
      <4>2. node[node[b].left].parent = b /\ node[node[b].right].parent = b
        BY <4>1, Children
      <4> QED
        BY <3>3, <4>1, <4>2
    <3>5. \/ node[p].left \in Chain(m) /\ node[p].right \notin Chain(m)
          \/ node[p].left \notin Chain(m) /\ node[p].right \in Chain(m)
      <4>1. m = node[p].left \/ m = node[p].right
        BY <2>1, <2>3, ParentHeavier
      <4>2. ASSUME NEW c \in {node[p].left, node[p].right}
            PROVE  c \notin Chain(p)
        <5>1. c \in LiveNodes /\ node[c].parent = p
          BY <3>1, <4>2, Children
        <5>2. p # None
          BY <2>3
        <5>3. node[c].mass \in Nat /\ node[p].mass \in Nat /\ node[c].mass < node[p].mass
          BY <3>1, <5>1, <5>2, ParentHeavier, LiveNode DEF WellFormed
        <5>4. \A b \in Up(p) : node[b].mass \in Nat /\ node[p].mass < node[b].mass
          BY <3>1, UpHeavier, LiveNode DEF WellFormed
        <5> QED
          BY <5>3, <5>4 DEF Chain
      <4>3. node[p].left # node[p].right
        BY <3>1, Children
      <4> QED
        BY <3>3, <4>1, <4>2, <4>3
    <3>6. Good(m)
      BY <3>2, <3>3, <3>4, <3>5
    <3> QED
      BY <2>1, <3>6
  <2> QED
    BY <2>2, <2>3
<1>2. ASSUME a \notin Up(n)
      PROVE  node[a].left \notin Chain(n) /\ node[a].right \notin Chain(n)
  <2>1. node[node[a].left].parent = a /\ node[node[a].right].parent = a
    BY Children
  <2>2. a # None
    BY TreeAssumption DEF Nodes
  <2> QED
    BY <1>2, <2>1, <2>2, UpClosed
<1> QED
  BY <1>1, <1>2

------------------------------------------------------------------------------
(* Records, boxes and free nodes.                                           *)

LEMMA MergedBoxes ==
  ASSUME NEW b \in Boxes, NEW c \in Boxes
  PROVE  Merged(b, c) \in Boxes
BY DEF Merged, Boxes, Lower, Upper

LEMMA PointBox ==
  ASSUME NEW x \in Coords
  PROVE  FromPoint(x) \in Boxes /\ x \in [Axes -> Marks]
<1>1. x \in [Axes -> Int]
  BY TreeAssumption
<1>2. \A d \in Axes : x[d] \in Marks
  BY DEF Marks
<1> QED
  BY <1>1, <1>2 DEF FromPoint, Boxes

\* Marks are integers.
LEMMA MarksAreInts == Marks \subseteq Int
BY TreeAssumption DEF Marks

LEMMA MovedLeaf ==
  ASSUME NEW r \in LeafNode, NEW p \in Parents
  PROVE  LET g == [r EXCEPT !.parent = p] IN
         g \in LeafNode /\ g.point = r.point /\ g.parent = p /\ g.mass = r.mass
BY DEF LeafNode

LEMMA MovedInner ==
  ASSUME NEW r \in InnerNode, NEW p \in Parents
  PROVE  LET g == [r EXCEPT !.parent = p] IN
         /\ g \in InnerNode /\ g.parent = p /\ g.mass = r.mass
         /\ g.cut = r.cut /\ g.box = r.box /\ g.left = r.left /\ g.right = r.right
BY DEF InnerNode

LEMMA WeighedLeaf ==
  ASSUME NEW r \in LeafNode, NEW k \in Int, r.mass + k > 0, NEW p \in Points
  PROVE  LET g == [AddMass(r, k) EXCEPT !.point = p] IN
         /\ g \in LeafNode /\ g.point = p /\ g.parent = r.parent /\ g.mass = r.mass + k
         /\ p = r.point => g = AddMass(r, k)
<1>1. r.mass + k \in Nat \ {0}
  BY DEF LeafNode
<1> QED
  BY <1>1 DEF LeafNode, AddMass

LEMMA WeighedInner ==
  ASSUME NEW r \in InnerNode, NEW k \in Int, r.mass + k > 0
  PROVE  LET g == AddMass(r, k) IN
         /\ g \in InnerNode /\ g.parent = r.parent /\ g.mass = r.mass + k
         /\ g.cut = r.cut /\ g.box = r.box /\ g.left = r.left /\ g.right = r.right
<1>1. r.mass + k \in Nat \ {0}
  BY DEF InnerNode
<1> QED
  BY <1>1 DEF InnerNode, AddMass

LEMMA BoxedInner ==
  ASSUME NEW r \in InnerNode, NEW b \in Boxes
  PROVE  LET g == [r EXCEPT !.box = b] IN
         /\ g \in InnerNode /\ g.parent = r.parent /\ g.mass = r.mass
         /\ g.cut = r.cut /\ g.box = b /\ g.left = r.left /\ g.right = r.right
BY DEF InnerNode

LEMMA ReplacedInner ==
  ASSUME NEW r \in InnerNode, NEW c \in {r.left, r.right}, NEW d \in Nodes, r.left # r.right
  PROVE  LET g == Replaced(r, c, d) IN
         /\ g \in InnerNode /\ g.parent = r.parent /\ g.mass = r.mass
         /\ g.cut = r.cut /\ g.box = r.box
         /\ g.left  = IF r.left = c THEN d ELSE r.left
         /\ g.right = IF r.right = c THEN d ELSE r.right
BY DEF InnerNode, Replaced

LEMMA LowestFree ==
  ASSUME NEW arena \in SUBSET Nodes, \E n \in arena : ~IsLive(n)
  PROVE  Lowest(arena) \in arena /\ ~IsLive(Lowest(arena))
<1> DEFINE F == {n \in arena : ~IsLive(n)}
<1>1. F \subseteq Nat /\ F # {}
  BY NodesFinite
<1>2. PICK n \in F : \A m \in F : ~ (<<m, n>> \in OpToRel(<, Nat))
  <2> HIDE DEF F
  <2> QED
    BY <1>1, WFMin, NatLessThanWellFounded
<1>3. \A m \in F : n <= m
  <2> HIDE DEF F
  <2>1. \A m \in F : m \in Nat /\ n \in Nat /\ ~ (m < n)
    BY <1>1, <1>2 DEF OpToRel
  <2> QED
    BY <2>1
<1>4. n \in arena /\ ~IsLive(n) /\ \A m \in arena : ~IsLive(m) => n <= m
  BY <1>3
<1> QED
  BY <1>4 DEF Lowest

LEMMA PresentFinite ==
  /\ IsFiniteSet({q \in Points : Present(q)})
  /\ \A n : IsFiniteSet(Sharers(n)) /\ Cardinality(Sharers(n)) \in Nat
<1>1. \A n : Sharers(n) \in SUBSET Points
  BY DEF Sharers
<1> QED
  BY <1>1, TreeAssumption, FS_Subset, FS_CardinalityType

\* While fewer points than leaves are in the tree, a leaf is free: each live
\* leaf goes by a point of its own.
LEMMA RoomForLeaf ==
  ASSUME WellFormed, Cardinality({q \in Points : Present(q)}) < Capacity
  PROVE  NewLeaf \in Leaves /\ NewLeaf \in Nodes /\ ~IsLive(NewLeaf) /\ NewLeaf \notin LiveNodes
<1> DEFINE Q == {q \in Points : Present(q)}
           f == [l \in Leaves |-> node[l].point]
<1>1. \E n \in Leaves : ~IsLive(n)
  <2> SUFFICES ASSUME \A n \in Leaves : IsLive(n)
               PROVE  FALSE
    OBVIOUS
  <2>1. \A l \in Leaves : node[l].point \in Points /\ leaf_index[node[l].point] = l
    <3> TAKE l \in Leaves
    <3>1. l \in LiveNodes \cap Leaves
      BY DEF LiveNodes, Nodes
    <3> QED
      BY <3>1 DEF WellFormed, MassIsCount, Sharers
  <2>2. \A l \in Leaves : node[l].point \in Q
    BY <2>1, NodesFinite, TreeAssumption DEF Present, Nodes
  <2>3. f \in Injection(Leaves, Q)
    <3>1. f \in [Leaves -> Q]
      BY <2>2
    <3>2. \A k, l \in Leaves : f[k] = f[l] => k = l
      BY <2>1
    <3> QED
      BY <3>1, <3>2 DEF Injection, IsInjective
  <2>4. IsFiniteSet(Q)
    BY PresentFinite
  <2> HIDE DEF f, Q
  <2>5. Cardinality(Leaves) <= Cardinality(Q)
    BY <2>3, <2>4, FS_Injection DEF Injection
  <2> QED
    BY <2>4, <2>5, NodesFinite, FS_CardinalityType, TreeAssumption DEF Q
<1>2. NewLeaf \in Leaves /\ ~IsLive(NewLeaf)
  BY <1>1, LowestFree DEF NewLeaf, Nodes
<1> QED
  BY <1>2 DEF Nodes, LiveNodes

\* There is one internal node less than there are leaves, so one is free.
LEMMA RoomForInternal ==
  ASSUME WellFormed, root # None
  PROVE  /\ NewInternal \in Internals /\ NewInternal \in Nodes
         /\ ~IsLive(NewInternal) /\ NewInternal \notin LiveNodes
<1>1. \E n \in Internals : ~IsLive(n)
  <2> SUFFICES ASSUME \A n \in Internals : IsLive(n)
               PROVE  FALSE
    OBVIOUS
  <2>1. LiveNodes \cap Internals = Internals
    BY DEF LiveNodes, Nodes
  <2>2. Capacity = Cardinality(LiveNodes \cap Leaves) - 1
    BY <2>1, NodesFinite DEF WellFormed, SizeInv
  <2>3. LiveNodes \cap Leaves \in SUBSET Leaves
    OBVIOUS
  <2>4. Cardinality(LiveNodes \cap Leaves) <= Capacity
        /\ Cardinality(LiveNodes \cap Leaves) \in Nat
    BY <2>3, NodesFinite, FS_Subset, FS_CardinalityType
  <2> QED
    BY <2>2, <2>4, TreeAssumption
<1>2. NewInternal \in Internals /\ ~IsLive(NewInternal)
  BY <1>1, LowestFree DEF NewInternal, Nodes
<1> QED
  BY <1>2 DEF Nodes, LiveNodes

------------------------------------------------------------------------------
(* Initially.                                                               *)

LEMMA InitTree == Init => TreeInv
<1> SUFFICES ASSUME Init PROVE TreeInv
  OBVIOUS
<1>1. LiveNodes = {} /\ \A p \in Points : ~Present(p)
  BY DEF Init, LiveNodes, IsLive, Present
<1>2. TypeOK
  BY DEF Init, TypeOK, IsLive, Nodes
<1>3. LiveNodes \cap Internals = {} /\ root = None
  BY <1>1 DEF Init
<1>4. SizeInv
  BY <1>3, FS_EmptySet DEF SizeInv
<1>5. MassIsCount /\ RootInv /\ ParentInv /\ ChildInv
  BY <1>1, <1>3 DEF MassIsCount, RootInv, ParentInv, ChildInv
<1> QED
  BY <1>1, <1>2, <1>4, <1>5 DEF TreeInv, WellFormed, AddingInv, CoordInv, Init

------------------------------------------------------------------------------
(* Masses along a path.                                                     *)

LEMMA SameShape ==
  ASSUME WellFormed, LiveNodes' = LiveNodes, root' = root,
         \A n \in LiveNodes : node'[n].parent = node[n].parent,
         \A n \in LiveNodes \cap Internals :
           node'[n].left = node[n].left /\ node'[n].right = node[n].right
  PROVE  RootInv' /\ ParentInv' /\ ChildInv' /\ SizeInv'
<1>1. \A n \in Nodes : IsLive(n)' <=> IsLive(n)
  BY DEF LiveNodes
<1>2. root # None => root \in LiveNodes
  BY DEF WellFormed, RootInv, TypeOK, LiveNodes
<1>3. RootInv'
  BY <1>1, <1>2 DEF WellFormed, RootInv, LiveNodes
<1>4. ParentInv'
  <2> SUFFICES ASSUME NEW n \in LiveNodes, n # root
               PROVE  /\ node'[n].parent # None /\ node'[node'[n].parent] # None
                      /\ n \in {node'[node'[n].parent].left, node'[node'[n].parent].right}
    BY DEF ParentInv, IsLive
  <2>1. node[n].parent # None
    BY DEF WellFormed, ParentInv
  <2>2. /\ node[n].parent \in LiveNodes /\ node[n].parent \in Internals
        /\ n = node[node[n].parent].left \/ n = node[node[n].parent].right
    BY <2>1, ParentHeavier
  <2>3. IsLive(node[n].parent)'
    BY <1>1, <2>2 DEF LiveNodes
  <2> QED
    BY <2>1, <2>2, <2>3 DEF IsLive
<1>5. ChildInv'
  <2> SUFFICES ASSUME NEW n \in LiveNodes, n \in Internals
               PROVE  /\ node'[n].left # node'[n].right
                      /\ \A c \in {node'[n].left, node'[n].right} :
                           IsLive(c)' /\ node'[c].parent = n
    BY DEF ChildInv
  <2>1. /\ node[n].left \in LiveNodes /\ node[n].right \in LiveNodes
        /\ node[n].left # node[n].right
        /\ node[node[n].left].parent = n /\ node[node[n].right].parent = n
    BY Children
  <2>2. IsLive(node[n].left)' /\ IsLive(node[n].right)'
    BY <1>1, <2>1 DEF LiveNodes
  <2> QED
    BY <2>1, <2>2
<1>6. SizeInv'
  BY DEF WellFormed, SizeInv
<1> QED
  BY <1>3, <1>4, <1>5, <1>6

\* A leaf and its ancestors change by k, and the leaf may go by another point.
Weighed(leaf, k, p) ==
  node' = [m \in Nodes |->
    IF m = leaf THEN [AddMass(node[m], k) EXCEPT !.point = p]
    ELSE IF m \in Up(leaf) THEN AddMass(node[m], k)
    ELSE node[m]]

LEMMA WeighedNode ==
  ASSUME WellFormed, NEW leaf \in LiveNodes, leaf \in Leaves, NEW k \in Int,
         node[leaf].mass + k > 0, NEW p \in Points, Weighed(leaf, k, p),
         NEW m \in LiveNodes
  PROVE  /\ m \in Leaves =>
              /\ node'[m] \in LeafNode
              /\ node'[m].point = IF m = leaf THEN p ELSE node[m].point
         /\ m \in Internals =>
              /\ node'[m] \in InnerNode /\ node'[m].cut = node[m].cut
              /\ node'[m].box = node[m].box
              /\ node'[m].left = node[m].left /\ node'[m].right = node[m].right
         /\ node'[m].parent = node[m].parent
         /\ node'[m].mass = IF m \in Chain(leaf) THEN node[m].mass + k ELSE node[m].mass
<1>0. m \in Nodes /\ leaf \notin Internals
      /\ (m \in Leaves => node[m] \in LeafNode /\ m \notin Internals)
      /\ (m \in Internals => node[m] \in InnerNode /\ m \notin Leaves)
      /\ (m \in Leaves \/ m \in Internals)
      /\ node[leaf] \in LeafNode
  BY LiveNode DEF WellFormed
<1>1. CASE m = leaf
  <2>1. node'[m] = [AddMass(node[m], k) EXCEPT !.point = p]
    BY <1>0, <1>1 DEF Weighed
  <2>2. m \in Chain(leaf) /\ m \notin Internals
    BY <1>0, <1>1 DEF Chain
  <2> QED
    BY <1>0, <1>1, <2>1, <2>2, WeighedLeaf
<1>2. CASE m # leaf /\ m \in Up(leaf)
  <2>1. node'[m] = AddMass(node[m], k) /\ m \in Chain(leaf)
    BY <1>0, <1>2 DEF Weighed, Chain
  <2>2. m \in Internals /\ m \notin Leaves /\ node[leaf].mass < node[m].mass
    BY <1>0, <1>2, UpHeavier, NodesFinite
  <2>3. node[m].mass + k > 0
    BY <1>0, <2>2, LiveNode DEF WellFormed
  <2> QED
    BY <1>0, <2>1, <2>2, <2>3, WeighedInner
<1>3. CASE m # leaf /\ m \notin Up(leaf)
  <2>1. node'[m] = node[m] /\ m \notin Chain(leaf)
    BY <1>0, <1>3 DEF Weighed, Chain
  <2> QED
    BY <1>0, <1>3, <2>1
<1> QED
  BY <1>1, <1>2, <1>3

LEMMA WeighedLive ==
  ASSUME WellFormed, NEW leaf \in LiveNodes, leaf \in Leaves, NEW k \in Int,
         node[leaf].mass + k > 0, NEW p \in Points, Weighed(leaf, k, p)
  PROVE  /\ LiveNodes' = LiveNodes
         /\ \A m \in Nodes : m \notin LiveNodes => node'[m] = None
<1>1. ASSUME NEW m \in Nodes, m \notin LiveNodes
      PROVE  node'[m] = None
  <2>1. m # leaf /\ m \notin Up(leaf) /\ node[m] = None
    BY <1>1, UpHeavier DEF LiveNodes, IsLive
  <2> QED
    BY <2>1 DEF Weighed
<1>2. ASSUME NEW m \in LiveNodes
      PROVE  node'[m] # None
  <2>1. node'[m] \in LeafNode \/ node'[m] \in InnerNode
    BY WeighedNode, LiveNode DEF WellFormed
  <2> QED
    BY <2>1, TreeAssumption
<1> QED
  BY <1>1, <1>2 DEF LiveNodes, IsLive

\* What it leaves of the tree.
LEMMA WeighedTree ==
  ASSUME WellFormed, NEW leaf \in LiveNodes, leaf \in Leaves, NEW k \in Int,
         node[leaf].mass + k > 0, NEW p \in Points, Weighed(leaf, k, p),
         root' = root, build' = build
  PROVE  /\ node' \in [Nodes -> LeafNode \cup InnerNode \cup {None}]
         /\ \A n \in Leaves : IsLive(n)' => node'[n] \in LeafNode
         /\ \A n \in Internals : IsLive(n)' =>
              node'[n] \in InnerNode /\ node'[n].cut.value \in CutGrid'[build']
         /\ RootInv' /\ ParentInv' /\ ChildInv' /\ SizeInv'
         /\ \A n \in LiveNodes' \cap Internals :
              node'[n].mass = node'[node'[n].left].mass + node'[node'[n].right].mass
<1>1. LiveNodes' = LiveNodes /\ \A m \in Nodes : m \notin LiveNodes => node'[m] = None
  BY WeighedLive
<1>2. \A m \in LiveNodes :
         /\ m \in Leaves => node'[m] \in LeafNode
         /\ m \in Internals => node'[m] \in InnerNode /\ node'[m].cut = node[m].cut
  BY WeighedNode
<1>3. \A n \in Nodes : IsLive(n)' => n \in LiveNodes
  BY <1>1 DEF LiveNodes
<1>4. node' \in [Nodes -> LeafNode \cup InnerNode \cup {None}]
  <2>1. \A m \in Nodes : node'[m] \in LeafNode \cup InnerNode \cup {None}
    BY <1>1, <1>2 DEF Nodes
  <2>2. node' = [m \in Nodes |-> node'[m]]
    BY DEF Weighed
  <2> QED
    BY <2>1, <2>2
<1>5. \A n \in Internals : IsLive(n)' => node'[n].cut.value \in CutGrid[build]
  <2>1. \A n \in LiveNodes : n \in Internals => node[n].cut.value \in CutGrid[build]
    BY DEF WellFormed, TypeOK, LiveNodes
  <2> QED
    BY <1>2, <1>3, <2>1 DEF Nodes
<1>6. RootInv' /\ ParentInv' /\ ChildInv' /\ SizeInv'
  <2>1. \A n \in LiveNodes : node'[n].parent = node[n].parent
    BY WeighedNode
  <2>2. \A n \in LiveNodes \cap Internals :
          node'[n].left = node[n].left /\ node'[n].right = node[n].right
    BY WeighedNode
  <2> QED
    BY <1>1, <2>1, <2>2, SameShape
<1>7. ASSUME NEW n \in LiveNodes, n \in Internals
      PROVE  node'[n].mass = node'[node'[n].left].mass + node'[node'[n].right].mass
  <2> DEFINE l == node[n].left
             r == node[n].right
  <2>1. /\ l \in LiveNodes /\ r \in LiveNodes /\ node[n].mass = node[l].mass + node[r].mass
        /\ node'[n].left = l /\ node'[n].right = r
    BY <1>7, Children, WeighedNode
  <2>2. \A m \in LiveNodes :
          node'[m].mass = IF m \in Chain(leaf) THEN node[m].mass + k ELSE node[m].mass
    BY WeighedNode
  <2>3. node[n].mass \in Nat /\ node[l].mass \in Nat /\ node[r].mass \in Nat
    BY <1>7, <2>1, LiveNode DEF WellFormed
  <2>4. n # leaf
    BY <1>7, NodesFinite
  <2>5. CASE n \in Up(leaf)
    <3>1. \/ l \in Chain(leaf) /\ r \notin Chain(leaf)
          \/ l \notin Chain(leaf) /\ r \in Chain(leaf)
      BY <1>7, <2>5, OneChild
    <3>2. n \in Chain(leaf)
      BY <2>5 DEF Chain
    <3> QED
      BY <1>7, <2>1, <2>2, <2>3, <3>1, <3>2
  <2>6. CASE n \notin Up(leaf)
    <3>1. l \notin Chain(leaf) /\ r \notin Chain(leaf)
      BY <1>7, <2>6, OneChild
    <3>2. n \notin Chain(leaf)
      BY <2>4, <2>6 DEF Chain
    <3> QED
      BY <1>7, <2>1, <2>2, <3>1, <3>2
  <2> QED
    BY <2>5, <2>6
<1> QED
  BY <1>1, <1>2, <1>3, <1>4, <1>5, <1>6, <1>7 DEF Nodes

------------------------------------------------------------------------------
(* An insertion begins, walks, is absorbed or refused.                      *)

LEMMA BeginTyped ==
  ASSUME TypeOK, NEW p \in Points, NEW x \in Coords, BeginAdd(p, x)
  PROVE  /\ coord' \in [Points -> Coords \cup {None}] /\ coord'[p] = x
         /\ \A q \in Points : q # p => coord'[q] = coord[q]
BY DEF TypeOK, BeginAdd

\* The first point.
LEMMA BeginFirst ==
  ASSUME TreeInv, NEW p \in Points, NEW x \in Coords, BeginAdd(p, x), root = None
  PROVE  TreeInv'
<1>0. WellFormed /\ TypeOK
  BY DEF TreeInv, WellFormed
<1> PICK l : l = NewLeaf
  OBVIOUS
<1>1. l \in Leaves /\ l \in Nodes /\ l \notin Internals
  BY <1>0, RoomForLeaf, NodesFinite DEF BeginAdd, Present
<1>2. /\ node' = [node EXCEPT ![l] = Leaf(p, None)] /\ root' = l /\ adding' = None
      /\ leaf_index' = [leaf_index EXCEPT ![p] = l] /\ build' = build
  BY DEF BeginAdd
<1>3. LiveNodes = {} /\ \A n \in Nodes : node[n] = None
  BY <1>0 DEF WellFormed, RootInv, LiveNodes, IsLive
<1>4. \A q \in Points : leaf_index[q] = None
  BY <1>0, <1>3 DEF WellFormed, Present, TypeOK, IsLive, Nodes
<1>5. Leaf(p, None) \in LeafNode /\ Leaf(p, None) # None
  BY TreeAssumption DEF Leaf, LeafNode, Parents
<1>6. node'[l] = Leaf(p, None) /\ \A n \in Nodes : n # l => node'[n] = None
  BY <1>0, <1>1, <1>2, <1>3 DEF TypeOK
<1>7. LiveNodes' = {l}
  BY <1>1, <1>5, <1>6 DEF LiveNodes, IsLive
<1>8. /\ leaf_index'[p] = l /\ \A q \in Points : q # p => leaf_index'[q] = None
      /\ leaf_index' \in [Points -> Leaves \cup {None}]
  BY <1>0, <1>1, <1>2, <1>4 DEF TypeOK
<1>9. TypeOK'
  <2>1. node' \in [Nodes -> LeafNode \cup InnerNode \cup {None}]
    BY <1>0, <1>2, <1>5 DEF TypeOK
  <2>2. \A n \in Leaves : IsLive(n)' => node'[n] \in LeafNode
    BY <1>5, <1>6 DEF IsLive, Nodes
  <2>3. \A n \in Internals : ~IsLive(n)'
    BY <1>1, <1>6 DEF IsLive, Nodes
  <2> QED
    BY <1>0, <1>1, <1>2, <1>8, <2>1, <2>2, <2>3, BeginTyped DEF TypeOK
<1>10. MassIsCount'
  <2>1. Sharers(l)' = {p}
    BY <1>1, <1>8, TreeAssumption DEF Sharers, Nodes
  <2>2. Cardinality({p}) = 1
    BY FS_Singleton
  <2>3. node'[l].mass = 1 /\ node'[l].point = p
    BY <1>6 DEF Leaf
  <2> QED
    BY <1>1, <1>7, <2>1, <2>2, <2>3 DEF MassIsCount
<1>11. RootInv' /\ ParentInv' /\ ChildInv'
  <2>1. l # None /\ IsLive(l)' /\ node'[l].parent = None
    BY <1>1, <1>5, <1>6, TreeAssumption DEF IsLive, Leaf
  <2> QED
    BY <1>1, <1>2, <1>7, <2>1 DEF RootInv, ParentInv, ChildInv
<1>12. SizeInv'
  <2>1. LiveNodes' \cap Internals = {} /\ LiveNodes' \cap Leaves = {l}
    BY <1>1, <1>7
  <2>2. Cardinality({l}) = 1 /\ Cardinality({}) = 0
    BY FS_Singleton, FS_EmptySet
  <2> QED
    BY <1>2, <2>1, <2>2 DEF SizeInv
<1>13. \A q \in Points : Present(q)' => IsLive(leaf_index[q])'
  BY <1>5, <1>6, <1>8 DEF Present, IsLive
<1>14. CoordInv'
  <2>1. coord'[p] = x /\ x # None
    BY <1>0, BeginTyped, TreeAssumption
  <2> QED
    BY <1>6, <1>8, <2>1 DEF CoordInv, Present, Leaf
<1> QED
  BY <1>2, <1>9, <1>10, <1>11, <1>12, <1>13, <1>14 DEF TreeInv, WellFormed, AddingInv

\* What depends on the nodes only stays while they do.
LEMMA NodesUnchanged ==
  ASSUME WellFormed, node' = node, root' = root, leaf_index' = leaf_index, build' = build
  PROVE  /\ MassIsCount' /\ RootInv' /\ ParentInv' /\ ChildInv' /\ SizeInv'
         /\ \A q \in Points : Present(q)' => IsLive(leaf_index[q])'
         /\ \A n \in Leaves : IsLive(n)' => node'[n] \in LeafNode
         /\ \A n \in Internals : IsLive(n)' =>
              node'[n] \in InnerNode /\ node'[n].cut.value \in CutGrid'[build']
         /\ Above' = Above
<1>1. Above' = Above
  BY DEF Above, IsLive
<1>2. LiveNodes' = LiveNodes /\ \A n : Sharers(n)' = Sharers(n)
  BY DEF LiveNodes, IsLive, Sharers
<1>3. MassIsCount'
  BY <1>2 DEF WellFormed, MassIsCount
<1>4. RootInv' /\ ParentInv' /\ ChildInv' /\ SizeInv'
  BY <1>2 DEF WellFormed, RootInv, ParentInv, ChildInv, SizeInv, IsLive
<1> QED
  BY <1>1, <1>3, <1>4 DEF WellFormed, TypeOK, Present, IsLive

LEMMA BeginWalk ==
  ASSUME TreeInv, NEW p \in Points, NEW x \in Coords, BeginAdd(p, x), root # None
  PROVE  TreeInv'
<1>0. WellFormed /\ TypeOK
  BY DEF TreeInv, WellFormed
<1>1. /\ node' = node /\ root' = root /\ leaf_index' = leaf_index /\ build' = build
      /\ adding' = [point |-> p, at |-> root] /\ ~Present(p)
      /\ Cardinality({q \in Points : Present(q)}) < Capacity
  BY DEF BeginAdd, Present
<1>2. root \in LiveNodes /\ root \in Nodes /\ node[root].parent = None
  BY <1>0 DEF WellFormed, RootInv, TypeOK, LiveNodes
<1>3. adding' \in Adding /\ adding'.point = p /\ adding'.at = root
  BY <1>1, <1>2 DEF Adding
<1>4. TypeOK'
  BY <1>0, <1>1, <1>3, BeginTyped, NodesUnchanged DEF TypeOK
<1>5. WellFormed'
  BY <1>0, <1>1, <1>4, NodesUnchanged DEF WellFormed
<1>6. AddingInv'
  <2>1. Range(Above'[root]) = {}
    BY <1>0, <1>1, <1>2, NodesUnchanged, UpIs DEF Up
  <2>2. node'[root] # None /\ leaf_index'[p] = None /\ coord'[p] # None
    BY <1>0, <1>1, <1>2, BeginTyped, TreeAssumption DEF LiveNodes, IsLive, Present
  <2>3. Cardinality({q \in Points : leaf_index'[q] # None}) < Capacity
    BY <1>1 DEF Present
  <2> QED
    BY <1>3, <2>1, <2>2, <2>3 DEF AddingInv, NewX, IsLive, Present
<1>7. CoordInv'
  <2> SUFFICES ASSUME NEW q \in Points, leaf_index[q] # None
               PROVE  /\ coord'[q] # None
                      /\ ~Packed' => coord'[q] = coord'[node'[leaf_index[q]].point]
    BY <1>1 DEF CoordInv, Present
  <2>1. q # p
    BY <1>1 DEF Present
  <2>2. leaf_index[q] \in LiveNodes /\ leaf_index[q] \in Leaves
    BY <1>0 DEF WellFormed, TypeOK, Present, LiveNodes, Nodes
  <2>3. leaf_index[node[leaf_index[q]].point] # None /\ node[leaf_index[q]].point \in Points
    BY <1>0, <2>2 DEF WellFormed, MassIsCount, Sharers
  <2>4. node[leaf_index[q]].point # p
    BY <1>1, <2>3 DEF Present
  <2>5. coord'[q] = coord[q] /\ coord'[node[leaf_index[q]].point] = coord[node[leaf_index[q]].point]
    BY <1>0, <2>1, <2>3, <2>4, BeginTyped
  <2> QED
    BY <1>1, <2>5 DEF TreeInv, CoordInv, Present, Packed
<1> QED
  BY <1>5, <1>6, <1>7 DEF TreeInv

\* The walk goes on to a child, and passes the node it was at.
LEMMA DescendStep ==
  ASSUME TreeInv, Descend
  PROVE  TreeInv'
<1>0. WellFormed /\ TypeOK /\ AddingInv
  BY DEF TreeInv, WellFormed
<1> PICK n : n = adding.at
  OBVIOUS
<1> PICK c : c = Routed(n, NewX)
  OBVIOUS
<1>1. /\ node' = node /\ root' = root /\ leaf_index' = leaf_index /\ build' = build
      /\ coord' = coord /\ adding' = [adding EXCEPT !.at = c]
      /\ adding # None /\ n \in Internals
  BY DEF Descend
<1>2. adding \in Adding /\ n \in LiveNodes
  BY <1>0, <1>1 DEF TypeOK, AddingInv, Adding, LiveNodes
<1>3. c \in LiveNodes /\ c \in Nodes /\ node[c].parent = n /\ n # None
  <2>1. c = node[n].left \/ c = node[n].right
    BY DEF Routed
  <2> QED
    BY <1>0, <1>1, <1>2, <2>1, Children, TreeAssumption DEF LiveNodes
<1>4. adding' \in Adding /\ adding'.point = adding.point /\ adding'.at = c
  BY <1>1, <1>2, <1>3 DEF Adding
<1>5. TypeOK'
  BY <1>0, <1>1, <1>4, NodesUnchanged DEF TypeOK
<1>6. WellFormed'
  BY <1>0, <1>1, <1>5, NodesUnchanged DEF WellFormed
<1>7. AddingInv'
  <2>1. Up(c) = {n} \cup Up(n)
    BY <1>0, <1>3, UpIs
  <2>2. Range(Above'[c]) = {n} \cup Up(n)
    BY <1>0, <1>1, <2>1, NodesUnchanged DEF Up
  <2>3. NewX' = NewX
    BY <1>1, <1>4 DEF NewX
  <2>4. \A a \in {n} \cup Up(n) : Routed(a, NewX)' = Routed(a, NewX)
    BY <1>1, <2>3 DEF Routed, LeftOf
  <2>5. \A a \in Up(n) : Routed(a, NewX) \in {n} \cup Up(n)
    BY <1>0, <1>1 DEF AddingInv, Up
  <2>6. \A a \in Range(Above'[c]) : Routed(a, NewX)' \in {c} \cup Range(Above'[c])
    BY <2>2, <2>4, <2>5
  <2>7. /\ node'[c] # None /\ leaf_index'[adding.point] = None /\ NewX # None
        /\ Cardinality({q \in Points : leaf_index'[q] # None}) < Capacity
    BY <1>0, <1>1, <1>3 DEF LiveNodes, IsLive, AddingInv, Present
  <2> QED
    BY <1>4, <2>3, <2>6, <2>7 DEF AddingInv, IsLive, Present
<1>8. CoordInv'
  BY <1>1 DEF TreeInv, CoordInv, Present, Packed
<1> QED
  BY <1>6, <1>7, <1>8 DEF TreeInv

LEMMA RefuseStep ==
  ASSUME TreeInv, Refuse
  PROVE  TreeInv'
<1>0. WellFormed /\ TypeOK /\ AddingInv
  BY DEF TreeInv, WellFormed
<1> PICK p : p = adding.point
  OBVIOUS
<1>1. /\ node' = node /\ root' = root /\ leaf_index' = leaf_index /\ build' = build
      /\ adding' = None /\ coord' = [coord EXCEPT ![p] = None]
      /\ p \in Points /\ leaf_index[p] = None
  BY <1>0 DEF Refuse, TypeOK, Adding, AddingInv, Present
<1>2. coord' \in [Points -> Coords \cup {None}] /\ \A q \in Points : q # p => coord'[q] = coord[q]
  BY <1>0, <1>1 DEF TypeOK
<1>3. TypeOK'
  BY <1>0, <1>1, <1>2, NodesUnchanged DEF TypeOK
<1>4. WellFormed'
  BY <1>0, <1>1, <1>3, NodesUnchanged DEF WellFormed
<1>5. CoordInv'
  <2> SUFFICES ASSUME NEW q \in Points, leaf_index[q] # None
               PROVE  /\ coord'[q] # None
                      /\ ~Packed' => coord'[q] = coord'[node'[leaf_index[q]].point]
    BY <1>1 DEF CoordInv, Present
  <2>1. leaf_index[q] \in LiveNodes /\ leaf_index[q] \in Leaves
    BY <1>0 DEF WellFormed, TypeOK, Present, LiveNodes, Nodes
  <2>2. leaf_index[node[leaf_index[q]].point] = leaf_index[q] /\ node[leaf_index[q]].point \in Points
    BY <1>0, <2>1 DEF WellFormed, MassIsCount, Sharers
  <2>3. coord'[q] = coord[q] /\ coord'[node[leaf_index[q]].point] = coord[node[leaf_index[q]].point]
    BY <1>1, <1>2, <2>2
  <2> QED
    BY <1>1, <2>3 DEF TreeInv, CoordInv, Present, Packed
<1> QED
  BY <1>1, <1>4, <1>5 DEF TreeInv, AddingInv

\* With no cut between a leaf's point and another, the two are one.
LEMMA NoCutNoGap ==
  ASSUME ~Packed, NEW x \in Coords, NEW y \in Coords, RandomCuts(FromPoint(y), x) = {}
  PROVE  x = y
<1> DEFINE a == Extend(FromPoint(y), x)
<1>1. /\ x \in [Axes -> Int] /\ y \in [Axes -> Int]
      /\ \A d \in Axes : a.min[d] = Lower(y[d], x[d]) /\ a.max[d] = Upper(y[d], x[d])
  BY TreeAssumption DEF Extend, Merged, FromPoint
<1>2. ASSUME NEW d \in Axes, a.min[d] < a.max[d]
      PROVE  FALSE
  <2>1. a.max[d] \in CutValues(a.min[d], a.max[d])
    BY DEF CutValues
  <2>2. [dim |-> d, value |-> a.max[d]] \in RandomCuts(FromPoint(y), x)
    BY <1>2, <2>1 DEF RandomCuts
  <2> QED
    BY <2>2
<1>3. ASSUME NEW d \in Axes
      PROVE  x[d] = y[d]
  <2>1. x[d] \in Int /\ y[d] \in Int
    BY <1>1
  <2> HIDE DEF a
  <2> QED
    BY <1>1, <1>2, <2>1 DEF Lower, Upper
<1> QED
  BY <1>1, <1>3

\* An absorbed point leaves the tree's shape and adds to the masses on its path.
LEMMA AbsorbStep ==
  ASSUME TreeInv, Absorb
  PROVE  /\ TreeInv' /\ adding.at \in LiveNodes /\ adding.at \in Leaves
         /\ node[adding.at].point \in Points
         /\ Weighed(adding.at, 1, node[adding.at].point)
<1>0. WellFormed /\ TypeOK /\ AddingInv
  BY DEF TreeInv, WellFormed
<1> PICK leaf : leaf = adding.at
  OBVIOUS
<1> PICK p : p = adding.point
  OBVIOUS
<1>1. /\ adding # None /\ adding \in Adding /\ p \in Points
      /\ leaf \in LiveNodes /\ leaf \in Leaves
      /\ leaf_index[p] = None /\ coord[p] # None /\ coord[p] \in Coords
      /\ root' = root /\ build' = build /\ coord' = coord /\ adding' = None
      /\ leaf_index' = [leaf_index EXCEPT ![p] = leaf]
  BY <1>0 DEF Absorb, TypeOK, Adding, AddingInv, Present, NewX, LiveNodes, Nodes
<1> PICK h : h = node[leaf].point
  OBVIOUS
<1>2. node[leaf] \in LeafNode /\ h \in Points /\ node[leaf].mass \in Nat /\ node[leaf].mass > 0
  BY <1>0, <1>1, LiveNode DEF LeafNode
<1>3. Weighed(leaf, 1, h)
  <2>1. AddMass(node[leaf], 1) = [AddMass(node[leaf], 1) EXCEPT !.point = h]
    BY <1>2, WeighedLeaf
  <2> QED
    BY <1>1, <2>1 DEF Absorb, Weighed, Up
<1>4. /\ LiveNodes' = LiveNodes
      /\ \A m \in Nodes : m \notin LiveNodes => node'[m] = None
  BY <1>0, <1>1, <1>2, <1>3, WeighedLive
<1>5. /\ node' \in [Nodes -> LeafNode \cup InnerNode \cup {None}]
      /\ \A n \in Leaves : IsLive(n)' => node'[n] \in LeafNode
      /\ \A n \in Internals : IsLive(n)' =>
           node'[n] \in InnerNode /\ node'[n].cut.value \in CutGrid'[build']
      /\ RootInv' /\ ParentInv' /\ ChildInv' /\ SizeInv'
      /\ \A n \in LiveNodes' \cap Internals :
           node'[n].mass = node'[node'[n].left].mass + node'[node'[n].right].mass
  BY <1>0, <1>1, <1>2, <1>3, WeighedTree
<1>6. /\ leaf_index' \in [Points -> Leaves \cup {None}] /\ leaf_index'[p] = leaf
      /\ \A q \in Points : q # p => leaf_index'[q] = leaf_index[q]
  BY <1>0, <1>1 DEF TypeOK
<1>7. TypeOK'
  BY <1>0, <1>1, <1>5, <1>6 DEF TypeOK
<1>8. ASSUME NEW n \in LiveNodes, n \in Leaves
      PROVE  node'[n].mass = Cardinality(Sharers(n)') /\ node'[n].point \in Sharers(n)'
  <2>1. node[n].mass = Cardinality(Sharers(n)) /\ node[n].point \in Sharers(n)
    BY <1>0, <1>8 DEF WellFormed, MassIsCount
  <2>2. node'[n].point = node[n].point
        /\ node'[n].mass = IF n \in Chain(leaf) THEN node[n].mass + 1 ELSE node[n].mass
    <3>1. /\ node'[n].point = IF n = leaf THEN h ELSE node[n].point
          /\ node'[n].mass = IF n \in Chain(leaf) THEN node[n].mass + 1 ELSE node[n].mass
      BY <1>0, <1>1, <1>2, <1>3, <1>8, WeighedNode
    <3> QED
      BY <3>1
  <2>3. n # None /\ n \notin Internals
    BY <1>8, TreeAssumption, NodesFinite DEF Nodes
  <2>4. CASE n = leaf
    <3>1. Sharers(n)' = Sharers(n) \cup {p} /\ p \notin Sharers(n)
      BY <1>1, <1>6, <2>3, <2>4 DEF Sharers
    <3>2. Cardinality(Sharers(n) \cup {p}) = Cardinality(Sharers(n)) + 1
      BY <3>1, PresentFinite, FS_AddElement
    <3>3. n \in Chain(leaf)
      BY <2>4 DEF Chain
    <3> QED
      BY <2>1, <2>2, <3>1, <3>2, <3>3
  <2>5. CASE n # leaf
    <3>1. Sharers(n)' = Sharers(n)
      BY <1>1, <1>6, <2>3, <2>5 DEF Sharers
    <3>2. n \notin Chain(leaf)
      BY <1>0, <1>1, <2>3, <2>5, UpHeavier DEF Chain
    <3> QED
      BY <2>1, <2>2, <3>1, <3>2
  <2> QED
    BY <2>4, <2>5
<1>9. MassIsCount'
  BY <1>4, <1>5, <1>8 DEF MassIsCount
<1>10. \A q \in Points : Present(q)' => IsLive(leaf_index[q])'
  <2> SUFFICES ASSUME NEW q \in Points, leaf_index'[q] # None
               PROVE  node'[leaf_index'[q]] # None
    BY DEF Present, IsLive
  <2>1. leaf_index'[q] \in LiveNodes
    BY <1>0, <1>1, <1>6 DEF WellFormed, TypeOK, Present, LiveNodes, Nodes
  <2> QED
    BY <1>4, <2>1 DEF LiveNodes, IsLive
<1>11. CoordInv'
  <2> SUFFICES ASSUME NEW q \in Points, leaf_index'[q] # None
               PROVE  /\ coord[q] # None
                      /\ ~Packed' => coord[q] = coord[node'[leaf_index'[q]].point]
    BY <1>1 DEF CoordInv, Present
  <2>1. leaf_index'[q] \in LiveNodes /\ leaf_index'[q] \in Leaves
    BY <1>0, <1>1, <1>6 DEF WellFormed, TypeOK, Present, LiveNodes, Nodes
  <2>2. node'[leaf_index'[q]].point = node[leaf_index'[q]].point
    BY <1>0, <1>1, <1>2, <1>3, <2>1, WeighedNode
  <2>3. Packed' <=> Packed
    BY <1>1 DEF Packed
  <2>4. CASE q # p
    BY <1>6, <2>2, <2>3, <2>4 DEF TreeInv, CoordInv, Present
  <2>5. CASE q = p
    <3>1. ASSUME ~Packed
          PROVE  coord[p] = coord[h]
      <4>1. Cuts = {} /\ Here = FromPoint(coord[h]) /\ NewX = coord[p]
        BY <1>1, <3>1 DEF Absorb, Here, BoxOf, NewX
      <4>2. coord[h] \in Coords
        <5>1. leaf_index[h] = leaf /\ leaf # None
          BY <1>0, <1>1, TreeAssumption DEF WellFormed, MassIsCount, Sharers, Nodes
        <5> QED
          BY <1>0, <1>2, <5>1 DEF TreeInv, CoordInv, Present, TypeOK
      <4> QED
        BY <1>1, <3>1, <4>1, <4>2, NoCutNoGap DEF Cuts
    <3> QED
      BY <1>1, <1>6, <2>2, <2>3, <2>5, <3>1
  <2> QED
    BY <2>4, <2>5
<1> QED
  BY <1>1, <1>2, <1>3, <1>5, <1>7, <1>9, <1>10, <1>11 DEF TreeInv, WellFormed, AddingInv

------------------------------------------------------------------------------
(* A copy is dropped.                                                       *)

LEMMA DropCopyStep ==
  ASSUME TreeInv, NEW p \in Points, NEW heir \in Points, DropCopy(p, heir)
  PROVE  /\ TreeInv' /\ leaf_index[p] \in LiveNodes /\ leaf_index[p] \in Leaves
         /\ Weighed(leaf_index[p], -1, heir)
         /\ node[leaf_index[p]].mass + (-1) > 0
         /\ heir # p /\ leaf_index[heir] = leaf_index[p]
<1>0. WellFormed /\ TypeOK
  BY DEF TreeInv, WellFormed
<1> PICK leaf : leaf = leaf_index[p]
  OBVIOUS
<1>1. /\ leaf # None /\ leaf \in LiveNodes /\ leaf \in Leaves
      /\ root' = root /\ build' = build /\ adding' = None /\ adding = None
      /\ coord' = [coord EXCEPT ![p] = None]
      /\ leaf_index' = [leaf_index EXCEPT ![p] = None]
      /\ node[leaf].mass > 1
  BY <1>0 DEF DropCopy, WellFormed, TypeOK, Present, LiveNodes, Nodes
<1>2. heir # p /\ leaf_index[heir] = leaf
  <2>1. node[leaf].point \in Sharers(leaf)
    BY <1>0, <1>1 DEF WellFormed, MassIsCount
  <2> QED
    BY <2>1 DEF DropCopy, Sharers
<1>3. node[leaf] \in LeafNode /\ node[leaf].mass \in Nat /\ node[leaf].mass + (-1) > 0
  BY <1>0, <1>1, LiveNode
<1>4. Weighed(leaf, -1, heir)
  BY DEF DropCopy, Weighed, Up
<1>5. -1 \in Int
  OBVIOUS
<1>6. /\ LiveNodes' = LiveNodes
      /\ \A m \in Nodes : m \notin LiveNodes => node'[m] = None
  BY <1>0, <1>1, <1>3, <1>4, <1>5, WeighedLive
<1>7. /\ node' \in [Nodes -> LeafNode \cup InnerNode \cup {None}]
      /\ \A n \in Leaves : IsLive(n)' => node'[n] \in LeafNode
      /\ \A n \in Internals : IsLive(n)' =>
           node'[n] \in InnerNode /\ node'[n].cut.value \in CutGrid'[build']
      /\ RootInv' /\ ParentInv' /\ ChildInv' /\ SizeInv'
      /\ \A n \in LiveNodes' \cap Internals :
           node'[n].mass = node'[node'[n].left].mass + node'[node'[n].right].mass
  BY <1>0, <1>1, <1>3, <1>4, <1>5, WeighedTree
<1>8. /\ leaf_index' \in [Points -> Leaves \cup {None}] /\ leaf_index'[p] = None
      /\ \A q \in Points : q # p => leaf_index'[q] = leaf_index[q]
      /\ coord' \in [Points -> Coords \cup {None}]
      /\ \A q \in Points : q # p => coord'[q] = coord[q]
  BY <1>0, <1>1 DEF TypeOK
<1>9. TypeOK'
  BY <1>0, <1>1, <1>7, <1>8 DEF TypeOK
<1>10. ASSUME NEW n \in LiveNodes, n \in Leaves
       PROVE  node'[n].mass = Cardinality(Sharers(n)') /\ node'[n].point \in Sharers(n)'
  <2>1. node[n].mass = Cardinality(Sharers(n)) /\ node[n].point \in Sharers(n)
        /\ node[n].mass \in Nat
    BY <1>0, <1>10, LiveNode DEF WellFormed, MassIsCount
  <2>2. /\ node'[n].point = IF n = leaf THEN heir ELSE node[n].point
        /\ node'[n].mass = IF n \in Chain(leaf) THEN node[n].mass + (-1) ELSE node[n].mass
    BY <1>0, <1>1, <1>3, <1>4, <1>5, <1>10, WeighedNode
  <2>3. n # None /\ n \notin Internals
    BY <1>10, TreeAssumption, NodesFinite DEF Nodes
  <2>4. CASE n = leaf
    <3>1. Sharers(n)' = Sharers(n) \ {p} /\ p \in Sharers(n)
      BY <1>1, <1>8, <2>3, <2>4 DEF Sharers
    <3>2. Cardinality(Sharers(n) \ {p}) = Cardinality(Sharers(n)) - 1
      BY <3>1, PresentFinite, FS_RemoveElement
    <3>3. n \in Chain(leaf)
      BY <2>4 DEF Chain
    <3>4. heir \in Sharers(n)'
      BY <1>2, <2>4, <3>1 DEF Sharers
    <3> QED
      BY <2>1, <2>2, <2>4, <3>1, <3>2, <3>3, <3>4
  <2>5. CASE n # leaf
    <3>1. Sharers(n)' = Sharers(n)
      BY <1>1, <1>8, <2>3, <2>5 DEF Sharers
    <3>2. n \notin Chain(leaf)
      BY <1>0, <1>1, <2>3, <2>5, UpHeavier DEF Chain
    <3> QED
      BY <2>1, <2>2, <2>5, <3>1, <3>2
  <2> QED
    BY <2>4, <2>5
<1>11. MassIsCount'
  BY <1>6, <1>7, <1>10 DEF MassIsCount
<1>12. ASSUME NEW q \in Points, leaf_index'[q] # None
       PROVE  /\ q # p /\ leaf_index'[q] = leaf_index[q]
              /\ leaf_index[q] \in LiveNodes /\ leaf_index[q] \in Leaves
  BY <1>0, <1>8, <1>12 DEF WellFormed, TypeOK, Present, LiveNodes, Nodes
<1>13. \A q \in Points : Present(q)' => IsLive(leaf_index[q])'
  <2> SUFFICES ASSUME NEW q \in Points, leaf_index'[q] # None
               PROVE  node'[leaf_index'[q]] # None
    BY DEF Present, IsLive
  <2> QED
    BY <1>6, <1>12 DEF LiveNodes, IsLive
<1>14. CoordInv'
  <2> SUFFICES ASSUME NEW q \in Points, leaf_index'[q] # None
               PROVE  /\ coord'[q] # None
                      /\ ~Packed' => coord'[q] = coord'[node'[leaf_index'[q]].point]
    BY DEF CoordInv, Present
  <2>1. /\ q # p /\ leaf_index'[q] = leaf_index[q] /\ coord'[q] = coord[q]
        /\ leaf_index[q] \in LiveNodes /\ leaf_index[q] \in Leaves
    BY <1>8, <1>12
  <2> PICK l : l = leaf_index[q]
    OBVIOUS
  <2>2. node'[l].point = IF l = leaf THEN heir ELSE node[l].point
    BY <1>0, <1>1, <1>3, <1>4, <1>5, <2>1, WeighedNode
  <2>3. Packed' <=> Packed
    BY <1>1 DEF Packed
  <2>4. coord[q] # None /\ (~Packed => coord[q] = coord[node[l].point])
    BY <2>1 DEF TreeInv, CoordInv, Present
  <2>5. CASE l = leaf
    <3>1. ~Packed => coord[heir] = coord[node[l].point]
      BY <1>1, <1>2, <2>5 DEF TreeInv, CoordInv, Present
    <3> QED
      BY <1>2, <1>8, <2>1, <2>2, <2>3, <2>4, <2>5, <3>1
  <2>6. CASE l # leaf
    <3>1. leaf_index[node[l].point] = l /\ node[l].point \in Points
      BY <1>0, <2>1 DEF WellFormed, MassIsCount, Sharers
    <3>2. coord'[node[l].point] = coord[node[l].point]
      BY <1>8, <2>6, <3>1
    <3> QED
      BY <2>1, <2>2, <2>3, <2>4, <2>6, <3>2
  <2> QED
    BY <2>5, <2>6
<1> QED
  BY <1>1, <1>2, <1>3, <1>4, <1>7, <1>9, <1>11, <1>13, <1>14 DEF TreeInv, WellFormed, AddingInv

------------------------------------------------------------------------------
(* A new leaf is spliced in.                                                *)

LEMMA BoxOfLive ==
  ASSUME TreeInv, NEW n \in LiveNodes
  PROVE  /\ BoxOf(n) \in Boxes
         /\ n \in Leaves => /\ node[n].point \in Points /\ leaf_index[node[n].point] = n
                            /\ coord[node[n].point] \in Coords
<1>0. WellFormed /\ TypeOK
  BY DEF TreeInv, WellFormed
<1>1. CASE n \in Leaves
  <2>1. node[n].point \in Points /\ leaf_index[node[n].point] = n
    BY <1>0, <1>1 DEF WellFormed, MassIsCount, Sharers
  <2>2. n # None
    BY <1>1, TreeAssumption DEF Nodes
  <2>3. coord[node[n].point] \in Coords
    BY <1>0, <2>1, <2>2 DEF TreeInv, CoordInv, Present, TypeOK
  <2> QED
    BY <1>1, <2>1, <2>3, PointBox DEF BoxOf
<1>2. CASE n \in Internals
  <2>1. node[n] \in InnerNode /\ n \notin Leaves
    BY <1>0, <1>2, LiveNode
  <2> QED
    BY <2>1 DEF BoxOf, InnerNode
<1> QED
  BY <1>0, <1>1, <1>2, LiveNode

\* A cut lies on an axis along which the extended box has an extent.
LEMMA CutDrawn ==
  ASSUME TypeOK, NEW b \in Boxes, NEW x \in Coords, NEW cut \in RandomCuts(b, x)
  PROVE  LET a == Extend(b, x) IN
         /\ a \in Boxes /\ cut \in [dim : Axes, value : Int] /\ cut.value \in CutGrid[build]
         /\ a.min[cut.dim] < a.max[cut.dim]
         /\ cut.value \in CutValues(a.min[cut.dim], a.max[cut.dim])
<1> DEFINE a == Extend(b, x)
<1>1. a \in Boxes
  BY PointBox, MergedBoxes DEF Extend
<1>2. PICK d \in Axes : a.min[d] < a.max[d] /\
        cut \in {[dim |-> d, value |-> v] : v \in CutValues(a.min[d], a.max[d])}
  BY DEF RandomCuts
<1>3. PICK v \in CutValues(a.min[d], a.max[d]) : cut = [dim |-> d, value |-> v]
  BY <1>2
<1>4. a.max[d] \in Marks
  BY <1>1 DEF Boxes
<1> HIDE DEF a
<1>5. v \in CutGrid[build]
  <2>1. CASE ~Packed
    <3>1. build = "default" /\ Marks \subseteq CutGrid[build]
      BY <2>1, TreeAssumption DEF TypeOK, Packed
    <3> QED
      BY <1>3, <1>4, <2>1, <3>1 DEF CutValues
  <2>2. CASE Packed
    BY <1>3, <2>2 DEF CutValues
  <2> QED
    BY <2>1, <2>2
<1>6. v \in Int
  BY <1>5, TreeAssumption DEF TypeOK
<1>7. cut \in [dim : Axes, value : Int] /\ cut.dim = d /\ cut.value = v
  BY <1>3, <1>6
<1> QED
  BY <1>1, <1>2, <1>3, <1>5, <1>7 DEF a

\* What an insertion in progress knows of where it is.
LEMMA AddingFacts ==
  ASSUME TreeInv, adding # None
  PROVE  /\ adding \in Adding /\ adding.point \in Points /\ adding.at \in LiveNodes
         /\ leaf_index[adding.point] = None /\ NewX \in Coords /\ Here \in Boxes /\ root # None
         /\ NewLeaf \in Leaves /\ NewLeaf \in Nodes /\ NewLeaf \notin LiveNodes
         /\ NewInternal \in Internals /\ NewInternal \in Nodes /\ NewInternal \notin LiveNodes
         /\ NewLeaf # NewInternal
<1>0. WellFormed /\ TypeOK /\ AddingInv
  BY DEF TreeInv, WellFormed
<1>1. /\ adding \in Adding /\ adding.point \in Points /\ adding.at \in LiveNodes
      /\ leaf_index[adding.point] = None /\ NewX \in Coords
  BY <1>0 DEF TypeOK, Adding, AddingInv, LiveNodes, Present, NewX
<1>2. root # None
  BY <1>0, <1>1 DEF WellFormed, RootInv
<1>3. Here \in Boxes
  BY <1>1, BoxOfLive DEF Here
<1>4. Cardinality({q \in Points : Present(q)}) < Capacity
  BY <1>0 DEF AddingInv
<1> QED
  BY <1>0, <1>1, <1>2, <1>3, <1>4, RoomForLeaf, RoomForInternal, NodesFinite

\* The record of the node that takes n's place.
Split(cut, n, x, l) ==
  [cut |-> cut, box |-> Extend(BoxOf(n), x),
   left  |-> IF LeftOf(cut, x) THEN l ELSE n, right |-> IF LeftOf(cut, x) THEN n ELSE l,
   parent |-> node[n].parent, mass |-> node[n].mass + 1]

\* A new leaf l with point p beside n, under a new node i.
Spliced(cut, n, p, x, l, i) ==
  /\ node' = [m \in Nodes |->
       IF m = l THEN Leaf(p, i)
       ELSE IF m = i THEN Split(cut, n, x, l)
       ELSE IF m = n THEN [node[n] EXCEPT !.parent = i]
       ELSE IF m = node[n].parent
       THEN Replaced([AddMass(node[m], 1) EXCEPT !.box = Extend(@, x)], n, i)
       ELSE IF m \in Up(n) THEN [AddMass(node[m], 1) EXCEPT !.box = Extend(@, x)]
       ELSE node[m]]
  /\ root' = IF node[n].parent = None THEN i ELSE root
  /\ leaf_index' = [leaf_index EXCEPT ![p] = l]
  /\ UNCHANGED <<coord, build>>

\* What it takes.
Splicing(cut, n, p, x, l, i) ==
  /\ TreeInv
  /\ n \in LiveNodes /\ p \in Points /\ leaf_index[p] = None /\ root # None
  /\ x \in Coords /\ coord[p] = x
  /\ cut \in RandomCuts(BoxOf(n), x) /\ Isolates(cut, x, BoxOf(n))
  /\ \A a \in Up(n) : Routed(a, x) \in Chain(n)
  /\ l \in Leaves /\ l \notin LiveNodes /\ i \in Internals /\ i \notin LiveNodes
  /\ Spliced(cut, n, p, x, l, i)

LEMMA SpliceIsSplicing ==
  ASSUME TreeInv, NEW cut, Splice(cut)
  PROVE  Splicing(cut, adding.at, adding.point, NewX, NewLeaf, NewInternal)
<1>1. adding # None
  BY DEF Splice
<1>2. \A a \in Up(adding.at) : Routed(a, NewX) \in Chain(adding.at)
  BY <1>1 DEF TreeInv, AddingInv, Up, Chain
<1>3. cut \in RandomCuts(BoxOf(adding.at), NewX) /\ Isolates(cut, NewX, BoxOf(adding.at))
  BY DEF Splice, Cuts, Here
<1>4. Spliced(cut, adding.at, adding.point, NewX, NewLeaf, NewInternal)
  BY DEF Splice, Spliced, Split, Here, Up
<1> QED
  BY <1>1, <1>2, <1>3, <1>4, AddingFacts DEF Splicing, NewX

LEMMA SplicedNew ==
  ASSUME NEW cut, NEW n, NEW p, NEW x, NEW l, NEW i, Splicing(cut, n, p, x, l, i)
  PROVE  /\ node'[l] = Leaf(p, i) /\ Leaf(p, i) \in LeafNode
         /\ node'[i] = Split(cut, n, x, l) /\ Split(cut, n, x, l) \in InnerNode
         /\ cut.value \in CutGrid[build] /\ l # i /\ l # n /\ i # n
         /\ \A a \in Up(n) : l # a /\ i # a
<1>0. TreeInv /\ WellFormed /\ TypeOK
  BY DEF Splicing, TreeInv, WellFormed
<1>1. /\ n \in LiveNodes /\ p \in Points /\ x \in Coords /\ cut \in RandomCuts(BoxOf(n), x)
      /\ l \in Leaves /\ l \notin LiveNodes /\ i \in Internals /\ i \notin LiveNodes
  BY DEF Splicing
<1>2. l # i /\ l # n /\ i # n /\ \A a \in Up(n) : l # a /\ i # a
  BY <1>0, <1>1, UpHeavier, NodesFinite
<1>3. l \in Nodes /\ i \in Nodes /\ n \in Nodes
  BY <1>1 DEF Nodes, LiveNodes
<1>4. node'[l] = Leaf(p, i) /\ node'[i] = Split(cut, n, x, l)
  BY <1>2, <1>3 DEF Splicing, Spliced
<1>5. Leaf(p, i) \in LeafNode
  BY <1>1 DEF Leaf, LeafNode, Parents
<1>6. /\ cut \in [dim : Axes, value : Int] /\ cut.value \in CutGrid[build]
      /\ Extend(BoxOf(n), x) \in Boxes
  BY <1>0, <1>1, BoxOfLive, CutDrawn
<1>7. node[n].parent \in Parents /\ node[n].mass + 1 \in Nat \ {0}
  BY <1>0, <1>1, LiveNode
<1>8. Split(cut, n, x, l) \in InnerNode
  BY <1>3, <1>6, <1>7 DEF Split, InnerNode
<1> QED
  BY <1>2, <1>4, <1>5, <1>6, <1>8

LEMMA SplicedFields ==
  ASSUME NEW cut, NEW n, NEW p, NEW x, NEW l, NEW i, Splicing(cut, n, p, x, l, i)
  PROVE  /\ node'[l].point = p /\ node'[l].parent = i /\ node'[l].mass = 1
         /\ node'[i].cut = cut /\ node'[i].box = Extend(BoxOf(n), x)
         /\ node'[i].parent = node[n].parent /\ node'[i].mass = node[n].mass + 1
         /\ LeftOf(cut, x) => node'[i].left = l /\ node'[i].right = n
         /\ ~LeftOf(cut, x) => node'[i].left = n /\ node'[i].right = l
<1>1. node'[l] = Leaf(p, i) /\ node'[i] = Split(cut, n, x, l)
  BY SplicedNew
<1>2. node'[l] = [point |-> p, parent |-> i, mass |-> 1]
  BY <1>1 DEF Leaf
<1>3. node'[i] =
        [cut |-> cut, box |-> Extend(BoxOf(n), x),
         left  |-> IF LeftOf(cut, x) THEN l ELSE n, right |-> IF LeftOf(cut, x) THEN n ELSE l,
         parent |-> node[n].parent, mass |-> node[n].mass + 1]
  BY <1>1 DEF Split
<1> QED
  BY <1>2, <1>3

\* The nodes that were there: those above n grow by the point.
LEMMA SplicedOld ==
  ASSUME NEW cut, NEW n, NEW p, NEW x, NEW l, NEW i, Splicing(cut, n, p, x, l, i),
         NEW m \in LiveNodes
  PROVE  /\ m \in Leaves => node'[m] \in LeafNode /\ node'[m].point = node[m].point
         /\ m \in Internals =>
              /\ node'[m] \in InnerNode /\ node'[m].cut = node[m].cut
              /\ node'[m].box = IF m \in Up(n) THEN Extend(node[m].box, x) ELSE node[m].box
              /\ node'[m].left = IF node[m].left = n THEN i ELSE node[m].left
              /\ node'[m].right = IF node[m].right = n THEN i ELSE node[m].right
         /\ node'[m].parent = IF m = n THEN i ELSE node[m].parent
         /\ node'[m].mass = IF m \in Up(n) THEN node[m].mass + 1 ELSE node[m].mass
<1>0. TreeInv /\ WellFormed /\ TypeOK
  BY DEF Splicing, TreeInv, WellFormed
<1>1. /\ n \in LiveNodes /\ x \in Coords /\ m # l /\ m # i /\ m \in Nodes /\ i \in Nodes
      /\ i \in Parents
  BY DEF Splicing, LiveNodes, Nodes, Parents
<1>2. node' = [k \in Nodes |->
       IF k = l THEN Leaf(p, i)
       ELSE IF k = i THEN Split(cut, n, x, l)
       ELSE IF k = n THEN [node[n] EXCEPT !.parent = i]
       ELSE IF k = node[n].parent
       THEN Replaced([AddMass(node[k], 1) EXCEPT !.box = Extend(@, x)], n, i)
       ELSE IF k \in Up(n) THEN [AddMass(node[k], 1) EXCEPT !.box = Extend(@, x)]
       ELSE node[k]]
  BY DEF Splicing, Spliced
<1>3. /\ m \in Leaves => node[m] \in LeafNode /\ m \notin Internals
      /\ m \in Internals => node[m] \in InnerNode /\ m \notin Leaves
      /\ m \in Leaves \/ m \in Internals
      /\ node[m].mass \in Nat /\ node[m].mass > 0
  BY <1>0, LiveNode
\* n keeps its children, whose parent it is.
<1>4. m \in Internals /\ (node[m].left = n \/ node[m].right = n) => m = node[n].parent
  BY <1>0, Children
<1>5. CASE m = n
  <2>1. node'[m] = [node[m] EXCEPT !.parent = i]
    BY <1>1, <1>2, <1>5
  <2>2. n \notin Up(n)
    BY <1>0, <1>1, UpHeavier
  <2>3. m \in Internals => node[m].left # n /\ node[m].right # n
    <3>1. node[n].parent # n
      <4>1. CASE node[n].parent = None
        BY <1>1, <4>1, TreeAssumption
        DEF LiveNodes
      <4>2. CASE node[n].parent # None
        BY <1>0, <1>1, <1>3, <1>5, <4>2, ParentHeavier
      <4> QED
        BY <4>1, <4>2
    <3> QED
      BY <1>4, <1>5, <3>1
  <2>4. CASE m \in Leaves
    BY <1>1, <1>3, <1>5, <2>1, <2>2, <2>4, MovedLeaf
  <2>5. CASE m \in Internals
    BY <1>1, <1>3, <1>5, <2>1, <2>2, <2>3, <2>5, MovedInner
  <2> QED
    BY <1>3, <2>4, <2>5
<1>6. CASE m # n /\ m \in Up(n)
  <2> DEFINE w == AddMass(node[m], 1)
             g == [w EXCEPT !.box = Extend(node[m].box, x)]
  <2>1. m \in Internals /\ node[m] \in InnerNode /\ m \notin Leaves
    BY <1>0, <1>1, <1>3, <1>6, UpHeavier
  <2>2. node[m].box \in Boxes /\ Extend(node[m].box, x) \in Boxes
    BY <1>1, <2>1, PointBox, MergedBoxes DEF InnerNode, Extend
  <2>3. node[m].mass + 1 > 0 /\ 1 \in Int
    BY <1>3
  <2>4. /\ w \in InnerNode /\ w.parent = node[m].parent /\ w.mass = node[m].mass + 1
        /\ w.cut = node[m].cut /\ w.box = node[m].box /\ w.left = node[m].left
        /\ w.right = node[m].right
    BY <2>1, <2>3, WeighedInner
  <2>5. [w EXCEPT !.box = Extend(@, x)] = g
    BY <2>4
  <2> HIDE DEF w
  <2>6. /\ g \in InnerNode /\ g.parent = node[m].parent /\ g.mass = node[m].mass + 1
        /\ g.cut = node[m].cut /\ g.box = Extend(node[m].box, x) /\ g.left = node[m].left
        /\ g.right = node[m].right
    BY <2>2, <2>4, BoxedInner
  <2> HIDE DEF g
  <2>7. CASE m = node[n].parent
    <3>1. node'[m] = Replaced(g, n, i)
      BY <1>1, <1>2, <1>6, <2>5, <2>7 DEF w
    <3>2. (n = node[m].left \/ n = node[m].right) /\ node[m].left # node[m].right
      <4>1. node[n].parent # None
        BY <1>0, <1>1, <1>6, UpHeavier
      <4> QED
        BY <1>0, <1>1, <2>1, <2>7, <4>1, ParentHeavier, Children
    <3>3. n \in {g.left, g.right} /\ g.left # g.right
      BY <2>6, <3>2
    <3> DEFINE r == Replaced(g, n, i)
    <3>4. /\ r \in InnerNode /\ r.parent = g.parent /\ r.mass = g.mass
          /\ r.cut = g.cut /\ r.box = g.box
          /\ r.left  = IF g.left = n THEN i ELSE g.left
          /\ r.right = IF g.right = n THEN i ELSE g.right
      BY <1>1, <2>6, <3>3, ReplacedInner
    <3> HIDE DEF r
    <3> QED
      BY <1>6, <2>1, <2>6, <3>1, <3>4 DEF r
  <2>8. CASE m # node[n].parent
    <3>1. node'[m] = g
      BY <1>1, <1>2, <1>6, <2>5, <2>8 DEF w
    <3> QED
      BY <1>4, <1>6, <2>1, <2>6, <2>8, <3>1
  <2> QED
    BY <2>7, <2>8
<1>7. CASE m # n /\ m \notin Up(n)
  <2>1. m # node[n].parent
    <3>1. CASE node[n].parent = None
      BY <1>1, <3>1, TreeAssumption
    <3>2. CASE node[n].parent # None
      BY <1>0, <1>1, <1>7, <3>2, UpIs
    <3> QED
      BY <3>1, <3>2
  <2>2. node'[m] = node[m]
    BY <1>1, <1>2, <1>7, <2>1
  <2> QED
    BY <1>3, <1>4, <1>7, <2>1, <2>2
<1> QED
  BY <1>5, <1>6, <1>7

LEMMA SplicedLive ==
  ASSUME NEW cut, NEW n, NEW p, NEW x, NEW l, NEW i, Splicing(cut, n, p, x, l, i)
  PROVE  /\ LiveNodes' = LiveNodes \cup {l, i}
         /\ \A m \in Nodes : m \notin LiveNodes \cup {l, i} => node'[m] = None
<1>0. TreeInv /\ WellFormed /\ TypeOK /\ n \in LiveNodes
      /\ l \in Nodes /\ i \in Nodes
  BY DEF Splicing, TreeInv, WellFormed, Nodes
<1>1. ASSUME NEW m \in Nodes, m \notin LiveNodes \cup {l, i}
      PROVE  node'[m] = None
  <2>1. node[m] = None /\ m # n /\ m \notin Up(n)
    BY <1>0, <1>1, UpHeavier DEF LiveNodes, IsLive
  <2>2. m # node[n].parent
    <3>1. CASE node[n].parent = None
      BY <3>1, TreeAssumption
    <3>2. CASE node[n].parent # None
      BY <1>0, <2>1, <3>2, UpIs
    <3> QED
      BY <3>1, <3>2
  <2> QED
    BY <1>1, <2>1, <2>2 DEF Splicing, Spliced
<1>2. ASSUME NEW m \in LiveNodes \cup {l, i}
      PROVE  m \in Nodes /\ node'[m] # None
  <2>1. node'[m] \in LeafNode \/ node'[m] \in InnerNode
    BY <1>0, SplicedNew, SplicedOld, LiveNode
  <2> QED
    BY <1>0, <2>1, TreeAssumption DEF LiveNodes
<1> QED
  BY <1>1, <1>2 DEF LiveNodes, IsLive

\* Where n was somebody's child, i is now; and who is on the path to n has grown.
LEMMA SplicedChild ==
  ASSUME NEW cut, NEW n, NEW p, NEW x, NEW l, NEW i, Splicing(cut, n, p, x, l, i),
         NEW c \in LiveNodes, NEW d, d = IF c = n THEN i ELSE c
  PROVE  /\ d \in LiveNodes' /\ node'[d] # None
         /\ node'[d].mass = IF c \in Chain(n) THEN node[c].mass + 1 ELSE node[c].mass
         /\ node'[d].parent = node[c].parent
<1>0. /\ TreeInv /\ WellFormed /\ TypeOK /\ n \in LiveNodes
      /\ i \in Nodes /\ i \notin LiveNodes
  BY DEF Splicing, TreeInv, WellFormed, Nodes
<1>1. d \in LiveNodes'
  BY SplicedLive
<1>2. CASE c = n
  <2>1. node'[d] = Split(cut, n, x, l) /\ c \in Chain(n)
    BY <1>2, SplicedNew DEF Chain
  <2> QED
    BY <1>1, <1>2, <2>1 DEF Split, LiveNodes, IsLive
<1>3. CASE c # n
  <2>1. c \in Chain(n) <=> c \in Up(n)
    BY <1>3 DEF Chain
  <2> QED
    BY <1>1, <1>3, <2>1, SplicedOld DEF LiveNodes, IsLive
<1> QED
  BY <1>2, <1>3

LEMMA SplicedSums ==
  ASSUME NEW cut, NEW n, NEW p, NEW x, NEW l, NEW i, Splicing(cut, n, p, x, l, i),
         NEW m \in LiveNodes', m \in Internals
  PROVE  node'[m].mass = node'[node'[m].left].mass + node'[node'[m].right].mass
<1>0. /\ TreeInv /\ WellFormed /\ TypeOK /\ n \in LiveNodes
      /\ l \in Leaves /\ l \notin Internals
  BY NodesFinite DEF Splicing, TreeInv, WellFormed
<1>1. CASE m = i
  <2>1. /\ node'[m].mass = node[n].mass + 1 /\ node'[l].mass = 1
        /\ \/ node'[m].left = l /\ node'[m].right = n
           \/ node'[m].left = n /\ node'[m].right = l
    BY <1>1, SplicedFields
  <2>2. node'[n].mass = node[n].mass /\ node[n].mass \in Nat
    BY <1>0, SplicedOld, UpHeavier, LiveNode
  <2> QED
    BY <2>1, <2>2
<1>2. CASE m \in LiveNodes
  <2> PICK a : a = node[m].left
    OBVIOUS
  <2> PICK b : b = node[m].right
    OBVIOUS
  <2> PICK aa : aa = IF a = n THEN i ELSE a
    OBVIOUS
  <2> PICK bb : bb = IF b = n THEN i ELSE b
    OBVIOUS
  <2>1. /\ a \in LiveNodes /\ b \in LiveNodes /\ node[m].mass = node[a].mass + node[b].mass
    BY <1>0, <1>2, Children
  <2>2. node'[m].left = aa /\ node'[m].right = bb
        /\ node'[m].mass = IF m \in Up(n) THEN node[m].mass + 1 ELSE node[m].mass
    BY <1>2, SplicedOld
  <2>3. /\ node'[aa].mass = IF a \in Chain(n) THEN node[a].mass + 1 ELSE node[a].mass
        /\ node'[bb].mass = IF b \in Chain(n) THEN node[b].mass + 1 ELSE node[b].mass
    BY <2>1, SplicedChild
  <2>4. node[m].mass \in Nat /\ node[a].mass \in Nat /\ node[b].mass \in Nat
    BY <1>0, <1>2, <2>1, LiveNode
  <2>5. CASE m \in Up(n)
    <3>1. \/ a \in Chain(n) /\ b \notin Chain(n)
          \/ a \notin Chain(n) /\ b \in Chain(n)
      BY <1>0, <1>2, <2>5, OneChild
    <3> QED
      BY <2>1, <2>2, <2>3, <2>4, <2>5, <3>1
  <2>6. CASE m \notin Up(n)
    <3>1. a \notin Chain(n) /\ b \notin Chain(n)
      BY <1>0, <1>2, <2>6, OneChild
    <3> QED
      BY <2>1, <2>2, <2>3, <2>6, <3>1
  <2> QED
    BY <2>5, <2>6
<1> QED
  BY <1>0, <1>1, <1>2, SplicedLive

LEMMA SplicedTyped ==
  ASSUME NEW cut, NEW n, NEW p, NEW x, NEW l, NEW i, Splicing(cut, n, p, x, l, i), adding' = None
  PROVE  TypeOK'
<1>0. /\ TreeInv /\ WellFormed /\ TypeOK /\ n \in LiveNodes /\ p \in Points
      /\ l \in Leaves /\ i \in Internals /\ l \in Nodes /\ i \in Nodes
      /\ l \notin Internals /\ i \notin Leaves
  BY NodesFinite DEF Splicing, TreeInv, WellFormed, Nodes
<1>1. build' = build /\ coord' = coord /\ leaf_index' = [leaf_index EXCEPT ![p] = l]
      /\ root' = (IF node[n].parent = None THEN i ELSE root)
  BY DEF Splicing, Spliced
<1>2. \A m \in LiveNodes \cup {l, i} :
        /\ m \in Leaves => node'[m] \in LeafNode
        /\ m \in Internals => node'[m] \in InnerNode /\ node'[m].cut.value \in CutGrid[build]
  <2>1. /\ node'[l] \in LeafNode /\ node'[i] \in InnerNode /\ node'[i].cut = cut
        /\ cut.value \in CutGrid[build]
    BY SplicedNew, SplicedFields
  <2>2. ASSUME NEW m \in LiveNodes
        PROVE  /\ m \in Leaves => node'[m] \in LeafNode
               /\ m \in Internals => node'[m] \in InnerNode /\ node'[m].cut.value \in CutGrid[build]
    <3>1. m \in Internals => node[m].cut.value \in CutGrid[build]
      BY <1>0 DEF TypeOK, LiveNodes
    <3> QED
      BY <3>1, SplicedOld
  <2> QED
    BY <1>0, <2>1, <2>2
<1>3. \A m \in Nodes : m \in LiveNodes \cup {l, i} \/ node'[m] = None
  BY SplicedLive
<1>4. node' \in [Nodes -> LeafNode \cup InnerNode \cup {None}]
  <2>1. \A m \in Nodes : node'[m] \in LeafNode \cup InnerNode \cup {None}
    BY <1>2, <1>3 DEF Nodes
  <2>2. node' = [m \in Nodes |-> node'[m]]
    BY DEF Splicing, Spliced
  <2> QED
    BY <2>1, <2>2
<1>5. \A m \in Nodes : IsLive(m)' => m \in LiveNodes \cup {l, i}
  BY <1>3 DEF IsLive
<1>6. /\ \A m \in Leaves : IsLive(m)' => node'[m] \in LeafNode
      /\ \A m \in Internals : IsLive(m)' =>
           node'[m] \in InnerNode /\ node'[m].cut.value \in CutGrid[build]
  BY <1>2, <1>5 DEF Nodes
<1>7. leaf_index' \in [Points -> Leaves \cup {None}]
  BY <1>0, <1>1 DEF TypeOK
<1> QED
  BY <1>0, <1>1, <1>4, <1>6, <1>7 DEF TypeOK

LEMMA SplicedShape ==
  ASSUME NEW cut, NEW n, NEW p, NEW x, NEW l, NEW i, Splicing(cut, n, p, x, l, i)
  PROVE  RootInv' /\ ParentInv' /\ ChildInv' /\ SizeInv'
<1>0. /\ TreeInv /\ WellFormed /\ TypeOK /\ n \in LiveNodes /\ root # None
      /\ l \in Leaves /\ i \in Internals /\ l \notin Internals /\ i \notin Leaves
      /\ l \notin LiveNodes /\ i \notin LiveNodes /\ i # None /\ l # i
      /\ root' = (IF node[n].parent = None THEN i ELSE root)
  BY NodesFinite, TreeAssumption DEF Splicing, Spliced, TreeInv, WellFormed, Nodes
<1>1. LiveNodes' = LiveNodes \cup {l, i}
  BY SplicedLive
<1>2. \A m \in Nodes : IsLive(m)' <=> m \in LiveNodes \cup {l, i}
  BY <1>1 DEF LiveNodes
<1>3. /\ node'[l].parent = i /\ node'[i].parent = node[n].parent
      /\ \/ node'[i].left = l /\ node'[i].right = n
         \/ node'[i].left = n /\ node'[i].right = l
  BY SplicedFields
<1>4. root \in LiveNodes /\ node[root].parent = None /\ \A m \in LiveNodes : m # root => node[m].parent # None
  BY <1>0 DEF WellFormed, RootInv, TypeOK, LiveNodes, ParentInv
<1>5. LiveNodes' \subseteq Nodes
  BY DEF LiveNodes
<1>6. RootInv'
  <2>1. root' \in LiveNodes' /\ root' # None
    BY <1>0, <1>1, <1>4
  <2>2. node'[root'].parent = None
    <3>1. CASE node[n].parent = None
      BY <1>0, <1>3, <3>1
    <3>2. CASE node[n].parent # None
      BY <1>0, <1>4, <3>2, SplicedOld
    <3> QED
      BY <3>1, <3>2
  <2> QED
    BY <2>1, <2>2 DEF RootInv, LiveNodes
<1>7. ASSUME NEW m \in LiveNodes', m # root'
      PROVE  /\ node'[m].parent # None /\ node'[m].parent \in LiveNodes'
             /\ m = node'[node'[m].parent].left \/ m = node'[node'[m].parent].right
  <2>1. CASE m = l
    BY <1>0, <1>1, <1>3, <2>1
  <2>2. CASE m = n
    <3>1. node'[n].parent = i
      BY <1>0, SplicedOld
    <3> QED
      BY <1>0, <1>1, <1>3, <2>2, <3>1
  <2>3. CASE m = i
    <3> PICK q : q = node[n].parent
      OBVIOUS
    <3>1. q # None
      BY <1>0, <1>7, <2>3
    <3>2. q \in LiveNodes /\ q \in Internals /\ (n = node[q].left \/ n = node[q].right)
      BY <1>0, <3>1, ParentHeavier
    <3>3. node'[q].left = i \/ node'[q].right = i
      BY <3>2, SplicedOld
    <3> QED
      BY <1>1, <1>3, <2>3, <3>1, <3>2, <3>3
  <2>4. CASE m \in LiveNodes /\ m # n
    <3>1. m # root
      <4>1. CASE node[n].parent = None
        BY <1>0, <1>4, <2>4, <4>1
      <4>2. CASE node[n].parent # None
        BY <1>0, <1>7, <4>2
      <4> QED
        BY <4>1, <4>2
    <3> PICK q : q = node[m].parent
      OBVIOUS
    <3>2. q # None /\ q \in LiveNodes /\ q \in Internals
          /\ (m = node[q].left \/ m = node[q].right)
      BY <1>0, <1>4, <2>4, <3>1, ParentHeavier
    <3>3. node'[m].parent = q
      BY <2>4, SplicedOld
    <3>4. m = node'[q].left \/ m = node'[q].right
      BY <2>4, <3>2, SplicedOld
    <3> QED
      BY <1>1, <3>2, <3>3, <3>4
  <2> QED
    BY <1>1, <1>7, <2>1, <2>2, <2>3, <2>4
<1>8. ParentInv'
  <2>1. \A m \in LiveNodes' \ {root'} :
          /\ node'[m].parent # None /\ node'[node'[m].parent] # None
          /\ m \in {node'[node'[m].parent].left, node'[node'[m].parent].right}
    BY <1>7 DEF LiveNodes, IsLive
  <2> QED
    BY <2>1 DEF ParentInv, IsLive
<1>9. ChildInv'
  <2> SUFFICES ASSUME NEW m \in LiveNodes', m \in Internals
               PROVE  /\ node'[m].left # node'[m].right
                      /\ \A c \in {node'[m].left, node'[m].right} :
                           node'[c] # None /\ node'[c].parent = m
    BY DEF ChildInv, IsLive
  <2>1. CASE m = i
    <3>1. node'[n].parent = i /\ node'[n] # None /\ node'[l] # None
      BY <1>0, <1>1, SplicedOld DEF LiveNodes, IsLive
    <3> QED
      BY <1>0, <1>3, <2>1, <3>1
  <2>2. CASE m \in LiveNodes
    <3> PICK a : a = node[m].left
      OBVIOUS
    <3> PICK b : b = node[m].right
      OBVIOUS
    <3>1. /\ a \in LiveNodes /\ b \in LiveNodes /\ a # b
          /\ node[a].parent = m /\ node[b].parent = m
      BY <1>0, <2>2, Children
    <3>2. /\ node'[m].left = IF a = n THEN i ELSE a
          /\ node'[m].right = IF b = n THEN i ELSE b
      BY <2>2, SplicedOld
    <3>3. /\ node'[node'[m].left] # None /\ node'[node'[m].left].parent = m
      BY <3>1, <3>2, SplicedChild
    <3>4. /\ node'[node'[m].right] # None /\ node'[node'[m].right].parent = m
      BY <3>1, <3>2, SplicedChild
    <3> QED
      BY <1>0, <3>1, <3>2, <3>3, <3>4
  <2> QED
    BY <1>0, <1>1, <2>1, <2>2
<1>10. SizeInv'
  <2>1. /\ LiveNodes' \cap Internals = (LiveNodes \cap Internals) \cup {i}
        /\ LiveNodes' \cap Leaves = (LiveNodes \cap Leaves) \cup {l}
    BY <1>0, <1>1
  <2>2. IsFiniteSet(LiveNodes \cap Internals) /\ IsFiniteSet(LiveNodes \cap Leaves)
    <3>1. LiveNodes \cap Internals \in SUBSET Internals /\ LiveNodes \cap Leaves \in SUBSET Leaves
      OBVIOUS
    <3> QED
      BY <3>1, NodesFinite, FS_Subset
  <2>3. /\ Cardinality(LiveNodes' \cap Internals) = Cardinality(LiveNodes \cap Internals) + 1
        /\ Cardinality(LiveNodes' \cap Leaves) = Cardinality(LiveNodes \cap Leaves) + 1
    BY <1>0, <2>1, <2>2, FS_AddElement
  <2>4. Cardinality(LiveNodes \cap Internals) = Cardinality(LiveNodes \cap Leaves) - 1
        /\ Cardinality(LiveNodes \cap Leaves) \in Nat
    BY <1>0, <2>2, FS_CardinalityType DEF WellFormed, SizeInv
  <2>5. root' # None
    BY <1>0
  <2> QED
    BY <2>3, <2>4, <2>5 DEF SizeInv
<1> QED
  BY <1>6, <1>8, <1>9, <1>10

LEMMA SplicedTree ==
  ASSUME NEW cut, NEW n, NEW p, NEW x, NEW l, NEW i, Splicing(cut, n, p, x, l, i), adding' = None
  PROVE  TreeInv'
<1>0. /\ TreeInv /\ WellFormed /\ TypeOK /\ CoordInv /\ n \in LiveNodes /\ p \in Points
      /\ leaf_index[p] = None /\ x \in Coords /\ coord[p] = x /\ x # None
      /\ l \in Leaves /\ l \notin Internals /\ l \notin LiveNodes /\ l # None /\ i \notin Leaves
  BY NodesFinite, TreeAssumption DEF Splicing, TreeInv, WellFormed, Nodes
<1>1. /\ build' = build /\ coord' = coord /\ leaf_index' = [leaf_index EXCEPT ![p] = l]
      /\ leaf_index \in [Points -> Leaves \cup {None}]
  BY <1>0 DEF Splicing, Spliced, TypeOK
<1>2. LiveNodes' = LiveNodes \cup {l, i}
  BY SplicedLive
<1>3. \A q \in Points : leaf_index[q] # l
  BY <1>0 DEF WellFormed, Present, LiveNodes, Nodes
<1>4. ASSUME NEW m \in LiveNodes' \cap Leaves
      PROVE  node'[m].mass = Cardinality(Sharers(m)') /\ node'[m].point \in Sharers(m)'
  <2>1. CASE m = l
    <3>1. Sharers(m)' = {p}
      BY <1>0, <1>1, <1>3, <2>1 DEF Sharers
    <3>2. Cardinality({p}) = 1
      BY FS_Singleton
    <3>3. node'[m].mass = 1 /\ node'[m].point = p
      BY <2>1, SplicedFields
    <3> QED
      BY <3>1, <3>2, <3>3
  <2>2. CASE m \in LiveNodes
    <3>1. Sharers(m)' = Sharers(m)
      <4>1. m # l /\ m # None
        BY <1>0, <2>2, TreeAssumption DEF Nodes
      <4> QED
        BY <1>0, <1>1, <4>1 DEF Sharers
    <3>2. m \notin Up(n)
      BY <1>0, UpHeavier, NodesFinite
    <3>3. node'[m].mass = node[m].mass /\ node'[m].point = node[m].point
      BY <2>2, <3>2, SplicedOld
    <3>4. node[m].mass = Cardinality(Sharers(m)) /\ node[m].point \in Sharers(m)
      BY <1>0, <2>2 DEF WellFormed, MassIsCount
    <3> QED
      BY <3>1, <3>3, <3>4
  <2> QED
    BY <1>0, <1>2, <2>1, <2>2
<1>5. MassIsCount'
  BY <1>4, SplicedSums DEF MassIsCount
<1>6. \A q \in Points : Present(q)' => leaf_index'[q] \in LiveNodes'
  <2> SUFFICES ASSUME NEW q \in Points, leaf_index'[q] # None
               PROVE  leaf_index'[q] \in LiveNodes'
    BY DEF Present
  <2>1. CASE q = p
    BY <1>0, <1>1, <1>2, <2>1
  <2>2. CASE q # p
    <3>1. leaf_index'[q] = leaf_index[q] /\ leaf_index[q] # None
      BY <1>1, <2>2
    <3>2. leaf_index[q] \in LiveNodes
      BY <1>0, <1>1, <3>1 DEF WellFormed, Present, LiveNodes, Nodes
    <3> QED
      BY <1>2, <3>1, <3>2
  <2> QED
    BY <2>1, <2>2
<1>7. \A q \in Points : Present(q)' => IsLive(leaf_index[q])'
  BY <1>6 DEF LiveNodes, IsLive, Present
<1>8. CoordInv'
  <2> SUFFICES ASSUME NEW q \in Points, leaf_index'[q] # None
               PROVE  coord[q] # None /\ (~Packed => coord[q] = coord[node'[leaf_index'[q]].point])
    BY <1>1 DEF CoordInv, Present, Packed
  <2>1. CASE q = p
    <3>1. leaf_index'[q] = l
      BY <1>1, <2>1
    <3> QED
      BY <1>0, <2>1, <3>1, SplicedFields
  <2>2. CASE q # p
    <3>1. leaf_index'[q] = leaf_index[q] /\ leaf_index[q] # None
      BY <1>1, <2>2
    <3>2. leaf_index[q] \in LiveNodes /\ leaf_index[q] \in Leaves
      BY <1>0, <1>1, <3>1 DEF WellFormed, Present, LiveNodes, Nodes
    <3>3. node'[leaf_index[q]].point = node[leaf_index[q]].point
      BY <3>2, SplicedOld
    <3>4. coord[q] # None /\ (~Packed => coord[q] = coord[node[leaf_index[q]].point])
      BY <1>0, <3>1 DEF CoordInv, Present
    <3> QED
      BY <3>1, <3>3, <3>4
  <2> QED
    BY <2>1, <2>2
<1>9. AddingInv'
  BY DEF AddingInv
<1> QED
  BY <1>5, <1>7, <1>8, <1>9, SplicedTyped, SplicedShape DEF TreeInv, WellFormed

LEMMA SpliceStep ==
  ASSUME TreeInv, NEW cut, Splice(cut)
  PROVE  TreeInv'
<1>1. adding' = None
  BY DEF Splice
<1> QED
  BY <1>1, SpliceIsSplicing, SplicedTree

------------------------------------------------------------------------------
(* The last copy of a point is dropped.                                     *)

\* The ancestors in the order a climb meets them, each once.
AbovePath(n) ==
  LET path == Above[n] IN
  /\ \A k \in 1..Len(path) : path[k] \in LiveNodes /\ path[k] \in Internals
  /\ \A k \in 1..Len(path) : node[n].mass < node[path[k]].mass
  /\ Len(path) > 0 => path[1] = node[n].parent
  /\ \A k \in 2..Len(path) : path[k] = node[path[k - 1]].parent
  /\ \A j, k \in 1..Len(path) : path[j] = path[k] => j = k

LEMMA PathGrows ==
  ASSUME WellFormed, NEW n \in LiveNodes, node[n].parent # None, AbovePath(node[n].parent)
  PROVE  AbovePath(n)
<1> PICK q : q = node[n].parent
  OBVIOUS
<1> PICK s : s = Above[q]
  OBVIOUS
<1> PICK c : c = Above[n]
  OBVIOUS
<1>1. /\ q \in LiveNodes /\ q \in Internals /\ node[n].mass < node[q].mass
      /\ node[n].mass \in Nat /\ node[q].mass \in Nat
  BY ParentHeavier, LiveNode DEF WellFormed
<1>2. s \in Seq(Internals) /\ <<q>> \in Seq(Internals) /\ c = <<q>> \o s
  <2>1. s \in Seq(Internals)
    BY <1>1, AboveSeq
  <2>2. <<q>> \in Seq(Internals)
    BY <1>1
  <2>3. Above[n] = <<node[n].parent>> \o Above[node[n].parent]
    BY AboveSeq
  <2> QED
    BY <2>1, <2>2, <2>3
<1>3. /\ Len(s) \in Nat /\ Len(c) = 1 + Len(s)
      /\ \A k \in 1..1 + Len(s) : c[k] = IF k <= 1 THEN <<q>>[k] ELSE s[k - 1]
  BY <1>2, ConcatProperties, LenProperties
<1>4. c[1] = q
  BY <1>3
<1>5. \A k \in 2..Len(c) : k - 1 \in 1..Len(s) /\ c[k] = s[k - 1]
  BY <1>3
<1>6. /\ \A k \in 1..Len(s) : s[k] \in LiveNodes /\ s[k] \in Internals
      /\ \A k \in 1..Len(s) : node[q].mass < node[s[k]].mass
      /\ Len(s) > 0 => s[1] = node[q].parent
      /\ \A k \in 2..Len(s) : s[k] = node[s[k - 1]].parent
      /\ \A j, k \in 1..Len(s) : s[j] = s[k] => j = k
  BY DEF AbovePath
<1>7. ASSUME NEW k \in 1..Len(c)
      PROVE  /\ c[k] \in LiveNodes /\ c[k] \in Internals /\ node[n].mass < node[c[k]].mass
             /\ k > 1 => c[k] = node[c[k - 1]].parent /\ c[k] # q
  <2>1. CASE k = 1
    BY <1>1, <1>4, <2>1
  <2>2. CASE k > 1
    <3>1. k \in 2..Len(c)
      BY <2>2
    <3> PICK j : j = k - 1
      OBVIOUS
    <3>2. j \in 1..Len(s) /\ c[k] = s[j]
      BY <1>5, <3>1
    <3>3. s[j] \in LiveNodes /\ s[j] \in Internals /\ node[q].mass < node[s[j]].mass
      BY <1>6, <3>2
    <3>4. node[s[j]].mass \in Nat
      BY <3>3, LiveNode DEF WellFormed
    <3>5. c[k] = node[c[j]].parent
      <4>1. CASE j = 1
        BY <1>3, <1>4, <1>6, <3>2, <4>1
      <4>2. CASE j > 1
        <5>1. j \in 2..Len(s) /\ j \in 2..Len(c)
          BY <1>3, <3>2, <4>2
        <5>2. c[j] = s[j - 1] /\ s[j] = node[s[j - 1]].parent
          BY <1>5, <1>6, <5>1
        <5> QED
          BY <3>2, <5>2
      <4> QED
        BY <3>2, <4>1, <4>2
    <3> QED
      BY SMTT(30), <1>1, <3>2, <3>3, <3>4, <3>5
  <2> QED
    BY <2>1, <2>2
<1>8. ASSUME NEW j \in 1..Len(c), NEW k \in 1..Len(c), c[j] = c[k]
      PROVE  j = k
  <2>1. CASE j = 1 \/ k = 1
    BY <1>4, <1>7, <1>8, <2>1
  <2>2. CASE j > 1 /\ k > 1
    <3>1. j - 1 \in 1..Len(s) /\ k - 1 \in 1..Len(s) /\ s[j - 1] = s[k - 1]
      BY <1>5, <1>8, <2>2
    <3>2. j - 1 = k - 1
      BY <1>6, <3>1
    <3> QED
      BY <3>2
  <2> QED
    BY <2>1, <2>2
<1>9. \A k \in 2..Len(c) : c[k] = node[c[k - 1]].parent
  BY <1>3, <1>7
<1> QED
  BY <1>4, <1>7, <1>8, <1>9 DEF AbovePath

LEMMA AboveIsPath ==
  ASSUME WellFormed, NEW n \in LiveNodes
  PROVE  AbovePath(n)
<1> DEFINE S == {m \in LiveNodes : ~AbovePath(m)}
<1>1. S = {}
  <2> SUFFICES ASSUME S # {} PROVE FALSE
    OBVIOUS
  <2>1. PICK m \in S : node[m].parent = None \/ node[m].parent \notin S
    <3>1. S \in SUBSET LiveNodes
      OBVIOUS
    <3> HIDE DEF S
    <3> QED
      BY <3>1, Topmost
  <2>2. CASE node[m].parent = None
    <3>1. Above[m] = <<>>
      BY <2>1, <2>2, AboveSeq
    <3> QED
      BY <2>1, <3>1 DEF AbovePath
  <2>3. CASE node[m].parent # None
    BY <2>1, <2>3, ParentHeavier, PathGrows
  <2> QED
    BY <2>2, <2>3
<1> QED
  BY <1>1

\* What a list of boxes becomes by one more round of the recursion: at each level
\* the box of the child off the path merged with the box one level down.
Rebuilt(off, b, f) ==
  [k \in DOMAIN off |-> Merged(off[k], IF k = 1 THEN b ELSE f[k - 1])]

LEMMA RebuiltExists ==
  ASSUME NEW n \in Nat, NEW off, DOMAIN off = 1..n, NEW b
  PROVE  \E f : f = Rebuilt(off, b, f)
<1> DEFINE UpTo(f, r) == \A k \in 1..n : k < r => f[k] = Rebuilt(off, b, f)[k]
           Bad == {r \in Nat : ~ \E f : UpTo(f, r)}
<1>1. Bad = {}
  <2> SUFFICES ASSUME Bad # {} PROVE FALSE
    OBVIOUS
  <2>1. PICK r \in Bad : \A y \in Bad : ~ (<<y, r>> \in OpToRel(<, Nat))
    <3>1. Bad \subseteq Nat /\ Bad # {}
      OBVIOUS
    <3> HIDE DEF Bad
    <3> QED
      BY <3>1, WFMin, NatLessThanWellFounded
  <2>2. \A y \in Bad : ~ (y < r)
    BY <2>1 DEF OpToRel
  <2>3. r # 0
    <3>1. UpTo(<<>>, 0)
      OBVIOUS
    <3> QED
      BY <3>1
  <2>4. r - 1 \in Nat /\ r - 1 < r
    BY <2>3
  <2>5. PICK g : UpTo(g, r - 1)
    BY <2>2, <2>4
  <2> DEFINE h == Rebuilt(off, b, g)
  <2>6. ASSUME NEW k \in 1..n, k < r
        PROVE  h[k] = Rebuilt(off, b, h)[k]
    <3>1. CASE k = 1
      BY <3>1 DEF Rebuilt
    <3>2. CASE k # 1
      <4>1. k - 1 \in 1..n /\ k - 1 < r - 1
        BY <2>6, <3>2
      <4>2. g[k - 1] = h[k - 1]
        BY <2>5, <4>1
      <4> QED
        BY <3>2, <4>2 DEF Rebuilt
    <3> QED
      BY <3>1, <3>2
  <2>7. UpTo(h, r)
    BY <2>6
  <2> HIDE DEF UpTo
  <2> QED
    BY <2>7
<1>2. PICK g : UpTo(g, n + 1)
  <2>1. n + 1 \in Nat
    OBVIOUS
  <2> HIDE DEF UpTo
  <2> QED
    BY <1>1, <2>1
<1> DEFINE h == Rebuilt(off, b, g)
<1>3. \A k \in 1..n : g[k] = h[k]
  BY <1>2
<1>4. ASSUME NEW k \in 1..n
      PROVE  h[k] = Rebuilt(off, b, h)[k]
  <2>1. CASE k = 1
    BY <2>1 DEF Rebuilt
  <2>2. CASE k # 1
    <3>1. k - 1 \in 1..n
      BY <2>2
    <3>2. g[k - 1] = h[k - 1]
      BY <1>3, <3>1
    <3> QED
      BY <2>2, <3>2 DEF Rebuilt
  <2> QED
    BY <2>1, <2>2
<1>5. h = Rebuilt(off, b, h)
  BY <1>4 DEF Rebuilt
<1> QED
  BY <1>5

\* The children off the path, one for each node of it.
Aside(path, gone) ==
  [k \in 1..Len(path) |->
     LET below == IF k = 1 THEN gone ELSE path[k - 1]
     IN IF node[path[k]].left = below THEN node[path[k]].right ELSE node[path[k]].left]

LEMMA RecomputedIs ==
  ASSUME NEW path \in Seq(Nodes), NEW gone, NEW sibling
  PROVE  LET aside == Aside(path, gone)
             off   == [k \in 1..Len(path) |-> BoxOf(aside[k])]
             boxes == Recomputed(path, gone, sibling)
         IN boxes = Rebuilt(off, BoxOf(sibling), boxes)
<1> DEFINE aside == Aside(path, gone)
           off   == [k \in 1..Len(path) |-> BoxOf(aside[k])]
           b     == BoxOf(sibling)
<1>1. \E f : f = Rebuilt(off, b, f)
  <2>1. DOMAIN off = 1..Len(path) /\ Len(path) \in Nat
    BY LenProperties
  <2> HIDE DEF off, b
  <2> QED
    BY <2>1, RebuiltExists
<1>2. \A f : Rebuilt(off, b, f) =
        [k \in 1..Len(path) |->
           Merged(BoxOf(LET below == IF k = 1 THEN gone ELSE path[k - 1]
                        IN IF node[path[k]].left = below
                           THEN node[path[k]].right ELSE node[path[k]].left),
                  IF k = 1 THEN BoxOf(sibling) ELSE f[k - 1])]
  BY DEF Rebuilt, Aside
<1>3. Recomputed(path, gone, sibling) = CHOOSE f : f = Rebuilt(off, b, f)
  BY <1>2 DEF Recomputed
<1> QED
  BY <1>1, <1>3

\* Every ancestor has below it a node of the path one level down.
LEMMA PathIndex ==
  ASSUME WellFormed, NEW n \in LiveNodes
  PROVE  /\ \A k \in 1..Len(Above[n]) : Above[n][k] \in Up(n)
         /\ \A a \in Up(n) : \E k \in 1..Len(Above[n]) : a = Above[n][k]
         /\ \A k \in 1..Len(Above[n]) :
              LET below == IF k = 1 THEN n ELSE Above[n][k - 1]
              IN below \in Chain(n) /\ below \in LiveNodes /\ node[below].parent = Above[n][k]
<1> PICK path : path = Above[n]
  OBVIOUS
<1>1. path \in Seq(Internals) /\ DOMAIN path = 1..Len(path) /\ Len(path) \in Nat
  BY AboveSeq, LenProperties
<1>2. /\ \A k \in 1..Len(path) : path[k] \in LiveNodes
      /\ Len(path) > 0 => path[1] = node[n].parent
      /\ \A k \in 2..Len(path) : path[k] = node[path[k - 1]].parent
  BY AboveIsPath DEF AbovePath
<1>3. \A k \in 1..Len(path) : path[k] \in Up(n)
  BY <1>1 DEF Up, Range
<1>4. \A a \in Up(n) : \E k \in 1..Len(path) : a = path[k]
  BY <1>1 DEF Up, Range
<1>5. ASSUME NEW k \in 1..Len(path)
      PROVE  LET below == IF k = 1 THEN n ELSE path[k - 1]
             IN below \in Chain(n) /\ below \in LiveNodes /\ node[below].parent = path[k]
  <2>1. CASE k = 1
    BY <1>1, <1>2, <2>1 DEF Chain
  <2>2. CASE k # 1
    <3>1. k \in 2..Len(path) /\ k - 1 \in 1..Len(path)
      BY <1>1, <2>2
    <3>2. path[k - 1] \in LiveNodes /\ path[k - 1] \in Up(n)
      BY <1>2, <1>3, <3>1
    <3>3. node[path[k - 1]].parent = path[k]
      BY <1>2, <3>1
    <3> QED
      BY <2>2, <3>2, <3>3 DEF Chain
  <2> QED
    BY <2>1, <2>2
<1> QED
  BY <1>3, <1>4, <1>5

\* Of some of the nodes above n, the lowest has a child on the path not among them.
LEMMA Bottommost ==
  ASSUME WellFormed, NEW n \in LiveNodes, NEW S \in SUBSET Up(n), S # {}
  PROVE  \E a \in S : \E c \in Chain(n) \ S : c \in LiveNodes /\ node[c].parent = a
<1> PICK path : path = Above[n]
  OBVIOUS
<1>1. /\ Len(path) \in Nat
      /\ \A k \in 1..Len(path) : path[k] \in Up(n)
      /\ \A a \in Up(n) : \E k \in 1..Len(path) : a = path[k]
      /\ \A k \in 1..Len(path) :
           LET below == IF k = 1 THEN n ELSE path[k - 1]
           IN below \in Chain(n) /\ below \in LiveNodes /\ node[below].parent = path[k]
  BY PathIndex, AboveSeq, LenProperties
<1> DEFINE K == {k \in 1..Len(path) : path[k] \in S}
<1>2. PICK k \in K : \A j \in K : ~ (<<j, k>> \in OpToRel(<, Nat))
  <2>1. K # {} /\ K \subseteq Nat
    BY <1>1
  <2> HIDE DEF K
  <2> QED
    BY <2>1, WFMin, NatLessThanWellFounded
<1>3. k \in Nat /\ k \in 1..Len(path) /\ \A j \in K : ~ (j < k)
  <2>1. k \in K /\ K \subseteq Nat
    <3>1. K \subseteq Nat
      BY <1>1
    <3> QED
      BY <3>1
  <2>2. \A j \in K : ~ (j < k)
    <3> HIDE DEF K
    <3> QED
      BY <1>2, <2>1 DEF OpToRel
  <2> QED
    BY <2>1, <2>2
<1> PICK c : c = IF k = 1 THEN n ELSE path[k - 1]
  OBVIOUS
<1>4. c \in Chain(n) /\ c \in LiveNodes /\ node[c].parent = path[k]
  BY <1>1, <1>2
<1>5. c \notin S
  <2>1. CASE k = 1
    BY <2>1, UpHeavier
  <2>2. CASE k # 1
    <3>1. k - 1 \in 1..Len(path) /\ k - 1 < k
      BY <1>1, <1>3, <2>2
    <3> QED
      BY <1>3, <2>2, <3>1
  <2> QED
    BY <2>1, <2>2
<1> QED
  BY <1>2, <1>4, <1>5

\* The boxes nb are those of the nodes above n when sibling stands in n's place.
Regrown(n, sibling, nb) ==
  \A a \in Up(n) :
    /\ node[a].left \in Chain(n) => nb[a] =
         Merged(BoxOf(node[a].right),
                IF node[a].left = n THEN BoxOf(sibling) ELSE nb[node[a].left])
    /\ node[a].right \in Chain(n) => nb[a] =
         Merged(BoxOf(node[a].left),
                IF node[a].right = n THEN BoxOf(sibling) ELSE nb[node[a].right])

LEMMA RegrownBoxes ==
  ASSUME TreeInv, NEW n \in LiveNodes, NEW sibling \in LiveNodes, NEW nb, Regrown(n, sibling, nb)
  PROVE  \A a \in Up(n) : nb[a] \in Boxes
<1>0. WellFormed
  BY DEF TreeInv
<1> DEFINE S == {a \in Up(n) : nb[a] \notin Boxes}
<1>1. SUFFICES ASSUME S # {} PROVE FALSE
  OBVIOUS
<1>2. PICK a \in S : \E c \in Chain(n) \ S : c \in LiveNodes /\ node[c].parent = a
  <2>1. S \in SUBSET Up(n)
    OBVIOUS
  <2> HIDE DEF S
  <2> QED
    BY <1>0, <1>1, <2>1, Bottommost
<1>3. PICK c \in Chain(n) \ S : c \in LiveNodes /\ node[c].parent = a
  BY <1>2
<1>4. /\ a \in LiveNodes /\ a \in Internals /\ a # None
      /\ c = node[a].left \/ c = node[a].right
  <2>1. a \in LiveNodes /\ a \in Internals /\ a # None
    BY <1>0, <1>2, UpHeavier, TreeAssumption DEF LiveNodes
  <2> QED
    BY <1>0, <1>3, <2>1, ParentHeavier
<1>5. c = n \/ nb[c] \in Boxes
  BY <1>3 DEF Chain
<1>6. BoxOf(node[a].left) \in Boxes /\ BoxOf(node[a].right) \in Boxes /\ BoxOf(sibling) \in Boxes
  BY <1>0, <1>4, Children, BoxOfLive
<1>7. nb[a] \in Boxes
  BY <1>2, <1>3, <1>4, <1>5, <1>6, MergedBoxes DEF Regrown
<1> QED
  BY <1>2, <1>7

\* The boxes recompute_ancestors computes are such.
RegrownBy(n, sibling) ==
  [a \in Up(n) |-> Recomputed(Above[n], n, sibling)[Level(Above[n], a)]]

LEMMA RecomputedRegrown ==
  ASSUME TreeInv, NEW n \in LiveNodes, NEW sibling \in LiveNodes
  PROVE  Regrown(n, sibling, RegrownBy(n, sibling))
<1> PICK path : path = Above[n]
  OBVIOUS
<1> PICK boxes : boxes = Recomputed(path, n, sibling)
  OBVIOUS
<1> PICK level : level = [a \in Up(n) |-> Level(path, a)]
  OBVIOUS
<1>0. WellFormed
  BY DEF TreeInv
<1>1. /\ Len(path) \in Nat /\ path \in Seq(Nodes)
      /\ \A k \in 1..Len(path) : path[k] \in Up(n)
      /\ \A a \in Up(n) : \E k \in 1..Len(path) : a = path[k]
      /\ \A k \in 1..Len(path) :
           LET below == IF k = 1 THEN n ELSE path[k - 1]
           IN below \in Chain(n) /\ below \in LiveNodes /\ node[below].parent = path[k]
  <2>1. path \in Seq(Internals)
    BY <1>0, AboveSeq
  <2>2. path \in Seq(Nodes) /\ Len(path) \in Nat
    BY <2>1 DEF Nodes
  <2> QED
    BY <1>0, <2>2, PathIndex
<1>2. \A j, k \in 1..Len(path) : path[j] = path[k] => j = k
  BY <1>0, AboveIsPath DEF AbovePath
<1>3. \A k \in 1..Len(path) : level[path[k]] = k
  BY <1>1, <1>2 DEF Level
<1> PICK aside : aside = Aside(path, n)
  OBVIOUS
<1> DEFINE off == [k \in 1..Len(path) |-> BoxOf(aside[k])]
<1>4. boxes = Rebuilt(off, BoxOf(sibling), boxes)
  BY <1>1, RecomputedIs
<1>5. ASSUME NEW k \in 1..Len(path)
      PROVE  boxes[k] = Merged(BoxOf(aside[k]), IF k = 1 THEN BoxOf(sibling) ELSE boxes[k - 1])
  <2>1. boxes[k] = Rebuilt(off, BoxOf(sibling), boxes)[k]
    BY <1>4
  <2> QED
    BY <2>1 DEF Rebuilt
<1> DEFINE nb == [a \in Up(n) |-> boxes[level[a]]]
<1>6. ASSUME NEW a \in Up(n), NEW c, NEW d, c \in Chain(n),
             \/ c = node[a].left /\ d = node[a].right
             \/ c = node[a].right /\ d = node[a].left
      PROVE  nb[a] = Merged(BoxOf(d), IF c = n THEN BoxOf(sibling) ELSE nb[c])
  <2>1. PICK k \in 1..Len(path) : a = path[k]
    BY <1>1
  <2> PICK below : below = IF k = 1 THEN n ELSE path[k - 1]
    OBVIOUS
  <2>2. below \in Chain(n) /\ below \in LiveNodes /\ node[below].parent = a
    BY <1>1, <2>1
  <2>3. a \in LiveNodes /\ a \in Internals /\ a # None
    BY <1>0, UpHeavier, TreeAssumption DEF LiveNodes
  <2>4. below = node[a].left \/ below = node[a].right
    BY <1>0, <2>2, <2>3, ParentHeavier
  <2>5. \/ node[a].left \in Chain(n) /\ node[a].right \notin Chain(n)
        \/ node[a].left \notin Chain(n) /\ node[a].right \in Chain(n)
    BY <1>0, <2>3, OneChild
  <2>6. c = below /\ c # d
    BY <1>6, <2>2, <2>4, <2>5
  <2>7. aside[k] = d
    BY <1>6, <2>1, <2>6 DEF Aside
  <2>8. nb[a] = Merged(BoxOf(d), IF k = 1 THEN BoxOf(sibling) ELSE boxes[k - 1])
    BY <1>3, <1>5, <2>1, <2>7
  <2>9. CASE k = 1
    BY <2>6, <2>8, <2>9
  <2>10. CASE k # 1
    <3>1. k - 1 \in 1..Len(path) /\ c = path[k - 1]
      BY <1>1, <2>6, <2>10
    <3>2. c \in Up(n) /\ c # n /\ level[c] = k - 1
      <4>1. c \in Up(n) /\ level[c] = k - 1
        BY <1>1, <1>3, <3>1
      <4>2. c # n
        BY <1>0, <4>1, UpHeavier, Zenon
      <4> QED
        BY <4>1, <4>2
    <3> QED
      BY <2>8, <2>10, <3>2
  <2> QED
    BY <2>9, <2>10
<1> HIDE DEF nb
<1>7. Regrown(n, sibling, nb)
  BY <1>6 DEF Regrown
<1>8. nb = RegrownBy(n, sibling)
  <2>1. \A a \in Up(n) : level[a] = Level(path, a)
    OBVIOUS
  <2> QED
    BY <2>1 DEF nb, RegrownBy
<1> QED
  BY <1>7, <1>8

\* A leaf and its parent go; the sibling takes the parent's place, and each node
\* above loses one point and gets its box from nb.
Dropped(leaf, parent, sibling, p, nb) ==
  /\ node' = [m \in Nodes |->
       IF m \in {leaf, parent} THEN None
       ELSE IF m = sibling THEN [node[m] EXCEPT !.parent = node[parent].parent]
       ELSE IF m = node[parent].parent
       THEN Replaced([AddMass(node[m], -1) EXCEPT !.box = nb[m]], parent, sibling)
       ELSE IF m \in Up(parent) THEN [AddMass(node[m], -1) EXCEPT !.box = nb[m]]
       ELSE node[m]]
  /\ root' = IF node[parent].parent = None THEN sibling ELSE root
  /\ leaf_index' = [leaf_index EXCEPT ![p] = None]
  /\ coord' = [coord EXCEPT ![p] = None]
  /\ UNCHANGED <<adding, build>>

\* What it takes.
Dropping(leaf, parent, sibling, p, nb) ==
  /\ TreeInv /\ adding = None
  /\ p \in Points /\ leaf_index[p] = leaf
  /\ leaf \in LiveNodes /\ leaf \in Leaves /\ node[leaf].mass = 1
  /\ parent = node[leaf].parent /\ parent # None
  /\ sibling = IF node[parent].left = leaf THEN node[parent].right ELSE node[parent].left
  /\ Regrown(parent, sibling, nb)
  /\ Dropped(leaf, parent, sibling, p, nb)

\* Where the walk of DropLeaf goes, and the boxes it computes on the way.
DropWalk(p, leaf, parent, sibling, path, boxes, nb) ==
  /\ TreeInv /\ p \in Points /\ DropLeaf(p) /\ leaf = leaf_index[p]
  /\ parent = node[leaf].parent /\ parent # None
  /\ sibling = IF node[parent].left = leaf THEN node[parent].right ELSE node[parent].left
  /\ path = Above[parent] /\ boxes = Recomputed(path, parent, sibling)
  /\ nb = RegrownBy(parent, sibling)

LEMMA DropWalkIsDropping ==
  ASSUME NEW p, NEW leaf, NEW parent, NEW sibling, NEW path, NEW boxes, NEW nb,
         DropWalk(p, leaf, parent, sibling, path, boxes, nb)
  PROVE  Dropping(leaf, parent, sibling, p, nb)
<1>e. TreeInv /\ DropLeaf(p)
  BY Zenon DEF DropWalk
<1>0. WellFormed /\ TypeOK /\ TreeInv
  BY <1>e DEF TreeInv, WellFormed
<1>a. p \in Points /\ leaf = leaf_index[p] /\ parent = node[leaf].parent /\ parent # None
  BY Zenon DEF DropWalk
<1>b. sibling = IF node[parent].left = leaf THEN node[parent].right ELSE node[parent].left
  BY Zenon DEF DropWalk
<1>c. path = Above[parent]
  BY Zenon DEF DropWalk
<1>d. boxes = Recomputed(path, parent, sibling) /\ nb = RegrownBy(parent, sibling)
  BY Zenon DEF DropWalk
<1>1. leaf \in LiveNodes /\ leaf \in Leaves /\ leaf # None /\ adding = None /\ node[leaf].mass = 1
  <2>1. leaf_index[p] # None /\ adding = None /\ node[leaf_index[p]].mass = 1
    BY <1>e, Zenon DEF DropLeaf
  <2> QED
    <3>1. leaf_index \in [Points -> Leaves \cup {None}]
      BY <1>0, Zenon DEF TypeOK
    <3>2. IsLive(leaf)
      <4>1. \A q \in Points : Present(q) => IsLive(leaf_index[q])
        BY <1>0 DEF WellFormed
      <4> QED
        BY <1>a, <2>1, <4>1 DEF Present
    <3> QED
      BY <1>a, <2>1, <3>1, <3>2 DEF LiveNodes, Nodes
<1>2. parent \in LiveNodes /\ parent \in Internals
  BY <1>0, <1>1, <1>a, ParentHeavier
<1>3. sibling \in LiveNodes
  BY <1>0, <1>2, <1>b, Children
<1>4. Regrown(parent, sibling, nb)
  BY <1>0, <1>2, <1>3, <1>d, RecomputedRegrown
<1>5. /\ path \in Seq(Internals) /\ (path = <<>> <=> node[parent].parent = None)
      /\ node[parent].parent # None => Len(path) > 0 /\ path[1] = node[parent].parent
  <2>1. path \in Seq(Internals) /\ Len(path) \in Nat
    BY <1>0, <1>2, <1>c, AboveSeq, LenProperties
  <2>2. CASE node[parent].parent = None
    BY <1>0, <1>2, <2>1, <2>2, <1>c, AboveSeq
  <2>3. CASE node[parent].parent # None
    <3>1. node[parent].parent \in Up(parent)
      BY <1>0, <1>2, <2>3, UpIs
    <3>2. PICK k \in 1..Len(path) : node[parent].parent = path[k]
      BY <1>0, <1>2, <3>1, <1>c, PathIndex
    <3>3. Len(path) > 0 /\ path # <<>>
      BY <2>1, <3>2
    <3>4. path[1] = node[parent].parent
      BY <1>0, <1>2, <3>3, <1>c, AboveIsPath DEF AbovePath
    <3> QED
      BY <2>1, <2>3, <3>3, <3>4
  <2> QED
    BY <2>2, <2>3
<1>6. ASSUME node[parent].parent # None
      PROVE  nb[node[parent].parent] = boxes[1] /\ path[1] = node[parent].parent
  <2>1. node[parent].parent \in Up(parent)
    BY <1>0, <1>2, <1>6, UpIs
  <2>2. \A j, k \in 1..Len(path) : path[j] = path[k] => j = k
    BY <1>0, <1>2, <1>c, AboveIsPath DEF AbovePath
  <2>3. Len(path) \in Nat /\ Len(path) > 0 /\ path[1] = node[parent].parent
    BY <1>5, <1>6, LenProperties
  <2>4. 1 \in 1..Len(path)
    BY <2>3
  <2>5. Level(path, node[parent].parent) = 1
    BY <2>2, <2>3, <2>4 DEF Level
  <2> QED
    BY <1>c, <1>d, <2>1, <2>3, <2>5 DEF RegrownBy
<1>7. ASSUME NEW m \in Up(parent)
      PROVE  nb[m] = boxes[Level(path, m)] /\ path[Level(path, m)] = m
  <2>1. \E k \in 1..Len(path) : path[k] = m
    BY <1>0, <1>2, <1>c, PathIndex
  <2> QED
    BY <1>c, <1>d, <2>1 DEF RegrownBy, Level
<1>8. Range(path) = Up(parent)
  BY <1>c DEF Up
<1>9. \A m \in Nodes : node'[m] =
        IF m \in {leaf, parent} THEN None
        ELSE IF m = sibling THEN [node[m] EXCEPT !.parent = node[parent].parent]
        ELSE IF m = node[parent].parent
        THEN Replaced([AddMass(node[path[1]], -1) EXCEPT !.box = boxes[1]], parent, sibling)
        ELSE IF m \in Range(path)
        THEN [AddMass(node[path[Level(path, m)]], -1) EXCEPT !.box = boxes[Level(path, m)]]
        ELSE node[m]
  BY <1>a, <1>b, <1>c, <1>d, <1>e, Zenon DEF DropLeaf
<1>10. node' = [m \in Nodes |->
        IF m \in {leaf, parent} THEN None
        ELSE IF m = sibling THEN [node[m] EXCEPT !.parent = node[parent].parent]
        ELSE IF m = node[parent].parent
        THEN Replaced([AddMass(node[m], -1) EXCEPT !.box = nb[m]], parent, sibling)
        ELSE IF m \in Up(parent) THEN [AddMass(node[m], -1) EXCEPT !.box = nb[m]]
        ELSE node[m]]
  <2>1. ASSUME NEW m \in Nodes
        PROVE  node'[m] =
          IF m \in {leaf, parent} THEN None
          ELSE IF m = sibling THEN [node[m] EXCEPT !.parent = node[parent].parent]
          ELSE IF m = node[parent].parent
          THEN Replaced([AddMass(node[m], -1) EXCEPT !.box = nb[m]], parent, sibling)
          ELSE IF m \in Up(parent) THEN [AddMass(node[m], -1) EXCEPT !.box = nb[m]]
          ELSE node[m]
    <3>1. CASE m = node[parent].parent
      <4>1. path[1] = m /\ boxes[1] = nb[m]
        BY <1>6, <3>1, TreeAssumption
      <4> QED
        BY <1>9, <3>1, <4>1
    <3>2. CASE m # node[parent].parent /\ m \in Up(parent)
      <4>1. nb[m] = boxes[Level(path, m)] /\ path[Level(path, m)] = m
        BY <1>7, <3>2
      <4>2. [AddMass(node[path[Level(path, m)]], -1) EXCEPT !.box = boxes[Level(path, m)]]
            = [AddMass(node[m], -1) EXCEPT !.box = nb[m]]
        BY <4>1
      <4>3. node'[m] =
              IF m \in {leaf, parent} THEN None
              ELSE IF m = sibling THEN [node[m] EXCEPT !.parent = node[parent].parent]
              ELSE [AddMass(node[path[Level(path, m)]], -1) EXCEPT !.box = boxes[Level(path, m)]]
        BY <1>8, <1>9, <3>2
      <4> QED
        BY <3>2, <4>2, <4>3
    <3>3. CASE m # node[parent].parent /\ m \notin Up(parent)
      BY <1>8, <1>9, <3>3
    <3> QED
      BY <3>1, <3>2, <3>3
  <2>2. node' = [m \in Nodes |-> node'[m]]
    BY <1>a, <1>e, Zenon DEF DropLeaf
  <2> QED
    BY <2>1, <2>2
<1>11. /\ root' = (IF node[parent].parent = None THEN sibling ELSE root)
       /\ leaf_index' = [leaf_index EXCEPT ![p] = None]
       /\ coord' = [coord EXCEPT ![p] = None]
       /\ UNCHANGED <<adding, build>>
  BY <1>5, <1>a, <1>b, <1>c, <1>e, Zenon DEF DropLeaf
<1> QED
  BY <1>0, <1>1, <1>4, <1>10, <1>11, <1>a, <1>b, Zenon DEF Dropping, Dropped

LEMMA DropLeafIsDropping ==
  ASSUME TreeInv, NEW p \in Points, DropLeaf(p), NEW leaf, leaf = leaf_index[p],
         NEW parent, parent = node[leaf].parent, parent # None,
         NEW sibling,
         sibling = IF node[parent].left = leaf THEN node[parent].right ELSE node[parent].left
  PROVE  \E nb : Dropping(leaf, parent, sibling, p, nb)
<1>1. DropWalk(p, leaf, parent, sibling, Above[parent], Recomputed(Above[parent], parent, sibling),
               RegrownBy(parent, sibling))
  BY DEF DropWalk
<1> QED
  BY <1>1, DropWalkIsDropping

LEMMA DroppedNodes ==
  ASSUME NEW leaf, NEW parent, NEW sibling, NEW p, NEW nb, Dropping(leaf, parent, sibling, p, nb)
  PROVE  /\ TreeInv /\ WellFormed /\ TypeOK /\ p \in Points /\ leaf_index[p] = leaf
         /\ leaf \in LiveNodes /\ leaf \in Leaves /\ node[leaf].mass = 1
         /\ leaf \in Nodes /\ parent \in Nodes /\ sibling \in Nodes
         /\ parent \in LiveNodes /\ parent \in Internals /\ sibling \in LiveNodes
         /\ leaf # parent /\ sibling # leaf /\ sibling # parent
         /\ node[leaf].parent = parent /\ node[sibling].parent = parent
         /\ \/ leaf = node[parent].left /\ sibling = node[parent].right
            \/ leaf = node[parent].right /\ sibling = node[parent].left
         /\ node[parent].mass = node[sibling].mass + 1
         /\ node[parent].mass \in Nat /\ node[sibling].mass \in Nat /\ node[sibling].mass > 0
         /\ \A a \in Up(parent) : /\ a \in LiveNodes /\ a \in Internals /\ a \in Nodes
                                  /\ a # leaf /\ a # parent /\ a # sibling
                                  /\ node[parent].mass < node[a].mass /\ node[a].mass \in Nat
                                  /\ nb[a] \in Boxes
<1>0. TreeInv /\ WellFormed /\ TypeOK
  BY DEF Dropping, TreeInv, WellFormed
<1>1. /\ leaf \in LiveNodes /\ leaf \in Leaves /\ node[leaf].mass = 1
      /\ parent = node[leaf].parent /\ parent # None /\ p \in Points /\ leaf_index[p] = leaf
      /\ Regrown(parent, sibling, nb)
  BY DEF Dropping
<1>a. sibling = IF node[parent].left = leaf THEN node[parent].right ELSE node[parent].left
  BY DEF Dropping
<1>2. /\ parent \in LiveNodes /\ parent \in Internals
      /\ leaf = node[parent].left \/ leaf = node[parent].right
  BY <1>0, <1>1, ParentHeavier
<1>3. /\ node[parent].left \in LiveNodes /\ node[parent].right \in LiveNodes
      /\ node[parent].left # node[parent].right
      /\ node[node[parent].left].parent = parent /\ node[node[parent].right].parent = parent
      /\ node[parent].mass = node[node[parent].left].mass + node[node[parent].right].mass
  BY <1>0, <1>2, Children
<1>b. parent = node[leaf].parent /\ leaf \in LiveNodes /\ leaf \in Leaves /\ parent # None
  BY <1>1
<1>4. /\ sibling \in LiveNodes /\ sibling # leaf /\ node[sibling].parent = parent
      /\ \/ leaf = node[parent].left /\ sibling = node[parent].right
         \/ leaf = node[parent].right /\ sibling = node[parent].left
  BY <1>a, <1>2, <1>3
<1>5. /\ node[parent].mass \in Nat /\ node[sibling].mass \in Nat /\ node[sibling].mass > 0
  BY <1>0, <1>2, <1>4, LiveNode
<1>6. node[parent].mass = node[sibling].mass + 1
  <2>1. node[parent].mass = node[node[parent].left].mass + node[node[parent].right].mass
    BY <1>3
  <2>2. node[leaf].mass = 1
    BY <1>1
  <2>3. \/ node[parent].mass = node[leaf].mass + node[sibling].mass
        \/ node[parent].mass = node[sibling].mass + node[leaf].mass
    <3>1. \/ leaf = node[parent].left /\ sibling = node[parent].right
          \/ leaf = node[parent].right /\ sibling = node[parent].left
      BY <1>4
    <3> QED
      BY <2>1, <3>1, Zenon
  <2> QED
    BY <1>5, <2>2, <2>3
<1>7. leaf # parent /\ sibling # parent
  <2>1. leaf # parent
    BY <1>b, <1>2, NodesFinite
  <2> QED
    BY <1>5, <1>6, <2>1
<1>8. ASSUME NEW a \in Up(parent)
      PROVE  /\ a \in LiveNodes /\ a \in Internals /\ a \in Nodes
             /\ a # leaf /\ a # parent /\ a # sibling
             /\ node[parent].mass < node[a].mass /\ node[a].mass \in Nat
             /\ nb[a] \in Boxes
  <2>1. a \in LiveNodes /\ a \in Internals /\ node[parent].mass < node[a].mass
    BY <1>0, <1>2, UpHeavier
  <2>2. node[a].mass \in Nat /\ a \in Nodes
    BY <1>0, <2>1, LiveNode
  <2>3. nb[a] \in Boxes
    BY <1>0, <1>1, <1>2, <1>4, RegrownBoxes
  <2>4. a # leaf /\ a # parent /\ a # sibling
    <3>1. a # leaf
      BY <1>b, <2>1, NodesFinite
    <3> QED
      BY <1>5, <1>6, <2>1, <2>2, <3>1
  <2> QED
    BY <2>1, <2>2, <2>3, <2>4
<1>9. leaf \in Nodes /\ parent \in Nodes /\ sibling \in Nodes
  BY <1>1, <1>2, <1>4 DEF LiveNodes
<1> QED
  BY <1>0, <1>1, <1>2, <1>4, <1>5, <1>6, <1>7, <1>8, <1>9

LEMMA DroppedOld ==
  ASSUME NEW leaf, NEW parent, NEW sibling, NEW p, NEW nb, Dropping(leaf, parent, sibling, p, nb),
         NEW m \in LiveNodes, m # leaf, m # parent
  PROVE  /\ m \in Leaves => node'[m] \in LeafNode /\ node'[m].point = node[m].point
         /\ m \in Internals =>
              /\ node'[m] \in InnerNode /\ node'[m].cut = node[m].cut
              /\ node'[m].box = IF m \in Up(parent) THEN nb[m] ELSE node[m].box
              /\ node'[m].left = IF node[m].left = parent THEN sibling ELSE node[m].left
              /\ node'[m].right = IF node[m].right = parent THEN sibling ELSE node[m].right
         /\ node'[m].parent = IF m = sibling THEN node[parent].parent ELSE node[m].parent
         /\ node'[m].mass = IF m \in Up(parent) THEN node[m].mass + (-1) ELSE node[m].mass
<1>0. /\ WellFormed /\ TypeOK /\ parent \in LiveNodes /\ sibling \in LiveNodes
      /\ sibling \in Nodes /\ sibling # parent
      /\ \A a \in Up(parent) : /\ a \in LiveNodes /\ a \in Internals /\ a # sibling
                               /\ node[parent].mass < node[a].mass /\ node[a].mass \in Nat
                               /\ nb[a] \in Boxes
      /\ node[parent].mass \in Nat /\ node[parent].mass > 0
  BY DroppedNodes, LiveNode
<1>1. m \in Nodes /\ node[parent].parent \in Parents
  BY <1>0, LiveNode DEF LiveNodes
<1>2. node' = [k \in Nodes |->
       IF k \in {leaf, parent} THEN None
       ELSE IF k = sibling THEN [node[k] EXCEPT !.parent = node[parent].parent]
       ELSE IF k = node[parent].parent
       THEN Replaced([AddMass(node[k], -1) EXCEPT !.box = nb[k]], parent, sibling)
       ELSE IF k \in Up(parent) THEN [AddMass(node[k], -1) EXCEPT !.box = nb[k]]
       ELSE node[k]]
  BY DEF Dropping, Dropped
<1>3. /\ m \in Leaves => node[m] \in LeafNode /\ m \notin Internals
      /\ m \in Internals => node[m] \in InnerNode /\ m \notin Leaves
      /\ m \in Leaves \/ m \in Internals
  BY <1>0, LiveNode
<1>4. m \in Internals /\ (node[m].left = parent \/ node[m].right = parent)
        => m = node[parent].parent
  BY <1>0, Children
<1>5. m = node[parent].parent => m \in Up(parent)
  <2>1. m # None
    BY <1>1, TreeAssumption
  <2> QED
    BY <1>0, <2>1, UpIs
<1>6. CASE m = sibling
  <2>1. node'[m] = [node[m] EXCEPT !.parent = node[parent].parent]
    BY <1>1, <1>2, <1>6
  <2>2. m \notin Up(parent)
    BY <1>0, <1>6
  <2>3. CASE m \in Leaves
    BY <1>1, <1>3, <1>6, <2>1, <2>2, <2>3, MovedLeaf
  <2>4. CASE m \in Internals
    BY <1>1, <1>3, <1>4, <1>5, <1>6, <2>1, <2>2, <2>4, MovedInner
  <2> QED
    BY <1>3, <2>3, <2>4
<1>7. CASE m # sibling /\ m \in Up(parent)
  <2> DEFINE w == AddMass(node[m], -1)
             g == [w EXCEPT !.box = nb[m]]
  <2>1. m \in Internals /\ node[m] \in InnerNode /\ m \notin Leaves
    BY <1>0, <1>3, <1>7
  <2>2. nb[m] \in Boxes
    BY <1>0, <1>7
  <2>3. node[m].mass + (-1) > 0 /\ -1 \in Int
    <3>1. node[parent].mass < node[m].mass /\ node[m].mass \in Nat
      BY <1>0, <1>7
    <3> QED
      BY <1>0, <3>1
  <2>4. /\ w \in InnerNode /\ w.parent = node[m].parent /\ w.mass = node[m].mass + (-1)
        /\ w.cut = node[m].cut /\ w.box = node[m].box /\ w.left = node[m].left
        /\ w.right = node[m].right
    BY <2>1, <2>3, WeighedInner
  <2> HIDE DEF w
  <2>6. /\ g \in InnerNode /\ g.parent = node[m].parent /\ g.mass = node[m].mass + (-1)
        /\ g.cut = node[m].cut /\ g.box = nb[m] /\ g.left = node[m].left
        /\ g.right = node[m].right
    BY <2>2, <2>4, BoxedInner
  <2> HIDE DEF g
  <2>7. CASE m = node[parent].parent
    <3>1. node'[m] = Replaced(g, parent, sibling)
      BY <1>1, <1>2, <1>7, <2>7 DEF w, g
    <3>2. (parent = node[m].left \/ parent = node[m].right) /\ node[m].left # node[m].right
      <4>1. node[parent].parent # None
        BY <1>1, <2>7, TreeAssumption
      <4> QED
        BY <1>0, <2>1, <2>7, <4>1, ParentHeavier, Children
    <3>3. parent \in {g.left, g.right} /\ g.left # g.right
      BY <2>6, <3>2
    <3> DEFINE r == Replaced(g, parent, sibling)
    <3>4. /\ r \in InnerNode /\ r.parent = g.parent /\ r.mass = g.mass
          /\ r.cut = g.cut /\ r.box = g.box
          /\ r.left  = IF g.left = parent THEN sibling ELSE g.left
          /\ r.right = IF g.right = parent THEN sibling ELSE g.right
      BY <1>0, <2>6, <3>3, ReplacedInner
    <3> HIDE DEF r
    <3> QED
      BY <1>7, <2>1, <2>6, <3>1, <3>4 DEF r
  <2>8. CASE m # node[parent].parent
    <3>1. node'[m] = g
      BY <1>1, <1>2, <1>7, <2>8 DEF w, g
    <3> QED
      BY <1>4, <1>7, <2>1, <2>6, <2>8, <3>1
  <2> QED
    BY <2>7, <2>8
<1>8. CASE m # sibling /\ m \notin Up(parent)
  <2>1. node'[m] = node[m]
    BY <1>1, <1>2, <1>5, <1>8
  <2> QED
    BY <1>3, <1>4, <1>5, <1>8, <2>1
<1> QED
  BY <1>6, <1>7, <1>8

LEMMA DroppedLive ==
  ASSUME NEW leaf, NEW parent, NEW sibling, NEW p, NEW nb, Dropping(leaf, parent, sibling, p, nb)
  PROVE  /\ LiveNodes' = LiveNodes \ {leaf, parent}
         /\ \A m \in Nodes : m \notin LiveNodes \ {leaf, parent} => node'[m] = None
<1>0. /\ WellFormed /\ TypeOK /\ parent \in LiveNodes /\ sibling \in LiveNodes
      /\ \A a \in Up(parent) : a \in LiveNodes
  BY DroppedNodes
<1>1. ASSUME NEW m \in Nodes, m \notin LiveNodes \ {leaf, parent}
      PROVE  node'[m] = None
  <2>1. CASE m \in {leaf, parent}
    BY <2>1 DEF Dropping, Dropped
  <2>2. CASE m \notin {leaf, parent}
    <3>1. node[m] = None /\ m # sibling /\ m \notin Up(parent)
      BY <1>0, <1>1, <2>2 DEF LiveNodes, IsLive
    <3>2. m # node[parent].parent
      <4>1. m # None
        BY TreeAssumption
      <4> QED
        BY <1>0, <3>1, <4>1, UpIs
    <3> QED
      BY <2>2, <3>1, <3>2 DEF Dropping, Dropped
  <2> QED
    BY <2>1, <2>2
<1>2. ASSUME NEW m \in LiveNodes \ {leaf, parent}
      PROVE  m \in Nodes /\ node'[m] # None
  <2>1. node'[m] \in LeafNode \/ node'[m] \in InnerNode
    BY <1>0, DroppedOld, LiveNode
  <2> QED
    BY <2>1, TreeAssumption DEF LiveNodes
<1> QED
  BY <1>1, <1>2 DEF LiveNodes, IsLive

\* Where the parent was somebody's child, the sibling is now.
LEMMA DroppedChild ==
  ASSUME NEW leaf, NEW parent, NEW sibling, NEW p, NEW nb, Dropping(leaf, parent, sibling, p, nb),
         NEW c \in LiveNodes, node[c].parent # parent,
         NEW d, d = IF c = parent THEN sibling ELSE c
  PROVE  /\ d \in LiveNodes' /\ node'[d] # None
         /\ node'[d].mass = IF c \in Chain(parent) THEN node[c].mass + (-1) ELSE node[c].mass
         /\ node'[d].parent = node[c].parent
<1>0. /\ sibling \in LiveNodes /\ sibling # parent /\ sibling # leaf /\ leaf # parent
      /\ node[leaf].parent = parent /\ node[sibling].parent = parent
      /\ node[parent].mass = node[sibling].mass + 1 /\ node[sibling].mass \in Nat
      /\ sibling \notin Up(parent)
  BY DroppedNodes
<1>1. d \in LiveNodes /\ d # leaf /\ d # parent /\ d \in LiveNodes'
  BY <1>0, DroppedLive
<1>2. CASE c = parent
  <2>1. node'[d].mass = node[sibling].mass /\ node'[d].parent = node[parent].parent
    BY <1>0, <1>1, <1>2, DroppedOld
  <2>2. c \in Chain(parent) /\ node[c].mass + (-1) = node[sibling].mass
    BY <1>0, <1>2 DEF Chain
  <2> QED
    BY <1>1, <1>2, <2>1, <2>2 DEF LiveNodes, IsLive
<1>3. CASE c # parent
  <2>1. c \in Chain(parent) <=> c \in Up(parent)
    BY <1>3 DEF Chain
  <2>2. c # sibling /\ d = c
    BY <1>0, <1>3
  <2> QED
    BY <1>1, <1>3, <2>1, <2>2, DroppedOld DEF LiveNodes, IsLive
<1> QED
  BY <1>2, <1>3

LEMMA DroppedSums ==
  ASSUME NEW leaf, NEW parent, NEW sibling, NEW p, NEW nb, Dropping(leaf, parent, sibling, p, nb),
         NEW m \in LiveNodes', m \in Internals
  PROVE  node'[m].mass = node'[node'[m].left].mass + node'[node'[m].right].mass
<1>0. WellFormed /\ TypeOK /\ parent \in LiveNodes
  BY DroppedNodes
<1>1. m \in LiveNodes /\ m # leaf /\ m # parent
  BY DroppedLive
<1> PICK a : a = node[m].left
  OBVIOUS
<1> PICK b : b = node[m].right
  OBVIOUS
<1> PICK aa : aa = IF a = parent THEN sibling ELSE a
  OBVIOUS
<1> PICK bb : bb = IF b = parent THEN sibling ELSE b
  OBVIOUS
<1>2. /\ a \in LiveNodes /\ b \in LiveNodes /\ node[m].mass = node[a].mass + node[b].mass
      /\ node[a].parent # parent /\ node[b].parent # parent
  BY <1>0, <1>1, Children
<1>3. node'[m].left = aa /\ node'[m].right = bb
      /\ node'[m].mass = IF m \in Up(parent) THEN node[m].mass + (-1) ELSE node[m].mass
  BY <1>1, DroppedOld
<1>4. /\ node'[aa].mass = IF a \in Chain(parent) THEN node[a].mass + (-1) ELSE node[a].mass
      /\ node'[bb].mass = IF b \in Chain(parent) THEN node[b].mass + (-1) ELSE node[b].mass
  BY <1>2, DroppedChild
<1>5. node[m].mass \in Nat /\ node[a].mass \in Nat /\ node[b].mass \in Nat
  BY <1>0, <1>1, <1>2, LiveNode
<1>6. CASE m \in Up(parent)
  <2>1. \/ a \in Chain(parent) /\ b \notin Chain(parent)
        \/ a \notin Chain(parent) /\ b \in Chain(parent)
    BY <1>0, <1>1, <1>6, OneChild
  <2> QED
    BY <1>2, <1>3, <1>4, <1>5, <1>6, <2>1
<1>7. CASE m \notin Up(parent)
  <2>1. a \notin Chain(parent) /\ b \notin Chain(parent)
    BY <1>0, <1>1, <1>7, OneChild
  <2> QED
    BY <1>2, <1>3, <1>4, <1>7, <2>1
<1> QED
  BY <1>6, <1>7

LEMMA DroppedTyped ==
  ASSUME NEW leaf, NEW parent, NEW sibling, NEW p, NEW nb, Dropping(leaf, parent, sibling, p, nb)
  PROVE  TypeOK'
<1>0. WellFormed /\ TypeOK /\ p \in Points /\ sibling \in Nodes
  BY DroppedNodes
<1>1. /\ build' = build /\ coord' = [coord EXCEPT ![p] = None] /\ adding' = adding
      /\ leaf_index' = [leaf_index EXCEPT ![p] = None]
      /\ root' = (IF node[parent].parent = None THEN sibling ELSE root)
  BY DEF Dropping, Dropped
<1>2. ASSUME NEW m \in LiveNodes \ {leaf, parent}
      PROVE  /\ m \in Leaves => node'[m] \in LeafNode
             /\ m \in Internals => node'[m] \in InnerNode /\ node'[m].cut.value \in CutGrid[build]
  <2>1. m \in Internals => node[m].cut.value \in CutGrid[build]
    BY <1>0 DEF TypeOK, LiveNodes
  <2> QED
    BY <2>1, DroppedOld
<1>3. \A m \in Nodes : m \in LiveNodes \ {leaf, parent} \/ node'[m] = None
  BY DroppedLive
<1>4. node' \in [Nodes -> LeafNode \cup InnerNode \cup {None}]
  <2>1. \A m \in Nodes : node'[m] \in LeafNode \cup InnerNode \cup {None}
    BY <1>2, <1>3 DEF Nodes
  <2>2. node' = [m \in Nodes |-> node'[m]]
    BY DEF Dropping, Dropped
  <2> QED
    BY <2>1, <2>2
<1>5. \A m \in Nodes : IsLive(m)' => m \in LiveNodes \ {leaf, parent}
  BY <1>3 DEF IsLive
<1>6. /\ \A m \in Leaves : IsLive(m)' => node'[m] \in LeafNode
      /\ \A m \in Internals : IsLive(m)' =>
           node'[m] \in InnerNode /\ node'[m].cut.value \in CutGrid[build]
  BY <1>2, <1>5 DEF Nodes
<1>7. leaf_index' \in [Points -> Leaves \cup {None}] /\ coord' \in [Points -> Coords \cup {None}]
  BY <1>0, <1>1 DEF TypeOK
<1> QED
  BY <1>0, <1>1, <1>4, <1>6, <1>7 DEF TypeOK

LEMMA DroppedShape ==
  ASSUME NEW leaf, NEW parent, NEW sibling, NEW p, NEW nb, Dropping(leaf, parent, sibling, p, nb)
  PROVE  RootInv' /\ ParentInv' /\ ChildInv' /\ SizeInv'
<1>0. /\ WellFormed /\ TypeOK
      /\ leaf \in LiveNodes /\ parent \in LiveNodes /\ sibling \in LiveNodes
      /\ leaf \in Leaves /\ parent \in Internals
      /\ leaf # parent /\ sibling # leaf /\ sibling # parent
      /\ node[leaf].parent = parent /\ node[sibling].parent = parent
      /\ \/ leaf = node[parent].left /\ sibling = node[parent].right
         \/ leaf = node[parent].right /\ sibling = node[parent].left
  BY DroppedNodes
<1>1. root' = (IF node[parent].parent = None THEN sibling ELSE root)
  BY DEF Dropping, Dropped
<1>2. LiveNodes' = LiveNodes \ {leaf, parent}
  BY DroppedLive
<1>3. /\ root \in LiveNodes /\ node[root].parent = None
      /\ \A m \in LiveNodes : m # root => node[m].parent # None
  BY <1>0 DEF WellFormed, RootInv, TypeOK, LiveNodes, ParentInv
<1>4. parent # None /\ sibling # None
  BY <1>0, TreeAssumption DEF LiveNodes
<1>5. leaf # root /\ (node[parent].parent = None <=> parent = root)
  BY <1>0, <1>3, <1>4
<1>6. root' \in LiveNodes' /\ root' # None /\ node'[root'].parent = None
  <2>1. CASE parent = root
    BY <1>0, <1>1, <1>2, <1>4, <1>5, <2>1, DroppedOld
  <2>2. CASE parent # root
    <3>1. root' = root /\ root # sibling /\ root # None
      BY <1>0, <1>1, <1>3, <1>4, <1>5, <2>2, TreeAssumption DEF LiveNodes
    <3> QED
      BY <1>2, <1>3, <1>5, <2>2, <3>1, DroppedOld
  <2> QED
    BY <2>1, <2>2
<1>7. RootInv'
  BY <1>6 DEF RootInv, LiveNodes
<1>8. ASSUME NEW m \in LiveNodes', m # root'
      PROVE  /\ node'[m].parent # None /\ node'[m].parent \in LiveNodes'
             /\ m = node'[node'[m].parent].left \/ m = node'[node'[m].parent].right
  <2>1. m \in LiveNodes /\ m # leaf /\ m # parent
    BY <1>2
  <2> PICK c : c = IF m = sibling THEN parent ELSE m
    OBVIOUS
  <2> PICK q : q = node[c].parent
    OBVIOUS
  <2>2. c \in LiveNodes /\ c # root
    BY <1>0, <1>1, <1>5, <1>8, <2>1
  <2>3. q # None /\ q \in LiveNodes /\ q \in Internals /\ (c = node[q].left \/ c = node[q].right)
    BY <1>0, <1>3, <2>2, ParentHeavier
  <2>4. q # leaf
    BY <1>0, <2>3, NodesFinite
  <2>5. q # parent
    <3>1. CASE m = sibling
      BY <1>0, <1>4, <2>3, <3>1, ParentHeavier, LiveNode
    <3>2. CASE m # sibling
      BY <1>0, <2>1, <2>3, <3>2
    <3> QED
      BY <3>1, <3>2
  <2>6. node'[m].parent = q
    BY <2>1, DroppedOld
  <2>7. /\ node'[q].left = IF node[q].left = parent THEN sibling ELSE node[q].left
        /\ node'[q].right = IF node[q].right = parent THEN sibling ELSE node[q].right
    BY <2>3, <2>4, <2>5, DroppedOld
  <2>8. m = node'[q].left \/ m = node'[q].right
    BY <2>1, <2>3, <2>7
  <2> QED
    BY <1>2, <2>3, <2>4, <2>5, <2>6, <2>8
<1>9. ParentInv'
  <2>1. \A m \in LiveNodes' \ {root'} :
          /\ node'[m].parent # None /\ node'[node'[m].parent] # None
          /\ m \in {node'[node'[m].parent].left, node'[node'[m].parent].right}
    BY <1>8 DEF LiveNodes, IsLive
  <2> QED
    BY <2>1 DEF ParentInv, IsLive
<1>10. ChildInv'
  <2> SUFFICES ASSUME NEW m \in LiveNodes', m \in Internals
               PROVE  /\ node'[m].left # node'[m].right
                      /\ \A c \in {node'[m].left, node'[m].right} :
                           node'[c] # None /\ node'[c].parent = m
    BY DEF ChildInv, IsLive
  <2>1. m \in LiveNodes /\ m # leaf /\ m # parent
    BY <1>2
  <2> PICK a : a = node[m].left
    OBVIOUS
  <2> PICK b : b = node[m].right
    OBVIOUS
  <2>2. /\ a \in LiveNodes /\ b \in LiveNodes /\ a # b
        /\ node[a].parent = m /\ node[b].parent = m
    BY <1>0, <2>1, Children
  <2>3. /\ node'[m].left = IF a = parent THEN sibling ELSE a
        /\ node'[m].right = IF b = parent THEN sibling ELSE b
    BY <2>1, DroppedOld
  <2>4. a # sibling /\ b # sibling
    BY <1>0, <2>1, <2>2
  <2>5. node'[node'[m].left] # None /\ node'[node'[m].left].parent = m
    BY <2>1, <2>2, <2>3, DroppedChild
  <2>6. node'[node'[m].right] # None /\ node'[node'[m].right].parent = m
    BY <2>1, <2>2, <2>3, DroppedChild
  <2> QED
    BY <2>2, <2>3, <2>4, <2>5, <2>6
<1>11. SizeInv'
  <2>1. /\ LiveNodes' \cap Internals = (LiveNodes \cap Internals) \ {parent}
        /\ LiveNodes' \cap Leaves = (LiveNodes \cap Leaves) \ {leaf}
    BY <1>0, <1>2, NodesFinite
  <2>2. IsFiniteSet(LiveNodes \cap Internals) /\ IsFiniteSet(LiveNodes \cap Leaves)
    <3>1. LiveNodes \cap Internals \in SUBSET Internals /\ LiveNodes \cap Leaves \in SUBSET Leaves
      OBVIOUS
    <3> QED
      BY <3>1, NodesFinite, FS_Subset
  <2>3. /\ Cardinality(LiveNodes' \cap Internals) = Cardinality(LiveNodes \cap Internals) - 1
        /\ Cardinality(LiveNodes' \cap Leaves) = Cardinality(LiveNodes \cap Leaves) - 1
        /\ Cardinality(LiveNodes \cap Internals) \in Nat
        /\ Cardinality(LiveNodes \cap Leaves) \in Nat
    <3> PICK I : I = LiveNodes \cap Internals
      OBVIOUS
    <3> PICK L : L = LiveNodes \cap Leaves
      OBVIOUS
    <3>1. parent \in I /\ leaf \in L /\ IsFiniteSet(I) /\ IsFiniteSet(L)
      BY <1>0, <2>2
    <3>2. /\ Cardinality(I \ {parent}) = Cardinality(I) - 1
          /\ Cardinality(L \ {leaf}) = Cardinality(L) - 1
      BY <3>1, FS_RemoveElement
    <3>3. Cardinality(I) \in Nat /\ Cardinality(L) \in Nat
      BY <3>1, FS_CardinalityType
    <3> QED
      BY <2>1, <3>2, <3>3
  <2>4. root # None
    BY <1>3, TreeAssumption DEF LiveNodes
  <2>5. Cardinality(LiveNodes \cap Internals) = Cardinality(LiveNodes \cap Leaves) - 1
    BY <1>0, <2>4 DEF WellFormed, SizeInv
  <2>6. Cardinality(LiveNodes' \cap Internals) = Cardinality(LiveNodes' \cap Leaves) - 1
    BY <2>3, <2>5
  <2> QED
    BY <1>6, <2>6 DEF SizeInv
<1> QED
  BY <1>7, <1>9, <1>10, <1>11

\* A leaf of mass one is indexed by one point.
LEMMA OneSharer ==
  ASSUME WellFormed, NEW leaf \in LiveNodes, leaf \in Leaves, node[leaf].mass = 1,
         NEW p \in Points, leaf_index[p] = leaf
  PROVE  Sharers(leaf) = {p}
<1>1. Cardinality(Sharers(leaf)) = 1 /\ IsFiniteSet(Sharers(leaf)) /\ p \in Sharers(leaf)
  BY PresentFinite DEF WellFormed, MassIsCount, Sharers
<1>2. PICK q : Sharers(leaf) = {q}
  BY <1>1, FS_Singleton
<1> QED
  BY <1>1, <1>2

LEMMA DroppedTree ==
  ASSUME NEW leaf, NEW parent, NEW sibling, NEW p, NEW nb, Dropping(leaf, parent, sibling, p, nb)
  PROVE  TreeInv'
<1>0. /\ TreeInv /\ WellFormed /\ TypeOK /\ CoordInv /\ p \in Points /\ leaf_index[p] = leaf
      /\ leaf \in LiveNodes /\ leaf \in Leaves /\ parent \in Internals
      /\ leaf \notin Internals /\ parent \notin Leaves /\ node[leaf].mass = 1
  BY DroppedNodes, NodesFinite DEF TreeInv
<1>1. /\ build' = build /\ adding' = None
      /\ leaf_index' = [leaf_index EXCEPT ![p] = None] /\ coord' = [coord EXCEPT ![p] = None]
      /\ leaf_index \in [Points -> Leaves \cup {None}] /\ coord \in [Points -> Coords \cup {None}]
  BY <1>0 DEF Dropping, Dropped, TypeOK
<1>2. LiveNodes' = LiveNodes \ {leaf, parent}
  BY DroppedLive
<1>3. Sharers(leaf) = {p}
  BY <1>0, OneSharer
<1>4. ASSUME NEW m \in LiveNodes' \cap Leaves
      PROVE  node'[m].mass = Cardinality(Sharers(m)') /\ node'[m].point \in Sharers(m)'
  <2>1. m \in LiveNodes /\ m # leaf /\ m # parent /\ m \notin Internals /\ m # None
    BY <1>2, NodesFinite, TreeAssumption DEF Nodes
  <2>2. Sharers(m)' = Sharers(m)
    BY <1>0, <1>1, <2>1 DEF Sharers
  <2>3. m \notin Up(parent)
    BY <2>1, DroppedNodes
  <2>4. node'[m].mass = node[m].mass /\ node'[m].point = node[m].point
    BY <2>1, <2>3, DroppedOld
  <2>5. node[m].mass = Cardinality(Sharers(m)) /\ node[m].point \in Sharers(m)
    BY <1>0, <2>1 DEF WellFormed, MassIsCount
  <2> QED
    BY <2>2, <2>4, <2>5
<1>5. MassIsCount'
  BY <1>4, DroppedSums DEF MassIsCount
<1>6. ASSUME NEW q \in Points, leaf_index'[q] # None
      PROVE  /\ q # p /\ leaf_index'[q] = leaf_index[q] /\ leaf_index[q] # None
             /\ leaf_index[q] \in LiveNodes' /\ leaf_index[q] \in LiveNodes
             /\ leaf_index[q] \in Leaves /\ leaf_index[q] # leaf /\ leaf_index[q] # parent
             /\ coord'[q] = coord[q]
  <2>1. q # p /\ leaf_index'[q] = leaf_index[q] /\ coord'[q] = coord[q] /\ leaf_index[q] # None
    BY <1>1, <1>6
  <2>2. leaf_index[q] \in LiveNodes /\ leaf_index[q] \in Leaves
    BY <1>0, <1>1, <2>1 DEF WellFormed, Present, LiveNodes, Nodes
  <2>3. leaf_index[q] # leaf
    BY <1>3, <2>1 DEF Sharers
  <2> QED
    BY <1>0, <1>2, <2>1, <2>2, <2>3
<1>7. \A q \in Points : Present(q)' => IsLive(leaf_index[q])'
  <2> SUFFICES ASSUME NEW q \in Points, leaf_index'[q] # None
               PROVE  node'[leaf_index'[q]] # None
    BY DEF Present, IsLive
  <2> QED
    BY <1>6 DEF LiveNodes, IsLive
<1>8. CoordInv'
  <2> SUFFICES ASSUME NEW q \in Points, leaf_index'[q] # None
               PROVE  /\ coord'[q] # None
                      /\ ~Packed => coord'[q] = coord'[node'[leaf_index'[q]].point]
    BY <1>1 DEF CoordInv, Present, Packed
  <2> PICK l : l = leaf_index[q]
    OBVIOUS
  <2>1. /\ q # p /\ leaf_index'[q] = l /\ l # None /\ l \in LiveNodes /\ l \in Leaves
        /\ l # leaf /\ l # parent /\ coord'[q] = coord[q]
    BY <1>6
  <2>2. node'[l].point = node[l].point
    BY <2>1, DroppedOld
  <2>3. node[l].point \in Points /\ leaf_index[node[l].point] = l
    BY <1>0, <2>1 DEF WellFormed, MassIsCount, Sharers
  <2>4. coord'[node[l].point] = coord[node[l].point]
    BY <1>0, <1>1, <2>1, <2>3
  <2>5. coord[q] # None /\ (~Packed => coord[q] = coord[node[l].point])
    BY <1>0, <2>1 DEF CoordInv, Present
  <2> QED
    BY <2>1, <2>2, <2>4, <2>5
<1>9. AddingInv'
  BY <1>1 DEF AddingInv
<1> QED
  BY <1>5, <1>7, <1>8, <1>9, DroppedTyped, DroppedShape DEF TreeInv, WellFormed

\* The only leaf of a tree of one leaf.
LEMMA DropLastLeaf ==
  ASSUME TreeInv, NEW p \in Points, DropLeaf(p), node[leaf_index[p]].parent = None
  PROVE  TreeInv' /\ LiveNodes' = {}
<1>0. WellFormed /\ TypeOK
  BY DEF TreeInv, WellFormed
<1> PICK leaf : leaf = leaf_index[p]
  OBVIOUS
<1>1. /\ leaf \in LiveNodes /\ leaf \in Leaves /\ leaf # None /\ node[leaf].mass = 1
      /\ node[leaf].parent = None /\ leaf \notin Internals
      /\ adding' = None /\ build' = build /\ root' = None
      /\ leaf_index' = [leaf_index EXCEPT ![p] = None] /\ coord' = [coord EXCEPT ![p] = None]
      /\ node' = [node EXCEPT ![leaf] = None]
  BY <1>0, NodesFinite DEF DropLeaf, WellFormed, TypeOK, Present, LiveNodes, Nodes
<1>2. leaf = root
  BY <1>0, <1>1 DEF WellFormed, ParentInv
<1>3. LiveNodes = {leaf}
  <2> SUFFICES ASSUME LiveNodes \ {leaf} # {} PROVE FALSE
    BY <1>1
  <2>1. PICK n \in LiveNodes \ {leaf} :
          node[n].parent = None \/ node[n].parent \notin LiveNodes \ {leaf}
    <3>1. LiveNodes \ {leaf} \in SUBSET LiveNodes
      OBVIOUS
    <3> QED
      BY <1>0, <3>1, Topmost
  <2>2. node[n].parent # None /\ node[n].parent \in LiveNodes
    BY <1>0, <1>2, <2>1, ParentHeavier DEF WellFormed, ParentInv
  <2>3. node[n].parent \in Internals
    BY <1>0, <2>1, <2>2, ParentHeavier
  <2> QED
    BY <1>1, <2>1, <2>2, <2>3
<1>4. \A n \in Nodes : node'[n] = None
  BY <1>0, <1>1, <1>3 DEF TypeOK, LiveNodes, IsLive
<1>5. LiveNodes' = {}
  BY <1>4 DEF LiveNodes, IsLive
<1>6. Sharers(leaf) = {p}
  BY <1>0, <1>1, OneSharer
<1>7. \A q \in Points : leaf_index'[q] = None
  <2> SUFFICES ASSUME NEW q \in Points, leaf_index[q] # None PROVE q = p
    BY <1>0, <1>1 DEF TypeOK
  <2>1. leaf_index[q] \in LiveNodes
    BY <1>0 DEF WellFormed, TypeOK, Present, LiveNodes, Nodes
  <2> QED
    BY <1>3, <1>6, <2>1 DEF Sharers
<1>8. TypeOK'
  <2>1. /\ node' \in [Nodes -> LeafNode \cup InnerNode \cup {None}]
        /\ leaf_index' \in [Points -> Leaves \cup {None}]
        /\ coord' \in [Points -> Coords \cup {None}]
    BY <1>0, <1>1 DEF TypeOK
  <2>2. \A n \in Nodes : ~IsLive(n)'
    BY <1>4 DEF IsLive
  <2> QED
    BY <1>0, <1>1, <2>1, <2>2 DEF TypeOK, Nodes
<1>9. MassIsCount' /\ RootInv' /\ ParentInv' /\ ChildInv'
  BY <1>1, <1>5 DEF MassIsCount, RootInv, ParentInv, ChildInv
<1>10. SizeInv'
  BY <1>1, <1>5, FS_EmptySet DEF SizeInv
<1>11. CoordInv' /\ AddingInv' /\ \A q \in Points : Present(q)' => IsLive(leaf_index[q])'
  BY <1>1, <1>7 DEF CoordInv, AddingInv, Present
<1> QED
  BY <1>5, <1>8, <1>9, <1>10, <1>11 DEF TreeInv, WellFormed

LEMMA DropLeafStep ==
  ASSUME TreeInv, NEW p \in Points, DropLeaf(p)
  PROVE  TreeInv'
<1>1. CASE node[leaf_index[p]].parent = None
  BY <1>1, DropLastLeaf
<1>2. CASE node[leaf_index[p]].parent # None
  <2> PICK leaf : leaf = leaf_index[p]
    OBVIOUS
  <2> PICK parent : parent = node[leaf].parent
    OBVIOUS
  <2> PICK sibling : sibling = IF node[parent].left = leaf THEN node[parent].right
                               ELSE node[parent].left
    OBVIOUS
  <2>1. PICK nb : Dropping(leaf, parent, sibling, p, nb)
    BY <1>2, DropLeafIsDropping
  <2> QED
    BY <2>1, DroppedTree
<1> QED
  BY <1>1, <1>2

------------------------------------------------------------------------------
(* The tree stays a tree.                                                   *)

LEMMA TreeStep ==
  ASSUME TreeInv, [Next]_vars
  PROVE  TreeInv'
<1>1. ASSUME NEW p \in Points, NEW x \in Coords, BeginAdd(p, x)
      PROVE  TreeInv'
  BY <1>1, BeginFirst, BeginWalk
<1>2. CASE Insertion
  <2>1. CASE Descend
    BY <2>1, DescendStep
  <2>2. CASE \E d \in Axes, v \in UNION Range(CutGrid) : Splice([dim |-> d, value |-> v])
    BY <2>2, SpliceStep
  <2>3. CASE Absorb
    BY <2>3, AbsorbStep
  <2>4. CASE Refuse
    BY <2>4, RefuseStep
  <2> QED
    BY <1>2, <2>1, <2>2, <2>3, <2>4 DEF Insertion
<1>3. ASSUME NEW p \in Points, NEW heir \in Points, DropCopy(p, heir)
      PROVE  TreeInv'
  BY <1>3, DropCopyStep
<1>4. ASSUME NEW p \in Points, DropLeaf(p)
      PROVE  TreeInv'
  BY <1>4, DropLeafStep
<1>5. CASE UNCHANGED vars
  <2>1. node' = node /\ root' = root /\ leaf_index' = leaf_index /\ build' = build
        /\ coord' = coord /\ adding' = adding
    BY <1>5 DEF vars
  <2>2. WellFormed /\ TypeOK
    BY DEF TreeInv, WellFormed
  <2>3. /\ MassIsCount' /\ RootInv' /\ ParentInv' /\ ChildInv' /\ SizeInv'
        /\ \A q \in Points : Present(q)' => IsLive(leaf_index[q])'
        /\ Above' = Above
    BY <2>1, <2>2, NodesUnchanged
  <2>4. TypeOK' /\ CoordInv'
    BY <2>1, <2>2 DEF TreeInv, TypeOK, IsLive, CoordInv, Present, Packed
  <2>5. AddingInv'
    BY <2>1, <2>3 DEF TreeInv, AddingInv, IsLive, Present, NewX, Routed
  <2> QED
    BY <2>3, <2>4, <2>5 DEF TreeInv, WellFormed
<1> QED
  BY <1>1, <1>2, <1>3, <1>4, <1>5 DEF Next

\* What every action relies on holds in every reachable state, whatever the
\* number of points, the arena's capacity, the build and the cuts drawn.
THEOREM TreeInvariance == Spec => []TreeInv
<1>1. Init => TreeInv
  BY InitTree
<1>2. TreeInv /\ [Next]_vars => TreeInv'
  BY TreeStep
<1> QED
  BY <1>1, <1>2, PTL DEF Spec

\* Masses count the points, the index names live leaves and the arena holds one
\* binary tree: after any insertions, deletions and failures of insertions.
THEOREM TreeStaysWellFormed == Spec => []WellFormed
<1>1. TreeInv => WellFormed
  BY DEF TreeInv
<1> QED
  BY <1>1, TreeInvariance, PTL

------------------------------------------------------------------------------
(* Boxes.                                                                   *)

LEMMA BoxAt ==
  ASSUME NEW b \in Boxes, NEW d \in Axes
  PROVE  b.min[d] \in Int /\ b.max[d] \in Int
BY MarksAreInts DEF Boxes

LEMMA SameBox ==
  ASSUME NEW b \in Boxes, NEW c \in Boxes,
         \A d \in Axes : b.min[d] = c.min[d] /\ b.max[d] = c.max[d]
  PROVE  b = c
<1>1. b.min \in [Axes -> Marks] /\ c.min \in [Axes -> Marks]
      /\ b.max \in [Axes -> Marks] /\ c.max \in [Axes -> Marks]
      /\ b = [min |-> b.min, max |-> b.max] /\ c = [min |-> c.min, max |-> c.max]
  BY DEF Boxes
<1>2. b.min = c.min /\ b.max = c.max
  BY <1>1
<1> QED
  BY <1>1, <1>2

LEMMA MergedAt ==
  ASSUME NEW b \in Boxes, NEW c \in Boxes, NEW d \in Axes
  PROVE  /\ Merged(b, c).min[d] = Lower(b.min[d], c.min[d])
         /\ Merged(b, c).max[d] = Upper(b.max[d], c.max[d])
BY DEF Merged

LEMMA MergedCommutes ==
  ASSUME NEW b \in Boxes, NEW c \in Boxes
  PROVE  Merged(b, c) = Merged(c, b)
<1>1. Merged(b, c) \in Boxes /\ Merged(c, b) \in Boxes
  BY MergedBoxes
<1>2. ASSUME NEW d \in Axes
      PROVE  /\ Merged(b, c).min[d] = Merged(c, b).min[d]
             /\ Merged(b, c).max[d] = Merged(c, b).max[d]
  BY BoxAt, MergedAt DEF Lower, Upper
<1> QED
  BY <1>1, <1>2, SameBox

LEMMA MergedAssociates ==
  ASSUME NEW b \in Boxes, NEW c \in Boxes, NEW e \in Boxes
  PROVE  Merged(Merged(b, c), e) = Merged(b, Merged(c, e))
<1> PICK u : u = Merged(b, c)
  OBVIOUS
<1> PICK v : v = Merged(c, e)
  OBVIOUS
<1>1. u \in Boxes /\ v \in Boxes /\ Merged(u, e) \in Boxes /\ Merged(b, v) \in Boxes
  BY MergedBoxes
<1>2. ASSUME NEW d \in Axes
      PROVE  /\ Merged(u, e).min[d] = Merged(b, v).min[d]
             /\ Merged(u, e).max[d] = Merged(b, v).max[d]
  <2>1. /\ Merged(u, e).min[d] = Lower(u.min[d], e.min[d])
        /\ Merged(u, e).max[d] = Upper(u.max[d], e.max[d])
        /\ Merged(b, v).min[d] = Lower(b.min[d], v.min[d])
        /\ Merged(b, v).max[d] = Upper(b.max[d], v.max[d])
        /\ u.min[d] = Lower(b.min[d], c.min[d]) /\ u.max[d] = Upper(b.max[d], c.max[d])
        /\ v.min[d] = Lower(c.min[d], e.min[d]) /\ v.max[d] = Upper(c.max[d], e.max[d])
    BY <1>1, MergedAt
  <2>2. /\ b.min[d] \in Int /\ c.min[d] \in Int /\ e.min[d] \in Int
        /\ b.max[d] \in Int /\ c.max[d] \in Int /\ e.max[d] \in Int
    BY BoxAt
  <2> QED
    BY <2>1, <2>2 DEF Lower, Upper
<1> QED
  BY <1>1, <1>2, SameBox

\* A box grown on one side grows by the same as a whole.
LEMMA ExtendMerged ==
  ASSUME NEW b \in Boxes, NEW c \in Boxes, NEW x \in Coords
  PROVE  /\ Extend(b, x) \in Boxes
         /\ Extend(Merged(b, c), x) = Merged(b, Extend(c, x))
         /\ Extend(Merged(b, c), x) = Merged(Extend(b, x), c)
<1> PICK e : e = FromPoint(x)
  OBVIOUS
<1>1. e \in Boxes
  BY PointBox
<1>2. Merged(b, e) \in Boxes /\ Merged(c, e) \in Boxes
  BY <1>1, MergedBoxes
<1>3. Merged(Merged(b, c), e) = Merged(b, Merged(c, e))
  BY <1>1, MergedAssociates
<1>4. Merged(Merged(b, c), e) = Merged(c, Merged(b, e))
  <2>1. Merged(b, c) = Merged(c, b)
    BY MergedCommutes
  <2> QED
    BY <1>1, <2>1, MergedAssociates
<1>5. Merged(c, Merged(b, e)) = Merged(Merged(b, e), c)
  BY <1>2, MergedCommutes
<1> QED
  BY <1>2, <1>3, <1>4, <1>5 DEF Extend

Within(b, c) == \A d \in Axes : c.min[d] <= b.min[d] /\ b.max[d] <= c.max[d]

LEMMA MergedWithin ==
  ASSUME NEW a \in Boxes, NEW b \in Boxes, NEW c \in Boxes
  PROVE  /\ Within(a, Merged(a, b)) /\ Within(b, Merged(a, b))
         /\ Within(a, c) => Within(Merged(a, b), Merged(c, b))
<1>1. ASSUME NEW d \in Axes
      PROVE  /\ Merged(a, b).min[d] <= a.min[d] /\ a.max[d] <= Merged(a, b).max[d]
             /\ Merged(a, b).min[d] <= b.min[d] /\ b.max[d] <= Merged(a, b).max[d]
  BY BoxAt, MergedAt DEF Lower, Upper
<1>2. ASSUME Within(a, c), NEW d \in Axes
      PROVE  /\ Merged(c, b).min[d] <= Merged(a, b).min[d]
             /\ Merged(a, b).max[d] <= Merged(c, b).max[d]
  <2>1. c.min[d] <= a.min[d] /\ a.max[d] <= c.max[d]
    BY <1>2 DEF Within
  <2>2. /\ a.min[d] \in Int /\ b.min[d] \in Int /\ c.min[d] \in Int
        /\ a.max[d] \in Int /\ b.max[d] \in Int /\ c.max[d] \in Int
    BY BoxAt
  <2> QED
    BY <2>1, <2>2, MergedAt DEF Lower, Upper
<1> QED
  BY <1>1, <1>2 DEF Within

GeomInv == BoxesTight /\ CutsSeparate

\* At an internal node with children a and b.
Fits(n, a, b) ==
  /\ node[n].box = Merged(BoxOf(a), BoxOf(b))
  /\ BoxOf(a).max[node[n].cut.dim] <= node[n].cut.value
  /\ node[n].cut.value < BoxOf(b).min[node[n].cut.dim]

LEMMA GeomIs ==
  GeomInv <=> (~Packed => \A n \in LiveNodes \cap Internals :
                            \E a, b : a = node[n].left /\ b = node[n].right /\ Fits(n, a, b))
BY DEF GeomInv, BoxesTight, CutsSeparate, Fits

LEMMA GeomNext ==
  ASSUME \A n \in LiveNodes' \cap Internals :
           \E a, b : a = node'[n].left /\ b = node'[n].right /\ Fits(n, a, b)'
  PROVE  GeomInv'
BY DEF GeomInv, BoxesTight, CutsSeparate, Fits, BoxOf

LEMMA SameBoxes ==
  ASSUME TreeInv, GeomInv, build' = build, LiveNodes' = LiveNodes,
         ~Packed => \A n \in LiveNodes \cap Leaves :
                      coord'[node'[n].point] = coord[node[n].point],
         \A n \in LiveNodes \cap Internals :
           /\ node'[n].left = node[n].left /\ node'[n].right = node[n].right
           /\ node'[n].cut = node[n].cut /\ node'[n].box = node[n].box
  PROVE  GeomInv'
<1>1. CASE Packed
  BY <1>1 DEF GeomInv, BoxesTight, CutsSeparate, Packed
<1>2. CASE ~Packed
  <2>1. ASSUME NEW n \in LiveNodes
        PROVE  BoxOf(n)' = BoxOf(n)
    <3>1. \/ n \in Leaves
          \/ n \in Internals /\ n \notin Leaves
      BY LiveNode DEF TreeInv, WellFormed
    <3> QED
      BY <1>2, <3>1 DEF BoxOf
  <2>2. ASSUME NEW n \in LiveNodes' \cap Internals
        PROVE  \E a, b : a = node'[n].left /\ b = node'[n].right /\ Fits(n, a, b)'
    <3>1. n \in LiveNodes \cap Internals
      OBVIOUS
    <3>2. PICK a, b : a = node[n].left /\ b = node[n].right /\ Fits(n, a, b)
      BY <1>2, <3>1, GeomIs
    <3>3. a \in LiveNodes /\ b \in LiveNodes
      BY <3>1, <3>2, Children DEF TreeInv
    <3>4. BoxOf(a)' = BoxOf(a) /\ BoxOf(b)' = BoxOf(b)
      BY <2>1, <3>3
    <3>5. Fits(n, a, b)'
      BY <3>1, <3>2, <3>4 DEF Fits
    <3> QED
      BY <3>1, <3>2, <3>5
  <2> QED
    BY <2>2, GeomNext
<1> QED
  BY <1>1, <1>2

LEMMA GeomOfNone ==
  ASSUME LiveNodes' \cap Internals = {}
  PROVE  GeomInv'
BY GeomNext

LEMMA GeomBegin ==
  ASSUME TreeInv, GeomInv, NEW p \in Points, NEW x \in Coords, BeginAdd(p, x)
  PROVE  GeomInv'
<1>0. WellFormed /\ TypeOK
  BY DEF TreeInv, WellFormed
<1>1. CASE root = None
  <2>1. NewLeaf \in Leaves /\ NewLeaf \notin Internals
    BY <1>0, RoomForLeaf, NodesFinite DEF BeginAdd, Present
  <2>2. LiveNodes = {}
    BY <1>0, <1>1 DEF WellFormed, RootInv
  <2>3. \A n \in Nodes : n # NewLeaf => node'[n] = node[n]
    BY <1>0, <1>1 DEF BeginAdd, TypeOK
  <2>4. LiveNodes' \cap Internals = {}
    BY <2>1, <2>2, <2>3 DEF LiveNodes, IsLive
  <2> QED
    BY <2>4, GeomOfNone
<1>2. CASE root # None
  <2>1. node' = node /\ build' = build /\ leaf_index[p] = None /\ coord' = [coord EXCEPT ![p] = x]
    BY <1>2 DEF BeginAdd
  <2>2. LiveNodes' = LiveNodes
    BY <2>1 DEF LiveNodes, IsLive
  <2>3. ASSUME NEW n \in LiveNodes \cap Leaves
        PROVE  coord'[node'[n].point] = coord[node[n].point]
    <3>1. node[n].point \in Points /\ node[n].point # p
      BY <2>1, BoxOfLive, TreeAssumption DEF Nodes
    <3> QED
      BY <1>0, <2>1, <3>1 DEF TypeOK
  <2> QED
    BY <2>1, <2>2, <2>3, SameBoxes
<1> QED
  BY <1>1, <1>2

LEMMA GeomRefuse ==
  ASSUME TreeInv, GeomInv, Refuse
  PROVE  GeomInv'
<1>0. WellFormed /\ TypeOK
  BY DEF TreeInv, WellFormed
<1>1. /\ node' = node /\ build' = build /\ adding # None
      /\ coord' = [coord EXCEPT ![adding.point] = None]
  BY DEF Refuse
<1>2. LiveNodes' = LiveNodes
  BY <1>1 DEF LiveNodes, IsLive
<1>3. adding.point \in Points /\ leaf_index[adding.point] = None
  BY <1>1, AddingFacts
<1>4. ASSUME NEW n \in LiveNodes \cap Leaves
      PROVE  coord'[node'[n].point] = coord[node[n].point]
  <2>1. node[n].point \in Points /\ node[n].point # adding.point
    BY <1>3, BoxOfLive, TreeAssumption DEF Nodes
  <2> QED
    BY <1>0, <1>1, <2>1 DEF TypeOK
<1> QED
  BY <1>1, <1>2, <1>4, SameBoxes

LEMMA GeomAbsorb ==
  ASSUME TreeInv, GeomInv, Absorb
  PROVE  GeomInv'
<1>0. WellFormed /\ TypeOK
  BY DEF TreeInv, WellFormed
<1> PICK leaf : leaf = adding.at
  OBVIOUS
<1> PICK q : q = node[leaf].point
  OBVIOUS
<1>1. leaf \in LiveNodes /\ leaf \in Leaves /\ q \in Points /\ Weighed(leaf, 1, q)
  BY AbsorbStep
<1>2. node[leaf].mass + 1 > 0 /\ 1 \in Int
  BY <1>0, <1>1, LiveNode
<1>3. LiveNodes' = LiveNodes
  BY <1>0, <1>1, <1>2, WeighedLive
<1>4. \A n \in LiveNodes \cap Leaves : node'[n].point = node[n].point
  BY <1>0, <1>1, <1>2, WeighedNode
<1>5. \A n \in LiveNodes \cap Internals :
        /\ node'[n].left = node[n].left /\ node'[n].right = node[n].right
        /\ node'[n].cut = node[n].cut /\ node'[n].box = node[n].box
  BY <1>0, <1>1, <1>2, WeighedNode
<1>6. coord' = coord /\ build' = build
  BY DEF Absorb
<1> QED
  BY <1>3, <1>4, <1>5, <1>6, SameBoxes

LEMMA GeomDropCopy ==
  ASSUME TreeInv, GeomInv, NEW p \in Points, NEW heir \in Points, DropCopy(p, heir)
  PROVE  GeomInv'
<1>0. WellFormed /\ TypeOK
  BY DEF TreeInv, WellFormed
<1> PICK leaf : leaf = leaf_index[p]
  OBVIOUS
<1>1. /\ leaf \in LiveNodes /\ leaf \in Leaves /\ Weighed(leaf, -1, heir)
      /\ node[leaf].mass + (-1) > 0 /\ heir # p /\ leaf_index[heir] = leaf
  BY DropCopyStep
<1>2. -1 \in Int /\ leaf # None
  BY <1>1, TreeAssumption DEF Nodes
<1>3. LiveNodes' = LiveNodes
  BY <1>0, <1>1, <1>2, WeighedLive
<1>4. \A n \in LiveNodes \cap Leaves :
        node'[n].point = IF n = leaf THEN heir ELSE node[n].point
  BY <1>0, <1>1, <1>2, WeighedNode
<1>5. \A n \in LiveNodes \cap Internals :
        /\ node'[n].left = node[n].left /\ node'[n].right = node[n].right
        /\ node'[n].cut = node[n].cut /\ node'[n].box = node[n].box
  BY <1>0, <1>1, <1>2, WeighedNode
<1>6. build' = build /\ \A q \in Points : q # p => coord'[q] = coord[q]
  BY <1>0 DEF DropCopy, TypeOK
<1>7. ASSUME ~Packed, NEW n \in LiveNodes \cap Leaves
      PROVE  coord'[node'[n].point] = coord[node[n].point]
  <2>1. CASE n = leaf
    <3>1. node'[n].point = heir /\ coord'[heir] = coord[heir]
      BY <1>1, <1>4, <1>6, <2>1
    <3>2. coord[heir] = coord[node[leaf].point]
      BY <1>1, <1>2, <1>7 DEF TreeInv, CoordInv, Present
    <3> QED
      BY <2>1, <3>1, <3>2
  <2>2. CASE n # leaf
    <3>1. node'[n].point = node[n].point /\ node[n].point \in Points
          /\ leaf_index[node[n].point] = n
      BY <1>4, <2>2, BoxOfLive
    <3> QED
      BY <1>6, <2>2, <3>1
  <2> QED
    BY <2>1, <2>2
<1> QED
  BY <1>3, <1>5, <1>6, <1>7, SameBoxes

\* A node on the way to the new leaf has grown by its point, with i for n.
LEMMA SplicedBox ==
  ASSUME NEW cut, NEW n, NEW p, NEW x, NEW l, NEW i, Splicing(cut, n, p, x, l, i),
         NEW c \in LiveNodes, NEW d, d = IF c = n THEN i ELSE c
  PROVE  BoxOf(d)' = IF c \in Chain(n) THEN Extend(BoxOf(c), x) ELSE BoxOf(c)
<1>0. /\ TreeInv /\ WellFormed /\ TypeOK /\ n \in LiveNodes /\ i \in Internals /\ i \notin Leaves
      /\ coord' = coord
  BY NodesFinite DEF Splicing, Spliced, TreeInv, WellFormed
<1>1. CASE c = n
  <2>1. node'[d].box = Extend(BoxOf(n), x) /\ d \notin Leaves
    BY <1>0, <1>1, SplicedFields
  <2> QED
    BY <1>1, <2>1 DEF BoxOf, Chain
<1>2. CASE c # n /\ c \in Internals
  <2>1. node'[c].box = (IF c \in Up(n) THEN Extend(node[c].box, x) ELSE node[c].box)
        /\ c \notin Leaves
    BY <1>2, SplicedOld, NodesFinite
  <2> QED
    BY <1>2, <2>1 DEF BoxOf, Chain
<1>3. CASE c # n /\ c \in Leaves
  <2>1. node'[c].point = node[c].point
    BY <1>3, SplicedOld
  <2>2. c \notin Chain(n)
    BY <1>0, <1>3, UpHeavier, NodesFinite DEF Chain
  <2> QED
    BY <1>0, <1>3, <2>1, <2>2 DEF BoxOf
<1> QED
  BY <1>0, <1>1, <1>2, <1>3, LiveNode

\* The new internal node: its cut has the new point on one side, n on the other.
LEMMA SplicedFits ==
  ASSUME NEW cut, NEW n, NEW p, NEW x, NEW l, NEW i, Splicing(cut, n, p, x, l, i)
  PROVE  \E a, b : a = node'[i].left /\ b = node'[i].right /\ Fits(i, a, b)'
<1>0. /\ TreeInv /\ n \in LiveNodes /\ x \in Coords /\ coord' = coord /\ coord[p] = x
      /\ l \in Leaves /\ cut \in RandomCuts(BoxOf(n), x) /\ Isolates(cut, x, BoxOf(n))
      /\ WellFormed /\ TypeOK
  BY DEF Splicing, Spliced, TreeInv, WellFormed
<1> PICK b : b = BoxOf(n)
  OBVIOUS
<1> PICK e : e = FromPoint(x)
  OBVIOUS
<1>1. b \in Boxes /\ e \in Boxes /\ cut.dim \in Axes /\ x \in [Axes -> Marks]
  BY <1>0, BoxOfLive, CutDrawn, PointBox
<1>2. BoxOf(l)' = e
  <2>1. node'[l].point = p
    BY SplicedFields
  <2> QED
    BY <1>0, <2>1 DEF BoxOf
<1>3. BoxOf(n)' = b
  <2>1. n \notin Up(n)
    BY <1>0, UpHeavier
  <2>2. CASE n \in Leaves
    <3>1. node'[n].point = node[n].point
      BY <1>0, <2>2, SplicedOld
    <3> QED
      BY <1>0, <2>2, <3>1 DEF BoxOf
  <2>3. CASE n \in Internals
    <3>1. node'[n].box = node[n].box /\ n \notin Leaves
      BY <1>0, <2>1, <2>3, SplicedOld, NodesFinite
    <3> QED
      BY <3>1 DEF BoxOf
  <2> QED
    BY <1>0, <2>2, <2>3, LiveNode
<1>4. node'[i].cut = cut /\ node'[i].box = Merged(b, e) /\ Merged(b, e) = Merged(e, b)
  BY <1>1, SplicedFields, MergedCommutes DEF Extend
<1>5. /\ e.min[cut.dim] = x[cut.dim] /\ e.max[cut.dim] = x[cut.dim]
      /\ \/ x[cut.dim] <= cut.value /\ cut.value < b.min[cut.dim]
         \/ b.max[cut.dim] <= cut.value /\ cut.value < x[cut.dim]
      /\ x[cut.dim] \in Int /\ cut.value \in Int
  <2>1. cut \in [dim : Axes, value : Int]
    BY <1>0, <1>1, CutDrawn
  <2>2. x[cut.dim] \in Int
    BY <1>1, MarksAreInts
  <2> QED
    BY <1>0, <2>1, <2>2 DEF FromPoint, Isolates
<1>6. CASE LeftOf(cut, x)
  <2>1. node'[i].left = l /\ node'[i].right = n
    BY <1>6, SplicedFields
  <2>2. e.max[cut.dim] <= cut.value /\ cut.value < b.min[cut.dim]
    BY <1>5, <1>6 DEF LeftOf
  <2>3. Fits(i, l, n)'
    BY <1>2, <1>3, <1>4, <2>2 DEF Fits
  <2> QED
    BY <2>1, <2>3
<1>7. CASE ~LeftOf(cut, x)
  <2>1. node'[i].left = n /\ node'[i].right = l
    BY <1>7, SplicedFields
  <2>2. b.max[cut.dim] <= cut.value /\ cut.value < e.min[cut.dim]
    BY <1>5, <1>7 DEF LeftOf
  <2>3. Fits(i, n, l)'
    BY <1>2, <1>3, <1>4, <2>2 DEF Fits
  <2> QED
    BY <2>1, <2>3
<1> QED
  BY <1>6, <1>7

LEMMA GeomSplice ==
  ASSUME NEW cut, NEW n, NEW p, NEW x, NEW l, NEW i, Splicing(cut, n, p, x, l, i), GeomInv
  PROVE  GeomInv'
<1>0. /\ TreeInv /\ WellFormed /\ TypeOK /\ n \in LiveNodes /\ x \in Coords
      /\ build' = build /\ i \in Internals /\ l \notin Internals
      /\ \A a \in Up(n) : Routed(a, x) \in Chain(n)
  BY NodesFinite DEF Splicing, Spliced, TreeInv, WellFormed
<1>1. CASE Packed
  BY <1>0, <1>1 DEF GeomInv, BoxesTight, CutsSeparate, Packed
<1>2. CASE ~Packed
  <2>1. ASSUME NEW m \in LiveNodes \cap Internals
        PROVE  \E a, b : a = node'[m].left /\ b = node'[m].right /\ Fits(m, a, b)'
    <3>1. PICK a, b : a = node[m].left /\ b = node[m].right /\ Fits(m, a, b)
      BY <1>2, <2>1, GeomIs
    <3>2. a \in LiveNodes /\ b \in LiveNodes
      BY <1>0, <3>1, Children
    <3> PICK aa : aa = IF a = n THEN i ELSE a
      OBVIOUS
    <3> PICK bb : bb = IF b = n THEN i ELSE b
      OBVIOUS
    <3> PICK cut2 : cut2 = node[m].cut
      OBVIOUS
    <3> PICK A : A = BoxOf(a)
      OBVIOUS
    <3> PICK B : B = BoxOf(b)
      OBVIOUS
    <3>3. /\ node'[m].left = aa /\ node'[m].right = bb /\ node'[m].cut = cut2
          /\ node'[m].box = IF m \in Up(n) THEN Extend(node[m].box, x) ELSE node[m].box
      BY <3>1, SplicedOld
    <3>4. /\ BoxOf(aa)' = IF a \in Chain(n) THEN Extend(A, x) ELSE A
          /\ BoxOf(bb)' = IF b \in Chain(n) THEN Extend(B, x) ELSE B
      BY <3>2, SplicedBox
    <3>5. /\ node[m].box = Merged(A, B)
          /\ A.max[cut2.dim] <= cut2.value /\ cut2.value < B.min[cut2.dim]
      BY <3>1 DEF Fits
    <3>6. A \in Boxes /\ B \in Boxes /\ cut2.dim \in Axes /\ cut2.value \in Int
      <4>1. cut2 \in [dim : Axes, value : Int]
        BY <1>0, LiveNode DEF InnerNode
      <4> QED
        BY <1>0, <3>2, <4>1, BoxOfLive
    <3>7. CASE m \notin Up(n)
      <4>1. a \notin Chain(n) /\ b \notin Chain(n)
        BY <1>0, <3>1, <3>7, OneChild
      <4>2. Fits(m, aa, bb)'
        BY <3>3, <3>4, <3>5, <3>7, <4>1 DEF Fits
      <4> QED
        BY <3>3, <4>2
    <3>8. CASE m \in Up(n)
      <4> PICK e : e = FromPoint(x)
        OBVIOUS
      <4>1. e \in Boxes /\ x \in [Axes -> Marks] /\ x[cut2.dim] \in Int
            /\ e.min[cut2.dim] = x[cut2.dim] /\ e.max[cut2.dim] = x[cut2.dim]
        <5>1. e \in Boxes /\ x \in [Axes -> Marks]
          BY <1>0, PointBox
        <5>2. x[cut2.dim] \in Int
          BY <3>6, <5>1, MarksAreInts
        <5> QED
          BY <5>1, <5>2 DEF FromPoint
      <4>2. /\ Extend(A, x).max[cut2.dim] = Upper(A.max[cut2.dim], x[cut2.dim])
            /\ Extend(B, x).min[cut2.dim] = Lower(B.min[cut2.dim], x[cut2.dim])
        BY <3>6, <4>1, MergedAt DEF Extend
      <4>3. A.max[cut2.dim] \in Int /\ B.min[cut2.dim] \in Int
        BY <3>6, BoxAt
      <4>4. /\ Extend(Merged(A, B), x) = Merged(A, Extend(B, x))
            /\ Extend(Merged(A, B), x) = Merged(Extend(A, x), B)
        BY <1>0, <3>6, ExtendMerged
      <4>5. Routed(m, x) = (IF x[cut2.dim] <= cut2.value THEN a ELSE b)
            /\ Routed(m, x) \in Chain(n)
        BY <1>0, <3>1, <3>8 DEF Routed, LeftOf
      <4>6. CASE a \in Chain(n) /\ b \notin Chain(n)
        <5>1. x[cut2.dim] <= cut2.value
          BY <4>5, <4>6
        <5>2. Extend(A, x).max[cut2.dim] <= cut2.value
          BY <3>5, <3>6, <4>1, <4>2, <4>3, <5>1 DEF Upper
        <5>3. Fits(m, aa, bb)'
          BY <3>3, <3>4, <3>5, <3>8, <4>4, <4>6, <5>2 DEF Fits
        <5> QED
          BY <3>3, <5>3
      <4>7. CASE a \notin Chain(n) /\ b \in Chain(n)
        <5>1. ~ (x[cut2.dim] <= cut2.value)
          BY <4>5, <4>7
        <5>2. cut2.value < Extend(B, x).min[cut2.dim]
          BY <3>5, <3>6, <4>1, <4>2, <4>3, <5>1 DEF Lower
        <5>3. Fits(m, aa, bb)'
          BY <3>3, <3>4, <3>5, <3>8, <4>4, <4>7, <5>2 DEF Fits
        <5> QED
          BY <3>3, <5>3
      <4> QED
        BY <1>0, <3>1, <3>8, <4>6, <4>7, OneChild
    <3> QED
      BY <3>7, <3>8
  <2>2. ASSUME NEW m \in LiveNodes' \cap Internals
        PROVE  \E a, b : a = node'[m].left /\ b = node'[m].right /\ Fits(m, a, b)'
    <3>1. m = i \/ m \in LiveNodes \cap Internals
      BY <1>0, SplicedLive
    <3>2. CASE m = i
      BY <3>2, SplicedFits
    <3> QED
      BY <2>1, <3>1, <3>2
  <2> QED
    BY <2>2, GeomNext
<1> QED
  BY <1>1, <1>2

\* A box computed anew is no larger than the one it replaces.
LEMMA RegrownWithin ==
  ASSUME NEW leaf, NEW parent, NEW sibling, NEW p, NEW nb, Dropping(leaf, parent, sibling, p, nb),
         GeomInv, ~Packed
  PROVE  /\ Within(BoxOf(sibling), BoxOf(parent))
         /\ \A a \in Up(parent) : Within(nb[a], BoxOf(a))
<1>0. /\ TreeInv /\ WellFormed /\ TypeOK /\ parent \in LiveNodes /\ parent \in Internals
      /\ parent \notin Leaves /\ sibling \in LiveNodes
      /\ sibling = node[parent].left \/ sibling = node[parent].right
      /\ Regrown(parent, sibling, nb)
      /\ \A a \in Up(parent) : a \in LiveNodes /\ a \in Internals /\ nb[a] \in Boxes
  BY DroppedNodes, NodesFinite DEF Dropping
<1>1. ASSUME NEW a \in LiveNodes, a \in Internals
      PROVE  /\ BoxOf(a) = Merged(BoxOf(node[a].left), BoxOf(node[a].right))
             /\ BoxOf(a) = Merged(BoxOf(node[a].right), BoxOf(node[a].left))
             /\ BoxOf(node[a].left) \in Boxes /\ BoxOf(node[a].right) \in Boxes
             /\ BoxOf(a) \in Boxes
             /\ node[a].left \in LiveNodes /\ node[a].right \in LiveNodes
  <2>1. BoxOf(a) = node[a].box
    BY <1>0, <1>1, LiveNode DEF BoxOf
  <2>2. node[a].box = Merged(BoxOf(node[a].left), BoxOf(node[a].right))
    BY <1>1 DEF GeomInv, BoxesTight
  <2>3. /\ node[a].left \in LiveNodes /\ node[a].right \in LiveNodes
        /\ BoxOf(node[a].left) \in Boxes /\ BoxOf(node[a].right) \in Boxes
        /\ BoxOf(a) \in Boxes
    BY <1>0, <1>1, Children, BoxOfLive
  <2>4. Merged(BoxOf(node[a].left), BoxOf(node[a].right))
        = Merged(BoxOf(node[a].right), BoxOf(node[a].left))
    BY <2>3, MergedCommutes
  <2> QED
    BY <2>1, <2>2, <2>3, <2>4
<1>2. Within(BoxOf(sibling), BoxOf(parent))
  <2> PICK L : L = BoxOf(node[parent].left)
    OBVIOUS
  <2> PICK R : R = BoxOf(node[parent].right)
    OBVIOUS
  <2>1. L \in Boxes /\ R \in Boxes /\ BoxOf(parent) = Merged(L, R)
    BY <1>0, <1>1
  <2>2. BoxOf(sibling) = L \/ BoxOf(sibling) = R
    BY <1>0
  <2>3. Within(L, Merged(L, R)) /\ Within(R, Merged(L, R))
    BY <2>1, MergedWithin
  <2> QED
    BY <2>1, <2>2, <2>3
<1> DEFINE S == {a \in Up(parent) : ~ Within(nb[a], BoxOf(a))}
<1>3. S = {}
  <2> SUFFICES ASSUME S # {} PROVE FALSE
    OBVIOUS
  <2>1. PICK a \in S : \E c \in Chain(parent) \ S : c \in LiveNodes /\ node[c].parent = a
    <3>1. S \in SUBSET Up(parent)
      OBVIOUS
    <3> HIDE DEF S
    <3> QED
      BY <1>0, <3>1, Bottommost
  <2>2. PICK c \in Chain(parent) \ S : c \in LiveNodes /\ node[c].parent = a
    BY <2>1
  <2>3. a \in Up(parent) /\ a \in LiveNodes /\ a \in Internals /\ a # None
    BY <1>0, <2>1, TreeAssumption DEF LiveNodes
  <2>4. c = node[a].left \/ c = node[a].right
    BY <1>0, <2>2, <2>3, ParentHeavier
  <2> PICK o : o = IF c = node[a].left THEN node[a].right ELSE node[a].left
    OBVIOUS
  <2> PICK nc : nc = IF c = parent THEN BoxOf(sibling) ELSE nb[c]
    OBVIOUS
  <2> PICK O : O = BoxOf(o)
    OBVIOUS
  <2> PICK C : C = BoxOf(c)
    OBVIOUS
  <2>5. nc \in Boxes /\ Within(nc, C)
    <3>1. CASE c = parent
      BY <1>0, <1>2, <3>1, BoxOfLive
    <3>2. CASE c # parent
      <4>1. c \in Up(parent) /\ Within(nb[c], BoxOf(c))
        BY <2>2, <3>2 DEF Chain
      <4> QED
        BY <1>0, <3>2, <4>1
    <3> QED
      BY <3>1, <3>2
  <2>6. O \in Boxes /\ C \in Boxes /\ BoxOf(a) = Merged(C, O)
    BY <1>1, <2>3, <2>4
  <2>7. nb[a] = Merged(O, nc) /\ Merged(O, nc) = Merged(nc, O)
    <3>1. nb[a] = Merged(O, nc)
      BY <1>0, <2>2, <2>3, <2>4 DEF Regrown
    <3> QED
      BY <2>5, <2>6, <3>1, MergedCommutes
  <2>8. Within(Merged(nc, O), Merged(C, O))
    BY <2>5, <2>6, MergedWithin
  <2> QED
    BY <2>1, <2>6, <2>7, <2>8
<1> QED
  BY <1>2, <1>3

LEMMA DroppedBox ==
  ASSUME NEW leaf, NEW parent, NEW sibling, NEW p, NEW nb, Dropping(leaf, parent, sibling, p, nb),
         NEW c \in LiveNodes, node[c].parent # parent, NEW d, d = IF c = parent THEN sibling ELSE c
  PROVE  BoxOf(d)' = IF c = parent THEN BoxOf(sibling)
                     ELSE IF c \in Up(parent) THEN nb[c] ELSE BoxOf(c)
<1>0. /\ TreeInv /\ WellFormed /\ TypeOK /\ p \in Points /\ leaf_index[p] = leaf
      /\ sibling \in LiveNodes /\ sibling # parent /\ sibling # leaf /\ leaf # parent
      /\ node[leaf].parent = parent /\ sibling \notin Up(parent)
      /\ \A a \in Up(parent) : a \in Internals
  BY DroppedNodes
<1>1. d \in LiveNodes /\ d # leaf /\ d # parent
  BY <1>0
<1>2. coord' = [coord EXCEPT ![p] = None] /\ coord \in [Points -> Coords \cup {None}]
  BY <1>0 DEF Dropping, Dropped, TypeOK
<1>3. CASE d \in Leaves
  <2>1. node'[d].point = node[d].point
    BY <1>1, <1>3, DroppedOld
  <2>2. node[d].point \in Points /\ leaf_index[node[d].point] = d
    BY <1>0, <1>1, <1>3, BoxOfLive
  <2>3. coord'[node[d].point] = coord[node[d].point]
    BY <1>0, <1>1, <1>2, <2>2
  <2>4. BoxOf(d)' = BoxOf(d) /\ d \notin Up(parent)
    BY <1>0, <1>3, <2>1, <2>3, NodesFinite DEF BoxOf
  <2> QED
    BY <2>4
<1>4. CASE d \in Internals /\ d \notin Leaves
  <2>1. node'[d].box = IF d \in Up(parent) THEN nb[d] ELSE node[d].box
    BY <1>1, <1>4, DroppedOld
  <2>2. BoxOf(d)' = IF d \in Up(parent) THEN nb[d] ELSE BoxOf(d)
    BY <1>4, <2>1 DEF BoxOf
  <2> QED
    BY <1>0, <2>2
<1> QED
  BY <1>0, <1>1, <1>3, <1>4, LiveNode

LEMMA GeomDrop ==
  ASSUME NEW leaf, NEW parent, NEW sibling, NEW p, NEW nb, Dropping(leaf, parent, sibling, p, nb),
         GeomInv
  PROVE  GeomInv'
<1>0. /\ TreeInv /\ WellFormed /\ TypeOK /\ parent \in LiveNodes /\ sibling \in LiveNodes
      /\ Regrown(parent, sibling, nb)
      /\ \A a \in Up(parent) : a \in LiveNodes /\ a \in Internals /\ nb[a] \in Boxes
      /\ build' = build /\ parent \notin Up(parent)
  <2>1. Regrown(parent, sibling, nb) /\ build' = build
    BY DEF Dropping, Dropped
  <2>2. parent \notin Up(parent)
    BY DroppedNodes
  <2> QED
    BY <2>1, <2>2, DroppedNodes
<1>1. CASE Packed
  BY <1>0, <1>1 DEF GeomInv, BoxesTight, CutsSeparate, Packed
<1>2. CASE ~Packed
  <2>1. ASSUME NEW m \in LiveNodes' \cap Internals
        PROVE  \E a, b : a = node'[m].left /\ b = node'[m].right /\ Fits(m, a, b)'
    <3>1. m \in LiveNodes /\ m # leaf /\ m # parent
      BY DroppedLive
    <3>2. PICK a, b : a = node[m].left /\ b = node[m].right /\ Fits(m, a, b)
      BY <1>2, <2>1, <3>1, GeomIs
    <3>3. /\ a \in LiveNodes /\ b \in LiveNodes /\ node[a].parent # parent
          /\ node[b].parent # parent
      BY <1>0, <2>1, <3>1, <3>2, Children
    <3> PICK aa : aa = IF a = parent THEN sibling ELSE a
      OBVIOUS
    <3> PICK bb : bb = IF b = parent THEN sibling ELSE b
      OBVIOUS
    <3> PICK cut : cut = node[m].cut
      OBVIOUS
    <3> PICK A : A = BoxOf(a)
      OBVIOUS
    <3> PICK B : B = BoxOf(b)
      OBVIOUS
    <3> PICK A2 : A2 = IF a = parent THEN BoxOf(sibling) ELSE IF a \in Up(parent) THEN nb[a] ELSE A
      OBVIOUS
    <3> PICK B2 : B2 = IF b = parent THEN BoxOf(sibling) ELSE IF b \in Up(parent) THEN nb[b] ELSE B
      OBVIOUS
    <3>4. /\ node'[m].left = aa /\ node'[m].right = bb /\ node'[m].cut = cut
          /\ node'[m].box = IF m \in Up(parent) THEN nb[m] ELSE node[m].box
      BY <2>1, <3>1, <3>2, DroppedOld
    <3>5. BoxOf(aa)' = A2 /\ BoxOf(bb)' = B2
      BY <3>3, DroppedBox
    <3>6. /\ node[m].box = Merged(A, B)
          /\ A.max[cut.dim] <= cut.value /\ cut.value < B.min[cut.dim]
      BY <3>2 DEF Fits
    <3>7. A \in Boxes /\ B \in Boxes /\ cut.dim \in Axes /\ cut.value \in Int
      <4>1. cut \in [dim : Axes, value : Int]
        BY <1>0, <2>1, <3>1, LiveNode DEF InnerNode
      <4> QED
        BY <1>0, <3>3, <4>1, BoxOfLive
    <3>8. A2 \in Boxes /\ B2 \in Boxes /\ Within(A2, A) /\ Within(B2, B)
      <4>1. Within(A, A) /\ Within(B, B)
        BY <3>7, BoxAt DEF Within
      <4>2. /\ Within(BoxOf(sibling), BoxOf(parent)) /\ BoxOf(sibling) \in Boxes
            /\ \A u \in Up(parent) : Within(nb[u], BoxOf(u)) /\ nb[u] \in Boxes
        BY <1>0, <1>2, RegrownWithin, BoxOfLive
      <4> QED
        BY <3>7, <4>1, <4>2
    <3>9. A2.max[cut.dim] <= cut.value /\ cut.value < B2.min[cut.dim]
      <4>1. A2.max[cut.dim] <= A.max[cut.dim] /\ B.min[cut.dim] <= B2.min[cut.dim]
        BY <3>7, <3>8 DEF Within
      <4>2. /\ A2.max[cut.dim] \in Int /\ A.max[cut.dim] \in Int
            /\ B2.min[cut.dim] \in Int /\ B.min[cut.dim] \in Int
        BY <3>7, <3>8, BoxAt
      <4> QED
        BY <3>6, <3>7, <4>1, <4>2
    <3>10. node'[m].box = Merged(A2, B2)
      <4>1. CASE m \notin Up(parent)
        <5>1. a \notin Chain(parent) /\ b \notin Chain(parent)
          BY <1>0, <2>1, <3>1, <3>2, <4>1, OneChild
        <5> QED
          BY <3>4, <3>6, <4>1, <5>1 DEF Chain
      <4>2. CASE m \in Up(parent)
        <5>1. CASE a \in Chain(parent) /\ b \notin Chain(parent)
          <6>1. nb[m] = Merged(B, IF a = parent THEN BoxOf(sibling) ELSE nb[a])
            BY <1>0, <3>2, <4>2, <5>1 DEF Regrown
          <6>2. B2 = B /\ A2 = IF a = parent THEN BoxOf(sibling) ELSE nb[a]
            BY <5>1 DEF Chain
          <6>3. Merged(B, A2) = Merged(A2, B)
            BY <3>7, <3>8, MergedCommutes
          <6> QED
            BY <3>4, <4>2, <6>1, <6>2, <6>3
        <5>2. CASE a \notin Chain(parent) /\ b \in Chain(parent)
          <6>1. nb[m] = Merged(A, IF b = parent THEN BoxOf(sibling) ELSE nb[b])
            BY <1>0, <3>2, <4>2, <5>2 DEF Regrown
          <6>2. A2 = A /\ B2 = IF b = parent THEN BoxOf(sibling) ELSE nb[b]
            BY <5>2 DEF Chain
          <6> QED
            BY <3>4, <4>2, <6>1, <6>2
        <5> QED
          BY <1>0, <2>1, <3>1, <3>2, <4>2, <5>1, <5>2, OneChild
      <4> QED
        BY <4>1, <4>2
    <3>11. Fits(m, aa, bb)'
      BY <3>4, <3>5, <3>9, <3>10 DEF Fits
    <3> QED
      BY <3>4, <3>11
  <2> QED
    BY <2>1, GeomNext
<1> QED
  BY <1>1, <1>2

LEMMA GeomStep ==
  ASSUME TreeInv, GeomInv, [Next]_vars
  PROVE  GeomInv'
<1>1. ASSUME NEW p \in Points, NEW x \in Coords, BeginAdd(p, x)
      PROVE  GeomInv'
  BY <1>1, GeomBegin
<1>2. ASSUME node' = node, coord' = coord, build' = build
      PROVE  GeomInv'
  <2>1. LiveNodes' = LiveNodes
    BY <1>2 DEF LiveNodes, IsLive
  <2> QED
    BY <1>2, <2>1, SameBoxes
<1>3. CASE Insertion
  <2>1. CASE Descend
    BY <1>2, <2>1 DEF Descend
  <2>2. ASSUME NEW cut, Splice(cut)
        PROVE  GeomInv'
    BY <2>2, SpliceIsSplicing, GeomSplice
  <2>3. CASE Absorb
    BY <2>3, GeomAbsorb
  <2>4. CASE Refuse
    BY <2>4, GeomRefuse
  <2> QED
    BY <1>3, <2>1, <2>2, <2>3, <2>4 DEF Insertion
<1>4. ASSUME NEW p \in Points, NEW heir \in Points, DropCopy(p, heir)
      PROVE  GeomInv'
  BY <1>4, GeomDropCopy
<1>5. ASSUME NEW p \in Points, DropLeaf(p)
      PROVE  GeomInv'
  <2>1. CASE node[leaf_index[p]].parent = None
    <3>1. LiveNodes' = {}
      BY <1>5, <2>1, DropLastLeaf
    <3> QED
      BY <3>1, GeomOfNone
  <2>2. CASE node[leaf_index[p]].parent # None
    <3> PICK leaf : leaf = leaf_index[p]
      OBVIOUS
    <3> PICK parent : parent = node[leaf].parent
      OBVIOUS
    <3> PICK sibling : sibling = IF node[parent].left = leaf THEN node[parent].right
                                 ELSE node[parent].left
      OBVIOUS
    <3>1. PICK nb : Dropping(leaf, parent, sibling, p, nb)
      BY <1>5, <2>2, DropLeafIsDropping
    <3> QED
      BY <3>1, GeomDrop
  <2> QED
    BY <2>1, <2>2
<1>6. CASE UNCHANGED vars
  BY <1>2, <1>6 DEF vars
<1> QED
  BY <1>1, <1>3, <1>4, <1>5, <1>6 DEF Next

THEOREM GeomInvariance == Spec => [](TreeInv /\ GeomInv)
<1>1. Init => TreeInv /\ GeomInv
  <2>1. Init => LiveNodes = {}
    BY DEF Init, LiveNodes, IsLive
  <2> QED
    BY <2>1, InitTree DEF GeomInv, BoxesTight, CutsSeparate
<1>2. TreeInv /\ GeomInv /\ [Next]_vars => TreeInv' /\ GeomInv'
  BY TreeStep, GeomStep
<1> QED
  BY <1>1, <1>2, PTL DEF Spec

\* In the default build the box an internal node caches is the union of its
\* children's, whatever was added below it and deleted.
THEOREM BoxesStayTight == Spec => []BoxesTight
<1>1. GeomInv => BoxesTight
  BY DEF GeomInv
<1> QED
  BY <1>1, GeomInvariance, PTL

\* In the default build no cut passes through the box of either of its sides, so
\* a node's two children cover disjoint halves of the space.
THEOREM CutsStaySeparate == Spec => []CutsSeparate
<1>1. GeomInv => CutsSeparate
  BY DEF GeomInv
<1> QED
  BY <1>1, GeomInvariance, PTL

------------------------------------------------------------------------------
(* Why an insertion is refused.                                             *)

\* Of some live nodes one has its children elsewhere.
LEMMA Lightest ==
  ASSUME WellFormed, NEW S \in SUBSET LiveNodes, S # {}
  PROVE  \E n \in S : n \in Internals =>
           /\ node[n].left \in LiveNodes \ S
           /\ node[n].right \in LiveNodes \ S
<1> DEFINE M == {node[n].mass : n \in S}
<1>1. \A n \in S : node[n].mass \in Nat
  BY LiveNode DEF WellFormed
<1>2. PICK k \in M : \A j \in M : ~ (<<j, k>> \in OpToRel(<, Nat))
  <2>1. M # {} /\ M \subseteq Nat
    BY <1>1
  <2> HIDE DEF M
  <2> QED
    BY <2>1, WFMin, NatLessThanWellFounded
<1>3. \A j \in M : ~ (j < k)
  <2>1. M \subseteq Nat
    BY <1>1
  <2> HIDE DEF M
  <2> QED
    BY <1>2, <2>1 DEF OpToRel
<1>4. PICK n \in S : node[n].mass = k
  OBVIOUS
<1>5. ASSUME n \in Internals, NEW c \in {node[n].left, node[n].right}
      PROVE  c \in LiveNodes \ S
  <2>1. /\ node[n].left \in LiveNodes /\ node[n].right \in LiveNodes
        /\ node[n].mass = node[node[n].left].mass + node[node[n].right].mass
    BY <1>5, Children
  <2>2. /\ node[node[n].left].mass \in Nat /\ node[node[n].left].mass > 0
        /\ node[node[n].right].mass \in Nat /\ node[node[n].right].mass > 0
    BY <2>1, LiveNode DEF WellFormed
  <2>3. node[c].mass < k /\ c \in LiveNodes
    BY <1>4, <2>1, <2>2
  <2>4. c \notin S
    <3>1. ASSUME c \in S
          PROVE  node[c].mass \in M
      BY <3>1
    <3> QED
      BY <1>3, <2>3, <3>1
  <2> QED
    BY <2>3, <2>4
<1> QED
  BY <1>5

\* No box is empty.
LEMMA BoxesHold ==
  ASSUME TreeInv, GeomInv, ~Packed, NEW n \in LiveNodes, NEW d \in Axes
  PROVE  BoxOf(n).min[d] <= BoxOf(n).max[d]
<1>0. WellFormed
  BY DEF TreeInv
<1> DEFINE S == {m \in LiveNodes : ~ (BoxOf(m).min[d] <= BoxOf(m).max[d])}
<1>1. S = {}
  <2> SUFFICES ASSUME S # {} PROVE FALSE
    OBVIOUS
  <2>1. PICK m \in S : m \in Internals =>
          node[m].left \in LiveNodes \ S /\ node[m].right \in LiveNodes \ S
    <3>1. S \in SUBSET LiveNodes
      OBVIOUS
    <3> HIDE DEF S
    <3> QED
      BY <1>0, <3>1, Lightest
  <2>2. CASE m \in Leaves
    <3>1. coord[node[m].point] \in Coords
      BY <2>1, <2>2, BoxOfLive
    <3>2. coord[node[m].point][d] \in Int
      BY <3>1, PointBox, MarksAreInts
    <3> QED
      BY <2>1, <2>2, <3>2 DEF BoxOf, FromPoint
  <2>3. CASE m \in Internals /\ m \notin Leaves
    <3> PICK L : L = BoxOf(node[m].left)
      OBVIOUS
    <3> PICK R : R = BoxOf(node[m].right)
      OBVIOUS
    <3>1. L.min[d] <= L.max[d] /\ L \in Boxes /\ R \in Boxes
      BY <2>1, <2>3, BoxOfLive
    <3>2. BoxOf(m) = Merged(L, R)
      BY <2>1, <2>3 DEF BoxOf, GeomInv, BoxesTight
    <3>3. L.min[d] \in Int /\ R.min[d] \in Int /\ L.max[d] \in Int /\ R.max[d] \in Int
      BY <3>1, BoxAt
    <3>4. /\ BoxOf(m).min[d] = Lower(L.min[d], R.min[d])
          /\ BoxOf(m).max[d] = Upper(L.max[d], R.max[d])
      BY <3>1, <3>2, MergedAt
    <3> QED
      BY <2>1, <3>1, <3>3, <3>4 DEF Lower, Upper
  <2> QED
    BY <1>0, <2>1, <2>2, <2>3, LiveNode DEF WellFormed
<1> QED
  BY <1>1

\* At an internal node there is always a cut to draw.
LEMMA CutsToDraw ==
  ASSUME TreeInv, GeomInv, ~Packed, NEW n \in LiveNodes, n \in Internals, NEW x \in Coords
  PROVE  RandomCuts(BoxOf(n), x) # {}
<1>0. WellFormed /\ TypeOK
  BY DEF TreeInv, WellFormed
<1> PICK cut : cut = node[n].cut
  OBVIOUS
<1> PICK d : d = cut.dim
  OBVIOUS
<1> PICK L : L = BoxOf(node[n].left)
  OBVIOUS
<1> PICK R : R = BoxOf(node[n].right)
  OBVIOUS
<1> PICK b : b = BoxOf(n)
  OBVIOUS
<1> PICK e : e = FromPoint(x)
  OBVIOUS
<1>1. node[n] \in InnerNode /\ n \notin Leaves
  BY <1>0, LiveNode
<1>2. d \in Axes /\ cut.value \in Int
  BY <1>1 DEF InnerNode
<1>3. /\ node[n].left \in LiveNodes /\ node[n].right \in LiveNodes
      /\ L \in Boxes /\ R \in Boxes /\ b \in Boxes /\ e \in Boxes
  BY <1>0, Children, BoxOfLive, PointBox
<1>4. b = Merged(L, R) /\ L.max[d] <= cut.value /\ cut.value < R.min[d]
  BY <1>1 DEF GeomInv, BoxesTight, CutsSeparate, BoxOf
<1>5. L.min[d] <= L.max[d] /\ R.min[d] <= R.max[d]
  BY <1>2, <1>3, BoxesHold
<1> PICK a : a = Extend(b, x)
  OBVIOUS
<1>6. a.min[d] < a.max[d]
  <2>1. /\ a.min[d] = Lower(b.min[d], e.min[d]) /\ a.max[d] = Upper(b.max[d], e.max[d])
        /\ b.min[d] = Lower(L.min[d], R.min[d]) /\ b.max[d] = Upper(L.max[d], R.max[d])
    BY <1>2, <1>3, <1>4, MergedAt DEF Extend
  <2>2. /\ L.min[d] \in Int /\ R.min[d] \in Int /\ L.max[d] \in Int /\ R.max[d] \in Int
        /\ b.min[d] \in Int /\ b.max[d] \in Int /\ e.min[d] \in Int /\ e.max[d] \in Int
    BY <1>2, <1>3, BoxAt
  <2> QED
    BY <1>2, <1>4, <1>5, <2>1, <2>2 DEF Lower, Upper
<1>7. a.max[d] \in CutValues(a.min[d], a.max[d])
  BY DEF CutValues
<1>8. [dim |-> d, value |-> a.max[d]] \in RandomCuts(b, x)
  BY <1>2, <1>6, <1>7 DEF RandomCuts
<1> QED
  BY <1>8

\* Between two points every cut but one at the far end keeps them apart.
LEMMA OnlyTheEndFails ==
  ASSUME TypeOK, ~Packed, NEW x \in Coords, NEW y \in Coords,
         NEW cut \in RandomCuts(FromPoint(y), x), ~Isolates(cut, x, FromPoint(y))
  PROVE  cut.value = Extend(FromPoint(y), x).max[cut.dim]
<1> PICK b : b = FromPoint(y)
  OBVIOUS
<1> PICK e : e = FromPoint(x)
  OBVIOUS
<1> PICK a : a = Extend(b, x)
  OBVIOUS
<1> PICK d : d = cut.dim
  OBVIOUS
<1>1. b \in Boxes /\ e \in Boxes /\ x \in [Axes -> Marks] /\ y \in [Axes -> Marks]
  BY PointBox
<1>2. /\ d \in Axes /\ cut.value \in Int
      /\ cut.value \in CutValues(a.min[d], a.max[d]) /\ a.min[d] < a.max[d]
  BY <1>1, CutDrawn
<1>3. x[d] \in Int /\ y[d] \in Int
  BY <1>1, <1>2, MarksAreInts
<1>4. a.min[d] = Lower(y[d], x[d]) /\ a.max[d] = Upper(y[d], x[d])
  BY <1>1, <1>2, MergedAt DEF Extend, FromPoint
<1>5. \/ cut.value = a.max[d]
      \/ a.min[d] <= cut.value /\ cut.value < a.max[d]
  BY <1>2 DEF CutValues
<1>6. /\ ~ (x[d] <= cut.value /\ cut.value < y[d])
      /\ ~ (y[d] <= cut.value /\ cut.value < x[d])
  BY DEF Isolates, FromPoint
<1> QED
  BY <1>2, <1>3, <1>4, <1>5, <1>6 DEF Lower, Upper

\* In the default build the only insertion refused is one whose draw rounded up to
\* the end of its range at a leaf: an internal node always has a cut to draw, and
\* any other cut tells the new point from the leaf's.
THEOREM RefusalsAreRoundings == Spec => RefusesOnRoundingOnly
<1>1. ASSUME TreeInv, GeomInv, ~Packed, Refuse
      PROVE  /\ adding.at \in Leaves
             /\ \A cut \in Cuts : ~Isolates(cut, NewX, Here) =>
                  cut.value = Extend(Here, NewX).max[cut.dim]
  <2>0. TypeOK
    BY <1>1 DEF TreeInv, WellFormed
  <2>1. adding # None /\ adding.at \in LiveNodes /\ NewX \in Coords
    BY <1>1, AddingFacts DEF Refuse
  <2>2. adding.at \in Leaves
    <3>1. adding.at \in Internals => Cuts # {}
      BY <1>1, <2>1, CutsToDraw DEF Cuts, Here
    <3> QED
      BY <1>1, <3>1 DEF Refuse
  <2>3. Here = FromPoint(coord[node[adding.at].point]) /\ coord[node[adding.at].point] \in Coords
    BY <1>1, <2>1, <2>2, BoxOfLive DEF Here, BoxOf
  <2> QED
    BY <1>1, <2>0, <2>1, <2>2, <2>3, OnlyTheEndFails DEF Cuts
<1>2. TreeInv /\ GeomInv /\ [Next]_vars =>
        [~Packed /\ Refuse =>
           /\ adding.at \in Leaves
           /\ \A cut \in Cuts : ~Isolates(cut, NewX, Here) =>
                cut.value = Extend(Here, NewX).max[cut.dim]]_vars
  BY <1>1
<1> QED
  BY <1>2, GeomInvariance, PTL DEF Spec, RefusesOnRoundingOnly

------------------------------------------------------------------------------
(* A query walks down to the leaf of its point.                             *)

LEMMA RoutedLive ==
  ASSUME WellFormed, NEW n \in LiveNodes \cap Internals, NEW x
  PROVE  /\ Routed(n, x) \in LiveNodes /\ node[Routed(n, x)].parent = n
         /\ node[Routed(n, x)].mass < node[n].mass
<1>1. /\ node[n].left \in LiveNodes /\ node[n].right \in LiveNodes
      /\ node[node[n].left].parent = n /\ node[node[n].right].parent = n
      /\ node[n].mass = node[node[n].left].mass + node[node[n].right].mass
  BY Children
<1>2. /\ node[node[n].left].mass \in Nat /\ node[node[n].left].mass > 0
      /\ node[node[n].right].mass \in Nat /\ node[node[n].right].mass > 0
  BY <1>1, LiveNode DEF WellFormed
<1> QED
  BY <1>1, <1>2 DEF Routed

Lighter(n) == {m \in LiveNodes : node[m].mass < node[n].mass}
Height(n)  == Cardinality(Lighter(n))

LEMMA HeightFalls ==
  ASSUME WellFormed, NEW n \in LiveNodes, NEW c \in LiveNodes, node[c].mass < node[n].mass
  PROVE  Height(n) \in Nat /\ Height(c) \in Nat /\ Height(c) < Height(n)
<1>1. IsFiniteSet(LiveNodes) /\ \A m \in LiveNodes : node[m].mass \in Nat
  BY NodesFinite, FS_Subset, LiveNode DEF LiveNodes, WellFormed
<1>2. Lighter(n) \in SUBSET LiveNodes /\ Lighter(c) \in SUBSET Lighter(n)
  BY <1>1 DEF Lighter
<1>3. IsFiniteSet(Lighter(n)) /\ IsFiniteSet(Lighter(c))
  BY <1>1, <1>2, FS_Subset
<1>4. Height(n) \in Nat /\ Height(c) \in Nat
  BY <1>3, FS_CardinalityType DEF Height
<1>5. c \in Lighter(n) /\ c \notin Lighter(c)
  BY <1>1 DEF Lighter
<1>6. Height(c) <= Height(n) /\ (Height(n) = Height(c) => Lighter(n) = Lighter(c))
  BY <1>2, <1>3, FS_Subset DEF Height
<1> QED
  BY <1>4, <1>5, <1>6

\* Where a query for x is after one more step of the recursion.
Walked(x, f) ==
  [n \in Nodes |-> IF n \in Leaves \/ ~IsLive(n) THEN n ELSE f[Routed(n, x)]]

WalkedUpTo(x, f, r) == \A n \in LiveNodes : Height(n) < r => f[n] = Walked(x, f)[n]

LEMMA WalkedFurther ==
  ASSUME WellFormed, NEW x, NEW g, NEW r \in Nat, WalkedUpTo(x, g, r)
  PROVE  WalkedUpTo(x, Walked(x, g), r + 1)
<1> SUFFICES ASSUME NEW n \in LiveNodes, Height(n) < r + 1
             PROVE  Walked(x, g)[n] = Walked(x, Walked(x, g))[n]
  BY DEF WalkedUpTo
<1>1. n \in Nodes /\ IsLive(n)
  BY DEF LiveNodes
<1>2. CASE n \in Leaves
  BY <1>1, <1>2 DEF Walked
<1>3. CASE n \notin Leaves
  <2> PICK c : c = Routed(n, x)
    OBVIOUS
  <2>1. c \in LiveNodes /\ Height(n) \in Nat /\ Height(c) \in Nat /\ Height(c) < Height(n)
    BY <1>1, <1>3, RoutedLive, HeightFalls, LiveNode DEF WellFormed
  <2>2. Height(c) < r
    BY <2>1
  <2>3. g[c] = Walked(x, g)[c]
    BY <2>1, <2>2 DEF WalkedUpTo
  <2>4. Walked(x, g)[n] = g[c] /\ Walked(x, Walked(x, g))[n] = Walked(x, g)[c]
    BY <1>1, <1>3 DEF Walked
  <2> QED
    BY <2>3, <2>4
<1> QED
  BY <1>2, <1>3

LEMMA WalkedExists ==
  ASSUME WellFormed, NEW x
  PROVE  \E f : f = Walked(x, f)
<1> DEFINE Bad == {r \in Nat : ~ \E f : WalkedUpTo(x, f, r)}
<1>1. IsFiniteSet(LiveNodes) /\ Cardinality(LiveNodes) \in Nat
  BY NodesFinite, FS_Subset, FS_CardinalityType DEF LiveNodes
<1>2. \A n \in LiveNodes : Height(n) \in Nat /\ Height(n) < Cardinality(LiveNodes) + 1
  <2>1. \A n \in LiveNodes : Lighter(n) \in SUBSET LiveNodes
    BY DEF Lighter
  <2> QED
    BY <1>1, <2>1, FS_Subset, FS_CardinalityType DEF Height
<1>3. Bad = {}
  <2> SUFFICES ASSUME Bad # {} PROVE FALSE
    OBVIOUS
  <2>1. PICK r \in Bad : \A y \in Bad : ~ (<<y, r>> \in OpToRel(<, Nat))
    <3>1. Bad \subseteq Nat
      OBVIOUS
    <3> HIDE DEF Bad
    <3> QED
      BY <3>1, WFMin, NatLessThanWellFounded
  <2>2. \A y \in Bad : ~ (y < r)
    BY <2>1 DEF OpToRel
  <2>3. r # 0
    <3>1. WalkedUpTo(x, <<>>, 0)
      BY <1>2 DEF WalkedUpTo
    <3> QED
      BY <3>1
  <2>4. r - 1 \in Nat /\ r - 1 \notin Bad /\ (r - 1) + 1 = r
    BY <2>2, <2>3
  <2>5. PICK g : WalkedUpTo(x, g, r - 1)
    BY <2>4
  <2>6. WalkedUpTo(x, Walked(x, g), r)
    BY <2>4, <2>5, WalkedFurther
  <2> QED
    BY <2>6
<1>4. PICK g : WalkedUpTo(x, g, Cardinality(LiveNodes) + 1)
  <2>1. Cardinality(LiveNodes) + 1 \in Nat
    BY <1>1
  <2> QED
    BY <1>3, <2>1
<1>5. \A n \in LiveNodes : g[n] = Walked(x, g)[n]
  BY <1>2, <1>4 DEF WalkedUpTo
<1>6. ASSUME NEW n \in Nodes
      PROVE  Walked(x, g)[n] = Walked(x, Walked(x, g))[n]
  <2>1. CASE n \in Leaves \/ ~IsLive(n)
    BY <2>1 DEF Walked
  <2>2. CASE n \notin Leaves /\ IsLive(n)
    <3>1. n \in LiveNodes \cap Internals
      BY <2>2 DEF LiveNodes, Nodes
    <3>2. g[Routed(n, x)] = Walked(x, g)[Routed(n, x)]
      BY <1>5, <3>1, RoutedLive
    <3> QED
      BY <2>2, <3>2 DEF Walked
  <2> QED
    BY <2>1, <2>2
<1>7. Walked(x, g) = Walked(x, Walked(x, g))
  BY <1>6 DEF Walked
<1> QED
  BY <1>7

LEMMA RouteIs ==
  ASSUME WellFormed, NEW x
  PROVE  RouteFrom(x) = Walked(x, RouteFrom(x))
<1>1. RouteFrom(x) = CHOOSE f : f = Walked(x, f)
  BY DEF RouteFrom, Walked
<1> QED
  BY <1>1, WalkedExists

LEMMA RootOnTop ==
  ASSUME WellFormed, NEW n \in LiveNodes
  PROVE  root \in Chain(n) /\ root \in LiveNodes
<1> DEFINE S == {m \in LiveNodes : root \notin Chain(m)}
<1>1. S = {}
  <2> SUFFICES ASSUME S # {} PROVE FALSE
    OBVIOUS
  <2>1. PICK m \in S : node[m].parent = None \/ node[m].parent \notin S
    <3>1. S \in SUBSET LiveNodes
      OBVIOUS
    <3> HIDE DEF S
    <3> QED
      BY <3>1, Topmost
  <2>2. m # root
    BY <2>1 DEF Chain
  <2>3. node[m].parent # None /\ node[m].parent \in LiveNodes
    BY <2>1, <2>2, ParentHeavier DEF WellFormed, ParentInv
  <2>4. root \in Chain(node[m].parent)
    BY <2>1, <2>3
  <2> QED
    BY <2>1, <2>3, <2>4, UpIs DEF Chain
<1>2. root \in LiveNodes
  BY DEF WellFormed, TypeOK, RootInv, LiveNodes
<1> QED
  BY <1>1, <1>2

\* The box of a node above holds those of the nodes below.
LEMMA PathWithin ==
  ASSUME TreeInv, GeomInv, ~Packed, NEW l \in LiveNodes
  PROVE  \A c \in Chain(l) : c \in LiveNodes /\ Within(BoxOf(l), BoxOf(c))
<1>0. WellFormed
  BY DEF TreeInv
<1>1. BoxOf(l) \in Boxes /\ Within(BoxOf(l), BoxOf(l))
  <2>1. BoxOf(l) \in Boxes
    BY BoxOfLive
  <2> QED
    BY <2>1, BoxAt DEF Within
<1> DEFINE S == {a \in Up(l) : ~ Within(BoxOf(l), BoxOf(a))}
<1>2. S = {}
  <2> SUFFICES ASSUME S # {} PROVE FALSE
    OBVIOUS
  <2>1. PICK a \in S : \E c \in Chain(l) \ S : c \in LiveNodes /\ node[c].parent = a
    <3>1. S \in SUBSET Up(l)
      OBVIOUS
    <3> HIDE DEF S
    <3> QED
      BY <1>0, <3>1, Bottommost
  <2>2. PICK c \in Chain(l) \ S : c \in LiveNodes /\ node[c].parent = a
    BY <2>1
  <2>3. a \in Up(l) /\ a \in LiveNodes /\ a \in Internals /\ a \notin Leaves /\ a # None
    BY <1>0, <2>1, UpHeavier, NodesFinite, TreeAssumption DEF LiveNodes
  <2>4. c = node[a].left \/ c = node[a].right
    BY <1>0, <2>2, <2>3, ParentHeavier
  <2> PICK L : L = BoxOf(node[a].left)
    OBVIOUS
  <2> PICK R : R = BoxOf(node[a].right)
    OBVIOUS
  <2>5. L \in Boxes /\ R \in Boxes /\ BoxOf(a) = Merged(L, R) /\ BoxOf(a) \in Boxes
    BY <1>0, <2>3, Children, BoxOfLive DEF BoxOf, GeomInv, BoxesTight
  <2>6. Within(BoxOf(c), BoxOf(a)) /\ BoxOf(c) \in Boxes
    BY <2>4, <2>5, MergedWithin
  <2>7. Within(BoxOf(l), BoxOf(c))
    BY <1>1, <2>2 DEF Chain
  <2>8. Within(BoxOf(l), BoxOf(a))
    <3> SUFFICES ASSUME NEW d \in Axes
                 PROVE  /\ BoxOf(a).min[d] <= BoxOf(l).min[d]
                        /\ BoxOf(l).max[d] <= BoxOf(a).max[d]
      BY DEF Within
    <3> PICK b0 : b0 = BoxOf(l)
      OBVIOUS
    <3> PICK b1 : b1 = BoxOf(c)
      OBVIOUS
    <3> PICK b2 : b2 = BoxOf(a)
      OBVIOUS
    <3>1. /\ b1.min[d] <= b0.min[d] /\ b0.max[d] <= b1.max[d]
          /\ b2.min[d] <= b1.min[d] /\ b1.max[d] <= b2.max[d]
      BY <2>6, <2>7 DEF Within
    <3>2. /\ b0.min[d] \in Int /\ b0.max[d] \in Int /\ b1.min[d] \in Int
          /\ b1.max[d] \in Int /\ b2.min[d] \in Int /\ b2.max[d] \in Int
      BY <1>1, <2>5, <2>6, BoxAt
    <3> QED
      BY <3>1, <3>2
  <2> QED
    BY <2>1, <2>8
<1> QED
  BY <1>0, <1>1, <1>2, UpHeavier DEF Chain

\* Each node on the way routes the leaf's coordinates along it.
LEMMA RoutedAlong ==
  ASSUME TreeInv, GeomInv, ~Packed, NEW l \in LiveNodes, l \in Leaves,
         NEW x, x = coord[node[l].point], NEW a \in Up(l)
  PROVE  Routed(a, x) \in Chain(l)
<1>0. WellFormed
  BY DEF TreeInv
<1>1. a \in LiveNodes /\ a \in Internals
  BY <1>0, UpHeavier
<1>2. x \in Coords /\ BoxOf(l) = FromPoint(x)
  BY BoxOfLive DEF BoxOf
<1> PICK cut : cut = node[a].cut
  OBVIOUS
<1> PICK d : d = cut.dim
  OBVIOUS
<1> PICK L : L = BoxOf(node[a].left)
  OBVIOUS
<1> PICK R : R = BoxOf(node[a].right)
  OBVIOUS
<1>3. L.max[d] <= cut.value /\ cut.value < R.min[d]
  BY <1>1 DEF GeomInv, CutsSeparate
<1>4. d \in Axes /\ cut.value \in Int /\ L \in Boxes /\ R \in Boxes
  <2>1. cut \in [dim : Axes, value : Int]
    BY <1>0, <1>1, LiveNode DEF WellFormed, InnerNode
  <2> QED
    BY <1>0, <1>1, <2>1, Children, BoxOfLive
<1>5. x[d] \in Int /\ L.max[d] \in Int /\ R.min[d] \in Int
  <2>1. x \in [Axes -> Marks]
    BY <1>2, PointBox
  <2> QED
    BY <1>4, <2>1, MarksAreInts, BoxAt
<1>6. CASE node[a].left \in Chain(l)
  <2>1. Within(FromPoint(x), L)
    BY <1>2, <1>6, PathWithin
  <2>2. x[d] <= L.max[d]
    BY <1>4, <2>1 DEF Within, FromPoint
  <2>3. x[d] <= cut.value
    BY <1>3, <1>4, <1>5, <2>2
  <2> QED
    BY <1>6, <2>3 DEF Routed, LeftOf
<1>7. CASE node[a].right \in Chain(l)
  <2>1. Within(FromPoint(x), R)
    BY <1>2, <1>7, PathWithin
  <2>2. R.min[d] <= x[d]
    BY <1>4, <2>1 DEF Within, FromPoint
  <2>3. ~ (x[d] <= cut.value)
    BY <1>3, <1>4, <1>5, <2>2
  <2> QED
    BY <1>7, <2>3 DEF Routed, LeftOf
<1> QED
  BY <1>0, <1>1, <1>6, <1>7, OneChild

LEMMA WalkEnds ==
  ASSUME TreeInv, GeomInv, ~Packed, NEW l \in LiveNodes, l \in Leaves,
         NEW x, x = coord[node[l].point]
  PROVE  \A c \in Chain(l) : RouteFrom(x)[c] = l
<1>0. WellFormed
  BY DEF TreeInv
<1> PICK end : end = RouteFrom(x)
  OBVIOUS
<1>1. \A n \in Nodes : end[n] = IF n \in Leaves \/ ~IsLive(n) THEN n ELSE end[Routed(n, x)]
  <2>1. end = Walked(x, end)
    BY <1>0, RouteIs
  <2>2. \A n \in Nodes : Walked(x, end)[n] =
          IF n \in Leaves \/ ~IsLive(n) THEN n ELSE end[Routed(n, x)]
    BY DEF Walked
  <2> QED
    BY <2>1, <2>2
<1>2. end[l] = l
  BY <1>1 DEF LiveNodes
<1> DEFINE S == {a \in Up(l) : end[a] # l}
<1>3. S = {}
  <2> SUFFICES ASSUME S # {} PROVE FALSE
    OBVIOUS
  <2>1. PICK a \in S : \E c \in Chain(l) \ S : c \in LiveNodes /\ node[c].parent = a
    <3>1. S \in SUBSET Up(l)
      OBVIOUS
    <3> HIDE DEF S
    <3> QED
      BY <1>0, <3>1, Bottommost
  <2>2. PICK c \in Chain(l) \ S : c \in LiveNodes /\ node[c].parent = a
    BY <2>1
  <2>3. /\ a \in Up(l) /\ a \in LiveNodes /\ a \in Internals /\ a \notin Leaves /\ a # None
        /\ a \in Nodes /\ IsLive(a)
    BY <1>0, <2>1, UpHeavier, NodesFinite, TreeAssumption DEF LiveNodes
  <2>4. c = node[a].left \/ c = node[a].right
    BY <1>0, <2>2, <2>3, ParentHeavier
  <2>5. Routed(a, x) \in Chain(l)
    BY <2>3, RoutedAlong
  <2>6. Routed(a, x) = node[a].left \/ Routed(a, x) = node[a].right
    BY DEF Routed
  <2>7. Routed(a, x) = c
    BY <1>0, <2>2, <2>3, <2>4, <2>5, <2>6, OneChild
  <2>8. end[a] = end[c]
    BY <1>1, <2>3, <2>7
  <2>9. end[c] = l
    BY <1>2, <2>2 DEF Chain
  <2> QED
    BY <2>1, <2>8, <2>9
<1> QED
  BY <1>2, <1>3 DEF Chain

\* In the default build a query for a point in the tree ends at the leaf the index
\* names, and the leaf goes by a point with the same coordinates: no insertion,
\* deletion or promotion of a sibling moves a point off its path.
THEOREM QueriesFindPoints == Spec => []RouteFindsLeaf
<1>1. TreeInv /\ GeomInv => RouteFindsLeaf
  <2> SUFFICES ASSUME TreeInv, GeomInv, ~Packed, NEW p \in Points, leaf_index[p] # None
               PROVE  /\ RouteFrom(coord[p])[root] = leaf_index[p]
                      /\ coord[node[leaf_index[p]].point] = coord[p]
    BY DEF RouteFindsLeaf, Present
  <2> PICK l : l = leaf_index[p]
    OBVIOUS
  <2> PICK x : x = coord[p]
    OBVIOUS
  <2>1. l \in LiveNodes /\ l \in Leaves
    BY DEF TreeInv, WellFormed, TypeOK, Present, LiveNodes, Nodes
  <2>2. x = coord[node[l].point]
    BY DEF TreeInv, CoordInv, Present
  <2>3. root \in Chain(l)
    BY <2>1, RootOnTop DEF TreeInv
  <2> QED
    BY <2>1, <2>2, <2>3, WalkEnds
<1> QED
  BY <1>1, GeomInvariance, PTL

------------------------------------------------------------------------------
(* Free lists and steps from one node to the next.                          *)

\* A list that has every element of a set once is as long as the set is large.
LEMMA ListLength ==
  ASSUME NEW A, NEW free \in Seq(A), \A i, j \in DOMAIN free : i # j => free[i] # free[j]
  PROVE  IsFiniteSet(Range(free)) /\ Cardinality(Range(free)) = Len(free)
<1> DEFINE S == Range(free)
<1>1. Len(free) \in Nat /\ DOMAIN free = 1..Len(free)
  OBVIOUS
<1>2. free \in Bijection(1..Len(free), S)
  BY <1>1 DEF Range, Bijection, Injection, Surjection, IsInjective
<1>3. ExistsBijection(1..Len(free), S)
  BY <1>2 DEF ExistsBijection
<1> HIDE DEF S
<1>4. IsFiniteSet(S) /\ Cardinality(S) = Len(free)
  BY <1>1, <1>3, FS_NatBijection, FS_CountingElements
<1> QED
  BY <1>4 DEF S

LEMMA Enumerated ==
  ASSUME NEW S, IsFiniteSet(S)
  PROVE  /\ SetToSeq(S) \in Seq(S) /\ Range(SetToSeq(S)) = S
         /\ Len(SetToSeq(S)) = Cardinality(S)
         /\ \A i, j \in DOMAIN SetToSeq(S) : i # j => SetToSeq(S)[i] # SetToSeq(S)[j]
<1>1. Cardinality(S) \in Nat /\ ExistsBijection(1..Cardinality(S), S)
  BY FS_CardinalityType
<1>2. \E f \in [1..Cardinality(S) -> S] : IsInjective(f)
  BY <1>1 DEF ExistsBijection, Bijection, Injection
<1>3. PICK f : f = SetToSeq(S)
  OBVIOUS
<1>4. f \in [1..Cardinality(S) -> S] /\ IsInjective(f)
  BY <1>2, <1>3 DEF SetToSeq
<1>5. f \in Injection(1..Cardinality(S), S)
  BY <1>4 DEF Injection
<1>6. IsFiniteSet(1..Cardinality(S)) /\ Cardinality(1..Cardinality(S)) = Cardinality(S)
  BY <1>1, FS_Interval
<1>7. f \in Surjection(1..Cardinality(S), S)
  BY <1>5, <1>6, FS_Injection
<1>8. Range(f) = S
  BY <1>4, <1>7 DEF Surjection, Range
<1>9. f \in Seq(S) /\ Len(f) = Cardinality(S)
  BY <1>1, <1>4
<1> QED
  BY <1>3, <1>4, <1>8, <1>9 DEF IsInjective

\* Counting up to a bound.
LEMMA CountUp ==
  ASSUME NEW N \in Nat, NEW S, 0 \in S, \A k \in 0..N : k \in S /\ k + 1 <= N => k + 1 \in S
  PROVE  \A k \in 0..N : k \in S
<1> DEFINE Bad == {k \in 0..N : k \notin S}
<1>1. SUFFICES ASSUME Bad # {} PROVE FALSE
  OBVIOUS
<1>2. PICK n \in Bad : \A y \in Bad : ~ (<<y, n>> \in OpToRel(<, Nat))
  <2>1. Bad \subseteq Nat
    OBVIOUS
  <2> HIDE DEF Bad
  <2> QED
    BY <1>1, <2>1, WFMin, NatLessThanWellFounded
<1>3. \A y \in Bad : ~ (y < n)
  <2>1. \A y \in Bad : y \in Nat
    OBVIOUS
  <2> HIDE DEF Bad
  <2> QED
    BY <1>2, <2>1 DEF OpToRel
<1>4. n \in 0..N /\ n \notin S
  BY <1>2
<1>5. n - 1 \in 0..N /\ n - 1 < n /\ (n - 1) + 1 = n /\ n <= N
  BY <1>4
<1>6. n - 1 \in S
  BY <1>3, <1>5
<1> QED
  BY <1>4, <1>5, <1>6

\* What is reached from a in n steps of a function.
Stepped(r, n, F, a) == r = [k \in 0..n |-> IF k = 0 THEN a ELSE F[r[k-1]]]

LEMMA StepsExist ==
  ASSUME NEW N \in Nat, NEW F, NEW a
  PROVE  \E r : Stepped(r, N, F, a)
<1> USE DEF Stepped
<1> DEFINE Steps(r, n) == Stepped(r, n, F, a)
           Bad == {n \in Nat : ~ \E r : Steps(r, n)}
<1>1. SUFFICES ASSUME Bad # {} PROVE FALSE
  OBVIOUS
<1>2. PICK n \in Bad : \A y \in Bad : ~ (<<y, n>> \in OpToRel(<, Nat))
  <2>1. Bad \subseteq Nat
    OBVIOUS
  <2> HIDE DEF Bad
  <2> QED
    BY <1>1, <2>1, WFMin, NatLessThanWellFounded
<1>3. \A y \in Bad : ~ (y < n)
  BY <1>2 DEF OpToRel
<1>4. n # 0
  <2> DEFINE z == [k \in 0..0 |-> a]
  <2>1. z = [k \in 0..0 |-> IF k = 0 THEN a ELSE F[z[k-1]]]
    OBVIOUS
  <2>2. Steps(z, 0)
    BY <2>1
  <2> QED
    BY <2>2
<1>5. n - 1 \in Nat /\ n - 1 \notin Bad
  <2>1. n \in Nat
    BY <1>2
  <2> HIDE DEF Bad
  <2> QED
    BY <1>3, <1>4, <2>1
<1>6. PICK r : Steps(r, n - 1)
  BY <1>5
<1> DEFINE s == [k \in 0..n |-> IF k = 0 THEN a ELSE F[r[k-1]]]
<1>7. ASSUME NEW k \in 0..n, k # 0
      PROVE  r[k-1] = s[k-1]
  <2>1. k - 1 \in 0..(n-1) /\ k - 1 \in 0..n
    BY <1>5, <1>7
  <2> QED
    BY <1>6, <2>1
<1>8. s = [k \in 0..n |-> IF k = 0 THEN a ELSE F[s[k-1]]]
  <2> DEFINE t == [k \in 0..n |-> IF k = 0 THEN a ELSE F[s[k-1]]]
  <2>1. \A k \in 0..n : s[k] = t[k]
    BY <1>7
  <2> QED
    BY <2>1
<1>9. Steps(s, n)
  BY <1>8
<1> QED
  BY <1>2, <1>9

------------------------------------------------------------------------------
(* A tree by its parents, children and masses alone: the nodes nd, their    *)
(* root rt and the index li.                                                *)

LiveOf(nd) == {n \in Nodes : nd[n] # None}

TypedNodes(nd) ==
  /\ nd \in [Nodes -> LeafNode \cup InnerNode \cup {None}]
  /\ \A n \in Leaves : nd[n] # None => nd[n] \in LeafNode
  /\ \A n \in Internals : nd[n] # None => nd[n] \in InnerNode

LinkedNodes(nd, rt) ==
  \A n \in LiveOf(nd) :
    /\ n = rt => nd[n].parent = None
    /\ n # rt => /\ nd[n].parent \in LiveOf(nd) /\ nd[n].parent \in Internals
                 /\ n = nd[nd[n].parent].left \/ n = nd[nd[n].parent].right
    /\ n \in Internals =>
         /\ nd[n].left \in LiveOf(nd) /\ nd[n].right \in LiveOf(nd)
         /\ nd[n].left # nd[n].right
         /\ nd[nd[n].left].parent = n /\ nd[nd[n].right].parent = n
         /\ nd[n].mass = nd[nd[n].left].mass + nd[nd[n].right].mass

IndexedNodes(nd, li) ==
  /\ \A p \in Points : li[p] # None => li[p] \in LiveOf(nd) \cap Leaves
  /\ \A n \in LiveOf(nd) \cap Leaves : nd[n].mass = Cardinality({p \in Points : li[p] = n})

LinkedTree(nd, rt, li) == TypedNodes(nd) /\ LinkedNodes(nd, rt) /\ IndexedNodes(nd, li)

LEMMA LinkedNode ==
  ASSUME NEW nd, TypedNodes(nd), NEW n \in LiveOf(nd)
  PROVE  /\ n \in Nodes /\ nd[n] # None /\ n # None
         /\ nd[n].parent \in Internals \cup {None}
         /\ nd[n].mass \in Nat /\ nd[n].mass > 0
         /\ n \in Leaves => n \notin Internals
         /\ n \in Leaves \/ n \in Internals
<1>1. n \in Nodes /\ nd[n] # None /\ n # None
  BY TreeAssumption DEF LiveOf
<1>2. CASE n \in Leaves
  <2>1. nd[n] \in LeafNode /\ n \notin Internals
    BY <1>1, <1>2, NodesFinite DEF TypedNodes
  <2> QED
    <3>1. nd[n].parent \in Parents /\ nd[n].mass \in Nat \ {0}
      BY <2>1 DEF LeafNode
    <3> QED
      BY <1>1, <1>2, <2>1, <3>1 DEF Parents
<1>3. CASE n \in Internals
  BY <1>1, <1>3, NodesFinite DEF TypedNodes, InnerNode, Parents
<1> QED
  BY <1>1, <1>2, <1>3 DEF Nodes

\* A node's parent is heavier.
LEMMA LinkedHeavier ==
  ASSUME NEW nd, NEW rt, TypedNodes(nd), LinkedNodes(nd, rt),
         NEW n \in LiveOf(nd), nd[n].parent # None
  PROVE  /\ nd[n].parent \in LiveOf(nd) /\ nd[n].parent \in Internals
         /\ n = nd[nd[n].parent].left \/ n = nd[nd[n].parent].right
         /\ nd[n].mass < nd[nd[n].parent].mass
<1> DEFINE p == nd[n].parent
<1>1. n # rt
  BY DEF LinkedNodes
<1>2. p \in LiveOf(nd) /\ p \in Internals /\ (n = nd[p].left \/ n = nd[p].right)
  BY <1>1 DEF LinkedNodes
<1>3. /\ nd[p].left \in LiveOf(nd) /\ nd[p].right \in LiveOf(nd)
      /\ nd[p].mass = nd[nd[p].left].mass + nd[nd[p].right].mass
  BY <1>2 DEF LinkedNodes
<1>4. /\ nd[nd[p].left].mass \in Nat /\ nd[nd[p].left].mass > 0
      /\ nd[nd[p].right].mass \in Nat /\ nd[nd[p].right].mass > 0
  BY <1>3, LinkedNode
<1> QED
  BY <1>2, <1>3, <1>4

HeavierOf(nd, n) == {m \in LiveOf(nd) : nd[m].mass > nd[n].mass}
DepthOf(nd, n)   == Cardinality(HeavierOf(nd, n))

LEMMA LinkedDepth ==
  ASSUME NEW nd, NEW rt, TypedNodes(nd), LinkedNodes(nd, rt), NEW n \in LiveOf(nd)
  PROVE  /\ DepthOf(nd, n) \in Nat /\ DepthOf(nd, n) < Cardinality(Nodes)
         /\ nd[n].parent # None => DepthOf(nd, nd[n].parent) < DepthOf(nd, n)
<1>1. IsFiniteSet(Nodes) /\ LiveOf(nd) \in SUBSET Nodes
  BY NodesFinite DEF LiveOf
<1>2. \A m : HeavierOf(nd, m) \in SUBSET LiveOf(nd)
  BY DEF HeavierOf
<1>3. \A m : IsFiniteSet(HeavierOf(nd, m)) /\ DepthOf(nd, m) \in Nat
  BY <1>1, <1>2, FS_Subset, FS_CardinalityType DEF DepthOf
<1>4. \A m \in LiveOf(nd) : nd[m].mass \in Nat
  BY LinkedNode
<1>5. DepthOf(nd, n) < Cardinality(Nodes)
  <2>1. n \notin HeavierOf(nd, n) /\ n \in Nodes
    BY <1>1, <1>4 DEF HeavierOf
  <2>2. HeavierOf(nd, n) \in SUBSET Nodes /\ HeavierOf(nd, n) # Nodes
    BY <1>1, <1>2, <2>1
  <2>3. /\ DepthOf(nd, n) <= Cardinality(Nodes)
        /\ Cardinality(Nodes) # DepthOf(nd, n)
    BY <1>1, <2>2, FS_Subset DEF DepthOf
  <2>4. Cardinality(Nodes) \in Nat
    BY <1>1, FS_CardinalityType
  <2> QED
    BY <1>3, <2>3, <2>4
<1>6. ASSUME nd[n].parent # None
      PROVE  DepthOf(nd, nd[n].parent) < DepthOf(nd, n)
  <2> DEFINE p == nd[n].parent
  <2>1. p \in LiveOf(nd) /\ nd[n].mass < nd[p].mass
    BY <1>6, LinkedHeavier
  <2>2. HeavierOf(nd, p) \in SUBSET HeavierOf(nd, n)
    BY <1>4, <2>1 DEF HeavierOf
  <2>3. p \in HeavierOf(nd, n) /\ p \notin HeavierOf(nd, p)
    BY <1>4, <2>1 DEF HeavierOf
  <2>4. /\ DepthOf(nd, p) <= DepthOf(nd, n)
        /\ DepthOf(nd, n) = DepthOf(nd, p) => HeavierOf(nd, n) = HeavierOf(nd, p)
    BY <1>3, <2>2, FS_Subset DEF DepthOf
  <2>5. DepthOf(nd, p) \in Nat /\ DepthOf(nd, n) \in Nat
    BY <1>3
  <2> QED
    BY <2>3, <2>4, <2>5
<1> QED
  BY <1>3, <1>5, <1>6

------------------------------------------------------------------------------
(* Climbing in an image.                                                    *)

\* The node climbed to in k steps.
IsClimb(at, nd, n) ==
  /\ at \in [0..Cardinality(Nodes) -> Nodes \cup {None}] /\ at[0] = n
  /\ \A k \in 0..Cardinality(Nodes) : k + 1 \in 0..Cardinality(Nodes) =>
       at[k+1] = IF at[k] \in LiveOf(nd) THEN nd[at[k]].parent ELSE None

LEMMA ClimbIs ==
  ASSUME NEW img, TypedNodes(img.node), NEW n \in Nodes
  PROVE  \E at : IsClimb(at, img.node, n)
                 /\ Climb(img, n) = {at[k] : k \in 0..Cardinality(Nodes)}
<1> DEFINE N == Cardinality(Nodes)
           F == [m \in Nodes \cup {None} |->
                   IF LiveIn(img, m) THEN img.node[m].parent ELSE None]
           Step(f) == [k \in 0..N |->
                         IF k = 0 THEN n
                         ELSE IF LiveIn(img, f[k-1]) THEN img.node[f[k-1]].parent ELSE None]
<1>1. N \in Nat
  BY NodesFinite, FS_CardinalityType
<1>2. \A m : LiveIn(img, m) <=> m \in LiveOf(img.node)
  BY DEF LiveIn, LiveOf
<1>3. F \in [Nodes \cup {None} -> Nodes \cup {None}]
  <2>1. \A m \in LiveOf(img.node) : img.node[m].parent \in Nodes \cup {None}
    BY LinkedNode DEF Nodes
  <2> QED
    BY <1>2, <2>1
<1>4. PICK r : r = [k \in 0..N |-> IF k = 0 THEN n ELSE F[r[k-1]]]
  <2> HIDE DEF F, N
  <2>1. \E r : Stepped(r, N, F, n)
    BY <1>1, StepsExist
  <2> QED
    BY <2>1 DEF Stepped
<1>5. \A k \in 0..N : r[k] \in Nodes \cup {None}
  <2> DEFINE S == {k \in 0..N : r[k] \in Nodes \cup {None}}
  <2> HIDE DEF F
  <2>1. 0 \in S
    BY <1>1, <1>4
  <2>2. ASSUME NEW k \in 0..N, k \in S, k + 1 <= N
        PROVE  k + 1 \in S
    <3>1. k + 1 \in 0..N /\ k + 1 # 0 /\ (k + 1) - 1 = k
      BY <1>1, <2>2
    <3>2. r[k+1] = F[r[k]]
      BY <1>4, <3>1
    <3> QED
      BY <1>3, <2>2, <3>1, <3>2
  <2>3. \A k \in 0..N : k \in S
    <3> HIDE DEF S
    <3> QED
      BY <1>1, <2>1, <2>2, CountUp
  <2> QED
    BY <2>3
<1>6. r = Step(r)
  <2>1. ASSUME NEW k \in 0..N, k # 0
        PROVE  F[r[k-1]] = IF LiveIn(img, r[k-1]) THEN img.node[r[k-1]].parent ELSE None
    <3>1. r[k-1] \in Nodes \cup {None}
      BY <1>1, <1>5, <2>1
    <3> QED
      BY <3>1
  <2>2. \A k \in 0..N : r[k] = Step(r)[k]
    <3> HIDE DEF F
    <3> QED
      BY <1>4, <2>1
  <2>3. r = [k \in 0..N |-> r[k]]
    <3> HIDE DEF F
    <3> QED
      BY <1>4
  <2> HIDE DEF F, N
  <2> QED
    BY <2>2, <2>3
<1> DEFINE at == CHOOSE f : f = Step(f)
<1>7. at = Step(at)
  BY <1>6, Zenon
<1>8. Climb(img, n) = {at[k] : k \in 0..N}
  BY DEF Climb
<1> HIDE DEF at
<1>9. IsClimb(at, img.node, n)
  <2>1. at[0] = n
    BY <1>1, <1>7
  <2>2. ASSUME NEW k \in 0..N, k + 1 \in 0..N
        PROVE  at[k+1] = IF at[k] \in LiveOf(img.node) THEN img.node[at[k]].parent ELSE None
    <3>1. k + 1 # 0 /\ (k + 1) - 1 = k
      BY <1>1, <2>2
    <3> QED
      BY <1>2, <1>7, <2>2, <3>1
  <2>3. \A k \in 0..N : at[k] \in Nodes \cup {None}
    <3>1. \A k \in 0..N : k # 0 =>
            at[k] = IF LiveIn(img, at[k-1]) THEN img.node[at[k-1]].parent ELSE None
      BY <1>7
    <3>2. \A m \in LiveOf(img.node) : img.node[m].parent \in Nodes \cup {None}
      BY LinkedNode DEF Nodes
    <3> QED
      BY <1>2, <2>1, <3>1, <3>2
  <2>4. at \in [0..N -> Nodes \cup {None}]
    BY <1>7, <2>3
  <2> QED
    BY <2>1, <2>2, <2>4 DEF IsClimb
<1> QED
  BY <1>8, <1>9

\* Each step of a climb is to a heavier node, until it leaves the tree.
LEMMA ClimbRises ==
  ASSUME NEW nd, NEW rt, TypedNodes(nd), LinkedNodes(nd, rt),
         NEW n \in LiveOf(nd), NEW at, IsClimb(at, nd, n)
  PROVE  \A k \in 0..Cardinality(Nodes) : at[k] # None =>
           at[k] \in LiveOf(nd) /\ DepthOf(nd, at[k]) + k <= DepthOf(nd, n)
<1> DEFINE N == Cardinality(Nodes)
           S == {k \in 0..N : at[k] # None =>
                   at[k] \in LiveOf(nd) /\ DepthOf(nd, at[k]) + k <= DepthOf(nd, n)}
<1>1. N \in Nat
  BY NodesFinite, FS_CardinalityType
<1>2. \A m \in LiveOf(nd) : DepthOf(nd, m) \in Nat
  BY LinkedDepth
<1>3. 0 \in S
  BY <1>1, <1>2 DEF IsClimb
<1>4. ASSUME NEW k \in 0..N, k \in S, k + 1 <= N
      PROVE  k + 1 \in S
  <2>1. k + 1 \in 0..N
    BY <1>1, <1>4
  <2>2. at[k+1] = IF at[k] \in LiveOf(nd) THEN nd[at[k]].parent ELSE None
    BY <2>1 DEF IsClimb
  <2> SUFFICES ASSUME at[k+1] # None
               PROVE  /\ at[k+1] \in LiveOf(nd)
                      /\ DepthOf(nd, at[k+1]) + (k + 1) <= DepthOf(nd, n)
    BY <2>1
  <2> PICK m : m = at[k]
    OBVIOUS
  <2> PICK q : q = at[k+1]
    OBVIOUS
  <2>3. m \in LiveOf(nd) /\ q = nd[m].parent /\ q # None
    BY <2>2
  <2>4. DepthOf(nd, m) + k <= DepthOf(nd, n)
    <3>1. m # None
      BY <2>3, LinkedNode
    <3> QED
      BY <1>4, <3>1
  <2>5. q \in LiveOf(nd) /\ DepthOf(nd, q) < DepthOf(nd, m)
    BY <2>3, LinkedHeavier, LinkedDepth
  <2>6. DepthOf(nd, q) \in Nat /\ DepthOf(nd, m) \in Nat /\ DepthOf(nd, n) \in Nat
    BY <1>2, <2>3, <2>5
  <2> QED
    BY <2>4, <2>5, <2>6
<1>5. \A k \in 0..N : k \in S
  <2> HIDE DEF S, N
  <2> QED
    BY <1>1, <1>3, <1>4, CountUp
<1> QED
  BY <1>5

\* What is met later is no lighter.
LEMMA ClimbOrdered ==
  ASSUME NEW nd, NEW rt, TypedNodes(nd), LinkedNodes(nd, rt),
         NEW n \in LiveOf(nd), NEW at, IsClimb(at, nd, n),
         NEW i \in 0..Cardinality(Nodes), NEW j \in 0..Cardinality(Nodes), i <= j, at[j] # None
  PROVE  at[i] # None /\ nd[at[i]].mass <= nd[at[j]].mass
<1> DEFINE N == Cardinality(Nodes)
           S == {k \in 0..N : i <= k /\ at[k] # None =>
                   at[i] # None /\ nd[at[i]].mass <= nd[at[k]].mass}
<1>1. N \in Nat
  BY NodesFinite, FS_CardinalityType
<1>2. \A k \in 0..N : at[k] # None => at[k] \in LiveOf(nd) /\ nd[at[k]].mass \in Nat
  BY ClimbRises, LinkedNode
<1>3. i \in S
  BY <1>2
<1>4. 0 \in S
  <2>1. CASE i = 0
    BY <1>3, <2>1
  <2>2. CASE i # 0
    BY <1>1, <2>2
  <2> QED
    BY <2>1, <2>2
<1>5. ASSUME NEW k \in 0..N, k \in S, k + 1 <= N
      PROVE  k + 1 \in S
  <2>1. k + 1 \in 0..N
    BY <1>1, <1>5
  <2>2. at[k+1] = IF at[k] \in LiveOf(nd) THEN nd[at[k]].parent ELSE None
    BY <2>1 DEF IsClimb
  <2>3. CASE i <= k /\ at[k+1] # None
    <3> PICK m : m = at[k]
      OBVIOUS
    <3> PICK q : q = at[k+1]
      OBVIOUS
    <3>1. m \in LiveOf(nd) /\ q = nd[m].parent /\ q # None /\ m # None
      BY <2>2, <2>3, LinkedNode
    <3>2. q \in LiveOf(nd) /\ nd[m].mass < nd[q].mass
      BY <3>1, LinkedHeavier
    <3>3. at[i] # None /\ nd[at[i]].mass <= nd[m].mass
      BY <1>5, <2>3, <3>1
    <3>4. nd[at[i]].mass \in Nat /\ nd[m].mass \in Nat /\ nd[q].mass \in Nat
      BY <1>2, <3>1, <3>2, <3>3, LinkedNode
    <3>5. nd[at[i]].mass <= nd[q].mass
      BY <3>2, <3>3, <3>4
    <3> QED
      BY <2>1, <3>3, <3>5
  <2>4. CASE at[k+1] = None
    BY <2>1, <2>4
  <2>5. CASE ~(i <= k)
    <3>1. i <= k + 1 => i = k + 1
      BY <1>1, <1>5, <2>5
    <3> QED
      BY <1>3, <2>1, <3>1
  <2> QED
    BY <2>3, <2>4, <2>5
<1>6. \A k \in 0..N : k \in S
  <2> HIDE DEF S, N
  <2> QED
    BY <1>1, <1>4, <1>5, CountUp
<1> QED
  BY <1>6

\* Every climb passes the root and leaves the tree.
LEMMA ClimbEnds ==
  ASSUME NEW nd, NEW rt, TypedNodes(nd), LinkedNodes(nd, rt),
         NEW n \in LiveOf(nd), NEW at, IsClimb(at, nd, n)
  PROVE  /\ at[Cardinality(Nodes)] = None /\ Cardinality(Nodes) \in Nat
         /\ \E k \in 0..Cardinality(Nodes) : at[k] = rt
<1> DEFINE N == Cardinality(Nodes)
<1>1. N \in Nat
  BY NodesFinite, FS_CardinalityType
<1>2. at[N] = None
  <2> SUFFICES ASSUME at[N] # None PROVE FALSE
    OBVIOUS
  <2>1. at[N] \in LiveOf(nd) /\ DepthOf(nd, at[N]) + N <= DepthOf(nd, n)
    BY <1>1, ClimbRises
  <2>2. DepthOf(nd, at[N]) \in Nat /\ DepthOf(nd, n) \in Nat /\ DepthOf(nd, n) < N
    BY <2>1, LinkedDepth
  <2> QED
    BY <1>1, <2>1, <2>2
<1>3. ASSUME \A k \in 0..N : at[k] # rt
      PROVE  FALSE
  <2> DEFINE S == {k \in 0..N : at[k] # None}
  <2>1. 0 \in S
    BY <1>1, LinkedNode DEF IsClimb
  <2>2. ASSUME NEW k \in 0..N, k \in S, k + 1 <= N
        PROVE  k + 1 \in S
    <3>1. k + 1 \in 0..N
      BY <1>1, <2>2
    <3>2. at[k] \in LiveOf(nd) /\ at[k] # rt
      BY <1>3, <2>2, ClimbRises
    <3>3. at[k+1] = nd[at[k]].parent
      BY <3>1, <3>2 DEF IsClimb
    <3>4. at[k+1] \in LiveOf(nd)
      BY <3>2, <3>3 DEF LinkedNodes
    <3> QED
      BY <3>1, <3>4, LinkedNode
  <2>3. \A k \in 0..N : k \in S
    <3> HIDE DEF S, N
    <3> QED
      BY <1>1, <2>1, <2>2, CountUp
  <2> QED
    BY <1>1, <1>2, <2>3
<1> QED
  BY <1>1, <1>2, <1>3

\* Of two nodes met in a climb from a leaf the later one is an internal node, and
\* the step before it is one of its children; of its children one alone is met.
LEMMA ClimbThrough ==
  ASSUME NEW nd, NEW rt, TypedNodes(nd), LinkedNodes(nd, rt),
         NEW l \in LiveOf(nd), l \in Leaves, NEW at, IsClimb(at, nd, l),
         NEW met, met = {at[k] : k \in 0..Cardinality(Nodes)},
         NEW n \in LiveOf(nd)
  PROVE  /\ n \in Leaves => (n \in met <=> n = l)
         /\ n \in Internals =>
              /\ n \in met <=> nd[n].left \in met \/ nd[n].right \in met
              /\ ~ (nd[n].left \in met /\ nd[n].right \in met)
<1> DEFINE N == Cardinality(Nodes)
<1>1. N \in Nat /\ at[N] = None /\ at[0] = l
  BY ClimbEnds DEF IsClimb
<1>2. n # None /\ l # None
  BY LinkedNode
<1>3. ASSUME NEW k \in 0..N, k # 0, at[k] = n
      PROVE  /\ k - 1 \in 0..N /\ at[k-1] \in LiveOf(nd) /\ nd[at[k-1]].parent = n
             /\ n \in Internals /\ n \notin Leaves
             /\ at[k-1] = nd[n].left \/ at[k-1] = nd[n].right
  <2>1. k - 1 \in 0..N /\ (k - 1) + 1 = k
    BY <1>1, <1>3
  <2>2. n = IF at[k-1] \in LiveOf(nd) THEN nd[at[k-1]].parent ELSE None
    BY <1>3, <2>1 DEF IsClimb
  <2>3. at[k-1] \in LiveOf(nd) /\ nd[at[k-1]].parent = n
    BY <1>2, <2>2
  <2>4. n \in Internals /\ (at[k-1] = nd[n].left \/ at[k-1] = nd[n].right)
    BY <1>2, <2>3, LinkedHeavier
  <2> QED
    BY <2>1, <2>3, <2>4, LinkedNode
<1>4. ASSUME n \in Leaves
      PROVE  n \in met <=> n = l
  <2>1. ASSUME n \in met PROVE n = l
    <3>1. PICK k \in 0..N : at[k] = n
      BY <2>1
    <3>2. k = 0
      BY <1>3, <1>4, <3>1
    <3> QED
      BY <1>1, <3>1, <3>2
  <2>2. l \in met
    BY <1>1
  <2> QED
    BY <2>1, <2>2
<1>5. ASSUME n \in Internals
      PROVE  /\ n \in met <=> nd[n].left \in met \/ nd[n].right \in met
             /\ ~ (nd[n].left \in met /\ nd[n].right \in met)
  <2>1. ASSUME n \in met PROVE nd[n].left \in met \/ nd[n].right \in met
    <3>1. PICK k \in 0..N : at[k] = n
      BY <2>1
    <3>2. k # 0
      BY <1>1, <1>5, <3>1, LinkedNode
    <3>3. k - 1 \in 0..N /\ (at[k-1] = nd[n].left \/ at[k-1] = nd[n].right)
      BY <1>3, <3>1, <3>2
    <3> QED
      BY <3>3
  <2>2. /\ nd[n].left \in LiveOf(nd) /\ nd[n].right \in LiveOf(nd)
        /\ nd[n].left # nd[n].right
        /\ nd[nd[n].left].parent = n /\ nd[nd[n].right].parent = n
    BY <1>5 DEF LinkedNodes
  <2>3. ASSUME NEW c \in LiveOf(nd), nd[c].parent = n, NEW i \in 0..N, at[i] = c
        PROVE  i + 1 \in 0..N /\ at[i+1] = n /\ nd[c].mass < nd[n].mass
    <3>1. c # None
      BY LinkedNode
    <3>2. i + 1 \in 0..N
      BY <1>1, <2>3, <3>1
    <3>3. at[i+1] = n
      BY <2>3, <3>2 DEF IsClimb
    <3> QED
      BY <1>2, <2>3, <3>2, <3>3, LinkedHeavier
  <2>4. ASSUME NEW c \in LiveOf(nd), NEW d \in LiveOf(nd), c # d,
               nd[c].parent = n, nd[d].parent = n,
               NEW i \in 0..N, NEW j \in 0..N, at[i] = c, at[j] = d, i < j
        PROVE  FALSE
    <3>1. i + 1 \in 0..N /\ at[i+1] = n /\ i + 1 <= j
      BY <1>1, <2>3, <2>4
    <3>2. d # None
      BY LinkedNode
    <3>3. nd[at[i+1]].mass <= nd[at[j]].mass
      BY <2>4, <3>1, <3>2, ClimbOrdered
    <3>4. nd[d].mass < nd[n].mass
      BY <2>3, <2>4
    <3>5. nd[d].mass \in Nat /\ nd[n].mass \in Nat
      BY LinkedNode
    <3> QED
      BY <2>4, <3>1, <3>3, <3>4, <3>5
  <2>5. ASSUME nd[n].left \in met \/ nd[n].right \in met
        PROVE  n \in met
    <3>1. PICK i \in 0..N : at[i] = nd[n].left \/ at[i] = nd[n].right
      BY <2>5
    <3>2. i + 1 \in 0..N /\ at[i+1] = n
      BY <2>2, <2>3, <3>1
    <3> QED
      BY <3>2
  <2>6. ASSUME nd[n].left \in met, nd[n].right \in met
        PROVE  FALSE
    <3>1. PICK i \in 0..N : at[i] = nd[n].left
      BY <2>6
    <3>2. PICK j \in 0..N : at[j] = nd[n].right
      BY <2>6
    <3>3. i # j
      BY <2>2, <3>1, <3>2
    <3>4. i < j \/ j < i
      BY <1>1, <3>3
    <3> QED
      BY <2>2, <2>4, <3>1, <3>2, <3>4
  <2> QED
    BY <2>1, <2>5, <2>6
<1> QED
  BY <1>4, <1>5

\* The points indexed under a node.
PointsUnder(img, n) ==
  {p \in Points : img.leaf_index[p] # None /\ n \in Climb(img, img.leaf_index[p])}

\* Masses that add up count the points under each node.
\* What the nodes met say of m, climbing from the leaf l.
Passes(nd, l, met, m) ==
  /\ m \in Leaves => (m \in met <=> m = l)
  /\ m \in Internals =>
       /\ m \in met <=> nd[m].left \in met \/ nd[m].right \in met
       /\ ~ (nd[m].left \in met /\ nd[m].right \in met)

MetBy(at) == {at[k] : k \in 0..Cardinality(Nodes)}

LEMMA ClimbPasses ==
  ASSUME NEW nd, NEW rt, TypedNodes(nd), LinkedNodes(nd, rt),
         NEW l \in LiveOf(nd), l \in Leaves, NEW at, IsClimb(at, nd, l), NEW m \in LiveOf(nd)
  PROVE  Passes(nd, l, MetBy(at), m)
<1> PICK met : met = MetBy(at)
  OBVIOUS
<1>1. met = {at[k] : k \in 0..Cardinality(Nodes)}
  BY DEF MetBy
<1>2. Passes(nd, l, met, m)
  BY <1>1, ClimbThrough DEF Passes
<1> QED
  BY <1>2

LEMMA MassesCount ==
  ASSUME NEW img, NEW nd, NEW rt, NEW li,
         nd = img.node, rt = img.root, li = img.leaf_index, LinkedTree(nd, rt, li),
         NEW n \in LiveOf(nd)
  PROVE  nd[n].mass = Cardinality(PointsUnder(img, n))
<1> DEFINE Counts(m) == nd[m].mass = Cardinality(PointsUnder(img, m))
           Bad == {r \in Nat : \E m \in LiveOf(nd) : nd[m].mass = r /\ ~Counts(m)}
<1>1. TypedNodes(nd) /\ LinkedNodes(nd, rt) /\ IndexedNodes(nd, li)
  BY DEF LinkedTree
<1>2. \A m \in LiveOf(nd) : nd[m].mass \in Nat /\ nd[m].mass > 0
  BY <1>1, LinkedNode
<1>3. \A m : IsFiniteSet(PointsUnder(img, m))
  <2>1. \A m : PointsUnder(img, m) \in SUBSET Points
    BY DEF PointsUnder
  <2> QED
    BY <2>1, FS_Subset, TreeAssumption
<1>4. ASSUME NEW p \in Points, li[p] # None, NEW m \in LiveOf(nd)
      PROVE  /\ m \in Leaves => (p \in PointsUnder(img, m) <=> m = li[p])
             /\ m \in Internals =>
                  /\ p \in PointsUnder(img, m) <=>
                       p \in PointsUnder(img, nd[m].left) \/ p \in PointsUnder(img, nd[m].right)
                  /\ ~ (p \in PointsUnder(img, nd[m].left) /\ p \in PointsUnder(img, nd[m].right))
  <2>1. li[p] \in LiveOf(nd) /\ li[p] \in Leaves /\ li[p] \in Nodes
    BY <1>1, <1>4, LinkedNode DEF IndexedNodes
  <2> PICK met : met = Climb(img, li[p])
    OBVIOUS
  <2>2. PICK at : IsClimb(at, nd, li[p]) /\ met = {at[k] : k \in 0..Cardinality(Nodes)}
    BY <1>1, <2>1, ClimbIs
  <2>3. /\ m \in Leaves => (m \in met <=> m = li[p])
        /\ m \in Internals =>
             /\ m \in met <=> nd[m].left \in met \/ nd[m].right \in met
             /\ ~ (nd[m].left \in met /\ nd[m].right \in met)
    <3>1. met = MetBy(at)
      BY <2>2 DEF MetBy
    <3>2. Passes(nd, li[p], MetBy(at), m)
      BY <1>1, <2>1, <2>2, ClimbPasses, Zenon
    <3> QED
      BY <3>1, <3>2, Zenon DEF Passes
  <2>4. \A c : p \in PointsUnder(img, c) <=> c \in met
    BY <1>4 DEF PointsUnder
  <2> QED
    BY <2>3, <2>4
<1>5. ASSUME NEW m \in LiveOf(nd), m \in Leaves
      PROVE  Counts(m)
  <2>1. m # None
    BY <1>1, LinkedNode
  <2>2. PointsUnder(img, m) = {p \in Points : li[p] = m}
    <3>1. \A p \in PointsUnder(img, m) : p \in Points /\ li[p] # None
      BY DEF PointsUnder
    <3> QED
      BY <1>4, <1>5, <2>1, <3>1
  <2> QED
    BY <1>1, <1>5, <2>2 DEF IndexedNodes
<1>6. ASSUME NEW m \in LiveOf(nd), m \in Internals, Counts(nd[m].left), Counts(nd[m].right)
      PROVE  Counts(m)
  <2> PICK L : L = PointsUnder(img, nd[m].left)
    OBVIOUS
  <2> PICK R : R = PointsUnder(img, nd[m].right)
    OBVIOUS
  <2>1. \A c : \A p \in PointsUnder(img, c) : p \in Points /\ li[p] # None
    BY DEF PointsUnder
  <2>2. PointsUnder(img, m) = L \cup R /\ L \cap R = {}
    BY <1>4, <1>6, <2>1
  <2>3. IsFiniteSet(L) /\ IsFiniteSet(R)
    BY <1>3
  <2>4. Cardinality(L \cup R) = Cardinality(L) + Cardinality(R) - Cardinality({})
    BY <2>2, <2>3, FS_Union
  <2>5. Cardinality({}) = 0 /\ Cardinality(L) \in Nat /\ Cardinality(R) \in Nat
    BY <2>3, FS_EmptySet, FS_CardinalityType
  <2>6. nd[m].mass = nd[nd[m].left].mass + nd[nd[m].right].mass
    BY <1>1, <1>6 DEF LinkedNodes
  <2>7. nd[m].mass = Cardinality(L) + Cardinality(R)
    BY <1>6, <2>6
  <2> QED
    BY <2>2, <2>4, <2>5, <2>7
<1>7. Bad = {}
  <2> SUFFICES ASSUME Bad # {} PROVE FALSE
    OBVIOUS
  <2>1. PICK r \in Bad : \A y \in Bad : ~ (<<y, r>> \in OpToRel(<, Nat))
    <3>1. Bad \subseteq Nat
      OBVIOUS
    <3> HIDE DEF Bad
    <3> QED
      BY <3>1, WFMin, NatLessThanWellFounded
  <2>2. \A y \in Bad : ~ (y < r)
    <3>1. Bad \subseteq Nat
      OBVIOUS
    <3> HIDE DEF Bad
    <3> QED
      BY <2>1, <3>1 DEF OpToRel
  <2>3. PICK m \in LiveOf(nd) : nd[m].mass = r /\ ~Counts(m)
    BY <2>1
  <2>4. m \in Internals
    BY <1>1, <1>5, <2>3, LinkedNode
  <2>5. /\ nd[m].left \in LiveOf(nd) /\ nd[m].right \in LiveOf(nd)
        /\ nd[m].mass = nd[nd[m].left].mass + nd[nd[m].right].mass
    BY <1>1, <2>4 DEF LinkedNodes
  <2>6. ASSUME NEW c \in LiveOf(nd), nd[c].mass < r
        PROVE  Counts(c)
    <3> SUFFICES ASSUME ~Counts(c) PROVE FALSE
      OBVIOUS
    <3>1. nd[c].mass \in Bad
      BY <1>2
    <3> QED
      BY <2>2, <2>6, <3>1
  <2>7. nd[nd[m].left].mass < r /\ nd[nd[m].right].mass < r
    <3> PICK a : a = nd[nd[m].left].mass
      OBVIOUS
    <3> PICK b : b = nd[nd[m].right].mass
      OBVIOUS
    <3>1. a \in Nat /\ a > 0 /\ b \in Nat /\ b > 0 /\ r = a + b
      BY <1>2, <2>3, <2>5
    <3> QED
      BY <3>1
  <2>8. Counts(nd[m].left) /\ Counts(nd[m].right)
    BY <2>5, <2>6, <2>7
  <2> QED
    BY <1>6, <2>3, <2>4, <2>8
<1> QED
  BY <1>2, <1>7

\* A tree whose links and masses agree is safe to walk.
LEMMA LinkedIsSafe ==
  ASSUME NEW img, LinkedTree(img.node, img.root, img.leaf_index)
  PROVE  SafeToWalk(img)
<1> DEFINE nd == img.node
<1>1. TypedNodes(nd) /\ LinkedNodes(nd, img.root)
  BY DEF LinkedTree
<1> SUFFICES ASSUME NEW n \in Nodes, LiveIn(img, n)
             PROVE  /\ {img.root, None} \subseteq Climb(img, n)
                    /\ nd[n].mass = Cardinality(PointsUnder(img, n))
  BY DEF SafeToWalk, PointsUnder
<1>2. n \in LiveOf(nd)
  BY DEF LiveIn, LiveOf
<1>3. PICK at : IsClimb(at, nd, n) /\ Climb(img, n) = {at[k] : k \in 0..Cardinality(Nodes)}
  BY <1>1, ClimbIs
<1>4. /\ at[Cardinality(Nodes)] = None /\ Cardinality(Nodes) \in Nat
      /\ \E k \in 0..Cardinality(Nodes) : at[k] = img.root
  BY <1>1, <1>2, <1>3, ClimbEnds
<1>5. Cardinality(Nodes) \in 0..Cardinality(Nodes)
  BY <1>4
<1>6. nd[n].mass = Cardinality(PointsUnder(img, n))
  BY <1>2, MassesCount
<1> QED
  BY <1>3, <1>4, <1>5, <1>6

------------------------------------------------------------------------------
(* What the walk of validate_restored reaches.                              *)

ImageTyped(img) ==
  /\ TypedNodes(img.node) /\ img.root \in Nodes \cup {None}
  /\ img.leaf_index \in [Points -> Leaves \cup {None}]
  /\ img.leaf_free \in Seq(Leaves) /\ img.internal_free \in Seq(Internals)

Widened(img, s) == s \cup UNION {ChildrenIn(img, n) : n \in s}

\* The nodes reached in k steps.
IsReach(r, img) ==
  /\ r[0] = {img.root} \ {None}
  /\ \A k \in 0..Cardinality(Nodes) : k + 1 \in 0..Cardinality(Nodes) =>
       r[k+1] = Widened(img, r[k])
  /\ \A k \in 0..Cardinality(Nodes) : r[k] \in SUBSET Nodes

LEMMA ChildrenAreNodes ==
  ASSUME NEW img, TypedNodes(img.node), NEW n
  PROVE  ChildrenIn(img, n) \in SUBSET Nodes
<1>1. CASE LiveIn(img, n) /\ n \in Internals
  <2>1. img.node[n] \in InnerNode
    BY <1>1 DEF LiveIn, TypedNodes
  <2> QED
    BY <1>1, <2>1 DEF ChildrenIn, InnerNode
<1>2. CASE ~ (LiveIn(img, n) /\ n \in Internals)
  BY <1>2 DEF ChildrenIn
<1> QED
  BY <1>1, <1>2

LEMMA ReachIs ==
  ASSUME NEW img, TypedNodes(img.node), img.root \in Nodes \cup {None}
  PROVE  \E r : IsReach(r, img) /\ ReachedIn(img) = r[Cardinality(Nodes)]
<1> DEFINE N == Cardinality(Nodes)
           a == {img.root} \ {None}
           F == [s \in SUBSET Nodes |-> Widened(img, s)]
           Step(f) == [k \in 0..N |->
                         IF k = 0 THEN a
                         ELSE f[k-1] \cup UNION {ChildrenIn(img, n) : n \in f[k-1]}]
<1>1. N \in Nat
  BY NodesFinite, FS_CardinalityType
<1>2. \A s \in SUBSET Nodes : Widened(img, s) \in SUBSET Nodes
  BY ChildrenAreNodes DEF Widened
<1>3. a \in SUBSET Nodes
  OBVIOUS
<1>4. PICK r : r = [k \in 0..N |-> IF k = 0 THEN a ELSE F[r[k-1]]]
  <2> HIDE DEF F, N, a
  <2>1. \E r : Stepped(r, N, F, a)
    BY <1>1, StepsExist
  <2> QED
    BY <2>1 DEF Stepped
<1>5. \A f : f = Step(f) => \A k \in 0..N : f[k] \in SUBSET Nodes
  <2> SUFFICES ASSUME NEW f, f = Step(f)
               PROVE  \A k \in 0..N : f[k] \in SUBSET Nodes
    OBVIOUS
  <2> DEFINE S == {k \in 0..N : f[k] \in SUBSET Nodes}
  <2>1. 0 \in S
    BY <1>1, <1>3
  <2>2. ASSUME NEW k \in 0..N, k \in S, k + 1 <= N
        PROVE  k + 1 \in S
    <3>1. k + 1 \in 0..N /\ k + 1 # 0 /\ (k + 1) - 1 = k
      BY <1>1, <2>2
    <3>2. f[k+1] = Widened(img, f[k])
      BY <3>1 DEF Widened
    <3> QED
      BY <1>2, <2>2, <3>1, <3>2
  <2>3. \A k \in 0..N : k \in S
    <3> HIDE DEF S, N
    <3> QED
      BY <1>1, <2>1, <2>2, CountUp
  <2> QED
    BY <2>3
<1>6. \A k \in 0..N : r[k] \in SUBSET Nodes
  <2> DEFINE S == {k \in 0..N : r[k] \in SUBSET Nodes}
  <2> HIDE DEF F, a
  <2>1. 0 \in S
    BY <1>1, <1>3, <1>4
  <2>2. ASSUME NEW k \in 0..N, k \in S, k + 1 <= N
        PROVE  k + 1 \in S
    <3>1. k + 1 \in 0..N /\ k + 1 # 0 /\ (k + 1) - 1 = k
      BY <1>1, <2>2
    <3>2. r[k+1] = F[r[k]]
      BY <1>4, <3>1
    <3>3. F[r[k]] = Widened(img, r[k])
      BY <2>2 DEF F
    <3> QED
      BY <1>2, <2>2, <3>1, <3>2, <3>3
  <2>3. \A k \in 0..N : k \in S
    <3> HIDE DEF S, N
    <3> QED
      BY <1>1, <2>1, <2>2, CountUp
  <2> QED
    BY <2>3
<1>7. r = Step(r)
  <2>1. ASSUME NEW k \in 0..N, k # 0
        PROVE  F[r[k-1]] = r[k-1] \cup UNION {ChildrenIn(img, n) : n \in r[k-1]}
    <3>1. k - 1 \in 0..N
      BY <1>1, <2>1
    <3>2. r[k-1] \in SUBSET Nodes
      BY <1>6, <3>1
    <3> QED
      BY <3>2 DEF Widened
  <2>2. \A k \in 0..N : r[k] = Step(r)[k]
    <3> HIDE DEF F, a
    <3> QED
      BY <1>4, <2>1
  <2>3. r = [k \in 0..N |-> r[k]]
    <3> HIDE DEF F, a
    <3> QED
      BY <1>4
  <2>4. Step(r) = [k \in 0..N |-> Step(r)[k]]
    OBVIOUS
  <2> HIDE DEF F, N, a, Step
  <2> QED
    BY <2>2, <2>3, <2>4
<1> DEFINE reach == CHOOSE f : f = Step(f)
<1>8. reach = Step(reach)
  BY <1>7
<1>9. ReachedIn(img) = reach[N]
  BY DEF ReachedIn
<1> HIDE DEF reach
<1>10. IsReach(reach, img)
  <2>1. reach[0] = a
    BY <1>1, <1>8
  <2>2. ASSUME NEW k \in 0..N, k + 1 \in 0..N
        PROVE  reach[k+1] = Widened(img, reach[k])
    <3>1. k + 1 # 0 /\ (k + 1) - 1 = k
      BY <1>1, <2>2
    <3> QED
      BY <1>8, <2>2, <3>1 DEF Widened
  <2>3. \A k \in 0..N : reach[k] \in SUBSET Nodes
    <3> HIDE DEF Step
    <3> QED
      BY <1>5, <1>8
  <2> QED
    BY <2>1, <2>2, <2>3 DEF IsReach
<1> QED
  BY <1>9, <1>10

\* The nodes reached are the root, if any, children of nodes reached, and no others;
\* the walk has run out of nodes by then.
LEMMA ReachedAre ==
  ASSUME NEW img, TypedNodes(img.node), img.root \in Nodes \cup {None},
         NEW reached, reached = ReachedIn(img)
  PROVE  /\ reached \in SUBSET Nodes
         /\ img.root # None => img.root \in reached
         /\ \A n \in reached : n = img.root \/ \E m \in reached : n \in ChildrenIn(img, m)
         /\ \A n \in reached : ChildrenIn(img, n) \subseteq reached
<1> DEFINE N == Cardinality(Nodes)
<1>1. N \in Nat /\ IsFiniteSet(Nodes) /\ N \in 0..N
  BY NodesFinite, FS_CardinalityType
<1>2. PICK r : IsReach(r, img) /\ reached = r[N]
  BY ReachIs
<1>3. \A k \in 0..N : r[k] \in SUBSET Nodes /\ IsFiniteSet(r[k]) /\ Cardinality(r[k]) \in Nat
  <2>1. \A k \in 0..N : r[k] \in SUBSET Nodes
    BY <1>2 DEF IsReach
  <2> HIDE DEF N
  <2> QED
    BY <1>1, <2>1, FS_Subset, FS_CardinalityType
<1>4. \A k \in 0..N : k + 1 <= N => k + 1 \in 0..N /\ r[k+1] = Widened(img, r[k])
  <2>1. \A k \in 0..N : k + 1 <= N => k + 1 \in 0..N
    BY <1>1
  <2> QED
    BY <1>2, <2>1 DEF IsReach
<1>5. ASSUME img.root # None
      PROVE  img.root \in reached
  <2> DEFINE S == {k \in 0..N : img.root \in r[k]}
  <2>1. 0 \in S
    BY <1>1, <1>2, <1>5 DEF IsReach
  <2>2. \A k \in 0..N : k \in S /\ k + 1 <= N => k + 1 \in S
    BY <1>4 DEF Widened
  <2>3. \A k \in 0..N : k \in S
    <3> HIDE DEF S, N
    <3> QED
      BY <1>1, <2>1, <2>2, CountUp
  <2> QED
    BY <1>1, <1>2, <2>3
<1>6. ASSUME NEW n \in reached
      PROVE  n = img.root \/ \E m \in reached : n \in ChildrenIn(img, m)
  <2> DEFINE S == {k \in 0..N : \A m \in r[k] :
                     m = img.root \/ \E o \in r[k] : m \in ChildrenIn(img, o)}
  <2>1. 0 \in S
    BY <1>1, <1>2 DEF IsReach
  <2>2. \A k \in 0..N : k \in S /\ k + 1 <= N => k + 1 \in S
    <3> SUFFICES ASSUME NEW k \in 0..N, k \in S, k + 1 <= N
                 PROVE  k + 1 \in S
      OBVIOUS
    <3>1. k + 1 \in 0..N /\ r[k+1] = Widened(img, r[k])
      BY <1>4
    <3>2. \A m \in r[k+1] : m = img.root \/ \E o \in r[k+1] : m \in ChildrenIn(img, o)
      BY <3>1 DEF Widened
    <3> QED
      BY <3>1, <3>2
  <2>3. \A k \in 0..N : k \in S
    <3> HIDE DEF S, N
    <3> QED
      BY <1>1, <2>1, <2>2, CountUp
  <2> QED
    BY <1>1, <1>2, <2>3
<1>7. \A n \in reached : ChildrenIn(img, n) \subseteq reached
  <2> DEFINE Closed(s) == \A n \in s : ChildrenIn(img, n) \subseteq s
             S == {k \in 0..N : Closed(r[k]) \/ Cardinality(r[k]) > k}
  <2>1. 0 \in S
    <3>1. CASE img.root = None
      <4>1. r[0] = {}
        BY <1>2, <3>1 DEF IsReach
      <4> QED
        BY <1>1, <4>1
    <3>2. CASE img.root # None
      <4>1. r[0] = {img.root}
        BY <1>2, <3>2 DEF IsReach
      <4>2. Cardinality({img.root}) = 1
        BY FS_Singleton
      <4>3. Cardinality(r[0]) > 0
        BY <4>1, <4>2
      <4> QED
        BY <1>1, <4>3
    <3> QED
      BY <3>1, <3>2
  <2>2. ASSUME NEW k \in 0..N, k \in S, k + 1 <= N
        PROVE  k + 1 \in S
    <3>1. k + 1 \in 0..N /\ r[k+1] = Widened(img, r[k])
      BY <1>4, <2>2
    <3> PICK s : s = r[k]
      OBVIOUS
    <3> PICK t : t = r[k+1]
      OBVIOUS
    <3>2. s \in SUBSET t
      BY <3>1 DEF Widened
    <3>3. CASE Closed(s)
      <4>1. t = s
        BY <3>1, <3>3 DEF Widened
      <4> QED
        BY <3>1, <3>3, <4>1
    <3>4. CASE ~Closed(s)
      <4>1. s # t
        BY <3>1, <3>4 DEF Widened
      <4>2. /\ Cardinality(s) <= Cardinality(t) /\ Cardinality(s) # Cardinality(t)
            /\ Cardinality(s) \in Nat /\ Cardinality(t) \in Nat
        BY <1>3, <3>1, <3>2, <4>1, FS_Subset
      <4>3. Cardinality(s) > k
        BY <2>2, <3>4
      <4>4. Cardinality(t) > k + 1
        BY <1>1, <4>2, <4>3
      <4> QED
        BY <3>1, <4>4
    <3> QED
      BY <3>3, <3>4
  <2>3. \A k \in 0..N : k \in S
    <3> HIDE DEF S, N
    <3> QED
      BY <1>1, <2>1, <2>2, CountUp
  <2>4. Closed(reached) \/ Cardinality(reached) > N
    BY <1>1, <1>2, <2>3
  <2>5. Cardinality(reached) <= N
    BY <1>1, <1>2, <1>3, FS_Subset
  <2>6. Cardinality(reached) \in Nat
    BY <1>1, <1>2, <1>3
  <2>7. Closed(reached)
    BY <1>1, <2>4, <2>5, <2>6
  <2> QED
    BY <2>7
<1>8. reached \in SUBSET Nodes
  BY <1>1, <1>2, <1>3
<1> QED
  BY <1>5, <1>6, <1>7, <1>8

\* What is admitted is a tree: the walk reaches every node in use, since the free
\* lists leave no room for others.
LEMMA AdmittedIsLinked ==
  ASSUME NEW img, ImageTyped(img), ValidateRestored(img)
  PROVE  LinkedTree(img.node, img.root, img.leaf_index)
<1> DEFINE nd == img.node
<1>1. TypedNodes(nd) /\ img.root \in Nodes \cup {None}
  BY DEF ImageTyped
<1> PICK reached : reached = ReachedIn(img)
  OBVIOUS
<1>2. /\ reached \in SUBSET Nodes
      /\ \A n \in reached : n = img.root \/ \E m \in reached : n \in ChildrenIn(img, m)
      /\ \A n \in reached : ChildrenIn(img, n) \subseteq reached
  BY <1>1, ReachedAre
<1>3. /\ ValidLayout(img)
      /\ \A n \in reached : LiveIn(img, n)
      /\ img.root # None => nd[img.root].parent = None
      /\ \A n \in reached \cap Internals : ValidInternal(img, n)
      /\ Cardinality(reached \cap Internals) = Capacity - Len(img.internal_free)
      /\ Cardinality(reached \cap Leaves) = Capacity - Len(img.leaf_free)
      /\ ValidReverseIndex(img, reached)
  BY DEF ValidateRestored
<1>4. ASSUME NEW arena, arena = Leaves \/ arena = Internals, NEW free \in Seq(arena),
             FreeListHolds(img, arena, free),
             Cardinality(reached \cap arena) = Capacity - Len(free)
      PROVE  \A n \in arena : nd[n] # None => n \in reached
  <2>1. IsFiniteSet(arena) /\ Cardinality(arena) = Capacity /\ arena \subseteq Nodes
    BY <1>4, NodesFinite DEF Nodes
  <2> DEFINE empty == {n \in arena : nd[n] = None}
             live  == {n \in arena : nd[n] # None}
  <2>2. Range(free) = empty /\ Cardinality(empty) = Len(free)
    BY <1>4, ListLength DEF FreeListHolds
  <2>3. /\ Cardinality(arena \ empty) = Cardinality(arena) - Cardinality(arena \cap empty)
        /\ IsFiniteSet(arena \ empty)
    BY <2>1, FS_Difference
  <2>4. arena \ empty = live /\ arena \cap empty = empty
    OBVIOUS
  <2>5. Cardinality(live) = Capacity - Len(free) /\ IsFiniteSet(live)
    <3> HIDE DEF live, empty
    <3> QED
      BY <2>1, <2>2, <2>3, <2>4
  <2>6. reached \cap arena \in SUBSET live
    BY <1>3 DEF LiveIn
  <2>7. reached \cap arena = live
    <3> HIDE DEF live
    <3> QED
      BY <1>4, <2>5, <2>6, FS_Subset
  <2> QED
    BY <2>7
<1>5. \A n \in LiveOf(nd) : n \in reached
  <2>1. \A n \in Leaves : nd[n] # None => n \in reached
    BY <1>3, <1>4 DEF ValidLayout, ImageTyped
  <2>2. \A n \in Internals : nd[n] # None => n \in reached
    BY <1>3, <1>4 DEF ValidLayout, ImageTyped
  <2> QED
    BY <2>1, <2>2 DEF LiveOf, Nodes
<1>6. \A n \in reached : n \in LiveOf(nd)
  BY <1>3 DEF LiveIn, LiveOf
<1>7. ASSUME NEW n \in LiveOf(nd), n \in Internals
      PROVE  /\ nd[n].left \in reached /\ nd[n].right \in reached
             /\ ChildrenIn(img, n) = {nd[n].left, nd[n].right}
             /\ nd[n].left # nd[n].right
             /\ nd[nd[n].left].parent = n /\ nd[nd[n].right].parent = n
             /\ nd[n].mass = nd[nd[n].left].mass + nd[nd[n].right].mass
  <2>1. n \in reached /\ LiveIn(img, n)
    BY <1>3, <1>5
  <2>2. ChildrenIn(img, n) = {nd[n].left, nd[n].right}
    BY <1>7, <2>1 DEF ChildrenIn
  <2>3. ValidInternal(img, n)
    BY <1>3, <1>7, <2>1
  <2> QED
    BY <1>2, <2>1, <2>2, <2>3 DEF ValidInternal, NamesBack
<1>8. ASSUME NEW n \in LiveOf(nd), n # img.root
      PROVE  /\ nd[n].parent \in LiveOf(nd) /\ nd[n].parent \in Internals
             /\ n = nd[nd[n].parent].left \/ n = nd[nd[n].parent].right
  <2>1. PICK m \in reached : n \in ChildrenIn(img, m)
    BY <1>2, <1>5, <1>8
  <2>2. m \in LiveOf(nd) /\ m \in Internals
    BY <1>6, <2>1 DEF ChildrenIn
  <2>3. (n = nd[m].left \/ n = nd[m].right) /\ nd[n].parent = m
    BY <1>7, <2>1, <2>2
  <2> QED
    BY <2>2, <2>3
<1>9. LinkedNodes(nd, img.root)
  <2>1. \A n \in LiveOf(nd) : n = img.root => nd[n].parent = None
    BY <1>1, <1>3, LinkedNode
  <2> QED
    BY <1>6, <1>7, <1>8, <2>1 DEF LinkedNodes
<1>10. IndexedNodes(nd, img.leaf_index)
  <2>1. \A p \in Points : img.leaf_index[p] # None => img.leaf_index[p] \in reached \cap Leaves
    BY <1>3 DEF ValidReverseIndex
  <2>2. \A n \in reached \cap Leaves :
          nd[n].mass = Cardinality({p \in Points : img.leaf_index[p] = n})
    BY <1>3 DEF ValidReverseIndex
  <2> QED
    BY <1>5, <1>6, <2>1, <2>2 DEF IndexedNodes
<1> QED
  BY <1>1, <1>9, <1>10 DEF LinkedTree

\* Whatever image passes the checks of validate_restored, however it came about,
\* is safe to walk: climbs end at the root and masses count points.
THEOREM AdmittedAreSafe ==
  ASSUME NEW img, ImageTyped(img), ValidateRestored(img)
  PROVE  SafeToWalk(img)
BY AdmittedIsLinked, LinkedIsSafe

------------------------------------------------------------------------------
(* Snapshots of the tree.                                                   *)

\* In a tree the walk reaches every node in use.
LEMMA TreeReached ==
  ASSUME WellFormed
  PROVE  /\ TypedNodes(Image.node) /\ Image.root \in Nodes \cup {None}
         /\ ReachedIn(Image) = LiveNodes
<1>1. TypedNodes(Image.node) /\ Image.root \in Nodes \cup {None}
  BY DEF WellFormed, TypeOK, TypedNodes, Image, IsLive
<1> PICK reached : reached = ReachedIn(Image)
  OBVIOUS
<1>2. /\ reached \in SUBSET Nodes
      /\ Image.root # None => Image.root \in reached
      /\ \A n \in reached : n = Image.root \/ \E m \in reached : n \in ChildrenIn(Image, m)
      /\ \A n \in reached : ChildrenIn(Image, n) \subseteq reached
  BY <1>1, ReachedAre
<1>3. Image.root = root /\ Image.node = node
  BY DEF Image
<1>4. \A n : LiveIn(Image, n) <=> n \in LiveNodes
  BY <1>3 DEF LiveIn, LiveNodes, IsLive
<1>5. \A n \in LiveNodes \cap Internals :
        ChildrenIn(Image, n) = {node[n].left, node[n].right}
  BY <1>3, <1>4 DEF ChildrenIn
<1>6. \A n \in reached : n \in LiveNodes
  <2>1. \A m : \A n \in ChildrenIn(Image, m) : n \in LiveNodes
    <3>1. \A m : ChildrenIn(Image, m) # {} => m \in LiveNodes \cap Internals
      BY <1>4 DEF ChildrenIn
    <3> QED
      BY <1>5, <3>1, Children
  <2>2. root \in reached => root \in LiveNodes
    <3>1. root \in reached => root # None
      BY <1>2, TreeAssumption
    <3> QED
      BY <1>2, <3>1 DEF WellFormed, RootInv, LiveNodes
  <2> QED
    BY <1>2, <1>3, <2>1, <2>2
<1> DEFINE S == {n \in LiveNodes : n \notin reached}
<1>7. S = {}
  <2> SUFFICES ASSUME S # {} PROVE FALSE
    OBVIOUS
  <2>1. PICK n \in S : node[n].parent = None \/ node[n].parent \notin S
    <3>1. S \in SUBSET LiveNodes
      OBVIOUS
    <3> HIDE DEF S
    <3> QED
      BY <3>1, Topmost
  <2>2. n # root
    <3>1. n # None
      BY <2>1, TreeAssumption DEF LiveNodes
    <3> QED
      BY <1>2, <1>3, <2>1, <3>1
  <2>3. node[n].parent # None
    BY <2>1, <2>2 DEF WellFormed, ParentInv
  <2>4. /\ node[n].parent \in LiveNodes /\ node[n].parent \in Internals
        /\ n = node[node[n].parent].left \/ n = node[node[n].parent].right
    BY <2>1, <2>3, ParentHeavier
  <2>5. node[n].parent \in reached
    BY <2>1, <2>3, <2>4
  <2> QED
    BY <1>2, <1>5, <2>1, <2>4, <2>5
<1> QED
  BY <1>1, <1>6, <1>7

------------------------------------------------------------------------------
(* The boxes that internal nodes cache are not inside out, in either build. *)

Ordered(b) == \A d \in Axes : b.min[d] <= b.max[d]

BoxesOrdered == \A n \in LiveNodes \cap Internals : Ordered(node[n].box)

LEMMA OrderedMerged ==
  ASSUME NEW b \in Boxes, NEW c \in Boxes, Ordered(b), Ordered(c)
  PROVE  Ordered(Merged(b, c))
<1> SUFFICES ASSUME NEW d \in Axes
             PROVE  Merged(b, c).min[d] <= Merged(b, c).max[d]
  BY DEF Ordered
<1>1. /\ Merged(b, c).min[d] = Lower(b.min[d], c.min[d])
      /\ Merged(b, c).max[d] = Upper(b.max[d], c.max[d])
  BY MergedAt
<1>2. b.min[d] <= b.max[d] /\ c.min[d] <= c.max[d]
  BY DEF Ordered
<1>3. b.min[d] \in Int /\ b.max[d] \in Int /\ c.min[d] \in Int /\ c.max[d] \in Int
  BY BoxAt
<1> QED
  BY <1>1, <1>2, <1>3 DEF Lower, Upper

LEMMA OrderedPoint ==
  ASSUME NEW x \in Coords
  PROVE  FromPoint(x) \in Boxes /\ Ordered(FromPoint(x))
<1>1. FromPoint(x) \in Boxes /\ x \in [Axes -> Marks]
  BY PointBox
<1>2. \A d \in Axes : x[d] \in Int
  BY <1>1, MarksAreInts
<1> QED
  BY <1>1, <1>2 DEF Ordered, FromPoint

LEMMA OrderedBoxOf ==
  ASSUME TreeInv, BoxesOrdered, NEW n \in LiveNodes
  PROVE  BoxOf(n) \in Boxes /\ Ordered(BoxOf(n))
<1>1. BoxOf(n) \in Boxes
  BY BoxOfLive
<1>2. CASE n \in Leaves
  BY <1>1, <1>2, BoxOfLive, OrderedPoint DEF BoxOf
<1>3. CASE n \notin Leaves
  <2>1. n \in Internals
    BY <1>3, LiveNode DEF TreeInv, WellFormed
  <2> QED
    BY <1>1, <1>3, <2>1 DEF BoxOf, BoxesOrdered
<1> QED
  BY <1>2, <1>3

LEMMA OrderedSame ==
  ASSUME BoxesOrdered, LiveNodes' = LiveNodes,
         \A n \in LiveNodes \cap Internals : node'[n].box = node[n].box
  PROVE  BoxesOrdered'
<1>1. \A n \in LiveNodes' \cap Internals : Ordered(node'[n].box)
  BY DEF BoxesOrdered
<1> QED
  BY <1>1 DEF BoxesOrdered, Ordered

LEMMA OrderedSplice ==
  ASSUME NEW cut, NEW n, NEW p, NEW x, NEW l, NEW i, Splicing(cut, n, p, x, l, i), BoxesOrdered
  PROVE  BoxesOrdered'
<1>0. /\ TreeInv /\ WellFormed /\ n \in LiveNodes /\ x \in Coords /\ l \notin Internals
  BY NodesFinite DEF Splicing, TreeInv
<1>1. \A b \in Boxes : Ordered(b) => Ordered(Extend(b, x))
  BY <1>0, OrderedPoint, OrderedMerged DEF Extend
<1>2. ASSUME NEW m \in LiveNodes \cap Internals
      PROVE  Ordered(node'[m].box)
  <2>1. node[m].box \in Boxes /\ Ordered(node[m].box)
    <3>1. m \notin Leaves
      BY <1>0, LiveNode DEF WellFormed
    <3> QED
      BY <1>0, <3>1, OrderedBoxOf DEF BoxOf
  <2>2. node'[m].box = IF m \in Up(n) THEN Extend(node[m].box, x) ELSE node[m].box
    BY SplicedOld
  <2> QED
    BY <1>1, <2>1, <2>2
<1>3. Ordered(node'[i].box)
  <2>1. node'[i].box = Extend(BoxOf(n), x)
    BY SplicedFields
  <2> QED
    BY <1>0, <1>1, <2>1, OrderedBoxOf
<1>4. \A m \in LiveNodes' \cap Internals : Ordered(node'[m].box)
  BY <1>0, <1>2, <1>3, SplicedLive
<1> QED
  BY <1>4 DEF BoxesOrdered, Ordered

LEMMA OrderedRegrown ==
  ASSUME TreeInv, BoxesOrdered, NEW n \in LiveNodes, NEW sibling \in LiveNodes,
         NEW nb, Regrown(n, sibling, nb)
  PROVE  \A a \in Up(n) : Ordered(nb[a])
<1>0. WellFormed
  BY DEF TreeInv
<1> DEFINE S == {a \in Up(n) : ~ Ordered(nb[a])}
<1>1. SUFFICES ASSUME S # {} PROVE FALSE
  OBVIOUS
<1>2. PICK a \in S : \E c \in Chain(n) \ S : c \in LiveNodes /\ node[c].parent = a
  <2>1. S \in SUBSET Up(n)
    OBVIOUS
  <2> HIDE DEF S
  <2> QED
    BY <1>0, <1>1, <2>1, Bottommost
<1>3. PICK c \in Chain(n) \ S : c \in LiveNodes /\ node[c].parent = a
  BY <1>2
<1>4. /\ a \in LiveNodes /\ a \in Internals /\ a # None
      /\ c = node[a].left \/ c = node[a].right
  <2>1. a \in LiveNodes /\ a \in Internals /\ a # None
    BY <1>0, <1>2, UpHeavier, TreeAssumption DEF LiveNodes
  <2> QED
    BY <1>0, <1>3, <2>1, ParentHeavier
<1>5. c = n \/ (nb[c] \in Boxes /\ Ordered(nb[c]))
  BY <1>3, RegrownBoxes DEF Chain
<1> PICK L : L = BoxOf(node[a].left)
  OBVIOUS
<1> PICK R : R = BoxOf(node[a].right)
  OBVIOUS
<1> PICK B : B = BoxOf(sibling)
  OBVIOUS
<1>6. /\ L \in Boxes /\ R \in Boxes /\ B \in Boxes
      /\ Ordered(L) /\ Ordered(R) /\ Ordered(B)
  BY <1>0, <1>4, Children, OrderedBoxOf
<1> PICK D : D = IF c = n THEN B ELSE nb[c]
  OBVIOUS
<1>7. D \in Boxes /\ Ordered(D)
  BY <1>5, <1>6
<1>8. nb[a] = Merged(R, D) \/ nb[a] = Merged(L, D)
  BY <1>2, <1>3, <1>4 DEF Regrown
<1>9. Ordered(nb[a])
  BY <1>6, <1>7, <1>8, OrderedMerged
<1> QED
  BY <1>2, <1>9

LEMMA OrderedDrop ==
  ASSUME NEW leaf, NEW parent, NEW sibling, NEW p, NEW nb, Dropping(leaf, parent, sibling, p, nb),
         BoxesOrdered
  PROVE  BoxesOrdered'
<1>1. TreeInv /\ parent \in LiveNodes /\ sibling \in LiveNodes
  BY DroppedNodes
<1>2. Regrown(parent, sibling, nb)
  BY DEF Dropping
<1>3. \A a \in Up(parent) : Ordered(nb[a])
  BY <1>1, <1>2, OrderedRegrown
<1>4. LiveNodes' = LiveNodes \ {leaf, parent}
  BY DroppedLive
<1>5. ASSUME NEW m \in LiveNodes' \cap Internals
      PROVE  Ordered(node'[m].box)
  <2>1. m \in LiveNodes /\ m # leaf /\ m # parent /\ m \in Internals
    BY <1>4
  <2>2. node'[m].box = IF m \in Up(parent) THEN nb[m] ELSE node[m].box
    BY <2>1, DroppedOld
  <2> QED
    BY <1>3, <2>1, <2>2 DEF BoxesOrdered
<1> QED
  BY <1>5 DEF BoxesOrdered, Ordered

LEMMA OrderedStep ==
  ASSUME TreeInv, BoxesOrdered, [Next]_vars
  PROVE  BoxesOrdered'
<1>0. WellFormed /\ TypeOK
  BY DEF TreeInv, WellFormed
<1>1. ASSUME node' = node
      PROVE  BoxesOrdered'
  BY <1>1 DEF BoxesOrdered, LiveNodes, IsLive, Ordered
<1>2. ASSUME NEW p \in Points, NEW x \in Coords, BeginAdd(p, x)
      PROVE  BoxesOrdered'
  <2>1. CASE root = None
    <3>1. NewLeaf \in Leaves /\ NewLeaf \notin Internals
      BY <1>0, <1>2, RoomForLeaf, NodesFinite DEF BeginAdd, Present
    <3>2. LiveNodes = {}
      BY <1>0, <2>1 DEF WellFormed, RootInv
    <3>3. \A n \in Nodes : n # NewLeaf => node'[n] = node[n]
      BY <1>0, <1>2, <2>1 DEF BeginAdd, TypeOK
    <3>4. LiveNodes' \cap Internals = {}
      BY <3>1, <3>2, <3>3 DEF LiveNodes, IsLive
    <3> QED
      BY <3>4 DEF BoxesOrdered
  <2>2. CASE root # None
    BY <1>1, <1>2, <2>2 DEF BeginAdd
  <2> QED
    BY <2>1, <2>2
<1>3. CASE Insertion
  <2>1. CASE Descend
    BY <1>1, <2>1 DEF Descend
  <2>2. ASSUME NEW cut, Splice(cut)
        PROVE  BoxesOrdered'
    BY <2>2, SpliceIsSplicing, OrderedSplice
  <2>3. CASE Absorb
    <3> PICK l : l = adding.at
      OBVIOUS
    <3> PICK q : q = node[l].point
      OBVIOUS
    <3>1. l \in LiveNodes /\ l \in Leaves /\ q \in Points /\ Weighed(l, 1, q)
      BY <2>3, AbsorbStep
    <3>2. node[l].mass + 1 > 0 /\ 1 \in Int
      BY <1>0, <3>1, LiveNode
    <3> QED
      BY <1>0, <3>1, <3>2, WeighedLive, WeighedNode, OrderedSame
  <2>4. CASE Refuse
    BY <1>1, <2>4 DEF Refuse
  <2> QED
    BY <1>3, <2>1, <2>2, <2>3, <2>4 DEF Insertion
<1>4. ASSUME NEW p \in Points, NEW heir \in Points, DropCopy(p, heir)
      PROVE  BoxesOrdered'
  <2> PICK l : l = leaf_index[p]
    OBVIOUS
  <2>1. /\ l \in LiveNodes /\ l \in Leaves /\ Weighed(l, -1, heir)
        /\ node[l].mass + (-1) > 0
    BY <1>4, DropCopyStep
  <2>2. -1 \in Int
    OBVIOUS
  <2> QED
    BY <1>0, <2>1, <2>2, WeighedLive, WeighedNode, OrderedSame
<1>5. ASSUME NEW p \in Points, DropLeaf(p)
      PROVE  BoxesOrdered'
  <2>1. CASE node[leaf_index[p]].parent = None
    <3>1. LiveNodes' = {}
      BY <1>5, <2>1, DropLastLeaf
    <3> QED
      BY <3>1 DEF BoxesOrdered
  <2>2. CASE node[leaf_index[p]].parent # None
    <3> PICK leaf : leaf = leaf_index[p]
      OBVIOUS
    <3> PICK parent : parent = node[leaf].parent
      OBVIOUS
    <3> PICK sibling : sibling = IF node[parent].left = leaf THEN node[parent].right
                                 ELSE node[parent].left
      OBVIOUS
    <3>1. PICK nb : Dropping(leaf, parent, sibling, p, nb)
      BY <1>5, <2>2, DropLeafIsDropping
    <3> QED
      BY <3>1, OrderedDrop
  <2> QED
    BY <2>1, <2>2
<1>6. CASE UNCHANGED vars
  BY <1>1, <1>6 DEF vars
<1> QED
  BY <1>2, <1>3, <1>4, <1>5, <1>6 DEF Next

THEOREM BoxesStayOrdered == Spec => [](TreeInv /\ BoxesOrdered)
<1>1. Init => TreeInv /\ BoxesOrdered
  <2>1. Init => LiveNodes = {}
    BY DEF Init, LiveNodes, IsLive
  <2> QED
    BY <2>1, InitTree DEF BoxesOrdered
<1>2. TreeInv /\ BoxesOrdered /\ [Next]_vars => TreeInv' /\ BoxesOrdered'
  BY TreeStep, OrderedStep
<1> QED
  BY <1>1, <1>2, PTL DEF Spec

------------------------------------------------------------------------------
(* The image of the tree is admitted, and what else is.                     *)

LEMMA ImageFields ==
  /\ Image.node = node /\ Image.root = root /\ Image.leaf_index = leaf_index
  /\ Image.distinct_count = Cardinality({p \in Points : leaf_index[p] # None})
  /\ Image.leaf_free = SetToSeq({n \in Leaves : ~IsLive(n)})
  /\ Image.internal_free = SetToSeq({n \in Internals : ~IsLive(n)})
BY DEF Image

\* The free slots of an arena are listed once each.
LEMMA FreeListed ==
  ASSUME NEW arena, arena = Leaves \/ arena = Internals,
         NEW free, free = SetToSeq({n \in arena : ~IsLive(n)})
  PROVE  /\ free \in Seq(arena) /\ FreeListHolds(Image, arena, free)
         /\ Cardinality(LiveNodes \cap arena) = Capacity - Len(free)
<1> DEFINE empty == {n \in arena : ~IsLive(n)}
<1>1. IsFiniteSet(arena) /\ Cardinality(arena) = Capacity /\ arena \subseteq Nodes
  BY NodesFinite DEF Nodes
<1>2. empty \in SUBSET arena /\ IsFiniteSet(empty)
  <2>1. empty \in SUBSET arena
    OBVIOUS
  <2> HIDE DEF empty
  <2> QED
    BY <1>1, <2>1, FS_Subset
<1>3. /\ free \in Seq(empty) /\ Range(free) = empty /\ Len(free) = Cardinality(empty)
      /\ \A i, j \in DOMAIN free : i # j => free[i] # free[j]
  <2> HIDE DEF empty
  <2>1. free = SetToSeq(empty)
    BY DEF empty
  <2> QED
    BY <1>2, <2>1, Enumerated
<1>4. free \in Seq(arena)
  <2> HIDE DEF empty
  <2> QED
    BY <1>2, <1>3
<1>5. FreeListHolds(Image, arena, free)
  BY <1>3, ImageFields DEF FreeListHolds, IsLive
<1>6. LiveNodes \cap arena = arena \ empty /\ arena \cap empty = empty
  BY <1>1 DEF LiveNodes
<1>7. Cardinality(arena \ empty) = Capacity - Len(free)
  <2> HIDE DEF empty
  <2> QED
    BY ZenonT(40), <1>1, <1>3, <1>6, FS_Difference
<1> QED
  BY <1>4, <1>5, <1>6, <1>7

LEMMA ImageAdmitted ==
  ASSUME TreeInv, BoxesOrdered
  PROVE  ImageTyped(Image) /\ ValidateRestored(Image)
<1>0. WellFormed /\ TypeOK
  BY DEF TreeInv, WellFormed
<1> USE ImageFields
<1>1. /\ TypedNodes(Image.node) /\ Image.root \in Nodes \cup {None}
      /\ ReachedIn(Image) = LiveNodes
  BY <1>0, TreeReached
<1>2. /\ Image.leaf_free \in Seq(Leaves) /\ FreeListHolds(Image, Leaves, Image.leaf_free)
      /\ Cardinality(LiveNodes \cap Leaves) = Capacity - Len(Image.leaf_free)
  BY FreeListed
<1>3. /\ Image.internal_free \in Seq(Internals)
      /\ FreeListHolds(Image, Internals, Image.internal_free)
      /\ Cardinality(LiveNodes \cap Internals) = Capacity - Len(Image.internal_free)
  BY FreeListed
<1>4. ImageTyped(Image)
  BY <1>0, <1>1, <1>2, <1>3 DEF ImageTyped, TypeOK
<1>5. \A n \in LiveNodes : LiveIn(Image, n)
  BY DEF LiveIn, LiveNodes, IsLive
<1>6. root # None => node[root].parent = None
  BY <1>0 DEF WellFormed, RootInv
<1>7. \A n \in LiveNodes \cap Internals :
        ChildrenIn(Image, n) = {node[n].left, node[n].right}
  BY <1>5 DEF ChildrenIn
<1>8. \A m \in LiveNodes : \A n \in LiveNodes :
        n \in ChildrenIn(Image, m) <=> node[n].parent = m
  <2> SUFFICES ASSUME NEW m \in LiveNodes, NEW n \in LiveNodes
               PROVE  n \in ChildrenIn(Image, m) <=> node[n].parent = m
    OBVIOUS
  <2>1. m # None
    BY TreeAssumption DEF LiveNodes
  <2>2. ASSUME n \in ChildrenIn(Image, m) PROVE node[n].parent = m
    <3>1. m \in Internals
      BY <2>2 DEF ChildrenIn
    <3> QED
      BY <1>0, <1>7, <2>2, <3>1, Children
  <2>3. ASSUME node[n].parent = m PROVE n \in ChildrenIn(Image, m)
    <3>1. m \in Internals /\ (n = node[m].left \/ n = node[m].right)
      BY <1>0, <2>1, <2>3, ParentHeavier
    <3> QED
      BY <1>7, <3>1
  <2> QED
    BY <2>2, <2>3
<1>9. ReachedOnce(Image, LiveNodes)
  <2> SUFFICES ASSUME NEW n \in LiveNodes
               PROVE  Cardinality({m \in LiveNodes : n \in ChildrenIn(Image, m)})
                        = (IF n = root THEN 0 ELSE 1)
    BY DEF ReachedOnce
  <2> PICK A : A = {m \in LiveNodes : n \in ChildrenIn(Image, m)}
    OBVIOUS
  <2>1. A = {m \in LiveNodes : node[n].parent = m}
    BY <1>8
  <2>2. CASE n = root
    <3>1. node[n].parent = None
      BY <1>6, <2>2, TreeAssumption DEF LiveNodes
    <3>2. A = {}
      BY <2>1, <3>1, TreeAssumption DEF LiveNodes
    <3> QED
      BY <2>2, <3>2, FS_EmptySet
  <2>3. CASE n # root
    <3>1. node[n].parent \in LiveNodes
      BY <1>0, <2>3, ParentHeavier DEF WellFormed, ParentInv
    <3>2. A = {node[n].parent}
      BY <2>1, <3>1
    <3> QED
      BY <2>3, <3>2, FS_Singleton
  <2> QED
    BY <2>2, <2>3
<1>10. ASSUME NEW n \in LiveNodes \cap Internals
       PROVE  ValidInternal(Image, n)
  <2>1. node[n].cut.dim \in Axes
    <3>1. node[n] \in InnerNode
      BY <1>0, LiveNode
    <3>2. node[n].cut \in [dim : Axes, value : Int]
      BY <3>1 DEF InnerNode
    <3> QED
      BY <3>2
  <2>2. \A d \in Axes : node[n].box.min[d] <= node[n].box.max[d]
    BY DEF BoxesOrdered, Ordered
  <2>3. NamesBack(Image, n)
    BY <1>0, <1>7, Children DEF NamesBack
  <2> QED
    BY <1>0, <2>1, <2>2, <2>3, Children DEF ValidInternal
<1>11. ASSUME NEW n \in LiveNodes \cap Leaves
       PROVE  ValidLeaf(Image, n)
  <2>1. node[n].mass > 0 /\ node[n].point \in Points
    <3>1. node[n] \in LeafNode /\ node[n].mass > 0
      BY <1>0, LiveNode
    <3> QED
      BY <3>1 DEF LeafNode
  <2>2. leaf_index[node[n].point] = n
    BY <1>0 DEF WellFormed, MassIsCount, Sharers
  <2> QED
    BY <2>1, <2>2 DEF ValidLeaf
<1>12. ValidReverseIndex(Image, LiveNodes)
  <2>1. \A p \in Points : leaf_index[p] # None => leaf_index[p] \in LiveNodes \cap Leaves
    BY <1>0 DEF WellFormed, TypeOK, Present, LiveNodes, Nodes
  <2>2. \A n \in LiveNodes \cap Leaves :
          node[n].mass = Cardinality({p \in Points : leaf_index[p] = n})
    BY <1>0 DEF WellFormed, MassIsCount, Sharers
  <2> QED
    BY <2>1, <2>2 DEF ValidReverseIndex
<1>13. ValidLayout(Image)
  BY <1>2, <1>3 DEF ValidLayout
<1>14. ValidateRestored(Image)
  BY <1>1, <1>2, <1>3, <1>5, <1>6, <1>9, <1>10, <1>11, <1>12, <1>13 DEF ValidateRestored
<1> QED
  BY <1>4, <1>14

\* A damaged image still says of each slot what a slot can hold.
LEMMA RecordsDamaged ==
  ASSUME NEW nd, TypedNodes(nd), NEW n \in Nodes, nd[n] # None,
         NEW rec, \/ \E m \in Parents : rec = [nd[n] EXCEPT !.parent = m]
                  \/ \E c \in Nodes : n \in Internals /\ rec = [nd[n] EXCEPT !.left = c]
                  \/ \E p \in Points : n \in Leaves /\ rec = [nd[n] EXCEPT !.point = p]
                  \/ rec = [nd[n] EXCEPT !.mass = nd[n].mass + 1]
  PROVE  TypedNodes([nd EXCEPT ![n] = rec])
<1>1. CASE n \in Leaves
  <2>1. nd[n] \in LeafNode /\ n \notin Internals
    BY <1>1, NodesFinite DEF TypedNodes
  <2>2. nd[n].mass + 1 \in Nat \ {0}
    BY <2>1 DEF LeafNode
  <2>3. rec \in LeafNode
    BY <2>1, <2>2 DEF LeafNode
  <2> QED
    BY <2>1, <2>3 DEF TypedNodes
<1>2. CASE n \in Internals
  <2>1. nd[n] \in InnerNode /\ n \notin Leaves
    BY <1>2, NodesFinite DEF TypedNodes
  <2>2. nd[n].mass + 1 \in Nat \ {0}
    BY <2>1 DEF InnerNode
  <2>3. rec \in InnerNode
    BY <2>1, <2>2 DEF InnerNode
  <2> QED
    BY <2>1, <2>3 DEF TypedNodes
<1> QED
  BY <1>1, <1>2 DEF Nodes

LEMMA DamagedTyped ==
  ASSUME TreeInv, BoxesOrdered, NEW img \in Damaged(Image)
  PROVE  ImageTyped(img)
<1> PICK im : im = Image
  OBVIOUS
<1>1. ImageTyped(im)
  BY ImageAdmitted
<1>2. im = [node |-> im.node, root |-> im.root, leaf_index |-> im.leaf_index,
            distinct_count |-> im.distinct_count, leaf_free |-> im.leaf_free,
            internal_free |-> im.internal_free]
  BY DEF Image
<1> PICK nd : nd = im.node
  OBVIOUS
<1> DEFINE live == {n \in Nodes : LiveIn(im, n)}
<1>3. live = {n \in Nodes : nd[n] # None}
  BY DEF LiveIn
<1>4. TypedNodes(nd)
  BY <1>1 DEF ImageTyped
<1>5. \/ \E r \in live \cup {None} : img = [im EXCEPT !.root = r]
      \/ \E n \in live \cap Internals, c \in Nodes : img = [im EXCEPT !.node[n].left = c]
      \/ \E n \in live, m \in (live \cap Internals) \cup {None} :
           img = [im EXCEPT !.node[n].parent = m]
      \/ \E n \in live \cap Internals, c \in live :
           img = Relinked(im, n, c)
      \/ \E n \in live : img = [im EXCEPT !.node[n].mass = @ + 1]
      \/ \E n \in live \cap Leaves, p \in Points : img = [im EXCEPT !.node[n].point = p]
      \/ \E p \in Points, n \in (live \cap Leaves) \cup {None} :
           img = [im EXCEPT !.leaf_index[p] = n]
      \/ \E n \in Leaves : img = [im EXCEPT !.leaf_free = Append(@, n)]
  <2> DEFINE roots    == {[im EXCEPT !.root = r] : r \in live \cup {None}}
             children == {[im EXCEPT !.node[n].left = c] : n \in live \cap Internals, c \in Nodes}
             parents  == {[im EXCEPT !.node[n].parent = m] :
                            n \in live, m \in (live \cap Internals) \cup {None}}
             links    == {Relinked(im, n, c) : n \in live \cap Internals, c \in live}
             masses   == {[im EXCEPT !.node[n].mass = @ + 1] : n \in live}
             points   == {[im EXCEPT !.node[n].point = p] : n \in live \cap Leaves, p \in Points}
             indices  == {[im EXCEPT !.leaf_index[p] = n] :
                            p \in Points, n \in (live \cap Leaves) \cup {None}}
             frees    == {[im EXCEPT !.leaf_free = Append(@, n)] : n \in Leaves}
  <2>1. Damaged(im) = roots \cup children \cup parents \cup links \cup masses \cup points
                        \cup indices \cup frees
    BY DEF Damaged
  <2>2. \/ img \in roots \/ img \in children \/ img \in parents \/ img \in links
        \/ img \in masses \/ img \in points \/ img \in indices \/ img \in frees
    <3> HIDE DEF roots, children, parents, links, masses, points, indices, frees
    <3> QED
      BY <2>1
  <2> HIDE DEF live
  <2>3. img \in roots => \E r \in live \cup {None} : img = [im EXCEPT !.root = r]
    OBVIOUS
  <2>4. img \in children =>
          \E n \in live \cap Internals, c \in Nodes : img = [im EXCEPT !.node[n].left = c]
    OBVIOUS
  <2>5. img \in parents => \E n \in live, m \in (live \cap Internals) \cup {None} :
          img = [im EXCEPT !.node[n].parent = m]
    OBVIOUS
  <2>6. img \in links => \E n \in live \cap Internals, c \in live :
          img = Relinked(im, n, c)
    OBVIOUS
  <2>7. img \in masses => \E n \in live : img = [im EXCEPT !.node[n].mass = @ + 1]
    OBVIOUS
  <2>8. img \in points =>
          \E n \in live \cap Leaves, p \in Points : img = [im EXCEPT !.node[n].point = p]
    OBVIOUS
  <2>9. img \in indices => \E p \in Points, n \in (live \cap Leaves) \cup {None} :
          img = [im EXCEPT !.leaf_index[p] = n]
    OBVIOUS
  <2>10. img \in frees => \E n \in Leaves : img = [im EXCEPT !.leaf_free = Append(@, n)]
    OBVIOUS
  <2> HIDE DEF roots, children, parents, links, masses, points, indices, frees
  <2> QED
    BY <2>2, <2>3, <2>4, <2>5, <2>6, <2>7, <2>8, <2>9, <2>10
<1>6. ASSUME NEW m, img = [im EXCEPT !.node = m], TypedNodes(m)
      PROVE  ImageTyped(img)
  <2>1. /\ img.node = m /\ img.root = im.root /\ img.leaf_index = im.leaf_index
        /\ img.leaf_free = im.leaf_free /\ img.internal_free = im.internal_free
    BY <1>2, <1>6
  <2> QED
    BY <1>1, <1>6, <2>1 DEF ImageTyped
<1>7. ASSUME NEW n \in live, NEW rec,
             \/ \E m \in Parents : rec = [nd[n] EXCEPT !.parent = m]
             \/ \E c \in Nodes : n \in Internals /\ rec = [nd[n] EXCEPT !.left = c]
             \/ \E p \in Points : n \in Leaves /\ rec = [nd[n] EXCEPT !.point = p]
             \/ rec = [nd[n] EXCEPT !.mass = nd[n].mass + 1]
      PROVE  TypedNodes([nd EXCEPT ![n] = rec])
  BY <1>3, <1>4, <1>7, RecordsDamaged
<1>8. CASE \E r \in live \cup {None} : img = [im EXCEPT !.root = r]
  <2>1. /\ img.node = im.node /\ img.root \in Nodes \cup {None}
        /\ img.leaf_index = im.leaf_index
        /\ img.leaf_free = im.leaf_free /\ img.internal_free = im.internal_free
    BY <1>2, <1>8
  <2> QED
    BY <1>1, <2>1 DEF ImageTyped
<1>9. CASE \E n \in live \cap Internals, c \in Nodes : img = [im EXCEPT !.node[n].left = c]
  <2>1. PICK n \in live \cap Internals, c \in Nodes : img = [im EXCEPT !.node[n].left = c]
    BY <1>9
  <2> DEFINE rec == [nd[n] EXCEPT !.left = c]
  <2>2. TypedNodes([nd EXCEPT ![n] = rec])
    BY <1>7
  <2>3. img = [im EXCEPT !.node = [nd EXCEPT ![n] = rec]]
    BY <2>1
  <2> QED
    BY <1>6, <2>2, <2>3
<1>10. CASE \E n \in live, m \in (live \cap Internals) \cup {None} :
              img = [im EXCEPT !.node[n].parent = m]
  <2>1. PICK n \in live, m \in (live \cap Internals) \cup {None} :
          img = [im EXCEPT !.node[n].parent = m]
    BY <1>10
  <2> DEFINE rec == [nd[n] EXCEPT !.parent = m]
  <2>2. TypedNodes([nd EXCEPT ![n] = rec])
    BY <1>7 DEF Parents
  <2>3. img = [im EXCEPT !.node = [nd EXCEPT ![n] = rec]]
    BY <2>1
  <2> QED
    BY <1>6, <2>2, <2>3
<1>11. CASE \E n \in live \cap Internals, c \in live :
              img = Relinked(im, n, c)
  <2>1. PICK n \in live \cap Internals, c \in live :
          img = Relinked(im, n, c)
    BY <1>11
  <2> DEFINE first == [nd[n] EXCEPT !.left = c]
             mid   == [nd EXCEPT ![n] = first]
             last  == [mid[c] EXCEPT !.parent = n]
             end   == [mid EXCEPT ![c] = last]
  <2>2. TypedNodes(mid)
    BY <1>7
  <2>3. mid[c] # None
    <3>1. CASE c = n
      <4>1. mid[c] \in InnerNode
        <5>1. nd[n] \in InnerNode
          BY <1>3, <1>4 DEF TypedNodes
        <5>2. first \in InnerNode
          BY <5>1 DEF InnerNode
        <5>3. mid[c] = first
          BY <1>4, <3>1 DEF TypedNodes
        <5> QED
          BY <5>2, <5>3
      <4> QED
        BY <4>1, TreeAssumption
    <3>2. CASE c # n
      BY <1>3, <1>4, <3>2 DEF TypedNodes
    <3> QED
      BY <3>1, <3>2
  <2>4. TypedNodes(end)
    <3>1. \E m \in Parents : last = [mid[c] EXCEPT !.parent = m]
      BY DEF Parents
    <3> HIDE DEF mid, last
    <3> QED
      BY <2>2, <2>3, <3>1, RecordsDamaged
  <2>5. img = [im EXCEPT !.node = end]
    BY <1>2, <2>1, ZenonT(40) DEF Relinked
  <2> HIDE DEF end
  <2> QED
    BY <1>6, <2>4, <2>5
<1>12. CASE \E n \in live : img = [im EXCEPT !.node[n].mass = @ + 1]
  <2>1. PICK n \in live : img = [im EXCEPT !.node[n].mass = @ + 1]
    BY <1>12
  <2> DEFINE rec == [nd[n] EXCEPT !.mass = nd[n].mass + 1]
  <2>2. TypedNodes([nd EXCEPT ![n] = rec])
    BY <1>7
  <2>3. img = [im EXCEPT !.node = [nd EXCEPT ![n] = rec]]
    BY <2>1
  <2> QED
    BY <1>6, <2>2, <2>3
<1>13. CASE \E n \in live \cap Leaves, p \in Points : img = [im EXCEPT !.node[n].point = p]
  <2>1. PICK n \in live \cap Leaves, p \in Points : img = [im EXCEPT !.node[n].point = p]
    BY <1>13
  <2> DEFINE rec == [nd[n] EXCEPT !.point = p]
  <2>2. TypedNodes([nd EXCEPT ![n] = rec])
    BY <1>7
  <2>3. img = [im EXCEPT !.node = [nd EXCEPT ![n] = rec]]
    BY <2>1
  <2> QED
    BY <1>6, <2>2, <2>3
<1>14. CASE \E p \in Points, n \in (live \cap Leaves) \cup {None} :
              img = [im EXCEPT !.leaf_index[p] = n]
  <2>1. PICK p \in Points, n \in (live \cap Leaves) \cup {None} :
          img = [im EXCEPT !.leaf_index[p] = n]
    BY <1>14
  <2>2. /\ img.node = im.node /\ img.root = im.root
        /\ img.leaf_index = [im.leaf_index EXCEPT ![p] = n]
        /\ img.leaf_free = im.leaf_free /\ img.internal_free = im.internal_free
    BY <1>2, <2>1
  <2>3. img.leaf_index \in [Points -> Leaves \cup {None}]
    BY <1>1, <2>2 DEF ImageTyped
  <2> QED
    BY <1>1, <2>2, <2>3 DEF ImageTyped
<1>15. CASE \E n \in Leaves : img = [im EXCEPT !.leaf_free = Append(@, n)]
  <2>1. PICK n \in Leaves : img = [im EXCEPT !.leaf_free = Append(@, n)]
    BY <1>15
  <2>2. /\ img.node = im.node /\ img.root = im.root /\ img.leaf_index = im.leaf_index
        /\ img.leaf_free = Append(im.leaf_free, n) /\ img.internal_free = im.internal_free
    BY <1>2, <2>1
  <2>3. img.leaf_free \in Seq(Leaves)
    BY <1>1, <2>2 DEF ImageTyped
  <2> QED
    BY <1>1, <2>2, <2>3 DEF ImageTyped
<1> QED
  BY <1>5, <1>8, <1>9, <1>10, <1>11, <1>12, <1>13, <1>14, <1>15

\* A snapshot of a tree taken between calls is admitted, and of an image with one
\* thing wrong no more is admitted than what is safe to walk, whatever the size.
THEOREM SnapshotsAdmitTrees == Spec => []AdmitsExactlyTrees
<1>1. TreeInv /\ BoxesOrdered => AdmitsExactlyTrees
  <2> SUFFICES ASSUME TreeInv, BoxesOrdered PROVE AdmitsExactlyTrees
    OBVIOUS
  <2>1. ValidateRestored(Image)
    BY ImageAdmitted
  <2>2. ASSUME NEW img \in Damaged(Image), ValidateRestored(img)
        PROVE  SafeToWalk(img)
    BY <2>2, DamagedTyped, AdmittedIsLinked, LinkedIsSafe
  <2> QED
    BY <2>1, <2>2 DEF AdmitsExactlyTrees
<1> QED
  BY <1>1, BoxesStayOrdered, PTL

------------------------------------------------------------------------------
(* Ratios of naturals, compared by cross products.                          *)

Ratios == Nat \X (Nat \ {0})

LEMMA RatioTotal ==
  ASSUME NEW a \in Ratios, NEW b \in Ratios
  PROVE  AtMost(a, b) \/ AtMost(b, a)
<1> PICK m : m = a[1] * b[2]
  OBVIOUS
<1> PICK n : n = b[1] * a[2]
  OBVIOUS
<1>1. a[1] \in Nat /\ a[2] \in Nat /\ b[1] \in Nat /\ b[2] \in Nat
  BY DEF Ratios
<1>2. m \in Nat /\ n \in Nat
  BY <1>1
<1> QED
  BY <1>2 DEF AtMost

LEMMA ProductMonotone ==
  ASSUME NEW i \in Nat, NEW j \in Nat, NEW k \in Nat
  PROVE  /\ i <= j => i * k <= j * k
         /\ i * k <= j * k /\ k > 0 => i <= j
<1>1. ASSUME i <= j PROVE i * k <= j * k
  <2>1. (j - i) \in Nat /\ j = i + (j - i)
    BY <1>1
  <2>2. (j - i) * k \in Nat /\ i * k \in Nat
    BY <2>1
  <2>3. j * k = i * k + (j - i) * k
    BY <2>1
  <2> QED
    BY <2>2, <2>3
<1>2. ASSUME i * k <= j * k, k > 0, ~ (i <= j)
      PROVE  FALSE
  <2>1. (i - j) - 1 \in Nat /\ i = j + ((i - j) - 1) + 1
    BY <1>2
  <2>2. ((i - j) - 1) * k \in Nat /\ j * k \in Nat
    BY <2>1
  <2>3. i * k = j * k + ((i - j) - 1) * k + k
    BY <2>1
  <2> QED
    BY <1>2, <2>2, <2>3
<1> QED
  BY <1>1, <1>2

LEMMA RatioTransitive ==
  ASSUME NEW a \in Ratios, NEW b \in Ratios, NEW c \in Ratios, AtMost(a, b), AtMost(b, c)
  PROVE  AtMost(a, c)
<1> PICK a1, a2 : a1 = a[1] /\ a2 = a[2]
  OBVIOUS
<1> PICK b1, b2 : b1 = b[1] /\ b2 = b[2]
  OBVIOUS
<1> PICK c1, c2 : c1 = c[1] /\ c2 = c[2]
  OBVIOUS
<1>1. /\ a1 \in Nat /\ a2 \in Nat /\ b1 \in Nat /\ b2 \in Nat /\ b2 > 0
      /\ c1 \in Nat /\ c2 \in Nat
  BY DEF Ratios
<1>2. a1 * b2 <= b1 * a2 /\ b1 * c2 <= c1 * b2
  BY DEF AtMost
<1>3. /\ a1 * b2 \in Nat /\ b1 * a2 \in Nat /\ b1 * c2 \in Nat /\ c1 * b2 \in Nat
      /\ a1 * c2 \in Nat /\ c1 * a2 \in Nat
  BY <1>1
<1>4. (a1 * b2) * c2 <= (b1 * a2) * c2
  BY <1>1, <1>2, <1>3, ProductMonotone
<1>5. (b1 * c2) * a2 <= (c1 * b2) * a2
  BY <1>1, <1>2, <1>3, ProductMonotone
<1>6. /\ (a1 * b2) * c2 = (a1 * c2) * b2 /\ (b1 * a2) * c2 = (b1 * c2) * a2
      /\ (c1 * b2) * a2 = (c1 * a2) * b2
  BY <1>1
<1>7. (a1 * c2) * b2 \in Nat /\ (b1 * c2) * a2 \in Nat /\ (c1 * a2) * b2 \in Nat
  BY <1>1, <1>3
<1>8. (a1 * c2) * b2 <= (c1 * a2) * b2
  BY <1>4, <1>5, <1>6, <1>7
<1>9. a1 * c2 <= c1 * a2
  BY <1>1, <1>3, <1>8, ProductMonotone
<1> QED
  BY <1>9 DEF AtMost

\* The larger of two ratios is one of them, and neither exceeds it.
LEMMA LargerIs ==
  ASSUME NEW a \in Ratios, NEW b \in Ratios
  PROVE  /\ Larger(a, b) \in {a, b} /\ Larger(a, b) \in Ratios
         /\ AtMost(a, Larger(a, b)) /\ AtMost(b, Larger(a, b))
<1>1. AtMost(a, a) /\ AtMost(b, b)
  BY RatioTotal
<1> QED
  BY <1>1, RatioTotal DEF Larger

------------------------------------------------------------------------------
(* The points below a node.                                                 *)

LEMMA BelowParts ==
  ASSUME WellFormed, NEW n \in LiveNodes
  PROVE  /\ IsFiniteSet(Below(n))
         /\ n \in Leaves => Below(n) = Sharers(n)
         /\ n \in Internals =>
              /\ Below(n) = Below(node[n].left) \cup Below(node[n].right)
              /\ Below(node[n].left) \cap Below(node[n].right) = {}
<1>1. IsFiniteSet(Below(n))
  <2>1. Below(n) \in SUBSET Points
    BY DEF Below
  <2> QED
    BY <2>1, FS_Subset, TreeAssumption
<1>2. \A p \in Points : Present(p) => leaf_index[p] \in LiveNodes /\ leaf_index[p] \in Leaves
  BY DEF WellFormed, TypeOK, Present, LiveNodes, Nodes
<1>3. \A m : Below(m) = {p \in Points : Present(p) /\ m \in Chain(leaf_index[p])}
  BY DEF Below, Chain, Up
<1>4. ASSUME n \in Leaves
      PROVE  Below(n) = Sharers(n)
  <2>1. n \notin Internals /\ n # None
    BY <1>4, NodesFinite, TreeAssumption DEF LiveNodes
  <2>2. \A p \in Points : Present(p) => (n \in Chain(leaf_index[p]) <=> leaf_index[p] = n)
    BY <1>2, <2>1, UpHeavier DEF Chain
  <2> QED
    BY <1>3, <2>1, <2>2 DEF Sharers, Present
<1>5. ASSUME n \in Internals
      PROVE  /\ Below(n) = Below(node[n].left) \cup Below(node[n].right)
             /\ Below(node[n].left) \cap Below(node[n].right) = {}
  <2>1. n \notin Leaves
    BY <1>5, NodesFinite
  <2>2. ASSUME NEW p \in Points, Present(p)
        PROVE  /\ n \in Chain(leaf_index[p]) <=>
                    node[n].left \in Chain(leaf_index[p]) \/ node[n].right \in Chain(leaf_index[p])
               /\ ~ (node[n].left \in Chain(leaf_index[p]) /\ node[n].right \in Chain(leaf_index[p]))
    <3>1. n \in Chain(leaf_index[p]) <=> n \in Up(leaf_index[p])
      BY <1>2, <2>1, <2>2 DEF Chain
    <3> QED
      BY <1>2, <1>5, <2>2, <3>1, OneChild
  <2> QED
    BY <1>3, <2>2
<1> QED
  BY <1>1, <1>4, <1>5

\* Masses count the points below.
LEMMA BelowCounts ==
  ASSUME WellFormed, NEW n \in LiveNodes
  PROVE  Cardinality(Below(n)) = node[n].mass
<1> DEFINE S == {m \in LiveNodes : Cardinality(Below(m)) # node[m].mass}
<1>1. S = {}
  <2> SUFFICES ASSUME S # {} PROVE FALSE
    OBVIOUS
  <2>1. PICK m \in S : m \in Internals =>
          node[m].left \in LiveNodes \ S /\ node[m].right \in LiveNodes \ S
    <3>1. S \in SUBSET LiveNodes
      OBVIOUS
    <3> HIDE DEF S
    <3> QED
      BY <3>1, Lightest
  <2>2. CASE m \in Leaves
    BY <2>1, <2>2, BelowParts DEF WellFormed, MassIsCount
  <2>3. CASE m \in Internals
    <3> PICK L : L = Below(node[m].left)
      OBVIOUS
    <3> PICK R : R = Below(node[m].right)
      OBVIOUS
    <3>1. /\ Cardinality(L) = node[node[m].left].mass /\ IsFiniteSet(L)
          /\ Cardinality(R) = node[node[m].right].mass /\ IsFiniteSet(R)
      BY <2>1, <2>3, BelowParts
    <3>2. Below(m) = L \cup R /\ L \cap R = {}
      BY <2>1, <2>3, BelowParts
    <3>3. Cardinality(L \cup R) = Cardinality(L) + Cardinality(R) - Cardinality({})
      BY <3>1, <3>2, FS_Union
    <3>4. Cardinality({}) = 0 /\ Cardinality(L) \in Nat /\ Cardinality(R) \in Nat
      BY <3>1, FS_EmptySet, FS_CardinalityType
    <3>5. node[m].mass = node[node[m].left].mass + node[node[m].right].mass
      BY <2>1, <2>3, Children
    <3>6. Cardinality(L \cup R) = Cardinality(L) + Cardinality(R)
      BY <3>2, <3>3, <3>4
    <3>7. Cardinality(Below(m)) = node[m].mass
      BY <3>1, <3>2, <3>5, <3>6
    <3> QED
      BY <2>1, <3>7
  <2> QED
    BY <2>1, <2>2, <2>3, LiveNode DEF WellFormed
<1> QED
  BY <1>1

\* The nodes above a node above are above.
LEMMA ChainClosed ==
  ASSUME WellFormed, NEW n \in LiveNodes, NEW m \in Chain(n)
  PROVE  m \in LiveNodes /\ Chain(m) \subseteq Chain(n)
<1> DEFINE S == {k \in LiveNodes : ~ \A c \in Chain(k) : Chain(c) \subseteq Chain(k)}
<1>1. S = {}
  <2> SUFFICES ASSUME S # {} PROVE FALSE
    OBVIOUS
  <2>1. PICK k \in S : node[k].parent = None \/ node[k].parent \notin S
    <3>1. S \in SUBSET LiveNodes
      OBVIOUS
    <3> HIDE DEF S
    <3> QED
      BY <3>1, Topmost
  <2>2. CASE node[k].parent = None
    BY <2>1, <2>2, UpIs DEF Chain
  <2>3. CASE node[k].parent # None
    <3>1. node[k].parent \in LiveNodes
      BY <2>1, <2>3, ParentHeavier
    <3>2. Chain(k) = {k} \cup Chain(node[k].parent)
      BY <2>1, <2>3, UpIs DEF Chain
    <3> QED
      BY <2>1, <2>3, <3>1, <3>2
  <2> QED
    BY <2>2, <2>3
<1> QED
  BY <1>1, UpHeavier DEF Chain

------------------------------------------------------------------------------
(* Walks up and down.                                                       *)

\* A recursion down the cuts: base at a leaf, above one what the step G makes of
\* the next node's.
Downward(base, G, x, f) ==
  [n \in Nodes |-> IF n \in Leaves \/ ~IsLive(n) THEN base[n] ELSE G[n][f[Routed(n, x)]]]

Answers(V)  == [Nodes -> V]
Advances(V) == [Nodes -> [V -> V]]

DownTo(V, base, G, x, f, r) ==
  /\ f \in [Nodes -> V]
  /\ \A n \in LiveNodes : Height(n) < r => f[n] = Downward(base, G, x, f)[n]

LEMMA DownwardFurther ==
  ASSUME WellFormed, NEW V, NEW base \in Answers(V), NEW G \in Advances(V),
         NEW x, NEW f, NEW r \in Nat, DownTo(V, base, G, x, f, r)
  PROVE  DownTo(V, base, G, x, Downward(base, G, x, f), r + 1)
<1> USE DEF Answers, Advances
<1> PICK g : g = Downward(base, G, x, f)
  OBVIOUS
<1>1. \A n \in Nodes :
        g[n] = IF n \in Leaves \/ ~IsLive(n) THEN base[n] ELSE G[n][f[Routed(n, x)]]
  BY DEF Downward
<1>2. \A n \in Nodes :
        Downward(base, G, x, g)[n] =
          IF n \in Leaves \/ ~IsLive(n) THEN base[n] ELSE G[n][g[Routed(n, x)]]
  BY DEF Downward
<1>3. \A n \in Nodes : n \notin Leaves /\ IsLive(n) =>
        /\ Routed(n, x) \in LiveNodes /\ Routed(n, x) \in Nodes /\ n \in LiveNodes
        /\ node[Routed(n, x)].mass < node[n].mass
  BY RoutedLive DEF LiveNodes, Nodes
<1>4. g \in [Nodes -> V]
  <2>1. \A n \in Nodes : f[n] \in V
    BY DEF DownTo
  <2>2. ASSUME NEW n \in Nodes
        PROVE  (IF n \in Leaves \/ ~IsLive(n) THEN base[n] ELSE G[n][f[Routed(n, x)]]) \in V
    BY <1>3, <2>1
  <2> QED
    BY <2>2 DEF Downward
<1>5. ASSUME NEW n \in LiveNodes, Height(n) < r + 1
      PROVE  g[n] = Downward(base, G, x, g)[n]
  <2>1. n \in Nodes /\ IsLive(n)
    BY DEF LiveNodes
  <2>2. CASE n \in Leaves
    BY <1>1, <1>2, <2>1, <2>2
  <2>3. CASE n \notin Leaves
    <3> PICK c : c = Routed(n, x)
      OBVIOUS
    <3>1. c \in LiveNodes /\ Height(n) \in Nat /\ Height(c) \in Nat /\ Height(c) < Height(n)
      BY <1>3, <2>1, <2>3, HeightFalls
    <3>2. Height(c) < r
      BY <1>5, <3>1
    <3>3. f[c] = g[c]
      BY <3>1, <3>2 DEF DownTo
    <3> QED
      BY <1>1, <1>2, <2>1, <2>3, <3>3
  <2> QED
    BY <2>2, <2>3
<1> QED
  BY <1>4, <1>5 DEF DownTo

LEMMA DownwardExists ==
  ASSUME WellFormed, NEW V, NEW base \in Answers(V), NEW G \in Advances(V), NEW x
  PROVE  \E f \in Answers(V) : f = Downward(base, G, x, f)
<1> USE DEF Answers, Advances
<1> DEFINE Bad == {r \in Nat : ~ \E f : DownTo(V, base, G, x, f, r)}
<1>1. IsFiniteSet(LiveNodes) /\ Cardinality(LiveNodes) \in Nat
  BY NodesFinite, FS_Subset, FS_CardinalityType DEF LiveNodes
<1>2. \A n \in LiveNodes : Height(n) \in Nat /\ Height(n) < Cardinality(LiveNodes) + 1
  <2>1. \A n \in LiveNodes : Lighter(n) \in SUBSET LiveNodes
    BY DEF Lighter
  <2> QED
    BY <1>1, <2>1, FS_Subset, FS_CardinalityType DEF Height
<1>3. Bad = {}
  <2> SUFFICES ASSUME Bad # {} PROVE FALSE
    OBVIOUS
  <2>1. PICK r \in Bad : \A y \in Bad : ~ (<<y, r>> \in OpToRel(<, Nat))
    <3>1. Bad \subseteq Nat
      OBVIOUS
    <3> HIDE DEF Bad
    <3> QED
      BY <3>1, WFMin, NatLessThanWellFounded
  <2>2. \A y \in Bad : ~ (y < r)
    BY <2>1 DEF OpToRel
  <2>3. r # 0
    <3>1. \A n \in LiveNodes : ~ (Height(n) < 0)
      BY <1>2
    <3>2. DownTo(V, base, G, x, base, 0)
      BY <3>1 DEF DownTo
    <3> QED
      BY <3>2
  <2>4. r - 1 \in Nat /\ r - 1 \notin Bad /\ (r - 1) + 1 = r
    BY <2>2, <2>3
  <2>5. PICK g : DownTo(V, base, G, x, g, r - 1)
    BY <2>4
  <2>6. DownTo(V, base, G, x, Downward(base, G, x, g), (r - 1) + 1)
    BY <2>4, <2>5, DownwardFurther
  <2>7. DownTo(V, base, G, x, Downward(base, G, x, g), r)
    BY <2>4, <2>6
  <2> QED
    BY <2>7
<1>4. PICK g : DownTo(V, base, G, x, g, Cardinality(LiveNodes) + 1)
  <2>1. Cardinality(LiveNodes) + 1 \in Nat
    BY <1>1
  <2> QED
    BY <1>3, <2>1
<1> PICK h : h = Downward(base, G, x, g)
  OBVIOUS
<1>5. \A n \in LiveNodes : g[n] = h[n]
  BY <1>2, <1>4 DEF DownTo
<1>6. ASSUME NEW n \in Nodes
      PROVE  /\ h[n] \in V
             /\ h[n] = IF n \in Leaves \/ ~IsLive(n) THEN base[n] ELSE G[n][h[Routed(n, x)]]
  <2>1. h[n] = IF n \in Leaves \/ ~IsLive(n) THEN base[n] ELSE G[n][g[Routed(n, x)]]
    BY DEF Downward
  <2>2. CASE n \in Leaves \/ ~IsLive(n)
    BY <2>1, <2>2
  <2>3. CASE n \notin Leaves /\ IsLive(n)
    <3>1. Routed(n, x) \in LiveNodes /\ Routed(n, x) \in Nodes
      BY <2>3, RoutedLive DEF LiveNodes, Nodes
    <3>2. g[Routed(n, x)] = h[Routed(n, x)] /\ g[Routed(n, x)] \in V
      BY <1>4, <1>5, <3>1 DEF DownTo
    <3> QED
      BY <2>1, <2>3, <3>2
  <2> QED
    BY <2>2, <2>3
<1>7. h = [n \in Nodes |-> h[n]]
  BY DEF Downward
<1>8. h \in [Nodes -> V]
  BY <1>6, <1>7
<1>9. h = Downward(base, G, x, h)
  BY <1>6, <1>7 DEF Downward
<1> QED
  BY <1>8, <1>9

\* What a subtree displaces is a ratio, counted over masses or over points.
LEMMA DisplacedPoints ==
  ASSUME WellFormed, NEW n \in LiveNodes, node[n].parent # None
  PROVE  /\ Displacement(n) \in Ratios /\ SiblingOf(n) \in LiveNodes
         /\ Displacement(n) = <<Cardinality(Below(SiblingOf(n))), Cardinality(Below(n))>>
<1> PICK a : a = node[n].parent
  OBVIOUS
<1>1. /\ a \in LiveNodes /\ a \in Internals
      /\ n = node[a].left \/ n = node[a].right
  BY ParentHeavier
<1>2. node[a].left \in LiveNodes /\ node[a].right \in LiveNodes
  BY <1>1, Children
<1>3. SiblingOf(n) \in LiveNodes
  BY <1>1, <1>2 DEF SiblingOf
<1>4. /\ node[n].mass \in Nat /\ node[n].mass > 0
      /\ node[SiblingOf(n)].mass \in Nat
  BY <1>3, LiveNode DEF WellFormed
<1>5. Displacement(n) = <<node[SiblingOf(n)].mass, node[n].mass>>
  BY DEF Displacement, MassOf
<1>6. Displacement(n) \in Ratios
  BY <1>4, <1>5 DEF Ratios
<1>7. /\ Cardinality(Below(n)) = node[n].mass
      /\ Cardinality(Below(SiblingOf(n))) = node[SiblingOf(n)].mass
  BY <1>3, BelowCounts
<1> QED
  BY <1>3, <1>5, <1>6, <1>7

\* The walk down from a node.
LEMMA CodispDownIs ==
  ASSUME WellFormed, NEW x
  PROVE  \A n \in LiveNodes :
           /\ CodispDown(x)[n] \in Ratios
           /\ n \in Leaves => CodispDown(x)[n] = <<0, 1>>
           /\ n \in Internals =>
                CodispDown(x)[n] = Larger(Displacement(Routed(n, x)), CodispDown(x)[Routed(n, x)])
<1> DEFINE base == [n \in Nodes |-> <<0, 1>>]
           G == [n \in Nodes |-> [v \in Ratios |->
                   IF n \in LiveNodes \cap Internals THEN Larger(Displacement(Routed(n, x)), v)
                   ELSE <<0, 1>>]]
           Step(f) == [n \in Nodes |->
                         IF n \in Leaves \/ ~IsLive(n) THEN <<0, 1>>
                         ELSE Larger(Displacement(Routed(n, x)), f[Routed(n, x)])]
<1>1. <<0, 1>> \in Ratios
  BY DEF Ratios
<1>2. base \in Answers(Ratios)
  BY <1>1 DEF Answers
<1>3. ASSUME NEW n \in LiveNodes, n \in Internals
      PROVE  /\ Displacement(Routed(n, x)) \in Ratios /\ Routed(n, x) \in LiveNodes
             /\ Routed(n, x) \in Nodes
  <2>1. /\ Routed(n, x) \in LiveNodes /\ Routed(n, x) \in Nodes
        /\ node[Routed(n, x)].parent = n /\ n # None
    BY <1>3, RoutedLive, TreeAssumption DEF LiveNodes
  <2> QED
    BY <2>1, DisplacedPoints
<1>4. G \in Advances(Ratios)
  <2>1. ASSUME NEW n \in Nodes, NEW v \in Ratios
        PROVE  (IF n \in LiveNodes \cap Internals THEN Larger(Displacement(Routed(n, x)), v)
                ELSE <<0, 1>>) \in Ratios
    BY <1>1, <1>3, LargerIs
  <2> QED
    BY <2>1 DEF Advances
<1>5. PICK f \in Answers(Ratios) : f = Downward(base, G, x, f)
  <2> HIDE DEF base, G
  <2> QED
    BY <1>2, <1>4, DownwardExists
<1>6. \A n \in Nodes : IsLive(n) /\ n \notin Leaves => n \in LiveNodes \cap Internals
  BY DEF LiveNodes, Nodes
<1>7. ASSUME NEW n \in Nodes
      PROVE  f[n] = IF n \in Leaves \/ ~IsLive(n) THEN <<0, 1>>
                    ELSE Larger(Displacement(Routed(n, x)), f[Routed(n, x)])
  <2>1. f[n] = IF n \in Leaves \/ ~IsLive(n) THEN base[n] ELSE G[n][f[Routed(n, x)]]
    <3> HIDE DEF base, G
    <3> QED
      BY <1>5 DEF Downward
  <2>2. base[n] = <<0, 1>>
    OBVIOUS
  <2>3. ASSUME IsLive(n), n \notin Leaves
        PROVE  G[n][f[Routed(n, x)]] = Larger(Displacement(Routed(n, x)), f[Routed(n, x)])
    <3>1. n \in LiveNodes \cap Internals /\ f[Routed(n, x)] \in Ratios
      BY <1>3, <1>5, <1>6, <2>3 DEF Answers
    <3> QED
      BY <3>1
  <2> HIDE DEF base, G
  <2> QED
    BY <2>1, <2>2, <2>3
<1>8. f = Step(f)
  BY <1>5, <1>7 DEF Answers
<1>9. PICK g : g = CodispDown(x) /\ g = Step(g)
  <2>1. CodispDown(x) = CHOOSE g : g = Step(g)
    BY DEF CodispDown
  <2> QED
    BY <1>8, <2>1
<1>10. \A n \in Nodes : g[n] = IF n \in Leaves \/ ~IsLive(n) THEN <<0, 1>>
                               ELSE Larger(Displacement(Routed(n, x)), g[Routed(n, x)])
  <2>1. \A n \in Nodes : Step(g)[n] = IF n \in Leaves \/ ~IsLive(n) THEN <<0, 1>>
                               ELSE Larger(Displacement(Routed(n, x)), g[Routed(n, x)])
    OBVIOUS
  <2> HIDE DEF Step
  <2> QED
    BY <1>9, <2>1
<1> HIDE DEF Step, base, G
<1>11. /\ \A n \in LiveNodes : n \in Leaves => g[n] = <<0, 1>>
       /\ \A n \in LiveNodes : n \in Internals =>
            g[n] = Larger(Displacement(Routed(n, x)), g[Routed(n, x)])
  BY <1>10, NodesFinite DEF LiveNodes
<1> DEFINE S == {n \in LiveNodes : g[n] \notin Ratios}
<1>12. S = {}
  <2> SUFFICES ASSUME S # {} PROVE FALSE
    OBVIOUS
  <2>1. PICK m \in S : m \in Internals =>
          node[m].left \in LiveNodes \ S /\ node[m].right \in LiveNodes \ S
    <3>1. S \in SUBSET LiveNodes
      OBVIOUS
    <3> HIDE DEF S
    <3> QED
      BY <3>1, Lightest
  <2>2. CASE m \in Leaves
    BY <1>1, <1>11, <2>1, <2>2
  <2>3. CASE m \in Internals
    <3>1. g[Routed(m, x)] \in Ratios
      BY <2>1, <2>3 DEF Routed
    <3>2. Displacement(Routed(m, x)) \in Ratios
      BY <1>3, <2>1, <2>3
    <3> QED
      BY <1>11, <2>1, <2>3, <3>1, <3>2, LargerIs
  <2> QED
    BY <2>1, <2>2, <2>3, LiveNode DEF WellFormed
<1> QED
  BY <1>9, <1>11, <1>12

\* One step of the recursion up the parents.
Displaced(f) ==
  [n \in Nodes |-> IF ~IsLive(n) \/ node[n].parent = None THEN <<0, 1>>
                   ELSE Larger(Displacement(n), f[node[n].parent])]

DisplacedFrom(f, r) == \A n \in LiveNodes : Depth(n) < r => f[n] = Displaced(f)[n]

LEMMA DisplacedFurther ==
  ASSUME WellFormed, NEW f, NEW r \in Nat, DisplacedFrom(f, r)
  PROVE  DisplacedFrom(Displaced(f), r + 1)
<1> PICK g : g = Displaced(f)
  OBVIOUS
<1> SUFFICES ASSUME NEW n \in LiveNodes, Depth(n) < r + 1
             PROVE  g[n] = Displaced(g)[n]
  BY DEF DisplacedFrom
<1>1. \A m \in LiveNodes :
        /\ g[m] = IF node[m].parent = None THEN <<0, 1>>
                  ELSE Larger(Displacement(m), f[node[m].parent])
        /\ Displaced(g)[m] = IF node[m].parent = None THEN <<0, 1>>
                             ELSE Larger(Displacement(m), g[node[m].parent])
  BY DEF Displaced, LiveNodes
<1>2. ASSUME node[n].parent # None
      PROVE  f[node[n].parent] = g[node[n].parent]
  <2> PICK a : a = node[n].parent
    OBVIOUS
  <2>1. a \in LiveNodes /\ Depth(a) \in Nat /\ Depth(n) \in Nat /\ Depth(a) < Depth(n)
    BY <1>2, DepthFalls, ParentHeavier
  <2>2. Depth(a) < r
    BY <2>1
  <2> QED
    BY <2>1, <2>2 DEF DisplacedFrom
<1> QED
  BY <1>1, <1>2

\* The walk up from a node.
LEMMA CodispUpIs ==
  ASSUME WellFormed
  PROVE  \A n \in LiveNodes :
           CodispUp[n] = IF node[n].parent = None THEN <<0, 1>>
                         ELSE Larger(Displacement(n), CodispUp[node[n].parent])
<1> DEFINE Bad == {r \in Nat : ~ \E f : DisplacedFrom(f, r)}
<1>1. IsFiniteSet(LiveNodes) /\ Cardinality(LiveNodes) \in Nat
  BY NodesFinite, FS_Subset, FS_CardinalityType DEF LiveNodes
<1>2. \A n \in LiveNodes : Depth(n) \in Nat /\ Depth(n) < Cardinality(LiveNodes) + 1
  <2>1. \A n \in LiveNodes : Heavier(n) \in SUBSET LiveNodes
    BY DEF Heavier
  <2>2. \A n \in LiveNodes : Cardinality(Heavier(n)) <= Cardinality(LiveNodes)
    BY <1>1, <2>1, FS_Subset
  <2> QED
    BY <1>1, <2>2, DepthFalls DEF Depth
<1>3. Bad = {}
  <2> SUFFICES ASSUME Bad # {} PROVE FALSE
    OBVIOUS
  <2>1. PICK r \in Bad : \A y \in Bad : ~ (<<y, r>> \in OpToRel(<, Nat))
    <3>1. Bad \subseteq Nat
      OBVIOUS
    <3> HIDE DEF Bad
    <3> QED
      BY <3>1, WFMin, NatLessThanWellFounded
  <2>2. \A y \in Bad : ~ (y < r)
    BY <2>1 DEF OpToRel
  <2>3. r # 0
    <3>1. \A n \in LiveNodes : ~ (Depth(n) < 0)
      BY <1>2
    <3>2. DisplacedFrom(<<>>, 0)
      BY <3>1 DEF DisplacedFrom
    <3> QED
      BY <3>2
  <2>4. r - 1 \in Nat /\ r - 1 \notin Bad /\ (r - 1) + 1 = r
    BY <2>2, <2>3
  <2>5. PICK g : DisplacedFrom(g, r - 1)
    BY <2>4
  <2>6. DisplacedFrom(Displaced(g), (r - 1) + 1)
    BY <2>4, <2>5, DisplacedFurther
  <2>7. DisplacedFrom(Displaced(g), r)
    BY <2>4, <2>6
  <2> QED
    BY <2>7
<1>4. PICK g : DisplacedFrom(g, Cardinality(LiveNodes) + 1)
  <2>1. Cardinality(LiveNodes) + 1 \in Nat
    BY <1>1
  <2> QED
    BY <1>3, <2>1
<1> PICK h : h = Displaced(g)
  OBVIOUS
<1>5. \A n \in LiveNodes : g[n] = h[n]
  BY <1>2, <1>4 DEF DisplacedFrom
<1>6. ASSUME NEW n \in Nodes
      PROVE  h[n] = IF ~IsLive(n) \/ node[n].parent = None THEN <<0, 1>>
                    ELSE Larger(Displacement(n), h[node[n].parent])
  <2>1. h[n] = IF ~IsLive(n) \/ node[n].parent = None THEN <<0, 1>>
               ELSE Larger(Displacement(n), g[node[n].parent])
    BY DEF Displaced
  <2>2. IsLive(n) /\ node[n].parent # None => g[node[n].parent] = h[node[n].parent]
    BY <1>5, ParentHeavier DEF LiveNodes
  <2> QED
    BY <2>1, <2>2
<1>7. h = [n \in Nodes |-> h[n]]
  BY DEF Displaced
<1>8. h = Displaced(h)
  BY <1>6, <1>7 DEF Displaced
<1>9. CodispUp = Displaced(CodispUp)
  <2>1. CodispUp = CHOOSE f : f = Displaced(f)
    BY DEF CodispUp, Displaced
  <2> QED
    BY <1>8, <2>1
<1>10. \A n \in LiveNodes : Displaced(CodispUp)[n] =
         IF node[n].parent = None THEN <<0, 1>>
         ELSE Larger(Displacement(n), CodispUp[node[n].parent])
  BY DEF Displaced, LiveNodes
<1> QED
  BY <1>9, <1>10

\* What is displaced along a path to the root.
Displacements(n) == {Displacement(m) : m \in {k \in Chain(n) : node[k].parent # None}}

\* The walk up answers with the largest of them.
LEMMA UpIsLargest ==
  ASSUME WellFormed, NEW n \in LiveNodes
  PROVE  /\ CodispUp[n] \in Displacements(n) \cup {<<0, 1>>} /\ CodispUp[n] \in Ratios
         /\ \A r \in Displacements(n) : r \in Ratios /\ AtMost(r, CodispUp[n])
<1> DEFINE Good(m) ==
             /\ CodispUp[m] \in Displacements(m) \cup {<<0, 1>>} /\ CodispUp[m] \in Ratios
             /\ \A r \in Displacements(m) : r \in Ratios /\ AtMost(r, CodispUp[m])
           S == {m \in LiveNodes : ~Good(m)}
<1>1. <<0, 1>> \in Ratios
  BY DEF Ratios
<1>2. S = {}
  <2> SUFFICES ASSUME S # {} PROVE FALSE
    OBVIOUS
  <2>1. PICK m \in S : node[m].parent = None \/ node[m].parent \notin S
    <3>1. S \in SUBSET LiveNodes
      OBVIOUS
    <3> HIDE DEF S
    <3> QED
      BY <3>1, Topmost
  <2>2. CASE node[m].parent = None
    <3>1. Displacements(m) = {}
      BY <2>1, <2>2, UpIs DEF Displacements, Chain
    <3>2. CodispUp[m] = <<0, 1>>
      BY <2>1, <2>2, CodispUpIs
    <3>3. Good(m)
      BY <1>1, <3>1, <3>2
    <3> QED
      BY <2>1, <3>3
  <2>3. CASE node[m].parent # None
    <3> PICK a : a = node[m].parent
      OBVIOUS
    <3>1. a \in LiveNodes /\ Good(a)
      BY <2>1, <2>3, ParentHeavier
    <3>2. Chain(m) = {m} \cup Chain(a)
      BY <2>1, <2>3, UpIs DEF Chain
    <3>3. Displacements(m) = {Displacement(m)} \cup Displacements(a)
      BY <2>3, <3>2 DEF Displacements
    <3>4. CodispUp[m] = Larger(Displacement(m), CodispUp[a])
      BY <2>1, <2>3, CodispUpIs
    <3>5. Displacement(m) \in Ratios
      BY <2>1, <2>3, DisplacedPoints
    <3> PICK u : u = CodispUp[a]
      OBVIOUS
    <3> PICK v : v = CodispUp[m]
      OBVIOUS
    <3> PICK w : w = Displacement(m)
      OBVIOUS
    <3>6. /\ u \in Displacements(a) \cup {<<0, 1>>} /\ u \in Ratios
          /\ \A r \in Displacements(a) : r \in Ratios /\ AtMost(r, u)
      BY <3>1
    <3>7. v \in {u, w} /\ v \in Ratios /\ AtMost(u, v) /\ AtMost(w, v)
      BY <3>4, <3>5, <3>6, LargerIs
    <3>8. \A r \in Displacements(a) : AtMost(r, v)
      BY <3>6, <3>7, RatioTransitive
    <3>9. Good(m)
      BY <3>3, <3>5, <3>6, <3>7, <3>8
    <3> QED
      BY <2>1, <3>9
  <2> QED
    BY <2>2, <2>3
<1> QED
  BY <1>2

\* On the path of a stored point the walk down goes to the next node of the path.
LEMMA DownAlong ==
  ASSUME TreeInv, GeomInv, ~Packed, NEW l \in LiveNodes, l \in Leaves,
         NEW x, x = coord[node[l].point],
         NEW a \in Up(l), NEW c \in Chain(l), node[c].parent = a
  PROVE  /\ a \in LiveNodes /\ c \in LiveNodes /\ a # None
         /\ Routed(a, x) = c
         /\ CodispDown(x)[a] = Larger(Displacement(c), CodispDown(x)[c])
<1>0. WellFormed
  BY DEF TreeInv
<1>1. a \in LiveNodes /\ a \in Internals /\ a # None /\ c \in LiveNodes
  BY <1>0, UpHeavier, ChainClosed, TreeAssumption DEF LiveNodes
<1>2. c = node[a].left \/ c = node[a].right
  BY <1>0, <1>1, ParentHeavier
<1>3. Routed(a, x) \in Chain(l)
  BY RoutedAlong
<1>4. Routed(a, x) = node[a].left \/ Routed(a, x) = node[a].right
  BY DEF Routed
<1>5. Routed(a, x) = c
  BY <1>0, <1>1, <1>2, <1>3, <1>4, OneChild
<1> QED
  BY <1>0, <1>1, <1>5, CodispDownIs

\* The walk down answers with one of the displacements and exceeds none.
LEMMA DownIsLargest ==
  ASSUME TreeInv, GeomInv, ~Packed, NEW l \in LiveNodes, l \in Leaves,
         NEW x, x = coord[node[l].point]
  PROVE  /\ \A a \in Chain(l) : CodispDown(x)[a] \in Displacements(l) \cup {<<0, 1>>}
         /\ \A r \in Displacements(l) : AtMost(r, CodispDown(x)[root])
         /\ CodispDown(x)[root] \in Ratios
<1>0. WellFormed
  BY DEF TreeInv
<1> PICK down : down = CodispDown(x)
  OBVIOUS
<1>1. \A a \in LiveNodes : down[a] \in Ratios
  BY <1>0, CodispDownIs
<1>2. down[l] = <<0, 1>>
  BY <1>0, CodispDownIs
<1>3. \A c \in Chain(l) : node[c].parent # None =>
        Displacement(c) \in Displacements(l) /\ Displacement(c) \in Ratios
  BY <1>0, ChainClosed, DisplacedPoints DEF Displacements
<1> DEFINE S == {a \in Up(l) : down[a] \notin Displacements(l) \cup {<<0, 1>>}}
<1>4. S = {}
  <2> SUFFICES ASSUME S # {} PROVE FALSE
    OBVIOUS
  <2>1. PICK a \in S : \E c \in Chain(l) \ S : c \in LiveNodes /\ node[c].parent = a
    <3>1. S \in SUBSET Up(l)
      OBVIOUS
    <3> HIDE DEF S
    <3> QED
      BY <1>0, <3>1, Bottommost
  <2>2. PICK c \in Chain(l) \ S : c \in LiveNodes /\ node[c].parent = a
    BY <2>1
  <2>3. a # None /\ down[a] = Larger(Displacement(c), down[c])
    BY <2>1, <2>2, DownAlong
  <2>4. down[c] \in Displacements(l) \cup {<<0, 1>>} /\ down[c] \in Ratios
    BY <1>1, <1>2, <2>2 DEF Chain
  <2>5. Displacement(c) \in Displacements(l) /\ Displacement(c) \in Ratios
    BY <1>3, <2>2, <2>3
  <2>6. down[a] \in {Displacement(c), down[c]}
    BY <2>3, <2>4, <2>5, LargerIs
  <2> QED
    BY <2>1, <2>4, <2>5, <2>6
<1>5. ASSUME NEW m \in Chain(l), node[m].parent # None
      PROVE  AtMost(Displacement(m), down[root])
  <2>1. m \in LiveNodes /\ Chain(m) \subseteq Chain(l)
    BY <1>0, ChainClosed
  <2>2. \A a \in Up(m) : a \in Up(l)
    <3>1. \A a \in Up(m) : a \in Chain(l) /\ a \in Internals
      BY <1>0, <2>1, UpHeavier DEF Chain
    <3> QED
      BY <3>1, NodesFinite DEF Chain
  <2> DEFINE T == {a \in Up(m) : ~AtMost(Displacement(m), down[a])}
  <2>3. T = {}
    <3> SUFFICES ASSUME T # {} PROVE FALSE
      OBVIOUS
    <3>1. PICK a \in T : \E c \in Chain(m) \ T : c \in LiveNodes /\ node[c].parent = a
      <4>1. T \in SUBSET Up(m)
        OBVIOUS
      <4> HIDE DEF T
      <4> QED
        BY <1>0, <2>1, <4>1, Bottommost
    <3>2. PICK c \in Chain(m) \ T : c \in LiveNodes /\ node[c].parent = a
      BY <3>1
    <3>3. a # None /\ down[a] = Larger(Displacement(c), down[c])
      BY <2>1, <2>2, <3>1, <3>2, DownAlong
    <3>4. /\ Displacement(c) \in Ratios /\ Displacement(m) \in Ratios /\ down[c] \in Ratios
      BY <1>1, <1>3, <1>5, <2>1, <3>2, <3>3
    <3>5. /\ AtMost(Displacement(c), down[a]) /\ AtMost(down[c], down[a]) /\ down[a] \in Ratios
      BY <3>3, <3>4, LargerIs
    <3>6. c = m \/ AtMost(Displacement(m), down[c])
      BY <3>2 DEF Chain
    <3>7. AtMost(Displacement(m), down[a])
      BY <3>4, <3>5, <3>6, RatioTransitive
    <3> QED
      BY <3>1, <3>7
  <2>4. root \in Up(m)
    <3>1. root \in Chain(m) /\ node[root].parent = None
      BY <1>0, <2>1, RootOnTop DEF WellFormed, RootInv, LiveNodes
    <3> QED
      BY <1>5, <3>1 DEF Chain
  <2> QED
    BY <2>3, <2>4
<1>6. root \in LiveNodes
  BY <1>0, RootOnTop
<1> QED
  BY <1>1, <1>2, <1>4, <1>5, <1>6 DEF Chain, Displacements

\* In the default build the codisplacement of a stored point is the largest ratio
\* of the points beside to the points in a subtree that holds it, and the walk down
\* from the root, which keeps no path, answers the same as the walk up.
THEOREM CodispStaysExact == Spec => []CodispCountsPoints
<1>1. TreeInv /\ GeomInv => CodispCountsPoints
  <2> SUFFICES ASSUME TreeInv, GeomInv, ~Packed, NEW p \in Points, Present(p),
                      NEW leaf, leaf = leaf_index[p], NEW ratios,
                      ratios = {<<Cardinality(Below(SiblingOf(n))), Cardinality(Below(n))>> :
                        n \in {m \in {leaf} \cup Range(Above[leaf]) : node[m].parent # None}}
               PROVE  /\ CodispUp[leaf] \in ratios \cup {<<0, 1>>}
                      /\ \A r \in ratios : AtMost(r, CodispUp[leaf])
                      /\ AtMost(CodispDown(coord[p])[root], CodispUp[leaf])
                      /\ AtMost(CodispUp[leaf], CodispDown(coord[p])[root])
    BY DEF CodispCountsPoints
  <2>0. WellFormed
    BY DEF TreeInv
  <2>1. leaf \in LiveNodes /\ leaf \in Leaves
    BY <2>0 DEF WellFormed, TypeOK, Present, LiveNodes, Nodes
  <2>2. coord[p] = coord[node[leaf].point]
    BY DEF TreeInv, CoordInv
  <2>3. ratios = Displacements(leaf)
    <3>1. \A n \in {m \in Chain(leaf) : node[m].parent # None} :
            Displacement(n) = <<Cardinality(Below(SiblingOf(n))), Cardinality(Below(n))>>
      BY <2>0, <2>1, ChainClosed, DisplacedPoints
    <3>2. ratios = {<<Cardinality(Below(SiblingOf(n))), Cardinality(Below(n))>> :
                      n \in {m \in Chain(leaf) : node[m].parent # None}}
      BY DEF Chain, Up
    <3> QED
      BY <3>1, <3>2 DEF Displacements
  <2> PICK u : u = CodispUp[leaf]
    OBVIOUS
  <2> PICK d : d = CodispDown(coord[p])[root]
    OBVIOUS
  <2>4. /\ u \in ratios \cup {<<0, 1>>} /\ u \in Ratios
        /\ \A r \in ratios : AtMost(r, u)
    BY <2>0, <2>1, <2>3, UpIsLargest
  <2>5. /\ d \in ratios \cup {<<0, 1>>} /\ d \in Ratios
        /\ \A r \in ratios : AtMost(r, d)
    <3>1. root \in Chain(leaf)
      BY <2>0, <2>1, RootOnTop
    <3> QED
      BY <2>1, <2>2, <2>3, <3>1, DownIsLargest
  <2>6. \A r \in Ratios : AtMost(<<0, 1>>, r)
    BY DEF Ratios, AtMost
  <2> QED
    BY <2>4, <2>5, <2>6
<1> QED
  BY <1>1, GeomInvariance, PTL

------------------------------------------------------------------------------
(* The nodes a query meets.                                                 *)

\* One step after the other from n down to a leaf.
IsWalk(path, n, x) ==
  /\ path \in Seq(LiveNodes) /\ Len(path) > 0 /\ path[1] = n
  /\ path[Len(path)] \in Leaves
  /\ \A i \in 1..Len(path) - 1 :
       path[i] \in Internals /\ path[i + 1] = Routed(path[i], x)

LEMMA TraversedIs ==
  ASSUME WellFormed, NEW x
  PROVE  \A n \in LiveNodes :
           /\ n \in Leaves => Traversed(x)[n] = <<n>>
           /\ n \in Internals => Traversed(x)[n] = <<n>> \o Traversed(x)[Routed(n, x)]
<1> DEFINE V == Seq(Nodes)
           base == [n \in Nodes |-> <<n>>]
           G == [n \in Nodes |-> [v \in V |-> <<n>> \o v]]
           Step(f) == [n \in Nodes |-> IF n \in Leaves \/ ~IsLive(n) THEN <<n>>
                                       ELSE <<n>> \o f[Routed(n, x)]]
<1>1. base \in Answers(V)
  BY DEF Answers
<1>2. G \in Advances(V)
  <2>1. \A n \in Nodes, v \in V : <<n>> \o v \in V
    <3>1. \A n \in Nodes : <<n>> \in Seq(Nodes)
      OBVIOUS
    <3> QED
      BY <3>1, ConcatProperties
  <2> QED
    BY <2>1 DEF Advances
<1>3. PICK f \in Answers(V) : f = Downward(base, G, x, f)
  <2> HIDE DEF base, G, V
  <2> QED
    BY <1>1, <1>2, DownwardExists
<1>4. ASSUME NEW n \in Nodes
      PROVE  f[n] = IF n \in Leaves \/ ~IsLive(n) THEN <<n>> ELSE <<n>> \o f[Routed(n, x)]
  <2>1. f[n] = IF n \in Leaves \/ ~IsLive(n) THEN base[n] ELSE G[n][f[Routed(n, x)]]
    <3> HIDE DEF base, G
    <3> QED
      BY <1>3 DEF Downward
  <2>2. base[n] = <<n>>
    OBVIOUS
  <2>3. ASSUME IsLive(n), n \notin Leaves
        PROVE  G[n][f[Routed(n, x)]] = <<n>> \o f[Routed(n, x)]
    <3>1. n \in LiveNodes \cap Internals
      BY <2>3 DEF LiveNodes, Nodes
    <3>2. Routed(n, x) \in Nodes
      BY <3>1, RoutedLive DEF LiveNodes
    <3>3. f[Routed(n, x)] \in V
      BY <1>3, <3>2 DEF Answers
    <3> QED
      BY <3>3
  <2> HIDE DEF base, G
  <2> QED
    BY <2>1, <2>2, <2>3
<1>5. f = Step(f)
  BY <1>3, <1>4 DEF Answers
<1>6. PICK g : g = Traversed(x) /\ g = Step(g)
  <2>1. Traversed(x) = CHOOSE g : g = Step(g)
    BY DEF Traversed
  <2> QED
    BY <1>5, <2>1
<1>7. \A n \in Nodes : g[n] = IF n \in Leaves \/ ~IsLive(n) THEN <<n>>
                              ELSE <<n>> \o g[Routed(n, x)]
  <2>1. \A n \in Nodes : Step(g)[n] = IF n \in Leaves \/ ~IsLive(n) THEN <<n>>
                              ELSE <<n>> \o g[Routed(n, x)]
    OBVIOUS
  <2> HIDE DEF Step
  <2> QED
    BY <1>6, <2>1
<1> HIDE DEF Step, base, G
<1> QED
  BY <1>6, <1>7, NodesFinite DEF LiveNodes

LEMMA WalkIs ==
  ASSUME WellFormed, NEW n \in LiveNodes, NEW x
  PROVE  IsWalk(Traversed(x)[n], n, x)
<1> PICK met : met = Traversed(x)
  OBVIOUS
<1> DEFINE S == {m \in LiveNodes : ~IsWalk(met[m], m, x)}
<1>1. S = {}
  <2> SUFFICES ASSUME S # {} PROVE FALSE
    OBVIOUS
  <2>1. PICK m \in S : m \in Internals =>
          node[m].left \in LiveNodes \ S /\ node[m].right \in LiveNodes \ S
    <3>1. S \in SUBSET LiveNodes
      OBVIOUS
    <3> HIDE DEF S
    <3> QED
      BY <3>1, Lightest
  <2>2. CASE m \in Leaves
    <3>1. met[m] = <<m>>
      BY <2>1, <2>2, TraversedIs
    <3>2. /\ <<m>> \in Seq(LiveNodes) /\ Len(<<m>>) = 1 /\ <<m>>[1] = m
          /\ \A i \in 1..0 : FALSE
      BY <2>1
    <3>3. IsWalk(<<m>>, m, x)
      BY <2>2, <3>2 DEF IsWalk
    <3> QED
      BY <2>1, <3>1, <3>3
  <2>3. CASE m \in Internals
    <3> PICK c : c = Routed(m, x)
      OBVIOUS
    <3> PICK rest : rest = met[c]
      OBVIOUS
    <3> PICK all : all = met[m]
      OBVIOUS
    <3>1. all = <<m>> \o rest
      BY <2>1, <2>3, TraversedIs
    <3>2. IsWalk(rest, c, x)
      BY <2>1, <2>3 DEF Routed
    <3>3. rest \in Seq(LiveNodes) /\ Len(rest) \in Nat /\ Len(rest) > 0 /\ rest[1] = c
      BY <3>2, LenProperties DEF IsWalk
    <3>4. <<m>> \in Seq(LiveNodes) /\ Len(<<m>>) = 1 /\ <<m>>[1] = m
      BY <2>1
    <3>5. /\ all \in Seq(LiveNodes) /\ Len(all) = 1 + Len(rest)
          /\ \A i \in 1..1 + Len(rest) : all[i] = IF i <= 1 THEN <<m>>[i] ELSE rest[i - 1]
      BY <3>1, <3>3, <3>4, ConcatProperties
    <3>a. Len(rest) \in Nat /\ Len(rest) > 0 /\ Len(all) = 1 + Len(rest)
      BY <3>3, <3>5
    <3>b. \A i \in 1..1 + Len(rest) : all[i] = IF i <= 1 THEN <<m>>[i] ELSE rest[i - 1]
      BY <3>5
    <3>c. ASSUME NEW i \in 1..Len(rest)
          PROVE  all[i + 1] = rest[i]
      <4>1. i + 1 \in 1..1 + Len(rest) /\ ~ (i + 1 <= 1) /\ (i + 1) - 1 = i
        BY <3>a
      <4> QED
        BY <3>b, <4>1, Zenon
    <3>6. all[1] = m /\ all[Len(all)] = rest[Len(rest)]
      <4>1. all[1] = m
        BY <3>a, <3>b
      <4>2. Len(rest) \in 1..Len(rest) /\ Len(all) = Len(rest) + 1
        BY <3>a
      <4> QED
        BY <3>c, <4>1, <4>2
    <3>7. ASSUME NEW i \in 1..Len(all) - 1
          PROVE  all[i] \in Internals /\ all[i + 1] = Routed(all[i], x)
      <4>1. CASE i = 1
        <5>1. all[1 + 1] = rest[1]
          BY <3>a, <3>c
        <5> QED
          BY <2>3, <3>3, <3>6, <4>1, <5>1
      <4>2. CASE i # 1
        <5> PICK j : j = i - 1
          OBVIOUS
        <5>1. j \in 1..Len(rest) - 1 /\ j \in 1..Len(rest) /\ i \in 1..Len(rest) /\ j + 1 = i
          BY <3>a, <4>2
        <5>2. all[i] = rest[j] /\ all[i + 1] = rest[j + 1]
          <6>1. all[j + 1] = rest[j]
            BY <3>c, <5>1
          <6>2. all[i + 1] = rest[i]
            BY <3>c, <5>1
          <6> QED
            BY <5>1, <6>1, <6>2, Zenon
        <5> QED
          BY <3>2, <5>1, <5>2 DEF IsWalk
      <4> QED
        BY <4>1, <4>2
    <3>8. IsWalk(all, m, x)
      BY <3>2, <3>3, <3>5, <3>6, <3>7 DEF IsWalk
    <3> QED
      BY <2>1, <3>8
  <2> QED
    BY <2>1, <2>2, <2>3, LiveNode DEF WellFormed
<1> QED
  BY <1>1

\* The way from the root, node by node.
LEMMA WalkFacts ==
  ASSUME WellFormed, root # None, NEW x, NEW path, path = Traversed(x)[root]
  PROVE  /\ path \in Seq(LiveNodes) /\ Len(path) \in Nat /\ Len(path) > 0 /\ path[1] = root
         /\ DOMAIN path = 1..Len(path)
         /\ path[Len(path)] \in LiveNodes /\ path[Len(path)] \in Leaves
         /\ \A i \in 1..Len(path) - 1 :
              /\ i \in 1..Len(path) /\ i + 1 \in 1..Len(path)
              /\ path[i] \in LiveNodes /\ path[i] \in Internals /\ path[i] \notin Leaves
              /\ path[i + 1] = Routed(path[i], x) /\ path[i + 1] \in LiveNodes
<1>1. root \in LiveNodes
  BY DEF WellFormed, TypeOK, RootInv, LiveNodes
<1>2. IsWalk(path, root, x)
  BY <1>1, WalkIs
<1>3. path \in Seq(LiveNodes) /\ Len(path) \in Nat /\ Len(path) > 0 /\ DOMAIN path = 1..Len(path)
  BY <1>2, LenProperties DEF IsWalk
<1>4. \A i \in 1..Len(path) : path[i] \in LiveNodes
  BY <1>3, ElementOfSeq
<1>5. \A i \in 1..Len(path) - 1 : i \in 1..Len(path) /\ i + 1 \in 1..Len(path)
  BY <1>3
<1>6. Len(path) \in 1..Len(path)
  BY <1>3
<1> QED
  BY <1>2, <1>3, <1>4, <1>5, <1>6, NodesFinite DEF IsWalk

------------------------------------------------------------------------------
(* The probability of a cut, in numbers.                                    *)

LEMMA SumFunctionIs ==
  ASSUME NEW f PROVE SumFunction(f) = Sum(f)
BY DEF SumFunction, SumFunctionOnSet, Sum, FoldFunction, FoldFunctionOnSet

LEMMA AxesFinite == IsFiniteSet(Axes) /\ Axes \subseteq Int
<1>1. IsFiniteSet(1..Dims)
  BY TreeAssumption, FS_Interval
<1> QED
  BY <1>1 DEF Axes

\* How far a query lies outside a box, on either side.
LEMMA ExtensionIs ==
  ASSUME NEW b \in Boxes, Ordered(b), NEW x \in Coords, NEW d \in Axes
  PROVE  /\ x[d] \in Int /\ b.min[d] \in Int /\ b.max[d] \in Int
         /\ Extension(b, x, d) \in Nat /\ SpanAt(b, d) \in Nat
         /\ Extension(b, x, d) = 0 <=> b.min[d] <= x[d] /\ x[d] <= b.max[d]
         /\ x[d] > b.max[d] => Extension(b, x, d) = x[d] - b.max[d]
         /\ x[d] < b.min[d] => Extension(b, x, d) = b.min[d] - x[d]
         /\ SpanAt(b, d) + Extension(b, x, d) = Extend(b, x).max[d] - Extend(b, x).min[d]
         /\ Extend(b, x).min[d] = Lower(b.min[d], x[d])
         /\ Extend(b, x).max[d] = Upper(b.max[d], x[d])
<1>1. b.min[d] \in Int /\ b.max[d] \in Int /\ b.min[d] <= b.max[d]
  BY BoxAt DEF Ordered
<1>2. x[d] \in Int
  BY PointBox, MarksAreInts
<1>3. Extend(b, x).min[d] = Lower(b.min[d], x[d]) /\ Extend(b, x).max[d] = Upper(b.max[d], x[d])
  BY DEF Extend, Merged, FromPoint
<1>4. SpanAt(b, d) \in Nat
  BY <1>1 DEF SpanAt
<1>5. CASE x[d] > b.max[d]
  BY <1>1, <1>2, <1>3, <1>4, <1>5 DEF Extension, Positive, SpanAt, Lower, Upper
<1>6. CASE x[d] < b.min[d]
  BY <1>1, <1>2, <1>3, <1>4, <1>6 DEF Extension, Positive, SpanAt, Lower, Upper
<1>7. CASE b.min[d] <= x[d] /\ x[d] <= b.max[d]
  BY SMTT(30), <1>1, <1>2, <1>3, <1>4, <1>7 DEF Extension, Positive, SpanAt, Lower, Upper
<1> QED
  BY <1>1, <1>2, <1>5, <1>6, <1>7

LEMMA ProbabilityIs ==
  ASSUME NEW b \in Boxes, Ordered(b), NEW x \in Coords, NEW p, p = ProbabilityOfCut(b, x),
         NEW e, e = SumFunction(p.per_dim)
  PROVE  /\ p.per_dim \in [Axes -> Nat] /\ p.denom \in Nat /\ e \in Nat /\ e <= p.denom
         /\ \A d \in Axes : /\ p.per_dim[d] = Extension(b, x, d) /\ p.per_dim[d] <= e
                            /\ SpanAt(b, d) <= p.denom
         /\ TotalProbabilityOfCut(b, x) = <<e, p.denom>>
         /\ e = 0 <=> \A d \in Axes : b.min[d] <= x[d] /\ x[d] <= b.max[d]
<1> PICK f : f = [d \in Axes |-> Extension(b, x, d)]
  OBVIOUS
<1> PICK g : g = [d \in Axes |-> SpanAt(b, d)]
  OBVIOUS
<1> PICK h : h = [d \in Axes |-> SpanAt(b, d) + Extension(b, x, d)]
  OBVIOUS
<1>1. f \in [Axes -> Nat] /\ g \in [Axes -> Nat] /\ h \in [Axes -> Nat]
  BY ExtensionIs
<1>2. p.per_dim = f /\ p.denom = Sum(h) /\ e = Sum(f)
  BY SumFunctionIs DEF ProbabilityOfCut
<1>3. Sum(f) \in Nat /\ Sum(g) \in Nat /\ Sum(h) \in Nat
  BY <1>1, AxesFinite, SumOfNats
<1>4. Sum(h) = Sum(g) + 1 * Sum(f)
  <2>1. Combines(h, g, 1, f, Axes)
    BY <1>1 DEF Combines
  <2> QED
    BY <2>1, AxesFinite, SumsAddUp
<1>5. \A d \in Axes : f[d] <= Sum(f) /\ g[d] <= Sum(g)
  BY <1>1, AxesFinite, TermWithinSum
<1>6. TotalProbabilityOfCut(b, x) = <<Sum(f), Sum(g) + Sum(f)>>
  BY SumFunctionIs DEF TotalProbabilityOfCut
<1>7. \A d \in Axes : f[d] = 0 <=> b.min[d] <= x[d] /\ x[d] <= b.max[d]
  BY ExtensionIs
<1>8. \A d \in Axes : f[d] = Extension(b, x, d) /\ g[d] = SpanAt(b, d)
  OBVIOUS
<1> HIDE DEF Sum
<1>9. ASSUME NEW d \in Axes
      PROVE  g[d] <= Sum(g) + Sum(f) /\ (Sum(f) = 0 => f[d] = 0)
  <2>1. f[d] \in Nat /\ g[d] \in Nat
    BY <1>1
  <2>2. f[d] <= Sum(f) /\ g[d] <= Sum(g)
    BY <1>5
  <2> QED
    BY <1>3, <2>1, <2>2
<1>10. Sum(f) = 0 <=> \A d \in Axes : f[d] = 0
  BY <1>1, <1>9, AxesFinite, SumOfNats
<1>11. Sum(h) = Sum(g) + Sum(f) /\ Sum(f) <= Sum(h)
  BY <1>3, <1>4
<1>12. \A d \in Axes : p.per_dim[d] = Extension(b, x, d) /\ p.per_dim[d] <= e /\ SpanAt(b, d) <= p.denom
  BY <1>2, <1>5, <1>8, <1>9, <1>11
<1>13. TotalProbabilityOfCut(b, x) = <<e, p.denom>>
  BY <1>2, <1>6, <1>11
<1> QED
  BY <1>1, <1>2, <1>3, <1>7, <1>10, <1>11, <1>12, <1>13

\* The box of an internal node is not a point: its cut runs through it.
LEMMA InnerSpan ==
  ASSUME TreeInv, GeomInv, ~Packed, NEW n \in LiveNodes, n \in Internals,
         NEW x \in Coords, NEW p, p = ProbabilityOfCut(BoxOf(n), x)
  PROVE  BoxOf(n) \in Boxes /\ Ordered(BoxOf(n)) /\ p.denom > 0
<1>0. WellFormed /\ TypeOK
  BY DEF TreeInv, WellFormed
<1>1. BoxOf(n) \in Boxes /\ Ordered(BoxOf(n))
  BY BoxOfLive, BoxesHold DEF Ordered
<1> PICK b : b = BoxOf(n)
  OBVIOUS
<1> PICK L : L = BoxOf(node[n].left)
  OBVIOUS
<1> PICK R : R = BoxOf(node[n].right)
  OBVIOUS
<1> PICK d : d = node[n].cut.dim
  OBVIOUS
<1>2. node[n].left \in LiveNodes /\ node[n].right \in LiveNodes
  BY <1>0, Children
<1>3. d \in Axes
  <2>1. node[n] \in InnerNode
    BY <1>0, LiveNode
  <2> QED
    BY <2>1 DEF InnerNode
<1>4. L \in Boxes /\ R \in Boxes /\ L.min[d] <= L.max[d] /\ R.min[d] <= R.max[d]
  BY <1>2, <1>3, BoxOfLive, BoxesHold
<1>5. b = Merged(L, R)
  <2>1. n \notin Leaves
    BY NodesFinite
  <2> QED
    BY <2>1 DEF GeomInv, BoxesTight, BoxOf
<1>6. L.max[d] <= node[n].cut.value /\ node[n].cut.value < R.min[d]
  BY DEF GeomInv, CutsSeparate
<1>7. node[n].cut.value \in Int
  <2>1. node[n] \in InnerNode
    BY <1>0, LiveNode
  <2> QED
    BY <2>1 DEF InnerNode
<1>8. b.min[d] = Lower(L.min[d], R.min[d]) /\ b.max[d] = Upper(L.max[d], R.max[d])
  BY <1>3, <1>4, <1>5, MergedAt
<1>9. SpanAt(b, d) \in Int /\ SpanAt(b, d) > 0
  <2>1. L.min[d] \in Int /\ L.max[d] \in Int /\ R.min[d] \in Int /\ R.max[d] \in Int
    BY <1>3, <1>4, BoxAt
  <2> QED
    BY <1>4, <1>6, <1>7, <1>8, <2>1 DEF SpanAt, Lower, Upper
<1>10. SpanAt(b, d) <= p.denom /\ p.denom \in Nat
  BY <1>1, <1>3, ProbabilityIs
<1> QED
  BY <1>1, <1>9, <1>10

\* One draw for each unit step from lo up to hi.
DrawsIn(d, lo, hi) == {[dim |-> d, value |-> v] : v \in lo..(hi - 1)}

LEMMA DrawsInCount ==
  ASSUME NEW d, NEW lo \in Int, NEW hi \in Int, lo <= hi
  PROVE  IsFiniteSet(DrawsIn(d, lo, hi)) /\ Cardinality(DrawsIn(d, lo, hi)) = hi - lo
<1> DEFINE f == [v \in lo..(hi - 1) |-> [dim |-> d, value |-> v]]
<1>1. f \in Bijection(lo..(hi - 1), DrawsIn(d, lo, hi))
  <2>1. f \in [lo..(hi - 1) -> DrawsIn(d, lo, hi)]
    BY DEF DrawsIn
  <2>2. \A v, w \in lo..(hi - 1) : f[v] = f[w] => v = w
    <3>1. \A v \in lo..(hi - 1) : f[v].value = v
      OBVIOUS
    <3> HIDE DEF f
    <3> QED
      BY <3>1
  <2>3. \A c \in DrawsIn(d, lo, hi) : \E v \in lo..(hi - 1) : f[v] = c
    BY DEF DrawsIn
  <2> HIDE DEF f
  <2> QED
    BY <2>1, <2>2, <2>3 DEF Bijection, Injection, Surjection, IsInjective
<1>2. IsFiniteSet(lo..(hi - 1)) /\ Cardinality(lo..(hi - 1)) = hi - lo
  <2>1. hi - 1 \in Int /\ (hi - 1) - lo + 1 = hi - lo /\ (lo > hi - 1 => hi - lo = 0)
    OBVIOUS
  <2> QED
    BY <2>1, FS_Interval
<1>3. ExistsBijection(lo..(hi - 1), DrawsIn(d, lo, hi))
  BY <1>1 DEF ExistsBijection
<1> QED
  BY <1>2, <1>3, FS_Bijection

LEMMA DrawsCount ==
  ASSUME NEW b \in Boxes, Ordered(b), NEW x \in Coords, NEW p, p = ProbabilityOfCut(b, x),
         NEW draws, draws = UNION {{[dim |-> d, value |-> v] :
                                      v \in Extend(b, x).min[d]..(Extend(b, x).max[d] - 1)} : d \in Axes}
  PROVE  /\ p.denom = Cardinality(draws)
         /\ \A d \in Axes : p.per_dim[d] = Cardinality({c \in draws : c.dim = d /\ Isolates(c, x, b)})
<1> PICK a : a = Extend(b, x)
  OBVIOUS
<1> PICK F : F = [d \in Axes |-> DrawsIn(d, a.min[d], a.max[d])]
  OBVIOUS
<1>1. \A d \in Axes : /\ a.min[d] \in Int /\ a.max[d] \in Int /\ a.min[d] <= a.max[d]
                      /\ SpanAt(b, d) + Extension(b, x, d) = a.max[d] - a.min[d]
  BY ExtensionIs DEF Lower, Upper
<1>2. draws = AllOf(F, Axes)
  BY DEF AllOf, DrawsIn
<1>3. Apart(F, Axes)
  <2>1. \A d \in Axes : IsFiniteSet(F[d])
    BY <1>1, DrawsInCount
  <2>2. \A d, e \in Axes : d # e => F[d] \cap F[e] = {}
    BY DEF DrawsIn
  <2> QED
    BY <2>1, <2>2 DEF Apart
<1>4. p.denom = Cardinality(draws)
  <2>1. SizesOf(F, Axes) = [d \in Axes |-> SpanAt(b, d) + Extension(b, x, d)]
    <3>1. \A d \in Axes : Cardinality(F[d]) = SpanAt(b, d) + Extension(b, x, d)
      BY <1>1, DrawsInCount
    <3> QED
      BY <3>1 DEF SizesOf
  <2>2. p.denom = Sum(SizesOf(F, Axes))
    BY <2>1, SumFunctionIs DEF ProbabilityOfCut
  <2> QED
    BY <1>2, <1>3, <2>2, AxesFinite, SumCountsAll
<1>5. ASSUME NEW d \in Axes, NEW S, S = {c \in draws : c.dim = d /\ Isolates(c, x, b)}
      PROVE  p.per_dim[d] = Cardinality(S)
  <2>1. /\ x[d] \in Int /\ b.min[d] \in Int /\ b.max[d] \in Int
        /\ a.min[d] = Lower(b.min[d], x[d]) /\ a.max[d] = Upper(b.max[d], x[d])
        /\ p.per_dim[d] = Extension(b, x, d) /\ b.min[d] <= b.max[d]
    BY ExtensionIs DEF ProbabilityOfCut, Ordered
  <2>2. S = {[dim |-> d, value |-> v] : v \in {w \in a.min[d]..(a.max[d] - 1) :
                 Isolates([dim |-> d, value |-> w], x, b)}}
    <3>1. \A c : c \in draws /\ c.dim = d <=> c \in F[d]
      <4>1. \A e \in Axes : \A c \in F[e] : c.dim = e
        BY DEF DrawsIn
      <4>2. \A c : c \in draws <=> \E e \in Axes : c \in F[e]
        BY <1>2 DEF AllOf
      <4> QED
        BY <4>1, <4>2
    <3>2. S = {c \in F[d] : Isolates(c, x, b)}
      BY <1>5, <3>1
    <3>3. F[d] = {[dim |-> d, value |-> v] : v \in a.min[d]..(a.max[d] - 1)}
      BY DEF DrawsIn
    <3> DEFINE V == a.min[d]..(a.max[d] - 1)
               hit == {w \in V : Isolates([dim |-> d, value |-> w], x, b)}
               T == {[dim |-> d, value |-> v] : v \in hit}
    <3>4. ASSUME NEW c PROVE c \in S <=> c \in T
      <4>1. c \in S <=> (\E v \in V : c = [dim |-> d, value |-> v]) /\ Isolates(c, x, b)
        <5> HIDE DEF V
        <5> QED
          BY <3>2, <3>3, Zenon DEF V
      <4>2. c \in T <=> \E v \in V : c = [dim |-> d, value |-> v]
                                     /\ Isolates([dim |-> d, value |-> v], x, b)
        <5> HIDE DEF V
        <5> QED
          BY Zenon
      <4> HIDE DEF V, T
      <4> QED
        BY <4>1, <4>2, Zenon
    <3>5. S = T
      <4> HIDE DEF T
      <4> QED
        BY <3>4, Zenon
    <3> QED
      BY <3>5
  <2>3. \A w \in Int : Isolates([dim |-> d, value |-> w], x, b) <=>
           \/ x[d] <= w /\ w < b.min[d]
           \/ b.max[d] <= w /\ w < x[d]
    BY DEF Isolates
  <2>4. CASE x[d] > b.max[d]
    <3>1. {w \in a.min[d]..(a.max[d] - 1) : Isolates([dim |-> d, value |-> w], x, b)}
            = b.max[d]..(x[d] - 1)
      BY <2>1, <2>3, <2>4 DEF Lower, Upper
    <3>2. S = DrawsIn(d, b.max[d], x[d])
      BY <2>2, <3>1 DEF DrawsIn
    <3>3. Cardinality(S) = x[d] - b.max[d]
      BY <2>1, <2>4, <3>2, DrawsInCount
    <3> QED
      BY <2>1, <2>4, <3>3, ExtensionIs
  <2>5. CASE x[d] < b.min[d]
    <3>1. {w \in a.min[d]..(a.max[d] - 1) : Isolates([dim |-> d, value |-> w], x, b)}
            = x[d]..(b.min[d] - 1)
      BY <2>1, <2>3, <2>5 DEF Lower, Upper
    <3>2. S = DrawsIn(d, x[d], b.min[d])
      BY <2>2, <3>1 DEF DrawsIn
    <3>3. Cardinality(S) = b.min[d] - x[d]
      BY <2>1, <2>5, <3>2, DrawsInCount
    <3> QED
      BY <2>1, <2>5, <3>3, ExtensionIs
  <2>6. CASE b.min[d] <= x[d] /\ x[d] <= b.max[d]
    <3>1. {w \in a.min[d]..(a.max[d] - 1) : Isolates([dim |-> d, value |-> w], x, b)} = {}
      BY <2>1, <2>3, <2>6 DEF Lower, Upper
    <3>2. S = {}
      BY <2>2, <3>1
    <3> QED
      BY <2>1, <2>6, <3>2, ExtensionIs, FS_EmptySet
  <2> QED
    BY <2>1, <2>4, <2>5, <2>6
<1> QED
  BY <1>4, <1>5

\* Up from its end the walk is the path of the leaf.
LEMMA WalkUp ==
  ASSUME WellFormed, root # None, NEW x, NEW path, path = Traversed(x)[root]
  PROVE  \A i \in 1..Len(path) : path[i] \in Chain(path[Len(path)])
<1> PICK N : N = Len(path) - 1
  OBVIOUS
<1> PICK last : last = path[Len(path)]
  OBVIOUS
<1> DEFINE S == {k \in 0..N : path[Len(path) - k] \in Chain(last)}
<1>1. /\ N \in Nat /\ Len(path) \in Nat /\ Len(path) = N + 1 /\ last \in LiveNodes
      /\ \A i \in 1..N : /\ path[i] \in LiveNodes /\ path[i] \in Internals
                         /\ path[i + 1] = Routed(path[i], x)
  <2>1. Len(path) \in Nat /\ Len(path) > 0 /\ path[Len(path)] \in LiveNodes
    BY WalkFacts
  <2>2. N \in Nat /\ Len(path) = N + 1
    BY <2>1
  <2> QED
    BY SMTT(30), <2>1, <2>2, WalkFacts
<1>2. 0 \in S
  BY <1>1 DEF Chain
<1>3. ASSUME NEW k \in 0..N, k \in S, k + 1 <= N
      PROVE  k + 1 \in S
  <2>1. /\ Len(path) - (k + 1) \in 1..N /\ (Len(path) - (k + 1)) + 1 = Len(path) - k
        /\ k + 1 \in 0..N
    BY <1>1, <1>3
  <2> PICK a : a = path[Len(path) - (k + 1)]
    OBVIOUS
  <2>2. a \in LiveNodes \cap Internals /\ path[Len(path) - k] = Routed(a, x)
    BY <1>1, <2>1
  <2>3. node[Routed(a, x)].parent = a /\ a # None
    BY <2>2, RoutedLive, TreeAssumption DEF LiveNodes
  <2>4. Routed(a, x) \in Chain(last)
    BY <1>3, <2>2
  <2>5. a \in Up(last)
    BY <1>1, <2>3, <2>4, UpClosed
  <2> QED
    BY <2>1, <2>5 DEF Chain
<1>4. \A k \in 0..N : k \in S
  <2> HIDE DEF S
  <2> QED
    BY <1>1, <1>2, <1>3, CountUp
<1>5. ASSUME NEW i \in 1..Len(path)
      PROVE  path[i] \in Chain(last)
  <2>1. Len(path) - i \in 0..N /\ Len(path) - (Len(path) - i) = i
    BY <1>1
  <2>2. Len(path) - i \in S
    BY <1>4, <2>1
  <2> QED
    BY <2>1, <2>2
<1> QED
  BY <1>5

\* The walk of a stored point ends at its leaf.
LEMMA WalkStored ==
  ASSUME TreeInv, GeomInv, ~Packed, root # None, NEW q \in Points, Present(q),
         NEW x, x = coord[q], NEW path, path = Traversed(x)[root]
  PROVE  path[Len(path)] = leaf_index[q] /\ coord[node[leaf_index[q]].point] = x
<1>0. WellFormed
  BY DEF TreeInv
<1> PICK leaf : leaf = leaf_index[q]
  OBVIOUS
<1> PICK N : N = Len(path) - 1
  OBVIOUS
<1> DEFINE S == {k \in 0..N : path[k + 1] \in Chain(leaf)}
<1>1. /\ N \in Nat /\ Len(path) \in Nat /\ Len(path) = N + 1 /\ path[1] = root
      /\ path[Len(path)] \in Leaves
      /\ \A i \in 1..N : path[i] \in Internals /\ path[i + 1] = Routed(path[i], x)
  BY <1>0, WalkFacts
<1>2. leaf \in LiveNodes /\ leaf \in Leaves
  BY <1>0 DEF WellFormed, TypeOK, Present, LiveNodes, Nodes
<1>3. x = coord[node[leaf].point]
  BY DEF TreeInv, CoordInv
<1>4. 0 \in S
  BY <1>0, <1>1, <1>2, RootOnTop
<1>5. ASSUME NEW k \in 0..N, k \in S, k + 1 <= N
      PROVE  k + 1 \in S
  <2>1. k + 1 \in 1..N /\ k + 1 \in 0..N
    BY <1>1, <1>5
  <2>2. path[k + 1] \in Up(leaf)
    <3>1. path[k + 1] \in Chain(leaf) /\ path[k + 1] # leaf
      BY <1>1, <1>2, <1>5, <2>1, NodesFinite
    <3> QED
      BY <3>1 DEF Chain
  <2>3. Routed(path[k + 1], x) \in Chain(leaf)
    BY <1>2, <1>3, <2>2, RoutedAlong
  <2> QED
    BY <1>1, <2>1, <2>3
<1>6. \A k \in 0..N : k \in S
  <2> HIDE DEF S
  <2> QED
    BY <1>1, <1>4, <1>5, CountUp
<1>7. path[Len(path)] \in Chain(leaf)
  <2>1. N \in 0..N
    BY <1>1
  <2>2. N \in S
    BY <1>6, <2>1
  <2> QED
    BY <1>1, <2>2
<1>8. path[Len(path)] \notin Up(leaf)
  BY <1>0, <1>1, <1>2, UpHeavier, NodesFinite
<1> QED
  BY <1>3, <1>7, <1>8 DEF Chain

\* What a visitor meets: boxes nested around the coordinates of the last leaf.
MetAt(b, x, z) ==
  /\ b \in Boxes /\ Ordered(b) /\ ProbabilityOfCut(b, x).denom > 0
  /\ \A d \in Axes : b.min[d] <= z[d] /\ z[d] <= b.max[d]

LEMMA WalkBoxes ==
  ASSUME TreeInv, GeomInv, ~Packed, root # None, NEW x \in Coords,
         NEW path, path = Traversed(x)[root], NEW z, z = coord[node[path[Len(path)]].point]
  PROVE  /\ z \in Coords
         /\ \A i \in 1..(Len(path) - 1) : MetAt(BoxOf(path[i]), x, z)
         /\ (\E q \in Points : Present(q) /\ coord[q] = x) => z = x
<1>0. WellFormed
  BY DEF TreeInv
<1> PICK last : last = path[Len(path)]
  OBVIOUS
<1>1. /\ Len(path) \in Nat /\ last \in LiveNodes /\ last \in Leaves
      /\ \A i \in 1..Len(path) - 1 :
           i \in 1..Len(path) /\ path[i] \in LiveNodes /\ path[i] \in Internals
  BY <1>0, WalkFacts
<1>2. z \in Coords /\ BoxOf(last) = FromPoint(z)
  BY <1>1, BoxOfLive DEF BoxOf
<1>3. ASSUME NEW i \in 1..(Len(path) - 1)
      PROVE  MetAt(BoxOf(path[i]), x, z)
  <2> PICK n : n = path[i]
    OBVIOUS
  <2>1. n \in LiveNodes /\ n \in Internals /\ n \in Chain(last)
    BY <1>0, <1>1, <1>3, WalkUp
  <2>2. Within(FromPoint(z), BoxOf(n))
    BY <1>1, <1>2, <2>1, PathWithin
  <2>3. BoxOf(n) \in Boxes /\ Ordered(BoxOf(n)) /\ ProbabilityOfCut(BoxOf(n), x).denom > 0
    BY <2>1, InnerSpan
  <2> QED
    BY <2>2, <2>3 DEF MetAt, Within, FromPoint
<1>4. ASSUME NEW q \in Points, Present(q), coord[q] = x
      PROVE  z = x
  BY <1>4, WalkStored
<1> QED
  BY <1>2, <1>3, <1>4

LEMMA CutsCounted ==
  ASSUME TreeInv, GeomInv PROVE ProbabilityIsShareOfCuts
<1> SUFFICES ASSUME ~Packed, adding = None, root # None, NEW x \in Coords,
                    NEW i \in 1..(Len(Traversed(x)[root]) - 1)
             PROVE  LET b == BoxOf(Traversed(x)[root][i])
                        a == Extend(b, x)
                        draws == UNION {{[dim |-> d, value |-> v] : v \in a.min[d]..(a.max[d] - 1)} : d \in Axes}
                        p == ProbabilityOfCut(b, x)
                    IN /\ p.denom = Cardinality(draws)
                       /\ \A d \in Axes : p.per_dim[d] =
                            Cardinality({c \in draws : c.dim = d /\ Isolates(c, x, b)})
                       /\ (\E q \in Points : Present(q) /\ coord[q] = x) =>
                            \A d \in Axes : p.per_dim[d] = 0
  BY DEF ProbabilityIsShareOfCuts
<1> PICK path : path = Traversed(x)[root]
  OBVIOUS
<1> PICK b : b = BoxOf(path[i])
  OBVIOUS
<1> PICK a : a = Extend(b, x)
  OBVIOUS
<1> PICK draws : draws = UNION {{[dim |-> d, value |-> v] : v \in a.min[d]..(a.max[d] - 1)} : d \in Axes}
  OBVIOUS
<1> PICK p : p = ProbabilityOfCut(b, x)
  OBVIOUS
<1> PICK z : z = coord[node[path[Len(path)]].point]
  OBVIOUS
<1>1. MetAt(b, x, z) /\ ((\E q \in Points : Present(q) /\ coord[q] = x) => z = x)
  BY WalkBoxes
<1>2. b \in Boxes /\ Ordered(b) /\ \A d \in Axes : b.min[d] <= z[d] /\ z[d] <= b.max[d]
  BY <1>1 DEF MetAt
<1>3. /\ p.denom = Cardinality(draws)
      /\ \A d \in Axes : p.per_dim[d] =
           Cardinality({c \in draws : c.dim = d /\ Isolates(c, x, b)})
  <2>1. draws = UNION {{[dim |-> d, value |-> v] :
                          v \in Extend(b, x).min[d]..(Extend(b, x).max[d] - 1)} : d \in Axes}
    OBVIOUS
  <2> QED
    BY <1>2, <2>1, DrawsCount
<1>4. \A d \in Axes : p.per_dim[d] = Extension(b, x, d)
  BY DEF ProbabilityOfCut
<1>5. z = x => \A d \in Axes : Extension(b, x, d) = 0
  BY <1>2, ExtensionIs
<1> QED
  BY <1>1, <1>3, <1>4, <1>5

------------------------------------------------------------------------------
(* Boxes and the points below.                                              *)

\* A box reaches in each dimension from one point of the subtree to another.
Spans(n, d) ==
  /\ \A p \in Below(n) : /\ coord[p] \in Coords
                         /\ BoxOf(n).min[d] <= coord[p][d] /\ coord[p][d] <= BoxOf(n).max[d]
  /\ \E p \in Below(n) : coord[p][d] = BoxOf(n).min[d]
  /\ \E p \in Below(n) : coord[p][d] = BoxOf(n).max[d]

LEMMA BoxSpansPoints ==
  ASSUME TreeInv, GeomInv, ~Packed, NEW n \in LiveNodes, NEW d \in Axes
  PROVE  Spans(n, d)
<1>0. WellFormed /\ TypeOK
  BY DEF TreeInv, WellFormed
<1> DEFINE S == {m \in LiveNodes : ~Spans(m, d)}
<1>1. S = {}
  <2> SUFFICES ASSUME S # {} PROVE FALSE
    OBVIOUS
  <2>1. PICK m \in S : m \in Internals =>
          node[m].left \in LiveNodes \ S /\ node[m].right \in LiveNodes \ S
    <3>1. S \in SUBSET LiveNodes
      OBVIOUS
    <3> HIDE DEF S
    <3> QED
      BY <1>0, <3>1, Lightest
  <2>2. CASE m \in Leaves
    <3> PICK z : z = coord[node[m].point]
      OBVIOUS
    <3>1. z \in Coords /\ BoxOf(m) = FromPoint(z) /\ Below(m) = Sharers(m)
      BY <1>0, <2>1, <2>2, BoxOfLive, BelowParts DEF BoxOf
    <3>2. node[m].point \in Below(m)
      BY <1>0, <2>1, <2>2, <3>1 DEF WellFormed, MassIsCount
    <3>3. m # None
      BY <2>2, TreeAssumption DEF Nodes
    <3>4. \A p \in Below(m) : coord[p] = z
      BY <3>1, <3>3 DEF TreeInv, CoordInv, Sharers, Present
    <3>5. z[d] \in Int /\ BoxOf(m).min[d] = z[d] /\ BoxOf(m).max[d] = z[d]
      <4>1. z[d] \in Int
        BY <3>1, PointBox, MarksAreInts
      <4>2. BoxOf(m).min = z /\ BoxOf(m).max = z
        BY <3>1 DEF FromPoint
      <4> QED
        BY <4>1, <4>2
    <3>6. Spans(m, d)
      BY <3>1, <3>2, <3>4, <3>5 DEF Spans
    <3> QED
      BY <2>1, <3>6
  <2>3. CASE m \in Internals
    <3> PICK l : l = node[m].left
      OBVIOUS
    <3> PICK r : r = node[m].right
      OBVIOUS
    <3>1. /\ l \in LiveNodes /\ r \in LiveNodes /\ Spans(l, d) /\ Spans(r, d)
          /\ Below(m) = Below(l) \cup Below(r)
      BY <1>0, <2>1, <2>3, BelowParts
    <3>2. BoxOf(l) \in Boxes /\ BoxOf(r) \in Boxes
      BY <3>1, BoxOfLive
    <3>3. BoxOf(m) = Merged(BoxOf(l), BoxOf(r))
      <4>1. m \notin Leaves
        BY <2>3, NodesFinite
      <4> QED
        BY <2>1, <2>3, <4>1 DEF GeomInv, BoxesTight, BoxOf
    <3>4. /\ BoxOf(m).min[d] = Lower(BoxOf(l).min[d], BoxOf(r).min[d])
          /\ BoxOf(m).max[d] = Upper(BoxOf(l).max[d], BoxOf(r).max[d])
      BY <3>2, <3>3, MergedAt
    <3>5. /\ BoxOf(l).min[d] \in Int /\ BoxOf(l).max[d] \in Int
          /\ BoxOf(r).min[d] \in Int /\ BoxOf(r).max[d] \in Int
      BY <3>2, BoxAt
    <3>6. ASSUME NEW p \in Below(m)
          PROVE  /\ coord[p] \in Coords
                 /\ BoxOf(m).min[d] <= coord[p][d] /\ coord[p][d] <= BoxOf(m).max[d]
      <4>1. coord[p] \in Coords
        BY <3>1, <3>6 DEF Spans
      <4>2. coord[p][d] \in Int
        BY <4>1, PointBox, MarksAreInts
      <4>3. \/ BoxOf(l).min[d] <= coord[p][d] /\ coord[p][d] <= BoxOf(l).max[d]
            \/ BoxOf(r).min[d] <= coord[p][d] /\ coord[p][d] <= BoxOf(r).max[d]
        BY <3>1, <3>6 DEF Spans
      <4> QED
        BY <3>4, <3>5, <4>1, <4>2, <4>3 DEF Lower, Upper
    <3>7. /\ \E p \in Below(m) : coord[p][d] = BoxOf(m).min[d]
          /\ \E p \in Below(m) : coord[p][d] = BoxOf(m).max[d]
      BY <3>1, <3>4 DEF Spans, Lower, Upper
    <3>8. Spans(m, d)
      BY <3>6, <3>7 DEF Spans
    <3> QED
      BY <2>1, <3>8
  <2> QED
    BY <1>0, <2>1, <2>2, <2>3, LiveNode
<1> QED
  BY <1>1

\* A box holds a query where the points below surround it in each dimension.
LEMMA Surrounded ==
  ASSUME TreeInv, GeomInv, ~Packed, NEW n \in LiveNodes, NEW x \in Coords
  PROVE  (\A d \in Axes : BoxOf(n).min[d] <= x[d] /\ x[d] <= BoxOf(n).max[d])
         <=> (\A d \in Axes : \E p, q \in Below(n) : coord[p][d] <= x[d] /\ x[d] <= coord[q][d])
<1>1. ASSUME NEW d \in Axes
      PROVE  (BoxOf(n).min[d] <= x[d] /\ x[d] <= BoxOf(n).max[d])
             <=> (\E p, q \in Below(n) : coord[p][d] <= x[d] /\ x[d] <= coord[q][d])
  <2>1. Spans(n, d)
    BY BoxSpansPoints
  <2>2. \A p \in Below(n) : coord[p][d] \in Int
    BY <2>1, PointBox, MarksAreInts DEF Spans
  <2>3. x[d] \in Int /\ BoxOf(n).min[d] \in Int /\ BoxOf(n).max[d] \in Int
    BY BoxOfLive, BoxAt, PointBox, MarksAreInts
  <2>4. ASSUME NEW p \in Below(n), NEW q \in Below(n), coord[p][d] <= x[d], x[d] <= coord[q][d]
        PROVE  BoxOf(n).min[d] <= x[d] /\ x[d] <= BoxOf(n).max[d]
    BY <2>1, <2>2, <2>3, <2>4 DEF Spans
  <2> QED
    BY <2>1, <2>4 DEF Spans
<1> QED
  BY <1>1

------------------------------------------------------------------------------
(* What a node adds to a score, and to an attribution.                      *)

LEMMA Reorder ==
  ASSUME NEW s \in Int, NEW k \in Int, NEW a \in Int, NEW w \in Int
  PROVE  /\ ((s * k) * a) * w = s * ((k * a) * w)
         /\ (k * a) * w \in Int /\ (s * k) * a = s * (k * a)
OBVIOUS

LEMMA MultipleDivided ==
  ASSUME NEW u \in Int, NEW s \in Nat, s > 0, u % s = 0, NEW a \in Int, NEW w \in Int
  PROVE  /\ u \div s \in Int /\ u = s * (u \div s)
         /\ ((u * a) * w) \div s = ((u \div s) * a) * w
<1> PICK k \in Int : k = u \div s
  BY DivideExactly
<1>1. u = s * k
  BY DivideExactly
<1>2. ((s * k) * a) * w = s * ((k * a) * w) /\ (k * a) * w \in Int
  BY Reorder
<1>3. (s * ((k * a) * w)) \div s = (k * a) * w
  BY <1>2, DivideExactly
<1> QED
  BY <1>1, <1>2, <1>3

LEMMA WeightsAreInts ==
  ASSUME WellFormed, root # None, NEW n \in LiveNodes, NEW depth \in Nat
  PROVE  /\ Seen(depth, MassOf(n)) \in Int /\ Unseen(depth, MassOf(n)) \in Int
         /\ Damp(MassOf(n)) \in Int /\ AtLeaf(n, depth) \in Int
<1>1. MassOf(n) \in Nat /\ MassOf(n) > 0
  BY LiveNode DEF WellFormed, MassOf
<1>2. MassOf(root) \in Nat
  <2>1. root \in LiveNodes
    BY DEF WellFormed, TypeOK, RootInv, LiveNodes
  <2> QED
    BY <2>1, LiveNode DEF WellFormed, MassOf
<1> PICK u : u = Unseen(depth, MassOf(n))
  OBVIOUS
<1>3. u \in Int
  BY <1>1 DEF Unseen
<1>4. Seen(depth, MassOf(n)) \in Int
  <2>1. u > 0 => 12 \div u \in Int
    BY <1>3
  <2> QED
    BY <2>1 DEF Seen
<1>5. Damp(MassOf(n)) \in Int
  BY <1>1, <1>2 DEF Damp
<1>6. \A a, w \in Int : (Unit * a) * w \in Int
  BY UnitAssumption
<1>7. AtLeaf(n, depth) \in Int
  BY <1>4, <1>5, <1>6 DEF AtLeaf
<1> QED
  BY <1>3, <1>4, <1>5, <1>7

\* What a node adds where the query lies outside its points, and among them.
Outer(n, depth, x) == Dampened(n, depth, TotalProbabilityOfCut(BoxOf(n), x))
Inside(n, depth)   == Dampened(n, depth, <<0, 1>>)

\* Every unit by which the query lies outside is credited c.
SharedOut(c, e, n, depth, x) ==
  /\ c \in Int
  /\ c * e = IF e = 0 THEN 0 ELSE Outer(n, depth, x)
  /\ \A d \in Axes : Share(n, depth, x, d) = c * Extension(BoxOf(n), x, d)

\* What a node adds is cut into its shares without remainder.
LEMMA NodeShares ==
  ASSUME WellFormed, root # None, NEW n \in LiveNodes, NEW depth \in Nat, NEW x \in Coords,
         NEW z, MetAt(BoxOf(n), x, z), NEW e, e = SumFunction(ProbabilityOfCut(BoxOf(n), x).per_dim)
  PROVE  /\ e \in Nat /\ Outer(n, depth, x) \in Int /\ Inside(n, depth) \in Int
         /\ e = 0 => Outer(n, depth, x) = Inside(n, depth)
         /\ \E c : SharedOut(c, e, n, depth, x)
<1> PICK b : b = BoxOf(n)
  OBVIOUS
<1> PICK t : t = TotalProbabilityOfCut(b, x)
  OBVIOUS
<1> PICK p : p = ProbabilityOfCut(b, x)
  OBVIOUS
<1> PICK s : s = p.denom
  OBVIOUS
<1>1. /\ e \in Nat /\ s \in Nat /\ s > 0 /\ t = <<e, s>> /\ t[1] = e /\ t[2] = s
      /\ \A d \in Axes : p.per_dim[d] = Extension(b, x, d) /\ p.per_dim[d] \in Nat
  BY ProbabilityIs DEF MetAt
<1>2. /\ Unit \in Nat /\ Unit % s = 0
      /\ e > 0 => (Unit \div s) % e = 0
  <2>1. Divides(b, x)
    BY UnitAssumption DEF MetAt, Ordered
  <2> QED
    BY <1>1, <2>1, UnitAssumption DEF Divides
<1> PICK seen \in Int : seen = Seen(depth, MassOf(n))
  BY WeightsAreInts
<1> PICK unseen \in Int : unseen = Unseen(depth, MassOf(n))
  BY WeightsAreInts
<1> PICK w \in Int : w = Damp(MassOf(n))
  BY WeightsAreInts
<1> PICK a \in Int : a = (s - e) * seen + e * unseen
  BY <1>1
<1>8. Unit \in Int /\ s \in Nat /\ s > 0 /\ Unit % s = 0
  BY <1>1, <1>2
<1> PICK k \in Int : k = Unit \div s
  BY <1>8, DivideExactly
<1>9. Unit = s * k
  BY <1>8, DivideExactly
<1>3. Outer(n, depth, x) = (k * a) * w /\ (k * a) * w \in Int
  <2>1. Dampened(n, depth, t) = ((Unit * a) * w) \div s
    BY <1>1 DEF Dampened
  <2>2. ((Unit * a) * w) \div s = (k * a) * w
    BY <1>8, MultipleDivided
  <2>3. Outer(n, depth, x) = Dampened(n, depth, t)
    BY DEF Outer
  <2> QED
    BY <2>1, <2>2, <2>3, Reorder
<1>4. Inside(n, depth) = (Unit * seen) * w /\ (Unit * seen) * w \in Int
  <2>1. (1 - 0) * seen + 0 * unseen = seen
    OBVIOUS
  <2>2. Inside(n, depth) = ((Unit * seen) * w) \div 1
    BY <2>1 DEF Dampened, Inside
  <2>3. (Unit * seen) * w \in Int
    BY <1>2, Reorder
  <2> QED
    BY <2>2, <2>3
<1>5. ASSUME e = 0
      PROVE  (k * a) * w = (Unit * seen) * w
  <2>1. a = s * seen
    BY <1>1, <1>5
  <2>2. (s * k) * seen = k * (s * seen)
    BY <1>1
  <2>3. (k * a) * w = (Unit * seen) * w
    BY <1>9, <2>1, <2>2
  <2> QED
    BY <2>3
<1>6. CASE e = 0
  <2>1. \A d \in Axes : Share(n, depth, x, d) = 0
    BY <1>6 DEF Share
  <2>2. \A d \in Axes : 0 * Extension(b, x, d) = 0
    BY <1>1
  <2>3. SharedOut(0, e, n, depth, x)
    BY <1>6, <2>1, <2>2 DEF SharedOut
  <2> QED
    BY <1>1, <1>3, <1>4, <1>5, <1>6, <2>3
<1>7. CASE e > 0
  <2>1. e \in Nat /\ e > 0 /\ k % e = 0
    BY <1>1, <1>2, <1>7
  <2> PICK j \in Int : j = k \div e
    BY <2>1, DivideExactly
  <2>2. k = e * j
    BY <2>1, DivideExactly
  <2> PICK c \in Int : c = (j * a) * w
    BY Reorder
  <2>3. (k * a) * w = e * c
    BY <2>1, <2>2, Reorder
  <2>4. ASSUME NEW d \in Axes
        PROVE  Share(n, depth, x, d) = c * Extension(b, x, d)
    <3> PICK q \in Int : q = Extension(b, x, d) /\ q = p.per_dim[d]
      BY <1>1
    <3>1. Share(n, depth, x, d) = ((e * c) * q) \div e
      <4>1. Dampened(n, depth, <<e, p.denom>>) = e * c
        BY <1>1, <1>3, <2>3 DEF Outer
      <4> QED
        BY <2>1, <4>1 DEF Share
    <3>2. (e * c) * q = e * (c * q) /\ c * q \in Int
      BY <1>1, Reorder
    <3>3. (e * (c * q)) \div e = c * q
      BY <2>1, <3>2, DivideExactly
    <3> QED
      BY <3>1, <3>2, <3>3
  <2>5. c * e = Outer(n, depth, x)
    <3>1. c * e = e * c
      BY <1>1
    <3> QED
      BY <1>3, <2>3, <3>1
  <2>6. SharedOut(c, e, n, depth, x)
    BY <2>1, <2>4, <2>5 DEF SharedOut
  <2> QED
    BY <1>1, <1>3, <1>4, <2>1, <2>6
<1> QED
  BY <1>1, <1>6, <1>7

\* The side an axis is credited on.
LEMMA NodeSides ==
  ASSUME WellFormed, root # None, NEW n \in LiveNodes, NEW depth \in Nat, NEW x \in Coords,
         NEW z \in Coords, NEW b, b = BoxOf(n), MetAt(b, x, z), NEW d \in Axes,
         NEW r, r = Routing(n, depth, x, d)
  PROVE  /\ r \in [high : Int, low : Int]
         /\ r.high + r.low = Share(n, depth, x, d)
         /\ r.high # 0 => x[d] > z[d]
         /\ r.low # 0 => x[d] < z[d]
<1>1. /\ x[d] \in Int /\ b.min[d] \in Int /\ b.max[d] \in Int /\ b.min[d] <= z[d] /\ z[d] <= b.max[d]
      /\ Extension(b, x, d) \in Nat
      /\ Extension(b, x, d) = 0 <=> b.min[d] <= x[d] /\ x[d] <= b.max[d]
  BY ExtensionIs DEF MetAt
<1>2. z[d] \in Int
  BY PointBox, MarksAreInts
<1>3. PICK c \in Int : Share(n, depth, x, d) = c * Extension(b, x, d)
  BY NodeShares DEF SharedOut
<1> PICK share \in Int : share = Share(n, depth, x, d)
  BY <1>1, <1>3
<1>4. CASE x[d] > b.max[d]
  <2>1. r = [high |-> share, low |-> 0]
    BY <1>1, <1>2, <1>4 DEF Routing
  <2>2. x[d] > z[d]
    BY <1>1, <1>2, <1>4
  <2> QED
    BY <2>1, <2>2
<1>5. CASE x[d] < b.min[d]
  <2>1. r = [high |-> 0, low |-> share]
    BY <1>1, <1>2, <1>5 DEF Routing
  <2>2. x[d] < z[d]
    BY <1>1, <1>2, <1>5
  <2> QED
    BY <2>1, <2>2
<1>6. CASE b.min[d] <= x[d] /\ x[d] <= b.max[d]
  <2>1. r = [high |-> 0, low |-> 0]
    BY <1>1, <1>6 DEF Routing
  <2>2. share = 0
    BY <1>1, <1>3, <1>6
  <2> QED
    BY <2>1, <2>2
<1> QED
  BY <1>1, <1>4, <1>5, <1>6

Outers(x, path, k)   == [i \in 1..k |-> Outer(path[i], i - 1, x)]
Highs(x, path, d, k) == [i \in 1..k |-> Routing(path[i], i - 1, x, d).high]
Lows(x, path, d, k)  == [i \in 1..k |-> Routing(path[i], i - 1, x, d).low]
Around(x, path)      == {i \in 1..(Len(path) - 1) : \A d \in Axes :
                           \E p, q \in Below(path[i]) : coord[p][d] <= x[d] /\ x[d] <= coord[q][d]}

\* A walk of a query through a tree between calls.
Walk(x, path) ==
  /\ TreeInv /\ GeomInv /\ ~Packed /\ root # None /\ x \in Coords
  /\ path = Traversed(x)[root]

LEMMA WalkSteps ==
  ASSUME NEW x, NEW path, Walk(x, path), NEW z, z = coord[node[path[Len(path)]].point]
  PROVE  /\ WellFormed /\ Len(path) - 1 \in Nat /\ path[Len(path)] \in LiveNodes
         /\ \A i \in 1..(Len(path) - 1) :
              /\ path[i] \in LiveNodes /\ i - 1 \in Nat /\ MetAt(BoxOf(path[i]), x, z)
         /\ z \in Coords
         /\ (\E q \in Points : Present(q) /\ coord[q] = x) => z = x
<1>1. WellFormed
  BY DEF Walk, TreeInv
<1>2. Len(path) \in Nat /\ Len(path) > 0 /\ path[Len(path)] \in LiveNodes
      /\ \A i \in 1..Len(path) - 1 : path[i] \in LiveNodes
  BY <1>1, WalkFacts DEF Walk
<1>3. /\ z \in Coords
      /\ \A i \in 1..(Len(path) - 1) : MetAt(BoxOf(path[i]), x, z)
      /\ (\E q \in Points : Present(q) /\ coord[q] = x) => z = x
  BY WalkBoxes DEF Walk
<1>4. \A i \in 1..(Len(path) - 1) : i - 1 \in Nat
  BY <1>2
<1> QED
  BY <1>1, <1>2, <1>3, <1>4

LEMMA WalkTerms ==
  ASSUME NEW x, NEW path, Walk(x, path), NEW k \in Nat, k <= Len(path) - 1
  PROVE  /\ Outers(x, path, k) \in [1..k -> Int]
         /\ \A d \in Axes : Highs(x, path, d, k) \in [1..k -> Int] /\ Lows(x, path, d, k) \in [1..k -> Int]
<1> PICK z : z = coord[node[path[Len(path)]].point]
  OBVIOUS
<1>1. ASSUME NEW i \in 1..k
      PROVE  /\ Outer(path[i], i - 1, x) \in Int
             /\ \A d \in Axes : Routing(path[i], i - 1, x, d) \in [high : Int, low : Int]
  <2>1. WellFormed /\ i \in 1..(Len(path) - 1) /\ root # None /\ x \in Coords /\ z \in Coords
    BY <1>1, WalkSteps DEF Walk
  <2>2. path[i] \in LiveNodes /\ i - 1 \in Nat /\ MetAt(BoxOf(path[i]), x, z)
    BY <2>1, WalkSteps
  <2> QED
    BY <2>1, <2>2, NodeShares, NodeSides
<1> QED
  BY <1>1 DEF Outers, Highs, Lows

Credits(n, depth, x) ==
  [d \in Axes |-> Routing(n, depth, x, d).high + Routing(n, depth, x, d).low]

\* What a node credits to all dimensions: nothing, or all it adds.
LEMMA NodeCredits ==
  ASSUME NEW x, NEW path, Walk(x, path), NEW i \in 1..(Len(path) - 1),
         NEW n, n = path[i], NEW depth, depth = i - 1, NEW f, f = Credits(n, depth, x)
  PROVE  /\ f \in [Axes -> Int] /\ Outer(n, depth, x) \in Int /\ Inside(n, depth) \in Int
         /\ i \in Around(x, path) => Sum(f) = 0 /\ Outer(n, depth, x) = Inside(n, depth)
         /\ i \notin Around(x, path) => Sum(f) = Outer(n, depth, x)
<1> PICK z : z = coord[node[path[Len(path)]].point]
  OBVIOUS
<1> PICK b : b = BoxOf(n)
  OBVIOUS
<1> PICK g : g = ProbabilityOfCut(b, x).per_dim
  OBVIOUS
<1> PICK e : e = SumFunction(g)
  OBVIOUS
<1>1. /\ WellFormed /\ root # None /\ n \in LiveNodes /\ depth \in Nat /\ x \in Coords /\ z \in Coords
      /\ MetAt(b, x, z)
  <2>1. depth \in Nat
    BY WalkSteps
  <2> QED
    BY <2>1, WalkSteps DEF Walk
<1>2. /\ g \in [Axes -> Nat] /\ e = Sum(g)
      /\ e = 0 <=> \A d \in Axes : b.min[d] <= x[d] /\ x[d] <= b.max[d]
  <2>1. b \in Boxes /\ Ordered(b) /\ x \in Coords
    BY <1>1 DEF MetAt
  <2>2. /\ g \in [Axes -> Nat]
        /\ e = 0 <=> \A d \in Axes : b.min[d] <= x[d] /\ x[d] <= b.max[d]
    BY SMTT(30), <2>1, ProbabilityIs
  <2>3. e = Sum(g)
    BY SumFunctionIs
  <2> QED
    BY <2>2, <2>3
<1>3. e = 0 <=> i \in Around(x, path)
  BY <1>1, <1>2, Surrounded DEF Around, Walk
<1>4. /\ e \in Nat /\ Outer(n, depth, x) \in Int /\ Inside(n, depth) \in Int
      /\ e = 0 => Outer(n, depth, x) = Inside(n, depth)
      /\ \E c : SharedOut(c, e, n, depth, x)
  BY <1>1, NodeShares
<1> PICK c \in Int : SharedOut(c, e, n, depth, x)
  BY <1>4 DEF SharedOut
<1>5. /\ c * e = IF e = 0 THEN 0 ELSE Outer(n, depth, x)
      /\ \A d \in Axes : Share(n, depth, x, d) = c * Extension(b, x, d)
  BY DEF SharedOut
<1>6. \A d \in Axes : g[d] = Extension(b, x, d) /\ g[d] \in Int
  BY <1>2 DEF ProbabilityOfCut
<1>7. \A d \in Axes : f[d] = c * g[d] /\ f[d] \in Int
  <2>1. \A d \in Axes : f[d] = Share(n, depth, x, d)
    BY <1>1, NodeSides DEF Credits
  <2> QED
    BY <1>5, <1>6, <2>1
<1>10. f \in [Axes -> Int]
  BY <1>7 DEF Credits
<1>8. Sum(f) = c * e
  <2> PICK o : o = [d \in Axes |-> 0]
    OBVIOUS
  <2>1. o \in [Axes -> Nat] /\ \A d \in Axes : o[d] = 0
    OBVIOUS
  <2>2. Sum(o) = 0
    BY <2>1, AxesFinite, SumOfNats
  <2>3. Combines(f, o, c, g, Axes)
    <3>1. f \in [Axes -> Int] /\ g \in [Axes -> Int] /\ o \in [Axes -> Int]
      BY <1>2, <1>10, <2>1
    <3>2. \A d \in Axes : f[d] = o[d] + c * g[d]
      <4>1. \A d \in Axes : c * g[d] \in Int
        BY <1>6
      <4> QED
        BY <1>7, <2>1, <4>1
    <3> QED
      BY <3>1, <3>2 DEF Combines
  <2>4. Sum(f) = Sum(o) + c * Sum(g)
    BY <2>3, AxesFinite, SumsAddUp
  <2>5. c * e \in Int
    BY <1>4
  <2> QED
    BY <1>2, <2>2, <2>4, <2>5
<1> QED
  BY <1>3, <1>4, <1>5, <1>8, <1>10

\* The credits of all nodes, and what the surrounded ones add, make up the sum.
LEMMA CreditsMakeUp ==
  ASSUME NEW x, NEW path, Walk(x, path), NEW k, k = Len(path) - 1
  PROVE  Sum(Outers(x, path, k)) =
           Sum([d \in Axes |-> Sum(Highs(x, path, d, k)) + Sum(Lows(x, path, d, k))])
             + Sum([i \in Around(x, path) |-> Inside(path[i], i - 1)])
<1> PICK F : F = [i \in 1..k |-> Credits(path[i], i - 1, x)]
  OBVIOUS
<1> PICK around : around = Around(x, path)
  OBVIOUS
<1> PICK inside : inside = [i \in around |-> Inside(path[i], i - 1)]
  OBVIOUS
<1> PICK rest : rest = [i \in 1..k |-> IF i \in around THEN Inside(path[i], i - 1) ELSE 0]
  OBVIOUS
<1> PICK outers : outers = Outers(x, path, k)
  OBVIOUS
<1>1. k \in Nat /\ IsFiniteSet(1..k) /\ around \in SUBSET (1..k)
  <2>1. k \in Nat /\ 1 \in Int /\ k \in Int
    BY WalkSteps
  <2>2. IsFiniteSet(1..k)
    BY <2>1, FS_Interval
  <2> QED
    BY <2>1, <2>2 DEF Around
<1>2. \A i \in 1..k :
        /\ F[i] \in [Axes -> Int] /\ outers[i] \in Int /\ rest[i] \in Int
        /\ outers[i] = Sum(F[i]) + 1 * rest[i]
  <2> SUFFICES ASSUME NEW i \in 1..k
               PROVE  /\ F[i] \in [Axes -> Int] /\ outers[i] \in Int /\ rest[i] \in Int
                      /\ outers[i] = Sum(F[i]) + 1 * rest[i]
    OBVIOUS
  <2> PICK f : f = F[i]
    OBVIOUS
  <2> PICK n : n = path[i]
    OBVIOUS
  <2> PICK depth : depth = i - 1
    OBVIOUS
  <2>1. i \in 1..(Len(path) - 1) /\ f = Credits(n, depth, x)
    OBVIOUS
  <2>2. /\ f \in [Axes -> Int] /\ Outer(n, depth, x) \in Int /\ Inside(n, depth) \in Int
        /\ i \in Around(x, path) => Sum(f) = 0 /\ Outer(n, depth, x) = Inside(n, depth)
        /\ i \notin Around(x, path) => Sum(f) = Outer(n, depth, x)
    BY <2>1, NodeCredits
  <2>3. /\ outers[i] = Outer(n, depth, x)
        /\ rest[i] = IF i \in around THEN Inside(n, depth) ELSE 0
    BY DEF Outers
  <2> QED
    BY <2>2, <2>3
<1>3. Sum(outers) = Sum(RowSums(F, 1..k)) + 1 * Sum(rest)
  <2>1. \A i \in 1..k : Sum(F[i]) \in Int
    BY <1>2, AxesFinite, SumType
  <2>2. Combines(outers, RowSums(F, 1..k), 1, rest, 1..k)
    <3>1. outers \in [1..k -> Int] /\ rest \in [1..k -> Int]
      BY <1>2 DEF Outers
    <3>2. RowSums(F, 1..k) \in [1..k -> Int] /\ \A i \in 1..k : RowSums(F, 1..k)[i] = Sum(F[i])
      BY <2>1 DEF RowSums
    <3> QED
      BY <1>2, <3>1, <3>2 DEF Combines
  <2> QED
    BY <1>1, <2>2, SumsAddUp
<1>4. Sum(rest) = Sum(inside)
  <2> PICK D : D = 1..k
    OBVIOUS
  <2>1. /\ IsFiniteSet(D) /\ around \in SUBSET D
        /\ inside \in [around -> Int] /\ rest \in [D -> Int]
    BY <1>1, <1>2
  <2>2. (\A i \in around : inside[i] = rest[i]) /\ (\A i \in D \ around : rest[i] = 0)
    BY <1>1
  <2>3. LeavesOutNoughts(inside, rest, around, D)
    BY <2>1, <2>2 DEF LeavesOutNoughts
  <2> QED
    BY <2>1, <2>3, SumWithoutNoughts
<1>5. Sum(RowSums(F, 1..k)) = Sum(ColumnSums(F, 1..k, Axes))
  BY <1>1, <1>2, AxesFinite, SumsSwap
<1>6. ColumnSums(F, 1..k, Axes) = [d \in Axes |-> Sum(Highs(x, path, d, k)) + Sum(Lows(x, path, d, k))]
  <2>1. ASSUME NEW d \in Axes
        PROVE  Sum([i \in 1..k |-> F[i][d]]) = Sum(Highs(x, path, d, k)) + Sum(Lows(x, path, d, k))
    <3> PICK f : f = [i \in 1..k |-> F[i][d]]
      OBVIOUS
    <3> PICK high : high = Highs(x, path, d, k)
      OBVIOUS
    <3> PICK low : low = Lows(x, path, d, k)
      OBVIOUS
    <3>1. high \in [1..k -> Int] /\ low \in [1..k -> Int] /\ f \in [1..k -> Int]
      <4>1. k \in Nat /\ k <= Len(path) - 1
        BY <1>1
      <4>2. high \in [1..k -> Int] /\ low \in [1..k -> Int]
        BY <4>1, WalkTerms
      <4> QED
        BY <1>2, <4>2
    <3>2. \A i \in 1..k : f[i] = high[i] + 1 * low[i]
      <4>1. \A i \in 1..k : f[i] = high[i] + low[i] /\ low[i] \in Int
        BY <3>1 DEF Highs, Lows, Credits
      <4> QED
        BY <4>1
    <3>3. Combines(f, high, 1, low, 1..k)
      BY <3>1, <3>2 DEF Combines
    <3>4. Sum(f) = Sum(high) + 1 * Sum(low)
      BY <1>1, <3>3, SumsAddUp
    <3>5. Sum(low) \in Int
      BY <1>1, <3>1, SumType
    <3> QED
      BY <3>4, <3>5
  <2> QED
    BY <2>1 DEF ColumnSums
<1>7. Sum(inside) \in Int
  <2>1. IsFiniteSet(around) /\ inside \in [around -> Int]
    <3>1. \A i \in around : inside[i] = rest[i] /\ rest[i] \in Int
      BY <1>1, <1>2
    <3> QED
      BY <1>1, <3>1, FS_Subset
  <2> QED
    BY <2>1, SumType
<1> QED
  BY <1>3, <1>4, <1>5, <1>6, <1>7

LEMMA ScalarIs ==
  ASSUME NEW x, NEW path, path = Traversed(x)[root]
  PROVE  ScalarScore(x) = AtLeaf(path[Len(path)], Len(path) - 1) + Sum(Outers(x, path, Len(path) - 1))
<1>1. Outers(x, path, Len(path) - 1) =
        [i \in 1..(Len(path) - 1) |-> Dampened(path[i], i - 1, TotalProbabilityOfCut(BoxOf(path[i]), x))]
  BY DEF Outers, Outer
<1> QED
  BY <1>1, SumFunctionIs DEF ScalarScore

\* The two sides of an axis, summed over the first k nodes.
SidesOf(x, path, d, k) == [high |-> Sum(Highs(x, path, d, k)), low |-> Sum(Lows(x, path, d, k))]

LEMMA AttributionIs ==
  ASSUME NEW x, NEW path, path = Traversed(x)[root]
  PROVE  Attribution(x) = [d \in Axes |-> SidesOf(x, path, d, Len(path) - 1)]
<1>1. \A d \in Axes :
        /\ SumFunction([i \in 1..(Len(path) - 1) |-> Routing(path[i], i - 1, x, d).high])
             = Sum(Highs(x, path, d, Len(path) - 1))
        /\ SumFunction([i \in 1..(Len(path) - 1) |-> Routing(path[i], i - 1, x, d).low])
             = Sum(Lows(x, path, d, Len(path) - 1))
  BY SumFunctionIs DEF Highs, Lows
<1>2. Attribution(x) = [d \in Axes |->
        [high |-> SumFunction([i \in 1..(Len(path) - 1) |-> Routing(path[i], i - 1, x, d).high]),
         low  |-> SumFunction([i \in 1..(Len(path) - 1) |-> Routing(path[i], i - 1, x, d).low])]]
  BY DEF Attribution
<1> QED
  BY <1>1, <1>2 DEF SidesOf

\* A credit to a side says where the last leaf's point z lies.
Sided(r, x, z, d) == (r.high # 0 => x[d] > z[d]) /\ (r.low # 0 => x[d] < z[d])

LEMMA RoutedAside ==
  ASSUME WellFormed, root # None, NEW n \in LiveNodes, NEW depth \in Nat, NEW x \in Coords,
         NEW z \in Coords, MetAt(BoxOf(n), x, z), NEW d \in Axes
  PROVE  Sided(Routing(n, depth, x, d), x, z, d)
<1> PICK b : b = BoxOf(n)
  OBVIOUS
<1> PICK r : r = Routing(n, depth, x, d)
  OBVIOUS
<1>1. (r.high # 0 => x[d] > z[d]) /\ (r.low # 0 => x[d] < z[d])
  BY NodeSides
<1> QED
  BY <1>1 DEF Sided

\* No axis is credited on both sides, and none by a point in the tree.
LEMMA OneSide ==
  ASSUME NEW x, NEW path, Walk(x, path), NEW d \in Axes,
         NEW r, r = SidesOf(x, path, d, Len(path) - 1)
  PROVE  /\ r.high \in Int /\ r.low \in Int
         /\ r.high = 0 \/ r.low = 0
         /\ (\E q \in Points : Present(q) /\ coord[q] = x) => r = [high |-> 0, low |-> 0]
<1> PICK z : z = coord[node[path[Len(path)]].point]
  OBVIOUS
<1> PICK k : k = Len(path) - 1
  OBVIOUS
<1> PICK high : high = Highs(x, path, d, k)
  OBVIOUS
<1> PICK low : low = Lows(x, path, d, k)
  OBVIOUS
<1>1. k \in Nat /\ k <= Len(path) - 1
  BY WalkSteps
<1>2. high \in [1..k -> Int] /\ low \in [1..k -> Int]
  BY <1>1, WalkTerms
<1>3. IsFiniteSet(1..k)
  BY <1>1, FS_Interval
<1>4. \A i \in 1..k : (high[i] # 0 => x[d] > z[d]) /\ (low[i] # 0 => x[d] < z[d])
  <2> SUFFICES ASSUME NEW i \in 1..k
               PROVE  (high[i] # 0 => x[d] > z[d]) /\ (low[i] # 0 => x[d] < z[d])
    OBVIOUS
  <2> PICK n : n = path[i]
    OBVIOUS
  <2> PICK depth : depth = i - 1
    OBVIOUS
  <2>1. /\ WellFormed /\ root # None /\ n \in LiveNodes /\ depth \in Nat /\ x \in Coords /\ z \in Coords
        /\ MetAt(BoxOf(n), x, z)
    BY WalkSteps DEF Walk
  <2>2. high[i] = Routing(n, depth, x, d).high /\ low[i] = Routing(n, depth, x, d).low
    BY DEF Highs, Lows
  <2>3. Sided(Routing(n, depth, x, d), x, z, d)
    BY <2>1, RoutedAside, Zenon
  <2> QED
    BY <2>2, <2>3, Zenon DEF Sided
<1>5. x[d] \in Int /\ z[d] \in Int
  BY WalkSteps, PointBox, MarksAreInts DEF Walk
<1>6. r = [high |-> Sum(high), low |-> Sum(low)] /\ r.high = Sum(high) /\ r.low = Sum(low)
  BY DEF SidesOf
<1>7. Sum(high) \in Int /\ Sum(low) \in Int
  BY <1>2, <1>3, SumType
<1>8. ASSUME ~(x[d] > z[d])
      PROVE  Sum(high) = 0
  <2>1. \A i \in 1..k : high[i] = 0
    BY <1>4, <1>8
  <2>2. high \in [1..k -> Nat]
    BY <1>2, <2>1
  <2> QED
    BY <1>3, <2>1, <2>2, SumOfNats
<1>9. ASSUME ~(x[d] < z[d])
      PROVE  Sum(low) = 0
  <2>1. \A i \in 1..k : low[i] = 0
    BY <1>4, <1>9
  <2>2. low \in [1..k -> Nat]
    BY <1>2, <2>1
  <2> QED
    BY <1>3, <2>1, <2>2, SumOfNats
<1>10. ~(x[d] > z[d]) \/ ~(x[d] < z[d])
  BY <1>5
<1>11. z = x => ~(x[d] > z[d]) /\ ~(x[d] < z[d])
  BY <1>5
<1>12. (\E q \in Points : Present(q) /\ coord[q] = x) => z = x
  BY WalkSteps
<1> QED
  BY <1>6, <1>7, <1>8, <1>9, <1>10, <1>11, <1>12

------------------------------------------------------------------------------
(* Both in one pass.                                                        *)

SoFar(x, path, k) ==
  [score |-> Sum(Outers(x, path, k)), di |-> [d \in Axes |-> SidesOf(x, path, d, k)]]

\* What the visitor makes of v at the k-th node.
Visited(x, path, k, v) ==
  LET p == ProbabilityOfCut(BoxOf(path[k]), x) IN
  [score |-> v.score + Dampened(path[k], k - 1, <<SumFunction(p.per_dim), p.denom>>),
   di |-> [d \in Axes |->
     LET r == Routing(path[k], k - 1, x, d)
     IN  [high |-> v.di[d].high + r.high, low |-> v.di[d].low + r.low]]]

Nothing == [score |-> 0, di |-> [d \in Axes |-> [high |-> 0, low |-> 0]]]

LEMMA SoFarFirst ==
  ASSUME NEW x, NEW path PROVE SoFar(x, path, 0) = Nothing
<1>1. \A d \in Axes : DOMAIN Highs(x, path, d, 0) = {} /\ DOMAIN Lows(x, path, d, 0) = {}
  BY DEF Highs, Lows
<1>2. DOMAIN Outers(x, path, 0) = {}
  BY DEF Outers
<1>3. Sum(Outers(x, path, 0)) = 0
  BY <1>2, SumOfNone
<1>4. \A d \in Axes : SidesOf(x, path, d, 0) = [high |-> 0, low |-> 0]
  BY <1>1, SumOfNone DEF SidesOf
<1> QED
  BY <1>3, <1>4 DEF SoFar, Nothing

LEMMA SoFarNext ==
  ASSUME NEW x, NEW path, Walk(x, path), NEW k \in Nat, k + 1 <= Len(path) - 1
  PROVE  SoFar(x, path, k + 1) = Visited(x, path, k + 1, SoFar(x, path, k))
<1> PICK m \in Nat : m = k + 1
  OBVIOUS
<1>1. /\ IsFiniteSet(1..k) /\ m \notin 1..k /\ (1..k) \cup {m} = 1..m /\ m \in 1..m /\ m - 1 = k
      /\ 1..k \in SUBSET (1..m)
  <2>1. 1 \in Int /\ k \in Int
    OBVIOUS
  <2>2. IsFiniteSet(1..k)
    BY <2>1, FS_Interval
  <2> QED
    BY <2>2
<1>2. k <= Len(path) - 1 /\ m <= Len(path) - 1
  BY WalkSteps
<1>3. /\ Outers(x, path, k) \in [1..k -> Int] /\ Outers(x, path, m) \in [1..m -> Int]
      /\ \A d \in Axes : /\ Highs(x, path, d, k) \in [1..k -> Int] /\ Lows(x, path, d, k) \in [1..k -> Int]
                         /\ Highs(x, path, d, m) \in [1..m -> Int] /\ Lows(x, path, d, m) \in [1..m -> Int]
  BY <1>2, WalkTerms
<1>4. Sum(Outers(x, path, m)) = Sum(Outers(x, path, k)) + Outer(path[m], m - 1, x)
  <2> PICK f : f = Outers(x, path, k)
    OBVIOUS
  <2> PICK g : g = Outers(x, path, m)
    OBVIOUS
  <2>1. g[m] = Outer(path[m], m - 1, x) /\ \A i \in 1..k : g[i] = f[i]
    BY <1>1 DEF Outers
  <2>2. OneTermMore(g, f, 1..k, m)
    BY <1>1, <1>3, <2>1 DEF OneTermMore
  <2> QED
    BY <1>1, <2>1, <2>2, SumOfOneMore
<1>5. ASSUME NEW d \in Axes, NEW r, r = Routing(path[m], m - 1, x, d)
      PROVE  SidesOf(x, path, d, m) = [high |-> SidesOf(x, path, d, k).high + r.high,
                                       low |-> SidesOf(x, path, d, k).low + r.low]
  <2>1. Sum(Highs(x, path, d, m)) = Sum(Highs(x, path, d, k)) + r.high
    <3> PICK f : f = Highs(x, path, d, k)
      OBVIOUS
    <3> PICK g : g = Highs(x, path, d, m)
      OBVIOUS
    <3>1. g[m] = r.high /\ \A i \in 1..k : g[i] = f[i]
      BY <1>1, <1>5 DEF Highs
    <3>2. OneTermMore(g, f, 1..k, m)
      BY <1>1, <1>3, <3>1 DEF OneTermMore
    <3> QED
      BY <1>1, <3>1, <3>2, SumOfOneMore
  <2>2. Sum(Lows(x, path, d, m)) = Sum(Lows(x, path, d, k)) + r.low
    <3> PICK f : f = Lows(x, path, d, k)
      OBVIOUS
    <3> PICK g : g = Lows(x, path, d, m)
      OBVIOUS
    <3>1. g[m] = r.low /\ \A i \in 1..k : g[i] = f[i]
      BY <1>1, <1>5 DEF Lows
    <3>2. OneTermMore(g, f, 1..k, m)
      BY <1>1, <1>3, <3>1 DEF OneTermMore
    <3> QED
      BY <1>1, <3>1, <3>2, SumOfOneMore
  <2> QED
    BY <2>1, <2>2 DEF SidesOf
<1>6. Outer(path[m], m - 1, x) =
        Dampened(path[m], m - 1, <<SumFunction(ProbabilityOfCut(BoxOf(path[m]), x).per_dim),
                                   ProbabilityOfCut(BoxOf(path[m]), x).denom>>)
  <2> PICK b : b = BoxOf(path[m])
    OBVIOUS
  <2>1. b \in Boxes /\ Ordered(b) /\ x \in Coords
    <3>1. m \in 1..(Len(path) - 1)
      BY <1>2, WalkSteps
    <3> QED
      BY <3>1, WalkSteps DEF MetAt, Walk
  <2>2. TotalProbabilityOfCut(b, x) =
          <<SumFunction(ProbabilityOfCut(b, x).per_dim), ProbabilityOfCut(b, x).denom>>
    BY <2>1, ProbabilityIs
  <2> QED
    BY <2>2 DEF Outer
<1>7. SoFar(x, path, m) = Visited(x, path, m, SoFar(x, path, k))
  <2>1. \A d \in Axes : SidesOf(x, path, d, m) =
           [high |-> SidesOf(x, path, d, k).high + Routing(path[m], m - 1, x, d).high,
            low |-> SidesOf(x, path, d, k).low + Routing(path[m], m - 1, x, d).low]
    BY <1>5
  <2> QED
    BY <1>4, <1>6, <2>1 DEF SoFar, Visited
<1> QED
  BY <1>7

\* The pass that computes both computes both.
LEMMA OnePass ==
  ASSUME NEW x, NEW path, Walk(x, path)
  PROVE  ScoreAndAttribution(x) = [score |-> ScalarScore(x), di |-> Attribution(x)]
<1> DEFINE N == Len(path) - 1
           Step(f) == [k \in 0..Len(path) - 1 |-> IF k = 0 THEN Nothing ELSE Visited(x, path, k, f[k - 1])]
<1>1. path = Traversed(x)[root] /\ N \in Nat
  BY WalkSteps DEF Walk
<1>2. ScoreAndAttribution(x) =
        [(CHOOSE f : f = Step(f))[N] EXCEPT !.score = @ + AtLeaf(path[Len(path)], N)]
  BY <1>1 DEF ScoreAndAttribution, Visited, Nothing
<1> PICK g : g = [k \in 0..N |-> SoFar(x, path, k)]
  OBVIOUS
<1>3. ASSUME NEW k \in 0..N, k # 0
      PROVE  SoFar(x, path, k) = Visited(x, path, k, SoFar(x, path, k - 1)) /\ k - 1 \in 0..N
  <2> PICK j \in Nat : j = k - 1
    BY <1>1, <1>3
  <2>1. j + 1 = k /\ j + 1 <= Len(path) - 1 /\ j \in 0..N
    BY <1>1, <1>3
  <2>2. SoFar(x, path, j + 1) = Visited(x, path, j + 1, SoFar(x, path, j))
    BY <2>1, SoFarNext
  <2> QED
    BY <2>1, <2>2
<1>4. g = Step(g)
  <2>1. \A k \in 0..N : g[k] = IF k = 0 THEN Nothing ELSE Visited(x, path, k, g[k - 1])
    BY <1>3, SoFarFirst
  <2> QED
    BY <2>1
<1>5. PICK h : h = Step(h) /\ h = CHOOSE f : f = Step(f)
  <2> HIDE DEF Step
  <2> QED
    BY <1>4
<1>6. \A k \in 0..N : h[k] = IF k = 0 THEN Nothing ELSE Visited(x, path, k, h[k - 1])
  <2>1. \A k \in 0..N : Step(h)[k] = IF k = 0 THEN Nothing ELSE Visited(x, path, k, h[k - 1])
    OBVIOUS
  <2> HIDE DEF Step, N
  <2> QED
    BY <1>5, <2>1
<1>7. \A k \in 0..N : h[k] = g[k]
  <2> DEFINE S == {k \in 0..N : h[k] = g[k]}
  <2>1. 0 \in S
    BY <1>1, <1>6, SoFarFirst
  <2>2. ASSUME NEW k \in 0..N, k \in S, k + 1 <= N
        PROVE  k + 1 \in S
    <3>1. k + 1 \in 0..N /\ k + 1 # 0 /\ (k + 1) - 1 = k
      BY <1>1, <2>2
    <3>2. h[k + 1] = Visited(x, path, k + 1, h[k])
      BY <1>6, <3>1
    <3>3. g[k + 1] = Visited(x, path, k + 1, g[k])
      BY <1>3, <3>1
    <3> QED
      BY <2>2, <3>1, <3>2, <3>3
  <2>3. \A k \in 0..N : k \in S
    <3> HIDE DEF S, N
    <3> QED
      BY <1>1, <2>1, <2>2, CountUp
  <2> QED
    BY <2>3
<1>8. h[N] = SoFar(x, path, N)
  <2>1. N \in 0..N
    BY <1>1
  <2> HIDE DEF N
  <2> QED
    BY <1>7, <2>1
<1>9. ScoreAndAttribution(x) = [SoFar(x, path, N) EXCEPT !.score = @ + AtLeaf(path[Len(path)], N)]
  <2> HIDE DEF Step, N
  <2> QED
    BY <1>2, <1>5, <1>8
<1>10. Sum(Outers(x, path, N)) + AtLeaf(path[Len(path)], N) = ScalarScore(x)
  <2>1. Sum(Outers(x, path, N)) \in Int
    <3>1. N \in Nat /\ N <= Len(path) - 1 /\ 1 \in Int /\ N \in Int
      BY <1>1
    <3>2. Outers(x, path, N) \in [1..N -> Int] /\ IsFiniteSet(1..N)
      <4> HIDE DEF N
      <4> QED
        BY <3>1, WalkTerms, FS_Interval
    <3> QED
      BY <3>2, SumType
  <2>2. AtLeaf(path[Len(path)], N) \in Int
    BY <1>1, WalkSteps, WeightsAreInts DEF Walk
  <2> QED
    BY <1>1, <2>1, <2>2, ScalarIs
<1>11. Attribution(x) = [d \in Axes |-> SidesOf(x, path, d, N)]
  BY <1>1, AttributionIs
<1> QED
  BY <1>9, <1>10, <1>11 DEF SoFar

\* An attribution splits a score.
LEMMA AttributionSplits ==
  ASSUME TreeInv, GeomInv PROVE AttributionSplitsScore
<1> SUFFICES ASSUME ~Packed, adding = None, root # None, NEW x \in Coords
             PROVE  LET path == Traversed(x)[root]
                        di == Attribution(x)
                        around == {i \in 1..(Len(path) - 1) : \A d \in Axes :
                          \E p, q \in Below(path[i]) : coord[p][d] <= x[d] /\ x[d] <= coord[q][d]}
                    IN  /\ ScalarScore(x) =
                             SumFunction([d \in Axes |-> di[d].high + di[d].low])
                               + SumFunction([i \in around |-> Dampened(path[i], i - 1, <<0, 1>>)])
                               + AtLeaf(path[Len(path)], Len(path) - 1)
                        /\ \A d \in Axes : di[d].high = 0 \/ di[d].low = 0
                        /\ (\E q \in Points : Present(q) /\ coord[q] = x) =>
                             \A d \in Axes : di[d] = [high |-> 0, low |-> 0]
                        /\ ScoreAndAttribution(x) = [score |-> ScalarScore(x), di |-> di]
  BY DEF AttributionSplitsScore
<1> PICK path : path = Traversed(x)[root]
  OBVIOUS
<1> PICK di : di = Attribution(x)
  OBVIOUS
<1> PICK k : k = Len(path) - 1
  OBVIOUS
<1> PICK around : around = Around(x, path)
  OBVIOUS
<1>1. Walk(x, path)
  BY DEF Walk
<1>2. di = [d \in Axes |-> SidesOf(x, path, d, k)]
  BY AttributionIs
<1>3. \A d \in Axes : /\ di[d].high \in Int /\ di[d].low \in Int
                      /\ di[d].high = 0 \/ di[d].low = 0
                      /\ (\E q \in Points : Present(q) /\ coord[q] = x) => di[d] = [high |-> 0, low |-> 0]
  <2>1. ASSUME NEW d \in Axes
        PROVE  /\ di[d].high \in Int /\ di[d].low \in Int
               /\ di[d].high = 0 \/ di[d].low = 0
               /\ (\E q \in Points : Present(q) /\ coord[q] = x) => di[d] = [high |-> 0, low |-> 0]
    <3>1. di[d] = SidesOf(x, path, d, Len(path) - 1)
      BY <1>2
    <3> QED
      BY <1>1, <3>1, OneSide
  <2> QED
    BY <2>1
<1> PICK credited : credited = Sum([d \in Axes |-> di[d].high + di[d].low])
  OBVIOUS
<1> PICK inside : inside = Sum([i \in around |-> Inside(path[i], i - 1)])
  OBVIOUS
<1> PICK leaf : leaf = AtLeaf(path[Len(path)], k)
  OBVIOUS
<1>4. credited \in Int /\ inside \in Int /\ leaf \in Int
  <2>1. credited \in Int
    <3>1. [d \in Axes |-> di[d].high + di[d].low] \in [Axes -> Int]
      BY <1>3
    <3> QED
      BY <3>1, AxesFinite, SumType
  <2>2. inside \in Int
    <3>1. IsFiniteSet(around)
      <4>1. around \in SUBSET (1..k) /\ k \in Int /\ 1 \in Int
        BY <1>1, WalkSteps DEF Around
      <4> QED
        BY <4>1, FS_Interval, FS_Subset
    <3>2. \A i \in around : Inside(path[i], i - 1) \in Int
      <4>1. \A i \in around : i \in 1..(Len(path) - 1)
        BY DEF Around
      <4> QED
        BY <1>1, <4>1, NodeCredits
    <3>3. [i \in around |-> Inside(path[i], i - 1)] \in [around -> Int]
      BY <3>2
    <3> QED
      BY <3>1, <3>3, SumType
  <2>3. leaf \in Int
    BY <1>1, WalkSteps, WeightsAreInts
  <2> QED
    BY <2>1, <2>2, <2>3
<1>5. Sum(Outers(x, path, k)) = credited + inside
  <2>1. [d \in Axes |-> di[d].high + di[d].low]
          = [d \in Axes |-> Sum(Highs(x, path, d, k)) + Sum(Lows(x, path, d, k))]
    BY <1>2 DEF SidesOf
  <2> QED
    BY <1>1, <2>1, CreditsMakeUp
<1>6. ScalarScore(x) = credited + inside + leaf
  BY SMTT(30), <1>4, <1>5, ScalarIs
<1>7. /\ SumFunction([d \in Axes |-> di[d].high + di[d].low]) = credited
      /\ SumFunction([i \in around |-> Dampened(path[i], i - 1, <<0, 1>>)]) = inside
  BY SumFunctionIs DEF Inside
<1>8. ScoreAndAttribution(x) = [score |-> ScalarScore(x), di |-> di]
  BY <1>1, OnePass
<1> QED
  BY <1>3, <1>6, <1>7, <1>8 DEF Around

\* In the default build, for any number of points and dimensions and any cuts:
\* walks of stored points end at their leaves, codisplacements are ratios of
\* counted points, the probability of a node is the share of the draws that cut
\* the query off there, and an attribution splits what the score adds up.
THEOREM WalksStayMatched == Spec => []WalksMatchPoints
<1>1. TreeInv /\ GeomInv => ProbabilityIsShareOfCuts /\ AttributionSplitsScore
  BY CutsCounted, AttributionSplits
<1>2. Spec => []RouteFindsLeaf
  BY QueriesFindPoints
<1>3. Spec => []CodispCountsPoints
  BY CodispStaysExact
<1>4. Spec => [](TreeInv /\ GeomInv)
  BY GeomInvariance
<1>5. RouteFindsLeaf /\ CodispCountsPoints /\ ProbabilityIsShareOfCuts /\ AttributionSplitsScore
        => WalksMatchPoints
  BY DEF WalksMatchPoints
<1> QED
  BY <1>1, <1>2, <1>3, <1>4, <1>5, PTL
==============================================================================
