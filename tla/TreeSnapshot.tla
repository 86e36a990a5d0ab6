---------------------------- MODULE TreeSnapshot -----------------------------
(***************************************************************************)
(* What a RandomCutTree demands of its image in a snapshot before anything *)
(* walks it: validate_restored, with the arena's validate_layout and the   *)
(* check of the reverse index.  The image of a tree adds to its fields the *)
(* free lists and the count of points it stores.  That the walk from the   *)
(* root is a stack is not visible in what it accepts; the nodes it reaches *)
(* are a fixpoint here.                                                    *)
(***************************************************************************)
EXTENDS RandomCutTree, SequencesExt

CONSTANT MaxDamaged  \* bound: points in a tree whose image is damaged

\* What a snapshot of the tree says.
Image ==
  [node |-> node, root |-> root, leaf_index |-> leaf_index,
   distinct_count |-> Cardinality({p \in Points : leaf_index[p] # None}),
   leaf_free |-> SetToSeq({n \in Leaves : ~IsLive(n)}),
   internal_free |-> SetToSeq({n \in Internals : ~IsLive(n)})]

LiveIn(img, n) == n \in Nodes /\ img.node[n] # None

\* check_free_list: every empty slot once and nothing else.
FreeListHolds(img, arena, free) ==
  /\ \A i, j \in DOMAIN free : i # j => free[i] # free[j]
  /\ Range(free) = {n \in arena : img.node[n] = None}

ValidLayout(img) ==
  /\ FreeListHolds(img, Leaves, img.leaf_free)
  /\ FreeListHolds(img, Internals, img.internal_free)

ChildrenIn(img, n) ==
  IF LiveIn(img, n) /\ n \in Internals THEN {img.node[n].left, img.node[n].right} ELSE {}

\* The nodes the walk pops.
ReachedIn(img) ==
  LET reach[k \in 0..Cardinality(Nodes)] ==
        IF k = 0 THEN {img.root} \ {None}
        ELSE reach[k-1] \cup UNION {ChildrenIn(img, n) : n \in reach[k-1]}
  IN reach[Cardinality(Nodes)]

\* Mutant: that a child names its parent is taken for granted.
NamesBackUnchecked(img, n) == TRUE

NamesBack(img, n) == \A c \in ChildrenIn(img, n) : img.node[c].parent = n

\* What is asked of an internal node once its children are known to be live.
ValidInternal(img, n) ==
  /\ img.node[n].cut.dim \in Axes
  /\ \A d \in Axes : img.node[n].box.min[d] <= img.node[n].box.max[d]
  /\ img.node[n].left # img.node[n].right
  /\ NamesBack(img, n)
  /\ img.node[n].mass = img.node[img.node[n].left].mass + img.node[img.node[n].right].mass

ValidLeaf(img, n) ==
  /\ img.node[n].mass > 0
  /\ img.node[n].point \in Points
  /\ img.leaf_index[img.node[n].point] = n

\* validate_reverse_index.
ValidReverseIndex(img, reached) ==
  LET mapped(n) == {p \in Points : img.leaf_index[p] = n} IN
  /\ \A p \in Points : img.leaf_index[p] # None => img.leaf_index[p] \in reached \cap Leaves
  /\ Cardinality({p \in Points : img.leaf_index[p] # None}) = img.distinct_count
  /\ \A n \in reached \cap Leaves : img.node[n].mass = Cardinality(mapped(n))

\* No node is reached from two sides or from below itself.
ReachedOnce(img, reached) ==
  \A n \in reached :
    Cardinality({m \in reached : n \in ChildrenIn(img, m)}) = (IF n = img.root THEN 0 ELSE 1)

ValidateRestored(img) ==
  LET reached == ReachedIn(img) IN
  /\ ValidLayout(img)
  /\ \A n \in reached : LiveIn(img, n)
  /\ img.root # None => img.node[img.root].parent = None
  /\ ReachedOnce(img, reached)
  /\ \A n \in reached \cap Internals : ValidInternal(img, n)
  /\ \A n \in reached \cap Leaves : ValidLeaf(img, n)
  /\ Cardinality(reached \cap Internals) = Capacity - Len(img.internal_free)
  /\ Cardinality(reached \cap Leaves) = Capacity - Len(img.leaf_free)
  /\ ValidReverseIndex(img, reached)

------------------------------------------------------------------------------
(* Properties.                                                              *)

\* Child c is linked below n on both sides.
Relinked(img, n, c) == [img EXCEPT !.node[n].left = c, !.node[c].parent = n]

\* Images with one thing wrong: a reference, a mass, an entry of the reverse
\* index or of a free list, or a child linked elsewhere on both sides.
Damaged(img) ==
  LET live == {n \in Nodes : LiveIn(img, n)}
      internals == live \cap Internals
  IN {[img EXCEPT !.root = r] : r \in live \cup {None}}
     \cup {[img EXCEPT !.node[n].left = c] : n \in internals, c \in Nodes}
     \cup {[img EXCEPT !.node[n].parent = m] : n \in live, m \in internals \cup {None}}
     \cup {Relinked(img, n, c) : n \in internals, c \in live}
     \cup {[img EXCEPT !.node[n].mass = @ + 1] : n \in live}
     \cup {[img EXCEPT !.node[n].point = p] : n \in live \cap Leaves, p \in Points}
     \cup {[img EXCEPT !.leaf_index[p] = n] : p \in Points, n \in (live \cap Leaves) \cup {None}}
     \cup {[img EXCEPT !.leaf_free = Append(@, n)] : n \in Leaves}

\* The nodes from n up, as far as parents lead within the size of the arena.
Climb(img, n) ==
  LET at[k \in 0..Cardinality(Nodes)] ==
        IF k = 0 THEN n
        ELSE IF LiveIn(img, at[k-1]) THEN img.node[at[k-1]].parent ELSE None
  IN {at[k] : k \in 0..Cardinality(Nodes)}

\* A tree that is safe to use: every climb ends at the root, and a node's mass
\* is the number of points indexed under it.
SafeToWalk(img) ==
  \A n \in Nodes : LiveIn(img, n) =>
    /\ {img.root, None} \subseteq Climb(img, n)
    /\ img.node[n].mass =
         Cardinality({p \in Points : img.leaf_index[p] # None /\ n \in Climb(img, img.leaf_index[p])})

\* A snapshot of the tree taken between any two calls is admitted; a damaged one
\* is admitted only where walks up and down still end and masses still count
\* points (validate_restored).
AdmitsExactlyTrees ==
  adding = None =>
    /\ ValidateRestored(Image)
    /\ Cardinality({p \in Points : Present(p)}) <= MaxDamaged =>
         \A img \in Damaged(Image) : ValidateRestored(img) => SafeToWalk(img)
==============================================================================
