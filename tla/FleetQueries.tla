---------------------------- MODULE FleetQueries -----------------------------
(***************************************************************************)
(* most_similar: the tenants whose score statistics are nearest to one     *)
(* tenant's, collected in the order of a hash map through a heap that never *)
(* holds more than top_n of them.  Similarity falls with the distance, so  *)
(* the heap's minimum is the farthest; among equals it may be any.         *)
(***************************************************************************)
EXTENDS Integers, Sequences, FiniteSets, SequencesExt

CONSTANTS
  Tenants, Stats,   \* what the pool may hold: mean, stddev, observations
  Key,              \* the tenant asked about
  MinObservations,  \* the least observations to be compared at
  MaxTop            \* bound: top_n

VARIABLES
  fleet,    \* resident tenants and their statistics
  top_n,
  unseen,   \* tenants the iteration has yet to come to
  heap, out

vars == <<fleet, top_n, unseen, heap, out>>

Asked == {k \in {Key} \cap DOMAIN fleet : fleet[k].observations >= MinObservations}

Init ==
  /\ fleet \in UNION {[S -> Stats] : S \in SUBSET Tenants}
  /\ top_n \in 0..MaxTop
  /\ unseen = IF Asked = {} \/ top_n = 0 THEN {} ELSE DOMAIN fleet
  /\ heap = {} /\ out = <<>>

Square(x) == x * x

\* Smaller is more similar.
Distance(k) == Square(fleet[Key].mean - fleet[k].mean)
                 + Square(fleet[Key].stddev - fleet[k].stddev)

\* What peek of the heap may return.
Least == {k \in heap : \A j \in heap : Distance(j) <= Distance(k)}

PassOver(k) ==
  /\ k \in unseen
  /\ \/ k = Key \/ fleet[k].observations < MinObservations
     \/ Cardinality(heap) >= top_n /\ \E m \in Least : Distance(k) >= Distance(m)
  /\ unseen' = unseen \ {k}
  /\ UNCHANGED <<fleet, top_n, heap, out>>

Compared(k) == k \in unseen \ {Key} /\ fleet[k].observations >= MinObservations

Push(k) ==
  /\ Compared(k) /\ Cardinality(heap) < top_n
  /\ heap' = heap \cup {k}
  /\ unseen' = unseen \ {k}
  /\ UNCHANGED <<fleet, top_n, out>>

Exchange(k) ==
  /\ Compared(k) /\ Cardinality(heap) >= top_n
  /\ \E m \in Least : Distance(k) < Distance(m) /\ heap' = (heap \ {m}) \cup {k}
  /\ unseen' = unseen \ {k}
  /\ UNCHANGED <<fleet, top_n, out>>

\* The heap is drained and sorted.
Drain ==
  /\ unseen = {} /\ heap # {}
  /\ out' \in {s \in SetToSeqs(heap) :
                 \A i \in 1..(Len(s) - 1) : Distance(s[i]) <= Distance(s[i + 1])}
  /\ heap' = {}
  /\ UNCHANGED <<fleet, top_n, unseen>>

Next == (\E k \in Tenants : PassOver(k) \/ Push(k) \/ Exchange(k)) \/ Drain

Spec == Init /\ [][Next]_vars

------------------------------------------------------------------------------
Candidates ==
  IF Asked = {} THEN {}
  ELSE {k \in DOMAIN fleet \ {Key} : fleet[k].observations >= MinObservations}

\* In whatever order the map gives the tenants, the answer has as many as were
\* asked for if there are so many, the nearest first, and nobody who was left
\* out is nearer than somebody in it.
NearestTenantsListed ==
  LET listed == ToSet(out) IN
  /\ Cardinality(heap) <= top_n
  /\ unseen = {} /\ heap = {} =>
       /\ listed \subseteq Candidates
       /\ Len(out) = Cardinality(listed)
       /\ Len(out) = IF Cardinality(Candidates) < top_n THEN Cardinality(Candidates) ELSE top_n
       /\ \A i, j \in 1..Len(out) : i < j => Distance(out[i]) <= Distance(out[j])
       /\ \A k \in Candidates \ listed, m \in listed : Distance(m) <= Distance(k)
==============================================================================
