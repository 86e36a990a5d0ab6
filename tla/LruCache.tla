------------------------------ MODULE LruCache ------------------------------
(***************************************************************************)
(* What a bounded pool with least-recently-used eviction promises, with no *)
(* ticks or clocks: the keys it holds, totally ordered by their last use.  *)
(***************************************************************************)
EXTENDS Naturals, FiniteSets

CONSTANTS Keys, Capacity

VARIABLES
  resident,  \* the keys held
  older      \* pairs <<a, b>>: a was last used before b

Init == resident = {} /\ older = {}

\* The order left when a set of keys goes.
Without(S) == {p \in older : p[1] \notin S /\ p[2] \notin S}

LeastRecent(k) == k \in resident /\ \A j \in resident \ {k} : <<k, j>> \in older

\* k becomes the most recent of what remains once S has left.
Use(k, S) ==
  /\ resident' = (resident \ S) \cup {k}
  /\ older' = Without(S \cup {k}) \cup {<<j, k>> : j \in resident \ (S \cup {k})}

Touch(k) == k \in resident /\ Use(k, {})

Admit(k) ==
  /\ k \in Keys \ resident
  /\ \/ Cardinality(resident) < Capacity /\ Use(k, {})
     \/ /\ Cardinality(resident) = Capacity
        /\ \E victim \in resident : LeastRecent(victim) /\ Use(k, {victim})

Leave(S) == resident' = resident \ S /\ older' = Without(S)

\* Eviction takes nothing and spares anything used before it.
Evict(S) ==
  /\ S \subseteq resident
  /\ \A k \in S, j \in resident \ S : <<k, j>> \in older
  /\ Leave(S)

\* The owner takes a key out, whatever its age.
Remove(k) == k \in resident /\ Leave({k})

Next ==
  \/ \E k \in Keys : Touch(k) \/ Admit(k) \/ Remove(k)
  \/ \E S \in SUBSET resident : Evict(S)

Spec == Init /\ [][Next]_<<resident, older>>
=============================================================================
