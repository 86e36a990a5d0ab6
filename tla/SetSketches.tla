---------------------------- MODULE SetSketches ------------------------------
(***************************************************************************)
(* The two summaries of which keys came, BloomFilter and HyperLogLog, as   *)
(* several collectors keep and merge them.  A hash gives a key a few bits  *)
(* of the filter, and a register with a rank; any hash may come.           *)
(***************************************************************************)
EXTENDS Integers, FiniteSets, FiniteSetsExt

CONSTANTS
  Collectors, Keys,
  Bits,         \* of the filter
  NumHashes,
  Registers, MaxRank,
  MaxAdded      \* bound: keys a collector has added or merged

VARIABLES
  indexes,  \* combined_index: the bits of a key
  slot, rho,  \* the register of a key and its rank there
  bits,     \* per collector: the bits set
  registers,
  total_added,
  held      \* history: the keys added or merged since the last reset

vars == <<indexes, slot, rho, bits, registers, total_added, held>>

SetsAssumption ==
  /\ Bits # {} /\ Registers # {} /\ MaxAdded \in Nat
  /\ NumHashes \in Nat \ {0} /\ MaxRank \in Nat \ {0}

NoKeys == [r \in Registers |-> 0]

Init ==
  /\ indexes \in [Keys -> {b \in SUBSET Bits : Cardinality(b) \in 1..NumHashes}]
  /\ slot \in [Keys -> Registers] /\ rho \in [Keys -> 1..MaxRank]
  /\ bits = [n \in Collectors |-> {}]
  /\ registers = [n \in Collectors |-> NoKeys]
  /\ total_added = [n \in Collectors |-> 0]
  /\ held = [n \in Collectors |-> {}]

------------------------------------------------------------------------------

\* insert_hash and add_hash.
Add(n, k) ==
  /\ total_added[n] < MaxAdded
  /\ bits' = [bits EXCEPT ![n] = @ \cup indexes[k]]
  /\ registers' = [registers EXCEPT ![n][slot[k]] = Max({@, rho[k]})]
  /\ total_added' = [total_added EXCEPT ![n] = @ + 1]
  /\ held' = [held EXCEPT ![n] = @ \cup {k}]
  /\ UNCHANGED <<indexes, slot, rho>>

Largest(mine, theirs) == [r \in Registers |-> Max({mine[r], theirs[r]})]

\* union and merge, of the same shape.
Merge(n, m) ==
  /\ total_added[n] + total_added[m] <= MaxAdded
  /\ bits' = [bits EXCEPT ![n] = @ \cup bits[m]]
  /\ registers' = [registers EXCEPT ![n] = Largest(@, registers[m])]
  /\ total_added' = [total_added EXCEPT ![n] = @ + total_added[m]]
  /\ held' = [held EXCEPT ![n] = @ \cup held[m]]
  /\ UNCHANGED <<indexes, slot, rho>>

Reset(n) ==
  /\ bits' = [bits EXCEPT ![n] = {}]
  /\ registers' = [registers EXCEPT ![n] = NoKeys]
  /\ total_added' = [total_added EXCEPT ![n] = 0]
  /\ held' = [held EXCEPT ![n] = {}]
  /\ UNCHANGED <<indexes, slot, rho>>

Next ==
  \E n \in Collectors :
    \/ \E k \in Keys : Add(n, k)
    \/ \E m \in Collectors \ {n} : Merge(n, m)
    \/ Reset(n)

Spec == Init /\ [][Next]_vars

\* contains_hash.
Contains(n, k) == indexes[k] \subseteq bits[n]

------------------------------------------------------------------------------
(* Properties.                                                              *)

\* After any history of additions, repetitions, merges and resets a collector
\* is where it would be had it seen its keys once, in any order, itself: it
\* forgets none, holds no bit and no rank of a key it has not seen, and what
\* it has added is never less than what it holds.
MergeIsUnion ==
  \A n \in Collectors :
    /\ bits[n] = UNION {indexes[k] : k \in held[n]}
    /\ \A k \in held[n] : Contains(n, k)
    /\ \A r \in Registers :
         registers[n][r] = Max({0} \cup {rho[k] : k \in {j \in held[n] : slot[j] = r}})
    /\ total_added[n] >= Cardinality(held[n])
------------------------------------------------------------------------------
(* What makes it so: the property itself, with the types.                   *)

TypeOK ==
  /\ indexes \in [Keys -> SUBSET Bits]
  /\ slot \in [Keys -> Registers] /\ rho \in [Keys -> 1..MaxRank]
  /\ bits \in [Collectors -> SUBSET Bits]
  /\ registers \in [Collectors -> [Registers -> Nat]]
  /\ total_added \in [Collectors -> Nat]
  /\ held \in [Collectors -> SUBSET Keys] /\ \A n \in Collectors : IsFiniteSet(held[n])

SetsInv == TypeOK /\ MergeIsUnion
=============================================================================
