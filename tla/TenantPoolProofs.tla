-------------------------- MODULE TenantPoolProofs --------------------------
(***************************************************************************)
(* Proofs about TenantPool for every set of tenants, every capacity and    *)
(* every length of history: the pool stays within its capacity, keeps its  *)
(* working set, and implements an ideal least-recently-used cache.         *)
(***************************************************************************)
EXTENDS TenantPool, FiniteSetTheorems, WellFoundedInduction, TLAPS

\* The victim is resident and carries the smallest tick.
LEMMA LruIsMinimal ==
  ASSUME PoolInv, Resident # {}
  PROVE  /\ Lru \in Resident
         /\ \A j \in Resident : forests[Lru].last_access <= forests[j].last_access
<1> DEFINE Ticks == {forests[k].last_access : k \in Resident}
<1>1. Ticks \subseteq Nat /\ Ticks # {}
  BY DEF PoolInv, StampInv
<1>2. \E x \in Ticks : \A y \in Ticks : ~ (<<y, x>> \in OpToRel(<, Nat))
  <2> HIDE DEF Ticks
  <2> QED BY <1>1, WFMin, NatLessThanWellFounded
<1>3. PICK x \in Ticks : \A y \in Ticks : ~ (<<y, x>> \in OpToRel(<, Nat))
  BY <1>2
<1>4. \A y \in Ticks : x <= y
  <2> SUFFICES ASSUME NEW y \in Ticks PROVE x <= y
    OBVIOUS
  <2>1. x \in Nat /\ y \in Nat /\ <<y, x>> \in Nat \X Nat
    <3> HIDE DEF Ticks
    <3> QED BY <1>1
  <2>2. ~ (<<y, x>> \in OpToRel(<, Nat))
    BY <1>3
  <2>3. ~ (y < x)
    BY <2>1, <2>2 DEF OpToRel
  <2> QED
    BY <2>1, <2>3
<1>5. PICK k \in Resident : x = forests[k].last_access
  OBVIOUS
<1>6. \A j \in Resident : forests[k].last_access <= forests[j].last_access
  BY <1>4, <1>5
<1> QED
  BY <1>6 DEF Lru

\* Residents are finitely many.
LEMMA ResidentFinite ==
  ASSUME PoolInv
  PROVE  IsFiniteSet(Resident) /\ Cardinality(Resident) \in Nat
<1>1. Resident \in SUBSET Keys
  BY DEF PoolInv, SizeInv
<1> QED
  BY <1>1, FS_Subset, FS_CardinalityType, PoolAssumption

\* Room is made for newcomers to a full pool only, by the least recent tenant.
LEMMA RoomCases ==
  ASSUME PoolInv, NEW k \in Keys
  PROVE  \/ Room(k) = {} /\ (k \in Resident \/ Cardinality(Resident) < Capacity)
         \/ /\ Room(k) = {Lru} /\ k \notin Resident
            /\ Cardinality(Resident) = Capacity
            /\ Lru \in Resident
            /\ \A j \in Resident \ {Lru} :
                 forests[Lru].last_access < forests[j].last_access
<1>1. CASE k \in Resident \/ Cardinality(Resident) < Capacity
  BY <1>1 DEF Room
<1>2. CASE k \notin Resident /\ ~ (Cardinality(Resident) < Capacity)
  <2>1. Cardinality(Resident) = Capacity
    BY <1>2, ResidentFinite, PoolAssumption DEF PoolInv, SizeInv
  <2>2. Resident # {}
    BY <2>1, FS_EmptySet, PoolAssumption
  <2>3. /\ Lru \in Resident
        /\ \A j \in Resident : forests[Lru].last_access <= forests[j].last_access
    BY <2>2, LruIsMinimal
  <2>4. \A j \in Resident \ {Lru} : forests[Lru].last_access < forests[j].last_access
    BY <2>3 DEF PoolInv, StampInv, OrderInv
  <2> QED
    BY <1>2, <2>1, <2>3, <2>4 DEF Room
<1> QED
  BY <1>1, <1>2

\* What an access leaves in the slots.
LEMMA StoreEffect ==
  ASSUME NEW k, NEW S, NEW d, Store(k, S, d)
  PROVE  /\ Resident' = (Resident \ S) \cup {k}
         /\ forests'[k] = Stamped(d)
         /\ \A j \in Resident' \ {k} : j \in Resident \ S /\ forests'[j] = forests[j]
BY DEF Store, Resident

\* What a departure leaves in the slots.
LEMMA DropEffect ==
  ASSUME NEW S, Drop(S)
  PROVE  /\ Resident' = Resident \ S
         /\ \A j \in Resident' : forests'[j] = forests[j]
BY DEF Drop, Resident

------------------------------------------------------------------------------
(* The invariant.                                                           *)

\* Capacity holds after an arrival.
LEMMA ArrivalFits ==
  ASSUME PoolInv, NEW k \in Keys
  PROVE  Cardinality((Resident \ Room(k)) \cup {k}) <= Capacity
<1>1. CASE Room(k) = {} /\ k \in Resident
  <2>1. (Resident \ Room(k)) \cup {k} = Resident
    BY <1>1
  <2> QED
    BY <2>1 DEF PoolInv, SizeInv
<1>2. CASE Room(k) = {} /\ k \notin Resident /\ Cardinality(Resident) < Capacity
  <2>1. (Resident \ Room(k)) \cup {k} = Resident \cup {k}
    BY <1>2
  <2>2. Cardinality(Resident \cup {k}) = Cardinality(Resident) + 1
    BY <1>2, FS_AddElement, ResidentFinite
  <2> QED
    BY <1>2, <2>1, <2>2, ResidentFinite, PoolAssumption
<1>3. CASE /\ Room(k) = {Lru} /\ k \notin Resident /\ Lru \in Resident
           /\ Cardinality(Resident) = Capacity
  <2>1. /\ IsFiniteSet(Resident \ {Lru})
        /\ Cardinality(Resident \ {Lru}) = Capacity - 1
    BY <1>3, FS_RemoveElement, ResidentFinite
  <2>2. Cardinality((Resident \ {Lru}) \cup {k}) = Capacity - 1 + 1
    BY <1>3, <2>1, FS_AddElement
  <2> QED
    BY <1>3, <2>2, PoolAssumption
<1> QED
  BY <1>1, <1>2, <1>3, RoomCases

\* The one pushed out has seen the others used, and the newcomer.
LEMMA VictimSawAll ==
  ASSUME PoolInv, NEW k \in Keys, NEW v \in Room(k)
  PROVE  Cardinality(since[v] \cup {k}) >= Capacity
<1>1. /\ v = Lru /\ v \in Resident /\ k \notin Resident
      /\ Cardinality(Resident) = Capacity
      /\ \A j \in Resident \ {v} : forests[v].last_access < forests[j].last_access
  BY RoomCases
<1>2. (Resident \ {v}) \cup {k} \subseteq since[v] \cup {k}
  BY <1>1 DEF PoolInv, SinceInv
<1>3. IsFiniteSet(since[v] \cup {k})
  <2>1. since[v] \cup {k} \in SUBSET Keys
    BY <1>1 DEF PoolInv, SizeInv
  <2> QED
    BY <2>1, FS_Subset, PoolAssumption
<1>4. /\ IsFiniteSet(Resident \ {v})
      /\ Cardinality(Resident \ {v}) = Capacity - 1
  BY <1>1, FS_RemoveElement, ResidentFinite
<1>5. Cardinality((Resident \ {v}) \cup {k}) = Capacity - 1 + 1
  BY <1>1, <1>4, FS_AddElement, ZenonT(40)
<1>6. /\ Cardinality((Resident \ {v}) \cup {k}) <= Cardinality(since[v] \cup {k})
      /\ Cardinality(since[v] \cup {k}) \in Nat
  BY <1>2, <1>3, FS_Subset, FS_CardinalityType
<1> QED
  BY <1>5, <1>6, PoolAssumption

\* A tenant that has gone keeps what it has seen.
LEMMA GoneStays ==
  ASSUME PoolInv, NEW k \in Keys, NEW j \in DOMAIN since \ Resident
  PROVE  Cardinality(since[j] \cup {k}) >= Capacity
<1>1. since[j] \cup {k} \in SUBSET Keys /\ since[j] \in SUBSET (since[j] \cup {k})
  BY DEF PoolInv, SizeInv
<1>2. IsFiniteSet(since[j] \cup {k})
  BY <1>1, FS_Subset, PoolAssumption
<1>3. /\ Cardinality(since[j]) <= Cardinality(since[j] \cup {k})
      /\ Cardinality(since[j]) \in Nat /\ Cardinality(since[j] \cup {k}) \in Nat
  BY <1>1, <1>2, FS_Subset, FS_CardinalityType
<1> QED
  BY <1>3, PoolAssumption DEF PoolInv, GoneInv

\* Every access that finds or brings in its tenant keeps the invariant.
LEMMA UseKeepsInv ==
  ASSUME PoolInv, NEW k \in Keys, NEW d,
         BumpAccess, Store(k, Room(k), d), Used(k), UNCHANGED now
  PROVE  PoolInv'
<1>1. /\ Resident' = (Resident \ Room(k)) \cup {k}
      /\ forests'[k] = Stamped(d)
      /\ \A j \in Resident' \ {k} :
           j \in Resident \ Room(k) /\ forests'[j] = forests[j]
  BY StoreEffect
<1>2. /\ access_counter' = access_counter + 1 /\ now' = now
      /\ forests'[k].last_access = access_counter + 1
      /\ forests'[k].last_access_instant = now
  BY <1>1 DEF BumpAccess, Stamped
<1>3. /\ DOMAIN since' = DOMAIN since \cup {k} /\ since'[k] = {}
      /\ \A j \in DOMAIN since \ {k} : since'[j] = since[j] \cup {k}
  BY DEF Used
<1>4. SizeInv'
  <2>1. Cardinality(Resident') <= Capacity
    BY <1>1, ArrivalFits
  <2>2. Resident' \subseteq DOMAIN since' /\ DOMAIN since' \subseteq Keys
    BY <1>1, <1>3 DEF PoolInv, SizeInv
  <2>3. \A j \in DOMAIN since' : since'[j] \subseteq Keys
    BY <1>3 DEF PoolInv, SizeInv
  <2> QED
    BY <2>1, <2>2, <2>3 DEF SizeInv
<1>5. StampInv'
  BY <1>1, <1>2 DEF PoolInv, StampInv
<1>6. OrderInv'
  <2> SUFFICES ASSUME NEW i \in Resident', NEW j \in Resident'
               PROVE  /\ i # j => forests'[i].last_access # forests'[j].last_access
                      /\ forests'[i].last_access < forests'[j].last_access =>
                           forests'[i].last_access_instant
                             <= forests'[j].last_access_instant
    BY DEF OrderInv
  <2>1. CASE i # k /\ j # k
    BY <1>1, <2>1 DEF PoolInv, OrderInv
  <2>2. CASE i = k \/ j = k
    BY <1>1, <1>2, <2>2 DEF PoolInv, StampInv
  <2> QED
    BY <2>1, <2>2
<1>7. SinceInv'
  <2> SUFFICES ASSUME NEW i \in Resident', NEW j \in Resident',
                      forests'[j].last_access < forests'[i].last_access
               PROVE  i \in since'[j]
    BY DEF SinceInv
  <2>1. j # k
    BY <1>1, <1>2 DEF PoolInv, StampInv
  <2>2. j \in DOMAIN since \ {k}
    BY <1>1, <2>1 DEF PoolInv, SizeInv
  <2>3. CASE i = k
    BY <1>3, <2>2, <2>3
  <2>4. CASE i # k
    BY <1>1, <1>3, <2>1, <2>2, <2>4 DEF PoolInv, SinceInv
  <2> QED
    BY <2>3, <2>4
<1>8. GoneInv'
  <2> SUFFICES ASSUME NEW j \in DOMAIN since' \ Resident'
               PROVE  Cardinality(since'[j]) >= Capacity
    BY DEF GoneInv
  <2>1. j \in DOMAIN since \ {k} /\ since'[j] = since[j] \cup {k}
    BY <1>1, <1>3
  <2>2. CASE j \in Room(k)
    BY <2>1, <2>2, VictimSawAll
  <2>3. CASE j \notin Resident
    BY <2>1, <2>3, GoneStays
  <2> QED
    BY <1>1, <2>1, <2>2, <2>3
<1> QED
  BY <1>4, <1>5, <1>6, <1>7, <1>8 DEF PoolInv

\* So does a factory that fails after the room was made.
LEMMA FailureKeepsInv ==
  ASSUME PoolInv, NEW k \in Keys, FactoryFails(k)
  PROVE  PoolInv'
<1>1. Resident' = Resident \ Room(k) /\ \A j \in Resident' : forests'[j] = forests[j]
  BY DropEffect DEF FactoryFails
<1>2. /\ k \notin Resident
      /\ access_counter' = access_counter + 1 /\ now' = now
      /\ DOMAIN since' = DOMAIN since \ {k}
      /\ \A j \in DOMAIN since' : since'[j] = since[j] \cup {k}
  BY DEF FactoryFails, BumpAccess
<1>3. SizeInv'
  <2>1. Cardinality(Resident') <= Cardinality(Resident)
    BY <1>1, FS_Subset, ResidentFinite
  <2>2. Cardinality(Resident') \in Nat
    BY <1>1, FS_Subset, ResidentFinite, FS_CardinalityType
  <2>3. Cardinality(Resident') <= Capacity
    BY <2>1, <2>2, ResidentFinite, PoolAssumption DEF PoolInv, SizeInv
  <2> QED
    BY <1>1, <1>2, <2>3 DEF PoolInv, SizeInv
<1>4. StampInv'
  BY <1>1, <1>2 DEF PoolInv, StampInv
<1>5. OrderInv'
  BY <1>1 DEF PoolInv, OrderInv
<1>6. SinceInv'
  BY <1>1, <1>2, <1>3 DEF PoolInv, SinceInv, SizeInv
<1>7. GoneInv'
  <2> SUFFICES ASSUME NEW j \in DOMAIN since' \ Resident'
               PROVE  Cardinality(since'[j]) >= Capacity
    BY DEF GoneInv
  <2>1. j \in DOMAIN since \ {k} /\ since'[j] = since[j] \cup {k}
    BY <1>2
  <2>2. CASE j \in Room(k)
    BY <2>1, <2>2, VictimSawAll
  <2>3. CASE j \notin Resident
    BY <2>1, <2>3, GoneStays
  <2> QED
    BY <1>1, <2>1, <2>2, <2>3
<1> QED
  BY <1>3, <1>4, <1>5, <1>6, <1>7 DEF PoolInv

\* ... and every departure that is asked for.
LEMMA LeaveKeepsInv ==
  ASSUME PoolInv, NEW S \in SUBSET Resident,
         Drop(S), Forgotten(S), UNCHANGED <<access_counter, now>>
  PROVE  PoolInv'
<1>1. Resident' = Resident \ S /\ \A j \in Resident' : forests'[j] = forests[j]
  BY DropEffect
<1>2. /\ access_counter' = access_counter /\ now' = now
      /\ DOMAIN since' = DOMAIN since \ S
      /\ \A j \in DOMAIN since' : since'[j] = since[j]
  BY DEF Forgotten
<1>3. SizeInv'
  <2>1. Cardinality(Resident') <= Cardinality(Resident)
    BY <1>1, FS_Subset, ResidentFinite
  <2>2. Cardinality(Resident') \in Nat
    BY <1>1, FS_Subset, ResidentFinite, FS_CardinalityType
  <2>3. Cardinality(Resident') <= Capacity
    BY <2>1, <2>2, ResidentFinite, PoolAssumption DEF PoolInv, SizeInv
  <2> QED
    BY <1>1, <1>2, <2>3 DEF PoolInv, SizeInv
<1>4. StampInv'
  BY <1>1, <1>2 DEF PoolInv, StampInv
<1>5. OrderInv'
  BY <1>1 DEF PoolInv, OrderInv
<1>6. SinceInv'
  BY <1>1, <1>2, <1>3 DEF PoolInv, SinceInv, SizeInv
<1>7. GoneInv'
  BY <1>1, <1>2 DEF PoolInv, GoneInv
<1> QED
  BY <1>3, <1>4, <1>5, <1>6, <1>7 DEF PoolInv

\* Steps that leave every stamp where it is keep it too.
LEMMA RestKeepsInv ==
  ASSUME PoolInv, UNCHANGED since, Resident' = Resident,
         \A j \in Resident : /\ forests'[j].last_access = forests[j].last_access
                             /\ forests'[j].last_access_instant
                                  = forests[j].last_access_instant,
         access_counter' \in {access_counter, access_counter + 1},
         now' \in {now, now + 1}
  PROVE  PoolInv'
<1>1. SizeInv'
  BY DEF PoolInv, SizeInv
<1>2. StampInv'
  BY DEF PoolInv, StampInv
<1>3. OrderInv'
  BY DEF PoolInv, OrderInv
<1>4. SinceInv'
  BY DEF PoolInv, SinceInv
<1>5. GoneInv'
  BY DEF PoolInv, GoneInv
<1> QED
  BY <1>1, <1>2, <1>3, <1>4, <1>5 DEF PoolInv

\* The stamps stay, and with them the order of use.
Rests ==
  /\ UNCHANGED since /\ Resident' = Resident
  /\ \A j \in Resident : /\ forests'[j].last_access = forests[j].last_access
                         /\ forests'[j].last_access_instant
                              = forests[j].last_access_instant
  /\ access_counter' \in {access_counter, access_counter + 1}
  /\ now' \in {now, now + 1}

Uses(k, d) ==
  BumpAccess /\ Store(k, Room(k), d) /\ Used(k) /\ UNCHANGED now

Leaves(S) == Drop(S) /\ Forgotten(S) /\ UNCHANGED <<access_counter, now>>

\* Those that leave were used before those that stay.
Oldest(S) ==
  \A k \in S, j \in Resident \ S : forests[k].last_access < forests[j].last_access

\* An owner's evictions, by tick or by instant, take the oldest.
LEMMA ShedsOldest ==
  ASSUME PoolInv
  PROVE  /\ Resident # {} => {Lru} \in SUBSET Resident /\ Oldest({Lru})
         /\ \A ttl \in Nat : Oldest(Idle(ttl))
<1>1. ASSUME Resident # {}
      PROVE  {Lru} \in SUBSET Resident /\ Oldest({Lru})
  BY <1>1, LruIsMinimal DEF Oldest, PoolInv, OrderInv, StampInv
<1>2. ASSUME NEW ttl \in Nat, NEW k \in Idle(ttl), NEW j \in Resident \ Idle(ttl)
      PROVE  forests[k].last_access < forests[j].last_access
  <2>1. /\ k \in Resident /\ j \in Resident /\ k # j
        /\ now - forests[k].last_access_instant > ttl
        /\ ~ (now - forests[j].last_access_instant > ttl)
    BY <1>2 DEF Idle
  <2>2. forests[k].last_access_instant < forests[j].last_access_instant
    BY <2>1 DEF PoolInv, StampInv
  <2> QED
    BY <2>1, <2>2 DEF PoolInv, StampInv, OrderInv
<1> QED
  BY <1>1, <1>2 DEF Oldest

\* Every step is one of five kinds.
LEMMA StepCases ==
  ASSUME PoolInv, [Next]_vars
  PROVE  \/ \E k \in Keys : \E d : Uses(k, d)
         \/ \E k \in Keys : FactoryFails(k)
         \/ \E k \in Resident : Leaves({k})
         \/ \E S \in SUBSET Resident : Oldest(S) /\ Leaves(S)
         \/ Rests
<1>1. ASSUME NEW k \in Keys, NEW results, TouchOrCreate(k, results)
      PROVE  \E d : Uses(k, d)
  BY <1>1 DEF TouchOrCreate, Uses
<1>2. ASSUME NEW k \in Keys, NEW results, GetMut(k, results)
      PROVE  (\E d : Uses(k, d)) \/ Rests
  <2>1. CASE k \in Resident
    BY <1>2, <2>1 DEF GetMut, Uses, Room
  <2>2. CASE k \notin Resident
    BY <1>2, <2>2 DEF GetMut, Rests, Resident, BumpAccess
  <2> QED
    BY <2>1, <2>2
<1>3. ASSUME NEW k \in Keys, IterMut(k)
      PROVE  Rests
  <2>1. forests' = [forests EXCEPT ![k].forest = ResetStats(@)]
    BY <1>3 DEF IterMut
  <2>2. Resident' = Resident
    BY <2>1 DEF Resident
  <2>3. \A j \in Resident :
          /\ forests'[j].last_access = forests[j].last_access
          /\ forests'[j].last_access_instant = forests[j].last_access_instant
    BY <2>1 DEF Resident
  <2> QED
    BY <1>3, <2>2, <2>3 DEF IterMut, Rests
<1>4. ASSUME NEW k \in Keys, Insert(k)
      PROVE  \E d : Uses(k, d)
  BY <1>4 DEF Insert, Uses
<1>5. ASSUME Clear
      PROVE  Oldest(Resident) /\ Leaves(Resident)
  BY <1>5 DEF Clear, Release, Oldest, Leaves
<1>6. ASSUME EvictLru
      PROVE  {Lru} \in SUBSET Resident /\ Oldest({Lru}) /\ Leaves({Lru})
  BY <1>6, ShedsOldest DEF EvictLru, Shed, Leaves
<1>7. ASSUME NEW ttl \in 0..MaxInstant, EvictIdle(ttl)
      PROVE  Idle(ttl) \in SUBSET Resident /\ Oldest(Idle(ttl)) /\ Leaves(Idle(ttl))
  BY <1>7, ShedsOldest, PoolAssumption DEF EvictIdle, Shed, Leaves, Idle
<1>8. ASSUME Tick \/ UNCHANGED vars
      PROVE  Rests
  BY <1>8 DEF Tick, vars, Rests, Resident
<1> QED
  BY <1>1, <1>2, <1>3, <1>4, <1>5, <1>6, <1>7, <1>8
  DEF Next, Process, Bootstrap, ReadOrCreate, Get, Delete, Remove, Release, Leaves

\* The empty pool.
LEMMA InitInv == Init => PoolInv
<1> SUFFICES ASSUME Init PROVE PoolInv
  OBVIOUS
<1>1. Resident = {} /\ DOMAIN since = {}
  BY DEF Init, Resident
<1>2. Cardinality(Resident) = 0
  BY <1>1, FS_EmptySet
<1> QED
  BY <1>1, <1>2, PoolAssumption
  DEF Init, PoolInv, SizeInv, StampInv, OrderInv, SinceInv, GoneInv

\* Every step keeps the invariant.
LEMMA StepInv == PoolInv /\ [Next]_vars => PoolInv'
<1> SUFFICES ASSUME PoolInv, [Next]_vars PROVE PoolInv'
  OBVIOUS
<1>1. CASE \E k \in Keys : \E d : Uses(k, d)
  BY <1>1, UseKeepsInv DEF Uses
<1>2. CASE \E k \in Keys : FactoryFails(k)
  BY <1>2, FailureKeepsInv
<1>3. CASE \E k \in Resident : Leaves({k})
  BY <1>3, LeaveKeepsInv DEF Leaves
<1>4. CASE \E S \in SUBSET Resident : Oldest(S) /\ Leaves(S)
  BY <1>4, LeaveKeepsInv DEF Leaves
<1>5. CASE Rests
  BY <1>5, RestKeepsInv DEF Rests
<1> QED
  BY <1>1, <1>2, <1>3, <1>4, <1>5, StepCases

\* The invariant of the pool.
THEOREM PoolInvariance == Spec => []PoolInv
BY InitInv, StepInv, PTL DEF Spec

\* The pool never holds more tenants than its capacity (touch_or_create, insert).
THEOREM Bounded == Spec => [](Cardinality(Resident) <= Capacity)
<1>1. PoolInv => Cardinality(Resident) <= Capacity
  BY DEF PoolInv, SizeInv
<1> QED
  BY <1>1, PoolInvariance, PTL

\* A tenant in use stays while fewer others than the capacity are in use.
THEOREM WorkingSet == Spec => []WorkingSetStays
<1>1. PoolInv => WorkingSetStays
  <2> SUFFICES ASSUME PoolInv, NEW k \in DOMAIN since, k \notin Resident
               PROVE  ~ (Cardinality(since[k]) < Capacity)
    BY DEF WorkingSetStays
  <2>1. since[k] \in SUBSET Keys /\ Cardinality(since[k]) >= Capacity
    BY DEF PoolInv, SizeInv, GoneInv
  <2>2. Cardinality(since[k]) \in Nat
    BY <2>1, FS_Subset, FS_CardinalityType, PoolAssumption
  <2> QED
    BY <2>1, <2>2, PoolAssumption
<1> QED
  BY <1>1, PoolInvariance, PTL

------------------------------------------------------------------------------
(* The pool implements LruCache: slots map to residents, ticks to order.    *)

\* An access makes its tenant the most recent of those that remain.
LEMMA UseMaps ==
  ASSUME PoolInv, NEW k \in Keys, NEW d, Uses(k, d)
  PROVE  Cache!Use(k, Room(k))
<1>1. /\ Resident' = (Resident \ Room(k)) \cup {k}
      /\ forests'[k] = Stamped(d)
      /\ \A j \in Resident' \ {k} :
           j \in Resident \ Room(k) /\ forests'[j] = forests[j]
  BY StoreEffect DEF Uses
<1>2. forests'[k].last_access = access_counter + 1
  BY <1>1 DEF Stamped
<1>3. \A j \in Resident' \ {k} : forests'[j].last_access < forests'[k].last_access
  BY <1>1, <1>2 DEF PoolInv, StampInv
<1>4. \A i, j \in Resident' :
        <<i, j>> \in Order' <=> forests'[i].last_access < forests'[j].last_access
  BY DEF Order
<1>5. \A i, j \in Resident :
        <<i, j>> \in Order <=> forests[i].last_access < forests[j].last_access
  BY DEF Order
<1>6. Order \subseteq Resident \X Resident /\ Order' \subseteq Resident' \X Resident'
  BY DEF Order
<1> DEFINE Kept == Cache!Without(Room(k) \cup {k})
           Newer == {<<j, k>> : j \in Resident \ (Room(k) \cup {k})}
<1>7. Kept \subseteq Resident' \X Resident' /\ Newer \subseteq Resident' \X Resident'
  BY <1>1, <1>6 DEF Cache!Without
<1>8. ASSUME NEW i \in Resident', NEW j \in Resident'
      PROVE  <<i, j>> \in Order' <=> <<i, j>> \in Kept \cup Newer
  <2>1. CASE i = k
    <3>1. <<i, j>> \notin Kept \cup Newer
      BY <2>1 DEF Cache!Without
    <3>2. ~ (forests'[i].last_access < forests'[j].last_access)
      BY <1>1, <1>2, <2>1 DEF PoolInv, StampInv
    <3> QED
      BY <1>4, <3>1, <3>2
  <2>2. CASE i # k /\ j = k
    <3>1. <<i, j>> \in Newer
      BY <1>1, <2>2
    <3> QED
      BY <1>3, <1>4, <2>2, <3>1
  <2>3. CASE i # k /\ j # k
    <3>1. /\ i \in Resident /\ j \in Resident
          /\ i \notin Room(k) \cup {k} /\ j \notin Room(k) \cup {k}
          /\ forests'[i] = forests[i] /\ forests'[j] = forests[j]
      BY <1>1, <2>3
    <3>2. <<i, j>> \in Order' <=> <<i, j>> \in Order
      BY <1>4, <1>5, <3>1
    <3>3. <<i, j>> \in Kept <=> <<i, j>> \in Order
      BY <3>1 DEF Cache!Without
    <3>4. <<i, j>> \notin Newer
      BY <2>3
    <3> QED
      BY <3>2, <3>3, <3>4
  <2> QED
    BY <2>1, <2>2, <2>3
<1>9. Order' = Kept \cup Newer
  <2> HIDE DEF Kept, Newer
  <2> QED BY <1>6, <1>7, <1>8
<1> QED
  BY <1>1, <1>9 DEF Cache!Use

\* Departures leave the others in order.
LEMMA LeaveMaps ==
  ASSUME NEW S, Drop(S)
  PROVE  Cache!Leave(S)
<1>1. Resident' = Resident \ S /\ \A j \in Resident' : forests'[j] = forests[j]
  BY DropEffect
<1>2. Order' = Cache!Without(S)
  BY <1>1 DEF Order, Cache!Without
<1> QED
  BY <1>1, <1>2 DEF Cache!Leave

\* Whoever goes first when the oldest go.
LEMMA OldestMaps ==
  ASSUME NEW S \in SUBSET Resident, Oldest(S), Drop(S)
  PROVE  Cache!Next
<1>1. \A k \in S, j \in Resident \ S : <<k, j>> \in Order
  BY DEF Oldest, Order
<1>2. Cache!Evict(S)
  BY <1>1, LeaveMaps DEF Cache!Evict
<1> QED
  BY <1>2 DEF Cache!Next

\* The least recent by tick is the least recent of the cache.
LEMMA VictimMaps ==
  ASSUME PoolInv, NEW k \in Keys, Room(k) # {}
  PROVE  /\ Room(k) = {Lru} /\ Cache!LeastRecent(Lru)
         /\ k \notin Resident /\ Cardinality(Resident) = Capacity
         /\ Oldest(Room(k)) /\ Room(k) \in SUBSET Resident
<1>1. /\ Room(k) = {Lru} /\ k \notin Resident /\ Lru \in Resident
      /\ Cardinality(Resident) = Capacity
      /\ \A j \in Resident \ {Lru} :
           forests[Lru].last_access < forests[j].last_access
  BY RoomCases
<1>2. Cache!LeastRecent(Lru)
  BY <1>1 DEF Cache!LeastRecent, Order
<1> QED
  BY <1>1, <1>2 DEF Oldest

\* The cache counts its residents as the pool does.
LEMMA SameCardinality == Cache!Cardinality(Resident) = Cardinality(Resident)
BY DEF Cardinality, Cache!Cardinality

\* Every step of the pool is a step of the cache, or none.
LEMMA StepMaps ==
  PoolInv /\ [Next]_vars => [Cache!Next]_<<Resident, Order>>
<1> SUFFICES ASSUME PoolInv, [Next]_vars PROVE [Cache!Next]_<<Resident, Order>>
  OBVIOUS
<1>1. ASSUME NEW k \in Keys, NEW d, Uses(k, d)
      PROVE  Cache!Next
  <2>1. Cache!Use(k, Room(k))
    BY <1>1, UseMaps
  <2>2. CASE k \in Resident
    BY <2>1, <2>2 DEF Room, Cache!Touch, Cache!Next
  <2>3. CASE k \notin Resident /\ Room(k) = {}
    <3>1. Cardinality(Resident) < Capacity
      BY <2>3, RoomCases
    <3> QED
      BY <2>1, <2>3, <3>1, SameCardinality DEF Cache!Admit, Cache!Next
  <2>4. CASE Room(k) # {}
    <3>1. /\ Room(k) = {Lru} /\ Cache!LeastRecent(Lru) /\ Lru \in Resident
          /\ k \notin Resident /\ Cardinality(Resident) = Capacity
      BY <2>4, VictimMaps DEF Cache!LeastRecent
    <3>2. Cache!Admit(k)
      BY <2>1, <3>1, SameCardinality DEF Cache!Admit
    <3> QED
      BY <3>2 DEF Cache!Next
  <2> QED
    BY <2>2, <2>3, <2>4
<1>2. ASSUME NEW k \in Keys, FactoryFails(k)
      PROVE  Cache!Next
  <2>1. Oldest(Room(k)) /\ Room(k) \in SUBSET Resident
    <3>1. CASE Room(k) = {}
      BY <3>1 DEF Oldest
    <3>2. CASE Room(k) # {}
      BY <3>2, VictimMaps
    <3> QED
      BY <3>1, <3>2
  <2> QED
    BY <1>2, <2>1, OldestMaps DEF FactoryFails
<1>3. ASSUME NEW k \in Resident, Leaves({k})
      PROVE  Cache!Next
  <2>1. k \in Keys
    BY DEF PoolInv, SizeInv
  <2> QED
    BY <1>3, <2>1, LeaveMaps DEF Leaves, Cache!Remove, Cache!Next
<1>4. ASSUME NEW S \in SUBSET Resident, Oldest(S), Leaves(S)
      PROVE  Cache!Next
  BY <1>4, OldestMaps DEF Leaves
<1>5. ASSUME Rests
      PROVE  UNCHANGED <<Resident, Order>>
  BY <1>5 DEF Rests, Order
<1> QED
  BY <1>1, <1>2, <1>3, <1>4, <1>5, StepCases

\* Evicting by tick and by idle time both follow one order of last use.
THEOREM PoolImplementsLru == Spec => ImplementsLru
<1>1. Init => Cache!Init
  BY DEF Init, Cache!Init, Order, Resident
<1> QED
  BY <1>1, StepMaps, PoolInvariance, PTL DEF Spec, ImplementsLru, Cache!Spec

------------------------------------------------------------------------------
(* What calls make of a detector.                                           *)

\* Counters saturate where nothing tells larger ones apart.
LEMMA EnoughProperties ==
  /\ Enough \in Nat /\ Enough >= 3 /\ Enough >= MinObservations + 1
  /\ \A n \in Nat : UpTo(n) \in 0..Enough /\ (n <= Enough => UpTo(n) = n)
BY ReadinessAssumption DEF Enough, UpTo

\* The detectors a point leaves of a warmed-up one are warmed up.
LEMMA ProcessedWarm ==
  ASSUME NEW d, Warm(d), NEW x \in Processed(d)
  PROVE  Warm(x)
<1> DEFINE a == Accepted(d)
<1>0. /\ d \in Detector /\ d.observations \in 0..Enough /\ d.fed \in 0..Enough
      /\ d.stored \in BOOLEAN /\ d.spread \in BOOLEAN
  BY DEF Warm, Detector
<1>1. /\ a \in Detector /\ a.fed = UpTo(d.fed + 1)
      /\ a.observations = d.observations /\ a.spread = d.spread
  <2>1. UpTo(d.fed + 1) \in 0..Enough
    BY <1>0, EnoughProperties
  <2> QED
    BY <1>0, <2>1 DEF Accepted, Detector
<1> HIDE DEF a
<1>2. CASE d.stored
  <2>1. PICK differs \in BOOLEAN : x = RecordScore(a, differs)
    BY <1>2 DEF Processed, a
  <2>2. /\ x \in Detector /\ x.fed = a.fed
        /\ x.observations = UpTo(d.observations + 1)
        /\ x.spread = (d.observations > 0 /\ (differs \/ d.spread))
    <3>1. UpTo(a.observations + 1) \in 0..Enough
      BY <1>0, <1>1, EnoughProperties
    <3> QED
      BY <1>0, <1>1, <2>1, <3>1 DEF RecordScore, Detector
  <2>3. x.fed >= UpTo(x.observations + 1)
    BY <1>0, <1>1, <1>2, <2>2, EnoughProperties DEF Warm, UpTo
  <2>4. x.spread => x.observations >= 2
    <3>1. ASSUME d.observations > 0 PROVE UpTo(d.observations + 1) >= 2
      BY <1>0, <3>1, EnoughProperties DEF UpTo
    <3> QED
      BY <2>2, <3>1
  <2> QED
    BY <2>2, <2>3, <2>4 DEF Warm
<1>3. CASE ~d.stored
  <2>1. PICK s \in BOOLEAN : x = [a EXCEPT !.stored = s]
    BY <1>3 DEF Processed, ColdStart, a
  <2>2. /\ x \in Detector /\ x.fed = UpTo(d.fed + 1)
        /\ x.observations = d.observations /\ x.spread = d.spread
    BY <1>0, <1>1, <2>1 DEF Detector
  <2>3. x.fed >= UpTo(x.observations + 1)
    BY <1>0, <2>2, EnoughProperties DEF Warm, UpTo
  <2> QED
    BY <2>2, <2>3 DEF Warm
<1> QED
  BY <1>0, <1>2, <1>3

\* What bootstrap iterates over.
Replay(d, g, m) ==
  g = [i \in 0..m |-> IF i = 0 THEN {d} ELSE UNION {Processed(x) : x \in g[i - 1]}]

\* The iteration is well defined.
LEMMA ReplayExists ==
  ASSUME NEW d, NEW m \in Nat
  PROVE  \E g : Replay(d, g, m)
<1> DEFINE Bad == {n \in Nat : ~ \E g : Replay(d, g, n)}
<1>1. SUFFICES Bad = {}
  BY <1>1
<1>2. SUFFICES ASSUME Bad # {} PROVE FALSE
  BY <1>2
<1>3. PICK n \in Bad : \A y \in Bad : ~ (<<y, n>> \in OpToRel(<, Nat))
  <2>1. Bad \subseteq Nat
    OBVIOUS
  <2> HIDE DEF Bad
  <2> QED
    BY <1>2, <2>1, WFMin, NatLessThanWellFounded
<1>4. \A y \in Bad : ~ (y < n)
  BY <1>3 DEF OpToRel
<1>5. n # 0
  <2>1. Replay(d, [i \in 0..0 |-> {d}], 0)
    BY DEF Replay
  <2> QED
    BY <2>1
<1>6. n - 1 \in Nat /\ n - 1 \notin Bad
  BY <1>4, <1>5
<1>7. PICK g : Replay(d, g, n - 1)
  BY <1>6
<1> DEFINE h == [i \in 0..n |-> IF i = n THEN UNION {Processed(x) : x \in g[n - 1]} ELSE g[i]]
<1>8. \A i \in 0..n - 1 : h[i] = g[i]
  BY <1>5, <1>6
<1>9. \A i \in 0..n - 1 :
        g[i] = IF i = 0 THEN {d} ELSE UNION {Processed(x) : x \in g[i - 1]}
  BY <1>7 DEF Replay
<1>10. ASSUME NEW i \in 0..n
       PROVE  h[i] = IF i = 0 THEN {d} ELSE UNION {Processed(x) : x \in h[i - 1]}
  <2>1. CASE i = n
    <3>1. h[i] = UNION {Processed(x) : x \in g[n - 1]} /\ h[n - 1] = g[n - 1]
      BY <1>6, <1>8, <2>1
    <3> QED
      BY <1>5, <2>1, <3>1
  <2>2. CASE i # n
    <3>1. i \in 0..n - 1 /\ h[i] = g[i]
      BY <1>6, <1>8, <2>2
    <3>2. CASE i = 0
      BY <1>9, <3>1, <3>2
    <3>3. CASE i # 0
      <4>1. i - 1 \in 0..n - 1
        BY <3>1, <3>3
      <4>2. h[i - 1] = g[i - 1]
        BY <1>8, <4>1
      <4> QED
        BY <1>9, <3>1, <3>3, <4>2
    <3> QED
      BY <3>2, <3>3
  <2> QED
    BY <2>1, <2>2
<1>11. h = [i \in 0..n |-> h[i]]
  OBVIOUS
<1> HIDE DEF h
<1>12. Replay(d, h, n)
  BY <1>10, <1>11 DEF Replay
<1> QED
  BY <1>3, <1>12

\* So are those a bootstrap leaves, whatever its length: the first of its points
\* to leave one that is not would have found one that is not.
LEMMA BootstrappedWarm ==
  ASSUME NEW d, Warm(d), NEW m \in 0..MaxReplay, NEW x \in Bootstrapped(d, m)
  PROVE  Warm(x)
<1> DEFINE after == CHOOSE g : Replay(d, g, MaxReplay)
<1>1. Replay(d, after, MaxReplay)
  BY ReplayExists, ReadinessAssumption
<1>2. Bootstrapped(d, m) = after[m]
  BY DEF Bootstrapped, Replay
<1> HIDE DEF after
<1>3. \A i \in 0..MaxReplay :
        after[i] = IF i = 0 THEN {d} ELSE UNION {Processed(y) : y \in after[i - 1]}
  BY <1>1 DEF Replay
<1> DEFINE Bad == {i \in Nat : i <= MaxReplay /\ \E y \in after[i] : ~ Warm(y)}
<1>4. Bad = {}
  <2> SUFFICES ASSUME Bad # {} PROVE FALSE
    OBVIOUS
  <2>1. PICK n \in Bad : \A y \in Bad : ~ (<<y, n>> \in OpToRel(<, Nat))
    <3>1. Bad \subseteq Nat
      OBVIOUS
    <3> HIDE DEF Bad
    <3> QED
      BY <3>1, WFMin, NatLessThanWellFounded
  <2>2. \A y \in Bad : ~ (y < n)
    BY <2>1 DEF OpToRel
  <2>3. n \in 0..MaxReplay
    BY ReadinessAssumption
  <2>4. n # 0
    BY <1>3, <2>3
  <2>5. n - 1 \in Nat /\ n - 1 <= MaxReplay /\ n - 1 \notin Bad
    BY <2>2, <2>3, <2>4, ReadinessAssumption
  <2>6. \A y \in after[n - 1] : Warm(y)
    BY <2>5
  <2>7. ASSUME NEW y \in after[n]
        PROVE  Warm(y)
    <3>1. PICK z \in after[n - 1] : y \in Processed(z)
      <4>1. after[n] = UNION {Processed(z) : z \in after[n - 1]}
        BY <1>3, <2>3, <2>4
      <4> QED
        BY <4>1
    <3> QED
      BY <2>6, <3>1, ProcessedWarm
  <2> QED
    BY <2>7
<1>5. x \in after[m] /\ m \in Nat /\ m <= MaxReplay
  BY <1>2, ReadinessAssumption
<1> QED
  BY <1>4, <1>5

\* Nothing else a call makes of a detector takes the lead away.
LEMMA OthersWarm ==
  /\ \A mode \in Modes : Warm(FromParts(mode))
  /\ \A d : Warm(d) => Warm(ResetStats(d)) /\ \A x \in Retracted(d) : Warm(x)
<1>1. ASSUME NEW mode \in Modes
      PROVE  Warm(FromParts(mode))
  BY EnoughProperties DEF Warm, FromParts, Detector
<1>2. ASSUME NEW d, Warm(d)
      PROVE  Warm(ResetStats(d))
  <2>1. d \in Detector /\ d.fed \in 0..Enough /\ d.stored \in BOOLEAN /\ d.observations \in 0..Enough
    BY <1>2 DEF Warm, Detector
  <2> DEFINE x == ResetStats(d)
  <2>2. /\ x \in Detector /\ x.fed = d.fed /\ x.observations = 0 /\ x.spread = FALSE
        /\ x.stored = d.stored
    <3>1. 0 \in 0..Enough
      BY EnoughProperties
    <3> HIDE DEF Enough
    <3> QED
      BY <2>1, <3>1 DEF ResetStats, Detector
  <2>3. d.stored => d.fed >= 1
    BY <1>2, <2>1, EnoughProperties DEF Warm, UpTo
  <2> HIDE DEF x
  <2>4. Warm(x)
    BY <2>1, <2>2, <2>3, EnoughProperties DEF Warm
  <2> QED
    BY <2>4 DEF x
<1>3. ASSUME NEW d, Warm(d)
      PROVE  Warm([d EXCEPT !.stored = FALSE])
  BY <1>3 DEF Warm, Detector
<1> QED
  BY <1>1, <1>2, <1>3 DEF Retracted

\* A warmed-up detector whose grade is ready has seen enough.
LEMMA WarmIsEnough ==
  ASSUME NEW d, Warm(d), GradeReady(d)
  PROVE  d.fed > MinObservations /\ (d.mode = "zsigma" => d.fed >= 3)
<1>1. /\ d.observations \in Nat /\ d.fed \in Nat
      /\ d.fed >= UpTo(d.observations + 1) /\ d.observations >= MinObservations
      /\ d.mode = "zsigma" => d.observations >= 2
  BY EnoughProperties DEF Warm, GradeReady, Detector
<1> QED
  BY <1>1, EnoughProperties, ReadinessAssumption DEF UpTo

------------------------------------------------------------------------------
(* The ledger: who came and who went.                                       *)

\* What an arrival adds, and what it pushes out, balance.
LEMMA ArrivalCount ==
  ASSUME PoolInv, NEW k \in Keys
  PROVE  /\ Cardinality(Room(k)) \in Nat
         /\ Cardinality((Resident \ Room(k)) \cup {k}) \in Nat
         /\ Cardinality((Resident \ Room(k)) \cup {k}) + Cardinality(Room(k))
              = Cardinality(Resident) + (IF k \in Resident THEN 0 ELSE 1)
<1> DEFINE after == (Resident \ Room(k)) \cup {k}
<1>0. IsFiniteSet(Resident) /\ Cardinality(Resident) \in Nat
  BY ResidentFinite
<1>1. CASE Room(k) = {}
  <2>1. after = Resident \cup {k}
    BY <1>1
  <2>2. /\ Cardinality(Resident \cup {k})
             = IF k \in Resident THEN Cardinality(Resident) ELSE Cardinality(Resident) + 1
        /\ Cardinality(Room(k)) = 0
    BY <1>0, <1>1, FS_AddElement, FS_EmptySet
  <2> HIDE DEF after
  <2>3. Cardinality(after) = Cardinality(Resident) + (IF k \in Resident THEN 0 ELSE 1)
    BY <1>0, <2>1, <2>2
  <2>4. /\ Cardinality(Room(k)) \in Nat /\ Cardinality(after) \in Nat
        /\ Cardinality(after) + Cardinality(Room(k))
             = Cardinality(Resident) + (IF k \in Resident THEN 0 ELSE 1)
    BY <1>0, <2>2, <2>3
  <2> QED
    BY <2>4 DEF after
<1>2. CASE Room(k) = {Lru} /\ k \notin Resident /\ Lru \in Resident
  <2>1. /\ IsFiniteSet(Resident \ {Lru})
        /\ Cardinality(Resident \ {Lru}) = Cardinality(Resident) - 1
    BY <1>0, <1>2, FS_RemoveElement
  <2>2. Cardinality((Resident \ {Lru}) \cup {k}) = Cardinality(Resident) - 1 + 1
    BY <1>2, <2>1, FS_AddElement
  <2>3. Cardinality(Room(k)) = 1
    BY <1>2, FS_Singleton
  <2> QED
    BY <1>0, <1>2, <2>2, <2>3
<1> QED
  BY <1>1, <1>2, RoomCases

LEMMA DepartureCount ==
  ASSUME PoolInv, NEW S \in SUBSET Resident
  PROVE  /\ Cardinality(S) \in Nat /\ Cardinality(Resident \ S) \in Nat
         /\ Cardinality(Resident \ S) + Cardinality(S) = Cardinality(Resident)
<1>0. IsFiniteSet(Resident) /\ Cardinality(Resident) \in Nat
  BY ResidentFinite
<1>1. IsFiniteSet(S) /\ IsFiniteSet(Resident \ S)
  BY <1>0, FS_Subset
<1>2. Cardinality(Resident \ S) = Cardinality(Resident) - Cardinality(Resident \cap S)
  BY <1>0, FS_Difference
<1>3. Resident \cap S = S
  OBVIOUS
<1>4. Cardinality(S) \in Nat /\ Cardinality(Resident \ S) \in Nat
  BY <1>1, FS_CardinalityType
<1> QED
  BY <1>0, <1>2, <1>3, <1>4

\* A detector a call starts from is warmed up.
LEMMA DetectorWarm ==
  ASSUME WarmInv, NEW k \in Keys
  PROVE  Warm(DetectorOf(k))
BY OthersWarm, PoolAssumption DEF WarmInv, DetectorOf

\* A call that finds or brings in its tenant keeps the ledger.
LEMMA ArrivalKeepsLedger ==
  ASSUME PoolInv, LedgerInv, NEW k \in Keys, NEW d, Warm(d), Uses(k, d),
         CountEvicted(Room(k)), released' = released,
         tenants_created_lifetime' \in Nat, installed' \in Nat,
         tenants_created_lifetime' + installed' =
           tenants_created_lifetime + installed + (IF k \in Resident THEN 0 ELSE 1)
  PROVE  LedgerInv'
<1>0. TypeOK /\ LedgerBalances /\ WarmInv
  BY DEF LedgerInv
<1>1. /\ Resident' = (Resident \ Room(k)) \cup {k}
      /\ forests'[k] = Stamped(d)
      /\ \A j \in Resident' \ {k} :
           j \in Resident \ Room(k) /\ forests'[j] = forests[j]
  BY StoreEffect DEF Uses
<1>2. Cardinality(Resident') \in Nat /\ Cardinality(Room(k)) \in Nat
      /\ Cardinality(Resident') + Cardinality(Room(k))
           = Cardinality(Resident) + (IF k \in Resident THEN 0 ELSE 1)
      /\ Cardinality(Resident) \in Nat
  BY <1>1, ArrivalCount, ResidentFinite
<1>3. tenants_evicted_lifetime' = tenants_evicted_lifetime + Cardinality(Room(k))
  BY DEF CountEvicted
<1>4. LedgerBalances'
  BY <1>0, <1>2, <1>3 DEF LedgerBalances, TypeOK
<1>5. WarmInv'
  BY <1>0, <1>1 DEF WarmInv, Stamped
<1>6. forests' \in [Resident' -> Slot]
  <2>1. Stamped(d) \in Slot
    <3>1. access_counter + 1 \in 1..MaxTick /\ now \in 0..MaxInstant
      BY <1>0, PoolAssumption DEF Uses, BumpAccess, TypeOK
    <3> QED
      BY <3>1 DEF Stamped, Slot, Warm
  <2>2. \A j \in Resident' : forests'[j] \in Slot
    BY <1>0, <1>1, <2>1 DEF TypeOK
  <2>3. forests' = [j \in Resident' |-> forests'[j]]
    BY DEF Uses, Store, Resident
  <2> QED
    BY <2>2, <2>3
<1>7. DOMAIN since' \subseteq Keys /\ since' \in [DOMAIN since' -> SUBSET Keys]
  BY <1>0 DEF Uses, Used, TypeOK
<1>8. Cardinality(Resident') <= Capacity /\ Resident' \subseteq Keys
  BY <1>0, <1>1, ArrivalFits DEF TypeOK
<1>9. TypeOK'
  BY <1>0, <1>2, <1>3, <1>6, <1>7, <1>8, PoolAssumption DEF TypeOK, Uses, BumpAccess
<1> QED
  BY <1>4, <1>5, <1>9 DEF LedgerInv

\* So does a departure, counted as an eviction or handed to the owner.
LEMMA DepartureKeepsLedger ==
  ASSUME PoolInv, LedgerInv, NEW S \in SUBSET Resident, Drop(S),
         DOMAIN since' \subseteq Keys, since' \in [DOMAIN since' -> SUBSET Keys],
         access_counter' \in 0..MaxTick, now' = now,
         UNCHANGED <<tenants_created_lifetime, installed>>,
         \/ tenants_evicted_lifetime' = tenants_evicted_lifetime + Cardinality(S)
            /\ released' = released
         \/ released' = released + Cardinality(S)
            /\ tenants_evicted_lifetime' = tenants_evicted_lifetime
  PROVE  LedgerInv'
<1>0. TypeOK /\ LedgerBalances /\ WarmInv
  BY DEF LedgerInv
<1>1. Resident' = Resident \ S /\ \A j \in Resident' : forests'[j] = forests[j]
  BY DropEffect
<1>2. /\ Cardinality(S) \in Nat /\ Cardinality(Resident') \in Nat
      /\ Cardinality(Resident') + Cardinality(S) = Cardinality(Resident)
      /\ Cardinality(Resident) \in Nat
  BY <1>1, DepartureCount, ResidentFinite
<1>3. LedgerBalances'
  BY <1>0, <1>2 DEF LedgerBalances, TypeOK
<1>4. WarmInv'
  BY <1>0, <1>1 DEF WarmInv
<1>5. forests' \in [Resident' -> Slot]
  <2>1. \A j \in Resident' : forests'[j] \in Slot
    BY <1>0, <1>1 DEF TypeOK
  <2>2. forests' = [j \in Resident' |-> forests'[j]]
    BY DEF Drop, Resident
  <2> QED
    BY <2>1, <2>2
<1>6. TypeOK'
  BY <1>0, <1>1, <1>2, <1>5, PoolAssumption DEF TypeOK
<1> QED
  BY <1>3, <1>4, <1>6 DEF LedgerInv

\* Every step keeps the ledger.
LEMMA LedgerStep ==
  ASSUME PoolInv, LedgerInv, [Next]_vars
  PROVE  LedgerInv'
<1>0. TypeOK /\ LedgerBalances /\ WarmInv
  BY DEF LedgerInv
<1>1. ASSUME NEW k \in Keys, NEW results, \A d \in results : Warm(d),
             TouchOrCreate(k, results)
      PROVE  LedgerInv'
  BY <1>0, <1>1, ArrivalKeepsLedger DEF TouchOrCreate, Uses, TypeOK
<1>2. ASSUME NEW k \in Keys, Process(k) \/ Bootstrap(k) \/ ReadOrCreate(k)
      PROVE  LedgerInv'
  <2>1. Warm(DetectorOf(k))
    BY <1>0, DetectorWarm
  <2>2. CASE Process(k)
    <3>1. \A d \in Processed(DetectorOf(k)) \cup {DetectorOf(k)} : Warm(d)
      BY <2>1, ProcessedWarm
    <3> QED
      BY <1>1, <2>2, <3>1 DEF Process
  <2>3. CASE Bootstrap(k)
    <3>1. PICK n \in 0..MaxReplay : TouchOrCreate(k, Bootstrapped(DetectorOf(k), n))
      BY <2>3 DEF Bootstrap
    <3>2. \A d \in Bootstrapped(DetectorOf(k), n) : Warm(d)
      BY <2>1, BootstrappedWarm
    <3> QED
      BY <1>1, <3>1, <3>2
  <2>4. CASE ReadOrCreate(k)
    BY <1>1, <2>1, <2>4 DEF ReadOrCreate
  <2> QED
    BY <1>2, <2>2, <2>3, <2>4
<1>3. ASSUME NEW k \in Keys, NEW results, \A d \in results : k \in Resident => Warm(d),
             GetMut(k, results)
      PROVE  LedgerInv'
  <2>1. CASE k \in Resident
    <3>1. Room(k) = {} /\ Cardinality({}) = 0
      BY <2>1, FS_EmptySet DEF Room
    <3> QED
      BY <1>0, <1>3, <2>1, <3>1, ArrivalKeepsLedger
      DEF GetMut, Uses, CountEvicted, TypeOK
  <2>2. CASE k \notin Resident
    BY <1>0, <1>3, <2>2, PoolAssumption
    DEF GetMut, BumpAccess, LedgerInv, TypeOK, LedgerBalances, WarmInv, Resident
  <2> QED
    BY <2>1, <2>2
<1>4. ASSUME NEW k \in Keys, Get(k) \/ Delete(k)
      PROVE  LedgerInv'
  <2>1. Warm(DetectorOf(k))
    BY <1>0, DetectorWarm
  <2> QED
    BY <1>3, <1>4, <2>1, OthersWarm DEF Get, Delete
<1>5. ASSUME NEW k \in Keys, Insert(k)
      PROVE  LedgerInv'
  <2>1. PICK d : Warm(d) /\ Store(k, Room(k), d)
    <3>1. PICK m \in Modes, n \in {0, MaxReplay} :
            \E d \in Bootstrapped(FromParts(m), n) : Store(k, Room(k), d)
      BY <1>5 DEF Insert
    <3>2. n \in 0..MaxReplay
      BY ReadinessAssumption
    <3> QED
      BY <3>1, <3>2, OthersWarm, BootstrappedWarm
  <2> QED
    BY <1>0, <1>5, <2>1, ArrivalKeepsLedger DEF Insert, Uses, TypeOK
<1>6. ASSUME NEW k \in Keys, FactoryFails(k)
      PROVE  LedgerInv'
  <2>1. Room(k) \in SUBSET Resident
    BY RoomCases
  <2>2. DOMAIN since' \subseteq Keys /\ since' \in [DOMAIN since' -> SUBSET Keys]
    BY <1>0, <1>6 DEF FactoryFails, TypeOK
  <2>3. access_counter' \in 0..MaxTick
    BY <1>0, <1>6, PoolAssumption DEF FactoryFails, BumpAccess, TypeOK
  <2> QED
    BY <1>6, <2>1, <2>2, <2>3, DepartureKeepsLedger DEF FactoryFails, CountEvicted
<1>7. ASSUME NEW S \in SUBSET Resident, Release(S) \/ Shed(S)
      PROVE  LedgerInv'
  <2>1. DOMAIN since' \subseteq Keys /\ since' \in [DOMAIN since' -> SUBSET Keys]
    BY <1>0, <1>7 DEF Release, Shed, Forgotten, TypeOK
  <2>2. access_counter' \in 0..MaxTick
    BY <1>0, <1>7 DEF Release, Shed, TypeOK
  <2> QED
    BY <1>7, <2>1, <2>2, DepartureKeepsLedger DEF Release, Shed, CountEvicted
<1>8. ASSUME NEW k \in Keys, IterMut(k)
      PROVE  LedgerInv'
  <2>1. k \in Resident /\ forests' = [forests EXCEPT ![k].forest = ResetStats(@)]
    BY <1>8 DEF IterMut
  <2>2. Resident' = Resident
    BY <2>1 DEF Resident
  <2>3. Warm(ResetStats(forests[k].forest))
    BY <1>0, <2>1, OthersWarm DEF WarmInv
  <2>4. WarmInv'
    BY <1>0, <2>1, <2>2, <2>3 DEF WarmInv, TypeOK, Slot
  <2>5. forests' \in [Resident -> Slot]
    BY <1>0, <2>1, <2>3 DEF TypeOK, Slot, Warm
  <2>6. TypeOK' /\ LedgerBalances'
    BY <1>0, <1>8, <2>2, <2>5 DEF IterMut, TypeOK, LedgerBalances
  <2> QED
    BY <2>4, <2>6 DEF LedgerInv
<1>9. ASSUME Tick \/ UNCHANGED vars
      PROVE  LedgerInv'
  BY <1>0, <1>9, PoolAssumption
  DEF Tick, vars, LedgerInv, TypeOK, LedgerBalances, WarmInv, Resident
<1>10. ASSUME Clear \/ EvictLru \/ \E ttl \in 0..MaxInstant : EvictIdle(ttl)
       PROVE  LedgerInv'
  BY <1>7, <1>10, ShedsOldest DEF Clear, EvictLru, EvictIdle, Idle
<1>11. ASSUME NEW k \in Keys, Remove(k)
       PROVE  LedgerInv'
  BY <1>7, <1>11 DEF Remove
<1> QED
  BY <1>2, <1>4, <1>5, <1>6, <1>8, <1>9, <1>10, <1>11 DEF Next

LEMMA LedgerInit == Init => LedgerInv
<1> SUFFICES ASSUME Init PROVE LedgerInv
  OBVIOUS
<1>1. Resident = {} /\ DOMAIN since = {}
  BY DEF Init, Resident
<1>2. Cardinality(Resident) = 0
  BY <1>1, FS_EmptySet
<1> QED
  BY <1>1, <1>2, PoolAssumption DEF Init, LedgerInv, TypeOK, LedgerBalances, WarmInv

LEMMA LedgerInvariance == Spec => []LedgerInv
<1>1. PoolInv /\ LedgerInv /\ [Next]_vars => LedgerInv'
  BY LedgerStep
<1> QED
  BY <1>1, LedgerInit, PoolInvariance, PTL DEF Spec

\* Every tenant created or installed is resident, was evicted or was handed
\* back, and the lifetime counters say so (touch_or_create, insert, remove,
\* evict_lru, evict_idle), for any capacity and any mixture of calls.
THEOREM LedgerStaysBalanced == Spec => []TenantsAccountedFor
<1>1. LedgerInv => TenantsAccountedFor
  BY DEF LedgerInv, TenantsAccountedFor
<1> QED
  BY <1>1, LedgerInvariance, PTL

\* No tenant's grade is ready before its detector accepted more points than
\* min_observations, three under a z-score threshold, whatever was replayed into
\* it, retracted from it or reset.
THEOREM ReadinessIsEarned == Spec => []ReadyNeedsWarmup
<1>1. LedgerInv => ReadyNeedsWarmup
  BY WarmIsEnough DEF LedgerInv, WarmInv, ReadyNeedsWarmup
<1> QED
  BY <1>1, LedgerInvariance, PTL
=============================================================================
