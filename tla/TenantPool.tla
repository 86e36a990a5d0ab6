----------------------------- MODULE TenantPool -----------------------------
(***************************************************************************)
(* A pool of detectors, one per tenant, made on first use by a factory     *)
(* that may fail.  Each slot carries the tick and the instant of its last  *)
(* access: capacity pressure evicts by tick, idleness by instant.  Calls   *)
(* take `&mut self`, so they do not overlap; time passes between them.     *)
(***************************************************************************)
EXTENDS ThresholdedForest, FiniteSets, TLC

CONSTANTS
  Keys,         \* tenants
  Capacity,     \* of the pool
  FactoryMode,  \* threshold mode of the detectors the factory builds
  MaxTick,      \* bound on access_counter
  MaxInstant    \* bound on the clock

ASSUME PoolAssumption ==
  /\ IsFiniteSet(Keys) /\ Capacity \in Nat \ {0}
  /\ FactoryMode \in Modes
  /\ MaxTick \in Nat /\ MaxInstant \in Nat

VARIABLES
  forests,                   \* the slot of each resident tenant
  access_counter,
  tenants_created_lifetime,
  tenants_evicted_lifetime,
  now,                       \* what Instant::now() returns
  since,                     \* history, of each tenant in use: who was used after it
  installed,                 \* history: tenants brought in by `insert`
  released                   \* history: tenants handed out by `remove` and `clear`

vars == <<forests, access_counter, tenants_created_lifetime,
          tenants_evicted_lifetime, now, since, installed, released>>

Resident == DOMAIN forests

Init ==
  /\ forests = [k \in {} |-> 0]
  /\ access_counter = 0
  /\ tenants_created_lifetime = 0 /\ tenants_evicted_lifetime = 0
  /\ now = 0
  /\ since = [k \in {} |-> {}]
  /\ installed = 0 /\ released = 0

------------------------------------------------------------------------------
(* The parts every call is made of.                                         *)

\* Every access takes a tick, found tenant or not.
BumpAccess == access_counter < MaxTick /\ access_counter' = access_counter + 1

\* The slot an access leaves, with the tick just taken.
Stamped(d) ==
  [forest |-> d, last_access |-> access_counter + 1, last_access_instant |-> now]

\* Mutant: compares instants, which calls close together share.
LruByInstant ==
  CHOOSE k \in Resident : \A j \in Resident :
    forests[k].last_access_instant <= forests[j].last_access_instant

Lru == CHOOSE k \in Resident :
         \A j \in Resident : forests[k].last_access <= forests[j].last_access

\* Whom the arrival of k pushes out.
Room(k) ==
  IF k \in Resident \/ Cardinality(Resident) < Capacity THEN {} ELSE {Lru}

Store(k, S, d) ==
  forests' = [j \in (Resident \ S) \cup {k} |->
                IF j = k THEN Stamped(d) ELSE forests[j]]

Drop(S) == forests' = [j \in Resident \ S |-> forests[j]]

CountEvicted(S) ==
  tenants_evicted_lifetime' = tenants_evicted_lifetime + Cardinality(S)

\* History: k was used; S is no longer expected to stay.
Used(k) == since' = [j \in DOMAIN since \cup {k} |->
                       IF j = k THEN {} ELSE since[j] \cup {k}]
Forgotten(S) == since' = [j \in DOMAIN since \ S |-> since[j]]

DetectorOf(k) ==
  IF k \in Resident THEN forests[k].forest ELSE FromParts(FactoryMode)

\* touch_or_create, and what the call then makes of the detector.
TouchOrCreate(k, results) ==
  /\ BumpAccess
  /\ \E d \in results : Store(k, Room(k), d)
  /\ CountEvicted(Room(k))
  /\ tenants_created_lifetime' =
       tenants_created_lifetime + (IF k \in Resident THEN 0 ELSE 1)
  /\ Used(k)
  /\ UNCHANGED <<now, installed, released>>

------------------------------------------------------------------------------
(* Calls that create the tenant.                                            *)

\* process, process_at: a point that is refused, malformed or not insertable,
\* is refused after the tenant is in.
Process(k) ==
  TouchOrCreate(k, Processed(DetectorOf(k)) \cup {DetectorOf(k)})

\* A history with n usable points, the others being skipped.
Bootstrap(k) ==
  \E n \in 0..MaxReplay : TouchOrCreate(k, Bootstrapped(DetectorOf(k), n))

\* attribution_many and score_early_term read, yet create what they miss.
ReadOrCreate(k) == TouchOrCreate(k, {DetectorOf(k)})

\* Mutant: counts the tenant before the factory has answered.
FactoryFailsCounted(k) ==
  /\ k \notin Resident
  /\ BumpAccess
  /\ Drop(Room(k))
  /\ CountEvicted(Room(k))
  /\ tenants_created_lifetime' = tenants_created_lifetime + 1
  /\ since' = [j \in DOMAIN since \ {k} |-> since[j] \cup {k}]
  /\ UNCHANGED <<now, installed, released>>

\* The factory fails after room was made for its detector.
FactoryFails(k) ==
  /\ k \notin Resident
  /\ BumpAccess
  /\ Drop(Room(k))
  /\ CountEvicted(Room(k))
  /\ since' = [j \in DOMAIN since \ {k} |-> since[j] \cup {k}]
  /\ UNCHANGED <<tenants_created_lifetime, now, installed, released>>

------------------------------------------------------------------------------
(* Calls that do not.                                                       *)

\* Mutant: a read that leaves the stamp of the slot.
GetMutUnstamped(k, results) ==
  /\ BumpAccess
  /\ IF k \in Resident
       THEN (\E d \in results : forests' = [forests EXCEPT ![k].forest = d]) /\ Used(k)
       ELSE UNCHANGED <<forests, since>>
  /\ UNCHANGED <<tenants_created_lifetime, tenants_evicted_lifetime,
                 now, installed, released>>

\* get_mut, and what the caller or the pool then makes of the detector.
GetMut(k, results) ==
  /\ BumpAccess
  /\ IF k \in Resident
       THEN (\E d \in results : Store(k, {}, d)) /\ Used(k)
       ELSE UNCHANGED <<forests, since>>
  /\ UNCHANGED <<tenants_created_lifetime, tenants_evicted_lifetime,
                 now, installed, released>>

\* get, score_only(_many), score_many_early_term, attribution, forensic_baseline.
Get(k) == GetMut(k, {DetectorOf(k)})

\* delete, delete_by_value, delete_before.
Delete(k) == GetMut(k, Retracted(DetectorOf(k)))

\* A caller walking iter_mut resets a detector; the slot is not touched.
IterMut(k) ==
  /\ k \in Resident
  /\ forests' = [forests EXCEPT ![k].forest = ResetStats(@)]
  /\ UNCHANGED <<access_counter, tenants_created_lifetime,
                 tenants_evicted_lifetime, now, since, installed, released>>

\* A detector from elsewhere, fresh or trained, replaces the tenant's.
Insert(k) ==
  /\ BumpAccess
  /\ \E m \in Modes, n \in {0, MaxReplay} :
       \E d \in Bootstrapped(FromParts(m), n) : Store(k, Room(k), d)
  /\ CountEvicted(Room(k))
  /\ Used(k)
  /\ installed' = installed + (IF k \in Resident THEN 0 ELSE 1)
  /\ UNCHANGED <<tenants_created_lifetime, now, released>>

Release(S) ==
  /\ Drop(S)
  /\ Forgotten(S)
  /\ released' = released + Cardinality(S)
  /\ UNCHANGED <<access_counter, tenants_created_lifetime,
                 tenants_evicted_lifetime, now, installed>>

Remove(k) == k \in Resident /\ Release({k})

Clear == Release(Resident)

------------------------------------------------------------------------------
(* Evictions the owner asks for.                                            *)

Shed(S) ==
  /\ Drop(S)
  /\ Forgotten(S)
  /\ CountEvicted(S)
  /\ UNCHANGED <<access_counter, tenants_created_lifetime, now,
                 installed, released>>

EvictLru == Resident # {} /\ Shed({Lru})

Idle(ttl) == {k \in Resident : now - forests[k].last_access_instant > ttl}

EvictIdle(ttl) == Shed(Idle(ttl))

Tick ==
  /\ now < MaxInstant
  /\ now' = now + 1
  /\ UNCHANGED <<forests, access_counter, tenants_created_lifetime,
                 tenants_evicted_lifetime, since, installed, released>>

Next ==
  \/ \E k \in Keys :
       \/ Process(k) \/ Bootstrap(k) \/ ReadOrCreate(k) \/ FactoryFails(k)
       \/ Get(k) \/ Delete(k) \/ IterMut(k) \/ Insert(k) \/ Remove(k)
  \/ Clear \/ EvictLru
  \/ \E ttl \in 0..MaxInstant : EvictIdle(ttl)
  \/ Tick

Spec == Init /\ [][Next]_vars

\* readiness_summary's test of one slot.
CountedReady(d) == d.observations >= MinObservations /\ d.spread

\* Tenants are interchangeable.
TenantSymmetry == Permutations(Keys)

------------------------------------------------------------------------------
(* Properties.                                                              *)

Slot == [forest : Detector, last_access : 1..MaxTick,
         last_access_instant : 0..MaxInstant]

\* The pool never holds more tenants than its capacity, whatever mixture of
\* calls, failures and evictions brought it here (touch_or_create, insert).
TypeOK ==
  /\ Resident \subseteq Keys /\ Cardinality(Resident) <= Capacity
  /\ forests \in [Resident -> Slot]
  /\ access_counter \in 0..MaxTick /\ now \in 0..MaxInstant
  /\ tenants_created_lifetime \in Nat /\ tenants_evicted_lifetime \in Nat
  /\ DOMAIN since \subseteq Keys /\ since \in [DOMAIN since -> SUBSET Keys]
  /\ installed \in Nat /\ released \in Nat

\* A tenant in use is not evicted by the others as long as fewer of them than
\* the capacity were used since its last use: neither calls on absent tenants,
\* nor failing factories, nor bulk reads that create tenants take it away.
WorkingSetStays ==
  \A k \in DOMAIN since : Cardinality(since[k]) < Capacity => k \in Resident

\* Tenants created or installed are resident, evicted or handed back, each
\* once: the lifetime counters of readiness_summary account for every arrival
\* and departure that does not go through the owner.
LedgerBalances ==
  tenants_created_lifetime + installed
    = Cardinality(Resident) + tenants_evicted_lifetime + released

\* The pool stays within its capacity and accounts for every tenant that came
\* and went (tenant_pool.rs).
TenantsAccountedFor == TypeOK /\ LedgerBalances

\* A grade is ready only after strictly more points than min_observations, and
\* under a z-score threshold three at least: the point a cold detector starts
\* with is not scored, and retractions and resets do not shorten the way.
ReadyNeedsWarmup ==
  \A k \in Resident :
    LET d == forests[k].forest
    IN  GradeReady(d) => /\ d.fed > MinObservations
                         /\ d.mode = "zsigma" => d.fed >= 3

\* Evicting by tick and evicting by idle time both follow one order of last
\* use: the pool is a bounded map that drops its least recently used tenants.
Order == {p \in Resident \X Resident :
            forests[p[1]].last_access < forests[p[2]].last_access}

Cache == INSTANCE LruCache WITH resident <- Resident, older <- Order

ImplementsLru == Cache!Spec

\* The doc of ReadinessSummary: ready counts the tenants whose grade would be
\* ready, warming the others.
SummaryMatchesGrades ==
  \A k \in Resident :
    CountedReady(forests[k].forest) <=> GradeReady(forests[k].forest)

------------------------------------------------------------------------------
(* The inductive invariant behind capacity, recency and the working set.    *)

SizeInv ==
  /\ Resident \subseteq DOMAIN since /\ DOMAIN since \subseteq Keys
  /\ \A k \in DOMAIN since : since[k] \subseteq Keys
  /\ Cardinality(Resident) <= Capacity

StampInv ==
  /\ access_counter \in Nat /\ now \in Nat
  /\ \A k \in Resident :
       /\ forests[k].last_access \in Nat
       /\ forests[k].last_access <= access_counter
       /\ forests[k].last_access_instant \in Nat
       /\ forests[k].last_access_instant <= now

\* Ticks are unique, and a later tick was not taken at an earlier instant.
OrderInv ==
  \A j, k \in Resident :
    /\ j # k => forests[j].last_access # forests[k].last_access
    /\ forests[j].last_access < forests[k].last_access =>
         forests[j].last_access_instant <= forests[k].last_access_instant

\* Whoever carries a later tick has been used since.
SinceInv ==
  \A j, k \in Resident :
    forests[k].last_access < forests[j].last_access => j \in since[k]

\* An evicted tenant has seen as many others used as the pool has room for.
GoneInv == \A k \in DOMAIN since \ Resident : Cardinality(since[k]) >= Capacity

PoolInv == SizeInv /\ StampInv /\ OrderInv /\ SinceInv /\ GoneInv

\* Every resident's detector warmed up as it should.
WarmInv == \A k \in Resident : Warm(forests[k].forest)

LedgerInv == TypeOK /\ LedgerBalances /\ WarmInv
=============================================================================
