--------------------------- MODULE RandomCutForest ---------------------------
(***************************************************************************)
(* The storage core of src/core: a RandomCutForest owns one reference-     *)
(* counted PointStore and, per tree, a reservoir sampler and a tree index. *)
(* One call runs at a time (&mut self), but inside an insertion or a       *)
(* deletion the trees are processed by rayon workers in parallel, sharing  *)
(* only the store's atomic reference counts.  The sequential build is the  *)
(* special case in which the workers run one after the other.              *)
(*                                                                         *)
(* A step is a worker's atomic access together with the local work before  *)
(* it, or a piece of a call that runs while no worker does.                *)
(* The stored point is represented by the number of the observation it     *)
(* came from; ValueOf gives that observation's coordinates.                *)
(***************************************************************************)
EXTENDS Integers, Sequences, FiniteSets

CONSTANTS
  NumTrees,      \* config.num_trees
  SampleSize,    \* config.sample_size, the capacity of every reservoir
  WarmUp,        \* max(1, initial_accept_fraction * sample_size)
  MaxSlots,      \* bound: slots the store may allocate
  MaxObs,        \* bound: observations ever inserted
  Times,         \* timestamps a caller may pass
  ValueOf,       \* coordinates of the k-th observation
  MaxBatch,      \* bound: probes of one codisp call (1: score_codisp only)
  StampAnySlot,  \* whether a caller stamps indices it no longer owns
  None           \* Option::None

Trees == 1..NumTrees
Slots == 0..MaxSlots-1
Obs   == 1..MaxObs

ASSUME SizeAssumption ==
  /\ NumTrees \in Nat \ {0}
  /\ SampleSize \in Nat \ {0}
  /\ WarmUp \in Nat \ {0}
  /\ MaxSlots \in Nat \ {0}
  /\ MaxObs \in Nat
  /\ MaxBatch \in Nat \ {0}
ASSUME TimeAssumption == Times \subseteq Nat
ASSUME NoneAssumption == None \notin Nat
ASSUME StampAssumption == StampAnySlot \in BOOLEAN

VARIABLES
  \* PointStore
  points, refs, free, capacity,
  \* RandomCutForest
  timestamps, updates_seen,
  \* per tree: the sampler's indices, the tree's leaf index
  sample, indexed,
  \* the insertion or deletion being fanned out, and its slot
  job, slot,
  \* per worker: progress, evicted slot, refcount it read, slot it must free
  stage, victim, loaded, pending_free,
  \* the API call in progress
  call

storeVars  == <<points, refs, free, capacity>>
treeVars   == <<sample, indexed>>
workerVars == <<stage, victim, loaded, pending_free>>
vars == <<storeVars, treeVars, workerVars, timestamps, updates_seen,
          job, slot, call>>

Idle == [op |-> "idle", time |-> None, left |-> 0, probes |-> <<>>, todo |-> {}]

Init ==
  /\ points = [s \in Slots |-> None]
  /\ refs = [s \in Slots |-> 0]
  /\ free = <<>>
  /\ capacity = 0
  /\ timestamps = [s \in Slots |-> None]
  /\ updates_seen = 0
  /\ sample = [t \in Trees |-> {}]
  /\ indexed = [t \in Trees |-> {}]
  /\ job = "none"
  /\ slot = None
  /\ stage = [t \in Trees |-> "done"]
  /\ victim = [t \in Trees |-> None]
  /\ loaded = [t \in Trees |-> None]
  /\ pending_free = [t \in Trees |-> None]
  /\ call = Idle

------------------------------------------------------------------------------
(* Helpers. *)

IsLive(s)  == points[s] # None
AtRest     == job = "none" /\ call = Idle
Sampled(s) == \E t \in Trees : s \in sample[t]
AllDone    == \A t \in Trees : stage[t] = "done"
NonePending == \A t \in Trees : pending_free[t] = None

\* The slot a store hands out next: the top of the free list, else a new one.
NextSlot == IF free = <<>> THEN capacity ELSE free[Len(free)]

\* The observations the running codisp call has inserted as probes.
ProbeObs == {call.probes[i][2] : i \in 1..Len(call.probes)}

\* Mutant: the freed slot keeps its timestamp.
ReleaseKeepsStamp(s) ==
  /\ points' = [points EXCEPT ![s] = None]
  /\ free' = Append(free, s)
  /\ UNCHANGED timestamps

\* Mutant: the freed slot is not put on the free list.
ReleaseLeaks(s) ==
  /\ points' = [points EXCEPT ![s] = None]
  /\ UNCHANGED free
  /\ timestamps' = [timestamps EXCEPT ![s] = None]

\* Release(s): the slot's point is dropped and the slot becomes reusable.
Release(s) ==
  /\ points' = [points EXCEPT ![s] = None]
  /\ free' = Append(free, s)
  /\ timestamps' = [timestamps EXCEPT ![s] = None]

FanOut(kind, s) ==
  /\ job' = kind
  /\ slot' = s
  /\ stage' = [t \in Trees |-> "start"]

------------------------------------------------------------------------------
(* Insertion: the new point takes a slot with refcount 0 (PointStore::add)  *)
(* and every tree's sampler is offered it.                                  *)

BeginInsert ==
  /\ updates_seen < MaxObs
  /\ NextSlot < MaxSlots
  /\ \/ free = <<>> /\ free' = free /\ capacity' = capacity + 1
     \/ free # <<>> /\ free' = SubSeq(free, 1, Len(free) - 1) /\ capacity' = capacity
  /\ points' = [points EXCEPT ![NextSlot] = updates_seen + 1]
  /\ refs' = [refs EXCEPT ![NextSlot] = 0]
  /\ FanOut("insert", NextSlot)
  /\ UNCHANGED <<treeVars, victim, loaded, pending_free, timestamps, updates_seen>>

\* The sampler refuses: by the warm-up gate, or because a full reservoir's
\* largest weight is not above the newcomer's.
Reject(t) ==
  /\ job = "insert" /\ stage[t] = "start"
  /\ \/ updates_seen + 1 < WarmUp
     \/ Cardinality(sample[t]) >= SampleSize
  /\ stage' = [stage EXCEPT ![t] = "done"]
  /\ UNCHANGED <<storeVars, treeVars, victim, loaded, pending_free, timestamps,
                 updates_seen, job, slot, call>>

\* Mutant: a full reservoir admits one point more.
AdmitWhenFull(t) ==
  /\ job = "insert" /\ stage[t] = "start"
  /\ Cardinality(sample[t]) <= SampleSize
  /\ sample' = [sample EXCEPT ![t] = @ \cup {slot}]
  /\ stage' = [stage EXCEPT ![t] = "link"]
  /\ UNCHANGED <<storeVars, indexed, victim, loaded, pending_free, timestamps,
                 updates_seen, job, slot, call>>

Admit(t) ==
  /\ job = "insert" /\ stage[t] = "start"
  /\ Cardinality(sample[t]) < SampleSize
  /\ sample' = [sample EXCEPT ![t] = @ \cup {slot}]
  /\ stage' = [stage EXCEPT ![t] = "link"]
  /\ UNCHANGED <<storeVars, indexed, victim, loaded, pending_free, timestamps,
                 updates_seen, job, slot, call>>

\* A full reservoir gives up its largest weight e; the tree drops e's leaf.
Replace(t, e) ==
  /\ job = "insert" /\ stage[t] = "start"
  /\ Cardinality(sample[t]) >= SampleSize
  /\ e \in sample[t]
  /\ sample' = [sample EXCEPT ![t] = (@ \ {e}) \cup {slot}]
  /\ indexed' = [indexed EXCEPT ![t] = @ \ {e}]
  /\ victim' = [victim EXCEPT ![t] = e]
  /\ stage' = [stage EXCEPT ![t] = "load"]
  /\ UNCHANGED <<storeVars, loaded, pending_free, timestamps, updates_seen,
                 job, slot, call>>

\* tree.add, then the atomic incr_ref.
Link(t) ==
  /\ stage[t] = "link"
  /\ IsLive(slot)
  /\ indexed' = [indexed EXCEPT ![t] = @ \cup {slot}]
  /\ refs' = [refs EXCEPT ![slot] = @ + 1]
  /\ stage' = [stage EXCEPT ![t] = "done"]
  /\ UNCHANGED <<points, free, capacity, sample, victim, loaded, pending_free,
                 timestamps, updates_seen, job, slot, call>>

------------------------------------------------------------------------------
(* decr_ref: load, then compare-exchange; the weak exchange may fail.       *)

LoadRef(t) ==
  /\ stage[t] = "load"
  /\ IsLive(victim[t]) /\ refs[victim[t]] > 0
  /\ loaded' = [loaded EXCEPT ![t] = refs[victim[t]]]
  /\ stage' = [stage EXCEPT ![t] = "cas"]
  /\ UNCHANGED <<storeVars, treeVars, victim, pending_free, timestamps,
                 updates_seen, job, slot, call>>

\* Mutant: the decremented count is stored without comparing.
StoreRef(t) ==
  /\ stage[t] = "cas"
  /\ refs' = [refs EXCEPT ![victim[t]] = loaded[t] - 1]
  /\ pending_free' = [pending_free EXCEPT ![t] =
                        IF loaded[t] = 1 THEN victim[t] ELSE None]
  /\ victim' = [victim EXCEPT ![t] = None]
  /\ loaded' = [loaded EXCEPT ![t] = None]
  /\ stage' = [stage EXCEPT ![t] = IF job = "insert" THEN "link" ELSE "done"]
  /\ UNCHANGED <<points, free, capacity, treeVars, timestamps, updates_seen,
                 job, slot, call>>

CasRef(t) ==
  /\ stage[t] = "cas"
  /\ refs[victim[t]] = loaded[t]
  /\ refs' = [refs EXCEPT ![victim[t]] = loaded[t] - 1]
  /\ pending_free' = [pending_free EXCEPT ![t] =
                        IF loaded[t] = 1 THEN victim[t] ELSE None]
  /\ victim' = [victim EXCEPT ![t] = None]
  /\ loaded' = [loaded EXCEPT ![t] = None]
  /\ stage' = [stage EXCEPT ![t] = IF job = "insert" THEN "link" ELSE "done"]
  /\ UNCHANGED <<points, free, capacity, treeVars, timestamps, updates_seen,
                 job, slot, call>>

\* Mutant: a failed exchange is retried with the count it was tried with.
CasRetriesStale(t) ==
  /\ stage[t] = "cas"
  /\ UNCHANGED vars

CasFails(t) ==
  /\ stage[t] = "cas"
  /\ loaded' = [loaded EXCEPT ![t] = None]
  /\ stage' = [stage EXCEPT ![t] = "load"]
  /\ UNCHANGED <<storeVars, treeVars, victim, pending_free, timestamps,
                 updates_seen, job, slot, call>>

------------------------------------------------------------------------------
(* Deletion, per tree: sampler and tree forget the slot, then decr_ref.     *)

BeginDelete(s) ==
  /\ FanOut("delete", s)
  /\ UNCHANGED <<storeVars, treeVars, victim, loaded, pending_free, timestamps,
                 updates_seen>>

Withdraw(t) ==
  /\ job = "delete" /\ stage[t] = "start"
  /\ slot \in sample[t]
  /\ sample' = [sample EXCEPT ![t] = @ \ {slot}]
  /\ indexed' = [indexed EXCEPT ![t] = @ \ {slot}]
  /\ victim' = [victim EXCEPT ![t] = slot]
  /\ stage' = [stage EXCEPT ![t] = "load"]
  /\ UNCHANGED <<storeVars, loaded, pending_free, timestamps, updates_seen,
                 job, slot, call>>

\* Mutant: the reference is given up whether or not the sampler held the slot.
NotHeldDropsReference(t) ==
  /\ job = "delete" /\ stage[t] = "start"
  /\ slot \notin sample[t]
  /\ victim' = [victim EXCEPT ![t] = slot]
  /\ stage' = [stage EXCEPT ![t] = "load"]
  /\ UNCHANGED <<storeVars, treeVars, loaded, pending_free, timestamps,
                 updates_seen, job, slot, call>>

NotHeld(t) ==
  /\ job = "delete" /\ stage[t] = "start"
  /\ slot \notin sample[t]
  /\ stage' = [stage EXCEPT ![t] = "done"]
  /\ UNCHANGED <<storeVars, treeVars, victim, loaded, pending_free, timestamps,
                 updates_seen, job, slot, call>>

------------------------------------------------------------------------------
(* The tail of a fan-out, when every worker has joined.                     *)

\* insert_point's loop over pending_frees, in tree order.
FreeEvicted(t) ==
  /\ job = "insert" /\ AllDone
  /\ pending_free[t] # None
  /\ \A u \in Trees : u < t => pending_free[u] = None
  /\ IsLive(pending_free[t]) /\ refs[pending_free[t]] = 0
  /\ Release(pending_free[t])
  /\ pending_free' = [pending_free EXCEPT ![t] = None]
  /\ UNCHANGED <<refs, capacity, treeVars, stage, victim, loaded, updates_seen,
                 job, slot, call>>

\* A point no tree admitted is dropped again; update_at stamps one that was.
\* A codisp probe is remembered by the slot it was given.
EndInsert ==
  /\ job = "insert" /\ AllDone /\ NonePending
  /\ IF refs[slot] = 0
     THEN Release(slot)
     ELSE /\ timestamps' = IF call.op = "update_at"
                           THEN [timestamps EXCEPT ![slot] = call.time]
                           ELSE timestamps
          /\ UNCHANGED <<points, free>>
  /\ updates_seen' = updates_seen + 1
  /\ call' = IF call.op = "codisp"
             THEN [call EXCEPT !.probes = Append(@, <<slot, updates_seen + 1>>)]
             ELSE Idle
  /\ job' = "none" /\ slot' = None
  /\ UNCHANGED <<refs, capacity, treeVars, workerVars>>

\* Mutant: only the first worker's answer decides whether the slot is freed.
EndDeleteAsksFirst ==
  /\ job = "delete" /\ AllDone
  /\ IF pending_free[1] = None
     THEN UNCHANGED <<points, free, timestamps>>
     ELSE IsLive(slot) /\ refs[slot] = 0 /\ Release(slot)
  /\ pending_free' = [t \in Trees |-> None]
  /\ call' = IF call.op = "delete" THEN Idle ELSE call
  /\ job' = "none" /\ slot' = None
  /\ UNCHANGED <<refs, capacity, treeVars, stage, victim, loaded, updates_seen>>

\* went_to_zero: the worker that dropped the last reference frees the slot.
\* delete_before scrubs the timestamp whatever the outcome.
EndDelete ==
  /\ job = "delete" /\ AllDone
  /\ IF NonePending
     THEN /\ timestamps' = IF call.op = "delete_before"
                           THEN [timestamps EXCEPT ![slot] = None]
                           ELSE timestamps
          /\ UNCHANGED <<points, free>>
     ELSE IsLive(slot) /\ refs[slot] = 0 /\ Release(slot)
  /\ pending_free' = [t \in Trees |-> None]
  /\ call' = IF call.op = "delete" THEN Idle ELSE call
  /\ job' = "none" /\ slot' = None
  /\ UNCHANGED <<refs, capacity, treeVars, stage, victim, loaded, updates_seen>>

------------------------------------------------------------------------------
(* The calls.                                                               *)

Update ==
  /\ AtRest
  /\ BeginInsert
  /\ call' = [Idle EXCEPT !.op = "update"]

UpdateAt(ts) ==
  /\ AtRest
  /\ BeginInsert
  /\ call' = [Idle EXCEPT !.op = "update_at", !.time = ts]

Delete(s) ==
  /\ AtRest
  /\ BeginDelete(s)
  /\ call' = [Idle EXCEPT !.op = "delete"]

\* Mutant: the cutoff itself is collected too.
DeleteUpTo(cutoff) ==
  /\ AtRest
  /\ call' = [Idle EXCEPT !.op = "delete_before", !.time = cutoff,
                !.todo = {s \in Slots : /\ timestamps[s] # None
                                        /\ timestamps[s] <= cutoff}]
  /\ UNCHANGED <<storeVars, treeVars, workerVars, timestamps, updates_seen,
                 job, slot>>

\* The victims are collected before the first of them is deleted.
DeleteBefore(cutoff) ==
  /\ AtRest
  /\ call' = [Idle EXCEPT !.op = "delete_before", !.time = cutoff,
                !.todo = {s \in Slots : /\ timestamps[s] # None
                                        /\ timestamps[s] < cutoff}]
  /\ UNCHANGED <<storeVars, treeVars, workerVars, timestamps, updates_seen,
                 job, slot>>

DeleteByValue(v) ==
  /\ AtRest
  /\ call' = [Idle EXCEPT !.op = "delete_by_value",
                !.todo = {s \in Slots : /\ Sampled(s) /\ IsLive(s)
                                        /\ ValueOf[points[s]] = v}]
  /\ UNCHANGED <<storeVars, treeVars, workerVars, timestamps, updates_seen,
                 job, slot>>

\* score_codisp (n = 1) and score_codisp_many: insert, walk, delete again.
ScoreCodisp(n) ==
  /\ AtRest
  /\ updates_seen + n <= MaxObs
  /\ call' = [Idle EXCEPT !.op = "codisp", !.left = n]
  /\ UNCHANGED <<storeVars, treeVars, workerVars, timestamps, updates_seen,
                 job, slot>>

InsertProbe ==
  /\ job = "none" /\ call.op = "codisp" /\ call.left > 0
  /\ BeginInsert
  /\ call' = [call EXCEPT !.left = @ - 1]

\* Mutant: only the batch's first probe is deleted again.
WithdrawFirstProbe ==
  /\ job = "none" /\ call.op = "codisp" /\ call.left = 0
  /\ call' = [call EXCEPT !.op = "withdraw", !.todo = {call.probes[1][1]}]
  /\ UNCHANGED <<storeVars, treeVars, workerVars, timestamps, updates_seen,
                 job, slot>>

WalkProbes ==
  /\ job = "none" /\ call.op = "codisp" /\ call.left = 0
  /\ call' = [call EXCEPT !.op = "withdraw",
                !.todo = {call.probes[i][1] : i \in 1..Len(call.probes)}]
  /\ UNCHANGED <<storeVars, treeVars, workerVars, timestamps, updates_seen,
                 job, slot>>

\* The next slot of the call's list: the lowest one, or the oldest probe.
DeleteNext(s) ==
  /\ job = "none" /\ s \in call.todo
  /\ IF call.op = "withdraw"
     THEN \E i \in 1..Len(call.probes) :
            /\ call.probes[i][1] = s
            /\ \A j \in 1..i-1 : call.probes[j][1] \notin call.todo
     ELSE \A r \in call.todo : s <= r
  /\ BeginDelete(s)
  /\ call' = [call EXCEPT !.todo = @ \ {s}]

Return ==
  /\ job = "none" /\ call.todo = {}
  /\ call.op \in {"delete_before", "delete_by_value", "withdraw"}
  /\ call' = Idle
  /\ UNCHANGED <<storeVars, treeVars, workerVars, timestamps, updates_seen,
                 job, slot>>

SetPointTimestamp(s, ts) ==
  /\ AtRest
  /\ StampAnySlot \/ IsLive(s)
  /\ timestamps' = [timestamps EXCEPT ![s] = ts]
  /\ UNCHANGED <<storeVars, treeVars, workerVars, updates_seen, job, slot, call>>

------------------------------------------------------------------------------

Worker(t) ==
  \/ Reject(t)
  \/ Admit(t)
  \/ \E e \in Slots : Replace(t, e)
  \/ Withdraw(t)
  \/ NotHeld(t)
  \/ LoadRef(t)
  \/ CasRef(t)
  \/ CasFails(t)
  \/ Link(t)

Callers ==
  \/ Update
  \/ \E ts \in Times : UpdateAt(ts)
  \/ \E s \in Slots : Delete(s)
  \/ \E cutoff \in Times : DeleteBefore(cutoff)
  \/ \E o \in Obs : DeleteByValue(ValueOf[o])
  \/ \E n \in 1..MaxBatch : ScoreCodisp(n)
  \/ \E s \in Slots, ts \in Times : SetPointTimestamp(s, ts)

Body ==
  \/ \E t \in Trees : FreeEvicted(t)
  \/ EndInsert
  \/ EndDelete
  \/ InsertProbe
  \/ WalkProbes
  \/ \E s \in Slots : DeleteNext(s)
  \/ Return

Next ==
  \/ \E t \in Trees : Worker(t)
  \/ Callers
  \/ Body

Spec == Init /\ [][Next]_vars

\* Workers and the running call make progress; the operating system's threads
\* are scheduled, and a weak compare-exchange does not fail for ever.  Callers
\* need never call.
Fairness ==
  /\ WF_vars(Body)
  /\ \A t \in Trees : WF_vars(Worker(t)) /\ SF_vars(CasRef(t))

FairSpec == Spec /\ Fairness

------------------------------------------------------------------------------
(* Correctness.                                                             *)

Ops == {"idle", "update", "update_at", "delete", "delete_before",
        "delete_by_value", "codisp", "withdraw"}

CallType == [op : Ops, time : Times \cup {None}, left : Nat,
             probes : Seq(Slots \X Obs), todo : SUBSET Slots]

\* The type of every variable.
TypeOK ==
  /\ points \in [Slots -> Obs \cup {None}]
  /\ refs \in [Slots -> Nat]
  /\ free \in Seq(Slots)
  /\ capacity \in 0..MaxSlots
  /\ timestamps \in [Slots -> Times \cup {None}]
  /\ updates_seen \in 0..MaxObs
  /\ sample \in [Trees -> SUBSET Slots]
  /\ indexed \in [Trees -> SUBSET Slots]
  /\ job \in {"none", "insert", "delete"}
  /\ slot \in IF job = "none" THEN {None} ELSE Slots
  /\ stage \in [Trees -> {"start", "load", "cas", "link", "done"}]
  /\ victim \in [Trees -> Slots \cup {None}]
  /\ loaded \in [Trees -> Nat \cup {None}]
  /\ pending_free \in [Trees -> Slots \cup {None}]
  /\ call \in CallType

\* Whatever the interleaving of the workers, none of them meets an error
\* branch of the store: decr_ref finds a live slot above zero, incr_ref and
\* tree.add find the new point, and each slot that must be freed is live,
\* unreferenced and named by one worker only (no double free).
NoStoreError ==
  \A t \in Trees :
    /\ stage[t] \in {"load", "cas"} => IsLive(victim[t]) /\ refs[victim[t]] > 0
    /\ stage[t] = "link" => IsLive(slot)
    /\ pending_free[t] # None =>
         /\ IsLive(pending_free[t]) /\ refs[pending_free[t]] = 0
         /\ \A u \in Trees \ {t} : pending_free[u] # pending_free[t]

\* At every step of a fan-out each slot a tree or its sampler names is live:
\* a worker that reads coordinates never finds a hole, even while a peer has
\* just dropped the last reference to a slot of its own.
TreesNameLivePoints ==
  \A t \in Trees : \A s \in sample[t] \cup indexed[t] : IsLive(s)

\* PointStore::validate_restored: the free list names each empty slot, once.
ValidStore ==
  /\ \A i, j \in 1..Len(free) : free[i] = free[j] => i = j
  /\ {free[i] : i \in 1..Len(free)} = {s \in 0..capacity-1 : ~IsLive(s)}

\* What a decoded sampler and its tree must have in common.
ValidPair(t) ==
  /\ sample[t] = indexed[t] /\ Cardinality(sample[t]) <= SampleSize
  /\ \A s \in sample[t] : IsLive(s)

\* The checks TryFrom makes of a snapshot.
ValidSnapshot ==
  /\ ValidStore
  /\ \A t \in Trees : ValidPair(t)
  /\ \A s \in Slots : IsLive(s) =>
       refs[s] = Cardinality({t \in Trees : s \in sample[t]})
  /\ \A s \in Slots : timestamps[s] # None => IsLive(s)

\* Between calls the forest passes the checks that a reload makes of what is
\* saved then: free list, samplers against trees, counts against holders, and
\* stamps against live points.
SnapshotReloads == AtRest => ValidSnapshot

\* Between calls no point is kept that no reservoir holds any more.
NoOrphan == AtRest => \A s \in Slots : IsLive(s) => Sampled(s)

\* The store never outgrows what the reservoirs can hold plus the one point
\* being offered, however long the stream.
StoreBounded == capacity <= NumTrees * SampleSize + 1

\* delete_before removes nothing younger than its cutoff and nothing that was
\* never stamped, and when it returns nothing older than the cutoff is left.
RetentionExact ==
  [][call.op = "delete_before" =>
       /\ \A t \in Trees : \A s \in sample[t] \ sample'[t] :
            timestamps[s] # None /\ timestamps[s] < call.time
       /\ call' = Idle => \A s \in Slots :
            timestamps[s] # None => timestamps[s] >= call.time /\ Sampled(s)]_vars

\* A codisp call gives back what it inserted and nothing else: it withdraws
\* only its own probes, and no probe is stored when it returns.
CodispRestores ==
  [][call.op = "withdraw" =>
       /\ \A t \in Trees : \A s \in sample[t] \ sample'[t] : points[s] \in ProbeObs
       /\ call' = Idle => \A s \in Slots : points[s] \notin ProbeObs]_vars

\* The doc of score_codisp_many: a batch larger than the reservoirs returns
\* EmptyForest.  The call returns it when, all probes inserted, the index of
\* some probe has a leaf in no tree.
OversizedBatchIsRefused ==
  /\ call.op = "codisp" /\ call.left = 0 /\ job = "none"
  /\ Len(call.probes) > SampleSize
  => \E i \in 1..Len(call.probes) : \A t \in Trees :
       call.probes[i][1] \notin indexed[t]

\* Every call returns: no interleaving leaves a worker retrying its exchange
\* or the caller waiting for a worker.
EveryCallReturns == (call # Idle) ~> (call = Idle)

------------------------------------------------------------------------------
(* The inductive invariant behind the safety properties.                    *)

\* The references tree t still has in the store's counters: those of the slots
\* it indexes, and the one it is about to give up.
Counted(t) ==
  indexed[t] \cup (IF stage[t] \in {"load", "cas"} THEN {victim[t]} ELSE {})

Holders(s) == {t \in Trees : s \in Counted(t)}

\* The newcomer, between its admission by the sampler and tree.add.
Unlinked(t) ==
  IF job = "insert" /\ stage[t] \in {"load", "cas", "link"} THEN {slot} ELSE {}

WorkerInv ==
  \A t \in Trees :
    /\ job = "none" => stage[t] = "done"
    /\ stage[t] = "link" => job = "insert"
    /\ stage[t] \in {"load", "cas"} => victim[t] \in Slots \ indexed[t]
    /\ stage[t] = "cas" => loaded[t] \in Nat \ {0}
    /\ sample[t] = indexed[t] \cup Unlinked(t)
    /\ Cardinality(sample[t]) <= SampleSize
    /\ job = "insert" /\ stage[t] \in {"load", "cas"} => victim[t] # slot
    /\ job = "insert" /\ stage[t] # "done" => slot \notin indexed[t]
    /\ job = "delete" /\ stage[t] \in {"load", "cas"} => victim[t] = slot

\* A counter is the number of trees whose reference it still includes, and a
\* referenced slot is live; the slot being filled holds the newcomer.
RefInv ==
  /\ \A s \in Slots : refs[s] = Cardinality(Holders(s))
  /\ \A t \in Trees : \A s \in Counted(t) : IsLive(s)
  /\ job = "insert" => points[slot] = updates_seen + 1

\* A slot is handed over for freeing once, by the worker that saw it reach
\* zero, and nothing references it again.
PendingInv ==
  \A t \in Trees : pending_free[t] # None =>
    /\ IsLive(pending_free[t]) /\ refs[pending_free[t]] = 0
    /\ \A u \in Trees \ {t} : pending_free[u] # pending_free[t]
    /\ job # "none" /\ stage[t] \in {"link", "done"}
    /\ job = "insert" => pending_free[t] # slot
    /\ job = "delete" => pending_free[t] = slot

\* The free list names every empty slot below the capacity, once.
FreeInv ==
  /\ \A i, j \in 1..Len(free) : free[i] = free[j] => i = j
  /\ \A i \in 1..Len(free) : ~IsLive(free[i]) /\ free[i] < capacity
  /\ \A s \in Slots : s < capacity /\ ~IsLive(s) =>
       \E i \in 1..Len(free) : free[i] = s
  /\ \A s \in Slots : s >= capacity => ~IsLive(s)

\* A live slot is referenced, being inserted, or waiting to be freed.
OwnerInv ==
  \A s \in Slots : IsLive(s) =>
    \/ refs[s] > 0
    \/ job = "insert" /\ s = slot
    \/ \E t \in Trees : pending_free[t] = s

\* Together they are inductive, whatever the callers do.
IInv ==
  /\ TypeOK
  /\ WorkerInv
  /\ RefInv
  /\ PendingInv
  /\ FreeInv
  /\ OwnerInv

\* For callers that stamp only live indices, only live slots have stamps.
StampInv == \A s \in Slots : timestamps[s] # None => IsLive(s)

\* ... and the newcomer has none before its insertion ends.
FreshInv == job = "insert" => timestamps[slot] = None

\* An observation is stored once, and none is stored before its insertion.
ObsInv ==
  /\ \A s \in Slots : IsLive(s) =>
       points[s] <= updates_seen \/ (job = "insert" /\ s = slot)
  /\ \A r, s \in Slots : IsLive(r) /\ points[r] = points[s] => r = s

\* Which calls insert, which delete, and which are between two of theirs.
CallInv ==
  /\ call.op = "idle" => call = Idle /\ job = "none"
  /\ job = "insert" => call.op \in {"update", "update_at", "codisp"}
  /\ job = "delete" => call.op \in {"delete", "delete_before", "delete_by_value", "withdraw"}
  /\ job = "none" => call.op \notin {"update", "update_at", "delete"}
  /\ job = "delete" => slot \notin call.todo
  /\ call.op = "codisp" => call.todo = {}

\* A worker that has taken its turn on a deletion has forgotten the slot.
RetractInv ==
  job = "delete" => \A t \in Trees : stage[t] # "start" => slot \notin sample[t]

\* What delete_before collected is what is left of the stale stamps.
Stale(s) == timestamps[s] # None /\ timestamps[s] < call.time

BeforeInv ==
  call.op = "delete_before" =>
    /\ call.time \in Times
    /\ \A s \in call.todo : Stale(s)
    /\ job = "delete" => Stale(slot)
    /\ \A s \in Slots : Stale(s) => s \in call.todo \/ (job = "delete" /\ s = slot)

\* A slot given to a probe holds a probe of the same call until that call has
\* come to delete it: nobody else inserts meanwhile.
ProbeSlots == {call.probes[i][1] : i \in 1..Len(call.probes)}

ProbeInv ==
  /\ \A o \in ProbeObs : o <= updates_seen
  /\ call.op = "codisp" =>
       /\ \A s \in Slots : points[s] \in ProbeObs => s \in ProbeSlots
       /\ \A s \in ProbeSlots : IsLive(s) =>
            points[s] \in ProbeObs \/ (job = "insert" /\ s = slot)
  /\ call.op = "withdraw" =>
       /\ \A s \in Slots : points[s] \in ProbeObs =>
            s \in call.todo \/ (job = "delete" /\ s = slot)
       /\ \A s \in call.todo : IsLive(s) => points[s] \in ProbeObs
       /\ job = "delete" /\ IsLive(slot) => points[slot] \in ProbeObs

\* What the calls add to IInv.
CallsInv == ObsInv /\ CallInv /\ RetractInv /\ BeforeInv /\ ProbeInv
==============================================================================
