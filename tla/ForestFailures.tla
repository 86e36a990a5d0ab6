--------------------------- MODULE ForestFailures ---------------------------
(***************************************************************************)
(* The forest when a worker errs.  process_tree_update lets the sampler    *)
(* take the newcomer before tree.add may refuse it; the error leaves the   *)
(* fan-out by `?`, so the slots that should be freed are forgotten, and    *)
(* trees that come later in the chunk are skipped.  What is left behind is *)
(* met by later calls: a ghost, an entry of a sampler its tree does not    *)
(* index, makes the call that evicts or retracts it err in turn.           *)
(*                                                                         *)
(* A worker's turn on one tree is one step; RandomCutForest has the        *)
(* interleavings of their atomic accesses.  A sampler is a bag of slots,   *)
(* for a ghost's slot may be handed out again and be sampled twice.        *)
(***************************************************************************)
EXTENDS Integers, FiniteSets, FiniteSetsExt

CONSTANTS
  NumTrees, SampleSize,
  MaxSlots,     \* bound: slots the store may allocate
  MaxUpdates,   \* bound: updates
  MaxRefusals,  \* bound: refusals of tree.add
  Absent        \* no slot

FailureAssumption ==
  NumTrees \in Nat /\ SampleSize \in Nat /\ MaxSlots \in Nat /\ Absent \notin Nat

Trees == 1..NumTrees
Slots == 0..MaxSlots-1

VARIABLES
  live, capacity, refs,      \* PointStore: slots with a point, slots allocated
  entries, indexed,          \* per tree: the sampler's heap, the leaf index
  job, slot, waiting,        \* the fan-out, and the trees it has yet to visit
  pending, failed,           \* slots to free after the join; whether a worker erred
  updates, refusals, errors  \* bounds, and the calls that returned an error

store   == <<live, capacity, refs>>
fanOut  == <<job, slot, waiting, pending, failed>>
vars    == <<store, entries, indexed, fanOut, updates, refusals, errors>>

Init ==
  /\ live = {} /\ capacity = 0
  /\ refs = [s \in Slots |-> 0]
  /\ entries = [t \in Trees |-> [s \in Slots |-> 0]]
  /\ indexed = [t \in Trees |-> {}]
  /\ job = "none" /\ slot = Absent /\ waiting = {}
  /\ pending = {} /\ failed = FALSE
  /\ updates = 0 /\ refusals = 0 /\ errors = 0

Held(t) == SumFunction(entries[t])

FanOut(kind, s) ==
  /\ job = "none"
  /\ job' = kind /\ slot' = s /\ waiting' = Trees
  /\ pending' = {} /\ failed' = FALSE
  /\ UNCHANGED <<entries, indexed, refusals, errors>>

\* PointStore::add: a free slot if there is one, else a new one.
BeginUpdate(s) ==
  /\ updates < MaxUpdates
  /\ IF \E r \in 0..capacity-1 : r \notin live
     THEN s < capacity /\ s \notin live /\ UNCHANGED capacity
     ELSE s = capacity /\ capacity' = capacity + 1
  /\ live' = live \cup {s}
  /\ refs' = [refs EXCEPT ![s] = 0]
  /\ updates' = updates + 1
  /\ FanOut("update", s)

BeginDelete(s) == FanOut("delete", s) /\ UNCHANGED <<store, updates>>

Visit(t) == t \in waiting /\ waiting' = waiting \ {t}

Err == failed' = TRUE

Reject(t) ==
  /\ job = "update" /\ Visit(t)
  /\ UNCHANGED <<store, entries, indexed, job, slot, pending, failed, updates,
                 refusals, errors>>

\* tree.add(new_idx): the leaf and its reference, or a refusal.  `count` is the
\* store's counts as the worker has them.
AddLeaf(t, leaves, count) ==
  \/ /\ indexed' = [indexed EXCEPT ![t] = leaves \cup {slot}]
     /\ refs' = [count EXCEPT ![slot] = @ + 1]
     /\ UNCHANGED <<failed, refusals>>
  \/ /\ refusals < MaxRefusals /\ refusals' = refusals + 1
     /\ indexed' = [indexed EXCEPT ![t] = leaves]
     /\ refs' = count
     /\ Err

Insert(t) ==
  /\ job = "update" /\ Visit(t)
  /\ Held(t) < SampleSize
  /\ entries' = [entries EXCEPT ![t][slot] = @ + 1]
  /\ AddLeaf(t, indexed[t], refs)
  /\ UNCHANGED <<live, capacity, job, slot, pending, updates, errors>>

Swapped(t, e) ==
  LET rest == [entries[t] EXCEPT ![e] = @ - 1]
  IN [entries EXCEPT ![t] = [rest EXCEPT ![slot] = @ + 1]]

\* decr_ref of e, by a worker that holds its leaf.
Without(e) == [refs EXCEPT ![e] = @ - 1]

\* Mutant: the reference is dropped before the tree is asked for the leaf.
ReplaceDropsFirst(t, e) ==
  /\ job = "update" /\ Visit(t)
  /\ Held(t) >= SampleSize /\ entries[t][e] > 0
  /\ entries' = Swapped(t, e)
  /\ IF e \in indexed[t]
     THEN /\ pending' = IF refs[e] = 1 THEN pending \cup {e} ELSE pending
          /\ AddLeaf(t, indexed[t] \ {e}, Without(e))
     ELSE /\ refs' = IF refs[e] > 0 THEN Without(e) ELSE refs
          /\ Err /\ UNCHANGED <<indexed, pending, refusals>>
  /\ UNCHANGED <<live, capacity, job, slot, updates, errors>>

\* The heaviest entry e gives way; a ghost's leaf is not found.
Replace(t, e) ==
  /\ job = "update" /\ Visit(t)
  /\ Held(t) >= SampleSize /\ entries[t][e] > 0
  /\ entries' = Swapped(t, e)
  /\ IF e \in indexed[t]
     THEN /\ pending' = IF refs[e] = 1 THEN pending \cup {e} ELSE pending
          /\ AddLeaf(t, indexed[t] \ {e}, Without(e))
     ELSE Err /\ UNCHANGED <<refs, indexed, pending, refusals>>
  /\ UNCHANGED <<live, capacity, job, slot, updates, errors>>

NotHeld(t) ==
  /\ job = "delete" /\ Visit(t)
  /\ entries[t][slot] = 0
  /\ UNCHANGED <<store, entries, indexed, job, slot, pending, failed, updates,
                 refusals, errors>>

\* sampler.remove takes every entry of the slot.
Withdraw(t) ==
  /\ job = "delete" /\ Visit(t)
  /\ entries[t][slot] > 0
  /\ entries' = [entries EXCEPT ![t][slot] = 0]
  /\ IF slot \in indexed[t]
     THEN /\ indexed' = [indexed EXCEPT ![t] = @ \ {slot}]
          /\ refs' = Without(slot)
          /\ pending' = IF refs[slot] = 1 THEN {slot} ELSE pending
          /\ UNCHANGED failed
     ELSE Err /\ UNCHANGED <<indexed, refs, pending>>
  /\ UNCHANGED <<live, capacity, job, slot, updates, refusals, errors>>

Rest == job' = "none" /\ slot' = Absent /\ waiting' = {} /\ pending' = {} /\ failed' = FALSE

\* set_free of what reached zero, drop_unreferenced of a newcomer nobody took.
ReturnOk ==
  /\ job # "none" /\ waiting = {} /\ ~failed
  /\ live' = live \ (pending \cup {s \in {slot} : job = "update" /\ refs[s] = 0})
  /\ Rest
  /\ UNCHANGED <<capacity, refs, entries, indexed, updates, refusals, errors>>

\* The error is returned at once or when the other chunks are through; what
\* was to be freed is forgotten.
ReturnErr ==
  /\ job # "none" /\ failed
  /\ errors' = errors + 1
  /\ Rest
  /\ UNCHANGED <<store, entries, indexed, updates, refusals>>

Next ==
  \/ \E s \in Slots : BeginUpdate(s) \/ BeginDelete(s)
  \/ \E t \in Trees :
       Reject(t) \/ Insert(t) \/ (\E e \in Slots : Replace(t, e))
       \/ NotHeld(t) \/ Withdraw(t)
  \/ ReturnOk \/ ReturnErr

Spec == Init /\ [][Next]_vars

------------------------------------------------------------------------------
Ghosts(t) == Held(t) - Cardinality(indexed[t])

\* Live slots no tree references, when no call runs: lost to the store.
Lost == {s \in live : refs[s] = 0}

\* What failing workers leave behind stays harmless to everyone else's points:
\* counts are still the number of trees that index a slot, indexed slots are
\* live and still sampled, so an eviction or retraction reaches them, and what
\* is freed is free for good.  Each error costs at most one ghost per tree and,
\* in slots, what its fan-out had released; calls that return Ok add nothing.
DamageIsContained ==
  /\ \A s \in Slots : refs[s] = Cardinality({t \in Trees : s \in indexed[t]})
  /\ \A t \in Trees :
       indexed[t] \subseteq {s \in live : entries[t][s] > 0} /\ Held(t) <= SampleSize
  /\ \A s \in pending : s \in live /\ refs[s] = 0
  /\ job = "none" =>
       /\ \A t \in Trees : Ghosts(t) <= errors
       /\ Cardinality(Lost) <= (NumTrees + 1) * errors
------------------------------------------------------------------------------
(* What makes it so: the inductive invariant.                               *)

TypeOK ==
  /\ capacity \in 0..MaxSlots /\ live \subseteq 0..capacity-1
  /\ refs \in [Slots -> Nat]
  /\ entries \in [Trees -> [Slots -> Nat]]
  /\ indexed \in [Trees -> SUBSET Slots]
  /\ job \in {"none", "update", "delete"} /\ slot \in Slots \cup {Absent}
  /\ waiting \subseteq Trees /\ pending \subseteq Slots /\ failed \in BOOLEAN
  /\ errors \in Nat

Newcomer == {s \in {slot} : job = "update"}

\* The newcomer is live, in no tree that has yet to be visited, and not about
\* to be freed; a tree hands over one slot at most, and a retraction only one.
FanOutInv ==
  /\ job # "none" => slot \in Slots
  /\ job = "none" => pending = {} /\ waiting = {} /\ ~failed
  /\ job = "update" =>
       /\ slot \in live \ pending
       /\ \A t \in waiting : slot \notin indexed[t]
  /\ job = "delete" => pending \subseteq {slot}
  /\ Cardinality(pending) + Cardinality(waiting) <= NumTrees

\* An error costs a tree its ghost at the visit that fails.
GhostInv ==
  \A t \in Trees :
    Ghosts(t) <= errors + (IF failed /\ t \notin waiting THEN 1 ELSE 0)

LossInv == Cardinality(Lost \ (pending \cup Newcomer)) <= (NumTrees + 1) * errors

FailureInv == TypeOK /\ FanOutInv /\ GhostInv /\ LossInv /\ DamageIsContained
=============================================================================
