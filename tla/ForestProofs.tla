---------------------------- MODULE ForestProofs ----------------------------
(***************************************************************************)
(* Proofs about RandomCutForest for every number of trees and slots, every *)
(* sample size and every stream: first its storage invariant, then, on top *)
(* of it, what each call of several deletions or insertions has done and   *)
(* has left to do; then that it implements ReservoirEnsemble, when callers *)
(* stamp live indices only; and last a caller that keeps the indices it is *)
(* given, whatever it stamps.                                              *)
(***************************************************************************)
EXTENDS ForestRefinement, ForestHandles, FunctionTheorems, FiniteSetTheorems, SequenceTheorems, TLAPS

\* Removing the top of a stack keeps the others where they are.
LEMMA PopProperties ==
  ASSUME NEW S, NEW q \in Seq(S), NEW n \in Nat, n + 1 = Len(q)
  PROVE  /\ SubSeq(q, 1, n) \in Seq(S)
         /\ Len(SubSeq(q, 1, n)) = n
         /\ \A i \in 1..n : SubSeq(q, 1, n)[i] = q[i]
BY ElementOfSeq

\* No slot is None.
LEMMA SlotNotNone == \A s \in Slots : s # None
BY NoneAssumption, SizeAssumption DEF Slots

\* What a step does to the store and the trees, the calls' bookkeeping aside.
LEMMA StepCases ==
  ASSUME [Next]_vars
  PROVE  \/ \E t \in Trees : Reject(t) \/ Admit(t) \/ Withdraw(t) \/ NotHeld(t)
         \/ \E t \in Trees : LoadRef(t) \/ CasRef(t) \/ CasFails(t) \/ Link(t)
         \/ \E t \in Trees, e \in Slots : Replace(t, e)
         \/ job = "none" /\ BeginInsert
         \/ job = "none" /\ \E s \in Slots : BeginDelete(s)
         \/ \E t \in Trees : FreeEvicted(t)
         \/ EndInsert
         \/ EndDelete
         \/ /\ UNCHANGED <<storeVars, treeVars, workerVars, updates_seen, job, slot>>
            /\ \/ UNCHANGED timestamps
               \/ AtRest /\ \E s \in Slots, ts \in Times :
                    /\ StampAnySlot \/ IsLive(s)
                    /\ timestamps' = [timestamps EXCEPT ![s] = ts]
<1>1. CASE \E t \in Trees : Worker(t)
  BY <1>1 DEF Worker
<1>2. CASE Callers
  BY <1>2 DEF Callers, Update, UpdateAt, Delete, DeleteBefore, DeleteByValue,
              ScoreCodisp, SetPointTimestamp, AtRest
<1>3. CASE Body
  BY <1>3 DEF Body, InsertProbe, WalkProbes, DeleteNext, Return
<1>4. CASE UNCHANGED vars
  BY <1>4 DEF vars
<1> QED
  BY <1>1, <1>2, <1>3, <1>4 DEF Next

------------------------------------------------------------------------------
(* Type correctness.                                                        *)

\* The slot an insertion takes is a slot, and the list it comes from stays one.
LEMMA NextSlotType ==
  ASSUME TypeOK, NextSlot < MaxSlots
  PROVE  /\ NextSlot \in Slots
         /\ free # <<>> => SubSeq(free, 1, Len(free) - 1) \in Seq(Slots)
<1>1. CASE free = <<>>
  BY <1>1, SizeAssumption DEF TypeOK, NextSlot, Slots
<1>2. CASE free # <<>>
  <2>1. Len(free) - 1 \in Nat /\ (Len(free) - 1) + 1 = Len(free)
    BY <1>2, EmptySeq, LenProperties DEF TypeOK
  <2>2. free[Len(free)] \in Slots
    BY <2>1, ElementOfSeq DEF TypeOK
  <2> QED
    BY <1>2, <2>1, <2>2, PopProperties DEF TypeOK, NextSlot
<1> QED
  BY <1>1, <1>2

\* Releasing a slot preserves the types of what it touches.
LEMMA ReleaseType ==
  ASSUME TypeOK, NEW s \in Slots, Release(s)
  PROVE  /\ points' \in [Slots -> Obs \cup {None}]
         /\ free' \in Seq(Slots)
         /\ timestamps' \in [Slots -> Times \cup {None}]
BY AppendProperties DEF TypeOK, Release

\* The record of the running call keeps its type.
LEMMA CallStep ==
  ASSUME TypeOK, RefInv, [Next]_vars
  PROVE  call' \in CallType
<1> USE SizeAssumption
<1>0. Idle \in CallType
  BY EmptySeq DEF Idle, CallType, Ops
<1>1. ASSUME NEW op \in Ops, NEW time \in Times \cup {None}, NEW left \in Nat,
             NEW todo \in SUBSET Slots
      PROVE  [Idle EXCEPT !.op = op, !.time = time, !.left = left, !.todo = todo]
               \in CallType
  BY <1>0 DEF CallType
<1>2. call \in CallType
  BY DEF TypeOK
<1>3. CASE \E t \in Trees : Worker(t)
  BY <1>2, <1>3 DEF Worker, Reject, Admit, Replace, Withdraw, NotHeld, LoadRef,
                    CasRef, CasFails, Link
<1>4. CASE Callers
  <2>1. CASE Update \/ \E ts \in Times : UpdateAt(ts)
    BY <1>0, <2>1 DEF Update, UpdateAt, CallType, Ops
  <2>2. CASE \E s \in Slots : Delete(s)
    BY <1>0, <2>2 DEF Delete, CallType, Ops
  <2>3. CASE \E cutoff \in Times : DeleteBefore(cutoff)
    BY ZenonT(40), <1>0, <2>3 DEF DeleteBefore, CallType, Ops
  <2>4. CASE \E o \in Obs : DeleteByValue(ValueOf[o])
    <3>1. PICK o \in Obs : DeleteByValue(ValueOf[o])
      BY <2>4
    <3> DEFINE S == {s \in Slots : Sampled(s) /\ IsLive(s)
                                  /\ ValueOf[points[s]] = ValueOf[o]}
    <3>2. call' = [Idle EXCEPT !.op = "delete_by_value", !.todo = S]
      BY <3>1 DEF DeleteByValue
    <3>3. S \in SUBSET Slots
      OBVIOUS
    <3> HIDE DEF S
    <3> QED
      BY <1>0, <3>2, <3>3 DEF CallType, Ops
  <2>5. CASE \E n \in 1..MaxBatch : ScoreCodisp(n)
    <3>1. PICK n \in 1..MaxBatch : ScoreCodisp(n)
      BY <2>5
    <3>2. n \in Nat
      BY <3>1
    <3>3. call' = [Idle EXCEPT !.op = "codisp", !.left = n]
      BY <3>1 DEF ScoreCodisp
    <3> QED
      BY <1>0, <3>2, <3>3 DEF CallType, Ops
  <2>6. CASE \E s \in Slots, ts \in Times : SetPointTimestamp(s, ts)
    BY <1>2, <2>6 DEF SetPointTimestamp
  <2> QED
    BY <1>4, <2>1, <2>2, <2>3, <2>4, <2>5, <2>6 DEF Callers
<1>5. CASE Body
  <2>1. CASE \E t \in Trees : FreeEvicted(t)
    BY <1>2, <2>1 DEF FreeEvicted
  <2>2. CASE EndInsert
    <3>1. slot \in Slots /\ updates_seen \in Nat
      BY <2>2 DEF EndInsert, TypeOK
    <3>2. CASE call.op # "codisp"
      BY <1>0, <2>2, <3>2 DEF EndInsert
    <3>3. CASE call.op = "codisp"
      <4>1. updates_seen + 1 \in Obs
        BY <2>2, <3>1, NoneAssumption DEF EndInsert, RefInv, TypeOK
      <4>2. Append(call.probes, <<slot, updates_seen + 1>>) \in Seq(Slots \X Obs)
        BY <1>2, <3>1, <4>1, AppendProperties DEF CallType
      <4> QED
        BY <1>2, <2>2, <3>3, <4>2 DEF EndInsert, CallType
    <3> QED
      BY <3>2, <3>3
  <2>3. CASE EndDelete
    BY <1>0, <1>2, <2>3 DEF EndDelete
  <2>4. CASE InsertProbe
    <3>1. call' = [call EXCEPT !.left = @ - 1] /\ call.left > 0
      BY <2>4 DEF InsertProbe
    <3> QED
      BY <1>2, <3>1 DEF CallType
  <2>5. CASE WalkProbes
    <3>1. {call.probes[i][1] : i \in 1..Len(call.probes)} \subseteq Slots
      BY <1>2, ElementOfSeq DEF CallType
    <3> QED
      BY <1>2, <2>5, <3>1 DEF WalkProbes, CallType, Ops
  <2>6. CASE \E s \in Slots : DeleteNext(s)
    BY <1>2, <2>6 DEF DeleteNext, CallType
  <2>7. CASE Return
    BY <1>0, <2>7 DEF Return
  <2> QED
    BY <1>5, <2>1, <2>2, <2>3, <2>4, <2>5, <2>6, <2>7 DEF Body
<1>6. CASE UNCHANGED vars
  BY <1>2, <1>6 DEF vars
<1> QED
  BY <1>3, <1>4, <1>5, <1>6 DEF Next

\* Every step preserves the types.
LEMMA TypeStep ==
  ASSUME IInv, [Next]_vars
  PROVE  TypeOK'
<1> USE SizeAssumption
<1>0. TypeOK /\ WorkerInv /\ call' \in CallType
  BY CallStep DEF IInv
<1>1. ASSUME NEW t \in Trees, Reject(t) \/ Admit(t) \/ Withdraw(t) \/ NotHeld(t)
      PROVE  TypeOK'
  <2>1. slot \in Slots
    BY <1>0, <1>1 DEF TypeOK, Reject, Admit, Withdraw, NotHeld
  <2>2. CASE Reject(t) \/ NotHeld(t)
    BY <1>0, <2>2 DEF TypeOK, Reject, NotHeld, storeVars, treeVars
  <2>3. CASE Admit(t)
    BY <1>0, <2>1, <2>3 DEF TypeOK, Admit, storeVars
  <2>4. CASE Withdraw(t)
    BY <1>0, <2>1, <2>4 DEF TypeOK, Withdraw, storeVars
  <2> QED
    BY <1>1, <2>2, <2>3, <2>4
<1>2. ASSUME NEW t \in Trees, NEW e \in Slots, Replace(t, e)
      PROVE  TypeOK'
  BY <1>0, <1>2 DEF TypeOK, Replace, storeVars
<1>3. ASSUME NEW t \in Trees, LoadRef(t)
      PROVE  TypeOK'
  BY <1>0, <1>3 DEF TypeOK, WorkerInv, LoadRef, storeVars, treeVars
<1>4. ASSUME NEW t \in Trees, CasRef(t)
      PROVE  TypeOK'
  <2>1. victim[t] \in Slots /\ loaded[t] - 1 \in Nat
    BY <1>0, <1>4 DEF WorkerInv, CasRef
  <2> QED
    BY <1>0, <1>4, <2>1 DEF TypeOK, CasRef, treeVars
<1>5. ASSUME NEW t \in Trees, CasFails(t)
      PROVE  TypeOK'
  BY <1>0, <1>5 DEF TypeOK, CasFails, storeVars, treeVars
<1>6. ASSUME NEW t \in Trees, Link(t)
      PROVE  TypeOK'
  <2>1. slot \in Slots
    BY <1>0, <1>6 DEF WorkerInv, Link, TypeOK
  <2> QED
    BY <1>0, <1>6, <2>1 DEF TypeOK, Link
<1>7. CASE job = "none" /\ BeginInsert
  <2>1. /\ NextSlot \in Slots
        /\ free' \in Seq(Slots)
        /\ updates_seen + 1 \in Obs
    <3>1. NextSlot < MaxSlots /\ free \in Seq(Slots)
      BY <1>0, <1>7 DEF BeginInsert, TypeOK
    <3>2. updates_seen + 1 \in Obs
      BY <1>0, <1>7 DEF BeginInsert, TypeOK, Obs
    <3>3. \/ free' = free
          \/ free # <<>> /\ free' = SubSeq(free, 1, Len(free) - 1)
      BY <1>7, Zenon DEF BeginInsert
    <3> QED
      BY <1>0, <3>1, <3>2, <3>3, NextSlotType
  <2>2. capacity' \in 0..MaxSlots
    BY <1>0, <1>7 DEF BeginInsert, TypeOK, NextSlot
  <2>3. /\ points' = [points EXCEPT ![NextSlot] = updates_seen + 1]
        /\ refs' = [refs EXCEPT ![NextSlot] = 0]
        /\ job' = "insert" /\ slot' = NextSlot
        /\ stage' = [t \in Trees |-> "start"]
        /\ UNCHANGED <<sample, indexed, victim, loaded, pending_free, timestamps,
                       updates_seen>>
    BY <1>7 DEF BeginInsert, FanOut, treeVars
  <2> QED
    BY <1>0, <2>1, <2>2, <2>3 DEF TypeOK
<1>8. CASE job = "none" /\ \E s \in Slots : BeginDelete(s)
  BY <1>0, <1>8 DEF TypeOK, BeginDelete, FanOut, storeVars, treeVars
<1>9. ASSUME NEW t \in Trees, FreeEvicted(t)
      PROVE  TypeOK'
  <2>1. pending_free[t] \in Slots
    BY <1>0, <1>9 DEF TypeOK, FreeEvicted
  <2> QED
    BY <1>0, <1>9, <2>1, ReleaseType DEF TypeOK, FreeEvicted, treeVars
<1>10. CASE EndInsert
  <2>1. slot \in Slots /\ updates_seen + 1 \in 0..MaxObs
    BY SMTT(30), <1>0, <1>10, NoneAssumption DEF IInv, RefInv, TypeOK, EndInsert, Obs
  <2>2. /\ points' \in [Slots -> Obs \cup {None}]
        /\ free' \in Seq(Slots)
        /\ timestamps' \in [Slots -> Times \cup {None}]
    BY <1>0, <1>10, <2>1, ReleaseType DEF TypeOK, EndInsert, CallType
  <2> QED
    BY <1>0, <1>10, <2>1, <2>2 DEF TypeOK, EndInsert, treeVars, workerVars
<1>11. CASE EndDelete
  <2>1. slot \in Slots
    BY <1>0, <1>11 DEF TypeOK, EndDelete
  <2>2. /\ points' \in [Slots -> Obs \cup {None}]
        /\ free' \in Seq(Slots)
        /\ timestamps' \in [Slots -> Times \cup {None}]
    BY <1>0, <1>11, <2>1, ReleaseType DEF TypeOK, EndDelete
  <2> QED
    BY <1>0, <1>11, <2>1, <2>2 DEF TypeOK, EndDelete, treeVars
<1>12. CASE /\ UNCHANGED <<storeVars, treeVars, workerVars, updates_seen, job, slot>>
            /\ \/ UNCHANGED timestamps
               \/ \E s \in Slots, ts \in Times :
                    /\ StampAnySlot \/ IsLive(s)
                    /\ timestamps' = [timestamps EXCEPT ![s] = ts]
  <2>1. timestamps' \in [Slots -> Times \cup {None}]
    BY <1>0, <1>12 DEF TypeOK
  <2> QED
    BY <1>0, <1>12, <2>1 DEF TypeOK, storeVars, treeVars, workerVars
<1> QED
  BY <1>1, <1>2, <1>3, <1>4, <1>5, <1>6, <1>7, <1>8, <1>9, <1>10, <1>11, <1>12,
     StepCases

------------------------------------------------------------------------------
(* The reservoirs and the workers.                                          *)

\* A reservoir is a finite set, so its cardinality is a number.
LEMMA SampleFinite ==
  ASSUME TypeOK, NEW t \in Trees
  PROVE  IsFiniteSet(sample[t]) /\ Cardinality(sample[t]) \in Nat
<1>1. IsFiniteSet(Slots)
  BY FS_Interval, SizeAssumption DEF Slots
<1>2. sample[t] \in SUBSET Slots
  BY DEF TypeOK
<1> QED
  BY <1>1, <1>2, FS_Subset, FS_CardinalityType

\* The slot an insertion takes is empty, and it was the top of the free list
\* or the first slot never used.
LEMMA EmptyNextSlot ==
  ASSUME TypeOK, FreeInv, NextSlot < MaxSlots
  PROVE  NextSlot \in Slots /\ ~IsLive(NextSlot)
<1>1. NextSlot \in Slots
  BY NextSlotType
<1>2. CASE free = <<>>
  BY <1>1, <1>2 DEF TypeOK, FreeInv, NextSlot
<1>3. CASE free # <<>>
  <2>1. Len(free) - 1 \in Nat
    BY <1>3, EmptySeq, LenProperties DEF TypeOK
  <2>2. Len(free) \in 1..Len(free)
    BY <2>1, LenProperties DEF TypeOK
  <2> QED
    BY <1>1, <1>3, <2>2 DEF FreeInv, NextSlot
<1> QED
  BY <1>1, <1>2, <1>3

\* Every step preserves WorkerInv.
LEMMA WorkerStep ==
  ASSUME IInv, TypeOK', [Next]_vars
  PROVE  WorkerInv'
<1> USE SizeAssumption
<1>0. TypeOK /\ WorkerInv /\ RefInv
  BY DEF IInv
<1>1. ASSUME NEW t \in Trees, Reject(t) \/ NotHeld(t)
      PROVE  WorkerInv'
  BY <1>0, <1>1 DEF TypeOK, WorkerInv, Unlinked, Reject, NotHeld, storeVars, treeVars
<1>2. ASSUME NEW t \in Trees, Admit(t)
      PROVE  WorkerInv'
  <2>1. slot \in Slots /\ slot \notin sample[t] /\ sample[t] = indexed[t]
    BY <1>0, <1>2, ZenonT(40) DEF TypeOK, WorkerInv, Unlinked, Admit
  <2>2. Cardinality(sample[t] \cup {slot}) <= SampleSize
    <3>1. Cardinality(sample[t] \cup {slot}) = Cardinality(sample[t]) + 1
      BY <1>0, <2>1, FS_AddElement, SampleFinite
    <3>2. Cardinality(sample[t]) < SampleSize /\ Cardinality(sample[t]) \in Nat
      BY <1>0, <1>2, SampleFinite DEF Admit
    <3> QED
      BY <3>1, <3>2
  <2> QED
    BY <1>0, <1>2, <2>1, <2>2 DEF TypeOK, WorkerInv, Unlinked, Admit, storeVars
<1>3. ASSUME NEW t \in Trees, NEW e \in Slots, Replace(t, e)
      PROVE  WorkerInv'
  <2>1. /\ slot \in Slots /\ slot \notin sample[t] /\ sample[t] = indexed[t]
        /\ e \in sample[t] /\ e # slot
    <3>1. slot \in Slots /\ e \in sample[t]
      BY <1>0, <1>3 DEF TypeOK, Replace
    <3>2. sample[t] = indexed[t] /\ slot \notin indexed[t]
      BY <1>0, <1>3 DEF WorkerInv, Unlinked, Replace
    <3> QED
      BY <3>1, <3>2
  <2>2. Cardinality((sample[t] \ {e}) \cup {slot}) <= SampleSize
    <3>1. /\ IsFiniteSet(sample[t] \ {e})
          /\ Cardinality(sample[t] \ {e}) = Cardinality(sample[t]) - 1
      BY <1>0, <2>1, FS_RemoveElement, SampleFinite
    <3>2. Cardinality((sample[t] \ {e}) \cup {slot}) = Cardinality(sample[t] \ {e}) + 1
      BY <2>1, <3>1, FS_AddElement
    <3>3. Cardinality(sample[t]) <= SampleSize /\ Cardinality(sample[t]) \in Nat
      BY <1>0, SampleFinite DEF WorkerInv
    <3> QED
      BY <3>1, <3>2, <3>3
  <2> QED
    BY <1>0, <1>3, <2>1, <2>2 DEF TypeOK, WorkerInv, Unlinked, Replace, storeVars
<1>4. ASSUME NEW t \in Trees, Withdraw(t)
      PROVE  WorkerInv'
  <2>1. /\ slot \in Slots /\ slot \in sample[t] /\ sample[t] = indexed[t]
    BY <1>0, <1>4 DEF TypeOK, WorkerInv, Unlinked, Withdraw
  <2>2. Cardinality(sample[t] \ {slot}) <= SampleSize
    <3>1. Cardinality(sample[t] \ {slot}) = Cardinality(sample[t]) - 1
      BY <1>0, <2>1, FS_RemoveElement, SampleFinite
    <3>2. Cardinality(sample[t]) <= SampleSize /\ Cardinality(sample[t]) \in Nat
      BY <1>0, SampleFinite DEF WorkerInv
    <3> QED
      BY <3>1, <3>2
  <2> QED
    BY <1>0, <1>4, <2>1, <2>2 DEF TypeOK, WorkerInv, Unlinked, Withdraw, storeVars
<1>5. ASSUME NEW t \in Trees, LoadRef(t) \/ CasFails(t)
      PROVE  WorkerInv'
  <2>1. LoadRef(t) => victim[t] \in Slots /\ refs[victim[t]] \in Nat \ {0}
    BY <1>0 DEF TypeOK, WorkerInv, LoadRef
  <2> QED
    BY <1>0, <1>5, <2>1
    DEF TypeOK, WorkerInv, Unlinked, LoadRef, CasFails, storeVars, treeVars
<1>6. ASSUME NEW t \in Trees, CasRef(t)
      PROVE  WorkerInv'
  BY <1>0, <1>6 DEF TypeOK, WorkerInv, Unlinked, CasRef, treeVars
<1>7. ASSUME NEW t \in Trees, Link(t)
      PROVE  WorkerInv'
  BY <1>0, <1>7 DEF TypeOK, WorkerInv, Unlinked, Link
<1>8. CASE job = "none" /\ BeginInsert
  <2>1. /\ job' = "insert" /\ slot' = NextSlot
        /\ stage' = [t \in Trees |-> "start"]
        /\ UNCHANGED <<sample, indexed, victim, loaded>>
    BY <1>8 DEF BeginInsert, FanOut, treeVars
  <2>2. \A t \in Trees : NextSlot \notin indexed[t]
    BY <1>0, <1>8, EmptyNextSlot DEF RefInv, Counted, IInv, BeginInsert
  <2> QED
    BY <1>0, <1>8, <2>1, <2>2 DEF TypeOK, WorkerInv, Unlinked
<1>9. CASE job = "none" /\ \E s \in Slots : BeginDelete(s)
  BY <1>0, <1>9 DEF TypeOK, WorkerInv, Unlinked, BeginDelete, FanOut, storeVars, treeVars
<1>10. ASSUME NEW t \in Trees, FreeEvicted(t)
      PROVE  WorkerInv'
  BY <1>0, <1>10 DEF TypeOK, WorkerInv, Unlinked, FreeEvicted, treeVars
<1>11. CASE EndInsert \/ EndDelete
  BY <1>0, <1>11 DEF TypeOK, WorkerInv, Unlinked, EndInsert, EndDelete, AllDone,
                     treeVars, workerVars
<1>12. CASE UNCHANGED <<storeVars, treeVars, workerVars, updates_seen, job, slot>>
  BY <1>0, <1>12 DEF WorkerInv, Unlinked, storeVars, treeVars, workerVars
<1> QED
  BY <1>1, <1>2, <1>3, <1>4, <1>5, <1>6, <1>7, <1>8, <1>9, <1>10, <1>11, <1>12,
     StepCases

------------------------------------------------------------------------------
(* The reference counts.                                                    *)

\* So are the holders of a slot.
LEMMA HoldersFinite ==
  ASSUME NEW s
  PROVE  IsFiniteSet(Holders(s)) /\ Cardinality(Holders(s)) \in Nat
<1>1. IsFiniteSet(Trees)
  BY FS_Interval, SizeAssumption DEF Trees
<1>2. Holders(s) \in SUBSET Trees
  BY DEF Holders
<1> QED
  BY <1>1, <1>2, FS_Subset, FS_CardinalityType

\* A counter above zero has a holder, and a slot with a holder is counted.
LEMMA HolderCounts ==
  ASSUME RefInv, NEW s \in Slots
  PROVE  refs[s] = 0 <=> \A t \in Trees : s \notin Counted(t)
<1>1. refs[s] = Cardinality(Holders(s))
  BY DEF RefInv
<1>2. Cardinality(Holders(s)) = 0 <=> Holders(s) = {}
  BY FS_EmptySet, HoldersFinite
<1> QED
  BY <1>1, <1>2 DEF Holders

\* Steps that leave every tree's references alone preserve the counts.
LEMMA SameCounted ==
  ASSUME RefInv, TypeOK, refs' = refs,
         \A t \in Trees : Counted(t)' = Counted(t)
  PROVE  \A s \in Slots : refs'[s] = Cardinality(Holders(s)')
<1>1. \A s : Holders(s)' = Holders(s)
  BY DEF Holders
<1> QED
  BY <1>1 DEF RefInv

\* Every step preserves RefInv.
LEMMA RefStep ==
  ASSUME IInv, TypeOK', WorkerInv', [Next]_vars
  PROVE  RefInv'
<1> USE SizeAssumption, NoneAssumption
<1>0. TypeOK /\ WorkerInv /\ RefInv /\ PendingInv /\ FreeInv
  BY DEF IInv
<1>1. ASSUME NEW t \in Trees, Reject(t) \/ NotHeld(t) \/ Admit(t)
      PROVE  RefInv'
  <2>1. \A u \in Trees : Counted(u)' = Counted(u)
    BY <1>0, <1>1 DEF TypeOK, Counted, Reject, NotHeld, Admit, treeVars, storeVars
  <2>2. UNCHANGED <<points, refs, job, slot, updates_seen>>
    BY <1>1 DEF Reject, NotHeld, Admit, storeVars
  <2> QED
    BY <1>0, <2>1, <2>2, SameCounted DEF RefInv, IsLive
<1>2. ASSUME NEW t \in Trees, NEW e \in Slots, Replace(t, e)
      PROVE  RefInv'
  <2>1. e \in indexed[t]
    BY <1>0, <1>2 DEF WorkerInv, Unlinked, Replace
  <2>2. \A u \in Trees : Counted(u)' = Counted(u)
    BY <1>0, <1>2, <2>1 DEF TypeOK, Counted, Replace
  <2>3. UNCHANGED <<points, refs, job, slot, updates_seen>>
    BY <1>2 DEF Replace, storeVars
  <2> QED
    BY <1>0, <2>2, <2>3, SameCounted DEF RefInv, IsLive
<1>3. ASSUME NEW t \in Trees, Withdraw(t)
      PROVE  RefInv'
  <2>1. slot \in indexed[t]
    BY <1>0, <1>3 DEF WorkerInv, Unlinked, Withdraw
  <2>2. \A u \in Trees : Counted(u)' = Counted(u)
    BY <1>0, <1>3, <2>1 DEF TypeOK, Counted, Withdraw
  <2>3. UNCHANGED <<points, refs, job, slot, updates_seen>>
    BY <1>3 DEF Withdraw, storeVars
  <2> QED
    BY <1>0, <2>2, <2>3, SameCounted DEF RefInv, IsLive
<1>4. ASSUME NEW t \in Trees, LoadRef(t) \/ CasFails(t)
      PROVE  RefInv'
  <2>1. \A u \in Trees : Counted(u)' = Counted(u)
    BY <1>0, <1>4 DEF TypeOK, Counted, LoadRef, CasFails, treeVars
  <2>2. UNCHANGED <<points, refs, job, slot, updates_seen>>
    BY <1>4 DEF LoadRef, CasFails, storeVars
  <2> QED
    BY <1>0, <2>1, <2>2, SameCounted DEF RefInv, IsLive
<1>5. ASSUME NEW t \in Trees, CasRef(t)
      PROVE  RefInv'
  <2>1. PICK v \in Slots : v = victim[t] /\ v \notin indexed[t] /\ v \in Counted(t)
    BY <1>0, <1>5 DEF WorkerInv, CasRef, Counted
  <2>2. /\ Counted(t)' = Counted(t) \ {v}
        /\ \A u \in Trees \ {t} : Counted(u)' = Counted(u)
    BY SMTT(30), <1>0, <1>5, <2>1 DEF TypeOK, Counted, CasRef, treeVars
  <2>3. /\ Holders(v)' = Holders(v) \ {t}
        /\ \A s \in Slots \ {v} : Holders(s)' = Holders(s)
    BY <2>2 DEF Holders
  <2>4. Cardinality(Holders(v)') = Cardinality(Holders(v)) - 1
    <3>1. t \in Holders(v)
      BY <2>1 DEF Holders
    <3> QED
      BY ZenonT(40), <2>3, <3>1, HoldersFinite, FS_RemoveElement
  <2>5. refs' = [refs EXCEPT ![v] = refs[v] - 1]
    BY <1>5, <2>1 DEF CasRef
  <2>6. \A s \in Slots : refs'[s] = Cardinality(Holders(s)')
    BY <1>0, <2>1, <2>3, <2>4, <2>5 DEF RefInv, TypeOK
  <2>7. UNCHANGED <<points, job, slot, updates_seen>>
    BY <1>5 DEF CasRef
  <2> QED
    BY <1>0, <2>2, <2>6, <2>7 DEF RefInv, IsLive
<1>6. ASSUME NEW t \in Trees, Link(t)
      PROVE  RefInv'
  <2>1. PICK n \in Slots : n = slot /\ job = "insert" /\ n \notin Counted(t)
    BY <1>0, <1>6 DEF TypeOK, WorkerInv, Link, Counted
  <2>2. /\ Counted(t)' = Counted(t) \cup {n}
        /\ \A u \in Trees \ {t} : Counted(u)' = Counted(u)
    BY <1>0, <1>6, <2>1 DEF TypeOK, Counted, Link
  <2>3. /\ Holders(n)' = Holders(n) \cup {t}
        /\ \A s \in Slots \ {n} : Holders(s)' = Holders(s)
    BY <2>2 DEF Holders
  <2>4. Cardinality(Holders(n)') = Cardinality(Holders(n)) + 1
    <3>1. t \notin Holders(n)
      BY <2>1 DEF Holders
    <3> QED
      BY <2>3, <3>1, HoldersFinite, FS_AddElement
  <2>5. refs' = [refs EXCEPT ![n] = refs[n] + 1]
    BY <1>6, <2>1 DEF Link
  <2>6. \A s \in Slots : refs'[s] = Cardinality(Holders(s)')
    BY <1>0, <2>1, <2>3, <2>4, <2>5 DEF RefInv, TypeOK
  <2>7. UNCHANGED <<points, job, slot, updates_seen>> /\ IsLive(n)
    BY <1>6, <2>1 DEF Link
  <2> QED
    BY <1>0, <2>2, <2>6, <2>7 DEF RefInv, IsLive
<1>7. CASE job = "none" /\ BeginInsert
  <2> DEFINE n == NextSlot
  <2>1. /\ points' = [points EXCEPT ![n] = updates_seen + 1]
        /\ refs' = [refs EXCEPT ![n] = 0]
        /\ job' = "insert" /\ slot' = n
        /\ stage' = [t \in Trees |-> "start"]
        /\ UNCHANGED <<sample, indexed, victim, updates_seen>>
    BY <1>7 DEF BeginInsert, FanOut, treeVars
  <2>2. n \in Slots /\ ~IsLive(n)
    BY <1>0, <1>7, EmptyNextSlot DEF BeginInsert
  <2> HIDE DEF n
  <2>3. \A t \in Trees : Counted(t)' = Counted(t)
    BY <1>0, <1>7, <2>1 DEF TypeOK, WorkerInv, Counted
  <2>4. refs[n] = 0
    BY <1>0, <2>2, HolderCounts DEF RefInv
  <2>5. refs' = refs
    BY <1>0, <2>1, <2>2, <2>4 DEF TypeOK
  <2>6. updates_seen + 1 # None
    BY <1>0 DEF TypeOK
  <2>7. points'[n] = updates_seen + 1 /\ \A s \in Slots : points[s] # None => points'[s] # None
    BY <1>0, <2>1, <2>2, <2>6 DEF TypeOK
  <2>8. \A t \in Trees : Counted(t) \subseteq Slots
    BY <1>0 DEF TypeOK, WorkerInv, Counted
  <2> QED
    BY <1>0, <2>1, <2>3, <2>5, <2>7, <2>8, SameCounted DEF RefInv, IsLive
<1>8. CASE job = "none" /\ \E s \in Slots : BeginDelete(s)
  <2>1. \A t \in Trees : Counted(t)' = Counted(t)
    BY <1>0, <1>8 DEF TypeOK, WorkerInv, Counted, BeginDelete, FanOut, treeVars
  <2>2. UNCHANGED <<points, refs>> /\ job' = "delete"
    BY <1>8 DEF BeginDelete, FanOut, storeVars
  <2> QED
    BY <1>0, <2>1, <2>2, SameCounted DEF RefInv, IsLive
<1>9. ASSUME NEW t \in Trees, FreeEvicted(t)
      PROVE  RefInv'
  <2> DEFINE e == pending_free[t]
  <2>1. e \in Slots /\ refs[e] = 0 /\ e # slot /\ job = "insert"
    BY <1>0, <1>9 DEF TypeOK, PendingInv, FreeEvicted
  <2>2. points' = [points EXCEPT ![e] = None]
    BY <1>9 DEF FreeEvicted, Release
  <2>3. UNCHANGED <<refs, job, slot, updates_seen, indexed, stage, victim>>
    BY <1>9 DEF FreeEvicted, treeVars
  <2> HIDE DEF e
  <2>4. \A u \in Trees : Counted(u)' = Counted(u)
    BY <2>3 DEF Counted
  <2>5. \A u \in Trees : e \notin Counted(u)
    BY <1>0, <2>1, HolderCounts
  <2>6. \A u \in Trees : Counted(u) \subseteq Slots
    BY <1>0 DEF TypeOK, WorkerInv, Counted
  <2>7. \A s \in Slots \ {e} : points'[s] = points[s]
    BY <1>0, <2>2 DEF TypeOK
  <2>8. slot \in Slots
    BY <1>0, <2>1 DEF TypeOK
  <2> QED
    BY <1>0, <2>1, <2>3, <2>4, <2>5, <2>6, <2>7, <2>8, SameCounted DEF RefInv, IsLive
<1>10. CASE EndInsert \/ EndDelete
  <2>1. slot \in Slots
    BY <1>0, <1>10 DEF TypeOK, EndInsert, EndDelete
  <2>2. /\ job' = "none"
        /\ UNCHANGED <<refs, indexed, stage, victim>>
    BY <1>10 DEF EndInsert, EndDelete, treeVars, workerVars
  <2>3. \/ points' = points
        \/ refs[slot] = 0 /\ points' = [points EXCEPT ![slot] = None]
    BY <1>10 DEF EndInsert, EndDelete, Release
  <2>4. \A u \in Trees : Counted(u)' = Counted(u)
    BY <2>2 DEF Counted
  <2>5. refs[slot] = 0 => \A u \in Trees : slot \notin Counted(u)
    BY <1>0, <2>1, HolderCounts
  <2>6. \A u \in Trees : Counted(u) \subseteq Slots
    BY <1>0 DEF TypeOK, WorkerInv, Counted
  <2>7. \A s \in Slots : points'[s] = points[s] \/ (refs[slot] = 0 /\ s = slot)
    BY <1>0, <2>3 DEF TypeOK
  <2> QED
    BY <1>0, <2>2, <2>4, <2>5, <2>6, <2>7, SameCounted DEF RefInv, IsLive
<1>11. CASE UNCHANGED <<storeVars, treeVars, workerVars, updates_seen, job, slot>>
  <2>1. \A u \in Trees : Counted(u)' = Counted(u)
    BY <1>11 DEF Counted, treeVars, workerVars
  <2> QED
    BY <1>0, <1>11, <2>1, SameCounted DEF RefInv, IsLive, storeVars
<1> QED
  BY <1>1, <1>2, <1>3, <1>4, <1>5, <1>6, <1>7, <1>8, <1>9, <1>10, <1>11, StepCases

------------------------------------------------------------------------------
(* Slots waiting to be freed, the free list and the owners of live slots.   *)

\* Every step preserves PendingInv.
LEMMA PendingStep ==
  ASSUME IInv, TypeOK', WorkerInv', [Next]_vars
  PROVE  PendingInv'
<1> USE SizeAssumption, NoneAssumption
<1>0. TypeOK /\ WorkerInv /\ RefInv /\ PendingInv /\ FreeInv
  BY DEF IInv
<1>1. ASSUME NEW t \in Trees, Reject(t) \/ NotHeld(t) \/ Admit(t)
      PROVE  PendingInv'
  BY <1>0, <1>1 DEF TypeOK, PendingInv, IsLive, Reject, NotHeld, Admit, storeVars
<1>2. ASSUME NEW t \in Trees, (\E e \in Slots : Replace(t, e)) \/ Withdraw(t)
      PROVE  PendingInv'
  BY <1>0, <1>2, ZenonT(40) DEF TypeOK, PendingInv, IsLive, Replace, Withdraw, storeVars
<1>3. ASSUME NEW t \in Trees, LoadRef(t) \/ CasFails(t)
      PROVE  PendingInv'
  BY <1>0, <1>3, ZenonT(40) DEF TypeOK, PendingInv, IsLive, LoadRef, CasFails, storeVars
<1>4. ASSUME NEW t \in Trees, CasRef(t)
      PROVE  PendingInv'
  <2>1. PICK v \in Slots : v = victim[t]
    BY <1>0, <1>4 DEF WorkerInv, CasRef
  <2>2. /\ IsLive(v) /\ refs[v] > 0 /\ refs[v] = loaded[t]
        /\ job = "insert" => v # slot
        /\ job = "delete" => v = slot
        /\ job # "none"
    <3>1. v \in Counted(t)
      BY <1>4, <2>1 DEF Counted, CasRef
    <3>2. refs[v] = loaded[t] /\ loaded[t] \in Nat \ {0}
      BY <1>0, <1>4, <2>1 DEF WorkerInv, CasRef
    <3> QED
      BY <1>0, <1>4, <2>1, <3>1, <3>2 DEF RefInv, WorkerInv, CasRef
  <2>3. /\ refs' = [refs EXCEPT ![v] = refs[v] - 1]
        /\ pending_free' = [pending_free EXCEPT ![t] = IF refs[v] = 1 THEN v ELSE None]
        /\ stage' = [stage EXCEPT ![t] = IF job = "insert" THEN "link" ELSE "done"]
        /\ UNCHANGED <<points, job, slot>>
    BY <1>4, <2>1, <2>2 DEF CasRef
  <2>4. ASSUME NEW u \in Trees \ {t}, pending_free[u] # None
        PROVE  pending_free[u] # v
    BY <1>0, <2>2, <2>4 DEF PendingInv
  <2>5. ASSUME NEW u \in Trees, pending_free[u] # None
        PROVE  pending_free[u] \in Slots
    BY <1>0, <2>5 DEF TypeOK
  <2> QED
    BY <1>0, <2>2, <2>3, <2>4, <2>5 DEF TypeOK, PendingInv, IsLive
<1>5. ASSUME NEW t \in Trees, Link(t)
      PROVE  PendingInv'
  <2>1. job = "insert" /\ slot \in Slots
    BY <1>0, <1>5 DEF TypeOK, WorkerInv, Link
  <2> QED
    BY <1>0, <1>5, <2>1 DEF TypeOK, PendingInv, IsLive, Link
<1>6. CASE job = "none" /\ (BeginInsert \/ \E s \in Slots : BeginDelete(s))
  BY <1>0, <1>6 DEF TypeOK, PendingInv, BeginInsert, BeginDelete
<1>7. ASSUME NEW t \in Trees, FreeEvicted(t)
      PROVE  PendingInv'
  <2>1. PICK e \in Slots : e = pending_free[t]
    BY <1>0, <1>7 DEF TypeOK, FreeEvicted
  <2>2. /\ points' = [points EXCEPT ![e] = None]
        /\ pending_free' = [pending_free EXCEPT ![t] = None]
        /\ UNCHANGED <<refs, job, slot, stage>>
    BY <1>7, <2>1 DEF FreeEvicted, Release
  <2>3. \A u \in Trees \ {t} : pending_free[u] # None =>
          pending_free[u] \in Slots /\ pending_free[u] # e
    BY <1>0, <2>1 DEF PendingInv, TypeOK
  <2> QED
    BY <1>0, <2>2, <2>3 DEF TypeOK, PendingInv, IsLive
<1>8. CASE EndInsert \/ EndDelete
  <2>1. \A t \in Trees : pending_free'[t] = None
    BY <1>8 DEF EndInsert, EndDelete, NonePending, workerVars
  <2> QED
    BY <2>1 DEF PendingInv
<1>9. CASE UNCHANGED <<storeVars, treeVars, workerVars, updates_seen, job, slot>>
  BY <1>0, <1>9 DEF PendingInv, IsLive, storeVars, workerVars
<1> QED
  BY <1>1, <1>2, <1>3, <1>4, <1>5, <1>6, <1>7, <1>8, <1>9, StepCases

\* Pushing an emptied slot keeps the free list exact.
LEMMA PushFree ==
  ASSUME TypeOK, FreeInv, NEW s \in Slots, IsLive(s), Release(s),
         capacity' = capacity
  PROVE  FreeInv'
<1>1. /\ points' = [points EXCEPT ![s] = None]
      /\ free' \in Seq(Slots) /\ Len(free') = Len(free) + 1 /\ Len(free) \in Nat
      /\ \A i \in 1..Len(free) : free'[i] = free[i]
      /\ free'[Len(free) + 1] = s
  BY AppendProperties, LenProperties DEF Release, TypeOK
<1>2. s < capacity
  BY DEF FreeInv, TypeOK, Slots
<1>3. \A i \in 1..Len(free) : free[i] \in Slots /\ free[i] # s /\ ~IsLive(free[i])
  BY ElementOfSeq DEF FreeInv, TypeOK
<1>4. \A r \in Slots : r # s => points'[r] = points[r]
  BY <1>1 DEF TypeOK
<1>5. points'[s] = None
  BY <1>1 DEF TypeOK
<1>6. \A i, j \in 1..Len(free') : free'[i] = free'[j] => i = j
  BY <1>1, <1>3 DEF FreeInv
<1>7. \A i \in 1..Len(free') : points'[free'[i]] = None /\ free'[i] < capacity
  BY <1>1, <1>2, <1>3, <1>4, <1>5 DEF FreeInv, IsLive
<1>8. ASSUME NEW r \in Slots, r < capacity, points'[r] = None
      PROVE  \E i \in 1..Len(free') : free'[i] = r
  <2>1. CASE r = s
    BY <1>1, <2>1
  <2>2. CASE r # s
    BY <1>1, <1>4, <1>8, <2>2 DEF FreeInv, IsLive
  <2> QED
    BY <2>1, <2>2
<1>9. \A r \in Slots : r >= capacity => points'[r] = None
  BY <1>4, <1>5 DEF FreeInv, IsLive
<1> QED
  BY <1>6, <1>7, <1>8, <1>9 DEF FreeInv, IsLive

\* Taking the next slot keeps the free list exact.
LEMMA PopFree ==
  ASSUME TypeOK, FreeInv, BeginInsert
  PROVE  FreeInv'
<1> USE NoneAssumption
<1>1. NextSlot \in Slots /\ ~IsLive(NextSlot) /\ capacity \in Nat
  BY EmptyNextSlot DEF BeginInsert, TypeOK
<1>2. /\ points' = [points EXCEPT ![NextSlot] = updates_seen + 1]
      /\ updates_seen + 1 # None
  BY DEF BeginInsert, TypeOK
<1>3. /\ \A s \in Slots : s # NextSlot => points'[s] = points[s]
      /\ points'[NextSlot] # None
  BY <1>1, <1>2 DEF TypeOK
<1>4. CASE free = <<>>
  <2>1. NextSlot = capacity /\ capacity' = capacity + 1 /\ free' = free
    BY <1>4 DEF BeginInsert, NextSlot
  <2>2. Len(free') = 0 /\ 1..Len(free') = {}
    BY <1>4, <2>1
  <2>3. \A s \in Slots : s < capacity /\ points'[s] = None => FALSE
    <3>1. \A s \in Slots : s < capacity => s # NextSlot
      BY <2>1 DEF Slots
    <3> QED
      BY <1>3, <2>1, <2>2, <3>1 DEF FreeInv, IsLive
  <2>4. \A s \in Slots : s < capacity + 1 => s < capacity \/ s = NextSlot
    BY <1>1, <2>1 DEF Slots
  <2>5. \A s \in Slots : s >= capacity + 1 => points'[s] = None
    <3>1. \A s \in Slots : s >= capacity + 1 => s >= capacity /\ s # NextSlot
      BY <1>1, <2>1 DEF Slots
    <3> QED
      BY <1>3, <3>1 DEF FreeInv, IsLive
  <2>6. \A s \in Slots : s < capacity' /\ points'[s] = None => FALSE
    BY <1>3, <2>1, <2>3, <2>4
  <2> QED
    BY <2>1, <2>2, <2>5, <2>6 DEF FreeInv, IsLive
<1>5. CASE free # <<>>
  <2>1. PICK n \in Nat : n + 1 = Len(free)
    <3>1. Len(free) - 1 \in Nat /\ (Len(free) - 1) + 1 = Len(free)
      BY <1>5, EmptySeq, LenProperties DEF TypeOK
    <3> QED
      BY <3>1
  <2>2. n = Len(free) - 1
    BY <2>1
  <2>3. NextSlot = free[n + 1] /\ capacity' = capacity /\ free' = SubSeq(free, 1, n)
    BY <1>5, <2>1, <2>2 DEF BeginInsert, NextSlot
  <2>4. Len(free') = n /\ \A i \in 1..n : free'[i] = free[i]
    BY <2>1, <2>3, PopProperties DEF TypeOK
  <2>5. \A i \in 1..n : free[i] \in Slots /\ free[i] # NextSlot
    BY <2>1, <2>3, ElementOfSeq DEF FreeInv, TypeOK
  <2>6. \A i, j \in 1..n : free'[i] = free'[j] => i = j
    BY <2>1, <2>4 DEF FreeInv
  <2>7. \A i \in 1..n : points'[free'[i]] = None /\ free'[i] < capacity
    BY <1>3, <2>1, <2>4, <2>5 DEF FreeInv, IsLive
  <2>8. ASSUME NEW s \in Slots, s < capacity, points'[s] = None
        PROVE  \E i \in 1..n : free'[i] = s
    <3>1. s # NextSlot /\ points[s] = None
      BY <1>3, <2>8
    <3>2. PICK i \in 1..Len(free) : free[i] = s
      BY <2>8, <3>1 DEF FreeInv, IsLive
    <3>3. i \in 1..n
      BY <2>1, <2>3, <3>1, <3>2
    <3> QED
      BY <2>4, <3>2, <3>3
  <2>9. \A s \in Slots : s >= capacity => points'[s] = None
    <3>1. NextSlot < capacity
      BY <2>1, <2>3 DEF FreeInv
    <3> QED
      BY <1>1, <1>3, <3>1 DEF FreeInv, IsLive, Slots
  <2> QED
    BY <2>3, <2>4, <2>6, <2>7, <2>8, <2>9 DEF FreeInv, IsLive
<1> QED
  BY <1>4, <1>5

\* Every step preserves FreeInv.
LEMMA FreeStep ==
  ASSUME IInv, [Next]_vars
  PROVE  FreeInv'
<1>0. TypeOK /\ FreeInv /\ RefInv /\ NoneAssumption
  BY NoneAssumption DEF IInv
<1>1. CASE UNCHANGED <<points, free, capacity>>
  BY <1>0, <1>1 DEF FreeInv, IsLive
<1>2. CASE BeginInsert
  BY <1>0, <1>2, PopFree
<1>3. ASSUME NEW t \in Trees, FreeEvicted(t)
      PROVE  FreeInv'
  <2>1. pending_free[t] \in Slots
    BY <1>0, <1>3 DEF TypeOK, FreeEvicted
  <2> QED
    BY <1>0, <1>3, <2>1, PushFree DEF FreeEvicted
<1>4. CASE EndInsert
  <2>1. slot \in Slots /\ IsLive(slot)
    BY <1>0, <1>4, NoneAssumption DEF TypeOK, RefInv, EndInsert, IsLive
  <2> QED
    BY <1>0, <1>1, <1>4, <2>1, PushFree DEF EndInsert
<1>5. CASE EndDelete
  <2>1. slot \in Slots
    BY <1>0, <1>5 DEF TypeOK, EndDelete
  <2> QED
    BY <1>0, <1>1, <1>5, <2>1, PushFree DEF EndDelete
<1> QED
  BY <1>1, <1>2, <1>3, <1>4, <1>5, StepCases
  DEF Reject, Admit, Withdraw, NotHeld, LoadRef, CasRef, CasFails, Link, Replace,
      BeginDelete, storeVars

\* Every step preserves OwnerInv.
LEMMA OwnerStep ==
  ASSUME IInv, TypeOK', [Next]_vars
  PROVE  OwnerInv'
<1> USE SizeAssumption, NoneAssumption
<1>0. TypeOK /\ WorkerInv /\ RefInv /\ PendingInv /\ FreeInv /\ OwnerInv
  BY DEF IInv
<1>1. CASE UNCHANGED <<points, refs, pending_free, job, slot>>
  BY <1>0, <1>1 DEF OwnerInv, IsLive
<1>2. ASSUME NEW t \in Trees, CasRef(t)
      PROVE  OwnerInv'
  <2>1. PICK v \in Slots : v = victim[t] /\ refs[v] = loaded[t] /\ loaded[t] \in Nat \ {0}
    BY <1>0, <1>2 DEF WorkerInv, CasRef
  <2>2. pending_free[t] = None
    BY <1>0, <1>2 DEF PendingInv, CasRef
  <2>3. /\ refs' = [refs EXCEPT ![v] = refs[v] - 1]
        /\ pending_free' = [pending_free EXCEPT ![t] = IF refs[v] = 1 THEN v ELSE None]
        /\ UNCHANGED <<points, job, slot>>
    BY <1>2, <2>1 DEF CasRef
  <2>4. refs[v] \in Nat \ {0}
    BY <2>1
  <2>5. ASSUME NEW s \in Slots, IsLive(s), s # v
        PROVE  \/ refs'[s] > 0
               \/ job = "insert" /\ s = slot
               \/ \E u \in Trees : pending_free'[u] = s
    <3>1. refs'[s] = refs[s] /\ (\A u \in Trees \ {t} : pending_free'[u] = pending_free[u])
      BY <1>0, <2>3, <2>5 DEF TypeOK
    <3>2. pending_free[t] # s
      BY <2>2, SlotNotNone
    <3> QED
      BY <1>0, <2>5, <3>1, <3>2 DEF OwnerInv
  <2>6. refs'[v] > 0 \/ pending_free'[t] = v
    BY SMTT(30), <1>0, <2>3, <2>4 DEF TypeOK
  <2> QED
    BY <2>3, <2>5, <2>6 DEF OwnerInv, IsLive
<1>3. ASSUME NEW t \in Trees, Link(t)
      PROVE  OwnerInv'
  BY <1>0, <1>3 DEF OwnerInv, IsLive, Link, TypeOK
<1>4. CASE job = "none" /\ BeginInsert
  <2>1. /\ points' = [points EXCEPT ![NextSlot] = updates_seen + 1]
        /\ refs' = [refs EXCEPT ![NextSlot] = 0]
        /\ job' = "insert" /\ slot' = NextSlot /\ pending_free' = pending_free
    BY <1>4 DEF BeginInsert, FanOut
  <2> QED
    BY <1>0, <1>4, <2>1 DEF OwnerInv, IsLive, TypeOK
<1>5. CASE job = "none" /\ \E s \in Slots : BeginDelete(s)
  BY <1>0, <1>5 DEF OwnerInv, IsLive, BeginDelete, FanOut, storeVars
<1>6. ASSUME NEW t \in Trees, FreeEvicted(t)
      PROVE  OwnerInv'
  <2>1. PICK e \in Slots : e = pending_free[t]
    BY <1>0, <1>6 DEF TypeOK, FreeEvicted
  <2>2. /\ points' = [points EXCEPT ![e] = None]
        /\ pending_free' = [pending_free EXCEPT ![t] = None]
        /\ UNCHANGED <<refs, job, slot>>
    BY <1>6, <2>1 DEF FreeEvicted, Release
  <2> QED
    BY <1>0, <2>1, <2>2 DEF OwnerInv, IsLive, TypeOK
<1>7. CASE EndInsert
  <2>1. /\ job = "insert" /\ slot \in Slots /\ refs' = refs
        /\ \A t \in Trees : pending_free[t] = None
    BY <1>0, <1>7 DEF EndInsert, NonePending, TypeOK
  <2>2. IF refs[slot] = 0 THEN points' = [points EXCEPT ![slot] = None]
                          ELSE points' = points
    BY <1>7 DEF EndInsert, Release
  <2>3. ASSUME NEW s \in Slots, points'[s] # None
        PROVE  refs[s] > 0
    <3>1. points[s] # None /\ (s = slot => refs[s] # 0)
      BY <1>0, <2>1, <2>2, <2>3 DEF TypeOK
    <3>2. \A t \in Trees : pending_free[t] # s
      BY <2>1, SlotNotNone
    <3>3. refs[s] > 0 \/ s = slot
      BY <1>0, <3>1, <3>2 DEF OwnerInv, IsLive
    <3>4. refs[s] \in Nat
      BY <1>0 DEF TypeOK
    <3> QED
      BY <3>1, <3>3, <3>4
  <2> QED
    BY <2>1, <2>3 DEF OwnerInv, IsLive
<1>8. CASE EndDelete
  <2>1. /\ job = "delete" /\ slot \in Slots /\ refs' = refs
        /\ \A t \in Trees : pending_free[t] # None => pending_free[t] = slot
    BY <1>0, <1>8 DEF EndDelete, PendingInv, TypeOK
  <2>2. IF NonePending THEN points' = points
                       ELSE points' = [points EXCEPT ![slot] = None]
    BY <1>8 DEF EndDelete, Release
  <2>3. ASSUME NEW s \in Slots, points'[s] # None
        PROVE  refs[s] > 0
    <3>1. points[s] # None /\ (~NonePending => s # slot)
      BY <1>0, <2>1, <2>2, <2>3 DEF TypeOK
    <3>2. \A t \in Trees : pending_free[t] # s
      BY <2>1, <3>1, SlotNotNone DEF NonePending
    <3> QED
      BY <1>0, <2>1, <3>1, <3>2 DEF OwnerInv, IsLive
  <2> QED
    BY <2>1, <2>3 DEF OwnerInv, IsLive
<1> QED
  BY <1>1, <1>2, <1>3, <1>4, <1>5, <1>6, <1>7, <1>8, StepCases
  DEF Reject, Admit, Withdraw, NotHeld, LoadRef, CasFails, Replace, storeVars,
      workerVars

------------------------------------------------------------------------------
(* The theorems.                                                            *)

\* The forest starts in IInv.
LEMMA InitIInv == Init => IInv
<1> SUFFICES ASSUME Init PROVE IInv
  OBVIOUS
<1> USE SizeAssumption, NoneAssumption
<1>0. Idle \in CallType
  BY EmptySeq DEF Idle, CallType, Ops
<1>1. TypeOK
  BY <1>0, EmptySeq DEF Init, TypeOK, Slots
<1>2. Cardinality({}) = 0 /\ Cardinality({}) <= SampleSize
  BY FS_EmptySet
<1>3. WorkerInv
  BY <1>2 DEF Init, WorkerInv, Unlinked
<1>4. \A s : Holders(s) = {}
  BY DEF Init, Holders, Counted
<1>5. RefInv
  BY <1>2, <1>4 DEF Init, RefInv, Counted
<1>6. PendingInv /\ OwnerInv
  BY DEF Init, PendingInv, OwnerInv, IsLive
<1>7. FreeInv
  BY DEF Init, FreeInv, IsLive, Slots
<1> QED
  BY <1>1, <1>3, <1>5, <1>6, <1>7 DEF IInv

\* Every step of the forest preserves IInv.
LEMMA NextIInv == IInv /\ [Next]_vars => IInv'
<1> SUFFICES ASSUME IInv, [Next]_vars PROVE IInv'
  OBVIOUS
<1>1. TypeOK'
  BY TypeStep
<1>2. WorkerInv'
  BY <1>1, WorkerStep
<1> QED
  BY <1>1, <1>2, RefStep, PendingStep, FreeStep, OwnerStep DEF IInv

\* IInv holds throughout every behaviour.
THEOREM Invariance == Spec => []IInv
BY InitIInv, NextIInv, PTL DEF Spec

\* The forest is type correct.
THEOREM TypeCorrect == Spec => []TypeOK
<1>1. IInv => TypeOK
  BY DEF IInv
<1> QED
  BY <1>1, Invariance, PTL

\* No interleaving of the workers of an insertion or a deletion reaches an
\* error branch of the point store or frees a slot twice.
THEOREM StoreNeverErrs == Spec => []NoStoreError
<1>1. IInv => NoStoreError
  <2> SUFFICES ASSUME IInv, NEW t \in Trees
               PROVE  /\ stage[t] \in {"load", "cas"} =>
                           IsLive(victim[t]) /\ refs[victim[t]] > 0
                      /\ stage[t] = "link" => IsLive(slot)
                      /\ pending_free[t] # None =>
                           /\ IsLive(pending_free[t]) /\ refs[pending_free[t]] = 0
                           /\ \A u \in Trees \ {t} : pending_free[u] # pending_free[t]
    BY DEF NoStoreError
  <2>0. TypeOK /\ WorkerInv /\ RefInv /\ PendingInv
    BY DEF IInv
  <2>1. ASSUME stage[t] \in {"load", "cas"}
        PROVE  IsLive(victim[t]) /\ refs[victim[t]] > 0
    <3>1. victim[t] \in Slots /\ victim[t] \in Counted(t)
      BY <2>0, <2>1 DEF WorkerInv, Counted
    <3>2. refs[victim[t]] # 0 /\ refs[victim[t]] \in Nat
      BY <2>0, <3>1, HolderCounts DEF TypeOK
    <3> QED
      BY <2>0, <3>1, <3>2 DEF RefInv
  <2>2. stage[t] = "link" => IsLive(slot)
    BY <2>0, NoneAssumption DEF WorkerInv, RefInv, IsLive, TypeOK
  <2> QED
    BY <2>0, <2>1, <2>2 DEF PendingInv
<1> QED
  BY <1>1, Invariance, PTL

\* At every step of a fan-out the slots named by a tree or its sampler hold
\* points.
THEOREM NamedPointsLive == Spec => []TreesNameLivePoints
<1>1. IInv => TreesNameLivePoints
  <2> SUFFICES ASSUME IInv, NEW t \in Trees, NEW s \in sample[t] \cup indexed[t]
               PROVE  IsLive(s)
    BY DEF TreesNameLivePoints
  <2>1. s \in indexed[t] \/ (job = "insert" /\ s = slot)
    BY DEF IInv, WorkerInv, Unlinked
  <2> QED
    BY <2>1, NoneAssumption DEF IInv, RefInv, Counted, IsLive, TypeOK
<1> QED
  BY <1>1, Invariance, PTL

\* Between the steps of a call no point is kept that no reservoir holds.
LEMMA LiveIsSampled ==
  ASSUME IInv, job = "none", NEW s \in Slots, IsLive(s)
  PROVE  Sampled(s)
<1>0. TypeOK /\ WorkerInv /\ RefInv /\ PendingInv /\ OwnerInv
  BY DEF IInv
<1>1. \A t \in Trees : pending_free[t] # s
  BY <1>0, SlotNotNone DEF PendingInv
<1>2. refs[s] > 0 /\ refs[s] \in Nat
  BY <1>0, <1>1 DEF OwnerInv, TypeOK
<1>3. refs[s] # 0
  BY <1>2
<1>4. PICK t \in Trees : s \in Counted(t)
  BY <1>0, <1>3, HolderCounts
<1>5. s \in indexed[t]
  BY <1>0, <1>4 DEF Counted, WorkerInv
<1> QED
  BY <1>0, <1>5 DEF WorkerInv, Sampled

\* Between calls the store holds no point that every reservoir has lost.
THEOREM OrphanFree == Spec => []NoOrphan
<1>1. IInv => NoOrphan
  BY LiveIsSampled DEF NoOrphan, AtRest
<1> QED
  BY <1>1, Invariance, PTL

------------------------------------------------------------------------------
(* The size of the store.                                                   *)

\* Numbered within its tree, a sampled slot is told from every other sampled
\* slot by a tree and a number up to the sample size.
LEMMA SampledSlots ==
  ASSUME TypeOK, WorkerInv, NEW S \in SUBSET Slots, \A s \in S : Sampled(s)
  PROVE  Cardinality(S) <= NumTrees * SampleSize
<1> USE SizeAssumption
<1>1. ASSUME NEW t \in Trees
      PROVE  \E f \in [sample[t] -> 1..SampleSize] :
               \A r, s \in sample[t] : f[r] = f[s] => r = s
  <2> DEFINE n == Cardinality(sample[t])
  <2>1. n \in Nat /\ n <= SampleSize /\ ExistsBijection(1..n, sample[t])
    BY SampleFinite, FS_CardinalityType DEF WorkerInv
  <2> HIDE DEF n
  <2>2. PICK f : f \in Bijection(sample[t], 1..n)
    BY <2>1, Fun_ExistsBijSymmetric, Fun_ExistsBij
  <2>3. f \in [sample[t] -> 1..n] /\ \A r, s \in sample[t] : f[r] = f[s] => r = s
    BY <2>2 DEF Bijection, Injection, IsInjective
  <2>4. f \in [sample[t] -> 1..SampleSize]
    BY <2>1, <2>3
  <2> QED
    BY <2>3, <2>4
<1> DEFINE num == [t \in Trees |->
                     CHOOSE f \in [sample[t] -> 1..SampleSize] :
                       \A r, s \in sample[t] : f[r] = f[s] => r = s]
           tree == [s \in S |-> CHOOSE t \in Trees : s \in sample[t]]
           id   == [s \in S |-> <<tree[s], num[tree[s]][s]>>]
<1>2. \A s \in S : tree[s] \in Trees /\ s \in sample[tree[s]]
  BY DEF Sampled
<1>3. \A t \in Trees : /\ num[t] \in [sample[t] -> 1..SampleSize]
                      /\ \A r, s \in sample[t] : num[t][r] = num[t][s] => r = s
  BY <1>1
<1> HIDE DEF num, tree
<1>4. id \in [S -> Trees \X (1..SampleSize)]
  BY <1>2, <1>3
<1>5. \A r, s \in S : id[r] = id[s] => r = s
  BY <1>2, <1>3
<1> HIDE DEF id
<1>6. id \in Injection(S, Trees \X (1..SampleSize))
  BY <1>4, <1>5, Fun_IsInj
<1>7. /\ IsFiniteSet(Trees) /\ Cardinality(Trees) = NumTrees
      /\ IsFiniteSet(1..SampleSize) /\ Cardinality(1..SampleSize) = SampleSize
  BY FS_Interval DEF Trees
<1>8. /\ IsFiniteSet(Trees \X (1..SampleSize))
      /\ Cardinality(Trees \X (1..SampleSize)) = NumTrees * SampleSize
  BY <1>7, FS_Product
<1>9. Cardinality(S) <= Cardinality(Trees \X (1..SampleSize))
  <2> DEFINE T == Trees \X (1..SampleSize)
  <2>1. IsFiniteSet(T) /\ id \in Injection(S, T)
    BY <1>6, <1>8
  <2> HIDE DEF T
  <2>2. Cardinality(S) <= Cardinality(T)
    BY <2>1, FS_Injection
  <2> QED
    BY <2>2 DEF T
<1> QED
  BY <1>8, <1>9

\* A store that grows has no slot free, so every slot it has is sampled.
LEMMA CapacityStep ==
  ASSUME IInv, StoreBounded, [Next]_vars
  PROVE  StoreBounded'
<1> USE SizeAssumption
<1>0. TypeOK /\ WorkerInv /\ FreeInv /\ capacity \in Nat
  BY DEF IInv, TypeOK
<1>1. CASE capacity' = capacity
  BY <1>1 DEF StoreBounded
<1>2. CASE job = "none" /\ BeginInsert /\ free = <<>> /\ capacity' = capacity + 1
  <2>1. capacity < MaxSlots
    BY <1>2 DEF BeginInsert, NextSlot
  <2>2. 0..capacity-1 \in SUBSET Slots
    BY <1>0, <2>1 DEF Slots
  <2>3. \A s \in 0..capacity-1 : IsLive(s)
    BY <1>0, <1>2, <2>2 DEF FreeInv
  <2>4. \A s \in 0..capacity-1 : Sampled(s)
    BY <1>2, <2>2, <2>3, LiveIsSampled
  <2>5. Cardinality(0..capacity-1) = capacity
    BY <1>0, FS_Interval
  <2>6. capacity <= NumTrees * SampleSize
    BY <1>0, <2>2, <2>4, <2>5, SampledSlots
  <2>7. NumTrees * SampleSize \in Nat
    OBVIOUS
  <2> QED
    BY <1>0, <1>2, <2>6, <2>7 DEF StoreBounded
<1> QED
  BY <1>1, <1>2, StepCases
  DEF Reject, Admit, Withdraw, NotHeld, LoadRef, CasRef, CasFails, Link, Replace,
      BeginInsert, BeginDelete, FreeEvicted, EndInsert, EndDelete, storeVars

\* However long the stream and whatever the workers' order, the store never
\* holds more slots than the reservoirs can name, and the one being offered.
THEOREM StoreStaysBounded == Spec => []StoreBounded
<1>1. Init => StoreBounded
  BY SizeAssumption DEF Init, StoreBounded
<1>2. IInv /\ StoreBounded /\ [Next]_vars => StoreBounded'
  BY CapacityStep
<1> QED
  BY <1>1, <1>2, Invariance, PTL DEF Spec

------------------------------------------------------------------------------
(* What a snapshot holds.                                                   *)

\* Every step preserves StampInv when callers stamp live indices only.
LEMMA StampStep ==
  ASSUME ~StampAnySlot, IInv, TypeOK', StampInv, [Next]_vars
  PROVE  StampInv'
<1> USE NoneAssumption
<1>0. TypeOK /\ RefInv
  BY DEF IInv
<1>1. CASE UNCHANGED <<points, timestamps>>
  BY <1>1 DEF StampInv, IsLive
<1>2. CASE BeginInsert
  <2>1. /\ points' = [points EXCEPT ![NextSlot] = updates_seen + 1]
        /\ updates_seen + 1 # None
        /\ timestamps' = timestamps
    BY <1>0, <1>2 DEF BeginInsert, TypeOK
  <2> QED
    BY <1>0, <2>1 DEF StampInv, IsLive, TypeOK
<1>3. ASSUME NEW s \in Slots, Release(s)
      PROVE  StampInv'
  <2>1. /\ points' = [points EXCEPT ![s] = None]
        /\ timestamps' = [timestamps EXCEPT ![s] = None]
    BY <1>3 DEF Release
  <2> QED
    BY <1>0, <2>1 DEF StampInv, IsLive, TypeOK
<1>4. ASSUME NEW s \in Slots, IsLive(s), points' = points, NEW ts,
             timestamps' = [timestamps EXCEPT ![s] = ts]
      PROVE  StampInv'
  BY <1>0, <1>4 DEF StampInv, IsLive, TypeOK
<1>5. ASSUME NEW t \in Trees, FreeEvicted(t)
      PROVE  StampInv'
  <2>1. pending_free[t] \in Slots
    BY <1>0, <1>5 DEF TypeOK, FreeEvicted
  <2> QED
    BY <1>3, <1>5, <2>1 DEF FreeEvicted
<1>6. CASE EndInsert
  <2>1. slot \in Slots /\ IsLive(slot)
    BY <1>0, <1>6 DEF TypeOK, RefInv, EndInsert, IsLive
  <2> QED
    BY <1>1, <1>3, <1>4, <1>6, <2>1 DEF EndInsert
<1>7. CASE EndDelete
  <2>1. slot \in Slots
    BY <1>0, <1>7 DEF TypeOK, EndDelete
  <2>2. \/ Release(slot)
        \/ points' = points /\ timestamps' = timestamps
        \/ points' = points /\ timestamps' = [timestamps EXCEPT ![slot] = None]
    BY <1>7 DEF EndDelete
  <2>3. CASE /\ points' = points
             /\ timestamps' = [timestamps EXCEPT ![slot] = None]
    BY <1>0, <2>1, <2>3 DEF StampInv, IsLive, TypeOK
  <2> QED
    BY <1>1, <1>3, <2>1, <2>2, <2>3
<1>8. CASE /\ UNCHANGED points
           /\ \E s \in Slots, ts \in Times :
                /\ StampAnySlot \/ IsLive(s)
                /\ timestamps' = [timestamps EXCEPT ![s] = ts]
  BY <1>4, <1>8
<1> QED
  BY <1>1, <1>2, <1>5, <1>6, <1>7, <1>8, StepCases
  DEF Reject, Admit, Withdraw, NotHeld, LoadRef, CasRef, CasFails, Link, Replace,
      BeginDelete, storeVars

\* A forest whose callers stamp live indices only passes, between any two
\* calls, the checks TryFrom makes of a snapshot.
THEOREM SnapshotsReload ==
  ASSUME ~StampAnySlot
  PROVE  Spec => []SnapshotReloads
<1>1. Init => StampInv
  BY DEF Init, StampInv
<1>2. IInv /\ IInv' /\ StampInv /\ [Next]_vars => StampInv'
  BY StampStep DEF IInv
<1>3. IInv /\ StampInv => SnapshotReloads
  <2> SUFFICES ASSUME IInv, StampInv, AtRest PROVE SnapshotReloads
    BY DEF SnapshotReloads
  <2>0. TypeOK /\ WorkerInv /\ RefInv /\ FreeInv /\ job = "none"
    BY DEF IInv, AtRest
  <2>1. {free[i] : i \in 1..Len(free)} = {s \in 0..capacity-1 : ~IsLive(s)}
    <3>1. ASSUME NEW i \in 1..Len(free)
          PROVE  free[i] \in 0..capacity-1 /\ ~IsLive(free[i])
      <4>1. free[i] \in Slots
        BY <2>0, ElementOfSeq DEF TypeOK
      <4>2. free[i] < capacity /\ ~IsLive(free[i])
        BY <2>0 DEF FreeInv
      <4> QED
        BY <2>0, <4>1, <4>2 DEF TypeOK, Slots
    <3>2. ASSUME NEW s \in 0..capacity-1, ~IsLive(s)
          PROVE  \E i \in 1..Len(free) : free[i] = s
      <4>1. s \in Slots /\ s < capacity
        BY <2>0, SizeAssumption DEF TypeOK, Slots
      <4> QED
        BY <2>0, <3>2, <4>1 DEF FreeInv
    <3> QED
      BY <3>1, <3>2
  <2>2. \A t \in Trees : Counted(t) = indexed[t] /\ sample[t] = indexed[t]
    BY <2>0 DEF WorkerInv, Unlinked, Counted
  <2>3. \A s \in Slots : refs[s] = Cardinality({t \in Trees : s \in sample[t]})
    <3>1. \A s : Holders(s) = {t \in Trees : s \in sample[t]}
      BY <2>2 DEF Holders
    <3> QED
      BY <2>0, <3>1 DEF RefInv
  <2>4. \A t \in Trees : Cardinality(sample[t]) <= SampleSize
    BY <2>0 DEF WorkerInv
  <2>5. \A i, j \in 1..Len(free) : free[i] = free[j] => i = j
    BY <2>0 DEF FreeInv
  <2>6. \A t \in Trees : \A s \in sample[t] : IsLive(s)
    BY <2>0, <2>2 DEF RefInv
  <2>7. ValidStore
    BY <2>1, <2>5 DEF ValidStore
  <2>8. \A t \in Trees : ValidPair(t)
    BY <2>2, <2>4, <2>6 DEF ValidPair
  <2> QED
    BY <2>3, <2>7, <2>8 DEF SnapshotReloads, ValidSnapshot, StampInv
<1> QED
  BY <1>1, <1>2, <1>3, Invariance, PTL DEF Spec

------------------------------------------------------------------------------
(* The calls of the forest.                                                 *)

\* A worker's step touches neither the points nor the call it works for.
LEMMA WorkerKeeps ==
  ASSUME NEW t \in Trees, Worker(t)
  PROVE  UNCHANGED <<points, timestamps, updates_seen, job, slot, call>>
BY DEF Worker, Reject, Admit, Replace, Withdraw, NotHeld, LoadRef, CasRef,
       CasFails, Link, storeVars

\* What a release does to the points and the stamps.
LEMMA ReleaseEmpties ==
  ASSUME TypeOK, NEW s \in Slots, Release(s)
  PROVE  /\ points' = [points EXCEPT ![s] = None]
         /\ timestamps' = [timestamps EXCEPT ![s] = None]
         /\ points'[s] = None /\ timestamps'[s] = None
         /\ \A r \in Slots \ {s} : points'[r] = points[r] /\ timestamps'[r] = timestamps[r]
BY DEF TypeOK, Release

\* What an insertion's beginning does to them.
LEMMA InsertFills ==
  ASSUME IInv, BeginInsert
  PROVE  /\ NextSlot \in Slots /\ ~IsLive(NextSlot)
         /\ points'[NextSlot] = updates_seen + 1
         /\ \A r \in Slots \ {NextSlot} : points'[r] = points[r]
         /\ updates_seen \in Nat /\ updates_seen + 1 # None
         /\ job' = "insert" /\ slot' = NextSlot
         /\ UNCHANGED <<timestamps, updates_seen>>
<1>1. NextSlot \in Slots /\ ~IsLive(NextSlot)
  BY EmptyNextSlot DEF IInv, BeginInsert
<1> QED
  BY <1>1, NoneAssumption, SizeAssumption DEF IInv, TypeOK, BeginInsert, FanOut

------------------------------------------------------------------------------
(* Observations.                                                            *)

LEMMA ObsStep ==
  ASSUME IInv, TypeOK', ObsInv, [Next]_vars
  PROVE  ObsInv'
<1> USE NoneAssumption
<1>0. TypeOK /\ RefInv /\ updates_seen \in Nat
  BY SizeAssumption DEF IInv, TypeOK
<1>1. CASE UNCHANGED <<points, updates_seen, job, slot>>
  BY <1>1 DEF ObsInv, IsLive
<1>2. CASE job = "none" /\ BeginInsert
  <2>1. \A s \in Slots : IsLive(s) => points[s] <= updates_seen
    BY <1>2 DEF ObsInv
  <2>2. \A s \in Slots : IsLive(s) => points[s] # updates_seen + 1
    BY <1>0, <2>1 DEF TypeOK, Obs, IsLive
  <2> QED
    BY <1>0, <1>2, <2>1, <2>2, InsertFills DEF ObsInv, IsLive
<1>3. CASE job = "none" /\ \E s \in Slots : BeginDelete(s)
  BY <1>3 DEF ObsInv, IsLive, BeginDelete, FanOut, storeVars
<1>4. ASSUME NEW s \in Slots, Release(s), UNCHANGED <<updates_seen, job, slot>>
      PROVE  ObsInv'
  BY <1>0, <1>4, ReleaseEmpties DEF ObsInv, IsLive
<1>5. ASSUME NEW t \in Trees, FreeEvicted(t)
      PROVE  ObsInv'
  <2>1. pending_free[t] \in Slots
    BY <1>0, <1>5 DEF TypeOK, FreeEvicted
  <2> QED
    BY <1>4, <1>5, <2>1 DEF FreeEvicted
<1>6. CASE EndInsert
  <2>1. slot \in Slots /\ points[slot] = updates_seen + 1 /\ job' = "none"
        /\ updates_seen' = updates_seen + 1
    BY <1>0, <1>6 DEF TypeOK, RefInv, EndInsert
  <2>2. Release(slot) \/ points' = points
    BY <1>6 DEF EndInsert
  <2>3. \A s \in Slots : points'[s] = points[s] \/ points'[s] = None
    BY <1>0, <2>1, <2>2, ReleaseEmpties
  <2>4. \A s \in Slots : IsLive(s) => points[s] <= updates_seen + 1
    <3> SUFFICES ASSUME NEW s \in Slots, IsLive(s) PROVE points[s] <= updates_seen + 1
      OBVIOUS
    <3>1. points[s] \in Nat
      BY <1>0, SizeAssumption DEF TypeOK, Obs, IsLive
    <3>2. points[s] <= updates_seen \/ s = slot
      BY DEF ObsInv
    <3> QED
      BY <1>0, <2>1, <3>1, <3>2
  <2> QED
    BY <2>1, <2>3, <2>4 DEF ObsInv, IsLive
<1>7. CASE EndDelete
  <2>1. slot \in Slots /\ job = "delete" /\ updates_seen' = updates_seen
    BY <1>0, <1>7 DEF TypeOK, EndDelete
  <2>2. Release(slot) \/ points' = points
    BY <1>7 DEF EndDelete
  <2>3. \A s \in Slots : points'[s] = points[s] \/ points'[s] = None
    BY <1>0, <2>1, <2>2, ReleaseEmpties
  <2> QED
    BY <2>1, <2>3 DEF ObsInv, IsLive
<1> QED
  BY <1>1, <1>2, <1>3, <1>5, <1>6, <1>7, StepCases
  DEF Reject, Admit, Withdraw, NotHeld, LoadRef, CasRef, CasFails, Link, Replace,
      storeVars

------------------------------------------------------------------------------
(* Deletions.                                                               *)

LEMMA RetractStep ==
  ASSUME IInv, RetractInv, [Next]_vars
  PROVE  RetractInv'
<1>0. TypeOK
  BY DEF IInv
<1>1. CASE UNCHANGED <<job, slot, stage, sample>>
  BY <1>1 DEF RetractInv
<1>2. ASSUME NEW t \in Trees, UNCHANGED <<job, slot>>, job = "delete",
             \A u \in Trees \ {t} : stage'[u] = stage[u] /\ sample'[u] = sample[u],
             slot \notin sample'[t]
      PROVE  RetractInv'
  BY <1>2 DEF RetractInv
<1>3. ASSUME job' # "delete"
      PROVE  RetractInv'
  BY <1>3 DEF RetractInv
<1>4. ASSUME NEW t \in Trees, Withdraw(t) \/ NotHeld(t)
      PROVE  RetractInv'
  BY <1>0, <1>2, <1>4 DEF Withdraw, NotHeld, TypeOK, treeVars
<1>5. ASSUME NEW t \in Trees, LoadRef(t) \/ CasRef(t) \/ CasFails(t) \/ Link(t)
      PROVE  RetractInv'
  <2>1. CASE job # "delete"
    BY <1>3, <1>5, <2>1 DEF LoadRef, CasRef, CasFails, Link
  <2>2. CASE job = "delete"
    <3>1. slot \notin sample[t]
      BY <1>5, <2>2 DEF RetractInv, LoadRef, CasRef, CasFails, Link
    <3> QED
      BY <1>0, <1>2, <1>5, <2>2, <3>1
      DEF LoadRef, CasRef, CasFails, Link, TypeOK, treeVars
  <2> QED
    BY <2>1, <2>2
<1>6. ASSUME NEW s \in Slots, BeginDelete(s)
      PROVE  RetractInv'
  BY <1>6 DEF BeginDelete, FanOut, RetractInv
<1>7. ASSUME NEW t \in Trees, FreeEvicted(t)
      PROVE  RetractInv'
  BY <1>1, <1>7 DEF FreeEvicted, treeVars
<1> QED
  BY <1>1, <1>3, <1>4, <1>5, <1>6, <1>7, StepCases
  DEF Reject, Admit, Replace, BeginInsert, FanOut, EndInsert, EndDelete, treeVars,
      workerVars

\* When a deletion ends, its slot is empty.
LEMMA DeletionEmpties ==
  ASSUME IInv, RetractInv, EndDelete
  PROVE  /\ slot \in Slots /\ points'[slot] = None
         /\ \A r \in Slots \ {slot} : points'[r] = points[r] /\ timestamps'[r] = timestamps[r]
         /\ timestamps'[slot] # None =>
              timestamps'[slot] = timestamps[slot] /\ call.op # "delete_before"
<1>0. /\ TypeOK /\ WorkerInv /\ RefInv /\ PendingInv /\ OwnerInv
      /\ job = "delete" /\ AllDone /\ slot \in Slots
  BY DEF IInv, EndDelete, TypeOK
<1>1. CASE ~NonePending
  BY <1>0, <1>1, ReleaseEmpties DEF EndDelete
<1>2. CASE NonePending
  <2>1. ~IsLive(slot)
    <3> SUFFICES ASSUME IsLive(slot) PROVE FALSE
      OBVIOUS
    <3>1. \A t \in Trees : pending_free[t] # slot
      BY <1>0, <1>2, SlotNotNone DEF NonePending
    <3>2. refs[slot] # 0
      BY <1>0, <3>1, SMTT(30) DEF OwnerInv, TypeOK
    <3>3. PICK t \in Trees : slot \in Counted(t)
      BY <1>0, <3>2, HolderCounts
    <3>4. stage[t] = "done" /\ slot \in indexed[t]
      BY <1>0, <3>3 DEF AllDone, Counted
    <3> QED
      BY <1>0, <3>4 DEF WorkerInv, RetractInv
  <2> QED
    BY <1>0, <1>2, <2>1 DEF EndDelete, IsLive, TypeOK
<1> QED
  BY <1>1, <1>2

------------------------------------------------------------------------------
(* The running call.                                                        *)

\* The fields of a call that changes some of them.
LEMMA CallFields ==
  ASSUME TypeOK, NEW op, NEW left, NEW probes, NEW todo
  PROVE  /\ [call EXCEPT !.op = op, !.todo = todo] =
              [op |-> op, time |-> call.time, left |-> call.left,
               probes |-> call.probes, todo |-> todo]
         /\ [call EXCEPT !.left = left] =
              [op |-> call.op, time |-> call.time, left |-> left,
               probes |-> call.probes, todo |-> call.todo]
         /\ [call EXCEPT !.probes = probes] =
              [op |-> call.op, time |-> call.time, left |-> call.left,
               probes |-> probes, todo |-> call.todo]
         /\ [call EXCEPT !.todo = todo] =
              [op |-> call.op, time |-> call.time, left |-> call.left,
               probes |-> call.probes, todo |-> todo]
<1>0. call \in [op : Ops, time : Times \cup {None}, left : Nat,
               probes : Seq(Slots \X Obs), todo : SUBSET Slots]
  BY DEF TypeOK, CallType
<1>1. [call EXCEPT !.op = op, !.todo = todo] =
        [op |-> op, time |-> call.time, left |-> call.left,
         probes |-> call.probes, todo |-> todo]
  <2> DEFINE c == [call EXCEPT !.op = op]
  <2>1. c = [op |-> op, time |-> call.time, left |-> call.left,
             probes |-> call.probes, todo |-> call.todo]
    BY <1>0
  <2>2. [call EXCEPT !.op = op, !.todo = todo] = [c EXCEPT !.todo = todo]
    OBVIOUS
  <2> HIDE DEF c
  <2> QED
    BY <2>1, <2>2
<1>2. [call EXCEPT !.left = left] =
        [op |-> call.op, time |-> call.time, left |-> left,
         probes |-> call.probes, todo |-> call.todo]
  BY <1>0
<1>3. [call EXCEPT !.probes = probes] =
        [op |-> call.op, time |-> call.time, left |-> call.left,
         probes |-> probes, todo |-> call.todo]
  BY <1>0
<1>4. [call EXCEPT !.todo = todo] =
        [op |-> call.op, time |-> call.time, left |-> call.left,
         probes |-> call.probes, todo |-> todo]
  BY <1>0
<1> QED
  BY <1>1, <1>2, <1>3, <1>4

LEMMA CallInvStep ==
  ASSUME IInv, TypeOK', CallInv, [Next]_vars
  PROVE  CallInv'
<1> USE DEF Idle
<1>0. TypeOK
  BY DEF IInv
<1>1. CASE UNCHANGED <<job, slot, call>>
  BY <1>1 DEF CallInv
<1>2. ASSUME NEW t \in Trees, Worker(t) PROVE CallInv'
  BY <1>1, <1>2, WorkerKeeps
<1>3. CASE Callers
  <2>1. CASE Update \/ \E ts \in Times : UpdateAt(ts)
    BY <2>1 DEF Update, UpdateAt, BeginInsert, FanOut, CallInv
  <2>2. CASE \E s \in Slots : Delete(s)
    BY <2>2 DEF Delete, BeginDelete, FanOut, CallInv
  <2>3. ASSUME NEW cutoff \in Times, DeleteBefore(cutoff) PROVE CallInv'
    BY <2>3 DEF DeleteBefore, AtRest, CallInv
  <2>4. ASSUME NEW v, DeleteByValue(v) PROVE CallInv'
    BY <2>4 DEF DeleteByValue, AtRest, CallInv
  <2>5. ASSUME NEW n \in 1..MaxBatch, ScoreCodisp(n) PROVE CallInv'
    BY <2>5 DEF ScoreCodisp, AtRest, CallInv
  <2>6. CASE \E s \in Slots, ts \in Times : SetPointTimestamp(s, ts)
    BY <1>1, <2>6 DEF SetPointTimestamp
  <2> QED
    BY <1>3, <2>1, <2>2, <2>3, <2>4, <2>5, <2>6 DEF Callers
<1>4. CASE Body
  <2>1. CASE \E t \in Trees : FreeEvicted(t)
    BY <1>1, <2>1 DEF FreeEvicted
  <2>2. CASE EndInsert
    <3>1. CASE call.op = "codisp"
      <4>1. call'.op = "codisp"
        BY <1>0, <2>2, <3>1, CallFields DEF EndInsert
      <4> QED
        BY <2>2, <4>1 DEF EndInsert, CallInv
    <3>2. CASE call.op # "codisp"
      BY <2>2, <3>2 DEF EndInsert, CallInv
    <3> QED
      BY <3>1, <3>2
  <2>3. CASE EndDelete
    BY <2>3 DEF EndDelete, CallInv
  <2>4. CASE InsertProbe
    <3>1. call'.op = "codisp"
      BY <1>0, <2>4, CallFields DEF InsertProbe
    <3> QED
      BY <2>4, <3>1 DEF InsertProbe, BeginInsert, FanOut, CallInv
  <2>5. CASE WalkProbes
    <3>1. call'.op = "withdraw"
      BY <1>0, <2>5, CallFields DEF WalkProbes
    <3> QED
      BY <2>5, <3>1 DEF WalkProbes, CallInv
  <2>6. ASSUME NEW s \in Slots, DeleteNext(s) PROVE CallInv'
    <3>1. call'.op = call.op /\ call'.todo = call.todo \ {s}
      BY <1>0, <2>6, CallFields, ZenonT(40) DEF DeleteNext
    <3>2. call.op \in {"delete_before", "delete_by_value", "withdraw"}
      BY <1>0, <2>6 DEF DeleteNext, CallInv, TypeOK, CallType, Ops
    <3> QED
      BY <2>6, <3>1, <3>2 DEF DeleteNext, BeginDelete, FanOut, CallInv
  <2>7. CASE Return
    BY <2>7 DEF Return, CallInv
  <2> QED
    BY <1>4, <2>1, <2>2, <2>3, <2>4, <2>5, <2>6, <2>7 DEF Body
<1> QED
  BY <1>1, <1>2, <1>3, <1>4 DEF Next, vars

\* The stamps delete_before has left to look after.
LEMMA BeforeStep ==
  ASSUME IInv, CallInv, RetractInv, BeforeInv, [Next]_vars
  PROVE  BeforeInv'
<1>0. TypeOK
  BY DEF IInv
<1>1. CASE UNCHANGED <<timestamps, job, slot, call>>
  BY <1>1 DEF BeforeInv, Stale
<1>2. ASSUME call'.op # "delete_before" PROVE BeforeInv'
  BY <1>2 DEF BeforeInv
<1>3. ASSUME NEW t \in Trees, Worker(t) PROVE BeforeInv'
  BY <1>1, <1>3, WorkerKeeps
<1>4. CASE Callers
  <2>1. CASE Update \/ \E ts \in Times : UpdateAt(ts)
    BY <1>2, <2>1 DEF Update, UpdateAt, Idle
  <2>2. CASE \E s \in Slots : Delete(s)
    BY <1>2, <2>2 DEF Delete, Idle
  <2>3. ASSUME NEW cutoff \in Times, DeleteBefore(cutoff) PROVE BeforeInv'
    <3> DEFINE S == {s \in Slots : timestamps[s] # None /\ timestamps[s] < cutoff}
    <3>1. /\ call' = [Idle EXCEPT !.op = "delete_before", !.time = cutoff, !.todo = S]
          /\ UNCHANGED <<timestamps, job>> /\ job = "none"
      BY <2>3 DEF DeleteBefore, AtRest
    <3>2. call'.time = cutoff /\ call'.todo = S
      BY <3>1 DEF Idle
    <3> QED
      BY <3>1, <3>2 DEF BeforeInv, Stale
  <2>4. ASSUME NEW v, DeleteByValue(v) PROVE BeforeInv'
    BY <1>2, <2>4 DEF DeleteByValue, Idle
  <2>5. ASSUME NEW n \in 1..MaxBatch, ScoreCodisp(n) PROVE BeforeInv'
    BY <1>2, <2>5 DEF ScoreCodisp, Idle
  <2>6. CASE \E s \in Slots, ts \in Times : SetPointTimestamp(s, ts)
    BY <1>2, <2>6 DEF SetPointTimestamp, AtRest, Idle
  <2> QED
    BY <1>4, <2>1, <2>2, <2>3, <2>4, <2>5, <2>6 DEF Callers
<1>5. CASE Body
  <2>1. CASE \E t \in Trees : FreeEvicted(t)
    BY <1>2, <2>1 DEF FreeEvicted, CallInv
  <2>2. CASE EndInsert
    <3>1. call.op = "codisp" => call'.op = "codisp"
      BY <1>0, <2>2, CallFields DEF EndInsert
    <3> QED
      BY <1>2, <2>2, <3>1 DEF EndInsert, Idle
  <2>3. CASE EndDelete
    <3> SUFFICES ASSUME call'.op = "delete_before" PROVE BeforeInv'
      BY <1>2
    <3>1. call' = call /\ call.op = "delete_before" /\ job = "delete" /\ job' = "none"
      BY <2>3 DEF EndDelete, Idle
    <3>2. slot \in Slots /\ timestamps'[slot] = None
      BY <2>3, <3>1, DeletionEmpties
    <3>3. \A r \in Slots \ {slot} : timestamps'[r] = timestamps[r]
      BY <2>3, DeletionEmpties
    <3>4. call.todo \subseteq Slots /\ slot \notin call.todo
      BY <1>0, <3>1 DEF CallInv, TypeOK, CallType
    <3> QED
      BY <3>1, <3>2, <3>3, <3>4 DEF BeforeInv, Stale
  <2>4. CASE InsertProbe
    <3>1. call'.op = "codisp"
      BY <1>0, <2>4, CallFields DEF InsertProbe
    <3> QED
      BY <1>2, <3>1
  <2>5. CASE WalkProbes
    <3>1. call'.op = "withdraw"
      BY <1>0, <2>5, CallFields DEF WalkProbes
    <3> QED
      BY <1>2, <3>1
  <2>6. ASSUME NEW s \in Slots, DeleteNext(s) PROVE BeforeInv'
    <3>1. /\ call'.op = call.op /\ call'.todo = call.todo \ {s}
          /\ call'.time = call.time
      BY <1>0, <2>6, CallFields DEF DeleteNext
    <3>2. /\ s \in call.todo /\ job = "none" /\ job' = "delete" /\ slot' = s
          /\ timestamps' = timestamps
      BY <2>6 DEF DeleteNext, BeginDelete, FanOut
    <3> QED
      BY <3>1, <3>2 DEF BeforeInv, Stale
  <2>7. CASE Return
    BY <1>2, <2>7 DEF Return, Idle
  <2> QED
    BY <1>5, <2>1, <2>2, <2>3, <2>4, <2>5, <2>6, <2>7 DEF Body
<1> QED
  BY <1>1, <1>3, <1>4, <1>5 DEF Next, vars

LEMMA ProbeTypes ==
  ASSUME TypeOK
  PROVE  ProbeObs \subseteq Obs /\ None \notin ProbeObs /\ ProbeSlots \subseteq Slots
<1>1. call.probes \in Seq(Slots \X Obs)
  BY DEF TypeOK, CallType
<1>2. \A i \in 1..Len(call.probes) : call.probes[i] \in Slots \X Obs
  BY <1>1, ElementOfSeq
<1>3. \A i \in 1..Len(call.probes) : call.probes[i][1] \in Slots /\ call.probes[i][2] \in Obs
  BY <1>2
<1>4. None \notin Obs
  BY NoneAssumption, SizeAssumption DEF Obs
<1> QED
  BY <1>3, <1>4 DEF ProbeObs, ProbeSlots

\* The probes of a codisp call and the slots they were given.
LEMMA ProbeStep ==
  ASSUME IInv, TypeOK', ObsInv, CallInv, RetractInv, ProbeInv, [Next]_vars
  PROVE  ProbeInv'
<1>0. TypeOK /\ RefInv /\ updates_seen \in Nat
  BY SizeAssumption DEF IInv, TypeOK
<1>1. CASE UNCHANGED <<points, updates_seen, job, slot, call>>
  BY <1>1 DEF ProbeInv, ProbeObs, ProbeSlots, IsLive
<1>2. ASSUME call'.op \notin {"codisp", "withdraw"}, ProbeObs' = {} PROVE ProbeInv'
  BY <1>2 DEF ProbeInv
<1>3. ASSUME NEW t \in Trees, Worker(t) PROVE ProbeInv'
  BY <1>1, <1>3, WorkerKeeps
<1>4. ASSUME call'.probes = <<>> PROVE ProbeObs' = {} /\ ProbeSlots' = {}
  <2>1. Len(call'.probes) = 0
    BY <1>4
  <2> QED
    BY <2>1 DEF ProbeObs, ProbeSlots
<1>5. CASE Callers
  <2>1. CASE Update \/ \E ts \in Times : UpdateAt(ts)
    BY <1>2, <1>4, <2>1 DEF Update, UpdateAt, Idle
  <2>2. CASE \E s \in Slots : Delete(s)
    BY <1>2, <1>4, <2>2 DEF Delete, Idle
  <2>3. ASSUME NEW cutoff \in Times, DeleteBefore(cutoff) PROVE ProbeInv'
    BY <1>2, <1>4, <2>3 DEF DeleteBefore, Idle
  <2>4. ASSUME NEW v, DeleteByValue(v) PROVE ProbeInv'
    BY <1>2, <1>4, <2>4 DEF DeleteByValue, Idle
  <2>5. ASSUME NEW n \in 1..MaxBatch, ScoreCodisp(n) PROVE ProbeInv'
    <3>1. call'.op = "codisp" /\ ProbeObs' = {} /\ ProbeSlots' = {}
      BY <1>4, <2>5 DEF ScoreCodisp, Idle
    <3> QED
      BY <3>1 DEF ProbeInv
  <2>6. CASE \E s \in Slots, ts \in Times : SetPointTimestamp(s, ts)
    BY <1>1, <2>6 DEF SetPointTimestamp, storeVars
  <2> QED
    BY <1>5, <2>1, <2>2, <2>3, <2>4, <2>5, <2>6 DEF Callers
<1>6. CASE Body
  <2>1. ASSUME NEW t \in Trees, FreeEvicted(t) PROVE ProbeInv'
    <3>1. pending_free[t] \in Slots
      BY <1>0, <2>1 DEF TypeOK, FreeEvicted
    <3>2. \A s \in Slots : points'[s] = points[s] \/ points'[s] = None
      BY <1>0, <2>1, <3>1, ReleaseEmpties DEF FreeEvicted
    <3>3. UNCHANGED <<updates_seen, job, slot, call>> /\ job = "insert"
      BY <2>1 DEF FreeEvicted
    <3>4. ProbeObs' = ProbeObs /\ ProbeSlots' = ProbeSlots
      BY <3>3 DEF ProbeObs, ProbeSlots
    <3>5. None \notin ProbeObs /\ ProbeSlots \subseteq Slots
      BY <1>0, ProbeTypes
    <3> QED
      BY <3>2, <3>3, <3>4, <3>5 DEF ProbeInv, CallInv, IsLive
  <2>2. CASE EndInsert
    <3>0. slot \in Slots /\ points[slot] = updates_seen + 1 /\ job = "insert"
          /\ job' = "none" /\ updates_seen' = updates_seen + 1
      BY <1>0, <2>2 DEF TypeOK, RefInv, EndInsert
    <3>1. CASE call.op # "codisp"
      BY <1>2, <1>4, <2>2, <3>1 DEF EndInsert, Idle
    <3>2. CASE call.op = "codisp"
      <4> DEFINE q == call.probes
                 e == <<slot, updates_seen + 1>>
      <4>1. call'.op = "codisp" /\ call'.probes = Append(q, e)
        BY <1>0, <2>2, <3>2, CallFields DEF EndInsert
      <4>2. q \in Seq(Slots \X Obs) /\ e \in Slots \X Obs
        <5>1. updates_seen + 1 \in Obs
          BY <1>0, <3>0, NoneAssumption DEF TypeOK
        <5> QED
          BY <1>0, <3>0, <5>1 DEF TypeOK, CallType
      <4>3. /\ Len(Append(q, e)) = Len(q) + 1 /\ Len(q) \in Nat
            /\ Append(q, e)[Len(q) + 1] = e
            /\ \A i \in 1..Len(q) : Append(q, e)[i] = q[i]
        BY <4>2, AppendProperties
      <4> HIDE DEF q, e
      <4>4. \A i \in 1..Len(q) + 1 : i \in 1..Len(q) \/ i = Len(q) + 1
        BY <4>3
      <4>5. ProbeObs' = ProbeObs \cup {updates_seen + 1}
        <5>1. ProbeObs' = {Append(q, e)[i][2] : i \in 1..Len(q) + 1}
          BY <4>1, <4>3 DEF ProbeObs
        <5>2. ProbeObs = {q[i][2] : i \in 1..Len(q)}
          BY DEF ProbeObs, q
        <5>3. e[2] = updates_seen + 1
          BY DEF e
        <5> QED
          BY <4>3, <4>4, <5>1, <5>2, <5>3
      <4>6. ProbeSlots' = ProbeSlots \cup {slot}
        <5>1. ProbeSlots' = {Append(q, e)[i][1] : i \in 1..Len(q) + 1}
          BY <4>1, <4>3 DEF ProbeSlots
        <5>2. ProbeSlots = {q[i][1] : i \in 1..Len(q)}
          BY DEF ProbeSlots, q
        <5>3. e[1] = slot
          BY DEF e
        <5> QED
          BY <4>3, <4>4, <5>1, <5>2, <5>3
      <4>7. \A s \in Slots : points'[s] = points[s] \/ points'[s] = None
        BY <1>0, <2>2, <3>0, ReleaseEmpties DEF EndInsert
      <4>8. updates_seen + 1 # None /\ None \notin ProbeObs /\ ProbeSlots \subseteq Slots
            /\ ProbeObs \subseteq Obs
        BY <1>0, NoneAssumption, ProbeTypes
      <4>9. \A o \in ProbeObs' : o <= updates_seen'
        BY <1>0, <3>0, <4>5, <4>8, SizeAssumption DEF ProbeInv, Obs
      <4>10. \A s \in Slots : points'[s] \in ProbeObs' => s \in ProbeSlots'
        <5> SUFFICES ASSUME NEW s \in Slots, points'[s] \in ProbeObs', s # slot
                     PROVE  s \in ProbeSlots
          BY <4>6
        <5>1. points'[s] = points[s]
          BY <4>5, <4>7, <4>8
        <5>2. points[s] # updates_seen + 1
          BY <3>0, <5>1, <4>8 DEF ObsInv, IsLive
        <5> QED
          BY <3>2, <4>5, <5>1, <5>2 DEF ProbeInv
      <4>11. \A s \in ProbeSlots' : IsLive(s)' => points'[s] \in ProbeObs'
        <5> SUFFICES ASSUME NEW s \in ProbeSlots', points'[s] # None
                     PROVE  points'[s] \in ProbeObs'
          BY DEF IsLive
        <5>1. s \in Slots /\ points'[s] = points[s]
          BY <3>0, <4>6, <4>7, <4>8
        <5> QED
          BY <3>0, <3>2, <4>5, <4>6, <5>1 DEF ProbeInv, IsLive
      <4> QED
        BY <4>1, <4>9, <4>10, <4>11 DEF ProbeInv
    <3> QED
      BY <3>1, <3>2
  <2>3. CASE EndDelete
    <3>1. CASE call.op = "delete"
      BY <1>2, <1>4, <2>3, <3>1 DEF EndDelete, Idle
    <3>2. CASE call.op # "delete"
      <4>1. /\ call' = call /\ call.op # "codisp" /\ job = "delete" /\ job' = "none"
            /\ updates_seen' = updates_seen
        BY <2>3, <3>2 DEF EndDelete, CallInv
      <4>2. ProbeObs' = ProbeObs /\ None \notin ProbeObs
        BY <1>0, <4>1, ProbeTypes DEF ProbeObs
      <4>3. /\ slot \in Slots /\ points'[slot] = None
            /\ \A r \in Slots \ {slot} : points'[r] = points[r]
        BY <2>3, DeletionEmpties
      <4>4. call.todo \subseteq Slots
        BY <1>0 DEF TypeOK, CallType
      <4> QED
        BY <4>1, <4>2, <4>3, <4>4 DEF ProbeInv, IsLive
    <3> QED
      BY <3>1, <3>2
  <2>4. CASE InsertProbe
    <3>1. /\ call'.op = "codisp" /\ call'.probes = call.probes /\ call.op = "codisp"
          /\ job = "none"
      BY <1>0, <2>4, CallFields DEF InsertProbe
    <3>2. ProbeObs' = ProbeObs /\ ProbeSlots' = ProbeSlots
      BY <3>1 DEF ProbeObs, ProbeSlots
    <3>3. ProbeSlots \subseteq Slots /\ ProbeObs \subseteq Obs
      BY <1>0, ProbeTypes
    <3>4. updates_seen + 1 \notin ProbeObs
      BY <1>0, <3>3 DEF ProbeInv, Obs
    <3> QED
      BY <2>4, <3>1, <3>2, <3>3, <3>4, InsertFills DEF InsertProbe, ProbeInv, IsLive
  <2>5. CASE WalkProbes
    <3>1. /\ call'.op = "withdraw" /\ call'.probes = call.probes
          /\ call'.todo = ProbeSlots
      BY <1>0, <2>5, CallFields DEF WalkProbes, ProbeSlots
    <3>2. ProbeObs' = ProbeObs
      BY <3>1 DEF ProbeObs
    <3>3. call.op = "codisp" /\ job = "none" /\ UNCHANGED <<points, job, updates_seen>>
      BY <2>5 DEF WalkProbes, storeVars
    <3> QED
      BY <3>1, <3>2, <3>3 DEF ProbeInv, IsLive
  <2>6. ASSUME NEW s \in Slots, DeleteNext(s) PROVE ProbeInv'
    <3>1. /\ call'.op = call.op /\ call'.todo = call.todo \ {s}
          /\ call'.probes = call.probes
      BY <1>0, <2>6, CallFields DEF DeleteNext
    <3>2. /\ s \in call.todo /\ job = "none" /\ job' = "delete" /\ slot' = s
          /\ UNCHANGED <<points, updates_seen>> /\ call.op # "codisp"
      BY <2>6 DEF DeleteNext, BeginDelete, FanOut, storeVars, CallInv
    <3>3. ProbeObs' = ProbeObs
      BY <3>1 DEF ProbeObs
    <3> QED
      BY <3>1, <3>2, <3>3 DEF ProbeInv, IsLive
  <2>7. CASE Return
    BY <1>2, <1>4, <2>7 DEF Return, Idle
  <2> QED
    BY <1>6, <2>1, <2>2, <2>3, <2>4, <2>5, <2>6, <2>7 DEF Body
<1> QED
  BY <1>1, <1>3, <1>5, <1>6 DEF Next, vars, storeVars

------------------------------------------------------------------------------
(* What the calls promise.                                                  *)

LEMMA InitCalls == Init => CallsInv
<1> SUFFICES ASSUME Init PROVE CallsInv
  OBVIOUS
<1>1. ObsInv /\ RetractInv
  BY DEF Init, ObsInv, RetractInv, IsLive
<1>2. CallInv /\ BeforeInv
  BY DEF Init, CallInv, BeforeInv, Idle
<1>3. ProbeInv
  <2>1. call.op = "idle" /\ Len(call.probes) = 0
    BY DEF Init, Idle
  <2> QED
    BY <2>1 DEF ProbeInv, ProbeObs
<1> QED
  BY <1>1, <1>2, <1>3 DEF CallsInv

\* What the calls keep track of is right at every step: observations are
\* stored once, deletions forget their slot, delete_before knows the stale
\* stamps and codisp its probes; for any number of trees, slots and calls.
THEOREM CallsInvariance == Spec => []CallsInv
<1>1. IInv /\ IInv' /\ CallsInv /\ [Next]_vars => CallsInv'
  BY ObsStep, RetractStep, CallInvStep, BeforeStep, ProbeStep DEF CallsInv, IInv
<1> QED
  BY <1>1, InitCalls, Invariance, PTL DEF Spec

\* Callers that stamp live indices only never leave a stamp without a point.
LEMMA StampsAreLive ==
  ASSUME ~StampAnySlot
  PROVE  Spec => []StampInv
<1>1. Init => StampInv
  BY DEF Init, StampInv
<1>2. IInv /\ IInv' /\ StampInv /\ [Next]_vars => StampInv'
  BY StampStep DEF IInv
<1> QED
  BY <1>1, <1>2, Invariance, PTL DEF Spec

\* A sampler loses an index to the newcomer or to the deletion of that index.
LEMMA WhyDropped ==
  ASSUME IInv, [Next]_vars, NEW t \in Trees, NEW s \in sample[t] \ sample'[t]
  PROVE  job = "insert" \/ (job = "delete" /\ s = slot)
<1>0. TypeOK
  BY DEF IInv
<1>1. sample' # sample
  OBVIOUS
<1>2. PICK u \in Trees :
        Admit(u) \/ Withdraw(u) \/ \E e \in Slots : Replace(u, e)
  BY <1>1, StepCases DEF Reject, NotHeld, LoadRef, CasRef, CasFails, Link,
     BeginInsert, BeginDelete, FreeEvicted, EndInsert, EndDelete, treeVars
<1>3. CASE Withdraw(u)
  BY <1>0, <1>3 DEF Withdraw, TypeOK
<1> QED
  BY <1>2, <1>3 DEF Admit, Replace

\* A call that deletes a list of slots returns when the list is done.
LEMMA LoopEnds ==
  ASSUME TypeOK, CallInv, [Next]_vars, call.op \in {"delete_before", "withdraw"},
         call' = Idle
  PROVE  job = "none" /\ call.todo = {}
<1>1. call'.op = "idle"
  BY DEF Idle
<1>2. ASSUME NEW t \in Trees, Worker(t) PROVE FALSE
  BY <1>1, <1>2, WorkerKeeps
<1>3. CASE Callers
  <2>1. CASE AtRest
    BY <2>1 DEF AtRest, Idle
  <2> QED
    BY <1>3, <2>1 DEF Callers, Update, UpdateAt, Delete, DeleteBefore, DeleteByValue,
       ScoreCodisp, SetPointTimestamp
<1>4. CASE Body
  <2>1. ASSUME NEW s \in Slots, DeleteNext(s) PROVE FALSE
    <3>1. call'.op = call.op
      BY <2>1, CallFields DEF DeleteNext
    <3> QED
      BY <1>1, <3>1
  <2>2. ASSUME NEW t \in Trees, FreeEvicted(t) PROVE FALSE
    BY <1>1, <2>2 DEF FreeEvicted
  <2>3. ~EndInsert /\ ~InsertProbe /\ ~WalkProbes
    BY DEF EndInsert, InsertProbe, WalkProbes, CallInv
  <2>4. CASE EndDelete
    BY <1>1, <2>4 DEF EndDelete
  <2>5. CASE Return
    BY <2>5 DEF Return
  <2> QED
    BY <1>4, <2>1, <2>2, <2>3, <2>4, <2>5 DEF Body
<1> QED
  BY <1>1, <1>2, <1>3, <1>4 DEF Next, vars

\* delete_before takes no index whose stamp is absent or young enough, and
\* leaves no older one; every stamp that stays is of a point still sampled.
THEOREM RetentionHolds ==
  ASSUME ~StampAnySlot
  PROVE  Spec => RetentionExact
<1> DEFINE Exact ==
      call.op = "delete_before" =>
        /\ \A t \in Trees : \A s \in sample[t] \ sample'[t] :
             timestamps[s] # None /\ timestamps[s] < call.time
        /\ call' = Idle => \A s \in Slots :
             timestamps[s] # None => timestamps[s] >= call.time /\ Sampled(s)
<1>1. IInv /\ CallsInv /\ StampInv /\ [Next]_vars => [Exact]_vars
  <2> SUFFICES ASSUME IInv, CallsInv, StampInv, [Next]_vars, call.op = "delete_before"
               PROVE  Exact
    OBVIOUS
  <2>0. TypeOK /\ CallInv /\ BeforeInv
    BY DEF IInv, CallsInv
  <2>1. ASSUME NEW t \in Trees, NEW s \in sample[t] \ sample'[t]
        PROVE  timestamps[s] # None /\ timestamps[s] < call.time
    BY <2>0, <2>1, WhyDropped DEF CallInv, BeforeInv, Stale
  <2>2. ASSUME call' = Idle, NEW s \in Slots, timestamps[s] # None
        PROVE  timestamps[s] >= call.time /\ Sampled(s)
    <3>3. job = "none" /\ call.todo = {}
      BY <2>0, <2>2, LoopEnds
    <3>4. ~Stale(s) /\ call.time \in Nat /\ timestamps[s] \in Nat
      BY <2>0, <2>2, <3>3, TimeAssumption DEF BeforeInv, TypeOK
    <3>5. IsLive(s)
      BY <2>2 DEF StampInv
    <3> QED
      BY <2>2, <3>3, <3>4, <3>5, LiveIsSampled DEF Stale
  <2> QED
    BY <2>1, <2>2
<1>2. Spec => [][Exact]_vars
  BY <1>1, Invariance, CallsInvariance, StampsAreLive, PTL DEF Spec
<1> QED
  BY <1>2 DEF RetentionExact

\* A codisp call deletes its own probes and no other point, and leaves none.
THEOREM CodispLeavesNoTrace == Spec => CodispRestores
<1> DEFINE Restores ==
      call.op = "withdraw" =>
        /\ \A t \in Trees : \A s \in sample[t] \ sample'[t] : points[s] \in ProbeObs
        /\ call' = Idle => \A s \in Slots : points[s] \notin ProbeObs
<1>1. IInv /\ CallsInv /\ [Next]_vars => [Restores]_vars
  <2> SUFFICES ASSUME IInv, CallsInv, [Next]_vars, call.op = "withdraw"
               PROVE  Restores
    OBVIOUS
  <2>0. TypeOK /\ WorkerInv /\ RefInv /\ CallInv /\ ProbeInv
    BY DEF IInv, CallsInv
  <2>1. ASSUME NEW t \in Trees, NEW s \in sample[t] \ sample'[t]
        PROVE  points[s] \in ProbeObs
    <3>1. job = "delete" /\ s = slot
      BY <2>0, WhyDropped DEF CallInv
    <3>2. s \in indexed[t]
      BY <2>0, <3>1 DEF WorkerInv, Unlinked
    <3>3. IsLive(s)
      BY <2>0, <3>2 DEF RefInv, Counted
    <3> QED
      BY <2>0, <3>1, <3>3 DEF ProbeInv
  <2>2. ASSUME call' = Idle
        PROVE  call.todo = {} /\ job = "none"
    BY <2>0, <2>2, LoopEnds
  <2>3. call' = Idle => \A s \in Slots : points[s] \notin ProbeObs
    BY <2>0, <2>2 DEF ProbeInv
  <2> QED
    BY <2>1, <2>3
<1>2. Spec => [][Restores]_vars
  BY <1>1, Invariance, CallsInvariance, PTL DEF Spec
<1> QED
  BY <1>2 DEF CodispRestores

------------------------------------------------------------------------------
(* The forest implements the ensemble of reservoirs.                        *)

\* What the mapping rests on.
MapInv == IInv /\ CallsInv /\ StampInv /\ FreshInv

LEMMA FreshStep ==
  ASSUME IInv, StampInv, FreshInv, [Next]_vars
  PROVE  FreshInv'
<1>0. TypeOK
  BY DEF IInv
<1>1. CASE UNCHANGED <<timestamps, job, slot>>
  BY <1>1 DEF FreshInv
<1>2. CASE job' # "insert"
  BY <1>2 DEF FreshInv
<1>3. CASE job = "none" /\ BeginInsert
  BY <1>3, InsertFills DEF FreshInv, StampInv
<1>4. ASSUME NEW t \in Trees, FreeEvicted(t) PROVE FreshInv'
  <2>1. pending_free[t] \in Slots /\ slot \in Slots
    BY <1>0, <1>4 DEF TypeOK, FreeEvicted
  <2> QED
    BY <1>0, <1>4, <2>1, ReleaseEmpties DEF FreeEvicted, FreshInv
<1> QED
  BY <1>1, <1>2, <1>3, <1>4, StepCases
  DEF Reject, Admit, Withdraw, NotHeld, LoadRef, CasRef, CasFails, Link, Replace,
      BeginDelete, FanOut, EndInsert, EndDelete, AtRest

\* The mapping's invariant holds throughout every behaviour.
LEMMA MapInvariance ==
  ASSUME ~StampAnySlot
  PROVE  Spec => []MapInv
<1>1. Init => FreshInv
  BY DEF Init, FreshInv
<1>2. IInv /\ StampInv /\ FreshInv /\ [Next]_vars => FreshInv'
  BY FreshStep
<1>3. IInv /\ CallsInv /\ StampInv /\ FreshInv => MapInv
  BY DEF MapInv
<1> QED
  BY <1>1, <1>2, <1>3, Invariance, CallsInvariance, StampsAreLive, PTL DEF Spec

------------------------------------------------------------------------------
(* The mapped variables.                                                    *)

LEMMA SampledIsLive ==
  ASSUME IInv, NEW t \in Trees, NEW s \in sample[t]
  PROVE  s \in Slots /\ IsLive(s) /\ points[s] \in Obs
<1>1. s \in indexed[t] \/ (job = "insert" /\ s = slot)
  BY DEF IInv, WorkerInv, Unlinked
<1>2. s \in Slots
  BY DEF IInv, TypeOK
<1>3. IsLive(s)
  BY <1>1, NoneAssumption DEF IInv, RefInv, Counted, IsLive, TypeOK
<1> QED
  BY <1>2, <1>3 DEF IInv, TypeOK, IsLive

\* A reservoir's observations are as many as its slots.
LEMMA HeldCount ==
  ASSUME IInv, ObsInv, NEW t \in Trees
  PROVE  Cardinality(HeldObs[t]) = Cardinality(sample[t])
<1> DEFINE S == sample[t]
           f == [s \in S |-> points[s]]
<1>1. HeldObs[t] = {points[s] : s \in S}
  BY DEF HeldObs
<1>2. \A r, s \in S : points[r] = points[s] => r = s
  BY SampledIsLive DEF ObsInv
<1>3. IsFiniteSet(S)
  BY SampleFinite DEF IInv
<1> HIDE DEF S
<1> DEFINE T == {points[s] : s \in S}
<1>4. f \in [S -> T] /\ (\A r, s \in S : f[r] = f[s] => r = s)
      /\ \A o \in T : \E s \in S : f[s] = o
  BY <1>2
<1> HIDE DEF f, T
<1>5. f \in Bijection(S, T)
  BY <1>4, Fun_IsBij
<1>6. Cardinality(T) = Cardinality(S)
  BY <1>3, <1>5, Fun_ExistsBij, FS_Bijection
<1> QED
  BY <1>1, <1>6 DEF S, T

\* A held observation is one whose slot is sampled.
LEMMA HeldIsSampled ==
  ASSUME IInv, ObsInv, NEW s \in Slots, IsLive(s)
  PROVE  /\ \A t \in Trees : points[s] \in HeldObs[t] <=> s \in sample[t]
         /\ Ensemble!Held(points[s]) <=> Sampled(s)
<1>1. \A t \in Trees : points[s] \in HeldObs[t] <=> s \in sample[t]
  BY SampledIsLive DEF HeldObs, ObsInv
<1> QED
  BY <1>1 DEF Ensemble!Held, Ensemble!Trees, Trees, Sampled

\* The stamp of a stored observation is its slot's, before and after a step.
LEMMA StampIsSlots ==
  ASSUME NEW o, NEW s \in Slots, points[s] = o, \A r \in Slots : points[r] = o => r = s
  PROVE  StampOf(o) = timestamps[s]
BY DEF StampOf

LEMMA StampIsSlotsNext ==
  ASSUME NEW o, NEW s \in Slots, points'[s] = o, \A r \in Slots : points'[r] = o => r = s
  PROVE  StampOf(o)' = timestamps'[s]
BY DEF StampOf

\* Where points and samples stay, so do the reservoirs' observations.
LEMMA HeldFrame ==
  ASSUME UNCHANGED <<points, sample>>
  PROVE  HeldObs' = HeldObs
BY DEF HeldObs

LEMMA StampFrame ==
  ASSUME UNCHANGED <<points, timestamps>>
  PROVE  StampObs' = StampObs
BY DEF StampObs, StampOf

\* A step that leaves the slot of an observation alone, or its absence, leaves
\* its stamp.
LEMMA StampKept ==
  ASSUME ObsInv, NEW o, o # None,
         \A r \in Slots : points'[r] = o <=> points[r] = o,
         \A r \in Slots : points[r] = o => timestamps'[r] = timestamps[r]
  PROVE  StampOf(o)' = StampOf(o)
<1>1. CASE \E r \in Slots : points[r] = o
  <2>1. PICK s \in Slots : points[s] = o
    BY <1>1
  <2>2. \A r \in Slots : points[r] = o => r = s
    BY <2>1 DEF ObsInv, IsLive
  <2>3. StampOf(o) = timestamps[s]
    BY <2>1, <2>2, StampIsSlots
  <2>4. StampOf(o)' = timestamps'[s]
    BY <2>1, <2>2, StampIsSlotsNext
  <2> QED
    BY <2>1, <2>3, <2>4
<1>2. CASE ~\E r \in Slots : points[r] = o
  BY <1>2 DEF StampOf
<1> QED
  BY <1>1, <1>2

\* Releasing a slot nobody samples drops its observation's stamp.
LEMMA ReleaseMaps ==
  ASSUME IInv, ObsInv, NEW s \in Slots, IsLive(s), Release(s), ~Sampled(s),
         sample' = sample
  PROVE  /\ HeldObs' = HeldObs
         /\ StampObs' = [StampObs EXCEPT ![points[s]] = None]
<1>0. TypeOK
  BY DEF IInv
<1>1. /\ points'[s] = None
      /\ \A r \in Slots \ {s} : points'[r] = points[r] /\ timestamps'[r] = timestamps[r]
  BY <1>0, ReleaseEmpties
<1>2. HeldObs' = HeldObs
  <2>1. \A t \in Trees : \A r \in sample[t] : points'[r] = points[r]
    BY <1>1, SampledIsLive DEF Sampled
  <2> QED
    BY <2>1 DEF HeldObs
<1>3. \A o \in Obs : o # None
  BY NoneAssumption DEF Obs
<1>4. ASSUME NEW o \in Obs, o # points[s]
      PROVE  StampOf(o)' = StampOf(o)
  BY <1>1, <1>3, <1>4, StampKept
<1>5. ASSUME NEW o \in Obs, o = points[s]
      PROVE  StampOf(o)' = None
  <2>1. \A r \in Slots : points'[r] # o
    BY <1>1, <1>3, <1>5 DEF ObsInv, IsLive
  <2> QED
    BY <2>1 DEF StampOf
<1> QED
  BY <1>2, <1>4, <1>5 DEF StampObs

\* The ensemble's phase moves only when a fan-out starts or ends ...
LEMMA PhaseFrame ==
  ASSUME UNCHANGED <<points, job, slot>>,
         \A t \in Trees : stage'[t] = "start" <=> stage[t] = "start"
  PROVE  UNCHANGED <<Phase, Asked, Target>>
BY DEF Phase, Asked, Target, Vacuous, IsLive

\* ... and a tree is asked when its worker takes its turn.
LEMMA AskOne ==
  ASSUME TypeOK, UNCHANGED <<points, job, slot>>, job # "none", ~Vacuous,
         NEW t \in Trees, stage[t] = "start",
         NEW st, st # "start", stage' = [stage EXCEPT ![t] = st]
  PROVE  /\ UNCHANGED <<Phase, Target>>
         /\ t \notin Asked /\ Asked' = Asked \cup {t}
         /\ Phase = IF job = "insert" THEN "insert" ELSE "retract"
BY DEF TypeOK, Phase, Asked, Target, Vacuous, IsLive

------------------------------------------------------------------------------
(* The workers' steps.                                                      *)

\* One tree's reservoir changes and the points stay.
LEMMA HeldOne ==
  ASSUME TypeOK, points' = points, NEW t \in Trees, NEW S,
         sample' = [sample EXCEPT ![t] = S]
  PROVE  HeldObs' = [HeldObs EXCEPT ![t] = {points[s] : s \in S}]
<1>1. sample'[t] = S /\ \A u \in Trees \ {t} : sample'[u] = sample[u]
  BY DEF TypeOK
<1>2. HeldObs' = [u \in Trees |-> {points[s] : s \in sample'[u]}]
  BY DEF HeldObs
<1>3. \A u \in Trees : {points[s] : s \in sample'[u]} =
                       IF u = t THEN {points[s] : s \in S} ELSE HeldObs[u]
  BY <1>1 DEF HeldObs
<1>4. DOMAIN HeldObs = Trees /\ HeldObs = [u \in Trees |-> HeldObs[u]]
  BY DEF HeldObs
<1> QED
  BY <1>2, <1>3, <1>4

LEMMA DecideMaps ==
  ASSUME MapInv, NEW t \in Trees,
         Reject(t) \/ Admit(t) \/ \E e \in Slots : Replace(t, e)
  PROVE  Ensemble!Decide(t)
<1>0. /\ TypeOK /\ WorkerInv /\ RefInv /\ ObsInv /\ IInv
      /\ job = "insert" /\ stage[t] = "start" /\ ~Vacuous
      /\ points[slot] = updates_seen + 1
  BY DEF MapInv, IInv, CallsInv, Vacuous, Reject, Admit, Replace, RefInv
<1>1. UNCHANGED <<points, timestamps, updates_seen, job, slot>>
  BY DEF Reject, Admit, Replace, storeVars
<1>2. /\ UNCHANGED <<Phase, Target>> /\ Phase = "insert"
      /\ t \notin Asked /\ Asked' = Asked \cup {t}
  <2>1. \/ stage' = [stage EXCEPT ![t] = "done"]
        \/ stage' = [stage EXCEPT ![t] = "link"]
        \/ stage' = [stage EXCEPT ![t] = "load"]
    BY DEF Reject, Admit, Replace
  <2> QED
    BY <1>0, <1>1, <2>1, AskOne
<1>3. StampObs' = StampObs
  BY <1>1, StampFrame
<1>4. /\ Cardinality(HeldObs[t]) = Cardinality(sample[t])
      /\ Cardinality(sample[t]) \in Nat /\ Cardinality(sample[t]) <= SampleSize
      /\ HeldObs[t] = {points[s] : s \in sample[t]}
  BY <1>0, HeldCount, SampleFinite DEF WorkerInv, HeldObs
<1>5. \/ /\ Cardinality(HeldObs[t]) = SampleSize \/ updates_seen + 1 < WarmUp
         /\ HeldObs' = HeldObs
      \/ /\ Cardinality(HeldObs[t]) < SampleSize
         /\ HeldObs' = [HeldObs EXCEPT ![t] = @ \cup {updates_seen + 1}]
      \/ \E o \in HeldObs[t] :
           /\ Cardinality(HeldObs[t]) = SampleSize
           /\ HeldObs' = [HeldObs EXCEPT ![t] = (@ \ {o}) \cup {updates_seen + 1}]
  <2>1. CASE Reject(t)
    <3>1. HeldObs' = HeldObs
      BY <1>1, <2>1, HeldFrame DEF Reject, treeVars
    <3> QED
      BY <1>4, <2>1, <3>1, SizeAssumption DEF Reject
  <2>2. CASE Admit(t)
    <3>1. HeldObs' = [HeldObs EXCEPT ![t] = {points[s] : s \in sample[t] \cup {slot}}]
      BY <1>0, <1>1, <2>2, HeldOne DEF Admit
    <3>2. {points[s] : s \in sample[t] \cup {slot}} = HeldObs[t] \cup {updates_seen + 1}
      BY <1>0, <1>4
    <3> QED
      BY <1>4, <2>2, <3>1, <3>2 DEF Admit
  <2>3. ASSUME NEW e \in Slots, Replace(t, e)
        PROVE  \E o \in HeldObs[t] :
                 /\ Cardinality(HeldObs[t]) = SampleSize
                 /\ HeldObs' = [HeldObs EXCEPT ![t] = (@ \ {o}) \cup {updates_seen + 1}]
    <3> DEFINE S == (sample[t] \ {e}) \cup {slot}
    <3>1. e \in sample[t] /\ sample' = [sample EXCEPT ![t] = S]
          /\ Cardinality(sample[t]) >= SampleSize
      BY <2>3 DEF Replace
    <3>2. HeldObs' = [HeldObs EXCEPT ![t] = {points[s] : s \in S}]
      BY <1>0, <1>1, <3>1, HeldOne
    <3>3. \A r \in sample[t] : points[r] = points[e] => r = e
      BY <1>0, <3>1, SampledIsLive DEF ObsInv
    <3>4. {points[s] : s \in S} = (HeldObs[t] \ {points[e]}) \cup {updates_seen + 1}
      BY <1>0, <1>4, <3>1, <3>3
    <3>5. points[e] \in HeldObs[t] /\ Cardinality(HeldObs[t]) = SampleSize
      BY <1>4, <3>1, SizeAssumption
    <3> QED
      BY <3>2, <3>4, <3>5
  <2> QED
    BY <2>1, <2>2, <2>3
<1>6. Ensemble!Newcomer = updates_seen + 1 /\ \A S : Ensemble!Cardinality(S) = Cardinality(S)
  BY DEF Ensemble!Newcomer, Ensemble!Cardinality, Cardinality
<1> QED
  BY <1>1, <1>2, <1>3, <1>5, <1>6 DEF Ensemble!Decide

\* A worker of a deletion withdraws the observation, or finds none to withdraw.
LEMMA WithdrawMaps ==
  ASSUME MapInv, NEW t \in Trees, Withdraw(t) \/ NotHeld(t)
  PROVE  Ensemble!Withdraw(t) \/ UNCHANGED Ensemble!vars
<1>0. TypeOK /\ ObsInv /\ IInv /\ job = "delete" /\ slot \in Slots /\ stage[t] = "start"
  BY DEF MapInv, IInv, CallsInv, TypeOK, Withdraw, NotHeld
<1>1. UNCHANGED <<points, timestamps, updates_seen, job, slot>>
  BY DEF Withdraw, NotHeld, storeVars
<1>2. StampObs' = StampObs
  BY <1>1, StampFrame
<1>3. CASE Vacuous
  <2>1. NotHeld(t)
    BY <1>3, SampledIsLive, <1>0 DEF Vacuous, Withdraw
  <2>2. HeldObs' = HeldObs
    BY <1>1, <2>1, HeldFrame DEF NotHeld, treeVars
  <2>3. UNCHANGED <<Phase, Asked, Target>>
    BY <1>1, <1>3 DEF Phase, Asked, Target, Vacuous, IsLive
  <2> QED
    BY <1>1, <1>2, <2>2, <2>3 DEF Ensemble!vars
<1>4. CASE ~Vacuous
  <2>1. stage' = [stage EXCEPT ![t] = "load"] \/ stage' = [stage EXCEPT ![t] = "done"]
    BY DEF Withdraw, NotHeld
  <2>2. /\ UNCHANGED <<Phase, Target>> /\ Phase = "retract"
        /\ t \notin Asked /\ Asked' = Asked \cup {t}
    BY <1>0, <1>1, <1>4, <2>1, AskOne
  <2>3. Target = points[slot] /\ IsLive(slot)
    BY <1>0, <1>4 DEF Target, Vacuous
  <2>4. HeldObs[t] = {points[s] : s \in sample[t]}
    BY DEF HeldObs
  <2>5. \A r \in sample[t] : points[r] = points[slot] => r = slot
    BY <1>0, <2>3, SampledIsLive DEF ObsInv
  <2>6. HeldObs' = [HeldObs EXCEPT ![t] = @ \ {points[slot]}]
    <3>1. CASE Withdraw(t)
      <4>1. HeldObs' = [HeldObs EXCEPT ![t] = {points[s] : s \in sample[t] \ {slot}}]
        BY <1>0, <1>1, <3>1, HeldOne DEF Withdraw
      <4>2. {points[s] : s \in sample[t] \ {slot}} = HeldObs[t] \ {points[slot]}
        BY <2>4, <2>5
      <4> QED
        BY <4>1, <4>2
    <3>2. CASE NotHeld(t)
      <4>1. HeldObs' = HeldObs
        BY <1>1, <3>2, HeldFrame DEF NotHeld, treeVars
      <4>2. HeldObs[t] \ {points[slot]} = HeldObs[t]
        BY <2>4, <2>5, <3>2 DEF NotHeld
      <4> QED
        BY <4>1, <4>2 DEF HeldObs
    <3> QED
      BY <3>1, <3>2
  <2> QED
    BY <1>1, <1>2, <2>2, <2>3, <2>6 DEF Ensemble!Withdraw
<1> QED
  BY <1>3, <1>4

\* Counting and linking are invisible.
LEMMA CountingMaps ==
  ASSUME IInv, NEW t \in Trees, LoadRef(t) \/ CasRef(t) \/ CasFails(t) \/ Link(t)
  PROVE  UNCHANGED Ensemble!vars
<1>1. UNCHANGED <<points, timestamps, updates_seen, job, slot, sample>>
  BY DEF LoadRef, CasRef, CasFails, Link, storeVars, treeVars
<1>2. \A u \in Trees : stage'[u] = "start" <=> stage[u] = "start"
  BY DEF IInv, TypeOK, LoadRef, CasRef, CasFails, Link
<1> QED
  BY <1>1, <1>2, HeldFrame, StampFrame, PhaseFrame DEF Ensemble!vars

------------------------------------------------------------------------------
(* The fan-outs' beginnings and ends.                                       *)

\* The slot an insertion takes brings its observation without a stamp.
LEMMA BeginInsertMaps ==
  ASSUME MapInv, job = "none", BeginInsert
  PROVE  Ensemble!BeginInsert
<1>0. TypeOK /\ ObsInv /\ IInv /\ StampInv
  BY DEF MapInv, IInv, CallsInv
<1> DEFINE n == NextSlot
<1>1. /\ n \in Slots /\ ~IsLive(n) /\ points'[n] = updates_seen + 1
      /\ \A r \in Slots \ {n} : points'[r] = points[r]
      /\ updates_seen \in Nat /\ updates_seen + 1 # None
      /\ job' = "insert" /\ slot' = n
      /\ UNCHANGED <<timestamps, updates_seen>>
  BY <1>0, InsertFills
<1> HIDE DEF n
<1>2. HeldObs' = HeldObs
  <2>1. sample' = sample
    BY DEF BeginInsert, treeVars
  <2>2. \A t \in Trees : \A r \in sample[t] : points'[r] = points[r]
    BY <1>0, <1>1, SampledIsLive
  <2> QED
    BY <2>1, <2>2 DEF HeldObs
<1>3. ASSUME NEW o \in Obs PROVE StampOf(o)' = StampOf(o)
  <2>0. o # None
    BY NoneAssumption DEF Obs
  <2>1. CASE o # updates_seen + 1
    <3>1. \A r \in Slots : points'[r] = o <=> points[r] = o
      BY <1>1, <2>0, <2>1 DEF IsLive
    <3> QED
      BY <1>0, <1>1, <2>0, <3>1, StampKept
  <2>2. CASE o = updates_seen + 1
    <3>1. \A r \in Slots : points[r] # o
      <4> SUFFICES ASSUME NEW r \in Slots, points[r] = o PROVE FALSE
        OBVIOUS
      <4>1. points[r] <= updates_seen
        BY <1>0, <2>0 DEF ObsInv, IsLive
      <4> QED
        BY <1>1, <2>2, <4>1
    <3>2. StampOf(o) = None
      BY <3>1 DEF StampOf
    <3>3. \A r \in Slots : points'[r] = o => r = n
      BY <1>1, <3>1
    <3>4. StampOf(o)' = timestamps'[n]
      BY <1>1, <2>2, <3>3, StampIsSlotsNext
    <3> QED
      BY <1>0, <1>1, <3>2, <3>4 DEF StampInv
  <2> QED
    BY <2>1, <2>2
<1>4. StampObs' = StampObs
  BY <1>3 DEF StampObs
<1>5. /\ Phase = "rest" /\ Phase' = "insert" /\ Asked' = {}
      /\ Target' = Target
  BY <1>1 DEF Phase, Asked, Target, Vacuous, BeginInsert, FanOut
<1>6. updates_seen < MaxObs
  BY DEF BeginInsert
<1> QED
  BY <1>1, <1>2, <1>4, <1>5, <1>6 DEF Ensemble!BeginInsert

\* A deletion retracts the observation its index holds, if it holds one.
LEMMA BeginDeleteMaps ==
  ASSUME MapInv, job = "none", NEW s \in Slots, BeginDelete(s)
  PROVE  (\E o \in Obs : Ensemble!BeginRetract(o)) \/ UNCHANGED Ensemble!vars
<1>0. TypeOK /\ ObsInv /\ IInv
  BY DEF MapInv, IInv, CallsInv
<1>1. /\ UNCHANGED <<points, timestamps, updates_seen, sample>>
      /\ job' = "delete" /\ slot' = s /\ stage' = [t \in Trees |-> "start"]
  BY DEF BeginDelete, FanOut, storeVars, treeVars
<1>2. UNCHANGED <<HeldObs, StampObs>>
  BY <1>1, HeldFrame, StampFrame
<1>3. CASE IsLive(s)
  <2>1. points[s] \in Obs
    BY <1>0, <1>3 DEF TypeOK, IsLive
  <2>2. Ensemble!Held(points[s])
    BY <1>0, <1>3, LiveIsSampled, HeldIsSampled
  <2>3. /\ Phase = "rest" /\ Phase' = "retract" /\ Asked' = {}
        /\ Target' = points[s]
    BY <1>1, <1>3 DEF Phase, Asked, Target, Vacuous, IsLive
  <2> QED
    BY <1>1, <1>2, <2>1, <2>2, <2>3 DEF Ensemble!BeginRetract
<1>4. CASE ~IsLive(s)
  <2>1. UNCHANGED <<Phase, Asked, Target>>
    BY <1>1, <1>4 DEF Phase, Asked, Target, Vacuous, IsLive
  <2> QED
    BY <1>1, <1>2, <2>1 DEF Ensemble!vars
<1> QED
  BY <1>3, <1>4

\* When every worker has joined, the slots nobody references are unsampled.
LEMMA UnreferencedIsUnsampled ==
  ASSUME IInv, AllDone, NEW s \in Slots, refs[s] = 0
  PROVE  ~Sampled(s)
<1> SUFFICES ASSUME NEW t \in Trees, s \in sample[t] PROVE FALSE
  BY DEF Sampled
<1>1. s \in Counted(t)
  BY DEF IInv, WorkerInv, Unlinked, AllDone, Counted
<1> QED
  BY <1>1, HolderCounts DEF IInv

LEMMA FreeEvictedMaps ==
  ASSUME MapInv, NEW t \in Trees, FreeEvicted(t)
  PROVE  \E o \in Obs : Ensemble!Forget(o)
<1>0. TypeOK /\ PendingInv /\ ObsInv /\ IInv /\ RefInv
  BY DEF MapInv, IInv, CallsInv
<1>1. PICK s \in Slots : s = pending_free[t]
  BY <1>0 DEF TypeOK, FreeEvicted
<1>2. /\ job = "insert" /\ AllDone /\ IsLive(s) /\ refs[s] = 0 /\ Release(s) /\ s # slot
      /\ UNCHANGED <<sample, stage, updates_seen, job, slot>>
  BY <1>0, <1>1 DEF FreeEvicted, treeVars, PendingInv
<1>3. ~Sampled(s)
  BY <1>0, <1>2, UnreferencedIsUnsampled
<1>4. HeldObs' = HeldObs /\ StampObs' = [StampObs EXCEPT ![points[s]] = None]
  BY <1>0, <1>2, <1>3, ReleaseMaps
<1>5. points[s] \in Obs /\ ~Ensemble!Held(points[s])
  BY <1>0, <1>2, <1>3, HeldIsSampled DEF TypeOK, IsLive
<1>6. points[s] # Ensemble!Newcomer
  BY <1>0, <1>2 DEF ObsInv, RefInv, Ensemble!Newcomer, TypeOK
<1>7. /\ UNCHANGED <<Phase, Asked, Target>> /\ Phase = "insert"
      /\ Asked = Trees /\ Trees = Ensemble!Trees
  BY <1>2 DEF Phase, Asked, Target, Vacuous, AllDone, Ensemble!Trees, Trees
<1> QED
  BY <1>2, <1>4, <1>5, <1>6, <1>7 DEF Ensemble!Forget

\* Every observation that has a stamp when the workers are done is held.
LEMMA StampedIsHeld ==
  ASSUME MapInv, job = "insert", AllDone, NonePending, NEW o \in Obs, StampOf(o) # None
  PROVE  Ensemble!Held(o)
<1>0. TypeOK /\ OwnerInv /\ RefInv /\ WorkerInv /\ ObsInv /\ IInv /\ FreshInv
  BY DEF MapInv, IInv, CallsInv
<1>1. PICK s \in Slots : points[s] = o
  BY DEF StampOf
<1>2. IsLive(s)
  BY <1>1, NoneAssumption DEF IsLive, Obs
<1>3. s # slot
  BY <1>0, <1>1, <1>2, StampIsSlots DEF FreshInv, ObsInv
<1>4. \A t \in Trees : pending_free[t] # s
  BY SlotNotNone DEF NonePending
<1>5. refs[s] # 0
  BY <1>0, <1>2, <1>3, <1>4 DEF OwnerInv, TypeOK
<1>6. PICK t \in Trees : s \in Counted(t)
  BY <1>0, <1>5, HolderCounts
<1>7. s \in sample[t]
  BY <1>0, <1>6 DEF AllDone, Counted, WorkerInv
<1> QED
  BY <1>0, <1>1, <1>2, <1>7, HeldIsSampled DEF Sampled

LEMMA EndInsertMaps ==
  ASSUME MapInv, EndInsert
  PROVE  \E ts \in Times \cup {None} : Ensemble!EndInsert(ts)
<1>0. TypeOK /\ RefInv /\ WorkerInv /\ ObsInv /\ IInv /\ FreshInv
  BY DEF MapInv, IInv, CallsInv
<1>1. /\ job = "insert" /\ AllDone /\ NonePending /\ slot \in Slots
      /\ points[slot] = updates_seen + 1 /\ IsLive(slot) /\ updates_seen + 1 \in Obs
      /\ job' = "none" /\ updates_seen' = updates_seen + 1 /\ sample' = sample
  BY <1>0, NoneAssumption DEF EndInsert, TypeOK, RefInv, IsLive, treeVars
<1>2. /\ Phase = "insert" /\ Phase' = "rest" /\ Asked = Ensemble!Trees /\ Asked' = {}
      /\ Target' = Target
  BY <1>1 DEF Phase, Asked, Target, Vacuous, AllDone, Ensemble!Trees, Trees
<1>3. \A o \in Ensemble!Obs : StampObs[o] # None => Ensemble!Held(o)
  BY <1>1, StampedIsHeld DEF StampObs, Ensemble!Obs, Obs
<1>4. StampObs[updates_seen + 1] = None
  <2>1. StampOf(points[slot]) = timestamps[slot]
    BY <1>0, <1>1, StampIsSlots DEF ObsInv
  <2> QED
    BY <1>0, <1>1, <2>1 DEF StampObs, FreshInv
<1>5. \E ts \in Times \cup {None} :
        /\ HeldObs' = HeldObs
        /\ StampObs' = [StampObs EXCEPT ![updates_seen + 1] = ts]
        /\ ts # None => Ensemble!Held(updates_seen + 1)
  <2>1. CASE refs[slot] = 0
    <3>1. Release(slot) /\ ~Sampled(slot)
      BY <1>0, <1>1, <2>1, UnreferencedIsUnsampled DEF EndInsert
    <3>2. HeldObs' = HeldObs /\ StampObs' = [StampObs EXCEPT ![points[slot]] = None]
      BY <1>0, <1>1, <3>1, ReleaseMaps
    <3> QED
      BY <1>1, <3>2
  <2>2. CASE refs[slot] # 0 /\ timestamps' = timestamps
    <3>1. points' = points
      BY <2>2 DEF EndInsert
    <3>2. UNCHANGED <<HeldObs, StampObs>>
      BY <1>1, <2>2, <3>1, HeldFrame, StampFrame
    <3>3. StampObs' = [StampObs EXCEPT ![updates_seen + 1] = None]
      BY <1>4, <3>2 DEF StampObs
    <3> QED
      BY <3>2, <3>3
  <2>3. ASSUME refs[slot] # 0, NEW ts \in Times \cup {None},
               timestamps' = [timestamps EXCEPT ![slot] = ts]
        PROVE  /\ HeldObs' = HeldObs
               /\ StampObs' = [StampObs EXCEPT ![updates_seen + 1] = ts]
               /\ Ensemble!Held(updates_seen + 1)
    <3>1. points' = points
      BY <2>3 DEF EndInsert
    <3>2. HeldObs' = HeldObs
      BY <1>1, <3>1, HeldFrame
    <3>3. timestamps'[slot] = ts /\ \A r \in Slots \ {slot} : timestamps'[r] = timestamps[r]
      BY <1>0, <1>1, <2>3 DEF TypeOK
    <3>4. ASSUME NEW o \in Obs, o # updates_seen + 1
          PROVE  StampOf(o)' = StampOf(o)
      <4>1. o # None
        BY NoneAssumption DEF Obs
      <4> QED
        BY <1>0, <1>1, <3>1, <3>3, <3>4, <4>1, StampKept
    <3>5. ASSUME NEW o, o = updates_seen + 1
          PROVE  StampOf(o)' = ts
      <4>1. \A r \in Slots : points'[r] = o => r = slot
        BY <1>0, <1>1, <3>1, <3>5 DEF ObsInv, IsLive
      <4> QED
        BY <1>1, <3>1, <3>3, <3>5, <4>1, StampIsSlotsNext
    <3>6. StampObs' = [StampObs EXCEPT ![updates_seen + 1] = ts]
      BY <3>4, <3>5 DEF StampObs
    <3>7. PICK t \in Trees : slot \in Counted(t)
      BY <1>0, <1>1, <2>3, HolderCounts
    <3>8. slot \in sample[t]
      BY <1>0, <1>1, <3>7 DEF AllDone, Counted, WorkerInv
    <3>9. Ensemble!Held(points[slot])
      BY <1>0, <1>1, <3>8, HeldIsSampled DEF Sampled
    <3> QED
      BY <1>1, <3>2, <3>6, <3>9
  <2>4. call.time \in Times \cup {None}
    BY <1>0 DEF TypeOK, CallType
  <2> QED
    BY <2>1, <2>2, <2>3, <2>4 DEF EndInsert
<1> QED
  BY <1>1, <1>2, <1>3, <1>5 DEF Ensemble!EndInsert, Ensemble!Newcomer

LEMMA EndDeleteMaps ==
  ASSUME MapInv, EndDelete
  PROVE  Ensemble!EndRetract \/ UNCHANGED Ensemble!vars
<1>0. TypeOK /\ PendingInv /\ RefInv /\ WorkerInv /\ ObsInv /\ IInv /\ StampInv /\ RetractInv
  BY DEF MapInv, IInv, CallsInv
<1>1. /\ job = "delete" /\ AllDone /\ slot \in Slots /\ job' = "none"
      /\ UNCHANGED <<updates_seen, sample>>
  BY <1>0 DEF EndDelete, TypeOK, treeVars
<1>2. /\ Phase' = "rest" /\ Asked' = {} /\ Target' = None
  BY <1>1 DEF Phase, Asked, Target
<1>3. CASE IsLive(slot)
  <2>1. points'[slot] = None
    BY <1>0, DeletionEmpties
  <2>2. ~(points' = points)
    BY <1>3, <2>1 DEF IsLive
  <2>3. Release(slot)
    BY <2>2 DEF EndDelete
  <2>4. ~Sampled(slot)
    BY <1>0, <1>1 DEF RetractInv, AllDone, Sampled
  <2>5. HeldObs' = HeldObs /\ StampObs' = [StampObs EXCEPT ![points[slot]] = None]
    BY <1>0, <1>1, <1>3, <2>3, <2>4, ReleaseMaps
  <2>6. Phase = "retract" /\ Asked = Ensemble!Trees /\ Target = points[slot]
    BY <1>1, <1>3 DEF Phase, Asked, Target, Vacuous, AllDone, Ensemble!Trees, Trees
  <2> QED
    BY <1>1, <1>2, <2>5, <2>6 DEF Ensemble!EndRetract
<1>4. CASE ~IsLive(slot)
  <2>1. NonePending
    BY <1>0, <1>1, <1>4 DEF PendingInv, NonePending
  <2>2. points' = points /\ timestamps' = timestamps
    BY <1>0, <1>1, <1>4, <2>1 DEF EndDelete, StampInv, TypeOK
  <2>3. UNCHANGED <<HeldObs, StampObs>>
    BY <1>1, <2>2, HeldFrame, StampFrame
  <2>4. Phase = "rest" /\ Asked = {} /\ Target = None
    BY <1>1, <1>4 DEF Phase, Asked, Target, Vacuous
  <2> QED
    BY <1>1, <1>2, <2>3, <2>4 DEF Ensemble!vars
<1> QED
  BY <1>3, <1>4

\* A stamp set at rest is the observation's.
LEMMA StampMaps ==
  ASSUME MapInv, AtRest, NEW s \in Slots, IsLive(s), NEW ts \in Times,
         timestamps' = [timestamps EXCEPT ![s] = ts],
         UNCHANGED <<storeVars, treeVars, workerVars, updates_seen, job, slot>>
  PROVE  \E o \in Obs : Ensemble!Stamp(o, ts)
<1>0. TypeOK /\ ObsInv /\ IInv /\ job = "none" /\ points' = points /\ sample' = sample
  BY DEF MapInv, IInv, CallsInv, AtRest, storeVars, treeVars
<1>1. PICK o \in Obs : o = points[s]
  BY <1>0 DEF TypeOK, IsLive
<1>2. Ensemble!Held(o)
  BY <1>0, <1>1, LiveIsSampled, HeldIsSampled
<1>3. timestamps'[s] = ts /\ \A r \in Slots \ {s} : timestamps'[r] = timestamps[r]
  BY <1>0 DEF TypeOK
<1>4. ASSUME NEW q \in Obs, q # o
      PROVE  StampOf(q)' = StampOf(q)
  <2>1. q # None
    BY NoneAssumption DEF Obs
  <2> QED
    BY <1>0, <1>1, <1>3, <1>4, <2>1, StampKept
<1>5. StampOf(o)' = ts
  <2>1. \A r \in Slots : points'[r] = o => r = s
    BY <1>0, <1>1 DEF ObsInv, IsLive
  <2> QED
    BY <1>0, <1>1, <1>3, <2>1, StampIsSlotsNext
<1>6. StampObs' = [StampObs EXCEPT ![o] = ts]
  BY <1>4, <1>5 DEF StampObs
<1>7. HeldObs' = HeldObs
  BY <1>0, HeldFrame
<1>8. Phase = "rest" /\ UNCHANGED <<Phase, Asked, Target>>
  BY <1>0 DEF Phase, Asked, Target
<1> QED
  BY <1>2, <1>6, <1>7, <1>8 DEF Ensemble!Stamp

------------------------------------------------------------------------------
(* The refinement.                                                          *)

LEMMA InitMaps == Init => Ensemble!Init
<1> SUFFICES ASSUME Init PROVE Ensemble!Init
  OBVIOUS
<1>1. HeldObs = [t \in Trees |-> {}]
  BY DEF Init, HeldObs
<1>2. \A o \in Obs : StampOf(o) = None
  BY NoneAssumption DEF Init, StampOf, Obs
<1>3. Phase = "rest" /\ Asked = {} /\ Target = None
  BY DEF Init, Phase, Asked, Target
<1> QED
  BY <1>1, <1>2, <1>3 DEF Init, StampObs, Ensemble!Init, Ensemble!Trees, Trees,
     Ensemble!Obs, Obs

LEMMA NextMaps ==
  ASSUME ~StampAnySlot, MapInv, [Next]_vars
  PROVE  [Ensemble!Next]_(Ensemble!vars)
<1>0. Ensemble!Trees = Trees /\ Ensemble!Obs = Obs
  BY DEF Ensemble!Trees, Trees, Ensemble!Obs, Obs
<1>1. ASSUME NEW t \in Trees, Reject(t) \/ Admit(t) \/ \E e \in Slots : Replace(t, e)
      PROVE  Ensemble!Next
  BY <1>0, <1>1, DecideMaps DEF Ensemble!Next
<1>2. ASSUME NEW t \in Trees, Withdraw(t) \/ NotHeld(t)
      PROVE  Ensemble!Next \/ UNCHANGED Ensemble!vars
  BY <1>0, <1>2, WithdrawMaps DEF Ensemble!Next
<1>3. ASSUME NEW t \in Trees, LoadRef(t) \/ CasRef(t) \/ CasFails(t) \/ Link(t)
      PROVE  UNCHANGED Ensemble!vars
  BY <1>3, CountingMaps DEF MapInv
<1>4. ASSUME job = "none", BeginInsert
      PROVE  Ensemble!Next
  BY <1>4, BeginInsertMaps DEF Ensemble!Next
<1>5. ASSUME job = "none", NEW s \in Slots, BeginDelete(s)
      PROVE  Ensemble!Next \/ UNCHANGED Ensemble!vars
  BY <1>0, <1>5, BeginDeleteMaps DEF Ensemble!Next
<1>6. ASSUME NEW t \in Trees, FreeEvicted(t)
      PROVE  Ensemble!Next
  BY <1>0, <1>6, FreeEvictedMaps DEF Ensemble!Next
<1>7. CASE EndInsert
  BY <1>7, EndInsertMaps DEF Ensemble!Next
<1>8. CASE EndDelete
  BY <1>8, EndDeleteMaps DEF Ensemble!Next
<1>9. ASSUME UNCHANGED <<storeVars, treeVars, workerVars, updates_seen, job, slot>>,
             UNCHANGED timestamps
      PROVE  UNCHANGED Ensemble!vars
  BY <1>9, HeldFrame, StampFrame, PhaseFrame DEF Ensemble!vars, storeVars, treeVars,
     workerVars
<1>10. ASSUME UNCHANGED <<storeVars, treeVars, workerVars, updates_seen, job, slot>>,
              AtRest, NEW s \in Slots, NEW ts \in Times, StampAnySlot \/ IsLive(s),
              timestamps' = [timestamps EXCEPT ![s] = ts]
       PROVE  Ensemble!Next
  BY <1>0, <1>10, StampMaps DEF Ensemble!Next
<1> QED
  BY <1>1, <1>2, <1>3, <1>4, <1>5, <1>6, <1>7, <1>8, <1>9, <1>10, StepCases

\* The forest is an ensemble of reservoirs of observations: its slots, counts
\* and workers never show, whatever their order, the number of trees and the
\* size of the store.
THEOREM ForestImplementsEnsemble ==
  ASSUME ~StampAnySlot
  PROVE  Spec => ImplementsEnsemble
<1>1. MapInv /\ [Next]_vars => [Ensemble!Next]_(Ensemble!vars)
  BY NextMaps
<1> QED
  BY <1>1, InitMaps, MapInvariance, PTL DEF Spec, ImplementsEnsemble, Ensemble!Spec

------------------------------------------------------------------------------
(* A caller that keeps the indices it is given.                             *)

\* An index was given for an observation inserted before; while that
\* observation is stored, it is stored there; and the deletion a caller asked
\* for runs on the index it was asked for.
HandleInv ==
  /\ handle \in [Obs -> Slots \cup {None}]
  /\ \A o \in Obs : handle[o] # None => o <= updates_seen
  /\ \A o \in Obs, s \in Slots : points[s] = o /\ handle[o] # None => handle[o] = s
  /\ retracting # None =>
       retracting \in Obs /\ job = "delete" /\ slot = handle[retracting]

HInv == IInv /\ CallsInv /\ HandleInv

\* Every step of such a caller is a step of the forest.
LEMMA HandleSteps ==
  ASSUME HandleInv, [HNext]_handleVars
  PROVE  [Next]_vars
<1>1. ASSUME NEW o \in Obs, HDelete(o) PROVE Next
  <2>1. handle[o] \in Slots /\ Delete(handle[o])
    BY <1>1 DEF HandleInv, HDelete
  <2> QED
    BY <2>1 DEF Next, Callers
<1>2. ASSUME NEW o \in Obs, NEW ts \in Times, HStamp(o, ts) PROVE Next
  <2>1. handle[o] \in Slots /\ SetPointTimestamp(handle[o], ts)
    BY <1>2 DEF HandleInv, HStamp
  <2> QED
    BY <2>1 DEF Next, Callers
<1>3. CASE HReturn \/ HEndDelete
  BY <1>3 DEF HReturn, HEndDelete, Next, Body
<1>4. CASE HStep
  BY <1>4 DEF HStep, Next, Callers, Body
<1>5. CASE UNCHANGED handleVars
  BY <1>5 DEF handleVars
<1> QED
  BY <1>1, <1>2, <1>3, <1>4, <1>5 DEF HNext

\* What a step does to one slot.
LEMMA PointStep ==
  ASSUME IInv, [Next]_vars
  PROVE  /\ updates_seen' \in {updates_seen, updates_seen + 1}
         /\ \A s \in Slots : points'[s] \in {points[s], None, updates_seen + 1}
         /\ \A s \in Slots : points'[s] = points[s] \/ points'[s] = None \/ updates_seen' = updates_seen
<1>0. TypeOK
  BY DEF IInv
<1>1. CASE UNCHANGED <<points, updates_seen>>
  BY <1>1
<1>2. CASE BeginInsert
  <2>1. \A s \in Slots : points'[s] = points[s] \/ points'[s] = updates_seen + 1
    BY <1>2, InsertFills
  <2> QED
    BY <1>2, <2>1 DEF BeginInsert
<1>3. ASSUME NEW s \in Slots, Release(s), updates_seen' \in {updates_seen, updates_seen + 1}
      PROVE  \A r \in Slots : points'[r] = points[r] \/ points'[r] = None
  BY <1>0, <1>3, ReleaseEmpties
<1>4. ASSUME NEW t \in Trees, FreeEvicted(t)
      PROVE  /\ updates_seen' = updates_seen
             /\ \A r \in Slots : points'[r] = points[r] \/ points'[r] = None
  <2>1. pending_free[t] \in Slots
    BY <1>0, <1>4 DEF TypeOK, FreeEvicted
  <2> QED
    BY <1>3, <1>4, <2>1 DEF FreeEvicted
<1>5. CASE EndInsert \/ EndDelete
  <2>1. slot \in Slots /\ (Release(slot) \/ points' = points)
        /\ updates_seen' \in {updates_seen, updates_seen + 1}
    BY <1>0, <1>5 DEF TypeOK, EndInsert, EndDelete
  <2> QED
    BY <1>3, <2>1
<1> QED
  BY <1>1, <1>2, <1>4, <1>5, StepCases
  DEF Reject, Admit, Withdraw, NotHeld, LoadRef, CasRef, CasFails, Link, Replace,
      BeginDelete, storeVars

LEMMA HandleStep ==
  ASSUME HInv, IInv', CallsInv', [HNext]_handleVars
  PROVE  HandleInv'
<1> USE NoneAssumption
<1>0. /\ TypeOK /\ ObsInv /\ ObsInv' /\ IInv /\ HandleInv /\ [Next]_vars
      /\ updates_seen \in Nat
  BY HandleSteps, SizeAssumption DEF HInv, CallsInv, IInv, TypeOK
<1>1. /\ updates_seen' \in {updates_seen, updates_seen + 1}
      /\ \A s \in Slots : points'[s] \in {points[s], None, updates_seen + 1}
  BY <1>0, PointStep
<1>2. ASSUME handle' = handle
      PROVE  /\ handle' \in [Obs -> Slots \cup {None}]
             /\ \A o \in Obs : handle'[o] # None => o <= updates_seen'
             /\ \A o \in Obs, s \in Slots :
                  points'[s] = o /\ handle'[o] # None => handle'[o] = s
  <2>1. \A o \in Obs : o \in Nat /\ o # None
    BY DEF Obs
  <2>2. ASSUME NEW o \in Obs, handle[o] # None
        PROVE  o <= updates_seen /\ o # updates_seen + 1
    BY <1>0, <2>1, <2>2 DEF HandleInv
  <2>3. ASSUME NEW o \in Obs, handle[o] # None PROVE o <= updates_seen'
    BY <1>0, <1>1, <2>1, <2>2, <2>3
  <2>4. ASSUME NEW o \in Obs, NEW s \in Slots, points'[s] = o, handle[o] # None
        PROVE  handle[o] = s
    <3>1. points[s] = o
      BY <1>1, <2>1, <2>2, <2>4
    <3> QED
      BY <1>0, <2>4, <3>1 DEF HandleInv
  <2> QED
    BY <1>0, <1>2, <2>3, <2>4 DEF HandleInv
<1>3. CASE HReturn
  <2> DEFINE n == updates_seen + 1
  <2>1. /\ EndInsert /\ job = "insert" /\ slot \in Slots /\ points[slot] = n /\ n \in Obs
        /\ updates_seen' = n /\ handle' = [handle EXCEPT ![n] = slot]
        /\ retracting' = retracting
    BY <1>0, <1>3 DEF HReturn, EndInsert, TypeOK, IInv, RefInv
  <2>2. retracting = None
    BY <1>0, <2>1 DEF HandleInv
  <2>3. \A s \in Slots : points'[s] = points[s] \/ points'[s] = None
    BY <1>0, <2>1, PointStep
  <2>4. handle' \in [Obs -> Slots \cup {None}]
    BY <1>0, <2>1 DEF HandleInv
  <2>5. \A o \in Obs : handle'[o] # None => o <= n
    BY <1>0, <2>1 DEF HandleInv, Obs
  <2>6. ASSUME NEW o \in Obs, NEW s \in Slots, points'[s] = o, handle'[o] # None
        PROVE  handle'[o] = s
    <3>1. points[s] = o
      BY <2>3, <2>6 DEF Obs
    <3>2. CASE o = n
      BY <1>0, <2>1, <3>1, <3>2 DEF HandleInv, ObsInv, IsLive, Obs
    <3>3. CASE o # n
      BY <1>0, <2>1, <2>6, <3>1, <3>3 DEF HandleInv
    <3> QED
      BY <3>2, <3>3
  <2> QED
    BY <2>1, <2>2, <2>4, <2>5, <2>6 DEF HandleInv
<1>4. ASSUME NEW o \in Obs, HDelete(o) PROVE HandleInv'
  <2>1. handle' = handle /\ retracting' = o /\ job' = "delete" /\ slot' = handle[o]
    BY <1>4 DEF HDelete, Delete, BeginDelete, FanOut
  <2> QED
    BY <1>2, <2>1 DEF HandleInv
<1>5. CASE HEndDelete
  BY <1>2, <1>5 DEF HEndDelete, HandleInv
<1>6. ASSUME NEW o \in Obs, NEW ts \in Times, HStamp(o, ts) PROVE HandleInv'
  <2>1. UNCHANGED <<handle, retracting>> /\ job = "none"
    BY <1>6 DEF HStamp, SetPointTimestamp, AtRest
  <2> QED
    BY <1>0, <1>2, <2>1 DEF HandleInv
<1>7. CASE HStep
  <2>1. UNCHANGED <<handle, retracting>>
    BY <1>7 DEF HStep
  <2>2. job # "delete" \/ UNCHANGED <<job, slot>>
    BY <1>7, WorkerKeeps DEF HStep, FreeEvicted, Update, DeleteBefore, DeleteNext, Return, AtRest
  <2> QED
    BY <1>0, <1>2, <2>1, <2>2 DEF HandleInv
<1>8. CASE UNCHANGED handleVars
  BY <1>0, <1>2, <1>8 DEF handleVars, vars, HandleInv
<1> QED
  BY <1>3, <1>4, <1>5, <1>6, <1>7, <1>8 DEF HNext

\* The indices a caller holds stay right, and all it does is what any caller of
\* the forest may do.
THEOREM HandlesStayRight == HSpec => []HInv /\ Spec
<1>1. HInit => HInv
  <2> SUFFICES ASSUME HInit PROVE HInv
    OBVIOUS
  <2>1. Init /\ handle = [o \in Obs |-> None] /\ retracting = None
    BY DEF HInit
  <2> QED
    BY <2>1, InitIInv, InitCalls DEF HInv, HandleInv
<1>2. HInv /\ [HNext]_handleVars => HInv' /\ [Next]_vars
  <2> SUFFICES ASSUME HInv, [HNext]_handleVars PROVE HInv' /\ [Next]_vars
    OBVIOUS
  <2>1. IInv /\ CallsInv /\ HandleInv /\ [Next]_vars
    BY HandleSteps DEF HInv
  <2>2. IInv'
    BY <2>1, NextIInv
  <2>3. CallsInv'
    BY <2>1, <2>2, ObsStep, RetractStep, CallInvStep, BeforeStep, ProbeStep
    DEF CallsInv, IInv
  <2> QED
    BY <2>1, <2>2, <2>3, HandleStep DEF HInv
<1>3. HInit => Init
  BY DEF HInit
<1> QED
  BY <1>1, <1>2, <1>3, PTL DEF HSpec, Spec

\* When delete returns for the index of an observation, no slot holds that
\* observation any more.
THEOREM RetractedStaysGone == HSpec => RetractedIsGone
<1> DEFINE Gone == HEndDelete /\ retracting # None => \A s \in Slots : points'[s] # retracting
<1>1. HInv => [Gone]_handleVars
  <2> SUFFICES ASSUME HInv, EndDelete, retracting # None, NEW s \in Slots,
                      points'[s] = retracting
               PROVE  FALSE
    BY DEF HEndDelete
  <2>1. /\ IInv /\ RetractInv /\ retracting \in Obs /\ slot = handle[retracting]
        /\ HandleInv
    BY DEF HInv, CallsInv, HandleInv
  <2>2. /\ slot \in Slots /\ points'[slot] = None
        /\ \A r \in Slots \ {slot} : points'[r] = points[r]
    BY <2>1, DeletionEmpties
  <2>3. s # slot /\ points[s] = retracting
    BY <2>1, <2>2
  <2> QED
    BY <2>1, <2>2, <2>3, SlotNotNone DEF HandleInv
<1> QED
  BY <1>1, HandlesStayRight, PTL DEF RetractedIsGone
=============================================================================
