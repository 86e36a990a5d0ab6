--------------------------- MODULE MCHotPathProofs ---------------------------
(***************************************************************************)
(* Proofs about the concurrent parts of the hotpath as MCHotPath composes  *)
(* them.  Of the prefix rate cap, for every number of threads and buckets, *)
(* every cap and window and every interleaving: windows open in order and  *)
(* for their full length, and outside a contended roll the cap is hard.    *)
(* Of the sampler and its channel, for every set of producers, every         *)
(* capacity and stride: counts and deliveries are exact.                     *)
(* Of the striped counter, for any threads and stripes, shared or not:     *)
(* nothing is sent twice or early, and a flush covers its start.           *)
(***************************************************************************)
EXTENDS MCHotPath, FunctionSums, FiniteSetTheorems, SequenceTheorems, TLAPS

\* Counters in the range of their type do not wrap.
LEMMA NoWrap ==
  ASSUME NEW n \in Nat, NEW w \in Nat, n < w
  PROVE  n % w = n
OBVIOUS

\* Nor does a counter above zero that is counted down.
LEMMA DownNoWrap ==
  ASSUME NEW n \in Nat, NEW w \in Nat, n > 0, n < w
  PROVE  (n + w - 1) % w = n - 1
BY SMT

\* A wrapping counter stays in its range.
LEMMA InRange ==
  ASSUME NEW n \in Int, NEW w \in Nat, w > 0
  PROVE  n % w \in 0..w-1
OBVIOUS

LEMMA WrapType == Wrap \in Nat /\ Wrap > 0 /\ Wrap > Cap + Cardinality(Threads)
                  /\ Cardinality(Threads) \in Nat
BY FS_CardinalityType, CapAssumption, SMT

UndoSet(b) == {t \in Threads : pc[t] = "undo" /\ bucket[t] = b}

\* At most every thread has a refusal to take back.
LEMMA UndoSetFinite ==
  ASSUME NEW b
  PROVE  /\ IsFiniteSet(UndoSet(b)) /\ Undoing(b) = Cardinality(UndoSet(b))
         /\ Undoing(b) \in Nat /\ Undoing(b) <= Cardinality(Threads)
<1>1. UndoSet(b) \in SUBSET Threads
  BY DEF UndoSet
<1>2. IsFiniteSet(UndoSet(b)) /\ Cardinality(UndoSet(b)) <= Cardinality(Threads)
  BY <1>1, FS_Subset, CapAssumption
<1>3. Undoing(b) = Cardinality(UndoSet(b))
  BY DEF Undoing, UndoSet
<1> QED
  BY <1>2, <1>3, FS_CardinalityType

\* A step that moves nobody into or out of a pending undo leaves the counts.
LEMMA UndoUnmoved ==
  ASSUME NEW b, NEW t \in Threads, TypeOK,
         pc[t] # "undo", pc'[t] # "undo",
         \A u \in Threads \ {t} : pc'[u] = pc[u] /\ bucket'[u] = bucket[u]
  PROVE  Undoing(b)' = Undoing(b)
<1>1. UndoSet(b)' = UndoSet(b)
  BY DEF UndoSet
<1> QED
  BY <1>1 DEF Undoing, UndoSet

\* A refusal adds one to the undos of its bucket.
LEMMA UndoJoins ==
  ASSUME NEW b, NEW t \in Threads, TypeOK,
         pc[t] # "undo", pc'[t] = "undo", bucket' = bucket,
         \A u \in Threads \ {t} : pc'[u] = pc[u]
  PROVE  /\ Undoing(b)' = IF b = bucket[t] THEN Undoing(b) + 1 ELSE Undoing(b)
         /\ b = bucket[t] => Undoing(b) + 1 <= Cardinality(Threads)
<1>1. Undoing(b) = Cardinality(UndoSet(b)) /\ IsFiniteSet(UndoSet(b))
  BY UndoSetFinite
<1>2. Undoing(b)' = Cardinality(UndoSet(b)')
  BY DEF Undoing, UndoSet
<1>3. CASE b = bucket[t]
  <2>1. UndoSet(b)' = UndoSet(b) \cup {t} /\ t \notin UndoSet(b)
    BY <1>3 DEF UndoSet
  <2>2. /\ Cardinality(UndoSet(b)') = Cardinality(UndoSet(b)) + 1
    BY <1>1, <2>1, FS_AddElement
  <2>3. UndoSet(b)' \in SUBSET Threads
    BY DEF UndoSet
  <2>4. Cardinality(UndoSet(b)') <= Cardinality(Threads)
    BY <2>3, FS_Subset, CapAssumption
  <2> QED
    BY <1>1, <1>2, <1>3, <2>2, <2>4
<1>4. CASE b # bucket[t]
  <2>1. UndoSet(b)' = UndoSet(b)
    BY <1>4 DEF UndoSet
  <2> QED
    BY <1>1, <1>2, <1>4, <2>1
<1> QED
  BY <1>3, <1>4

\* Taking the increment back removes one from them.
LEMMA UndoLeaves ==
  ASSUME NEW b, NEW t \in Threads, TypeOK,
         pc[t] = "undo", pc'[t] # "undo",
         \A u \in Threads \ {t} : pc'[u] = pc[u] /\ bucket'[u] = bucket[u]
  PROVE  /\ Undoing(b)' = IF b = bucket[t] THEN Undoing(b) - 1 ELSE Undoing(b)
         /\ b = bucket[t] => Undoing(b) > 0
<1>1. Undoing(b) = Cardinality(UndoSet(b)) /\ IsFiniteSet(UndoSet(b)) /\ Undoing(b) \in Nat
  BY UndoSetFinite
<1>2. Undoing(b)' = Cardinality(UndoSet(b)')
  BY DEF Undoing, UndoSet
<1>3. CASE b = bucket[t]
  <2>1. UndoSet(b)' = UndoSet(b) \ {t} /\ t \in UndoSet(b)
    BY <1>3 DEF UndoSet
  <2>2. Cardinality(UndoSet(b)') = Cardinality(UndoSet(b)) - 1
    BY <1>1, <2>1, FS_RemoveElement
  <2>3. Cardinality(UndoSet(b)) # 0
    BY <1>1, <2>1, FS_EmptySet
  <2> QED
    BY <1>1, <1>2, <1>3, <2>2, <2>3
<1>4. CASE b # bucket[t]
  <2>1. UndoSet(b)' = UndoSet(b)
    BY <1>4 DEF UndoSet
  <2> QED
    BY <1>1, <1>2, <1>4, <2>1
<1> QED
  BY <1>3, <1>4

------------------------------------------------------------------------------

LEMMA InitInv == Init => CapInv
<1> SUFFICES ASSUME Init PROVE CapInv
  OBVIOUS
<1>1. TypeOK
  <2>1. 0 \in 0..Wrap-1 /\ 0 \in 0..MaxTime+1 /\ 0 \in 0..MaxTime /\ 0 \in 0..MaxCalls
    BY CapAssumption, WrapType
  <2>2. window_start \in 0..MaxTime+1 /\ clock \in 0..MaxTime /\ calls \in 0..MaxCalls
    BY <2>1 DEF Init
  <2>3. buckets \in [Buckets -> 0..Wrap-1]
    BY <2>1 DEF Init
  <2>4. admits \in [Buckets -> Nat] /\ overlapped \in BOOLEAN
    BY DEF Init
  <2>5. pc \in [Threads -> {"idle", "load", "check", "zero", "add", "undo"}]
    BY DEF Init
  <2>6. zeroing \in [Threads -> Buckets \cup {None}]
    BY DEF Init
  <2>7. bucket \in [Threads -> Buckets \cup {None}]
    BY DEF Init
  <2> QED
    BY <2>2, <2>3, <2>4, <2>5, <2>6, <2>7 DEF TypeOK, Init
<1>2. CallInv /\ RollInv /\ CapIsHardWhenRollIsAlone
  BY DEF Init, CallInv, RollInv, CapIsHardWhenRollIsAlone
<1> QED
  BY <1>1, <1>2 DEF CapInv

\* The types.
LEMMA TypeStep == TypeOK /\ CallInv /\ [Next]_vars => TypeOK'
<1> SUFFICES ASSUME TypeOK, CallInv, [Next]_vars PROVE TypeOK'
  OBVIOUS
<1> USE CapAssumption, WrapType
<1>1. ASSUME NEW t \in Threads, NEW b \in Buckets, Call(t, b) PROVE TypeOK'
  BY <1>1 DEF Call, TypeOK, Goto, Rolling
<1>2. ASSUME NEW t \in Threads, LoadStart(t) PROVE TypeOK'
  BY <1>2 DEF LoadStart, TypeOK, Goto
<1>3. ASSUME NEW t \in Threads, WindowHolds(t) PROVE TypeOK'
  BY <1>3 DEF WindowHolds, TypeOK, Goto
<1>4. ASSUME NEW t \in Threads, WinRoll(t) PROVE TypeOK'
  <2>1. 0 \in Buckets
    BY DEF Buckets
  <2>2. window_start' \in 0..MaxTime+1
    BY <1>4 DEF WinRoll, CallInv
  <2>3. overlapped' \in BOOLEAN
    BY <1>4 DEF WinRoll
  <2>4. admits' \in [Buckets -> Nat] /\ buckets' \in [Buckets -> 0..Wrap-1]
    BY <1>4 DEF WinRoll, TypeOK
  <2>5. /\ pc' \in [Threads -> {"idle", "load", "check", "zero", "add", "undo"}]
        /\ zeroing' \in [Threads -> Buckets \cup {None}]
    BY <1>4, <2>1 DEF WinRoll, TypeOK, Goto
  <2> QED
    BY <1>4, <2>2, <2>3, <2>4, <2>5 DEF WinRoll, TypeOK
<1>5. ASSUME NEW t \in Threads, LoseRoll(t) PROVE TypeOK'
  BY <1>5 DEF LoseRoll, TypeOK, Goto
<1>6. ASSUME NEW t \in Threads, ZeroBucket(t) PROVE TypeOK'
  BY <1>6 DEF ZeroBucket, TypeOK, Goto, CallInv
<1>7. ASSUME NEW t \in Threads, Admit(t) PROVE TypeOK'
  <2>1. bucket[t] \in Buckets /\ (buckets[bucket[t]] + 1) % Wrap \in 0..Wrap-1
    BY <1>7, InRange DEF Admit, TypeOK, CallInv
  <2> QED
    BY <1>7, <2>1 DEF Admit, Finish, TypeOK, Goto
<1>8. ASSUME NEW t \in Threads, Refuse(t) PROVE TypeOK'
  <2>1. bucket[t] \in Buckets /\ (buckets[bucket[t]] + 1) % Wrap \in 0..Wrap-1
    BY <1>8, InRange DEF Refuse, TypeOK, CallInv
  <2> QED
    BY <1>8, <2>1 DEF Refuse, TypeOK, Goto
<1>9. ASSUME NEW t \in Threads, Undo(t) PROVE TypeOK'
  <2>1. bucket[t] \in Buckets /\ (buckets[bucket[t]] + Wrap - 1) % Wrap \in 0..Wrap-1
    BY <1>9, InRange DEF Undo, TypeOK, CallInv
  <2> QED
    BY <1>9, <2>1 DEF Undo, Finish, TypeOK, Goto
<1>10. CASE Tick
  BY <1>10 DEF Tick, TypeOK
<1>11. CASE UNCHANGED vars
  BY <1>11 DEF vars, TypeOK
<1> QED
  BY <1>1, <1>2, <1>3, <1>4, <1>5, <1>6, <1>7, <1>8, <1>9, <1>10, <1>11
  DEF Next, Check

\* What a call knows.
LEMMA CallStep == TypeOK /\ CallInv /\ [Next]_vars => CallInv'
<1> SUFFICES ASSUME TypeOK, CallInv, [Next]_vars PROVE CallInv'
  OBVIOUS
<1> USE CapAssumption
<1>1. ASSUME NEW t \in Threads, NEW b \in Buckets, Call(t, b) PROVE CallInv'
  BY <1>1 DEF Call, TypeOK, CallInv, Goto
<1>2. ASSUME NEW t \in Threads, LoadStart(t) PROVE CallInv'
  BY <1>2 DEF LoadStart, TypeOK, CallInv, Goto
<1>3. ASSUME NEW t \in Threads, WindowHolds(t) PROVE CallInv'
  BY <1>3 DEF WindowHolds, TypeOK, CallInv, Goto
<1>4. ASSUME NEW t \in Threads, WinRoll(t) PROVE CallInv'
  <2>1. 0 \in Buckets
    BY DEF Buckets
  <2> QED
    BY <1>4, <2>1 DEF WinRoll, TypeOK, CallInv, Goto
<1>5. ASSUME NEW t \in Threads, LoseRoll(t) PROVE CallInv'
  BY <1>5 DEF LoseRoll, TypeOK, CallInv, Goto
<1>6. ASSUME NEW t \in Threads, ZeroBucket(t) PROVE CallInv'
  BY <1>6 DEF ZeroBucket, TypeOK, CallInv, Goto
<1>7. ASSUME NEW t \in Threads, Admit(t) PROVE CallInv'
  BY <1>7 DEF Admit, Finish, TypeOK, CallInv, Goto
<1>8. ASSUME NEW t \in Threads, Refuse(t) PROVE CallInv'
  BY <1>8 DEF Refuse, TypeOK, CallInv, Goto
<1>9. ASSUME NEW t \in Threads, Undo(t) PROVE CallInv'
  BY <1>9 DEF Undo, Finish, TypeOK, CallInv, Goto
<1>10. CASE Tick
  BY <1>10 DEF Tick, CallInv
<1>11. CASE UNCHANGED vars
  BY <1>11 DEF vars, CallInv
<1> QED
  BY <1>1, <1>2, <1>3, <1>4, <1>5, <1>6, <1>7, <1>8, <1>9, <1>10, <1>11
  DEF Next, Check

\* While a winner that nobody overlapped is at work no other call moves.
LEMMA Alone ==
  ASSUME RollInv, ~overlapped, NEW t \in Threads, pc[t] \notin {"idle", "zero"}
  PROVE  ~Rolling
BY DEF RollInv, Rolling

\* A winner stays alone.
LEMMA RollStep == CapInv /\ [Next]_vars => RollInv'
<1> SUFFICES ASSUME CapInv, [Next]_vars, ~overlapped' PROVE RollInv'
  BY DEF RollInv
<1> USE DEF CapInv
<1>1. ASSUME NEW t \in Threads, NEW b \in Buckets, Call(t, b) PROVE RollInv'
  <2>1. ~overlapped /\ ~Rolling
    BY <1>1 DEF Call
  <2>2. \A u \in Threads : pc'[u] # "zero"
    BY <1>1, <2>1 DEF Call, Goto, TypeOK, Rolling
  <2> QED
    BY <2>2 DEF RollInv
<1>2. ASSUME NEW t \in Threads,
             \/ LoadStart(t) \/ WindowHolds(t) \/ LoseRoll(t)
             \/ Admit(t) \/ Refuse(t) \/ Undo(t)
      PROVE  RollInv'
  <2>1. ~overlapped /\ pc[t] \notin {"idle", "zero"}
    BY <1>2 DEF LoadStart, WindowHolds, LoseRoll, Admit, Refuse, Undo
  <2>2. ~Rolling
    BY <2>1, Alone
  <2>3. pc'[t] # "zero" /\ \A u \in Threads \ {t} : pc'[u] = pc[u]
    BY <1>2 DEF LoadStart, WindowHolds, LoseRoll, Admit, Refuse, Undo, Finish, Goto, TypeOK
  <2> QED
    BY <2>2, <2>3 DEF RollInv, Rolling
<1>3. ASSUME NEW t \in Threads, WinRoll(t) PROVE RollInv'
  <2>1. \A u \in Threads \ {t} : pc[u] = "idle"
    BY <1>3 DEF WinRoll
  <2>2. /\ \A u \in Threads \ {t} : pc'[u] = "idle"
        /\ zeroing'[t] = 0 /\ \A b \in Buckets : admits'[b] = 0 /\ ~(b < 0)
    BY <1>3, <2>1, CapAssumption DEF WinRoll, Goto, TypeOK, Buckets
  <2> QED
    BY <2>2 DEF RollInv
<1>4. ASSUME NEW t \in Threads, ZeroBucket(t) PROVE RollInv'
  <2>1. /\ \A u \in Threads \ {t} : pc[u] = "idle"
        /\ \A b \in Buckets : admits[b] = 0 /\ (b < zeroing[t] => buckets[b] = 0)
    BY <1>4 DEF ZeroBucket, RollInv
  <2>2. \A u \in Threads \ {t} : pc'[u] = "idle"
    BY <1>4, <2>1 DEF ZeroBucket, Goto, TypeOK
  <2>3. \A b \in Buckets : admits'[b] = 0
    BY <1>4, <2>1 DEF ZeroBucket
  <2>4. ASSUME pc'[t] = "zero", NEW b \in Buckets, b < zeroing'[t]
        PROVE  buckets'[b] = 0
    <3>1. zeroing[t] \in Buckets /\ zeroing'[t] = zeroing[t] + 1
      BY <1>4, <2>4 DEF ZeroBucket, Goto, TypeOK, CallInv
    <3>2. b = zeroing[t] \/ b < zeroing[t]
      BY <2>4, <3>1, CapAssumption DEF Buckets
    <3> QED
      BY <1>4, <2>1, <3>2 DEF ZeroBucket, TypeOK
  <2> QED
    BY <2>2, <2>3, <2>4 DEF RollInv
<1>5. CASE Tick
  BY <1>5 DEF Tick, RollInv
<1>6. CASE UNCHANGED vars
  BY <1>6 DEF vars, RollInv
<1> QED
  BY <1>1, <1>2, <1>3, <1>4, <1>5, <1>6 DEF Next, Check

\* The buckets of an uncontended window count its admissions.
LEMMA CountStep == CapInv /\ [Next]_vars => CapIsHardWhenRollIsAlone'
<1> SUFFICES ASSUME CapInv, [Next]_vars,
                    window_start' # 0, ~overlapped', ~Rolling', NEW b \in Buckets
             PROVE  (buckets[b] = admits[b] + Undoing(b) /\ admits[b] <= Cap)'
  BY DEF CapIsHardWhenRollIsAlone
<1> USE DEF CapInv
<1> DEFINE Counted == buckets[b] = admits[b] + Undoing(b) /\ admits[b] <= Cap
<1> DEFINE Settled == window_start # 0 /\ ~overlapped /\ ~Rolling
<1>0. Settled => Counted
  BY DEF CapIsHardWhenRollIsAlone
<1>1. /\ buckets[b] \in 0..Wrap-1 /\ admits[b] \in Nat
      /\ Undoing(b) \in Nat /\ Undoing(b) <= Cardinality(Threads)
  BY UndoSetFinite DEF TypeOK
<1>2. ASSUME NEW t \in Threads, NEW c \in Buckets, Call(t, c) PROVE Counted'
  <2>1. Settled
    BY <1>2 DEF Call
  <2>2. /\ pc[t] # "undo" /\ pc'[t] # "undo"
        /\ \A u \in Threads \ {t} : pc'[u] = pc[u] /\ bucket'[u] = bucket[u]
    BY <1>2 DEF Call, Goto, TypeOK
  <2>3. Undoing(b)' = Undoing(b)
    BY <2>2, UndoUnmoved
  <2> QED
    BY <1>0, <1>2, <2>1, <2>3 DEF Call
<1>3. ASSUME NEW t \in Threads, LoadStart(t) \/ WindowHolds(t) \/ LoseRoll(t)
      PROVE  Counted'
  <2>1. pc[t] \notin {"idle", "zero"} /\ ~overlapped /\ window_start' = window_start
    BY <1>3 DEF LoadStart, WindowHolds, LoseRoll
  <2>2. Settled
    BY <2>1, Alone
  <2>3. /\ pc[t] # "undo" /\ pc'[t] # "undo"
        /\ \A u \in Threads \ {t} : pc'[u] = pc[u] /\ bucket'[u] = bucket[u]
    BY <1>3 DEF LoadStart, WindowHolds, LoseRoll, Goto, TypeOK
  <2>4. Undoing(b)' = Undoing(b)
    BY <2>3, UndoUnmoved
  <2> QED
    BY <1>0, <1>3, <2>2, <2>4 DEF LoadStart, WindowHolds, LoseRoll
<1>4. ASSUME NEW t \in Threads, WinRoll(t) PROVE Counted'
  <2>1. pc'[t] = "zero"
    BY <1>4 DEF WinRoll, Goto, TypeOK
  <2> QED
    BY <2>1 DEF Rolling
<1>5. ASSUME NEW t \in Threads, ZeroBucket(t) PROVE Counted'
  <2>1. /\ \A u \in Threads \ {t} : pc[u] = "idle"
        /\ admits[b] = 0 /\ (b < zeroing[t] => buckets[b] = 0)
    BY <1>5 DEF ZeroBucket, RollInv
  <2>2. zeroing[t] \in Buckets /\ zeroing[t] + 1 \notin Buckets
    <3>1. zeroing[t] + 1 \in Buckets => pc'[t] = "zero"
      BY <1>5 DEF ZeroBucket
    <3> QED
      BY <1>5, <3>1 DEF ZeroBucket, CallInv, Rolling
  <2>3. b = zeroing[t] \/ b < zeroing[t]
    BY <2>2, CapAssumption DEF Buckets
  <2>4. buckets'[b] = 0 /\ admits'[b] = 0
    BY <1>5, <2>1, <2>3 DEF ZeroBucket, TypeOK
  <2>5. UndoSet(b)' = {}
    <3>1. \A u \in Threads : pc'[u] # "undo"
      BY <1>5, <2>1, <2>2 DEF ZeroBucket, Goto, TypeOK
    <3> QED
      BY <3>1 DEF UndoSet
  <2>6. Undoing(b)' = 0
    BY <2>5, FS_EmptySet DEF Undoing, UndoSet
  <2> QED
    BY <2>4, <2>6, CapAssumption
<1>6. ASSUME NEW t \in Threads, Admit(t) PROVE Counted'
  <2>1. pc[t] \notin {"idle", "zero"} /\ ~overlapped /\ window_start' = window_start
    BY <1>6 DEF Admit
  <2>2. Counted
    BY <1>0, <2>1, Alone
  <2>3. /\ pc[t] # "undo" /\ pc'[t] # "undo"
        /\ \A u \in Threads \ {t} : pc'[u] = pc[u] /\ bucket'[u] = bucket[u]
    BY <1>6 DEF Admit, Finish, Goto, TypeOK
  <2>4. Undoing(b)' = Undoing(b)
    BY <2>3, UndoUnmoved
  <2>5. CASE b = bucket[t]
    <3>1. /\ buckets[b] < Cap /\ buckets'[b] = (buckets[b] + 1) % Wrap
          /\ admits'[b] = admits[b] + 1
      BY <1>6, <2>5 DEF Admit, TypeOK
    <3>2. buckets[b] + 1 \in Nat /\ buckets[b] + 1 < Wrap
      BY <1>1, <3>1, WrapType, CapAssumption
    <3>3. buckets'[b] = buckets[b] + 1
      BY <3>1, <3>2, NoWrap, WrapType
    <3> QED
      BY <1>1, <2>2, <2>4, <3>1, <3>3, CapAssumption
  <2>6. CASE b # bucket[t]
    <3>1. buckets'[b] = buckets[b] /\ admits'[b] = admits[b]
      BY <1>6, <2>6 DEF Admit, TypeOK
    <3> QED
      BY <2>2, <2>4, <3>1
  <2> QED
    BY <2>5, <2>6
<1>7. ASSUME NEW t \in Threads, Refuse(t) PROVE Counted'
  <2>1. pc[t] \notin {"idle", "zero"} /\ ~overlapped /\ window_start' = window_start
    BY <1>7 DEF Refuse
  <2>2. Counted
    BY <1>0, <2>1, Alone
  <2>3. /\ pc[t] # "undo" /\ pc'[t] = "undo" /\ bucket' = bucket
        /\ \A u \in Threads \ {t} : pc'[u] = pc[u]
    BY <1>7 DEF Refuse, Goto, TypeOK
  <2>4. /\ Undoing(b)' = IF b = bucket[t] THEN Undoing(b) + 1 ELSE Undoing(b)
        /\ b = bucket[t] => Undoing(b) + 1 <= Cardinality(Threads)
    BY <2>3, UndoJoins
  <2>5. admits'[b] = admits[b]
    BY <1>7 DEF Refuse
  <2>6. CASE b = bucket[t]
    <3>1. buckets'[b] = (buckets[b] + 1) % Wrap
      BY <1>7, <2>6 DEF Refuse, TypeOK
    <3>2. buckets[b] + 1 \in Nat /\ buckets[b] + 1 < Wrap
      BY <1>1, <2>2, <2>4, <2>6, WrapType, CapAssumption
    <3>3. buckets'[b] = buckets[b] + 1
      BY <3>1, <3>2, NoWrap, WrapType
    <3> QED
      BY <1>1, <2>2, <2>4, <2>5, <2>6, <3>3
  <2>7. CASE b # bucket[t]
    <3>1. buckets'[b] = buckets[b]
      BY <1>7, <2>7 DEF Refuse, TypeOK
    <3> QED
      BY <2>2, <2>4, <2>5, <2>7, <3>1
  <2> QED
    BY <2>6, <2>7
<1>8. ASSUME NEW t \in Threads, Undo(t) PROVE Counted'
  <2>1. pc[t] \notin {"idle", "zero"} /\ ~overlapped /\ window_start' = window_start
    BY <1>8 DEF Undo
  <2>2. Counted
    BY <1>0, <2>1, Alone
  <2>3. /\ pc[t] = "undo" /\ pc'[t] # "undo"
        /\ \A u \in Threads \ {t} : pc'[u] = pc[u] /\ bucket'[u] = bucket[u]
    BY <1>8 DEF Undo, Finish, Goto, TypeOK
  <2>4. /\ Undoing(b)' = IF b = bucket[t] THEN Undoing(b) - 1 ELSE Undoing(b)
        /\ b = bucket[t] => Undoing(b) > 0
    BY <2>3, UndoLeaves
  <2>5. admits'[b] = admits[b]
    BY <1>8 DEF Undo
  <2>6. CASE b = bucket[t]
    <3>1. buckets'[b] = (buckets[b] + Wrap - 1) % Wrap
      BY <1>8, <2>6 DEF Undo, TypeOK
    <3>2. buckets[b] \in Nat /\ buckets[b] > 0 /\ buckets[b] < Wrap
      BY <1>1, <2>2, <2>4, <2>6, WrapType
    <3>3. buckets'[b] = buckets[b] - 1
      BY <3>1, <3>2, DownNoWrap, WrapType
    <3> QED
      BY <1>1, <2>2, <2>4, <2>5, <2>6, <3>3
  <2>7. CASE b # bucket[t]
    <3>1. buckets'[b] = buckets[b]
      BY <1>8, <2>7 DEF Undo, TypeOK
    <3> QED
      BY <2>2, <2>4, <2>5, <2>7, <3>1
  <2> QED
    BY <2>6, <2>7
<1>9. CASE Tick \/ UNCHANGED vars
  <2>1. UNCHANGED <<window_start, buckets, pc, bucket, admits, overlapped>>
    BY <1>9 DEF Tick, vars
  <2>2. Undoing(b)' = Undoing(b)
    BY <2>1 DEF Undoing
  <2> QED
    BY <1>0, <2>1, <2>2 DEF Rolling
<1> QED
  BY <1>2, <1>3, <1>4, <1>5, <1>6, <1>7, <1>8, <1>9 DEF Next, Check

------------------------------------------------------------------------------

\* The inductive invariant of the rate cap: what a call knows at each step of
\* check_and_record, and that a winner nobody overlapped is alone with empty
\* buckets behind it, for any number of threads and buckets.
THEOREM CapInvariance == Spec => []CapInv
<1>1. CapInv /\ [Next]_vars => CapInv'
  BY TypeStep, CallStep, RollStep, CountStep DEF CapInv
<1> QED
  BY <1>1, InitInv, PTL DEF Spec

\* check_and_record admits at most cap_per_window calls into a bucket of a
\* window whose roll no other call overlapped, and the bucket never wraps.
THEOREM CapHolds == Spec => []CapIsHard
<1>1. CapInv => CapIsHard
  BY DEF CapInv, CapIsHard
<1> QED
  BY <1>1, CapInvariance, PTL

\* A thread with a delayed clock reading neither reopens an earlier window nor
\* closes one before its time.
THEOREM WindowOrder == Spec => WindowsInOrder
<1>1. /\ CapInv /\ [Next]_vars
      => [window_start' # window_start =>
            window_start = 0 \/ window_start' >= window_start + Window]_vars
  <2> SUFFICES ASSUME CapInv, Next, window_start' # window_start
               PROVE  window_start = 0 \/ window_start' >= window_start + Window
    BY DEF vars
  <2>1. PICK t \in Threads : WinRoll(t)
    BY DEF Next, Check, Tick, Call, LoadStart, WindowHolds, LoseRoll, ZeroBucket,
           Admit, Refuse, Undo
  <2>2. now[t] \in 1..MaxTime+1 /\ start[t] \in 0..MaxTime+1
    BY <2>1 DEF WinRoll, CapInv, CallInv
  <2> QED
    BY <2>1, <2>2, CapAssumption DEF WinRoll, Expired
<1> QED
  BY <1>1, CapInvariance, PTL DEF Spec, WindowsInOrder

------------------------------------------------------------------------------
(* The sampler and its channel, whichever part a behaviour is.              *)

LEMMA ChannelSets ==
  /\ \A S : Channel!Cardinality(S) = Cardinality(S)
  /\ IsFiniteSet(Producers)
  /\ Capacity \in Nat \ {0} /\ KeepEveryN \in Nat \ {0} /\ MaxPackets \in Nat
<1>1. \A S : Channel!Cardinality(S) = Cardinality(S)
  BY DEF Channel!Cardinality, Cardinality
<1> QED
  BY <1>1, HotPathParameters
  DEF Channel!HotPathAssumption, Channel!IsFiniteSet, IsFiniteSet

\* One number more is one packet kept more when the stride divides it.
LEMMA StrideCounts ==
  ASSUME NEW c \in Nat, NEW k \in Nat \ {0}
  PROVE  (c + 1 + k - 1) \div k = (c + k - 1) \div k + (IF c % k = 0 THEN 1 ELSE 0)
BY SMT

\* B is A after an element has moved: out of the set, into it, or neither.
Moved(A, B, was, is) ==
  /\ Channel!Cardinality(A) \in Nat
  /\ was /\ ~is => Channel!Cardinality(B) = Channel!Cardinality(A) - 1
  /\ ~was /\ is => Channel!Cardinality(B) = Channel!Cardinality(A) + 1
  /\ (was <=> is) => Channel!Cardinality(B) = Channel!Cardinality(A)

Offers == {"offer", "count_enqueued", "count_dropped"}

\* A set of producers told by their places, when one of them moves.
LEMMA MoveOne ==
  ASSUME NEW f, DOMAIN f = Producers, NEW p \in Producers, NEW to, NEW S
  PROVE  Moved({q \in Producers : f[q] \in S},
               {q \in Producers : [f EXCEPT ![p] = to][q] \in S}, f[p] \in S, to \in S)
<1> DEFINE A == {q \in Producers : f[q] \in S}
           B == {q \in Producers : [f EXCEPT ![p] = to][q] \in S}
<1>1. B = IF to \in S THEN A \cup {p} ELSE A \ {p}
  OBVIOUS
<1>2. p \in A <=> f[p] \in S
  OBVIOUS
<1>3. A \in SUBSET Producers
  OBVIOUS
<1> HIDE DEF A, B
<1>4. IsFiniteSet(A) /\ Channel!Cardinality(A) \in Nat
  BY <1>3, FS_Subset, FS_CardinalityType, ChannelSets
<1>5. /\ Channel!Cardinality(A \cup {p})
           = IF p \in A THEN Channel!Cardinality(A) ELSE Channel!Cardinality(A) + 1
      /\ Channel!Cardinality(A \ {p})
           = IF p \in A THEN Channel!Cardinality(A) - 1 ELSE Channel!Cardinality(A)
  BY <1>4, FS_AddElement, FS_RemoveElement, ChannelSets
<1>6. Moved(A, B, f[p] \in S, to \in S)
  BY <1>1, <1>2, <1>4, <1>5 DEF Moved
<1> QED
  BY <1>6 DEF A, B

\* How a producer's step changes the numbers the counts are made of.
LEMMA PlaceCounts ==
  ASSUME Channel!TypeOK, NEW p \in Producers, NEW to,
         producer_pc' = [producer_pc EXCEPT ![p] = to]
  PROVE  /\ Moved(Channel!Drawing, Channel!Drawing', producer_pc[p] = "sampled", to = "sampled")
         /\ Moved(Channel!Counting, Channel!Counting', producer_pc[p] = "count_enqueued",
                  to = "count_enqueued")
         /\ Moved(Channel!Offering, Channel!Offering', producer_pc[p] \in Offers, to \in Offers)
<1>0. DOMAIN producer_pc = Producers
  BY DEF Channel!TypeOK
<1>1. \A S : Moved({q \in Producers : producer_pc[q] \in S},
                   {q \in Producers : [producer_pc EXCEPT ![p] = to][q] \in S}, producer_pc[p] \in S, to \in S)
  BY <1>0, MoveOne
<1>2. Moved(Channel!Drawing, Channel!Drawing', producer_pc[p] = "sampled", to = "sampled")
  <2>1. Moved({q \in Producers : producer_pc[q] \in {"sampled"}},
              {q \in Producers : [producer_pc EXCEPT ![p] = to][q] \in {"sampled"}},
              producer_pc[p] \in {"sampled"}, to \in {"sampled"})
    BY <1>1
  <2> QED
    BY <2>1 DEF Channel!Drawing, Moved
<1>3. Moved(Channel!Counting, Channel!Counting', producer_pc[p] = "count_enqueued",
            to = "count_enqueued")
  <2>1. Moved({q \in Producers : producer_pc[q] \in {"count_enqueued"}},
              {q \in Producers : [producer_pc EXCEPT ![p] = to][q] \in {"count_enqueued"}},
              producer_pc[p] \in {"count_enqueued"}, to \in {"count_enqueued"})
    BY <1>1
  <2> QED
    BY <2>1 DEF Channel!Counting, Moved
<1>4. Moved(Channel!Offering, Channel!Offering', producer_pc[p] \in Offers, to \in Offers)
  <2>1. Moved({q \in Producers : producer_pc[q] \in Offers},
              {q \in Producers : [producer_pc EXCEPT ![p] = to][q] \in Offers},
              producer_pc[p] \in Offers, to \in Offers)
    BY <1>1
  <2> QED
    BY <2>1 DEF Channel!Offering, Offers, Moved
<1> QED
  BY <1>2, <1>3, <1>4

LEMMA WillKeepFinite ==
  IsFiniteSet(Channel!WillKeep) /\ Channel!Cardinality(Channel!WillKeep) \in Nat
<1>1. Channel!WillKeep \in SUBSET Producers
  BY DEF Channel!WillKeep, Channel!Drawing
<1> QED
  BY <1>1, FS_Subset, FS_CardinalityType, ChannelSets

\* Handing a point over keeps the order of what the channel has taken.
LEMMA TakeKeepsSent ==
  ASSUME NEW S, NEW d \in Seq(S), NEW q \in Seq(S), q # <<>>
  PROVE  Append(d, Head(q)) \o Tail(q) = d \o q
<1> DEFINE h == Head(q)
           t == Tail(q)
<1>1. Len(q) \in Nat \ {0} /\ 1 \in 1..Len(q) /\ Len(q) \in 1..Len(q)
  BY EmptySeq
<1>2. h = q[1]
  OBVIOUS
<1>3. h \in S /\ t \in Seq(S) /\ t = SubSeq(q, 1 + 1, Len(q))
  <2>1. Tail(q) = SubSeq(q, 2, Len(q))
    BY TailIsSubSeq
  <2> QED
    BY <2>1, HeadTailProperties
<1>4. SubSeq(q, 1, Len(q)) = <<q[1]>> \o SubSeq(q, 1 + 1, Len(q))
  BY <1>1, SubSeqRecursiveFirst
<1>5. SubSeq(q, 1, Len(q)) = q
  BY SubSeqFull
<1>31. t \in Seq(S)
  BY <1>3
<1> HIDE DEF h, t
<1>6. q = <<h>> \o t
  BY <1>2, <1>3, <1>4, <1>5
<1>7. Append(d, h) = d \o <<h>> /\ <<h>> \in Seq(S)
  BY <1>3, AppendIsConcat
<1>8. (d \o <<h>>) \o t = d \o (<<h>> \o t)
  <2> DEFINE one == <<h>>
  <2>1. one \in Seq(S)
    BY <1>7
  <2> HIDE DEF one
  <2>2. (d \o one) \o t = d \o (one \o t)
    BY SMTT(30), <1>31, <2>1, ConcatAssociative
  <2> QED
    BY <2>2 DEF one
<1> QED
  BY <1>6, <1>7, <1>8 DEF h, t

\* Offering a point adds it at the end of what the channel has taken.
LEMMA SendExtendsSent ==
  ASSUME NEW S, NEW d \in Seq(S), NEW q \in Seq(S), NEW e \in S
  PROVE  d \o Append(q, e) = Append(d \o q, e)
<1>1. <<e>> \in Seq(S)
  OBVIOUS
<1>2. d \o (q \o <<e>>) = (d \o q) \o <<e>>
  BY <1>1, ConcatAssociative
<1>3. d \o q \in Seq(S)
  BY ConcatProperties
<1> QED
  BY <1>2, <1>3, AppendIsConcat

------------------------------------------------------------------------------
(* The classifier threads.                                                  *)

\* The counts are right after every step.
LEMMA ChannelCountStep ==
  ASSUME Channel!ChannelInv, [Channel!Next]_channelVars
  PROVE  /\ Channel!CountInv'
         /\ counter' \in 0..MaxPackets
         /\ accepted' \in Nat /\ rejected' \in Nat /\ enqueued' \in Nat
         /\ dropped' \in Nat
<1> DEFINE K == KeepEveryN
<1>0. /\ Channel!TypeOK /\ Channel!CountInv /\ Channel!PacketInv
      /\ counter \in Nat /\ counter \in 0..MaxPackets /\ accepted \in Nat
      /\ rejected \in Nat
      /\ enqueued \in Nat /\ dropped \in Nat /\ K \in Nat \ {0} /\ MaxPackets \in Nat
  BY ChannelSets DEF Channel!ChannelInv, Channel!TypeOK
<1>1. CASE UNCHANGED <<counter, accepted, rejected, enqueued, dropped, producer_pc, packet>>
  BY <1>0, <1>1 DEF Channel!CountInv, Channel!Drawing, Channel!Offering,
                    Channel!WillKeep, Channel!TypeOK
<1>2. ASSUME NEW p \in Producers, Channel!Sample(p)
      PROVE  /\ Channel!CountInv' /\ counter' \in 0..MaxPackets
             /\ accepted' \in Nat /\ rejected' \in Nat /\ enqueued' \in Nat
             /\ dropped' \in Nat
  <2>1. /\ producer_pc[p] = "idle" /\ producer_pc' = [producer_pc EXCEPT ![p] = "sampled"]
        /\ packet' = [packet EXCEPT ![p] = counter] /\ counter < MaxPackets
        /\ counter' = counter + 1 /\ UNCHANGED <<accepted, rejected, enqueued, dropped>>
    BY <1>2 DEF Channel!Sample
  <2>2. Channel!WillKeep' = IF counter % K = 0 THEN Channel!WillKeep \cup {p} ELSE Channel!WillKeep
    BY <1>0, <2>1 DEF Channel!WillKeep, Channel!Drawing, Channel!TypeOK
  <2>3. p \notin Channel!WillKeep
    BY <2>1 DEF Channel!WillKeep, Channel!Drawing
  <2>4. Channel!Cardinality(Channel!WillKeep')
          = Channel!Cardinality(Channel!WillKeep) + (IF counter % K = 0 THEN 1 ELSE 0)
    <3>1. Cardinality(Channel!WillKeep \cup {p}) = Cardinality(Channel!WillKeep) + 1
      BY <2>3, WillKeepFinite, FS_AddElement
    <3>2. \A S : Channel!Cardinality(S) = Cardinality(S)
      BY ChannelSets
    <3>3. Channel!Cardinality(Channel!WillKeep) \in Nat
      BY WillKeepFinite
    <3> QED
      BY <2>2, <3>1, <3>2, <3>3
  <2>5. /\ Channel!Cardinality(Channel!Drawing') = Channel!Cardinality(Channel!Drawing) + 1
        /\ Channel!Cardinality(Channel!Offering') = Channel!Cardinality(Channel!Offering)
        /\ Channel!Cardinality(Channel!Drawing) \in Nat
        /\ Channel!Cardinality(Channel!Offering) \in Nat
    <3>1. /\ Moved(Channel!Drawing, Channel!Drawing', producer_pc[p] = "sampled", "sampled" = "sampled")
          /\ Moved(Channel!Offering, Channel!Offering', producer_pc[p] \in Offers, "sampled" \in Offers)
      BY <1>0, <2>1, PlaceCounts
    <3> QED
      BY <2>1, <3>1 DEF Moved, Offers
  <2>6. (counter' + K - 1) \div K
          = (counter + K - 1) \div K + (IF counter % K = 0 THEN 1 ELSE 0)
    BY <1>0, <2>1, StrideCounts
  <2>7. Channel!Cardinality(Channel!WillKeep) \in Nat
    BY WillKeepFinite
  <2>8. (counter' + K - 1) \div K = accepted' + Channel!Cardinality(Channel!WillKeep')
    BY <1>0, <2>1, <2>4, <2>6, <2>7 DEF Channel!CountInv
  <2> QED
    BY <1>0, <2>1, <2>5, <2>8 DEF Channel!CountInv
<1>3. ASSUME NEW p \in Producers, Channel!Keep(p)
      PROVE  /\ Channel!CountInv' /\ counter' \in 0..MaxPackets
             /\ accepted' \in Nat /\ rejected' \in Nat /\ enqueued' \in Nat
             /\ dropped' \in Nat
  <2>1. /\ producer_pc[p] = "sampled"
        /\ producer_pc' = [producer_pc EXCEPT ![p] = "offer"] /\ packet[p] % K = 0
        /\ accepted' = accepted + 1
        /\ UNCHANGED <<counter, rejected, enqueued, dropped, packet>>
    BY <1>3 DEF Channel!Keep
  <2>2. Channel!WillKeep' = Channel!WillKeep \ {p} /\ p \in Channel!WillKeep
    BY <1>0, <2>1 DEF Channel!WillKeep, Channel!Drawing, Channel!TypeOK
  <2>4. Channel!Cardinality(Channel!WillKeep') = Channel!Cardinality(Channel!WillKeep) - 1 /\ Channel!Cardinality(Channel!WillKeep) \in Nat
    BY <2>2, WillKeepFinite, FS_RemoveElement, ChannelSets
  <2>5. /\ Channel!Cardinality(Channel!Drawing') = Channel!Cardinality(Channel!Drawing) - 1
        /\ Channel!Cardinality(Channel!Offering') = Channel!Cardinality(Channel!Offering) + 1
        /\ Channel!Cardinality(Channel!Drawing) \in Nat
        /\ Channel!Cardinality(Channel!Offering) \in Nat
    <3>1. /\ Moved(Channel!Drawing, Channel!Drawing', producer_pc[p] = "sampled", "offer" = "sampled")
          /\ Moved(Channel!Offering, Channel!Offering', producer_pc[p] \in Offers, "offer" \in Offers)
      BY <1>0, <2>1, PlaceCounts
    <3> QED
      BY <2>1, <3>1 DEF Moved, Offers
  <2>6. (counter' + K - 1) \div K = accepted' + Channel!Cardinality(Channel!WillKeep')
    BY <1>0, <2>1, <2>4 DEF Channel!CountInv
  <2> QED
    BY <1>0, <2>1, <2>5, <2>6 DEF Channel!CountInv
<1>4. ASSUME NEW p \in Producers, Channel!Skip(p)
      PROVE  /\ Channel!CountInv' /\ counter' \in 0..MaxPackets
             /\ accepted' \in Nat /\ rejected' \in Nat /\ enqueued' \in Nat
             /\ dropped' \in Nat
  <2>1. /\ producer_pc[p] = "sampled"
        /\ producer_pc' = [producer_pc EXCEPT ![p] = "idle"] /\ packet[p] % K # 0
        /\ rejected' = rejected + 1 /\ packet' = [packet EXCEPT ![p] = Channel!NoPacket]
        /\ UNCHANGED <<counter, accepted, enqueued, dropped>>
    BY <1>4 DEF Channel!Skip
  <2>2. Channel!WillKeep' = Channel!WillKeep
    BY <1>0, <2>1 DEF Channel!WillKeep, Channel!Drawing, Channel!TypeOK
  <2>5. /\ Channel!Cardinality(Channel!Drawing') = Channel!Cardinality(Channel!Drawing) - 1
        /\ Channel!Cardinality(Channel!Offering') = Channel!Cardinality(Channel!Offering)
        /\ Channel!Cardinality(Channel!Drawing) \in Nat
        /\ Channel!Cardinality(Channel!Offering) \in Nat
    <3>1. /\ Moved(Channel!Drawing, Channel!Drawing', producer_pc[p] = "sampled", "idle" = "sampled")
          /\ Moved(Channel!Offering, Channel!Offering', producer_pc[p] \in Offers, "idle" \in Offers)
      BY <1>0, <2>1, PlaceCounts
    <3> QED
      BY <2>1, <3>1 DEF Moved, Offers
  <2> QED
    BY <1>0, <2>1, <2>2, <2>5, WillKeepFinite DEF Channel!CountInv
<1>5. ASSUME NEW p \in Producers, Channel!TrySend(p) \/ Channel!CountOffer(p)
      PROVE  /\ Channel!CountInv' /\ counter' \in 0..MaxPackets
             /\ accepted' \in Nat /\ rejected' \in Nat /\ enqueued' \in Nat
             /\ dropped' \in Nat
  <2>1. PICK to \in {"count_enqueued", "count_dropped", "idle"} :
          /\ producer_pc' = [producer_pc EXCEPT ![p] = to] /\ p \in Channel!Offering
          /\ UNCHANGED <<counter, accepted, rejected>>
          /\ \/ to # "idle" /\ UNCHANGED <<enqueued, dropped, packet>>
             \/ /\ to = "idle" /\ packet' = [packet EXCEPT ![p] = Channel!NoPacket]
                /\ \/ enqueued' = enqueued + 1 /\ dropped' = dropped
                   \/ dropped' = dropped + 1 /\ enqueued' = enqueued
    BY <1>5 DEF Channel!TrySend, Channel!CountOffer, Channel!samplerVars,
                Channel!Offering, Offers
  <2>2. Channel!WillKeep' = Channel!WillKeep
    BY <1>0, <2>1 DEF Channel!WillKeep, Channel!Drawing, Channel!Offering,
                      Channel!TypeOK
  <2>5. /\ Channel!Cardinality(Channel!Drawing') = Channel!Cardinality(Channel!Drawing)
        /\ Channel!Cardinality(Channel!Offering')
             = Channel!Cardinality(Channel!Offering) - (IF to = "idle" THEN 1 ELSE 0)
        /\ Channel!Cardinality(Channel!Drawing) \in Nat
        /\ Channel!Cardinality(Channel!Offering) \in Nat
    <3>1. /\ Moved(Channel!Drawing, Channel!Drawing', producer_pc[p] = "sampled", to = "sampled")
          /\ Moved(Channel!Offering, Channel!Offering', producer_pc[p] \in Offers, to \in Offers)
      BY <1>0, <2>1, PlaceCounts
    <3> QED
      BY <2>1, <3>1 DEF Moved, Channel!Offering, Offers
  <2> QED
    BY <1>0, <2>1, <2>2, <2>5, WillKeepFinite DEF Channel!CountInv
<1> QED
  BY <1>1, <1>2, <1>3, <1>4, <1>5
  DEF Channel!Next, Channel!Classifier, Channel!DropProducer, Channel!BeginDrain,
      Channel!BeginRecv, Channel!Updater, Channel!TryRecv, Channel!RecvPoint,
      Channel!Take, Channel!Ingest, Channel!EndDrain, Channel!RecvNone,
      Channel!DropConsumer, channelVars, Channel!samplerVars

\* A packet in hand is one the counter gave out, and in one producer's hands.
LEMMA ChannelPacketStep ==
  ASSUME Channel!ChannelInv, [Channel!Next]_channelVars
  PROVE  Channel!PacketInv'
<1>0. /\ Channel!TypeOK /\ Channel!PacketInv /\ counter \in Nat
      /\ producer_pc \in [Producers -> {"idle", "sampled", "offer", "count_enqueued", "count_dropped"}]
      /\ DOMAIN packet = Producers
  BY ChannelSets DEF Channel!ChannelInv, Channel!TypeOK
<1>1. CASE UNCHANGED <<counter, producer_pc, packet, senders>>
  BY <1>0, <1>1 DEF Channel!PacketInv, Channel!Holding
<1>2. ASSUME NEW p \in Producers, Channel!Sample(p)
      PROVE  Channel!PacketInv'
  BY <1>0, <1>2 DEF Channel!PacketInv, Channel!Holding, Channel!Sample
<1>3. ASSUME NEW p \in Producers, Channel!Keep(p) \/ Channel!TrySend(p)
      PROVE  Channel!PacketInv'
  BY <1>0, <1>3 DEF Channel!PacketInv, Channel!Holding, Channel!Keep, Channel!TrySend,
                    Channel!samplerVars
<1>4. ASSUME NEW p \in Producers, Channel!Skip(p) \/ Channel!CountOffer(p)
      PROVE  Channel!PacketInv'
  BY <1>0, <1>4 DEF Channel!PacketInv, Channel!Holding, Channel!Skip,
                    Channel!CountOffer, Channel!samplerVars
<1>5. ASSUME NEW p \in Producers, Channel!DropProducer(p)
      PROVE  Channel!PacketInv'
  BY <1>0, <1>5 DEF Channel!PacketInv, Channel!Holding, Channel!DropProducer,
                    Channel!samplerVars
<1> QED
  BY <1>1, <1>2, <1>3, <1>4, <1>5
  DEF Channel!Next, Channel!Classifier, Channel!BeginDrain, Channel!BeginRecv,
      Channel!Updater, Channel!TryRecv, Channel!RecvPoint, Channel!Take,
      Channel!Ingest, Channel!EndDrain, Channel!RecvNone, Channel!DropConsumer,
      channelVars, Channel!samplerVars

\* The values of the variables stay in their sets: the counts because they add
\* up to what the counter gave out.
LEMMA ChannelTypeStep ==
  ASSUME Channel!ChannelInv, [Channel!Next]_channelVars
  PROVE  Channel!TypeOK'
<1> DEFINE Numbers == 0..MaxPackets - 1
<1>0. Channel!TypeOK /\ Channel!CountInv /\ Channel!PacketInv /\ counter \in Nat
      /\ MaxPackets \in Nat
      /\ counter <= MaxPackets
  BY ChannelSets DEF Channel!ChannelInv, Channel!TypeOK
<1>1. counter' \in 0..MaxPackets
      /\ {accepted, rejected, enqueued, dropped}' \subseteq 0..MaxPackets
  <2>1. /\ Channel!CountInv' /\ counter' \in 0..MaxPackets
        /\ accepted' \in Nat /\ rejected' \in Nat /\ enqueued' \in Nat /\ dropped' \in Nat
    BY ChannelCountStep
  <2>2. Channel!Drawing' \in SUBSET Producers /\ Channel!Offering' \in SUBSET Producers
    BY DEF Channel!Drawing, Channel!Offering
  <2>3. Channel!Cardinality(Channel!Drawing') \in Nat
        /\ Channel!Cardinality(Channel!Offering') \in Nat
    BY <2>2, FS_Subset, FS_CardinalityType, ChannelSets
  <2>4. accepted' <= MaxPackets /\ rejected' <= MaxPackets
    BY <1>0, <2>1, <2>3 DEF Channel!CountInv
  <2>5. enqueued' <= MaxPackets /\ dropped' <= MaxPackets
    BY <1>0, <2>1, <2>3, <2>4 DEF Channel!CountInv
  <2> QED
    BY <1>0, <2>1, <2>4, <2>5
<1>2. queue' \in Seq(Numbers) /\ Len(queue') <= Capacity /\ delivered' \in Seq(Numbers)
  <2>0. /\ queue \in Seq(Numbers) /\ delivered \in Seq(Numbers) /\ Len(queue) <= Capacity
        /\ Len(queue) \in Nat /\ Capacity \in Nat
    BY <1>0, LenProperties, ChannelSets DEF Channel!TypeOK
  <2>1. CASE UNCHANGED <<queue, delivered>>
    BY <2>0, <2>1
  <2>2. ASSUME NEW p \in Producers, Channel!TrySend(p)
        PROVE  queue' \in Seq(Numbers) /\ Len(queue') <= Capacity
               /\ delivered' \in Seq(Numbers)
    <3>1. packet[p] \in Numbers
      BY <1>0, <2>2 DEF Channel!PacketInv, Channel!TrySend
    <3> HIDE DEF Numbers
    <3>2. Append(queue, packet[p]) \in Seq(Numbers)
          /\ Len(Append(queue, packet[p])) = Len(queue) + 1
      BY <2>0, <3>1, AppendProperties
    <3>3. delivered' = delivered
      BY <2>2 DEF Channel!TrySend, Channel!updaterVars
    <3>4. \/ queue' = queue
          \/ Len(queue) < Capacity /\ queue' = Append(queue, packet[p])
      BY <2>2 DEF Channel!TrySend
    <3> QED
      BY <2>0, <3>2, <3>3, <3>4
  <2>3. ASSUME NEW from, NEW to, Channel!Take(from, to)
        PROVE  queue' \in Seq(Numbers) /\ Len(queue') <= Capacity
               /\ delivered' \in Seq(Numbers)
    <3> HIDE DEF Numbers
    <3>1. Head(queue) \in Numbers /\ Tail(queue) \in Seq(Numbers)
          /\ Len(Tail(queue)) = Len(queue) - 1
      BY <2>0, <2>3, HeadTailProperties DEF Channel!Take
    <3>2. Append(delivered, Head(queue)) \in Seq(Numbers)
      BY <2>0, <3>1, AppendProperties
    <3> QED
      BY <2>0, <2>3, <3>1, <3>2 DEF Channel!Take
  <2>4. CASE Channel!DropConsumer
    BY <2>0, <2>4, EmptySeq DEF Channel!DropConsumer
  <2> QED
    BY <2>1, <2>2, <2>3, <2>4
    DEF Channel!Next, Channel!Classifier, Channel!Sample, Channel!Keep, Channel!Skip,
        Channel!CountOffer, Channel!DropProducer, Channel!BeginDrain,
        Channel!BeginRecv, Channel!Updater, Channel!TryRecv, Channel!RecvPoint,
        Channel!Ingest, Channel!EndDrain, Channel!RecvNone, channelVars,
        Channel!updaterVars
<1>3. senders' \subseteq Producers /\ receiver' \in BOOLEAN
  BY DEF Channel!ChannelInv, Channel!TypeOK, Channel!Next, Channel!Classifier,
         Channel!Sample, Channel!Keep, Channel!Skip, Channel!TrySend,
         Channel!CountOffer, Channel!DropProducer, Channel!BeginDrain,
         Channel!BeginRecv, Channel!Updater, Channel!TryRecv, Channel!RecvPoint,
         Channel!Take, Channel!Ingest, Channel!EndDrain, Channel!RecvNone,
         Channel!DropConsumer, channelVars, Channel!updaterVars
<1>4. /\ producer_pc' \in [Producers -> {"idle", "sampled", "offer", "count_enqueued", "count_dropped"}]
      /\ packet' \in [Producers -> Numbers \cup {Channel!NoPacket}]
  <2>1. counter < MaxPackets => counter \in Numbers
    BY <1>0
  <2> HIDE DEF Numbers
  <2> QED
    BY ZenonT(40), <1>0, <2>1
    DEF Channel!TypeOK, Numbers, Channel!Next, Channel!Classifier, Channel!Sample,
        Channel!Keep, Channel!Skip, Channel!TrySend, Channel!CountOffer,
        Channel!DropProducer, Channel!BeginDrain, Channel!BeginRecv, Channel!Updater,
        Channel!TryRecv, Channel!RecvPoint, Channel!Take, Channel!Ingest,
        Channel!EndDrain, Channel!RecvNone, Channel!DropConsumer, channelVars,
        Channel!updaterVars
<1>5. updater' \in {"idle", "drain", "sink", "recv", "shutdown"}
  BY DEF Channel!ChannelInv, Channel!TypeOK, Channel!Next, Channel!Classifier,
         Channel!Sample, Channel!Keep, Channel!Skip, Channel!TrySend,
         Channel!CountOffer, Channel!DropProducer, Channel!BeginDrain,
         Channel!BeginRecv, Channel!Updater, Channel!TryRecv, Channel!RecvPoint,
         Channel!Take, Channel!Ingest, Channel!EndDrain, Channel!RecvNone,
         Channel!DropConsumer, channelVars, Channel!updaterVars
<1> QED
  BY <1>1, <1>2, <1>3, <1>4, <1>5 DEF Channel!TypeOK

\* While the consumer lives, what the channel has taken stays what its
\* producers counted, each packet once.
LEMMA ChannelSentStep ==
  ASSUME Channel!ChannelInv, [Channel!Next]_channelVars, receiver'
  PROVE  Channel!SentInv'
<1> DEFINE Numbers == 0..MaxPackets - 1
<1>0. /\ Channel!TypeOK /\ Channel!PacketInv /\ counter \in Nat /\ enqueued \in Nat
      /\ delivered \in Seq(Numbers) /\ queue \in Seq(Numbers)
      /\ counter <= MaxPackets /\ MaxPackets \in Nat
  BY ChannelSets DEF Channel!ChannelInv, Channel!TypeOK
<1>1. receiver
  BY DEF Channel!Next, Channel!Classifier, Channel!Sample, Channel!Keep, Channel!Skip,
         Channel!TrySend, Channel!CountOffer, Channel!DropProducer, Channel!BeginDrain,
         Channel!BeginRecv, Channel!Updater, Channel!TryRecv, Channel!RecvPoint,
         Channel!Take, Channel!Ingest, Channel!EndDrain, Channel!RecvNone,
         Channel!DropConsumer, channelVars, Channel!updaterVars
<1>2. Channel!SentInv
  BY <1>1 DEF Channel!ChannelInv
<1> HIDE DEF Numbers
<1>3. Channel!Sent \in Seq(Numbers) /\ Len(Channel!Sent) \in Nat
  BY <1>0, ConcatProperties, LenProperties DEF Channel!Sent
<1>4. \A i \in 1..Len(Channel!Sent) : Channel!Sent[i] \in Nat /\ Channel!Sent[i] < counter
  <2>1. \A i \in 1..Len(Channel!Sent) : Channel!Sent[i] \in Numbers
    BY <1>3, ElementOfSeq
  <2> QED
    BY <1>2, <2>1 DEF Channel!SentInv, Numbers
<1>5. ASSUME UNCHANGED <<counter, enqueued, producer_pc, packet>>, Channel!Sent' = Channel!Sent
      PROVE  Channel!SentInv'
  BY <1>2, <1>5 DEF Channel!SentInv, Channel!Holding, Channel!Counting
<1>6. ASSUME NEW p \in Producers, Channel!Sample(p)
      PROVE  Channel!SentInv'
  <2>1. /\ counter' = counter + 1 /\ Channel!Sent' = Channel!Sent /\ enqueued' = enqueued
        /\ Channel!Holding' \subseteq Channel!Holding \cup {p} /\ packet'[p] = counter
        /\ \A q \in Producers : q # p => packet'[q] = packet[q]
        /\ p \notin Channel!Holding /\ Channel!Counting' = Channel!Counting
    BY <1>0, <1>6 DEF Channel!Sample, Channel!Sent, Channel!Holding, Channel!Counting,
                      Channel!TypeOK, Channel!updaterVars
  <2>2. \A i \in 1..Len(Channel!Sent) : \A q \in Channel!Holding' : Channel!Sent[i] # packet'[q]
    BY <1>0, <1>2, <1>4, <2>1 DEF Channel!SentInv, Channel!Holding
  <2> QED
    BY <1>0, <1>2, <1>4, <2>1, <2>2 DEF Channel!SentInv
<1>7. ASSUME NEW p \in Producers, Channel!Keep(p)
      PROVE  Channel!SentInv'
  <2>1. /\ UNCHANGED <<counter, enqueued, packet>> /\ Channel!Sent' = Channel!Sent
        /\ Channel!Holding' = Channel!Holding /\ Channel!Counting' = Channel!Counting
    BY <1>0, <1>7 DEF Channel!Keep, Channel!Sent, Channel!Holding, Channel!Counting,
                      Channel!TypeOK, Channel!updaterVars
  <2> QED
    BY <1>2, <2>1 DEF Channel!SentInv
<1>8. ASSUME NEW p \in Producers, Channel!Skip(p)
      PROVE  Channel!SentInv'
  <2>1. /\ UNCHANGED <<counter, enqueued>> /\ Channel!Sent' = Channel!Sent
        /\ Channel!Holding' \subseteq Channel!Holding \ {p}
        /\ Channel!Counting' = Channel!Counting
        /\ \A q \in Producers : q # p => packet'[q] = packet[q]
    BY <1>0, <1>8 DEF Channel!Skip, Channel!Sent, Channel!Holding, Channel!Counting,
                      Channel!TypeOK, Channel!updaterVars
  <2> QED
    BY <1>2, <2>1 DEF Channel!SentInv, Channel!Holding
<1>9. ASSUME NEW p \in Producers, Channel!TrySend(p)
      PROVE  Channel!SentInv'
  <2>1. CASE Len(queue) < Capacity
    <3>1. /\ producer_pc[p] = "offer"
          /\ producer_pc' = [producer_pc EXCEPT ![p] = "count_enqueued"]
          /\ queue' = Append(queue, packet[p])
          /\ UNCHANGED <<counter, enqueued, packet, delivered>>
      BY <1>1, <1>9, <2>1 DEF Channel!TrySend, Channel!samplerVars, Channel!updaterVars
    <3>2. p \in Channel!Holding /\ packet[p] < counter /\ packet[p] \in Nat
          /\ packet[p] \in Numbers
      BY <1>0, <3>1 DEF Channel!PacketInv, Channel!Holding, Numbers
    <3>3. Channel!Sent' = Append(Channel!Sent, packet[p])
      BY <1>0, <3>1, <3>2, SendExtendsSent DEF Channel!Sent
    <3>4. /\ Len(Channel!Sent') = Len(Channel!Sent) + 1
          /\ \A i \in 1..Len(Channel!Sent) : Channel!Sent'[i] = Channel!Sent[i]
          /\ Channel!Sent'[Len(Channel!Sent) + 1] = packet[p]
      BY <1>3, <3>2, <3>3, AppendProperties
    <3>5. Channel!Holding' = Channel!Holding \ {p}
      BY <1>0, <3>1 DEF Channel!Holding, Channel!TypeOK
    <3>6. Channel!Cardinality(Channel!Counting') = Channel!Cardinality(Channel!Counting) + 1 /\ Channel!Cardinality(Channel!Counting) \in Nat
      <4>1. Moved(Channel!Counting, Channel!Counting', producer_pc[p] = "count_enqueued",
                  "count_enqueued" = "count_enqueued")
        BY <1>0, <3>1, PlaceCounts
      <4> QED
        BY <3>1, <4>1 DEF Moved
    <3>7. \A i \in 1..Len(Channel!Sent') :
            \/ i \in 1..Len(Channel!Sent) /\ Channel!Sent'[i] = Channel!Sent[i]
            \/ i = Len(Channel!Sent) + 1 /\ Channel!Sent'[i] = packet[p]
      BY <1>3, <3>4
    <3>8. \A i \in 1..Len(Channel!Sent) : Channel!Sent[i] # packet[p]
      BY <1>2, <3>2 DEF Channel!SentInv
    <3>9. \A i \in 1..Len(Channel!Sent') :
            Channel!Sent'[i] < counter' /\ \A q \in Channel!Holding' : Channel!Sent'[i] # packet'[q]
      BY <1>0, <1>2, <3>1, <3>2, <3>5, <3>7 DEF Channel!SentInv, Channel!PacketInv
    <3>10. \A i, j \in 1..Len(Channel!Sent') : Channel!Sent'[i] = Channel!Sent'[j] => i = j
      BY <1>2, <3>7, <3>8 DEF Channel!SentInv
    <3>11. Len(Channel!Sent') = enqueued' + Channel!Cardinality(Channel!Counting')
      BY <1>0, <1>2, <1>3, <3>1, <3>4, <3>6 DEF Channel!SentInv
    <3> QED
      BY <3>9, <3>10, <3>11 DEF Channel!SentInv
  <2>2. CASE ~(Len(queue) < Capacity)
    <3>1. /\ UNCHANGED <<counter, enqueued, packet>> /\ Channel!Sent' = Channel!Sent
          /\ Channel!Holding' \subseteq Channel!Holding
          /\ Channel!Counting' = Channel!Counting
      BY <1>0, <1>9, <2>2
      DEF Channel!TrySend, Channel!Sent, Channel!Holding, Channel!Counting,
          Channel!TypeOK, Channel!samplerVars, Channel!updaterVars
    <3> QED
      BY <1>2, <3>1 DEF Channel!SentInv
  <2> QED
    BY <2>1, <2>2
<1>10. ASSUME NEW p \in Producers, Channel!CountOffer(p)
       PROVE  Channel!SentInv'
  <2>1. /\ counter' = counter /\ Channel!Sent' = Channel!Sent
        /\ Channel!Holding' \subseteq Channel!Holding
        /\ \A q \in Channel!Holding' : packet'[q] = packet[q]
        /\ producer_pc[p] \in {"count_enqueued", "count_dropped"}
        /\ producer_pc' = [producer_pc EXCEPT ![p] = "idle"]
        /\ enqueued' = IF producer_pc[p] = "count_enqueued" THEN enqueued + 1 ELSE enqueued
    BY <1>0, <1>10 DEF Channel!CountOffer, Channel!Sent, Channel!Holding,
                       Channel!TypeOK, Channel!samplerVars, Channel!updaterVars
  <2>2. Len(Channel!Sent) = enqueued' + Channel!Cardinality(Channel!Counting')
    <3>1. Moved(Channel!Counting, Channel!Counting', producer_pc[p] = "count_enqueued",
                "idle" = "count_enqueued")
      BY <1>0, <2>1, PlaceCounts
    <3>2. Len(Channel!Sent) = enqueued + Channel!Cardinality(Channel!Counting)
      BY <1>2 DEF Channel!SentInv
    <3> QED
      BY <1>0, <2>1, <3>1, <3>2 DEF Moved
  <2> QED
    BY <1>2, <2>1, <2>2 DEF Channel!SentInv
<1>11. ASSUME NEW from, NEW to, Channel!Take(from, to)
       PROVE  Channel!SentInv'
  <2>1. Channel!Sent' = Append(delivered, Head(queue)) \o Tail(queue) /\ queue # <<>>
    BY <1>11 DEF Channel!Take, Channel!Sent
  <2>2. Channel!Sent' = Channel!Sent
    BY <1>0, <2>1, TakeKeepsSent DEF Channel!Sent
  <2> QED
    BY <1>5, <1>11, <2>2 DEF Channel!Take, Channel!samplerVars
<1>12. ASSUME UNCHANGED <<counter, enqueued, producer_pc, packet, queue, delivered>>
       PROVE  Channel!SentInv'
  BY <1>5, <1>12 DEF Channel!Sent
<1> QED
  BY <1>6, <1>7, <1>8, <1>9, <1>10, <1>11, <1>12
  DEF Channel!Next, Channel!Classifier, Channel!DropProducer, Channel!BeginDrain,
      Channel!BeginRecv, Channel!Updater, Channel!TryRecv, Channel!RecvPoint,
      Channel!Ingest, Channel!EndDrain, Channel!RecvNone, Channel!DropConsumer,
      channelVars, Channel!samplerVars, Channel!updaterVars

\* The updater is at work only while its consumer lives, and it ends when every
\* producer has gone and the channel is empty.
LEMMA ChannelUpdaterStep ==
  ASSUME Channel!ChannelInv, [Channel!Next]_channelVars
  PROVE  Channel!UpdaterInv'
<1>1. Channel!TypeOK /\ Channel!UpdaterInv /\ Channel!PacketInv
  BY DEF Channel!ChannelInv
<1> QED
  BY <1>1 DEF Channel!TypeOK, Channel!PacketInv, Channel!UpdaterInv, Channel!Next,
              Channel!Classifier, Channel!Sample, Channel!Keep, Channel!Skip,
              Channel!TrySend, Channel!CountOffer, Channel!DropProducer,
              Channel!BeginDrain, Channel!BeginRecv, Channel!Updater, Channel!TryRecv,
              Channel!RecvPoint, Channel!Take, Channel!Ingest, Channel!EndDrain,
              Channel!RecvNone, Channel!DropConsumer, channelVars, Channel!samplerVars,
              Channel!updaterVars

------------------------------------------------------------------------------

LEMMA ChannelInit ==
  ASSUME Channel!Init
  PROVE  Channel!ChannelInv
<1>1. Channel!Drawing = {} /\ Channel!Offering = {} /\ Channel!Counting = {}
      /\ Channel!WillKeep = {} /\ Channel!Holding = {}
  BY DEF Channel!Init, Channel!Drawing, Channel!Offering, Channel!Counting,
         Channel!WillKeep, Channel!Holding
<1>2. Channel!Cardinality({}) = 0
  BY FS_EmptySet, ChannelSets
<1>3. (0 + KeepEveryN - 1) \div KeepEveryN = 0
  BY ChannelSets
<1>4. Channel!CountInv
  BY <1>1, <1>2, <1>3 DEF Channel!Init, Channel!CountInv
<1>5. Channel!Sent = <<>> /\ Len(Channel!Sent) = 0
  BY ConcatEmptySeq, EmptySeq DEF Channel!Init, Channel!Sent
<1>6. Channel!SentInv
  BY <1>1, <1>2, <1>5 DEF Channel!Init, Channel!SentInv
<1>7. Channel!TypeOK
  BY ChannelSets DEF Channel!Init, Channel!TypeOK, Channel!NoPacket
<1> QED
  BY <1>1, <1>4, <1>6, <1>7 DEF Channel!Init, Channel!ChannelInv, Channel!PacketInv,
      Channel!UpdaterInv

LEMMA ChannelKept ==
  ASSUME Channel!ChannelInv, [Channel!Next]_channelVars
  PROVE  Channel!ChannelInv'
BY ChannelCountStep, ChannelPacketStep, ChannelTypeStep, ChannelSentStep, ChannelUpdaterStep
DEF Channel!ChannelInv

\* The invariant holds of every reachable state, whichever part a behaviour is.
THEOREM ChannelInvariance == AllSpec => []Channel!ChannelInv
<1>1. AllInit => Channel!ChannelInv
  BY ChannelInit DEF AllInit
<1>2. Channel!ChannelInv /\ [AllNext]_<<part, vars, stripeVars, channelVars>>
        => Channel!ChannelInv'
  <2> SUFFICES ASSUME Channel!ChannelInv, [AllNext]_<<part, vars, stripeVars, channelVars>>
               PROVE  Channel!ChannelInv'
    OBVIOUS
  <2>1. [Channel!Next]_channelVars
    BY DEF AllNext, CapStep, StripeStep, ChannelStep
  <2> QED
    BY <2>1, ChannelKept
<1> QED
  BY <1>1, <1>2, PTL DEF AllSpec

\* With no call under way, nothing is drawn or offered.
LEMMA QuietCounts ==
  ASSUME Channel!Quiet
  PROVE  /\ Channel!Cardinality(Channel!Drawing) = 0
         /\ Channel!Cardinality(Channel!Offering) = 0
         /\ Channel!Cardinality(Channel!WillKeep) = 0
         /\ Channel!Cardinality(Channel!Counting) = 0
<1>1. Channel!Drawing = {} /\ Channel!Offering = {} /\ Channel!WillKeep = {}
      /\ Channel!Counting = {}
  BY DEF Channel!Quiet, Channel!Drawing, Channel!Offering, Channel!WillKeep,
         Channel!Counting
<1> QED
  BY <1>1, FS_EmptySet, ChannelSets

\* Between calls the totals are exact (UpdateSampler::counts and the producers'
\* counts), for every stride and however the calls interleaved.
LEMMA ExactTotals ==
  ASSUME Channel!ChannelInv
  PROVE  Channel!TypeOK /\ Channel!TotalsAreExact
<1> SUFFICES ASSUME Channel!Quiet PROVE Channel!TotalsAreExact
  BY DEF Channel!ChannelInv, Channel!TotalsAreExact
<1>1. Channel!CountInv /\ accepted \in Nat /\ rejected \in Nat /\ enqueued \in Nat
      /\ dropped \in Nat
  BY ChannelSets DEF Channel!ChannelInv, Channel!TypeOK
<1> QED
  BY <1>1, QuietCounts DEF Channel!CountInv, Channel!TotalsAreExact

\* While the consumer lives, each point enqueued is in the channel or was handed
\* over, once; a clean shutdown (recv answers None) leaves none behind.
LEMMA Delivery ==
  ASSUME Channel!ChannelInv
  PROVE  Channel!EnqueuedIsDelivered /\ Channel!ShutdownIsClean
<1>1. /\ receiver => Channel!SentInv
      /\ Channel!UpdaterInv /\ Channel!PacketInv /\ enqueued \in Nat
      /\ delivered \in Seq(0..MaxPackets - 1) /\ queue \in Seq(0..MaxPackets - 1)
  BY ChannelSets DEF Channel!ChannelInv, Channel!TypeOK
<1>2. Len(delivered \o queue) = Len(delivered) + Len(queue)
      /\ Len(delivered) \in Nat /\ Len(queue) \in Nat
  BY <1>1, ConcatProperties, LenProperties
<1>3. Channel!EnqueuedIsDelivered
  BY <1>1, <1>2 DEF Channel!SentInv, Channel!Sent, Channel!Counting,
                    Channel!EnqueuedIsDelivered
<1>4. ASSUME updater = "shutdown"
      PROVE  Channel!Quiet /\ queue = <<>> /\ Len(delivered) = enqueued
  <2>1. Channel!Quiet /\ queue = <<>> /\ Channel!SentInv
    BY <1>1, <1>4 DEF Channel!UpdaterInv, Channel!PacketInv, Channel!Quiet
  <2>2. Len(queue) = 0
    BY <2>1, EmptySeq
  <2>3. Len(Channel!Sent) = Len(delivered)
    BY <1>2, <2>2 DEF Channel!Sent
  <2>4. Len(Channel!Sent) = enqueued + Channel!Cardinality(Channel!Counting)
    BY <2>1 DEF Channel!SentInv
  <2>5. Channel!Cardinality(Channel!Counting) = 0
    BY <2>1, QuietCounts
  <2> QED
    BY <1>1, <2>1, <2>3, <2>4, <2>5
<1> QED
  BY <1>3, <1>4 DEF Channel!ShutdownIsClean

\* Between calls the sampler kept one packet in KeepEveryN, rounded up, and each
\* was counted once, as enqueued or as dropped (UpdateSampler::counts and the
\* producers' counts), for any stride, capacity and number of producers.
THEOREM TotalsStayExact == AllSpec => []TotalsAreExact
BY ChannelInvariance, ExactTotals, PTL DEF TotalsAreExact

\* While the consumer lives, each point a producer was told is enqueued is in
\* the channel or was handed to the sink, once, and recv answers None only when
\* none is left.
THEOREM EnqueuedStaysDelivered == AllSpec => []EnqueuedIsDelivered
BY ChannelInvariance, Delivery, PTL DEF EnqueuedIsDelivered

------------------------------------------------------------------------------
(* The striped counter.                                                     *)

\* The sums of StripedPair: what flushes have claimed and not sent, the partial
\* batches, and what a flush has yet to load.
Claimed == [t \in Threads |-> IF stripe_pc[t] = "send" THEN sum[t] - prev[t] ELSE 0]
Partial == [s \in Stripes |-> counts[s] % Batch]
Left(t) == [s \in Stripes |-> IF s \in unread[t] THEN counts[s] ELSE 0]

LEMMA StripeSums ==
  /\ Stripe!Total = Sum(counts) /\ Stripe!InFlight = Sum(Claimed)
  /\ Stripe!Residue = Sum(Partial)
  /\ \A t \in Threads : Stripe!Unloaded(t) = Sum(Left(t))
  /\ Stripe!Total' = Sum(counts') /\ Stripe!InFlight' = Sum(Claimed')
  /\ Stripe!Residue' = Sum(Partial')
  /\ \A t \in Threads : Stripe!Unloaded(t)' = Sum(Left(t)')
<1>1. Stripe!Total = Sum(counts) /\ Stripe!Total' = Sum(counts')
  BY DEF Stripe!Total, Sum, FoldFunction, FoldFunctionOnSet, MapThenFoldSet,
         Stripe!FoldFunction, Stripe!FoldFunctionOnSet, Stripe!MapThenFoldSet
<1>2. Stripe!InFlight = Sum(Claimed) /\ Stripe!InFlight' = Sum(Claimed')
  BY DEF Stripe!InFlight, Claimed, Sum, FoldFunction, FoldFunctionOnSet, MapThenFoldSet,
         Stripe!FoldFunction, Stripe!FoldFunctionOnSet, Stripe!MapThenFoldSet
<1>3. Stripe!Residue = Sum(Partial) /\ Stripe!Residue' = Sum(Partial')
  BY DEF Stripe!Residue, Partial, Sum, FoldFunction, FoldFunctionOnSet, MapThenFoldSet,
         Stripe!FoldFunction, Stripe!FoldFunctionOnSet, Stripe!MapThenFoldSet
<1>4. ASSUME NEW t \in Threads
      PROVE  Stripe!Unloaded(t) = Sum(Left(t)) /\ Stripe!Unloaded(t)' = Sum(Left(t)')
  BY DEF Stripe!Unloaded, Left, Sum, FoldFunction, FoldFunctionOnSet, MapThenFoldSet,
         Stripe!FoldFunction, Stripe!FoldFunctionOnSet, Stripe!MapThenFoldSet
<1> QED
  BY <1>1, <1>2, <1>3, <1>4

\* The parameters in the terms of this module.
LEMMA StripeParameters ==
  /\ IsFiniteSet(Threads) /\ IsFiniteSet(Stripes) /\ "flushed" \notin Stripes
  /\ StripeOf \in [Threads -> Stripes] /\ Batch \in Nat \ {0} /\ MaxEvents \in Nat
BY HotPathParameters DEF Stripe!StripeAssumption, IsFiniteSet, Stripe!IsFiniteSet

LEMMA StripeTypes ==
  ASSUME Stripe!StripeInv
  PROVE  /\ counts \in [Stripes -> Nat] /\ Partial \in [Stripes -> Nat]
         /\ \A t \in Threads : Left(t) \in [Stripes -> Nat]
         /\ Claimed \in [Threads -> Nat]
         /\ flushed \in Nat /\ sent \in Nat
         /\ sum \in [Threads -> Nat] /\ prev \in [Threads -> Nat] /\ goal \in [Threads -> Nat]
         /\ stripe_pc \in [Threads -> {"idle", "load", "send"}]
         /\ unread \in [Threads -> SUBSET (Stripes \cup {"flushed"})]
         /\ Sum(counts) \in Nat /\ Sum(Partial) \in Nat /\ Sum(Claimed) \in Nat
         /\ \A t \in Threads : Sum(Left(t)) \in Nat
<1>1. Stripe!TypeOK /\ \A t \in Threads : Stripe!FlushInv(t)
  BY DEF Stripe!StripeInv
<1>2. /\ counts \in [Stripes -> Nat]
      /\ flushed \in Nat /\ sent \in Nat
      /\ sum \in [Threads -> Nat] /\ prev \in [Threads -> Nat] /\ goal \in [Threads -> Nat]
      /\ stripe_pc \in [Threads -> {"idle", "load", "send"}]
      /\ unread \in [Threads -> SUBSET (Stripes \cup {"flushed"})]
  BY <1>1, StripeParameters DEF Stripe!TypeOK
<1>3. Partial \in [Stripes -> Nat]
  <2>1. \A s \in Stripes : counts[s] % Batch \in Nat
    BY <1>2, StripeParameters
  <2> QED
    BY <2>1 DEF Partial
<1>4. \A t \in Threads : Left(t) \in [Stripes -> Nat]
  BY <1>2 DEF Left
<1>5. Claimed \in [Threads -> Nat]
  <2>1. \A t \in Threads : stripe_pc[t] = "send" => sum[t] - prev[t] \in Nat
    BY <1>1, <1>2 DEF Stripe!FlushInv
  <2> QED
    BY <2>1 DEF Claimed
<1>6. Sum(counts) \in Nat /\ Sum(Partial) \in Nat /\ Sum(Claimed) \in Nat
  BY <1>2, <1>3, <1>5, StripeParameters, SumOfNats
<1>7. \A t \in Threads : Sum(Left(t)) \in Nat
  BY <1>4, StripeParameters, SumOfNats
<1> QED
  BY <1>2, <1>3, <1>4, <1>5, <1>6, <1>7

\* Division with remainder.
LEMMA Quotient ==
  ASSUME NEW n \in Nat, NEW b \in Nat \ {0}
  PROVE  \E q \in Nat, r \in 0..b-1 : n = b * q + r /\ n % b = r
<1>1. n = b * (n \div b) + (n % b) /\ n % b \in 0..b-1 /\ n \div b \in Nat
  OBVIOUS
<1> QED
  BY <1>1

LEMMA Remainder ==
  ASSUME NEW b \in Nat \ {0}, NEW q \in Nat, NEW r \in 0..b-1
  PROVE  (b * q + r) % b = r
OBVIOUS

\* A remainder grows by one unless it comes round.
LEMMA NextRemainder ==
  ASSUME NEW n \in Nat, NEW b \in Nat \ {0}, (n + 1) % b # 0
  PROVE  (n + 1) % b = (n % b) + 1
<1>1. PICK q \in Nat, r \in 0..b-1 : n = b * q + r /\ n % b = r
  BY Quotient
<1>2. CASE r = b - 1
  <2>1. n + 1 = b * (q + 1) + 0 /\ q + 1 \in Nat /\ 0 \in 0..b-1
    BY <1>1, <1>2
  <2>2. (b * (q + 1) + 0) % b = 0
    BY <2>1, Remainder
  <2> QED
    BY <2>1, <2>2
<1>3. CASE r # b - 1
  <2>1. n + 1 = b * q + (r + 1) /\ r + 1 \in 0..b-1
    BY <1>1, <1>3
  <2>2. (b * q + (r + 1)) % b = r + 1
    BY <2>1, Remainder
  <2> QED
    BY <1>1, <2>1, <2>2
<1> QED
  BY <1>2, <1>3

\* Another event on a stripe is one more in every sum that counts the stripe.
LEMMA CountOne ==
  ASSUME Stripe!StripeInv, NEW s \in Stripes,
         counts' = [counts EXCEPT ![s] = counts[s] + 1]
  PROVE  /\ Sum(counts') = Sum(counts) + 1
         /\ counts[s] <= Sum(counts)
         /\ Sum(Partial') \in Nat
         /\ (counts[s] + 1) % Batch # 0 => Sum(Partial') = Sum(Partial) + 1
         /\ \A t \in Threads : unread'[t] = unread[t] =>
              Sum(Left(t)') = Sum(Left(t)) + (IF s \in unread[t] THEN 1 ELSE 0)
<1>1. /\ counts \in [Stripes -> Nat] /\ counts' \in [Stripes -> Nat]
      /\ counts'[s] = counts[s] + 1 /\ \A r \in Stripes : r # s => counts'[r] = counts[r]
  BY StripeTypes
<1>2. Sum(counts') = Sum(counts) + 1
  <2>1. /\ counts \in [Stripes -> Int] /\ counts' \in [Stripes -> Int]
        /\ \A r \in Stripes : r # s => counts'[r] = counts[r]
    BY <1>1
  <2>2. Sum(counts') = Sum(counts) - counts[s] + counts'[s]
    <3>1. IsFiniteSet(Stripes)
      BY StripeParameters
    <3>2. \A g \in [Stripes -> Int] :
            (\A r \in Stripes : r # s => g[r] = counts[r]) =>
              Sum(g) = Sum(counts) - counts[s] + g[s]
      BY <2>1, <3>1, SumUpdate
    <3> QED
      BY <2>1, <3>2
  <2>3. Sum(counts) \in Nat /\ counts[s] \in Nat
    BY <1>1, StripeTypes
  <2> QED
    BY <1>1, <2>2, <2>3
<1>3. counts[s] <= Sum(counts)
  <2> DEFINE zero == [counts EXCEPT ![s] = 0]
  <2>1. /\ zero \in [Stripes -> Nat] /\ zero[s] = 0
        /\ \A r \in Stripes : r # s => zero[r] = counts[r]
    BY <1>1
  <2> HIDE DEF zero
  <2>2. Sum(zero) \in Nat
    BY <2>1, StripeParameters, SumOfNats
  <2>3. Sum(zero) = Sum(counts) - counts[s] + zero[s]
    <3>1. counts \in [Stripes -> Int] /\ zero \in [Stripes -> Int]
      BY <1>1, <2>1
    <3> QED
      BY <2>1, <3>1, StripeParameters, SumUpdate
  <2>4. Sum(counts) \in Nat /\ counts[s] \in Nat
    BY <1>1, StripeTypes
  <2> QED
    BY <2>1, <2>2, <2>3, <2>4
<1>4. Partial' \in [Stripes -> Nat] /\ Partial'[s] = (counts[s] + 1) % Batch
      /\ \A r \in Stripes : r # s => Partial'[r] = Partial[r]
  <2>1. \A r \in Stripes : counts'[r] % Batch \in Nat
    BY <1>1, StripeParameters
  <2>2. Partial' = [r \in Stripes |-> counts'[r] % Batch]
    BY DEF Partial
  <2> QED
    BY <1>1, <2>1, <2>2 DEF Partial
<1>5. Sum(Partial') \in Nat
  BY <1>4, StripeParameters, SumOfNats
<1>6. ASSUME (counts[s] + 1) % Batch # 0
      PROVE  Sum(Partial') = Sum(Partial) + 1
  <2>1. (counts[s] + 1) % Batch = (counts[s] % Batch) + 1
    <3>1. counts[s] \in Nat /\ Batch \in Nat \ {0}
      BY <1>1, StripeParameters
    <3> QED
      BY <1>6, <3>1, NextRemainder
  <2>2. Sum(Partial') = Sum(Partial) - Partial[s] + Partial'[s]
    <3>1. Partial \in [Stripes -> Int] /\ Partial' \in [Stripes -> Int]
      BY <1>4, StripeTypes
    <3> QED
      BY <1>4, <3>1, StripeParameters, SumUpdate
  <2>3. Partial[s] = counts[s] % Batch /\ Partial[s] \in Nat /\ Sum(Partial) \in Nat
    BY StripeTypes DEF Partial
  <2> QED
    BY <1>4, <2>1, <2>2, <2>3
<1>7. ASSUME NEW t \in Threads, unread'[t] = unread[t]
      PROVE  Sum(Left(t)') = Sum(Left(t)) + (IF s \in unread[t] THEN 1 ELSE 0)
  <2>1. Left(t)' = [r \in Stripes |-> IF r \in unread[t] THEN counts'[r] ELSE 0]
    BY <1>7 DEF Left
  <2>2. /\ Left(t) \in [Stripes -> Int] /\ Left(t)' \in [Stripes -> Int]
        /\ \A r \in Stripes : r # s => Left(t)'[r] = Left(t)[r]
    BY <1>1, <2>1 DEF Left
  <2>3. Sum(Left(t)') = Sum(Left(t)) - Left(t)[s] + Left(t)'[s]
    BY <2>2, StripeParameters, SumUpdate
  <2>4. /\ Left(t)[s] = IF s \in unread[t] THEN counts[s] ELSE 0
        /\ Left(t)'[s] = IF s \in unread[t] THEN counts[s] + 1 ELSE 0
    BY <1>1, <2>1 DEF Left
  <2>5. counts[s] \in Nat /\ Sum(Left(t)) \in Nat
    BY <1>1, StripeTypes
  <2> QED
    BY <2>3, <2>4, <2>5
<1> QED
  BY <1>2, <1>3, <1>5, <1>6, <1>7

LEMMA StripeInit ==
  ASSUME Stripe!Init PROVE Stripe!StripeInv
<1>1. /\ counts \in [Stripes -> Nat] /\ \A s \in Stripes : counts[s] = 0
      /\ Partial \in [Stripes -> Nat] /\ \A s \in Stripes : Partial[s] = 0
      /\ Claimed \in [Threads -> Nat] /\ \A t \in Threads : Claimed[t] = 0
  <2>1. 0 % Batch = 0
    BY StripeParameters
  <2> QED
    BY <2>1 DEF Stripe!Init, Partial, Claimed
<1>2. Sum(counts) = 0 /\ Sum(Partial) = 0 /\ Sum(Claimed) = 0
  BY <1>1, StripeParameters, SumOfNats
<1>3. Stripe!TypeOK
  BY StripeParameters DEF Stripe!Init, Stripe!TypeOK
<1>4. Stripe!EachEventSentOnce /\ Stripe!BatchInv /\ Stripe!Total <= MaxEvents
  BY <1>2, StripeSums, StripeParameters
  DEF Stripe!EachEventSentOnce, Stripe!BatchInv, Stripe!Init
<1>5. \A t \in Threads : Stripe!FlushInv(t)
  BY DEF Stripe!FlushInv, Stripe!Init
<1> QED
  BY <1>3, <1>4, <1>5 DEF Stripe!StripeInv

\* A step of thread t that counts nothing.
StepOf(t) ==
  /\ counts' = counts
  /\ \A u \in Threads \ {t} :
       /\ stripe_pc'[u] = stripe_pc[u] /\ unread'[u] = unread[u]
       /\ sum'[u] = sum[u] /\ prev'[u] = prev[u] /\ goal'[u] = goal[u]

\* The peers of a thread that counts nothing keep what they know.
LEMMA PeersKeep ==
  ASSUME Stripe!StripeInv, NEW t \in Threads, StepOf(t),
         flushed' \in Nat, flushed' >= flushed, Stripe!FlushInv(t)'
  PROVE  \A u \in Threads : Stripe!FlushInv(u)'
<1> SUFFICES ASSUME NEW u \in Threads, u # t PROVE Stripe!FlushInv(u)'
  OBVIOUS
<1>1. /\ stripe_pc'[u] = stripe_pc[u] /\ unread'[u] = unread[u] /\ counts' = counts
      /\ sum'[u] = sum[u] /\ prev'[u] = prev[u] /\ goal'[u] = goal[u]
  BY DEF StepOf
<1>2. Stripe!Unloaded(u)' = Stripe!Unloaded(u) /\ Stripe!Total' = Stripe!Total
  <2>1. Left(u)' = Left(u)
    BY <1>1 DEF Left
  <2> QED
    BY <1>1, <2>1, StripeSums
<1>3. flushed \in Nat /\ sum[u] \in Nat /\ prev[u] \in Nat /\ goal[u] \in Nat
  BY StripeTypes
<1>4. Stripe!FlushInv(u)
  BY DEF Stripe!StripeInv
<1> QED
  BY <1>1, <1>2, <1>3, <1>4 DEF Stripe!FlushInv

\* What the flushes have claimed changes by what t has.
LEMMA ClaimedStep ==
  ASSUME Stripe!StripeInv, NEW t \in Threads, StepOf(t), NEW n \in Nat,
         n = IF stripe_pc'[t] = "send" THEN sum'[t] - prev'[t] ELSE 0
  PROVE  /\ Sum(Claimed') = Sum(Claimed) - Claimed[t] + n
         /\ Claimed[t] \in Nat
<1>1. /\ Claimed' \in [Threads -> Int] /\ Claimed'[t] = n
      /\ \A u \in Threads : u # t => Claimed'[u] = Claimed[u]
  <2>1. \A u \in Threads : u # t => Claimed'[u] = Claimed[u] /\ Claimed[u] \in Int
    BY StripeTypes DEF StepOf, Claimed
  <2>2. Claimed'[t] = n
    BY DEF Claimed
  <2>3. Claimed' = [u \in Threads |-> Claimed'[u]]
    BY DEF Claimed
  <2> QED
    BY <2>1, <2>2, <2>3
<1>2. Claimed \in [Threads -> Int] /\ Claimed[t] \in Nat
  BY StripeTypes
<1>3. Sum(Claimed') = Sum(Claimed) - Claimed[t] + Claimed'[t]
  <2>1. IsFiniteSet(Threads)
    BY StripeParameters
  <2> QED
    BY <1>1, <1>2, <2>1, SumUpdate
<1> QED
  BY <1>1, <1>2, <1>3

\* A flush begins with everything to load.
LEMMA FlushBegins ==
  ASSUME Stripe!StripeInv, NEW t \in Threads, stripe_pc[t] = "idle", Stripe!BeginFlush(t),
         counts' \in [Stripes -> Nat]
  PROVE  /\ Stripe!FlushInv(t)'
         /\ stripe_pc'[t] = "load" /\ goal'[t] = Sum(counts')
         /\ \A u \in Threads \ {t} :
              /\ stripe_pc'[u] = stripe_pc[u] /\ unread'[u] = unread[u]
              /\ sum'[u] = sum[u] /\ prev'[u] = prev[u] /\ goal'[u] = goal[u]
<1>1. /\ stripe_pc'[t] = "load" /\ unread'[t] = Stripes \cup {"flushed"}
      /\ goal'[t] = Sum(counts') /\ sum'[t] = sum[t] /\ prev'[t] = prev[t]
      /\ flushed' = flushed
  BY StripeTypes, StripeSums DEF Stripe!BeginFlush
<1>2. sum[t] = 0 /\ prev[t] = 0 /\ flushed \in Nat
  BY StripeTypes DEF Stripe!StripeInv, Stripe!FlushInv
<1>3. Left(t)' = counts'
  BY <1>1 DEF Left
<1>4. Stripe!Unloaded(t)' = Sum(counts') /\ Stripe!Total' = Sum(counts') /\ Sum(counts') \in Nat
  BY <1>3, StripeSums, StripeParameters, SumOfNats
<1>5. Stripe!FlushInv(t)'
  BY <1>1, <1>2, <1>4 DEF Stripe!FlushInv
<1>6. \A u \in Threads \ {t} :
        /\ stripe_pc'[u] = stripe_pc[u] /\ unread'[u] = unread[u]
        /\ sum'[u] = sum[u] /\ prev'[u] = prev[u] /\ goal'[u] = goal[u]
  BY StripeTypes DEF Stripe!BeginFlush
<1> QED
  BY <1>1, <1>5, <1>6

\* What a step of t that counts nothing and keeps the claims must show.
LEMMA StripeQuiet ==
  ASSUME Stripe!StripeInv, NEW t \in Threads, StepOf(t), Stripe!TypeOK',
         flushed' = flushed, sent' = sent,
         stripe_pc[t] # "send", stripe_pc'[t] # "send",
         Stripe!FlushInv(t)',
         stripe_pc[t] # "idle" =>
           (goal'[t] = goal[t] /\ stripe_pc'[t] # "idle") \/ goal[t] <= flushed
  PROVE  Stripe!StripeInv'
<1>1. \A u \in Threads : Stripe!FlushInv(u)'
  BY StripeTypes, PeersKeep
<1>2. Stripe!Total' = Stripe!Total /\ Stripe!Residue' = Stripe!Residue
  BY StripeSums DEF StepOf, Partial
<1>3. Stripe!InFlight' = Stripe!InFlight
  <2>1. Claimed' = Claimed
    BY DEF StepOf, Claimed
  <2> QED
    BY <2>1, StripeSums
<1>4. Stripe!EachEventSentOnce' /\ Stripe!Total' <= MaxEvents
  BY <1>2, <1>3 DEF Stripe!StripeInv, Stripe!EachEventSentOnce
<1>5. Stripe!BatchInv'
  <2>1. CASE Stripe!Total - Stripe!Residue <= flushed
    BY <1>2, <2>1 DEF Stripe!BatchInv
  <2>2. ASSUME NEW u \in Threads, stripe_pc[u] # "idle",
               Stripe!Total - Stripe!Residue <= goal[u]
        PROVE  Stripe!BatchInv'
    <3>1. CASE u # t
      BY <1>2, <2>2, <3>1 DEF Stripe!BatchInv, StepOf
    <3>2. CASE u = t /\ goal'[t] = goal[t] /\ stripe_pc'[t] # "idle"
      BY <1>2, <2>2, <3>2 DEF Stripe!BatchInv
    <3>3. CASE u = t /\ goal[t] <= flushed
      <4>1. /\ Stripe!Total \in Nat /\ Stripe!Residue \in Nat
            /\ goal[t] \in Nat /\ flushed \in Nat
        BY StripeTypes, StripeSums
      <4>2. Stripe!Total - Stripe!Residue <= flushed
        BY <2>2, <3>3, <4>1
      <4> QED
        BY <1>2, <4>2 DEF Stripe!BatchInv
    <3> QED
      BY <2>2, <3>1, <3>2, <3>3
  <2> QED
    BY <2>1, <2>2 DEF Stripe!StripeInv, Stripe!BatchInv
<1> QED
  BY <1>1, <1>4, <1>5 DEF Stripe!StripeInv

LEMMA TotalBound ==
  ASSUME Stripe!StripeInv
  PROVE  Sum(counts) \in 0..MaxEvents
BY StripeTypes, StripeSums, StripeParameters DEF Stripe!StripeInv

LEMMA FlushMetricsStep ==
  ASSUME Stripe!StripeInv, NEW t \in Threads, Stripe!FlushMetrics(t)
  PROVE  Stripe!StripeInv'
<1>1. stripe_pc[t] = "idle" /\ Stripe!BeginFlush(t) /\ counts' = counts
  BY DEF Stripe!FlushMetrics
<1>2. /\ Stripe!FlushInv(t)' /\ stripe_pc'[t] = "load" /\ goal'[t] = Sum(counts')
      /\ StepOf(t)
  BY <1>1, StripeTypes, FlushBegins DEF StepOf
<1>3. flushed' = flushed /\ sent' = sent /\ sum' = sum /\ prev' = prev
  BY <1>1 DEF Stripe!BeginFlush
<1>4. Stripe!TypeOK'
  <2>1. /\ stripe_pc' = [stripe_pc EXCEPT ![t] = "load"]
        /\ unread' = [unread EXCEPT ![t] = Stripes \cup {"flushed"}]
        /\ goal' = [goal EXCEPT ![t] = Sum(counts)]
    BY <1>1, StripeSums DEF Stripe!BeginFlush
  <2> QED
    BY <1>1, <1>3, <2>1, TotalBound DEF Stripe!StripeInv, Stripe!TypeOK
<1> QED
  BY <1>1, <1>2, <1>3, <1>4, StripeQuiet

LEMMA LoadStripeStep ==
  ASSUME Stripe!StripeInv, NEW t \in Threads, NEW s \in Stripes, Stripe!LoadStripe(t, s)
  PROVE  Stripe!StripeInv'
<1>1. /\ stripe_pc[t] = "load" /\ s \in unread[t]
      /\ sum' = [sum EXCEPT ![t] = sum[t] + counts[s]]
      /\ unread' = [unread EXCEPT ![t] = unread[t] \ {s}]
      /\ UNCHANGED <<counts, flushed, sent, stripe_pc, prev, goal>>
  BY DEF Stripe!LoadStripe
<1>2. sum'[t] = sum[t] + counts[s] /\ unread'[t] = unread[t] \ {s} /\ StepOf(t)
  BY <1>1, StripeTypes DEF StepOf
<1>3. Sum(Left(t)') = Sum(Left(t)) - counts[s]
  <2>1. /\ Left(t) \in [Stripes -> Int] /\ Left(t)' \in [Stripes -> Int]
        /\ Left(t)[s] = counts[s] /\ Left(t)'[s] = 0
        /\ \A r \in Stripes : r # s => Left(t)'[r] = Left(t)[r]
    BY <1>1, <1>2, StripeTypes DEF Left
  <2>2. Sum(Left(t)') = Sum(Left(t)) - Left(t)[s] + Left(t)'[s]
    BY <2>1, StripeParameters, SumUpdate
  <2>3. Sum(Left(t)) \in Nat /\ counts[s] \in Nat
    BY StripeTypes
  <2> QED
    BY <2>1, <2>2, <2>3
<1>4. /\ sum[t] \in Nat /\ counts[s] \in Nat /\ goal[t] \in Nat /\ prev[t] \in Nat
      /\ flushed \in Nat /\ Sum(Left(t)) \in Nat
  BY StripeTypes
<1>5. /\ goal[t] <= sum[t] + Sum(Left(t)) /\ sum[t] + Sum(Left(t)) <= Sum(counts)
      /\ prev[t] <= flushed
  BY <1>1, StripeSums DEF Stripe!StripeInv, Stripe!FlushInv
<1>6. Stripe!FlushInv(t)'
  <2>1. Stripe!Unloaded(t)' = Sum(Left(t)') /\ Stripe!Total' = Sum(counts)
    BY <1>1, StripeSums
  <2> QED
    BY <1>1, <1>2, <1>3, <1>4, <1>5, <2>1 DEF Stripe!FlushInv
<1>7. Sum(Left(t)') \in Nat
  <2>1. Left(t)' \in [Stripes -> Nat]
    BY <1>1, StripeTypes DEF Left
  <2> QED
    BY <2>1, StripeParameters, SumOfNats
<1>8. sum'[t] \in 0..MaxEvents
  BY <1>2, <1>3, <1>4, <1>5, <1>7, TotalBound, StripeParameters
<1>9. Stripe!TypeOK'
  BY <1>1, <1>2, <1>8 DEF Stripe!StripeInv, Stripe!TypeOK
<1> QED
  BY <1>1, <1>2, <1>6, <1>9, StripeQuiet

LEMMA LoadFlushedStep ==
  ASSUME Stripe!StripeInv, NEW t \in Threads, Stripe!LoadFlushed(t)
  PROVE  Stripe!StripeInv'
<1>1. /\ stripe_pc[t] = "load"
      /\ prev' = [prev EXCEPT ![t] = flushed]
      /\ unread' = [unread EXCEPT ![t] = unread[t] \ {"flushed"}]
      /\ UNCHANGED <<counts, flushed, sent, stripe_pc, sum, goal>>
  BY DEF Stripe!LoadFlushed
<1>2. prev'[t] = flushed /\ unread'[t] = unread[t] \ {"flushed"} /\ StepOf(t)
  BY <1>1, StripeTypes DEF StepOf
<1>3. Left(t)' = Left(t)
  BY <1>1, <1>2, StripeParameters DEF Left
<1>4. Stripe!Unloaded(t)' = Stripe!Unloaded(t) /\ Stripe!Total' = Stripe!Total
  BY <1>1, <1>3, StripeSums
<1>5. Stripe!FlushInv(t)' /\ flushed \in Nat
  BY <1>1, <1>2, <1>4, StripeTypes DEF Stripe!StripeInv, Stripe!FlushInv
<1>6. Stripe!TypeOK'
  BY <1>1, <1>2 DEF Stripe!StripeInv, Stripe!TypeOK
<1> QED
  BY <1>1, <1>2, <1>5, <1>6, StripeQuiet

\* With everything loaded, a flush has seen what was counted before it began.
LEMMA AllLoaded ==
  ASSUME Stripe!StripeInv, NEW t \in Threads, stripe_pc[t] = "load", unread[t] = {}
  PROVE  goal[t] <= sum[t] /\ sum[t] <= Sum(counts) /\ prev[t] <= flushed
<1>1. Sum(Left(t)) = 0
  <2>1. Left(t) \in [Stripes -> Nat] /\ \A s \in Stripes : Left(t)[s] = 0
    BY StripeTypes DEF Left
  <2> QED
    BY <2>1, StripeParameters, SumOfNats
<1>2. sum[t] \in Nat
  BY StripeTypes
<1> QED
  BY <1>1, <1>2, StripeSums DEF Stripe!StripeInv, Stripe!FlushInv

LEMMA ClaimFailsStep ==
  ASSUME Stripe!StripeInv, NEW t \in Threads, Stripe!ClaimFails(t)
  PROVE  Stripe!StripeInv'
<1>1. /\ stripe_pc[t] = "load"
      /\ prev' = [prev EXCEPT ![t] = flushed]
      /\ UNCHANGED <<counts, flushed, sent, stripe_pc, unread, sum, goal>>
  BY DEF Stripe!ClaimFails
<1>2. prev'[t] = flushed /\ StepOf(t)
  BY <1>1, StripeTypes DEF StepOf
<1>3. Left(t)' = Left(t)
  BY <1>1 DEF Left
<1>4. Stripe!Unloaded(t)' = Stripe!Unloaded(t) /\ Stripe!Total' = Stripe!Total
  BY <1>1, <1>3, StripeSums
<1>5. Stripe!FlushInv(t)' /\ flushed \in Nat
  BY <1>1, <1>2, <1>4, StripeTypes DEF Stripe!StripeInv, Stripe!FlushInv
<1>6. Stripe!TypeOK'
  BY <1>1, <1>2 DEF Stripe!StripeInv, Stripe!TypeOK
<1> QED
  BY <1>1, <1>2, <1>5, <1>6, StripeQuiet

\* A thread that returns.
LEMMA Returned ==
  ASSUME Stripe!StripeInv, NEW t \in Threads, Stripe!Return(t), counts' = counts,
         unread' = unread, unread[t] = {},
         flushed' = flushed, sent' \in 0..MaxEvents
  PROVE  /\ StepOf(t) /\ Stripe!TypeOK' /\ Stripe!FlushInv(t)'
         /\ stripe_pc'[t] = "idle" /\ goal'[t] = 0
<1>1. /\ stripe_pc' = [stripe_pc EXCEPT ![t] = "idle"]
      /\ sum' = [sum EXCEPT ![t] = 0] /\ prev' = [prev EXCEPT ![t] = 0]
      /\ goal' = [goal EXCEPT ![t] = 0]
  BY DEF Stripe!Return
<1>2. stripe_pc'[t] = "idle" /\ sum'[t] = 0 /\ prev'[t] = 0 /\ goal'[t] = 0 /\ StepOf(t)
  BY <1>1, StripeTypes DEF StepOf
<1>3. Stripe!TypeOK'
  BY <1>1, <1>2, StripeParameters DEF Stripe!StripeInv, Stripe!TypeOK
<1> QED
  BY <1>2, <1>3 DEF Stripe!FlushInv

LEMMA NothingToSendStep ==
  ASSUME Stripe!StripeInv, NEW t \in Threads, Stripe!NothingToSend(t)
  PROVE  Stripe!StripeInv' /\ goal[t] <= flushed
<1>1. /\ stripe_pc[t] = "load" /\ unread[t] = {} /\ sum[t] <= prev[t] /\ Stripe!Return(t)
      /\ UNCHANGED <<counts, flushed, sent, unread>>
  BY DEF Stripe!NothingToSend
<1>2. sent \in 0..MaxEvents
  BY DEF Stripe!StripeInv, Stripe!TypeOK
<1>3. goal[t] <= flushed
  <2>1. sum[t] \in Nat /\ prev[t] \in Nat /\ goal[t] \in Nat /\ flushed \in Nat
    BY StripeTypes
  <2> QED
    BY <1>1, <2>1, AllLoaded
<1> QED
  BY <1>1, <1>2, <1>3, Returned, StripeQuiet

\* What a step that claims or sends must show: the books balance.
LEMMA StripeLoud ==
  ASSUME Stripe!StripeInv, NEW t \in Threads, StepOf(t), Stripe!TypeOK',
         flushed <= flushed', flushed' <= Sum(counts), sent' + Sum(Claimed') = flushed',
         Stripe!FlushInv(t)', goal[t] <= flushed'
  PROVE  Stripe!StripeInv'
<1>0. flushed' \in Nat /\ flushed \in Nat /\ goal[t] \in Nat
  BY StripeTypes, StripeParameters DEF Stripe!TypeOK
<1>1. \A u \in Threads : Stripe!FlushInv(u)'
  BY <1>0, PeersKeep
<1>2. /\ Stripe!Total' = Stripe!Total /\ Stripe!Residue' = Stripe!Residue
      /\ Stripe!Total \in Nat /\ Stripe!Residue \in Nat
  BY StripeSums, StripeTypes DEF StepOf, Partial
<1>3. Stripe!EachEventSentOnce' /\ Stripe!Total' <= MaxEvents
  BY <1>2, StripeSums DEF Stripe!StripeInv, Stripe!EachEventSentOnce
<1>4. Stripe!BatchInv'
  <2>1. CASE Stripe!Total - Stripe!Residue <= flushed'
    BY <1>2, <2>1 DEF Stripe!BatchInv
  <2>2. ASSUME NEW u \in Threads \ {t}, stripe_pc[u] # "idle",
               Stripe!Total - Stripe!Residue <= goal[u]
        PROVE  Stripe!BatchInv'
    BY <1>2, <2>2 DEF Stripe!BatchInv, StepOf
  <2> QED
    BY <1>0, <1>2, <2>1, <2>2 DEF Stripe!StripeInv, Stripe!BatchInv
<1> QED
  BY <1>1, <1>3, <1>4 DEF Stripe!StripeInv

LEMMA ClaimStep ==
  ASSUME Stripe!StripeInv, NEW t \in Threads, Stripe!Claim(t)
  PROVE  Stripe!StripeInv'
<1>1. /\ stripe_pc[t] = "load" /\ unread[t] = {} /\ sum[t] > prev[t] /\ flushed = prev[t]
      /\ flushed' = sum[t] /\ stripe_pc' = [stripe_pc EXCEPT ![t] = "send"]
      /\ UNCHANGED <<counts, sent, unread, sum, prev, goal>>
  BY DEF Stripe!Claim
<1>2. stripe_pc'[t] = "send" /\ StepOf(t)
  BY <1>1, StripeTypes DEF StepOf
<1>3. goal[t] <= sum[t] /\ sum[t] <= Sum(counts)
  BY <1>1, AllLoaded
<1>4. /\ sum[t] \in Nat /\ prev[t] \in Nat /\ flushed \in Nat /\ sent \in Nat
      /\ Sum(Claimed) \in Nat
  BY StripeTypes
<1>5. sent + Sum(Claimed) = flushed
  BY StripeSums DEF Stripe!StripeInv, Stripe!EachEventSentOnce
<1>6. Sum(Claimed') = Sum(Claimed) + (sum[t] - prev[t])
  <2>1. sum[t] - prev[t] \in Nat
        /\ sum[t] - prev[t] = IF stripe_pc'[t] = "send" THEN sum'[t] - prev'[t] ELSE 0
    BY <1>1, <1>2, <1>4
  <2>2. Sum(Claimed') = Sum(Claimed) - Claimed[t] + (sum[t] - prev[t])
    BY <1>2, <2>1, ClaimedStep
  <2>3. Claimed[t] = 0
    BY <1>1 DEF Claimed
  <2> QED
    BY <1>4, <2>2, <2>3
<1>7. sent' + Sum(Claimed') = flushed' /\ flushed <= flushed'
  BY <1>1, <1>4, <1>5, <1>6
<1>8. Stripe!TypeOK'
  BY <1>1, <1>2 DEF Stripe!StripeInv, Stripe!TypeOK
<1>9. Stripe!FlushInv(t)'
  BY <1>1, <1>2, <1>3, <1>4 DEF Stripe!FlushInv
<1> QED
  BY <1>1, <1>2, <1>3, <1>7, <1>8, <1>9, StripeLoud

LEMMA SendStep ==
  ASSUME Stripe!StripeInv, NEW t \in Threads, Stripe!Send(t)
  PROVE  Stripe!StripeInv' /\ goal[t] <= flushed
<1>1. /\ stripe_pc[t] = "send" /\ sent' = sent + (sum[t] - prev[t]) /\ Stripe!Return(t)
      /\ UNCHANGED <<counts, flushed, unread>>
  BY DEF Stripe!Send
<1>2. /\ goal[t] <= sum[t] /\ prev[t] < sum[t] /\ sum[t] <= flushed /\ unread[t] = {}
  BY <1>1 DEF Stripe!StripeInv, Stripe!FlushInv
<1>3. /\ sum[t] \in Nat /\ prev[t] \in Nat /\ goal[t] \in Nat /\ flushed \in Nat /\ sent \in Nat
      /\ Sum(Claimed) \in Nat /\ Sum(counts) \in Nat
  BY StripeTypes
<1>4. sent + Sum(Claimed) = flushed /\ flushed <= Sum(counts)
  BY StripeSums DEF Stripe!StripeInv, Stripe!EachEventSentOnce
<1>5. /\ StepOf(t) /\ stripe_pc'[t] = "idle"
  BY <1>1, StripeTypes DEF Stripe!Return, StepOf
<1>6. Sum(Claimed') = Sum(Claimed) - (sum[t] - prev[t])
  <2>1. 0 \in Nat /\ 0 = IF stripe_pc'[t] = "send" THEN sum'[t] - prev'[t] ELSE 0
    BY <1>5
  <2>2. Sum(Claimed') = Sum(Claimed) - Claimed[t] + 0
    BY <1>5, <2>1, ClaimedStep
  <2>3. Claimed[t] = sum[t] - prev[t]
    BY <1>1 DEF Claimed
  <2> QED
    BY <1>3, <2>2, <2>3
<1>7. Sum(Claimed') \in Nat
  <2>1. \A u \in Threads : Claimed'[u] = IF u = t THEN 0 ELSE Claimed[u]
    BY <1>5 DEF Claimed, StepOf
  <2>2. Claimed' \in [Threads -> Nat]
    <3>1. \A u \in Threads : Claimed'[u] \in Nat
      BY <2>1, StripeTypes
    <3>2. Claimed' = [u \in Threads |-> Claimed'[u]]
      BY DEF Claimed
    <3> QED
      BY <3>1, <3>2
  <2> QED
    BY <2>2, StripeParameters, SumOfNats
<1>8. sent' \in 0..MaxEvents
  <2>1. flushed \in 0..MaxEvents
    BY DEF Stripe!StripeInv, Stripe!TypeOK
  <2> QED
    BY <1>1, <1>2, <1>3, <1>4, <1>6, <1>7, <2>1, StripeParameters
<1>9. sent' + Sum(Claimed') = flushed'
  BY <1>1, <1>3, <1>4, <1>6
<1>10. goal[t] <= flushed
  BY <1>2, <1>3
<1>11. Stripe!TypeOK' /\ Stripe!FlushInv(t)'
  BY <1>1, <1>2, <1>8, Returned
<1>12. flushed <= flushed' /\ flushed' <= Sum(counts)
  BY <1>1, <1>3, <1>4
<1> QED
  BY <1>1, <1>5, <1>9, <1>10, <1>11, <1>12, StripeLoud

LEMMA RecordStep ==
  ASSUME Stripe!StripeInv, NEW t \in Threads, Stripe!Record(t)
  PROVE  Stripe!StripeInv'
<1> DEFINE s == StripeOf[t]
<1>1. /\ s \in Stripes /\ stripe_pc[t] = "idle" /\ Sum(counts) < MaxEvents
      /\ counts' = [counts EXCEPT ![s] = counts[s] + 1]
      /\ IF (counts[s] + 1) % Batch = 0 THEN Stripe!BeginFlush(t)
         ELSE UNCHANGED <<flushed, sent, stripe_pc, unread, sum, prev, goal>>
  BY StripeParameters, StripeSums DEF Stripe!Record
<1> HIDE DEF s
<1>2. /\ Sum(counts') = Sum(counts) + 1 /\ counts[s] <= Sum(counts)
      /\ Sum(Partial') \in Nat
      /\ (counts[s] + 1) % Batch # 0 => Sum(Partial') = Sum(Partial) + 1
      /\ \A u \in Threads : unread'[u] = unread[u] =>
           Sum(Left(u)') = Sum(Left(u)) + (IF s \in unread[u] THEN 1 ELSE 0)
  BY <1>1, CountOne
<1>3. /\ Sum(counts) \in Nat /\ counts[s] \in Nat /\ Sum(Partial) \in Nat
      /\ counts' \in [Stripes -> Nat] /\ counts'[s] = counts[s] + 1
      /\ flushed' = flushed /\ sent' = sent /\ sum' = sum /\ prev' = prev
      /\ flushed \in Nat
  BY <1>1, StripeTypes DEF Stripe!BeginFlush
<1>4. ASSUME NEW u \in Threads, stripe_pc'[u] = stripe_pc[u], unread'[u] = unread[u],
             goal'[u] = goal[u]
      PROVE  Stripe!FlushInv(u)'
  <2>1. /\ Sum(Left(u)') = Sum(Left(u)) \/ Sum(Left(u)') = Sum(Left(u)) + 1
        /\ Sum(Left(u)) \in Nat /\ sum[u] \in Nat /\ goal[u] \in Nat /\ prev[u] \in Nat
    BY <1>2, <1>4, StripeTypes
  <2>2. /\ Stripe!Unloaded(u) = Sum(Left(u)) /\ Stripe!Unloaded(u)' = Sum(Left(u)')
        /\ Stripe!Total = Sum(counts) /\ Stripe!Total' = Sum(counts')
    BY StripeSums
  <2>3. Stripe!FlushInv(u)
    BY DEF Stripe!StripeInv
  <2> QED
    BY <1>2, <1>3, <1>4, <2>1, <2>2, <2>3 DEF Stripe!FlushInv
<1>5. Sum(counts') \in 0..MaxEvents /\ Stripe!Total' <= MaxEvents /\ counts'[s] \in 0..MaxEvents
  BY <1>1, <1>2, <1>3, StripeParameters, StripeSums
<1>6. counts' \in [Stripes -> 0..MaxEvents]
  <2>1. counts \in [Stripes -> 0..MaxEvents] /\ counts[s] + 1 \in 0..MaxEvents
    BY <1>3, <1>5 DEF Stripe!StripeInv, Stripe!TypeOK
  <2> QED
    BY <1>1, <2>1
<1>7. CASE (counts[s] + 1) % Batch # 0
  <2>1. UNCHANGED <<flushed, sent, stripe_pc, unread, sum, prev, goal>>
    BY <1>1, <1>7
  <2>2. \A u \in Threads : Stripe!FlushInv(u)'
    BY <1>4, <2>1
  <2>3. Stripe!TypeOK'
    BY <1>6, <2>1 DEF Stripe!StripeInv, Stripe!TypeOK
  <2>4. Claimed' = Claimed
    BY <2>1 DEF Claimed
  <2>5. Stripe!InFlight' = Stripe!InFlight /\ Stripe!Total' = Stripe!Total + 1
        /\ Stripe!Residue' = Stripe!Residue + 1
    BY <1>2, <1>7, <2>4, StripeSums
  <2>6. Stripe!Total \in Nat /\ Stripe!Residue \in Nat
    BY <1>3, StripeSums
  <2>7. Stripe!EachEventSentOnce'
    BY <1>3, <2>5, <2>6 DEF Stripe!StripeInv, Stripe!EachEventSentOnce
  <2>8. Stripe!BatchInv'
    <3>1. Stripe!Total' - Stripe!Residue' = Stripe!Total - Stripe!Residue
      BY <2>5, <2>6
    <3> QED
      BY <2>1, <3>1 DEF Stripe!StripeInv, Stripe!BatchInv
  <2> QED
    BY <1>5, <2>2, <2>3, <2>7, <2>8 DEF Stripe!StripeInv
<1>8. CASE (counts[s] + 1) % Batch = 0
  <2>1. Stripe!BeginFlush(t)
    BY <1>1, <1>8
  <2>2. /\ Stripe!FlushInv(t)' /\ stripe_pc'[t] = "load" /\ goal'[t] = Sum(counts')
        /\ \A u \in Threads \ {t} :
             stripe_pc'[u] = stripe_pc[u] /\ unread'[u] = unread[u] /\ goal'[u] = goal[u]
    BY <1>1, <1>3, <2>1, FlushBegins
  <2>3. \A u \in Threads : Stripe!FlushInv(u)'
    BY <1>4, <2>2
  <2>4. Stripe!TypeOK'
    <3>1. /\ stripe_pc' = [stripe_pc EXCEPT ![t] = "load"]
          /\ unread' = [unread EXCEPT ![t] = Stripes \cup {"flushed"}]
          /\ goal' = [goal EXCEPT ![t] = Sum(counts')]
      BY <2>1, StripeSums DEF Stripe!BeginFlush
    <3> QED
      BY <1>3, <1>5, <1>6, <3>1 DEF Stripe!StripeInv, Stripe!TypeOK
  <2>5. Claimed' = Claimed
    BY <1>1, <1>3, <2>2 DEF Claimed
  <2>6. Stripe!EachEventSentOnce'
    <3>1. Stripe!InFlight' = Stripe!InFlight /\ Stripe!Total' = Stripe!Total + 1
          /\ Stripe!Total \in Nat
      BY <1>2, <1>3, <2>5, StripeSums
    <3> QED
      BY <1>3, <3>1 DEF Stripe!StripeInv, Stripe!EachEventSentOnce
  <2>7. Stripe!BatchInv'
    <3>1. Stripe!Total' - Stripe!Residue' <= goal'[t]
      BY <1>2, <1>5, <2>2, StripeSums
    <3> QED
      BY <2>2, <3>1 DEF Stripe!BatchInv
  <2> QED
    BY <1>5, <2>3, <2>4, <2>6, <2>7 DEF Stripe!StripeInv
<1> QED
  BY <1>7, <1>8

\* A flush that returns leaves its start covered.
LEMMA StripeNext ==
  ASSUME Stripe!StripeInv, [Stripe!Next]_stripeVars
  PROVE  /\ Stripe!StripeInv'
         /\ \A t \in Threads : stripe_pc[t] # "idle" /\ stripe_pc'[t] = "idle" => flushed' >= goal[t]
<1> DEFINE Covered == \A t \in Threads :
             stripe_pc[t] # "idle" /\ stripe_pc'[t] = "idle" => flushed' >= goal[t]
<1>1. CASE UNCHANGED stripeVars
  <2>1. Claimed' = Claimed /\ Partial' = Partial /\ \A t \in Threads : Left(t)' = Left(t)
    BY <1>1 DEF stripeVars, Claimed, Partial, Left
  <2>2. /\ Stripe!Total' = Stripe!Total /\ Stripe!InFlight' = Stripe!InFlight
        /\ Stripe!Residue' = Stripe!Residue
        /\ \A t \in Threads : Stripe!Unloaded(t)' = Stripe!Unloaded(t)
    BY <1>1, <2>1, StripeSums DEF stripeVars
  <2>3. Stripe!StripeInv'
    BY <1>1, <2>2
    DEF stripeVars, Stripe!StripeInv, Stripe!TypeOK, Stripe!EachEventSentOnce,
        Stripe!BatchInv, Stripe!FlushInv
  <2> QED
    BY <1>1, <2>3 DEF stripeVars
<1>2. ASSUME NEW t \in Threads, Stripe!Record(t) \/ Stripe!FlushMetrics(t) \/ Stripe!Flush(t)
      PROVE  Stripe!StripeInv' /\ Covered
  <2>1. CASE Stripe!Record(t) \/ Stripe!FlushMetrics(t)
    <3>1. Stripe!StripeInv'
      BY <2>1, RecordStep, FlushMetricsStep
    <3>2. stripe_pc' = stripe_pc \/ stripe_pc' = [stripe_pc EXCEPT ![t] = "load"]
      BY <2>1 DEF Stripe!Record, Stripe!FlushMetrics, Stripe!BeginFlush
    <3>3. Covered
      BY <3>2, StripeTypes
    <3> QED
      BY <3>1, <3>3
  <2>2. CASE \E s \in Stripes : Stripe!LoadStripe(t, s)
    BY <2>2, LoadStripeStep DEF Stripe!LoadStripe
  <2>3. CASE Stripe!LoadFlushed(t)
    BY <2>3, LoadFlushedStep DEF Stripe!LoadFlushed
  <2>4. CASE Stripe!Claim(t)
    <3>1. stripe_pc' = [stripe_pc EXCEPT ![t] = "send"]
      BY <2>4 DEF Stripe!Claim
    <3>2. Covered
      BY <3>1, StripeTypes
    <3> QED
      BY <2>4, <3>2, ClaimStep
  <2>5. CASE Stripe!ClaimFails(t)
    BY <2>5, ClaimFailsStep DEF Stripe!ClaimFails
  <2>6. CASE Stripe!NothingToSend(t) \/ Stripe!Send(t)
    <3>1. Stripe!StripeInv' /\ goal[t] <= flushed
      BY <2>6, NothingToSendStep, SendStep
    <3>2. /\ stripe_pc' = [stripe_pc EXCEPT ![t] = "idle"] /\ flushed' = flushed
      BY <2>6 DEF Stripe!NothingToSend, Stripe!Send, Stripe!Return
    <3>3. Covered
      <4> SUFFICES ASSUME NEW u \in Threads, stripe_pc[u] # "idle", stripe_pc'[u] = "idle"
                   PROVE  flushed' >= goal[u]
        OBVIOUS
      <4>1. u = t
        BY <3>2, StripeTypes
      <4>2. flushed \in Nat /\ goal[t] \in Nat
        BY StripeTypes
      <4> QED
        BY <3>1, <3>2, <4>1, <4>2
    <3> QED
      BY <3>1, <3>3
  <2> QED
    BY <1>2, <2>1, <2>2, <2>3, <2>4, <2>5, <2>6 DEF Stripe!Flush
<1> QED
  BY <1>1, <1>2 DEF Stripe!Next

\* What each flush knows, whatever its peers count and claim meanwhile, for any
\* number of threads and stripes, threads that share one, and any batch.
THEOREM StripeInvariance == AllSpec => []Stripe!StripeInv
<1>1. AllInit => Stripe!StripeInv
  BY StripeInit DEF AllInit
<1>2. Stripe!StripeInv /\ [AllNext]_<<part, vars, stripeVars, channelVars>> => Stripe!StripeInv'
  <2> SUFFICES ASSUME Stripe!StripeInv, [AllNext]_<<part, vars, stripeVars, channelVars>>
               PROVE  Stripe!StripeInv'
    OBVIOUS
  <2>1. [Stripe!Next]_stripeVars
    BY DEF AllNext, CapStep, StripeStep, ChannelStep
  <2> QED
    BY <2>1, StripeNext
<1> QED
  BY <1>1, <1>2, PTL DEF AllSpec

\* StripedPair sends each event to the sink once and none before it is counted,
\* and between calls the sink lags by the partial batches only.
THEOREM EventsSentOnce == AllSpec => []EachEventSentOnce
<1>1. Stripe!StripeInv => EachEventSentOnce
  <2> SUFFICES ASSUME Stripe!StripeInv PROVE EachEventSentOnce
    OBVIOUS
  <2>1. Stripe!TypeOK /\ Stripe!EachEventSentOnce
    BY DEF Stripe!StripeInv
  <2>2. ASSUME Stripe!AtRest PROVE Stripe!Total - sent <= Stripe!Residue
    <3>1. Sum(Claimed) = 0
      <4>1. \A t \in Threads : Claimed[t] = 0
        BY <2>2 DEF Stripe!AtRest, Claimed
      <4> QED
        BY <4>1, StripeTypes, StripeParameters, SumOfNats
    <3>2. sent = flushed /\ sent \in Nat
      BY <2>1, <3>1, StripeSums, StripeTypes DEF Stripe!EachEventSentOnce
    <3>3. Stripe!Total - Stripe!Residue <= flushed
      BY <2>2 DEF Stripe!StripeInv, Stripe!BatchInv, Stripe!AtRest
    <3>4. Stripe!Total \in Nat /\ Stripe!Residue \in Nat
      BY StripeSums, StripeTypes
    <3> QED
      BY <3>2, <3>3, <3>4
  <2> QED
    BY <2>1, <2>2 DEF EachEventSentOnce, Stripe!LagIsPartialBatches
<1> QED
  BY <1>1, StripeInvariance, PTL

\* A flush does not return before everything counted when it began is claimed,
\* by itself or by the peer that beat its compare-exchange.
THEOREM FlushesCoverTheirStart == AllSpec => FlushCoversItsStart
<1> DEFINE Covered == \A t \in Threads :
             stripe_pc[t] # "idle" /\ stripe_pc'[t] = "idle" => flushed' >= goal[t]
<1>1. Stripe!StripeInv /\ [AllNext]_<<part, vars, stripeVars, channelVars>>
        => [Covered]_(Stripe!vars)
  <2> SUFFICES ASSUME Stripe!StripeInv, [AllNext]_<<part, vars, stripeVars, channelVars>>
               PROVE  Covered
    OBVIOUS
  <2>1. [Stripe!Next]_stripeVars
    BY DEF AllNext, CapStep, StripeStep, ChannelStep
  <2> QED
    BY <2>1, StripeNext
<1> QED
  BY <1>1, StripeInvariance, PTL
  DEF AllSpec, FlushCoversItsStart, Stripe!FlushCoversItsStart

==============================================================================
