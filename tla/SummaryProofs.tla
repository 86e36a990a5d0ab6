--------------------------- MODULE SummaryProofs ----------------------------
(***************************************************************************)
(* Proofs about what is kept of a stream, as MCStreams composes it, for    *)
(* every value of the constants.                                           *)
(*                                                                         *)
(* Sketches: what an entry of the heavy hitters says, and what a key       *)
(* without one can have come to; a cell of the table is what the keys      *)
(* hashed there came to; a collector is what its keys say.                 *)
(* Detectors: the window is the end of the stream; a sum grows as the      *)
(* worst run does; a histogram takes one value as its definition does; an  *)
(* average has variance exactly when it has seen two values.               *)
(***************************************************************************)
EXTENDS MCStreams, Sequences, FunctionSums, FiniteSetTheorems, TLAPS

\* A step of one sketch leaves the variables of the others alone.
LEMMA SketchesStep ==
  ASSUME [StreamsNext]_<<part, forestVars, wrapperVars, sketchVars, detectorVars,
                         metricVars>>
  PROVE  [Frequency!Next]_frequencyVars /\ [Sets!Next]_setVars
BY DEF StreamsNext, ForestStep, WrapperStep, SketchStep, DetectorStep, MetricStep,
       sketchVars

------------------------------------------------------------------------------
(* Frequencies.                                                             *)

LEMMA FrequencyParameters ==
  /\ IsFiniteSet(Items) /\ Counters \in Nat /\ Counters > 0 /\ Width \in Nat /\ Width > 0
BY StreamsParameters DEF Frequency!FrequencyAssumption, Frequency!IsFiniteSet, IsFiniteSet

LEMMA FrequencySets ==
  /\ \A S : Frequency!Cardinality(S) = Cardinality(S)
  /\ \A f : Frequency!SumFunction(f) = Sum(f)
  /\ \A S : Frequency!Min(S) = CHOOSE x \in S : \A y \in S : x <= y
<1>1. \A S : Frequency!Cardinality(S) = Cardinality(S)
  BY DEF Frequency!Cardinality, Cardinality
<1>2. \A f : Frequency!SumFunction(f) = Sum(f)
  BY DEF Frequency!SumFunction, Frequency!SumFunctionOnSet, Frequency!FoldFunctionOnSet,
         Frequency!MapThenFoldSet, Sum, FoldFunction, FoldFunctionOnSet, MapThenFoldSet
<1>3. \A S : Frequency!Min(S) = CHOOSE x \in S : \A y \in S : x <= y
  BY DEF Frequency!Min
<1> QED
  BY <1>1, <1>2, <1>3

\* The estimates of a table of entries, and the keys of a cell.
Estimates(es) == [k \in DOMAIN es |-> es[k].estimate]
Met(r, c) == {i \in Items : col[<<r, i>>] = c}
Weighed(w, r, c) == [j \in Met(r, c) |-> w[j]]

\* What holds of entries: of their keys, of those without, and of their sum.
Entered(es, w, d) ==
  /\ DOMAIN es \subseteq Items /\ Cardinality(DOMAIN es) <= Counters
  /\ es \in [DOMAIN es -> [estimate : Nat, error : Nat]]
  /\ \A k \in DOMAIN es :
       /\ w[k] <= es[k].estimate /\ es[k].estimate <= w[k] + es[k].error
       /\ Counters * es[k].error <= d
  /\ \A k \in Items \ DOMAIN es :
       /\ \A j \in DOMAIN es : w[k] <= es[j].estimate
       /\ Cardinality(DOMAIN es) < Counters => w[k] = 0
  /\ Sum(Estimates(es)) = d

Cells(tb, w) == \A r \in Rows, c \in Frequency!Cols : tb[<<r, c>>] = Sum(Weighed(w, r, c))

Types(tb, w, d) ==
  /\ d \in Nat /\ w \in [Items -> Nat] /\ col \in [Rows \X Items -> Frequency!Cols]
  /\ tb \in [Rows \X Frequency!Cols -> Nat]

LEMMA FrequencyInvIs ==
  Frequency!FrequencyInv <=> Types(table, truth, total) /\ Entered(counts, truth, total) /\ Cells(table, truth)
<1> DEFINE Left == Frequency!TypeOK /\ Frequency!EntriesInv
<1>1. Cells(table, truth) <=> Frequency!CellsInv
  BY FrequencySets DEF Cells, Frequency!CellsInv, Weighed, Met
<1>2. ASSUME Types(table, truth, total), counts \in [DOMAIN counts -> [estimate : Nat, error : Nat]],
             NEW k \in Items, NEW j \in DOMAIN counts
      PROVE  (truth[k] <= counts[j].estimate /\ counts[j].estimate <= truth[k] + counts[j].error)
             <=> truth[k] \in (counts[j].estimate - counts[j].error)..counts[j].estimate
  <2>1. truth[k] \in Nat /\ counts[j].estimate \in Nat /\ counts[j].error \in Nat
    BY <1>2 DEF Types
  <2> QED
    BY <2>1
<1>3. Left <=> Types(table, truth, total) /\ Entered(counts, truth, total)
  BY <1>2, FrequencySets
    DEF Frequency!TypeOK, Frequency!EntriesInv, Types, Entered, Estimates, Frequency!Tracked
<1> QED
  BY <1>1, <1>3 DEF Frequency!FrequencyInv

LEMMA EntryFacts ==
  ASSUME NEW es, NEW w \in [Items -> Nat], NEW d \in Nat, Entered(es, w, d)
  PROVE  /\ IsFiniteSet(DOMAIN es) /\ Cardinality(DOMAIN es) \in Nat
         /\ Estimates(es) \in [DOMAIN es -> Nat] /\ Estimates(es) \in [DOMAIN es -> Int]
         /\ \A k \in DOMAIN es : es[k].estimate \in Nat /\ es[k].error \in Nat /\ w[k] \in Nat
         /\ \A k \in DOMAIN es : Estimates(es)[k] = es[k].estimate
<1>1. IsFiniteSet(DOMAIN es)
  BY FrequencyParameters, FS_Subset DEF Entered
<1> QED
  BY <1>1, FS_CardinalityType DEF Entered, Estimates

\* No entry is below what it would be if all were alike.
LEMMA FullEntries ==
  ASSUME NEW es, NEW w \in [Items -> Nat], NEW d \in Nat, Entered(es, w, d),
         Cardinality(DOMAIN es) >= Counters, NEW m \in Nat, \A k \in DOMAIN es : m <= es[k].estimate
  PROVE  Counters * m <= d
<1>1. Cardinality(DOMAIN es) = Counters
  <2>1. Cardinality(DOMAIN es) <= Counters
    BY DEF Entered
  <2>2. Cardinality(DOMAIN es) \in Nat
    BY EntryFacts
  <2> QED
    BY <2>1, <2>2, FrequencyParameters
<1>2. Cardinality(DOMAIN es) * m <= Sum(Estimates(es))
  BY EntryFacts, SumAtLeast
<1> QED
  BY <1>1, <1>2 DEF Entered

\* A key that has an entry.
LEMMA EntryRaised ==
  ASSUME NEW es, NEW w \in [Items -> Nat], NEW d \in Nat, Entered(es, w, d),
         NEW key \in DOMAIN es, NEW weight \in Nat, key \in Items
  PROVE  Entered([es EXCEPT ![key].estimate = @ + weight], [w EXCEPT ![key] = @ + weight], d + weight)
<1> DEFINE fs == [es EXCEPT ![key].estimate = @ + weight]
           v == [w EXCEPT ![key] = @ + weight]
<1>1. /\ DOMAIN fs = DOMAIN es /\ fs \in [DOMAIN es -> [estimate : Nat, error : Nat]]
      /\ \A k \in DOMAIN es : fs[k].error = es[k].error
      /\ \A k \in DOMAIN es : k # key => fs[k].estimate = es[k].estimate
      /\ fs[key].estimate = es[key].estimate + weight
  BY EntryFacts DEF Entered
<1>2. v \in [Items -> Nat] /\ v[key] = w[key] + weight /\ \A k \in Items : k # key => v[k] = w[k]
  OBVIOUS
<1>3. Sum(Estimates(fs)) = d + weight
  <2> DEFINE f == Estimates(es)
             g == Estimates(fs)
  <2>1. /\ f \in [DOMAIN es -> Int] /\ g \in [DOMAIN es -> Int] /\ g[key] = f[key] + weight
        /\ f[key] \in Int /\ \A y \in DOMAIN es : y # key => g[y] = f[y]
    BY <1>1, EntryFacts DEF Estimates
  <2>2. Sum(f) = d
    BY DEF Entered
  <2> HIDE DEF f, g
  <2>0. IsFiniteSet(DOMAIN es)
    BY EntryFacts
  <2>3. Sum(g) = Sum(f) - f[key] + g[key]
    BY <2>0, <2>1, SumUpdate
  <2> QED
    BY <2>1, <2>2, <2>3 DEF g
<1> HIDE DEF fs, v
<1>4. ASSUME NEW k \in DOMAIN es
      PROVE  /\ v[k] <= fs[k].estimate /\ fs[k].estimate <= v[k] + fs[k].error
             /\ Counters * fs[k].error <= d + weight
  <2>1. /\ w[k] <= es[k].estimate /\ es[k].estimate <= w[k] + es[k].error
        /\ Counters * es[k].error <= d /\ w[k] \in Nat /\ es[k].estimate \in Nat /\ es[k].error \in Nat
        /\ k \in Items
    BY EntryFacts DEF Entered
  <2>2. Counters * es[k].error \in Nat
    BY <2>1, FrequencyParameters
  <2> QED
    BY <1>1, <1>2, <2>1, <2>2
<1>5. ASSUME NEW k \in Items \ DOMAIN es
      PROVE  /\ \A j \in DOMAIN es : v[k] <= fs[j].estimate
             /\ Cardinality(DOMAIN es) < Counters => v[k] = 0
  <2>1. v[k] = w[k] /\ v[k] \in Nat
    BY <1>2
  <2>2. \A j \in DOMAIN es : w[k] <= es[j].estimate /\ es[j].estimate <= fs[j].estimate
                             /\ es[j].estimate \in Nat /\ fs[j].estimate \in Nat
    BY <1>1, EntryFacts DEF Entered
  <2>3. Cardinality(DOMAIN es) < Counters => w[k] = 0
    BY DEF Entered
  <2> QED
    BY <2>1, <2>2, <2>3
<1>6. Entered(fs, v, d + weight)
  <2>1. DOMAIN es \subseteq Items /\ Cardinality(DOMAIN es) <= Counters
    BY DEF Entered
  <2> QED
    BY <1>1, <1>3, <1>4, <1>5, <2>1 DEF Entered
<1> QED
  BY <1>6 DEF fs, v

\* A key that finds room.
LEMMA EntryOpened ==
  ASSUME NEW es, NEW w \in [Items -> Nat], NEW d \in Nat, Entered(es, w, d),
         NEW key \in Items, key \notin DOMAIN es, Cardinality(DOMAIN es) < Counters,
         NEW weight \in Nat, NEW fs,
         fs = [k \in DOMAIN es \cup {key} |->
                IF k = key THEN [estimate |-> weight, error |-> 0] ELSE es[k]]
  PROVE  Entered(fs, [w EXCEPT ![key] = @ + weight], d + weight)
<1> DEFINE v == [w EXCEPT ![key] = @ + weight]
<1>0. /\ IsFiniteSet(DOMAIN es) /\ Cardinality(DOMAIN es) \in Nat
      /\ Cardinality(DOMAIN es \cup {key}) = Cardinality(DOMAIN es) + 1
      /\ Counters \in Nat /\ w[key] = 0
  BY EntryFacts, FS_AddElement, FrequencyParameters DEF Entered
<1>1. /\ DOMAIN fs = DOMAIN es \cup {key} /\ fs \in [DOMAIN fs -> [estimate : Nat, error : Nat]]
      /\ \A k \in DOMAIN es : fs[k] = es[k]
      /\ fs[key].estimate = weight /\ fs[key].error = 0
  BY EntryFacts DEF Entered
<1>2. v \in [Items -> Nat] /\ v[key] = weight /\ \A k \in Items : k # key => v[k] = w[k]
  BY <1>0
<1>3. Sum(Estimates(fs)) = d + weight
  <2> DEFINE f == Estimates(es)
             g == Estimates(fs)
  <2>1. /\ f \in [DOMAIN es -> Int] /\ g \in [DOMAIN es \cup {key} -> Int] /\ g[key] = weight
        /\ \A y \in DOMAIN es : g[y] = f[y]
    BY <1>1, EntryFacts DEF Estimates
  <2>2. Sum(f) = d
    BY DEF Entered
  <2> HIDE DEF f, g
  <2>3. Sum(g) = Sum(f) + g[key]
    BY <1>0, <2>1, SumGrows
  <2> QED
    BY <2>1, <2>2, <2>3 DEF g
<1> HIDE DEF v
<1>4. ASSUME NEW k \in DOMAIN fs
      PROVE  /\ v[k] <= fs[k].estimate /\ fs[k].estimate <= v[k] + fs[k].error
             /\ Counters * fs[k].error <= d + weight
  <2>1. CASE k = key
    BY <1>0, <1>1, <1>2, <2>1
  <2>2. CASE k # key
    <3>1. /\ w[k] <= es[k].estimate /\ es[k].estimate <= w[k] + es[k].error
          /\ Counters * es[k].error <= d /\ es[k].error \in Nat /\ k \in Items
      BY <1>1, <2>2, EntryFacts DEF Entered
    <3>2. Counters * es[k].error \in Nat
      BY <1>0, <3>1
    <3> QED
      BY <1>1, <1>2, <2>2, <3>1, <3>2
  <2> QED
    BY <2>1, <2>2
<1>5. ASSUME NEW k \in Items \ DOMAIN fs
      PROVE  v[k] = 0 /\ \A j \in DOMAIN fs : v[k] <= fs[j].estimate
  <2>1. v[k] = 0
    BY <1>1, <1>2 DEF Entered
  <2> QED
    BY <1>1, <2>1
<1>6. Entered(fs, v, d + weight)
  <2>1. DOMAIN fs \subseteq Items /\ Cardinality(DOMAIN fs) <= Counters
    BY <1>0, <1>1 DEF Entered
  <2> QED
    BY <1>1, <1>3, <1>4, <1>5, <2>1 DEF Entered
<1> QED
  BY <1>6 DEF v

TakesOver(fs, es, key, weight, least) ==
  /\ key \notin DOMAIN es /\ Cardinality(DOMAIN es) >= Counters /\ least \in DOMAIN es
  /\ \A k \in DOMAIN es : es[least].estimate <= es[k].estimate
  /\ fs = [k \in (DOMAIN es \ {least}) \cup {key} |->
             IF k = key THEN [estimate |-> es[least].estimate + weight,
                              error |-> es[least].estimate] ELSE es[k]]

\* A key that takes over the least entry.
LEMMA EntryTaken ==
  ASSUME NEW es, NEW w \in [Items -> Nat], NEW d \in Nat, Entered(es, w, d),
         NEW key \in Items, NEW weight \in Nat, NEW least, NEW fs,
         TakesOver(fs, es, key, weight, least)
  PROVE  Entered(fs, [w EXCEPT ![key] = @ + weight], d + weight)
<1> USE DEF TakesOver
<1> DEFINE v == [w EXCEPT ![key] = @ + weight]
           rest == DOMAIN es \ {least}
           m == es[least].estimate
<1>0. /\ IsFiniteSet(DOMAIN es) /\ Cardinality(DOMAIN es) \in Nat /\ IsFiniteSet(rest)
      /\ Cardinality(rest) = Cardinality(DOMAIN es) - 1 /\ Cardinality(rest) \in Nat
      /\ Cardinality(rest \cup {key}) = Cardinality(DOMAIN es)
      /\ rest \cup {least} = DOMAIN es /\ least \notin rest /\ key \notin rest
      /\ Counters \in Nat /\ w[key] <= m /\ m \in Nat /\ w[key] \in Nat
  <2>1. IsFiniteSet(DOMAIN es) /\ Cardinality(DOMAIN es) \in Nat /\ m \in Nat /\ w[key] <= m
    BY EntryFacts DEF Entered
  <2>2. IsFiniteSet(rest) /\ Cardinality(rest) = Cardinality(DOMAIN es) - 1
    BY <2>1, FS_RemoveElement
  <2>3. Cardinality(rest \cup {key}) = Cardinality(rest) + 1 /\ Cardinality(rest) \in Nat
    BY <2>2, FS_AddElement, FS_CardinalityType
  <2>4. /\ rest \cup {least} = DOMAIN es /\ least \notin rest /\ key \notin rest
        /\ w[key] \in Nat /\ Counters \in Nat
    BY FrequencyParameters
  <2>5. Cardinality(rest \cup {key}) = Cardinality(DOMAIN es)
    BY <2>1, <2>2, <2>3
  <2> HIDE DEF rest, m
  <2> QED
    BY <2>1, <2>2, <2>3, <2>4, <2>5
<1>1. /\ DOMAIN fs = rest \cup {key} /\ fs \in [DOMAIN fs -> [estimate : Nat, error : Nat]]
      /\ \A k \in rest : fs[k] = es[k]
      /\ fs[key].estimate = m + weight /\ fs[key].error = m
  <2>1. es \in [DOMAIN es -> [estimate : Nat, error : Nat]]
    BY DEF Entered
  <2> QED
    BY <1>0, <2>1
<1>2. /\ v \in [Items -> Nat] /\ v[key] = w[key] + weight
      /\ \A k \in Items : k # key => v[k] = w[k]
  OBVIOUS
<1>3. Sum(Estimates(fs)) = d + weight
  <2> DEFINE f == Estimates(es)
             g == Estimates(fs)
  <2>1. /\ f \in [DOMAIN es -> Int] /\ g \in [(DOMAIN es \ {least}) \cup {key} -> Int]
        /\ g[key] = m + weight /\ f[least] = m
    BY <1>0, <1>1, EntryFacts DEF Estimates
  <2>2. \A y \in DOMAIN es \ {least} : g[y] = f[y]
    BY <1>0, <1>1 DEF Estimates
  <2>3. Sum(f) = d
    BY DEF Entered
  <2> HIDE DEF f, g
  <2>4. Sum(g) = Sum(f) - f[least] + g[key]
    <3>1. OneTermForAnother(g, f, DOMAIN es, least, key)
      BY <2>1, <2>2 DEF OneTermForAnother
    <3> QED
      BY <1>0, <3>1, SumExchange
  <2> QED
    BY <1>0, <2>1, <2>3, <2>4 DEF g
<1>4. Counters * m <= d
  BY <1>0, FullEntries
<1> HIDE DEF v
<1>5. ASSUME NEW k \in DOMAIN fs
      PROVE  /\ v[k] <= fs[k].estimate /\ fs[k].estimate <= v[k] + fs[k].error
             /\ Counters * fs[k].error <= d + weight
  <2>1. CASE k = key
    <3>1. Counters * m \in Nat
      BY <1>0
    <3> HIDE DEF m
    <3> QED
      BY <1>0, <1>1, <1>2, <1>4, <2>1, <3>1
  <2>2. CASE k # key
    <3>1. /\ w[k] <= es[k].estimate /\ es[k].estimate <= w[k] + es[k].error
          /\ Counters * es[k].error <= d /\ es[k].error \in Nat /\ k \in Items /\ k \in rest
      BY <1>1, <2>2, EntryFacts DEF Entered
    <3>2. Counters * es[k].error \in Nat
      BY <1>0, <3>1
    <3> QED
      BY <1>1, <1>2, <2>2, <3>1, <3>2
  <2> QED
    BY <2>1, <2>2
<1>6. ASSUME NEW k \in Items \ DOMAIN fs
      PROVE  \A j \in DOMAIN fs : v[k] <= fs[j].estimate
  <2>1. k # key /\ v[k] = w[k] /\ w[k] \in Nat
    BY <1>1, <1>2
  <2>2. ASSUME NEW j \in DOMAIN es PROVE w[k] <= es[j].estimate /\ es[j].estimate \in Nat
    <3>1. es[least].estimate <= es[j].estimate /\ es[j].estimate \in Nat
      BY EntryFacts
    <3>2. w[k] <= es[least].estimate
      <4>1. CASE k = least
        BY <4>1 DEF Entered
      <4>2. CASE k # least
        BY <1>1, <4>2 DEF Entered
      <4> QED
        BY <4>1, <4>2
    <3> QED
      BY <1>0, <2>1, <3>1, <3>2
  <2>3. w[k] <= m
    BY <2>2
  <2> HIDE DEF m
  <2> QED
    BY <1>0, <1>1, <2>1, <2>2, <2>3
<1>7. Entered(fs, v, d + weight)
  <2>1. DOMAIN fs \subseteq Items /\ Cardinality(DOMAIN fs) <= Counters
        /\ ~ (Cardinality(DOMAIN fs) < Counters)
    BY <1>0, <1>1 DEF Entered
  <2> QED
    BY <1>1, <1>3, <1>5, <1>6, <2>1 DEF Entered
<1> QED
  BY <1>7 DEF v

LEMMA MetIsFinite == \A r, c : IsFiniteSet(Met(r, c)) /\ Met(r, c) \subseteq Items
BY FrequencyParameters, FS_Subset DEF Met

\* An increment weighs the cell of the key in each row.
LEMMA CellsRaised ==
  ASSUME NEW tb, NEW w, NEW d, Types(tb, w, d), Cells(tb, w), NEW key \in Items, NEW weight \in Nat,
         NEW tc, tc = [cell \in Rows \X Frequency!Cols |->
                        tb[cell] + (IF col[<<cell[1], key>>] = cell[2] THEN weight ELSE 0)],
         NEW v, v = [w EXCEPT ![key] = @ + weight]
  PROVE  Types(tc, v, d + weight) /\ Cells(tc, v)
<1>1. /\ w \in [Items -> Nat] /\ tb \in [Rows \X Frequency!Cols -> Nat] /\ d \in Nat
      /\ col \in [Rows \X Items -> Frequency!Cols]
  BY DEF Types
<1>2. v \in [Items -> Nat] /\ v[key] = w[key] + weight /\ \A k \in Items : k # key => v[k] = w[k]
  BY <1>1
<1>3. \A r \in Rows, c \in Frequency!Cols :
        tc[<<r, c>>] = tb[<<r, c>>] + (IF col[<<r, key>>] = c THEN weight ELSE 0)
  OBVIOUS
<1>4. tc \in [Rows \X Frequency!Cols -> Nat]
  <2>1. \A cell \in Rows \X Frequency!Cols :
          tb[cell] + (IF col[<<cell[1], key>>] = cell[2] THEN weight ELSE 0) \in Nat
    BY <1>1
  <2> QED
    BY <2>1
<1>5. ASSUME NEW r \in Rows, NEW c \in Frequency!Cols
      PROVE  tc[<<r, c>>] = Sum(Weighed(v, r, c))
  <2> DEFINE f == Weighed(w, r, c)
             g == Weighed(v, r, c)
  <2>1. f \in [Met(r, c) -> Int] /\ g \in [Met(r, c) -> Int] /\ IsFiniteSet(Met(r, c))
    BY <1>1, <1>2, MetIsFinite DEF Weighed
  <2>2. tb[<<r, c>>] = Sum(f)
    BY DEF Cells
  <2>3. CASE col[<<r, key>>] = c
    <3>1. key \in Met(r, c) /\ g[key] = f[key] + weight /\ f[key] \in Int
          /\ \A y \in Met(r, c) : y # key => g[y] = f[y]
      BY <1>1, <1>2, <2>3 DEF Weighed, Met
    <3>2. Sum(f) \in Int
      BY <2>1, SumType
    <3> HIDE DEF f, g
    <3>3. Sum(g) = Sum(f) - f[key] + g[key]
      BY <2>1, <3>1, SumUpdate
    <3>4. Sum(g) = tb[<<r, c>>] + weight
      BY <2>2, <3>1, <3>2, <3>3
    <3>5. tc[<<r, c>>] = tb[<<r, c>>] + weight
      BY <1>3, <2>3
    <3> QED
      BY <3>4, <3>5 DEF g
  <2>4. CASE col[<<r, key>>] # c
    <3>1. g = f
      BY <1>1, <1>2, <2>4 DEF Weighed, Met
    <3>2. tb[<<r, c>>] \in Nat
      BY <1>1
    <3> QED
      BY <1>3, <2>2, <2>4, <3>1, <3>2
  <2> QED
    BY <2>3, <2>4
<1>6. d + weight \in Nat
  BY <1>1
<1>7. Types(tc, v, d + weight)
  BY <1>1, <1>2, <1>4, <1>6 DEF Types
<1> QED
  BY <1>5, <1>7 DEF Cells

LEMMA NothingCounted ==
  ASSUME NEW tb, tb = [cell \in Rows \X Frequency!Cols |-> 0], NEW w, w = [k \in Items |-> 0],
         col \in [Rows \X Items -> Frequency!Cols]
  PROVE  Types(tb, w, 0) /\ Entered(<<>>, w, 0) /\ Cells(tb, w)
<1>1. Types(tb, w, 0)
  BY DEF Types
<1>2. \A r \in Rows, c \in Frequency!Cols : Sum(Weighed(w, r, c)) = 0
  <2> TAKE r \in Rows, c \in Frequency!Cols
  <2>1. Weighed(w, r, c) \in [Met(r, c) -> Nat] /\ \A x \in Met(r, c) : Weighed(w, r, c)[x] = 0
    BY DEF Weighed, Met
  <2> QED
    BY <2>1, MetIsFinite, SumOfNats
<1>3. Cells(tb, w)
  BY <1>2 DEF Cells
<1>4. DOMAIN <<>> = {} /\ <<>> \in [{} -> [estimate : Nat, error : Nat]]
  OBVIOUS
<1>5. Entered(<<>>, w, 0)
  <2> DEFINE es == <<>>
  <2>1. DOMAIN es = {} /\ es \in [DOMAIN es -> [estimate : Nat, error : Nat]]
    BY <1>4
  <2> HIDE DEF es
  <2>2. Estimates(es) \in [{} -> Nat] /\ \A x \in {} : Estimates(es)[x] = 0
    BY <2>1 DEF Estimates
  <2>3. Sum(Estimates(es)) = 0
    BY <2>2, SumOfNats, FS_EmptySet
  <2>4. Cardinality(DOMAIN es) = 0
    BY <2>1, FS_EmptySet
  <2>5. Entered(es, w, 0)
    BY <2>1, <2>3, <2>4, FrequencyParameters DEF Entered
  <2> QED
    BY <2>5 DEF es
<1> QED
  BY <1>1, <1>3, <1>5

LEMMA FrequencyInit == Frequency!Init => Frequency!FrequencyInv
<1> SUFFICES ASSUME Frequency!Init PROVE Frequency!FrequencyInv
  OBVIOUS
<1>1. Types(table, truth, 0) /\ Entered(<<>>, truth, 0) /\ Cells(table, truth)
  BY NothingCounted DEF Frequency!Init
<1> QED
  BY <1>1, FrequencyInvIs DEF Frequency!Init

LEMMA FrequencyArrive ==
  ASSUME Frequency!FrequencyInv, Frequency!Arrive
  PROVE  Frequency!FrequencyInv'
<1>1. Types(table, truth, total) /\ Entered(counts, truth, total) /\ Cells(table, truth)
  BY FrequencyInvIs
<1>2. PICK key \in Items, weight \in 1..(MaxTotal - total) :
        /\ Frequency!Observe(key, weight) /\ Frequency!Increment(key, weight)
        /\ total' = total + weight /\ truth' = [truth EXCEPT ![key] = @ + weight]
        /\ col' = col
  BY DEF Frequency!Arrive
<1>3. weight \in Nat /\ total \in Nat /\ truth \in [Items -> Nat]
  BY <1>1 DEF Types
<1>4. PICK es : es = counts'
  OBVIOUS
<1>5. PICK w : w = truth'
  OBVIOUS
<1>6. PICK tb : tb = table'
  OBVIOUS
<1>7. Entered(es, w, total + weight)
  <2>1. w = [truth EXCEPT ![key] = @ + weight]
    BY <1>2, <1>5
  <2>2. CASE key \in DOMAIN counts /\ counts' = [counts EXCEPT ![key].estimate = @ + weight]
    BY <1>1, <1>3, <1>4, <2>1, <2>2, EntryRaised
  <2>3. CASE /\ key \notin DOMAIN counts /\ Cardinality(DOMAIN counts) < Counters
             /\ counts' = [k \in DOMAIN counts \cup {key} |->
                  IF k = key THEN [estimate |-> weight, error |-> 0] ELSE counts[k]]
    BY <1>1, <1>3, <1>4, <2>1, <2>3, EntryOpened
  <2>4. ASSUME key \notin DOMAIN counts, Cardinality(DOMAIN counts) >= Counters, NEW least \in DOMAIN counts,
               \A k \in DOMAIN counts : counts[least].estimate <= counts[k].estimate,
               counts' = [k \in (DOMAIN counts \ {least}) \cup {key} |->
                 IF k = key THEN [estimate |-> counts[least].estimate + weight,
                                  error |-> counts[least].estimate] ELSE counts[k]]
        PROVE  Entered(es, w, total + weight)
    <3>1. TakesOver(es, counts, key, weight, least)
      BY <1>4, <2>4 DEF TakesOver
    <3>2. Entered(es, [truth EXCEPT ![key] = @ + weight], total + weight)
      BY <1>1, <1>3, <3>1, EntryTaken
    <3> QED
      BY <2>1, <3>2
  <2> QED
    BY <1>2, <2>2, <2>3, <2>4, FrequencySets
      DEF Frequency!Observe, Frequency!Tracked, Frequency!Boosted
<1>8. Types(tb, w, total + weight) /\ Cells(tb, w)
  <2>1. w = [truth EXCEPT ![key] = @ + weight]
    BY <1>2, <1>5
  <2>2. tb = [cell \in Rows \X Frequency!Cols |->
               table[cell] + (IF col[<<cell[1], key>>] = cell[2] THEN weight ELSE 0)]
    BY <1>2, <1>6 DEF Frequency!Increment
  <2> QED
    BY ZenonT(40), <1>1, <1>3, <2>1, <2>2, CellsRaised
<1>9. (Types(table, truth, total) /\ Entered(counts, truth, total) /\ Cells(table, truth))'
  <2>1. Types(table, truth, total)' <=> Types(table', truth', total')
    BY <1>2 DEF Types, Frequency!Cols
  <2>2. Entered(counts, truth, total)' <=> Entered(counts', truth', total')
    BY DEF Entered, Estimates
  <2>3. Cells(table, truth)' <=> Cells(table', truth')
    BY <1>2 DEF Cells, Weighed, Met, Frequency!Cols
  <2> QED
    BY <1>2, <1>4, <1>5, <1>6, <1>7, <1>8, <2>1, <2>2, <2>3
<1> QED
  BY <1>9, FrequencyInvIs, PTL

LEMMA FrequencyNext == Frequency!FrequencyInv /\ [Frequency!Next]_frequencyVars => Frequency!FrequencyInv'
<1> SUFFICES ASSUME Frequency!FrequencyInv, [Frequency!Next]_frequencyVars PROVE Frequency!FrequencyInv'
  OBVIOUS
<1>1. CASE UNCHANGED frequencyVars
  BY <1>1 DEF frequencyVars, Frequency!FrequencyInv, Frequency!TypeOK, Frequency!EntriesInv, Frequency!CellsInv,
     Frequency!Tracked, Frequency!Cols
<1>2. CASE Frequency!ArriveWeightless
  BY <1>1, <1>2 DEF Frequency!ArriveWeightless, Frequency!vars, frequencyVars
<1>3. CASE Frequency!Reset
  <2>1. col \in [Rows \X Items -> Frequency!Cols]
    BY FrequencyInvIs DEF Types
  <2>2. PICK tb : tb = table'
    OBVIOUS
  <2>3. PICK w : w = truth'
    OBVIOUS
  <2>4. Types(tb, w, 0) /\ Entered(<<>>, w, 0) /\ Cells(tb, w)
    <3>1. tb = [cell \in Rows \X Frequency!Cols |-> 0] /\ w = [k \in Items |-> 0]
      BY <1>3, <2>2, <2>3 DEF Frequency!Reset
    <3> QED
      BY <2>1, <3>1, NothingCounted
  <2>5. counts' = <<>> /\ total' = 0 /\ col' = col
    BY <1>3 DEF Frequency!Reset
  <2>6. Types(table, truth, total)'
    BY <2>2, <2>3, <2>4, <2>5 DEF Types, Frequency!Cols
  <2>7. Entered(counts, truth, total)'
    BY <2>2, <2>3, <2>4, <2>5 DEF Entered, Estimates
  <2>8. Cells(table, truth)'
    BY <2>2, <2>3, <2>4, <2>5 DEF Cells, Weighed, Met, Frequency!Cols
  <2> QED
    BY <2>6, <2>7, <2>8, FrequencyInvIs, PTL
<1> QED
  BY <1>1, <1>2, <1>3, FrequencyArrive DEF Frequency!Next

LEMMA FrequencyBrackets ==
  ASSUME Frequency!FrequencyInv
  PROVE  Frequency!EstimatesBracketTruth
<1>1. Types(table, truth, total) /\ Entered(counts, truth, total) /\ Cells(table, truth)
      /\ truth \in [Items -> Nat] /\ total \in Nat
  BY FrequencyInvIs DEF Types
<1>2. \A x \in Nat : Counters * x <= total => x <= Frequency!ErrorBound
  <2>0. Frequency!ErrorBound = total \div Counters
    BY DEF Frequency!ErrorBound
  <2>1. ASSUME NEW x \in Nat, Counters * x <= total PROVE x <= total \div Counters
    <3>1. PICK q : q = total \div Counters
      OBVIOUS
    <3>2. q \in Int /\ total < Counters * (q + 1)
      BY <1>1, <3>1, FrequencyParameters
    <3>3. ~ (x >= q + 1)
      <4>1. SUFFICES ASSUME x >= q + 1 PROVE Counters * (q + 1) <= Counters * x
        BY <1>1, <2>1, <3>2, FrequencyParameters
      <4> QED
        BY <3>2, <4>1, FrequencyParameters
    <3> QED
      BY <3>1, <3>2, <3>3
  <2> QED
    BY <2>0, <2>1
<1>3. ASSUME NEW k \in DOMAIN counts
      PROVE  /\ truth[k] \in (counts[k].estimate - counts[k].error)..counts[k].estimate
             /\ counts[k].error <= Frequency!ErrorBound
  <2>1. /\ truth[k] <= counts[k].estimate /\ counts[k].estimate <= truth[k] + counts[k].error
        /\ Counters * counts[k].error <= total
    BY <1>1 DEF Entered
  <2>2. truth[k] \in Nat /\ counts[k].estimate \in Nat /\ counts[k].error \in Nat
    BY <1>1, EntryFacts
  <2> QED
    BY <1>2, <2>1, <2>2
<1>4. ASSUME NEW k \in Items \ DOMAIN counts
      PROVE  truth[k] <= Frequency!ErrorBound
  <2>1. truth[k] \in Nat /\ (\A j \in DOMAIN counts : truth[k] <= counts[j].estimate)
        /\ (Cardinality(DOMAIN counts) < Counters => truth[k] = 0)
    BY <1>1 DEF Entered
  <2>2. Counters * truth[k] <= total
    <3>1. CASE Cardinality(DOMAIN counts) < Counters
      <4>1. truth[k] = 0 /\ Counters * 0 = 0
        BY <2>1, <3>1, FrequencyParameters
      <4> QED
        BY <1>1, <4>1
    <3>2. CASE Cardinality(DOMAIN counts) >= Counters
      <4>1. PICK m \in Nat : m = truth[k]
        BY <2>1
      <4>2. Entered(counts, truth, total) /\ \A j \in DOMAIN counts : m <= counts[j].estimate
        BY <1>1, <2>1, <4>1
      <4>3. Counters * m <= total
        BY <1>1, <3>2, <4>2, FullEntries
      <4> QED
        BY <4>1, <4>3
    <3>3. Cardinality(DOMAIN counts) \in Nat /\ Counters \in Nat
      BY <1>1, EntryFacts, FrequencyParameters
    <3> QED
      BY <3>1, <3>2, <3>3
  <2> QED
    BY <1>2, <2>1, <2>2
<1>5. ASSUME NEW k \in Items, NEW r \in Rows
      PROVE  Frequency!Estimate(k) \in
               truth[k]..Frequency!SumFunction([j \in {j \in Items : col[<<r, j>>] = col[<<r, k>>]} |-> truth[j]])
  <2> DEFINE Told(q) == table[<<q, col[<<q, k>>]>>]
             all == {Told(q) : q \in Rows}
  <2>1. ASSUME NEW q \in Rows
        PROVE  /\ Told(q) \in Nat /\ truth[k] <= Told(q)
               /\ Told(q) = Sum([j \in {j \in Items : col[<<q, j>>] = col[<<q, k>>]} |-> truth[j]])
    <3>1. col[<<q, k>>] \in Frequency!Cols
      BY <1>1 DEF Types
    <3>2. PICK c : c = col[<<q, k>>]
      OBVIOUS
    <3>3. Told(q) = Sum(Weighed(truth, q, c)) /\ Told(q) \in Nat
      BY <1>1, <3>1, <3>2 DEF Cells, Types
    <3>4. Weighed(truth, q, c) \in [Met(q, c) -> Nat] /\ k \in Met(q, c) /\ IsFiniteSet(Met(q, c))
          /\ Weighed(truth, q, c)[k] = truth[k]
      BY <1>1, <3>2, MetIsFinite DEF Weighed, Met
    <3>5. truth[k] <= Sum(Weighed(truth, q, c))
      BY <3>4, TermWithinSum
    <3>6. Weighed(truth, q, c) = [j \in {j \in Items : col[<<q, j>>] = col[<<q, k>>]} |-> truth[j]]
      BY <3>2 DEF Weighed, Met
    <3> QED
      BY <3>3, <3>5, <3>6
  <2>2. all \subseteq Nat /\ all # {} /\ Told(r) \in all
    BY <2>1
  <2>3. Frequency!Estimate(k) \in all /\ \A y \in all : Frequency!Estimate(k) <= y
    <3>1. PICK m \in all : \A y \in all : m <= y
      BY <2>2, Least
    <3>2. Frequency!Estimate(k) = CHOOSE x \in all : \A y \in all : x <= y
      BY FrequencySets DEF Frequency!Estimate
    <3> HIDE DEF all
    <3> QED
      BY <3>1, <3>2
  <2>4. PICK q \in Rows : Frequency!Estimate(k) = Told(q)
    BY <2>3
  <2>5. Frequency!Estimate(k) \in Nat /\ truth[k] <= Frequency!Estimate(k) /\ Frequency!Estimate(k) <= Told(r)
        /\ truth[k] \in Nat /\ Told(r) \in Nat
    BY <1>1, <2>1, <2>2, <2>3, <2>4
  <2>6. Told(r) = Frequency!SumFunction([j \in {j \in Items : col[<<r, j>>] = col[<<r, k>>]} |-> truth[j]])
    BY <2>1, FrequencySets
  <2> HIDE DEF Told
  <2> QED
    BY <2>5, <2>6
<1>6. Frequency!SumFunction([k \in DOMAIN counts |-> counts[k].estimate]) = total
  BY <1>1, FrequencySets DEF Entered, Estimates
<1>7. \A k \in Items : truth[k] > Frequency!ErrorBound => k \in DOMAIN counts
  <2>1. Frequency!ErrorBound \in Int
    BY <1>1, FrequencyParameters DEF Frequency!ErrorBound
  <2> QED
    BY <1>1, <1>4, <2>1
<1> QED
  BY <1>3, <1>5, <1>6, <1>7 DEF Frequency!EstimatesBracketTruth, Frequency!Tracked

------------------------------------------------------------------------------
(* Sets.                                                                    *)

LEMMA SetsNames ==
  /\ \A S : Sets!Cardinality(S) = Cardinality(S)
  /\ \A S : Sets!IsFiniteSet(S) <=> IsFiniteSet(S)
  /\ \A S : Sets!Max(S) = CHOOSE x \in S : \A y \in S : x >= y
<1>1. \A S : Sets!Cardinality(S) = Cardinality(S)
  BY DEF Sets!Cardinality, Cardinality
<1>2. \A S : Sets!IsFiniteSet(S) <=> IsFiniteSet(S)
  BY DEF Sets!IsFiniteSet, IsFiniteSet
<1>3. \A S : Sets!Max(S) = CHOOSE x \in S : \A y \in S : x >= y
  BY DEF Sets!Max
<1> QED
  BY <1>1, <1>2, <1>3

Finite(S) == S \subseteq Nat /\ S # {} /\ IsFiniteSet(S)

LEMMA MaxOfFinite ==
  ASSUME NEW S, Finite(S)
  PROVE  Sets!Max(S) \in S /\ Sets!Max(S) \in Nat /\ \A y \in S : y <= Sets!Max(S)
<1>1. PICK m \in S : \A y \in S : y <= m
  BY Greatest DEF Finite
<1>2. m >= m /\ \A y \in S : m >= y
  BY <1>1 DEF Finite
<1>3. Sets!Max(S) \in S /\ \A y \in S : Sets!Max(S) >= y
  BY <1>1, <1>2, SetsNames
<1> QED
  BY <1>3 DEF Finite

LEMMA MaxOfTwo ==
  ASSUME NEW x \in Nat, NEW y \in Nat
  PROVE  Sets!Max({x, y}) = IF x >= y THEN x ELSE y
<1>1. Finite({x, y})
  <2>1. IsFiniteSet({x}) /\ IsFiniteSet({y}) /\ {x, y} = {x} \cup {y}
    BY FS_Singleton
  <2>2. IsFiniteSet({x, y})
    BY <2>1, FS_Union
  <2> QED
    BY <2>2 DEF Finite
<1> QED
  BY <1>1, MaxOfFinite

LEMMA MaxOfBoth ==
  ASSUME NEW S, NEW T, Finite(S), Finite(T)
  PROVE  Sets!Max(S \cup T) = Sets!Max({Sets!Max(S), Sets!Max(T)})
<1>1. Finite(S \cup T)
  BY FS_Union DEF Finite
<1>2. PICK x \in Nat : x = Sets!Max(S)
  BY MaxOfFinite
<1>3. PICK y \in Nat : y = Sets!Max(T)
  BY MaxOfFinite
<1>4. PICK z \in Nat : z = Sets!Max(S \cup T)
  BY <1>1, MaxOfFinite
<1>5. x \in S /\ (\A s \in S : s <= x) /\ y \in T /\ (\A t \in T : t <= y)
      /\ z \in S \cup T /\ \A u \in S \cup T : u <= z
  BY <1>1, <1>2, <1>3, <1>4, MaxOfFinite
<1>6. z = IF x >= y THEN x ELSE y
  BY <1>5
<1> QED
  BY <1>2, <1>3, <1>4, <1>6, MaxOfTwo

\* The ranks the keys of a set bring to a register, and the highest.
Ranks(h, r) == {0} \cup {rho[k] : k \in {j \in h : slot[j] = r}}
Highest(h, r) == Sets!Max(Ranks(h, r))

LEMMA RanksAreFinite ==
  ASSUME rho \in [Members -> 1..MaxRank], NEW h \in SUBSET Members, IsFiniteSet(h), NEW r
  PROVE  Finite(Ranks(h, r)) /\ Highest(h, r) \in Nat
<1>1. IsFiniteSet({j \in h : slot[j] = r})
  BY FS_Subset
<1>2. IsFiniteSet({rho[k] : k \in {j \in h : slot[j] = r}})
  BY <1>1, ImageFinite
<1>3. IsFiniteSet(Ranks(h, r))
  <2>1. IsFiniteSet({0})
    BY FS_Singleton
  <2> QED
    BY <1>2, <2>1, FS_Union DEF Ranks
<1>4. Ranks(h, r) \subseteq Nat /\ Ranks(h, r) # {}
  <2>1. MaxRank \in Int
    BY StreamsParameters DEF Sets!SetsAssumption
  <2>2. \A k \in h : rho[k] \in Nat
    BY <2>1
  <2> QED
    BY <2>2 DEF Ranks
<1>5. Finite(Ranks(h, r))
  BY <1>3, <1>4 DEF Finite
<1> QED
  BY <1>5, MaxOfFinite DEF Highest

LEMMA HighestOfBoth ==
  ASSUME rho \in [Members -> 1..MaxRank], NEW h \in SUBSET Members, IsFiniteSet(h),
         NEW g \in SUBSET Members, IsFiniteSet(g), NEW r
  PROVE  Highest(h \cup g, r) = Sets!Max({Highest(h, r), Highest(g, r)})
<1>1. Ranks(h \cup g, r) = Ranks(h, r) \cup Ranks(g, r)
  BY DEF Ranks
<1>2. Finite(Ranks(h, r)) /\ Finite(Ranks(g, r))
  BY RanksAreFinite
<1> QED
  BY <1>1, <1>2, MaxOfBoth DEF Highest

LEMMA HighestOfOne ==
  ASSUME rho \in [Members -> 1..MaxRank], NEW k \in Members, NEW r
  PROVE  Highest({k}, r) = IF slot[k] = r THEN rho[k] ELSE 0
<1>1. Ranks({k}, r) = IF slot[k] = r THEN {0, rho[k]} ELSE {0, 0}
  BY DEF Ranks
<1>2. MaxRank \in Int
  BY StreamsParameters DEF Sets!SetsAssumption
<1>3. rho[k] \in Nat /\ rho[k] >= 1
  BY <1>2
<1>4. Sets!Max({0, rho[k]}) = rho[k] /\ Sets!Max({0, 0}) = 0
  BY <1>3, MaxOfTwo
<1> QED
  BY <1>1, <1>4 DEF Highest

LEMMA HighestOfNone == \A r : Highest({}, r) = 0
<1>1. \A r : Ranks({}, r) = {0, 0}
  BY DEF Ranks
<1> QED
  BY <1>1, MaxOfTwo DEF Highest

\* What a collector holds, is what its keys say.
Collected(b, g, t, h) ==
  /\ b \in SUBSET Bits /\ g \in [Registers -> Nat] /\ t \in Nat /\ h \in SUBSET Members
  /\ IsFiniteSet(h) /\ Cardinality(h) <= t
  /\ b = UNION {indexes[k] : k \in h}
  /\ \A r \in Registers : g[r] = Highest(h, r)

Hashing ==
  /\ indexes \in [Members -> SUBSET Bits]
  /\ slot \in [Members -> Registers] /\ rho \in [Members -> 1..MaxRank]

AllCollected ==
  /\ bits \in [Collectors -> SUBSET Bits] /\ registers \in [Collectors -> [Registers -> Nat]]
  /\ total_added \in [Collectors -> Nat] /\ held \in [Collectors -> SUBSET Members]
  /\ \A m \in Collectors : Collected(bits[m], registers[m], total_added[m], held[m])

LEMMA SetsInvIs == Sets!SetsInv <=> Hashing /\ AllCollected
<1>1. ASSUME Hashing, NEW b, NEW g, NEW t, NEW h, b \in SUBSET Bits, g \in [Registers -> Nat], t \in Nat,
             h \in SUBSET Members
      PROVE  Collected(b, g, t, h) <=>
               /\ Sets!IsFiniteSet(h) /\ t >= Sets!Cardinality(h)
               /\ b = UNION {indexes[k] : k \in h}
               /\ \A k \in h : indexes[k] \subseteq b
               /\ \A r \in Registers : g[r] = Sets!Max({0} \cup {rho[k] : k \in {j \in h : slot[j] = r}})
  <2>1. IsFiniteSet(h) => Cardinality(h) \in Nat
    BY FS_CardinalityType
  <2>2. b = UNION {indexes[k] : k \in h} => \A k \in h : indexes[k] \subseteq b
    OBVIOUS
  <2> QED
    BY <1>1, <2>1, <2>2, SetsNames DEF Collected, Highest, Ranks
<1>2. ASSUME NEW m \in Collectors, Sets!TypeOK
      PROVE  /\ Hashing /\ bits[m] \in SUBSET Bits /\ registers[m] \in [Registers -> Nat]
             /\ total_added[m] \in Nat /\ held[m] \in SUBSET Members
  BY <1>2 DEF Sets!TypeOK, Hashing
<1>3. Sets!SetsInv => Hashing /\ AllCollected
  <2> SUFFICES ASSUME Sets!SetsInv PROVE Hashing /\ AllCollected
    OBVIOUS
  <2>1. \A m \in Collectors : Collected(bits[m], registers[m], total_added[m], held[m])
    BY ZenonT(40), <1>1, <1>2 DEF Sets!SetsInv, Sets!MergeIsUnion, Sets!Contains, Sets!TypeOK
  <2> QED
    BY <2>1 DEF Sets!SetsInv, Sets!TypeOK, Hashing, AllCollected
<1>4. Hashing /\ AllCollected => Sets!SetsInv
  <2> SUFFICES ASSUME Hashing, AllCollected PROVE Sets!SetsInv
    OBVIOUS
  <2>1. Sets!TypeOK
    BY SetsNames DEF Sets!TypeOK, Hashing, AllCollected, Collected
  <2>2. ASSUME NEW m \in Collectors
        PROVE  /\ total_added[m] >= Sets!Cardinality(held[m])
               /\ bits[m] = UNION {indexes[k] : k \in held[m]}
               /\ \A k \in held[m] : indexes[k] \subseteq bits[m]
               /\ \A r \in Registers : registers[m][r] =
                    Sets!Max({0} \cup {rho[k] : k \in {j \in held[m] : slot[j] = r}})
    BY <1>1, <1>2, <2>1 DEF AllCollected
  <2> QED
    BY <2>1, <2>2 DEF Sets!SetsInv, Sets!MergeIsUnion, Sets!Contains
<1> QED
  BY <1>3, <1>4

LEMMA NothingCollected ==
  Collected({}, Sets!NoKeys, 0, {})
<1>1. Sets!NoKeys \in [Registers -> Nat] /\ \A r \in Registers : Sets!NoKeys[r] = 0
  BY DEF Sets!NoKeys
<1> QED
  BY <1>1, HighestOfNone, FS_EmptySet DEF Collected

LEMMA BothCollected ==
  ASSUME Hashing, NEW b, NEW g, NEW t, NEW h, Collected(b, g, t, h),
         NEW c, NEW f, NEW u, NEW i, Collected(c, f, u, i)
  PROVE  Collected(b \cup c, Sets!Largest(g, f), t + u, h \cup i)
<1> DEFINE e == Sets!Largest(g, f)
<1>1. IsFiniteSet(h \cup i) /\ Cardinality(h \cup i) <= Cardinality(h) + Cardinality(i)
      /\ Cardinality(h) \in Nat /\ Cardinality(i) \in Nat /\ Cardinality(h \cup i) \in Nat
  <2>1. IsFiniteSet(h) /\ IsFiniteSet(i)
    BY DEF Collected
  <2>2. IsFiniteSet(h \cup i) /\ Cardinality(h \cup i) = Cardinality(h) + Cardinality(i) - Cardinality(h \cap i)
    BY <2>1, FS_Union
  <2>3. IsFiniteSet(h \cap i)
    BY <2>1, FS_Intersection
  <2>4. Cardinality(h) \in Nat /\ Cardinality(i) \in Nat /\ Cardinality(h \cap i) \in Nat
        /\ Cardinality(h \cup i) \in Nat
    BY <2>1, <2>2, <2>3, FS_CardinalityType
  <2> QED
    BY <2>2, <2>4
<1>2. \A r \in Registers : e[r] = Highest(h \cup i, r) /\ e[r] \in Nat
  <2> TAKE r \in Registers
  <2>1. e[r] = Sets!Max({g[r], f[r]}) /\ g[r] = Highest(h, r) /\ f[r] = Highest(i, r)
        /\ g[r] \in Nat /\ f[r] \in Nat
    BY DEF Collected, Sets!Largest
  <2>2. Highest(h \cup i, r) = Sets!Max({Highest(h, r), Highest(i, r)})
    BY HighestOfBoth DEF Hashing, Collected
  <2> QED
    BY <2>1, <2>2, MaxOfTwo
<1>3. e \in [Registers -> Nat]
  BY <1>2 DEF Sets!Largest
<1>4. b \cup c = UNION {indexes[k] : k \in h \cup i}
  BY DEF Collected
<1> HIDE DEF e
<1>5. Collected(b \cup c, e, t + u, h \cup i)
  BY <1>1, <1>2, <1>3, <1>4 DEF Collected
<1> QED
  BY <1>5 DEF e

LEMMA OneCollected ==
  ASSUME Hashing, NEW k \in Members
  PROVE  Collected(indexes[k], [r \in Registers |-> IF slot[k] = r THEN rho[k] ELSE 0], 1, {k})
<1>1. rho[k] \in Nat
  <2>1. MaxRank \in Int
    BY StreamsParameters DEF Sets!SetsAssumption
  <2> QED
    BY <2>1 DEF Hashing
<1>2. IsFiniteSet({k}) /\ Cardinality({k}) = 1
  BY FS_Singleton
<1>3. \A r \in Registers : (IF slot[k] = r THEN rho[k] ELSE 0) = Highest({k}, r)
  BY HighestOfOne DEF Hashing
<1> QED
  BY <1>1, <1>2, <1>3 DEF Collected, Hashing

LEMMA SetsInit == Sets!Init => Sets!SetsInv
<1> SUFFICES ASSUME Sets!Init PROVE Sets!SetsInv
  OBVIOUS
<1>1. Hashing
  BY DEF Sets!Init, Hashing
<1>2. AllCollected
  <2>1. /\ bits = [m \in Collectors |-> {}] /\ registers = [m \in Collectors |-> Sets!NoKeys]
        /\ total_added = [m \in Collectors |-> 0] /\ held = [m \in Collectors |-> {}]
    BY DEF Sets!Init
  <2>2. Sets!NoKeys \in [Registers -> Nat]
    BY DEF Sets!NoKeys
  <2>3. \A m \in Collectors : Collected(bits[m], registers[m], total_added[m], held[m])
    BY <2>1, NothingCollected
  <2> QED
    BY <2>1, <2>2, <2>3 DEF AllCollected
<1> QED
  BY <1>1, <1>2, SetsInvIs

\* One collector changes and the hashes do not.
LEMMA SetsChange ==
  ASSUME Hashing, AllCollected, NEW m \in Collectors, NEW b, NEW g, NEW t, NEW h,
         Collected(b, g, t, h),
         bits' = [bits EXCEPT ![m] = b], registers' = [registers EXCEPT ![m] = g],
         total_added' = [total_added EXCEPT ![m] = t], held' = [held EXCEPT ![m] = h],
         UNCHANGED <<indexes, slot, rho>>
  PROVE  Sets!SetsInv'
<1>1. Hashing'
  BY DEF Hashing
<1>2. /\ bits' \in [Collectors -> SUBSET Bits] /\ registers' \in [Collectors -> [Registers -> Nat]]
      /\ total_added' \in [Collectors -> Nat] /\ held' \in [Collectors -> SUBSET Members]
  BY DEF AllCollected, Collected
<1>3. ASSUME NEW c \in Collectors
      PROVE  Collected(bits[c], registers[c], total_added[c], held[c])'
  <2>1. PICK b2, g2, t2, h2 : b2 = bits'[c] /\ g2 = registers'[c] /\ t2 = total_added'[c] /\ h2 = held'[c]
    OBVIOUS
  <2>2. Collected(b2, g2, t2, h2)
    BY <2>1 DEF AllCollected
  <2>3. Collected(bits[c], registers[c], total_added[c], held[c])' <=> Collected(b2, g2, t2, h2)
    BY <2>1 DEF Collected, Highest, Ranks
  <2> QED
    BY <2>2, <2>3
<1>4. AllCollected'
  BY <1>2, <1>3 DEF AllCollected
<1> QED
  BY <1>1, <1>4, SetsInvIs, PTL

LEMMA SetsNext == Sets!SetsInv /\ [Sets!Next]_setVars => Sets!SetsInv'
<1> SUFFICES ASSUME Sets!SetsInv, [Sets!Next]_setVars PROVE Sets!SetsInv'
  OBVIOUS
<1>0. /\ Hashing /\ AllCollected
      /\ \A m \in Collectors : Collected(bits[m], registers[m], total_added[m], held[m])
  BY SetsInvIs DEF AllCollected
<1>1. CASE UNCHANGED setVars
  BY <1>1 DEF setVars, Sets!SetsInv, Sets!TypeOK, Sets!MergeIsUnion, Sets!Contains
<1>2. ASSUME NEW m \in Collectors, NEW k \in Members, Sets!Add(m, k) PROVE Sets!SetsInv'
  <2>1. PICK f : f = [r \in Registers |-> IF slot[k] = r THEN rho[k] ELSE 0]
    OBVIOUS
  <2>2. PICK e : e = Sets!Largest(registers[m], f)
    OBVIOUS
  <2>3. Collected(bits[m] \cup indexes[k], e, total_added[m] + 1, held[m] \cup {k})
    <3>1. Collected(indexes[k], f, 1, {k})
      BY <1>0, <2>1, OneCollected
    <3> QED
      BY <1>0, <2>2, <3>1, BothCollected
  <2>4. [registers[m] EXCEPT ![slot[k]] = Sets!Max({@, rho[k]})] = e
    <3>1. registers[m] \in [Registers -> Nat] /\ slot[k] \in Registers
      BY <1>0 DEF Collected, Hashing
    <3>2. \A r \in Registers : Sets!Max({registers[m][r], 0}) = registers[m][r]
      BY <3>1, MaxOfTwo
    <3>3. \A r \in Registers :
            e[r] = IF r = slot[k] THEN Sets!Max({registers[m][r], rho[k]}) ELSE registers[m][r]
      BY <2>1, <2>2, <3>2 DEF Sets!Largest
    <3>4. e = [r \in Registers |-> e[r]]
      BY <2>2 DEF Sets!Largest
    <3> QED
      BY <3>1, <3>3, <3>4
  <2>5. registers' = [registers EXCEPT ![m] = e]
    <3>1. registers' = [registers EXCEPT ![m] = [registers[m] EXCEPT ![slot[k]] = Sets!Max({@, rho[k]})]]
      BY <1>2 DEF Sets!Add
    <3> QED
      BY <2>4, <3>1
  <2>6. /\ bits' = [bits EXCEPT ![m] = bits[m] \cup indexes[k]]
        /\ total_added' = [total_added EXCEPT ![m] = total_added[m] + 1]
        /\ held' = [held EXCEPT ![m] = held[m] \cup {k}] /\ UNCHANGED <<indexes, slot, rho>>
    BY <1>2 DEF Sets!Add
  <2> QED
    BY <1>0, <2>3, <2>5, <2>6, SetsChange
<1>3. ASSUME NEW m \in Collectors, NEW c \in Collectors \ {m}, Sets!Merge(m, c) PROVE Sets!SetsInv'
  <2>1. PICK e : e = Sets!Largest(registers[m], registers[c])
    OBVIOUS
  <2>2. Collected(bits[m] \cup bits[c], e, total_added[m] + total_added[c], held[m] \cup held[c])
    BY <1>0, <2>1, BothCollected
  <2>3. /\ bits' = [bits EXCEPT ![m] = bits[m] \cup bits[c]]
        /\ registers' = [registers EXCEPT ![m] = e]
        /\ total_added' = [total_added EXCEPT ![m] = total_added[m] + total_added[c]]
        /\ held' = [held EXCEPT ![m] = held[m] \cup held[c]] /\ UNCHANGED <<indexes, slot, rho>>
    BY <1>3, <2>1 DEF Sets!Merge
  <2> QED
    BY <1>0, <2>2, <2>3, SetsChange
<1>4. ASSUME NEW m \in Collectors, Sets!Reset(m) PROVE Sets!SetsInv'
  <2>1. /\ bits' = [bits EXCEPT ![m] = {}] /\ registers' = [registers EXCEPT ![m] = Sets!NoKeys]
        /\ total_added' = [total_added EXCEPT ![m] = 0] /\ held' = [held EXCEPT ![m] = {}]
        /\ UNCHANGED <<indexes, slot, rho>>
    BY <1>4 DEF Sets!Reset
  <2> QED
    BY <1>0, <2>1, NothingCollected, SetsChange
<1> QED
  BY <1>1, <1>2, <1>3, <1>4 DEF Sets!Next

\* What the sketches say brackets what their streams held, for any keys, any
\* capacity, any shape of table, of filter and of registers, and any hashes.
THEOREM SketchesStayBracketed == StreamsSpec => []SketchesBracketTruth
<1>1. StreamsInit => Frequency!FrequencyInv /\ Sets!SetsInv
  BY FrequencyInit, SetsInit DEF StreamsInit
<1>2. Frequency!FrequencyInv /\ Sets!SetsInv
      /\ [StreamsNext]_<<part, forestVars, wrapperVars, sketchVars, detectorVars, metricVars>>
      => Frequency!FrequencyInv' /\ Sets!SetsInv'
  BY FrequencyNext, SetsNext, SketchesStep
<1>3. Frequency!FrequencyInv /\ Sets!SetsInv => SketchesBracketTruth
  BY FrequencyBrackets DEF Sets!SetsInv, SketchesBracketTruth
<1> QED
  BY <1>1, <1>2, <1>3, PTL DEF StreamsSpec

------------------------------------------------------------------------------
(* Detectors.                                                               *)

\* A step of one detector leaves the variables of the others alone.
LEMMA DetectorsStep ==
  ASSUME [StreamsNext]_<<part, forestVars, wrapperVars, sketchVars, detectorVars,
                         metricVars>>
  PROVE  /\ [Cutting!Next]_windowVars /\ [Sums!Next]_sumVars
         /\ [Frozen!Next]_frozenVars /\ [Moving!Next]_movingVars
BY DEF StreamsNext, ForestStep, WrapperStep, SketchStep, DetectorStep, MetricStep,
       detectorVars

------------------------------------------------------------------------------
(* The window.                                                              *)

LEMMA WindowParameters == MinSub \in Nat /\ MinSub > 0 /\ WindowCap \in Nat /\ WindowCap > 0
BY StreamsParameters DEF Cutting!AdwinAssumption

\* w is the end of a.
Newest(w, a) ==
  /\ Len(w) <= Len(a)
  /\ \A i \in 1..Len(w) : w[i] = a[Len(a) - Len(w) + i]

LEMMA NewestIsSuffix ==
  ASSUME NEW w \in Seq(Readings), NEW a \in Seq(Readings), Newest(w, a)
  PROVE  Cutting!IsSuffix(w, a)
<1>1. PICK rw, ra : rw = Cutting!Reverse(w) /\ ra = Cutting!Reverse(a)
  OBVIOUS
<1>2. /\ rw = [i \in 1..Len(w) |-> w[(Len(w) - i) + 1]]
      /\ ra = [i \in 1..Len(a) |-> a[(Len(a) - i) + 1]]
  BY <1>1 DEF Cutting!Reverse
<1>3. Len(w) \in Nat /\ Len(a) \in Nat /\ Len(w) <= Len(a)
  BY DEF Newest
<1>4. rw \in Seq(Readings) /\ ra \in Seq(Readings) /\ Len(rw) = Len(w) /\ Len(ra) = Len(a)
  <2>1. \A i \in 1..Len(w) : w[(Len(w) - i) + 1] \in Readings
    BY <1>3
  <2>2. \A i \in 1..Len(a) : a[(Len(a) - i) + 1] \in Readings
    BY <1>3
  <2> QED
    BY <1>2, <1>3, <2>1, <2>2
<1>5. ASSUME NEW i \in 1..Len(w) PROVE rw[i] = ra[i]
  <2>1. Len(w) - i + 1 \in 1..Len(w) /\ Len(a) - Len(w) + (Len(w) - i + 1) = Len(a) - i + 1
    BY <1>3
  <2>2. i \in 1..Len(a)
    BY <1>3
  <2>3. w[Len(w) - i + 1] = a[Len(a) - i + 1]
    BY <2>1 DEF Newest
  <2> QED
    BY <1>2, <2>2, <2>3
<1>6. SubSeq(rw, 1, Len(rw)) = SubSeq(ra, 1, Len(rw))
  BY <1>3, <1>4, <1>5
<1> QED
  BY <1>1, <1>3, <1>4, <1>6 DEF Cutting!IsSuffix, Cutting!IsPrefix

\* What the next value and then the cut make of a window.
LEMMA NewestAppended ==
  ASSUME NEW w \in Seq(Readings), NEW a \in Seq(Readings), Newest(w, a), NEW v \in Readings
  PROVE  Newest(Append(w, v), Append(a, v))
<1>1. /\ Len(w) \in Nat /\ Len(a) \in Nat /\ Len(w) <= Len(a)
      /\ Len(Append(w, v)) = Len(w) + 1 /\ Len(Append(a, v)) = Len(a) + 1
  BY DEF Newest
<1>2. ASSUME NEW i \in 1..(Len(w) + 1) PROVE Append(w, v)[i] = Append(a, v)[Len(a) - Len(w) + i]
  <2>1. CASE i = Len(w) + 1
    BY <1>1, <2>1
  <2>2. CASE i # Len(w) + 1
    <3>1. i \in 1..Len(w) /\ Len(a) - Len(w) + i \in 1..Len(a)
      BY <1>1, <2>2
    <3>2. w[i] = a[Len(a) - Len(w) + i]
      BY <3>1 DEF Newest
    <3> QED
      BY <3>1, <3>2
  <2> QED
    BY <2>1, <2>2
<1>3. PICK x, y : x = Append(w, v) /\ y = Append(a, v)
  OBVIOUS
<1>4. Len(x) = Len(w) + 1 /\ Len(y) = Len(a) + 1
  BY <1>1, <1>3
<1>5. ASSUME NEW i \in 1..Len(x) PROVE x[i] = y[Len(y) - Len(x) + i]
  <2>1. i \in 1..(Len(w) + 1) /\ Len(y) - Len(x) + i = Len(a) - Len(w) + i
    BY <1>1, <1>4
  <2> QED
    BY <1>2, <1>3, <2>1
<1>6. Newest(x, y)
  BY <1>1, <1>4, <1>5 DEF Newest
<1> QED
  BY <1>3, <1>6

LEMMA NewestCut ==
  ASSUME NEW w \in Seq(Readings), NEW a \in Seq(Readings), Newest(w, a), NEW k \in 0..Len(w)
  PROVE  /\ SubSeq(w, k + 1, Len(w)) \in Seq(Readings)
         /\ Len(SubSeq(w, k + 1, Len(w))) = Len(w) - k
         /\ Newest(SubSeq(w, k + 1, Len(w)), a)
<1>0. PICK s : s = SubSeq(w, k + 1, Len(w))
  OBVIOUS
<1>1. Len(w) \in Nat /\ Len(a) \in Nat /\ Len(w) <= Len(a) /\ k \in Nat
  BY DEF Newest
<1>2. s \in Seq(Readings) /\ Len(s) = Len(w) - k /\ \A i \in 1..(Len(w) - k) : s[i] = w[k + i]
  BY <1>0, <1>1
<1>3. ASSUME NEW i \in 1..(Len(w) - k) PROVE s[i] = a[Len(a) - (Len(w) - k) + i]
  <2>1. k + i \in 1..Len(w)
    BY <1>1
  <2>2. w[k + i] = a[Len(a) - Len(w) + (k + i)]
    BY <2>1 DEF Newest
  <2>3. Len(a) - Len(w) + (k + i) = Len(a) - (Len(w) - k) + i
    BY <1>1
  <2> QED
    BY <1>2, <2>2, <2>3
<1>4. ASSUME NEW i \in 1..Len(s) PROVE s[i] = a[Len(a) - Len(s) + i]
  BY <1>2, <1>3
<1>5. Newest(s, a)
  BY <1>1, <1>2, <1>4 DEF Newest
<1> QED
  BY <1>0, <1>2, <1>5

\* The window is what arrived last; and where it does not end a cut, no two
\* sides of it could have been told apart.
Quiet(w) == \A split \in Cutting!Splits(Len(w)) : ~Cutting!Flags(w, split)

WindowInv ==
  /\ window \in Seq(Readings) /\ windowed \in Seq(Readings) /\ Newest(window, windowed)
  /\ Len(window) <= WindowCap
  /\ fired => Len(window) >= MinSub
  /\ ~fired => Quiet(window)

LEMMA WindowEmpty == Quiet(<<>>) /\ Newest(<<>>, <<>>) /\ <<>> \in Seq(Readings)
BY WindowParameters DEF Quiet, Newest, Cutting!Splits

LEMMA WindowInit == Cutting!Init => WindowInv
BY WindowParameters, WindowEmpty DEF Cutting!Init, WindowInv

\* What a cut leaves.
LEMMA WindowShrunk ==
  ASSUME NEW w \in Seq(Readings), Len(w) <= WindowCap
  PROVE  \/ /\ Cutting!Shrunk(w) = w
            /\ Quiet(w)
         \/ \E k \in MinSub..(Len(w) - MinSub) :
              Cutting!Shrunk(w) = SubSeq(w, k + 1, Len(w))
<1>1. PICK flagged : flagged = {split \in Cutting!Splits(Len(w)) : Cutting!Flags(w, split)}
  OBVIOUS
<1>2. CASE flagged = {}
  BY <1>1, <1>2 DEF Cutting!Shrunk, Quiet
<1>3. CASE flagged # {}
  <2>1. Len(w) \in Nat
    OBVIOUS
  <2>2. flagged \subseteq MinSub..(Len(w) - MinSub)
    BY <1>1 DEF Cutting!Splits
  <2>3. flagged \in SUBSET Int /\ IsFiniteSet(flagged)
    <3>1. MinSub \in Int /\ Len(w) - MinSub \in Int
      BY <2>1, WindowParameters
    <3>2. IsFiniteSet(MinSub..(Len(w) - MinSub))
      BY <3>1, FS_Interval
    <3>3. IsFiniteSet(flagged)
      BY <2>2, <3>2, FS_Subset
    <3>4. MinSub..(Len(w) - MinSub) \subseteq Int
      BY <3>1
    <3> QED
      BY <2>2, <3>3, <3>4
  <2>4. PICK k \in flagged : \A y \in flagged : k <= y
    BY <1>3, <2>3, Smallest
  <2>5. Cutting!Min(flagged) \in flagged
    BY <2>4 DEF Cutting!Min
  <2> QED
    BY <1>1, <1>3, <2>2, <2>5 DEF Cutting!Shrunk
<1> QED
  BY <1>2, <1>3

LEMMA WindowNext == WindowInv /\ [Cutting!Next]_windowVars => WindowInv'
<1> SUFFICES ASSUME WindowInv, [Cutting!Next]_windowVars PROVE WindowInv'
  OBVIOUS
<1>1. CASE UNCHANGED windowVars
  BY <1>1 DEF windowVars, WindowInv
<1>2. CASE Cutting!ResetWindow
  <2>1. window' = <<>> /\ windowed' = <<>> /\ ~fired'
    BY <1>2 DEF Cutting!ResetWindow
  <2> QED
    BY <2>1, WindowEmpty, WindowParameters DEF WindowInv
<1>3. ASSUME NEW value \in Readings, Cutting!Update(value) PROVE WindowInv'
  <2>0. /\ window \in Seq(Readings) /\ windowed \in Seq(Readings) /\ Newest(window, windowed)
        /\ Len(window) \in Nat /\ Len(window) <= WindowCap
    BY DEF WindowInv
  <2>1. PICK held_back : held_back = IF Len(window) >= WindowCap THEN Tail(window) ELSE window
    OBVIOUS
  <2>2. held_back \in Seq(Readings) /\ Newest(held_back, windowed) /\ Len(held_back) < WindowCap
    <3>1. CASE Len(window) >= WindowCap
      <4>1. window # <<>> /\ 1 \in 0..Len(window)
        BY <2>0, <3>1, WindowParameters
      <4>2. held_back = SubSeq(window, 2, Len(window))
        BY <2>0, <2>1, <3>1, <4>1
      <4>3. SubSeq(window, 1 + 1, Len(window)) = SubSeq(window, 2, Len(window))
        OBVIOUS
      <4> QED
        BY <2>0, <4>1, <4>2, <4>3, NewestCut, WindowParameters
    <3>2. CASE Len(window) < WindowCap
      BY <2>0, <2>1, <3>2, WindowParameters
    <3> QED
      BY <2>0, <3>1, <3>2, WindowParameters
  <2>3. PICK w : w = Append(held_back, value)
    OBVIOUS
  <2>4. PICK a : a = Append(windowed, value)
    OBVIOUS
  <2>5. /\ w \in Seq(Readings) /\ a \in Seq(Readings) /\ Newest(w, a)
        /\ Len(w) \in Nat /\ Len(w) <= WindowCap
    BY <2>0, <2>2, <2>3, <2>4, NewestAppended, WindowParameters
  <2>6. window' = Cutting!Shrunk(w) /\ (fired' <=> window' # w) /\ windowed' = a
    BY <1>3, <2>1, <2>3, <2>4 DEF Cutting!Update
  <2>7. CASE Cutting!Shrunk(w) = w /\ Quiet(w)
    <3>1. window' = w /\ ~fired'
      BY <2>6, <2>7
    <3>2. ~fired' => Quiet(window')
      BY <2>7, <3>1
    <3> QED
      BY <2>5, <2>6, <2>7, <3>1, <3>2 DEF WindowInv
  <2>8. ASSUME NEW k \in MinSub..(Len(w) - MinSub), Cutting!Shrunk(w) = SubSeq(w, k + 1, Len(w))
        PROVE  WindowInv'
    <3>1. PICK s : s = SubSeq(w, k + 1, Len(w))
      OBVIOUS
    <3>2. k \in 0..Len(w) /\ k > 0
      BY <2>5, WindowParameters
    <3>3. s \in Seq(Readings) /\ Len(s) = Len(w) - k /\ Newest(s, a)
      BY <2>5, <3>1, <3>2, NewestCut
    <3>4. window' = s /\ s # w /\ fired'
      BY <2>5, <2>6, <2>8, <3>1, <3>2, <3>3
    <3>5. WindowInv' <=> /\ s \in Seq(Readings) /\ a \in Seq(Readings) /\ Newest(s, a)
                         /\ Len(s) <= WindowCap /\ Len(s) >= MinSub
      BY <2>6, <3>4 DEF WindowInv, Newest
    <3> QED
      BY <2>5, <3>2, <3>3, <3>5, WindowParameters
  <2> QED
    BY <2>5, <2>7, <2>8, WindowShrunk
<1> QED
  BY <1>1, <1>2, <1>3 DEF Cutting!Next, windowVars, Cutting!vars

LEMMA WindowIsFlat == WindowInv => Cutting!QuietWindowIsFlat
<1> SUFFICES ASSUME WindowInv PROVE Cutting!QuietWindowIsFlat
  OBVIOUS
<1>1. Cutting!IsSuffix(window, windowed)
  BY NewestIsSuffix DEF WindowInv
<1>2. Len(window) \in Nat
  BY DEF WindowInv
<1>3. ASSUME NEW split \in 1..Len(window), split >= MinSub, Len(window) - split >= MinSub
      PROVE  split \in Cutting!Splits(Len(window))
  BY <1>2, <1>3, WindowParameters DEF Cutting!Splits
<1> QED
  BY <1>1, <1>3 DEF WindowInv, Quiet, Cutting!QuietWindowIsFlat

------------------------------------------------------------------------------
(* The sums.                                                                *)

LEMMA SumsParameters ==
  /\ Scores \subseteq Int /\ Spreads \subseteq Int /\ Slack \in Int /\ Limit \in Int
  /\ MinScores \in Nat
BY StreamsParameters DEF Sums!SumsAssumption

LEMMA SumsNames ==
  /\ \A f : Sums!SumFunction(f) = Sum(f)
  /\ \A S : Sums!Max(S) = CHOOSE x \in S : \A y \in S : x >= y
<1>1. \A f : Sums!SumFunction(f) = Sum(f)
  BY DEF Sums!SumFunction, Sums!SumFunctionOnSet, Sums!FoldFunctionOnSet,
         Sums!MapThenFoldSet, Sum, FoldFunction, FoldFunctionOnSet, MapThenFoldSet
<1>2. \A S : Sums!Max(S) = CHOOSE x \in S : \A y \in S : x >= y
  BY DEF Sums!Max
<1> QED
  BY <1>1, <1>2

\* m is the greatest of S.
Tops(m, S) == m \in S /\ \A y \in S : y <= m

LEMMA MaxIsTop ==
  ASSUME NEW S \in SUBSET Int, NEW m, Tops(m, S) PROVE Sums!Max(S) = m
<1>1. m >= m /\ \A y \in S : m >= y
  BY DEF Tops
<1>2. m \in S
  BY DEF Tops
<1>3. Sums!Max(S) \in S /\ \A y \in S : Sums!Max(S) >= y
  BY <1>1, <1>2, SumsNames
<1>4. Sums!Max(S) <= m /\ m \in Int /\ Sums!Max(S) \in Int
  BY <1>2, <1>3 DEF Tops
<1> QED
  BY <1>2, <1>3, <1>4

LEMMA MaxTops ==
  ASSUME NEW S \in SUBSET Int, IsFiniteSet(S), S # {}
  PROVE  Tops(Sums!Max(S), S) /\ Sums!Max(S) \in Int
<1>1. PICK m \in S : \A y \in S : y <= m
  BY Greatest
<1>2. Tops(m, S)
  BY <1>1 DEF Tops
<1> QED
  BY <1>2, MaxIsTop

LEMMA RaisedIs ==
  ASSUME NEW s \in Int, NEW x \in Int
  PROVE  Sums!Raised(s, x) = IF s + x > 0 THEN s + x ELSE 0
<1>1. PICK m : m = IF s + x > 0 THEN s + x ELSE 0
  OBVIOUS
<1>2. Tops(m, {0, s + x}) /\ {0, s + x} \in SUBSET Int
  BY <1>1 DEF Tops
<1>3. Sums!Max({0, s + x}) = m
  BY <1>2, MaxIsTop
<1> QED
  BY <1>1, <1>3 DEF Sums!Raised

\* The sums of the runs of f that end at u, and the worst of them.
Run(f, m, u) == [i \in m..u |-> f[i]]
Runs(f, u) == {0} \cup {Sum(Run(f, m, u)) : m \in 1..u}

LEMMA RunType ==
  ASSUME NEW k \in Nat, NEW f \in [1..k -> Int], NEW m \in Nat \ {0}, NEW u \in 0..k
  PROVE  IsFiniteSet(m..u) /\ Run(f, m, u) \in [m..u -> Int] /\ Sum(Run(f, m, u)) \in Int
<1>1. IsFiniteSet(m..u)
  BY FS_Interval
<1>2. \A i \in m..u : f[i] \in Int
  OBVIOUS
<1>3. Run(f, m, u) \in [m..u -> Int]
  BY <1>2 DEF Run
<1> QED
  BY <1>1, <1>3, SumType

LEMMA RunsType ==
  ASSUME NEW k \in Nat, NEW f \in [1..k -> Int], NEW u \in 0..k
  PROVE  Runs(f, u) \in SUBSET Int /\ IsFiniteSet(Runs(f, u)) /\ Runs(f, u) # {}
<1>1. PICK g : g = [m \in 1..u |-> Sum(Run(f, m, u))]
  OBVIOUS
<1>2. Runs(f, u) = {0} \cup {g[m] : m \in 1..u}
  BY <1>1 DEF Runs
<1>3. \A m \in 1..u : g[m] \in Int
  <2>1. \A m \in 1..u : m \in Nat \ {0}
    OBVIOUS
  <2> QED
    BY <1>1, <2>1, RunType
<1>4. IsFiniteSet({g[m] : m \in 1..u}) /\ IsFiniteSet({0})
  <2>1. IsFiniteSet(1..u)
    BY FS_Interval
  <2>2. IsFiniteSet({g[m] : m \in 1..u})
    BY <2>1, ImageFinite
  <2> QED
    BY <2>2, FS_Singleton
<1>5. IsFiniteSet({0} \cup {g[m] : m \in 1..u})
  BY <1>4, FS_Union
<1> QED
  BY <1>2, <1>3, <1>5

Worst(f, u) == Sums!Max(Runs(f, u))

\* Entries after the u-th do not matter.
LEMMA WorstOfPrefix ==
  ASSUME NEW k \in Nat, NEW f \in [1..k -> Int], NEW g \in [1..(k + 1) -> Int],
         \A i \in 1..k : g[i] = f[i], NEW u \in 0..k
  PROVE  Worst(g, u) = Worst(f, u)
<1>1. \A m \in 1..u : Run(g, m, u) = Run(f, m, u)
  BY DEF Run
<1>2. Runs(g, u) = Runs(f, u)
  BY <1>1 DEF Runs
<1> QED
  BY <1>2 DEF Worst

\* One more entry: the worst run that ends there goes on from the worst that
\* ended before it, or begins with it, or is empty.
LEMMA WorstGrows ==
  ASSUME NEW k \in Nat, NEW f \in [1..k -> Int], NEW g \in [1..(k + 1) -> Int],
         \A i \in 1..k : g[i] = f[i]
  PROVE  Worst(g, k + 1) = Sums!Raised(Worst(f, k), g[k + 1])
<1>1. PICK w : w = Worst(f, k)
  OBVIOUS
<1>2. Tops(w, Runs(f, k)) /\ w \in Int
  BY <1>1, RunsType, MaxTops DEF Worst
<1>3. PICK x \in Int : x = g[k + 1]
  OBVIOUS
<1>4. ASSUME NEW m \in 1..k
      PROVE  /\ Sum(Run(f, m, k)) \in Int
             /\ Sum(Run(g, m, k + 1)) = Sum(Run(f, m, k)) + x
  <2>1. IsFiniteSet(m..k) /\ Run(f, m, k) \in [m..k -> Int] /\ Sum(Run(f, m, k)) \in Int
    <3>1. m \in Nat \ {0} /\ k \in 0..k
      OBVIOUS
    <3> QED
      BY <3>1, RunType
  <2>2. Run(g, m, k + 1) \in [m..(k + 1) -> Int]
    <3>1. m \in Nat \ {0} /\ k + 1 \in Nat /\ k + 1 \in 0..(k + 1)
      OBVIOUS
    <3> QED
      BY <3>1, RunType
  <2>3. m..(k + 1) = (m..k) \cup {k + 1} /\ k + 1 \notin m..k
    OBVIOUS
  <2>4. \A y \in m..k : Run(g, m, k + 1)[y] = Run(f, m, k)[y]
    BY DEF Run
  <2>5. Run(g, m, k + 1)[k + 1] = x
    BY <1>3 DEF Run
  <2>6. OneTermMore(Run(g, m, k + 1), Run(f, m, k), m..k, k + 1)
    BY <2>1, <2>2, <2>3, <2>4 DEF OneTermMore
  <2> QED
    BY <2>1, <2>5, <2>6, SumOfOneMore
<1>5. Sum(Run(g, k + 1, k + 1)) = x
  <2>1. PICK e : e = [i \in {} |-> 0]
    OBVIOUS
  <2>2. Run(g, k + 1, k + 1) \in [{} \cup {k + 1} -> Int] /\ Run(g, k + 1, k + 1)[k + 1] = x
    BY <1>3 DEF Run
  <2>3. OneTermMore(Run(g, k + 1, k + 1), e, {}, k + 1)
    BY <2>1, <2>2 DEF OneTermMore
  <2>4. IsFiniteSet({})
    BY FS_EmptySet
  <2>5. Sum(Run(g, k + 1, k + 1)) = Sum(e) + x
    BY <2>2, <2>3, <2>4, SumOfOneMore
  <2>6. Sum(e) = 0
    BY <2>1, SumOfNone
  <2> QED
    BY <2>5, <2>6
<1>6. PICK m : m = IF w + x > 0 THEN w + x ELSE 0
  OBVIOUS
<1>7. ASSUME NEW y \in Runs(g, k + 1) PROVE y <= m
  <2>1. CASE y = 0
    BY <1>2, <1>6, <2>1
  <2>2. ASSUME NEW j \in 1..k, y = Sum(Run(g, j, k + 1)) PROVE y <= m
    <3>1. Sum(Run(f, j, k)) <= w
      BY <1>2 DEF Tops, Runs
    <3> QED
      BY <1>2, <1>4, <1>6, <2>2, <3>1
  <2>3. CASE y = Sum(Run(g, k + 1, k + 1))
    <3>1. 0 <= w
      BY <1>2 DEF Tops, Runs
    <3> QED
      BY <1>2, <1>5, <1>6, <2>3, <3>1
  <2>4. y = 0 \/ \E j \in 1..(k + 1) : y = Sum(Run(g, j, k + 1))
    BY DEF Runs
  <2>5. \A j \in 1..(k + 1) : j \in 1..k \/ j = k + 1
    OBVIOUS
  <2> QED
    BY <2>1, <2>2, <2>3, <2>4, <2>5
<1>8. m \in Runs(g, k + 1)
  <2>1. CASE w + x <= 0
    BY <1>2, <1>6, <2>1 DEF Runs
  <2>2. CASE w + x > 0
    <3>1. m = w + x
      BY <1>6, <2>2
    <3>2. CASE w = 0
      <4>1. m = Sum(Run(g, k + 1, k + 1)) /\ k + 1 \in 1..(k + 1)
        BY <1>5, <3>1, <3>2
      <4> QED
        BY <4>1 DEF Runs
    <3>3. ASSUME NEW j \in 1..k, w = Sum(Run(f, j, k)) PROVE m \in Runs(g, k + 1)
      <4>1. m = Sum(Run(g, j, k + 1)) /\ j \in 1..(k + 1)
        BY <1>4, <3>1, <3>3
      <4> QED
        BY <4>1 DEF Runs
    <3>4. w = 0 \/ \E j \in 1..k : w = Sum(Run(f, j, k))
      BY <1>2 DEF Tops, Runs
    <3> QED
      BY <3>2, <3>3, <3>4
  <2> QED
    BY <1>2, <2>1, <2>2
<1>9. Tops(m, Runs(g, k + 1))
  BY <1>7, <1>8 DEF Tops
<1>10. Worst(g, k + 1) = m
  <2>1. Runs(g, k + 1) \in SUBSET Int
    BY RunsType
  <2> QED
    BY <1>9, <2>1, MaxIsTop DEF Worst
<1> QED
  BY <1>1, <1>2, <1>3, <1>6, <1>10, RaisedIs

Path == Seq([dev : Int, slack : Int])

\* What an entry adds to a sum on the side of sign.
Steps(path, sign) == [i \in 1..Len(path) |-> sign * path[i].dev - path[i].slack]

LEMMA StepsType ==
  ASSUME NEW path \in Path, NEW sign \in {1, -1}
  PROVE  Len(path) \in Nat /\ Steps(path, sign) \in [1..Len(path) -> Int]
<1>1. Len(path) \in Nat /\ path \in [1..Len(path) -> [dev : Int, slack : Int]]
  <2>1. \A S : \A s \in Seq(S) : Len(s) \in Nat /\ s \in [1..Len(s) -> S]
    OBVIOUS
  <2> QED
    BY <2>1 DEF Path
<1>2. ASSUME NEW i \in 1..Len(path) PROVE sign * path[i].dev - path[i].slack \in Int
  <2>1. path[i].dev \in Int /\ path[i].slack \in Int
    BY <1>1
  <2> QED
    BY <2>1
<1> QED
  BY <1>1, <1>2 DEF Steps

LEMMA WorstRunIs ==
  ASSUME NEW path \in Path, NEW sign \in {1, -1}, NEW u \in 0..Len(path)
  PROVE  Sums!WorstRun(path, u, sign) = Worst(Steps(path, sign), u)
<1>1. ASSUME NEW m \in 1..u
      PROVE  [i \in m..u |-> sign * path[i].dev - path[i].slack] = Run(Steps(path, sign), m, u)
  <2>1. Len(path) \in Nat
    BY DEF Path
  <2>2. \A i \in m..u : i \in 1..Len(path)
    BY <2>1
  <2> QED
    BY <2>2 DEF Run, Steps
<1> QED
  BY <1>1, SumsNames DEF Sums!WorstRun, Worst, Runs

LEMMA WorstOfNone ==
  ASSUME NEW k \in Nat, NEW f \in [1..k -> Int] PROVE Worst(f, 0) = 0
<1>1. Runs(f, 0) = {0}
  BY DEF Runs
<1>2. Tops(0, Runs(f, 0)) /\ Runs(f, 0) \in SUBSET Int
  BY <1>1 DEF Tops
<1> QED
  BY <1>2, MaxIsTop DEF Worst

Loudest(path, u, sign) == Worst(Steps(path, sign), u)

\* What one more entry does to the worst runs of a path.
LEMMA LoudestGrows ==
  ASSUME NEW path \in Path, NEW sign \in {1, -1}, NEW e \in [dev : Int, slack : Int]
  PROVE  /\ Append(path, e) \in Path /\ Len(path) \in Nat /\ Len(Append(path, e)) = Len(path) + 1
         /\ \A u \in 0..Len(path) : Loudest(Append(path, e), u, sign) = Loudest(path, u, sign)
         /\ Loudest(Append(path, e), Len(path) + 1, sign)
              = Sums!Raised(Loudest(path, Len(path), sign), sign * e.dev - e.slack)
<1>1. PICK k \in Nat : k = Len(path)
  BY DEF Path
<1>2. PICK q : q = Append(path, e)
  OBVIOUS
<1>3. q \in Path /\ Len(q) = k + 1 /\ q[k + 1] = e /\ \A i \in 1..k : q[i] = path[i]
  BY <1>1, <1>2 DEF Path
<1>4. PICK f : f = Steps(path, sign)
  OBVIOUS
<1>5. PICK g : g = Steps(q, sign)
  OBVIOUS
<1>6. f \in [1..k -> Int] /\ g \in [1..(k + 1) -> Int]
  BY <1>1, <1>3, <1>4, <1>5, StepsType
<1>7. (\A i \in 1..k : g[i] = f[i]) /\ g[k + 1] = sign * e.dev - e.slack
  BY <1>1, <1>3, <1>4, <1>5 DEF Steps
<1>8. \A u \in 0..k : Worst(g, u) = Worst(f, u)
  BY <1>6, <1>7, WorstOfPrefix
<1>9. Worst(g, k + 1) = Sums!Raised(Worst(f, k), g[k + 1])
  BY <1>6, <1>7, WorstGrows
<1> QED
  BY <1>1, <1>2, <1>3, <1>4, <1>5, <1>7, <1>8, <1>9 DEF Loudest

LEMMA LoudestType ==
  ASSUME NEW path \in Path, NEW sign \in {1, -1}, NEW u \in 0..Len(path)
  PROVE  Loudest(path, u, sign) \in Int
<1>1. Len(path) \in Nat /\ Steps(path, sign) \in [1..Len(path) -> Int]
  BY StepsType
<1> QED
  BY <1>1, RunsType, MaxTops DEF Loudest, Worst

\* up and down are the worst runs of a path, on its two sides.
Followed(path, up, down) ==
  /\ path \in Path
  /\ up = Loudest(path, Len(path), 1) /\ down = Loudest(path, Len(path), -1)

LEMMA NothingFollowed == Followed(<<>>, 0, 0)
<1>1. <<>> \in Path /\ Len(<<>>) = 0
  BY DEF Path
<1>2. \A sign \in {1, -1} : Steps(<<>>, sign) \in [1..0 -> Int]
  BY <1>1, StepsType
<1>3. \A sign \in {1, -1} : Worst(Steps(<<>>, sign), 0) = 0
  BY <1>2, WorstOfNone
<1> QED
  BY <1>1, <1>3 DEF Followed, Loudest

LEMMA OneMoreFollowed ==
  ASSUME NEW path, NEW up, NEW down, Followed(path, up, down), NEW dev \in Int, NEW slack \in Int
  PROVE  Followed(Append(path, [dev |-> dev, slack |-> slack]),
                  Sums!Raised(up, dev - slack), Sums!Raised(down, -dev - slack))
<1>1. PICK e : e = [dev |-> dev, slack |-> slack]
  OBVIOUS
<1>2. e \in [dev : Int, slack : Int] /\ path \in Path /\ 1 * e.dev - e.slack = dev - slack
      /\ (-1) * e.dev - e.slack = -dev - slack
  BY <1>1 DEF Followed
<1>3. PICK q : q = Append(path, e)
  OBVIOUS
<1>4. q \in Path /\ Len(q) = Len(path) + 1
      /\ Loudest(q, Len(path) + 1, 1) = Sums!Raised(Loudest(path, Len(path), 1), 1 * e.dev - e.slack)
      /\ Loudest(q, Len(path) + 1, -1) = Sums!Raised(Loudest(path, Len(path), -1), (-1) * e.dev - e.slack)
  BY <1>2, <1>3, LoudestGrows
<1> QED
  BY <1>1, <1>2, <1>3, <1>4 DEF Followed

\* Where no alert was out, on a path; and the last of it.
Calm(path) ==
  {u \in 1..Len(path) : Loudest(path, u, 1) <= Limit /\ Loudest(path, u, -1) <= Limit}
LastCalm(path) == Sums!Max({0} \cup Calm(path))

LEMMA LastCalmGrows ==
  ASSUME NEW path \in Path, NEW e \in [dev : Int, slack : Int], NEW q, q = Append(path, e)
  PROVE  /\ LastCalm(path) \in Int
         /\ LastCalm(q) = IF \/ Loudest(q, Len(q), 1) > Limit
                             \/ Loudest(q, Len(q), -1) > Limit THEN LastCalm(path) ELSE Len(q)
<1>1. PICK k \in Nat : k = Len(path)
  BY DEF Path
<1>2. /\ q \in Path /\ Len(q) = k + 1
      /\ \A u \in 0..k, sign \in {1, -1} : Loudest(q, u, sign) = Loudest(path, u, sign)
  BY <1>1, LoudestGrows
<1>3. Loudest(q, k + 1, 1) \in Int /\ Loudest(q, k + 1, -1) \in Int /\ Limit \in Int
  <2>1. k + 1 \in 0..Len(q)
    BY <1>2
  <2> QED
    BY <1>2, <2>1, LoudestType, SumsParameters
<1>4. Calm(path) \subseteq 1..k /\ Calm(q) \subseteq 1..(k + 1)
  BY <1>1, <1>2 DEF Calm
<1>5. \A u \in 1..k : u \in Calm(q) <=> u \in Calm(path)
  BY <1>1, <1>2 DEF Calm
<1>6. k + 1 \in Calm(q) <=> ~(Loudest(q, k + 1, 1) > Limit \/ Loudest(q, k + 1, -1) > Limit)
  BY <1>2, <1>3 DEF Calm
<1>7. IsFiniteSet({0} \cup Calm(path)) /\ {0} \cup Calm(path) \in SUBSET Int
  <2>1. IsFiniteSet(1..k)
    BY FS_Interval
  <2>2. IsFiniteSet(Calm(path))
    BY <1>4, <2>1, FS_Subset
  <2>3. IsFiniteSet({0} \cup Calm(path))
    BY <2>2, FS_Singleton, FS_Union
  <2>4. {0} \cup Calm(path) \in SUBSET Int
    BY <1>4
  <2> QED
    BY <2>3, <2>4
<1>8. LastCalm(path) \in Int
  BY <1>7, MaxTops DEF LastCalm
<1>9. CASE k + 1 \notin Calm(q)
  <2>0. \A u \in 1..(k + 1) : u \in 1..k \/ u = k + 1
    OBVIOUS
  <2>1. Calm(q) = Calm(path)
    BY <1>4, <1>5, <1>9, <2>0
  <2> QED
    BY <1>2, <1>6, <1>8, <1>9, <2>1 DEF LastCalm
<1>10. CASE k + 1 \in Calm(q)
  <2>1. Tops(k + 1, {0} \cup Calm(q)) /\ {0} \cup Calm(q) \in SUBSET Int
    BY <1>4, <1>10 DEF Tops
  <2>2. LastCalm(q) = k + 1
    BY <2>1, MaxIsTop DEF LastCalm
  <2> QED
    BY <1>2, <1>6, <1>8, <1>10, <2>2
<1> QED
  BY <1>9, <1>10

SumsInv ==
  /\ Followed(excess, s_high, s_low) /\ Followed(shifts, s_pos, s_neg)
  /\ drift_samples = Len(shifts) - LastCalm(shifts) /\ reference \in Int

LEMMA NothingCalm == Len(<<>>) - LastCalm(<<>>) = 0
<1>1. Calm(<<>>) = {}
  BY DEF Calm
<1>2. Tops(0, {0} \cup Calm(<<>>)) /\ {0} \cup Calm(<<>>) \in SUBSET Int
  BY <1>1 DEF Tops
<1> QED
  BY <1>2, MaxIsTop DEF LastCalm

LEMMA SumsInit == Sums!Init => SumsInv
BY NothingFollowed, NothingCalm DEF Sums!Init, SumsInv

LEMMA SumsNext == SumsInv /\ [Sums!Next]_sumVars => SumsInv'
<1> SUFFICES ASSUME SumsInv, [Sums!Next]_sumVars PROVE SumsInv'
  OBVIOUS
<1>0. /\ Followed(excess, s_high, s_low) /\ Followed(shifts, s_pos, s_neg)
      /\ drift_samples = Len(shifts) - LastCalm(shifts) /\ reference \in Int
  BY DEF SumsInv
<1>1. CASE UNCHANGED sumVars
  BY <1>0, <1>1 DEF sumVars, SumsInv
<1>2. ASSUME NEW v \in Scores, Sums!Update(v), UNCHANGED <<s_high, s_low, excess>> PROVE SumsInv'
  <2>0. v \in Int /\ Slack \in Int
    BY SumsParameters
  <2>1. CASE UNCHANGED <<s_pos, s_neg, drift_samples, shifts>> /\ reference' = v
    BY <1>0, <1>2, <2>0, <2>1 DEF SumsInv
  <2>2. CASE /\ s_pos' = Sums!Raised(s_pos, v - reference - Slack)
             /\ s_neg' = Sums!Raised(s_neg, reference - v - Slack)
             /\ drift_samples' = IF s_pos' > Limit \/ s_neg' > Limit THEN drift_samples + 1 ELSE 0
             /\ shifts' = Append(shifts, [dev |-> v - reference, slack |-> Slack])
             /\ UNCHANGED reference
    <3>1. PICK dev \in Int : dev = v - reference
      BY <1>0, <2>0
    <3>2. PICK e : e = [dev |-> dev, slack |-> Slack]
      OBVIOUS
    <3>3. PICK q : q = Append(shifts, e)
      OBVIOUS
    <3>4. reference - v - Slack = -dev - Slack
      BY <1>0, <2>0, <3>1
    <3>5. Followed(q, s_pos', s_neg') /\ shifts' = q
      BY <1>0, <2>0, <2>2, <3>1, <3>2, <3>3, <3>4, OneMoreFollowed
    <3>6. shifts \in Path /\ e \in [dev : Int, slack : Int]
      BY <1>0, <2>0, <3>2 DEF Followed
    <3>7. /\ LastCalm(shifts) \in Int
          /\ LastCalm(q) = IF s_pos' > Limit \/ s_neg' > Limit THEN LastCalm(shifts) ELSE Len(q)
      BY <3>3, <3>5, <3>6, LastCalmGrows DEF Followed
    <3>8. Len(q) = Len(shifts) + 1 /\ Len(shifts) \in Nat
      BY <3>3, <3>6 DEF Path
    <3>9. drift_samples' = Len(q) - LastCalm(q)
      BY <1>0, <2>2, <3>7, <3>8
    <3> QED
      BY <1>0, <1>2, <2>2, <3>5, <3>9 DEF SumsInv
  <2> QED
    BY <1>2, <2>1, <2>2 DEF Sums!Update
<1>3. ASSUME NEW v \in Scores, Sums!ObserveFeature(v) PROVE SumsInv'
  BY <1>2, <1>3 DEF Sums!ObserveFeature, Sums!metaVars
<1>4. ASSUME NEW v \in Scores, Sums!SetReference(v) PROVE SumsInv'
  <2>1. v \in Int
    BY SumsParameters
  <2> QED
    BY <1>0, <1>4, <2>1 DEF Sums!SetReference, Sums!metaVars, SumsInv
<1>5. ASSUME NEW v \in Scores, Sums!ObserveScore(v) PROVE SumsInv'
  <2>1. UNCHANGED <<s_pos, s_neg, drift_samples, shifts, reference>>
    BY <1>5 DEF Sums!ObserveScore, Sums!cusumVars
  <2>2. CASE UNCHANGED <<s_high, s_low, excess>>
    BY <1>0, <2>1, <2>2 DEF SumsInv
  <2>3. ASSUME NEW average_ \in low..high, NEW spread \in Spreads,
               s_high' = Sums!Raised(s_high, (v - average_) - Slack * spread),
               s_low' = Sums!Raised(s_low, -(v - average_) - Slack * spread),
               excess' = Append(excess, [dev |-> v - average_, slack |-> Slack * spread])
        PROVE  SumsInv'
    <3>1. PICK dev \in Int : dev = v - average_
      BY SumsParameters
    <3>2. PICK k \in Int : k = Slack * spread
      BY SumsParameters
    <3>3. Followed(excess', s_high', s_low')
      BY <1>0, <2>3, <3>1, <3>2, OneMoreFollowed
    <3> QED
      BY <1>0, <2>1, <3>3 DEF SumsInv
  <2> QED
    BY <1>5, <2>2, <2>3 DEF Sums!ObserveScore, Sums!Observe
<1>6. CASE Sums!Reset
  BY <1>0, <1>6, NothingFollowed, NothingCalm DEF Sums!Reset, Sums!metaVars, SumsInv
<1>7. CASE Sums!ResetSums \/ Sums!ResetStats
  BY <1>0, <1>7, NothingFollowed DEF Sums!ResetSums, Sums!ResetStats, Sums!cusumVars, SumsInv
<1> QED
  BY <1>1, <1>3, <1>4, <1>5, <1>6, <1>7 DEF Sums!Next

LEMMA SumsAreWorst == SumsInv => Sums!SumsAreWorstRuns
<1> SUFFICES ASSUME SumsInv PROVE Sums!SumsAreWorstRuns
  OBVIOUS
<1>1. \A path \in Path, sign \in {1, -1} : \A u \in 0..Len(path) :
        Sums!WorstRun(path, u, sign) = Loudest(path, u, sign)
  BY WorstRunIs DEF Loudest
<1>2. /\ excess \in Path /\ Len(excess) \in 0..Len(excess)
      /\ shifts \in Path /\ Len(shifts) \in 0..Len(shifts)
      /\ \A u \in 1..Len(shifts) : u \in 0..Len(shifts)
  BY DEF SumsInv, Followed, Path
<1>3. /\ s_high = Sums!WorstRun(excess, Len(excess), 1)
      /\ s_low = Sums!WorstRun(excess, Len(excess), -1)
      /\ s_pos = Sums!WorstRun(shifts, Len(shifts), 1)
      /\ s_neg = Sums!WorstRun(shifts, Len(shifts), -1)
  BY <1>1, <1>2 DEF SumsInv, Followed
<1>4. {u \in 1..Len(shifts) :
          Sums!WorstRun(shifts, u, 1) <= Limit /\ Sums!WorstRun(shifts, u, -1) <= Limit}
      = Calm(shifts)
  BY <1>1, <1>2 DEF Calm
<1>5. drift_samples = Len(shifts) - Sums!Max({0} \cup Calm(shifts))
  BY DEF SumsInv, LastCalm
<1> QED
  BY <1>3, <1>4, <1>5 DEF Sums!SumsAreWorstRuns

------------------------------------------------------------------------------
(* The moving average.                                                      *)

LEMMA PointsParameters ==
  /\ Points \subseteq Int /\ PointWarmUp \in Nat /\ MaxPoints \in Nat
  /\ \A v, w \in Points : v # w => (v - w) * (v - w) >= 2 * Moving!Power[MaxPoints]
  /\ None # Boundless /\ None \notin Int \X Int /\ Boundless \notin Int \X Int
BY StreamsParameters DEF Moving!RunningAssumption

Doubles(g, k) == g = [i \in 0..k |-> IF i = 0 THEN 1 ELSE 2 * g[i - 1]]

LEMMA DoublesExist == \A k \in Nat : \E g : Doubles(g, k)
<1> DEFINE Bad == {k \in Nat : ~ \E g : Doubles(g, k)}
<1>1. ASSUME Bad # {} PROVE FALSE
  <2>1. PICK k \in Bad : \A j \in Bad : k <= j
    <3>1. Bad \subseteq Nat
      OBVIOUS
    <3> HIDE DEF Bad
    <3> QED
      BY <1>1, <3>1, Least
  <2>2. k \in Nat /\ ~ \E g : Doubles(g, k)
    OBVIOUS
  <2>3. CASE k = 0
    <3>1. PICK g : g = [i \in 0..0 |-> 1]
      OBVIOUS
    <3>2. Doubles(g, 0)
      BY <3>1 DEF Doubles
    <3> QED
      BY <2>2, <2>3, <3>2
  <2>4. CASE k # 0
    <3>1. k - 1 \in Nat /\ k - 1 \notin Bad
      BY <2>1, <2>2, <2>4
    <3>2. PICK g : Doubles(g, k - 1)
      BY <3>1
    <3>3. PICK h : h = [i \in 0..k |-> IF i = 0 THEN 1 ELSE 2 * g[i - 1]]
      OBVIOUS
    <3>4. ASSUME NEW i \in 0..k, i # 0 PROVE h[i - 1] = g[i - 1]
      <4>1. i - 1 \in 0..(k - 1) /\ i - 1 \in 0..k
        BY <2>2, <3>4
      <4>2. g[i - 1] = IF i - 1 = 0 THEN 1 ELSE 2 * g[(i - 1) - 1]
        BY <3>2, <4>1 DEF Doubles
      <4>3. h[i - 1] = IF i - 1 = 0 THEN 1 ELSE 2 * g[(i - 1) - 1]
        BY <3>3, <4>1
      <4> QED
        BY <4>2, <4>3
    <3>5. h = [i \in 0..k |-> IF i = 0 THEN 1 ELSE 2 * h[i - 1]]
      BY <3>3, <3>4
    <3> QED
      BY <2>2, <3>5 DEF Doubles
  <2> QED
    BY <2>3, <2>4
<1> QED
  BY <1>1

LEMMA PowerIs ==
  \A k \in 0..MaxPoints :
    /\ Moving!Power[k] \in Nat /\ Moving!Power[k] >= 1
    /\ Moving!Power[k] <= Moving!Power[MaxPoints]
    /\ k > 0 => Moving!Power[k] = 2 * Moving!Power[k - 1]
<1>0. MaxPoints \in Nat
  BY PointsParameters
<1>1. PICK g : Doubles(g, MaxPoints)
  BY <1>0, DoublesExist
<1>2. Doubles(Moving!Power, MaxPoints)
  BY <1>1 DEF Doubles, Moving!Power
<1>3. PICK p : p = Moving!Power
  OBVIOUS
<1>4. \A k \in 0..MaxPoints : p[k] = IF k = 0 THEN 1 ELSE 2 * p[k - 1]
  BY <1>2, <1>3 DEF Doubles
<1> DEFINE Bad == {k \in 0..MaxPoints : ~(p[k] \in Nat /\ p[k] >= 1)}
<1>5. ASSUME Bad # {} PROVE FALSE
  <2>1. PICK k \in Bad : \A j \in Bad : k <= j
    <3>1. Bad \subseteq Nat
      BY <1>0
    <3> HIDE DEF Bad
    <3> QED
      BY <1>5, <3>1, Least
  <2>2. k \in 0..MaxPoints /\ k # 0 /\ ~(p[k] \in Nat /\ p[k] >= 1)
    BY <1>0, <1>4
  <2>3. k - 1 \in 0..MaxPoints /\ k - 1 \notin Bad
    BY <1>0, <2>1, <2>2
  <2>4. p[k - 1] \in Nat /\ p[k - 1] >= 1
    BY <2>3
  <2>5. p[k] = 2 * p[k - 1]
    BY <1>4, <2>2
  <2> HIDE DEF Bad
  <2> QED
    BY <2>2, <2>4, <2>5
<1>6. \A k \in 0..MaxPoints : p[k] \in Nat /\ p[k] >= 1
  BY <1>5
<1> DEFINE Over == {j \in 0..MaxPoints : ~(p[MaxPoints - j] <= p[MaxPoints])}
<1>7. ASSUME Over # {} PROVE FALSE
  <2>1. PICK j \in Over : \A i \in Over : j <= i
    <3>1. Over \subseteq Nat
      BY <1>0
    <3> HIDE DEF Over, Bad
    <3> QED
      BY <1>7, <3>1, Least
  <2>2. p[MaxPoints] \in Nat /\ MaxPoints - 0 = MaxPoints /\ MaxPoints \in 0..MaxPoints
    BY <1>0, <1>6
  <2>3. j \in 0..MaxPoints /\ ~(p[MaxPoints - j] <= p[MaxPoints])
    OBVIOUS
  <2>4. j # 0
    BY <2>2, <2>3
  <2>5. j - 1 \in 0..MaxPoints /\ j - 1 \notin Over
    <3>1. j - 1 \in 0..MaxPoints /\ ~(j <= j - 1)
      BY <1>0, <2>3, <2>4
    <3> HIDE DEF Over
    <3> QED
      BY <2>1, <3>1
  <2>6. p[MaxPoints - (j - 1)] <= p[MaxPoints]
    BY <2>5
  <2>7. /\ MaxPoints - j \in 0..MaxPoints /\ MaxPoints - (j - 1) \in 0..MaxPoints
        /\ MaxPoints - (j - 1) # 0 /\ MaxPoints - (j - 1) - 1 = MaxPoints - j
    BY <1>0, <2>3, <2>4
  <2>8. p[MaxPoints - (j - 1)] = 2 * p[MaxPoints - j]
    BY <1>4, <2>7
  <2>9. p[MaxPoints - j] \in Nat
    BY <1>6, <2>7
  <2> HIDE DEF Over, Bad
  <2> QED
    BY <2>2, <2>3, <2>6, <2>8, <2>9
<1>8. \A k \in 0..MaxPoints : p[k] <= p[MaxPoints]
  <2> SUFFICES ASSUME NEW k \in 0..MaxPoints PROVE p[k] <= p[MaxPoints]
    OBVIOUS
  <2>1. MaxPoints - k \in 0..MaxPoints /\ MaxPoints - (MaxPoints - k) = k
    BY <1>0
  <2>2. MaxPoints - k \notin Over
    BY <1>7
  <2> QED
    BY <2>1, <2>2
<1> HIDE DEF Over, Bad
<1>9. \A k \in 0..MaxPoints : k > 0 => p[k] = 2 * p[k - 1]
  BY <1>0, <1>4
<1> QED
  BY <1>3, <1>6, <1>8, <1>9

\* All values of a sequence are one.
Alike(s) == \A i, j \in 1..Len(s) : s[i] = s[j]

LEMMA ConstantIsAlike ==
  ASSUME NEW s \in Seq(Points) PROVE Moving!Constant(s) <=> Alike(s)
<1>1. PICK S : S = {s[i] : i \in 1..Len(s)}
  OBVIOUS
<1>2. Len(s) \in Nat /\ DOMAIN s = 1..Len(s)
  OBVIOUS
<1>3. Moving!Constant(s) <=> Cardinality(S) <= 1
  BY <1>1, <1>2 DEF Moving!Constant, Moving!ToSet, Moving!Cardinality, Cardinality
<1>4. IsFiniteSet(S) /\ Cardinality(S) \in Nat
  <2>1. IsFiniteSet(1..Len(s))
    BY <1>2, FS_Interval
  <2>2. IsFiniteSet(S)
    BY <1>1, <2>1, ImageFinite
  <2> QED
    BY <2>2, FS_CardinalityType
<1>5. ASSUME Alike(s) PROVE Cardinality(S) <= 1
  <2>1. CASE S = {}
    BY <2>1, FS_EmptySet
  <2>2. ASSUME NEW x \in S PROVE Cardinality(S) <= 1
    <3>1. S = {x}
      BY <1>1, <1>5, <2>2 DEF Alike
    <3>2. Cardinality({x}) = 1
      BY FS_Singleton
    <3> QED
      BY <3>1, <3>2
  <2> QED
    BY <2>1, <2>2
<1>6. ASSUME Cardinality(S) <= 1, NEW i \in 1..Len(s), NEW j \in 1..Len(s) PROVE s[i] = s[j]
  <2>0. PICK x \in S : x = s[i]
    BY <1>1
  <2>1. Cardinality(S \ {s[i]}) = Cardinality(S) - 1 /\ IsFiniteSet(S \ {s[i]})
    BY <1>4, <2>0, FS_RemoveElement
  <2>2. Cardinality(S \ {s[i]}) \in Nat
    BY <2>1, FS_CardinalityType
  <2>3. Cardinality(S \ {s[i]}) = 0
    BY <1>4, <1>6, <2>1, <2>2
  <2>4. S \ {s[i]} = {}
    BY <2>1, <2>3, FS_EmptySet
  <2> QED
    BY <1>1, <2>4
<1> QED
  BY <1>3, <1>5, <1>6 DEF Alike

\* What the average a says of the values s: it has seen no two of them exactly
\* when its variance is nought, and a variance is never too small to be halved
\* for every value that can still come.
Tracks(a, s) ==
  /\ a \in [mean : Int, variance : Nat, count : Nat] /\ a.count = Len(s)
  /\ (a.variance = 0) <=> Alike(s)
  /\ Len(s) > 0 /\ a.variance = 0 => a.mean = s[1]
  /\ a.variance # 0 => a.variance >= Moving!Power[MaxPoints - Len(s)]

LEMMA NothingTracked == Tracks(Moving!NewAverage, <<>>)
BY DEF Tracks, Moving!NewAverage, Alike

LEMMA AlikeAppended ==
  ASSUME NEW s \in Seq(Points), NEW v \in Points
  PROVE  Alike(Append(s, v)) <=> (Alike(s) /\ (Len(s) > 0 => s[1] = v))
<1>1. Len(s) \in Nat
  OBVIOUS
<1>2. PICK q : q = Append(s, v)
  OBVIOUS
<1>3. Len(q) = Len(s) + 1 /\ q[Len(s) + 1] = v /\ \A i \in 1..Len(s) : q[i] = s[i]
  BY <1>2
<1>4. ASSUME Alike(q) PROVE Alike(s) /\ (Len(s) > 0 => s[1] = v)
  <2>1. \A i \in 1..Len(s) : i \in 1..Len(q)
    BY <1>1, <1>3
  <2>2. Alike(s)
    BY <1>3, <1>4, <2>1 DEF Alike
  <2>3. ASSUME Len(s) > 0 PROVE s[1] = v
    <3>1. 1 \in 1..Len(s) /\ 1 \in 1..Len(q) /\ Len(s) + 1 \in 1..Len(q)
      BY <1>1, <1>3, <2>3
    <3>2. q[1] = q[Len(s) + 1]
      BY <1>4, <3>1 DEF Alike
    <3> QED
      BY <1>3, <3>1, <3>2
  <2> QED
    BY <2>2, <2>3
<1>5. ASSUME Alike(s), Len(s) > 0 => s[1] = v PROVE Alike(q)
  <2>1. ASSUME NEW i \in 1..Len(q) PROVE q[i] = v
    <3>1. CASE i = Len(s) + 1
      BY <1>3, <3>1
    <3>2. CASE i # Len(s) + 1
      <4>1. i \in 1..Len(s) /\ 1 \in 1..Len(s) /\ Len(s) > 0
        BY <1>1, <1>3, <3>2
      <4>2. s[i] = s[1]
        BY <1>5, <4>1 DEF Alike
      <4> QED
        BY <1>3, <1>5, <4>1, <4>2
    <3> QED
      BY <3>1, <3>2
  <2> QED
    BY <2>1 DEF Alike
<1> QED
  BY <1>2, <1>4, <1>5

LEMMA OneMoreTracked ==
  ASSUME NEW s \in Seq(Points), NEW v \in Points, NEW a, Tracks(a, s), Len(s) < MaxPoints
  PROVE  Tracks(Moving!Ewma(a, v), Append(s, v))
<1>1. PICK q : q = Append(s, v)
  OBVIOUS
<1>2. PICK k \in Nat : k = Len(s)
  OBVIOUS
<1>3. Len(q) = k + 1 /\ (k > 0 => q[1] = s[1] /\ s[1] \in Points) /\ (k = 0 => q[1] = v)
  BY <1>1, <1>2
<1>4. v \in Int /\ Points \subseteq Int /\ MaxPoints \in Nat
  BY PointsParameters
<1>5. PICK mean_ \in Int, variance_ \in Nat : mean_ = a.mean /\ variance_ = a.variance /\ a.count = k
  BY <1>2 DEF Tracks
<1>6. PICK p \in Nat : p = Moving!Power[MaxPoints - (k + 1)]
  <2>1. MaxPoints - (k + 1) \in 0..MaxPoints
    BY <1>2, <1>4
  <2> QED
    BY <2>1, PowerIs
<1>7. /\ p >= 1 /\ p <= Moving!Power[MaxPoints] /\ Moving!Power[MaxPoints] \in Nat
      /\ Moving!Power[MaxPoints - k] = 2 * p
  <2>1. /\ MaxPoints - (k + 1) \in 0..MaxPoints /\ MaxPoints - k \in 0..MaxPoints
        /\ MaxPoints \in 0..MaxPoints /\ MaxPoints - k > 0 /\ MaxPoints - k - 1 = MaxPoints - (k + 1)
    BY <1>2, <1>4
  <2> QED
    BY <1>6, <2>1, PowerIs
<1>8. Alike(q) <=> (Alike(s) /\ (k > 0 => s[1] = v))
  BY <1>1, <1>2, AlikeAppended
<1>9. PICK b : b = Moving!Ewma(a, v)
  OBVIOUS
<1>10. CASE k = 0
  <2>1. b = [mean |-> v, variance |-> 0, count |-> 1]
    BY <1>5, <1>9, <1>10 DEF Moving!Ewma
  <2>2. Alike(s)
    BY <1>2, <1>10 DEF Alike
  <2>3. Alike(q)
    BY <1>8, <1>10, <2>2
  <2>4. Tracks(b, q)
    BY <1>3, <1>4, <1>10, <2>1, <2>3 DEF Tracks
  <2> QED
    BY <1>1, <1>9, <2>4
<1>11. CASE k > 0
  <2>1. PICK sq \in Nat : sq = (v - mean_) * (v - mean_)
    <3>1. v - mean_ \in Int
      BY <1>4
    <3>2. \A x \in Int : x * x \in Nat
      OBVIOUS
    <3> QED
      BY <3>1, <3>2
  <2>2. b = [mean |-> (v + mean_) \div 2, variance |-> (sq + variance_) \div 2, count |-> k + 1]
    BY <1>5, <1>9, <1>11, <2>1 DEF Moving!Ewma
  <2>3. PICK x \in Nat : x = (sq + variance_) \div 2
    OBVIOUS
  <2>4. (v + mean_) \div 2 \in Int /\ b \in [mean : Int, variance : Nat, count : Nat]
    BY <1>4, <2>2, <2>3
  <2>5. b.mean = (v + mean_) \div 2 /\ b.variance = x /\ b.count = k + 1
    BY <2>2, <2>3
  <2>6. CASE variance_ # 0
    <3>1. ~Alike(s) /\ variance_ >= 2 * p
      BY <1>2, <1>5, <1>7, <2>6 DEF Tracks
    <3>2. x >= p /\ x # 0
      BY <1>7, <2>3, <3>1
    <3> QED
      BY <1>1, <1>3, <1>6, <1>8, <1>9, <2>4, <2>5, <3>1, <3>2 DEF Tracks
  <2>7. CASE variance_ = 0
    <3>1. Alike(s) /\ mean_ = s[1]
      BY <1>2, <1>5, <1>11, <2>7 DEF Tracks
    <3>2. CASE v = mean_
      <4>1. sq = 0 /\ x = 0 /\ (v + mean_) \div 2 = v
        BY <1>4, <2>1, <2>3, <2>7, <3>2
      <4> QED
        BY <1>1, <1>3, <1>6, <1>8, <1>9, <1>11, <2>4, <2>5, <3>1, <3>2, <4>1 DEF Tracks
    <3>3. CASE v # mean_
      <4>1. sq >= 2 * Moving!Power[MaxPoints]
        BY <1>3, <1>11, <2>1, <3>1, <3>3, PointsParameters
      <4>2. x >= p /\ x # 0
        BY <1>7, <2>3, <2>7, <4>1
      <4>3. ~Alike(q)
        BY <1>8, <1>11, <3>1, <3>3
      <4> QED
        BY <1>1, <1>3, <1>6, <1>9, <2>4, <2>5, <4>2, <4>3 DEF Tracks
    <3> QED
      BY <3>2, <3>3
  <2> QED
    BY <2>6, <2>7
<1> QED
  BY <1>10, <1>11

\* The last value of s is judged by those before it.
Judged(answer, s) ==
  s # <<>> =>
    /\ (answer = None) = (Len(s) - 1 < PointWarmUp)
    /\ answer # None /\ Len(s) > 1 =>
         /\ (answer = Boundless)
              = (Alike(SubSeq(s, 1, Len(s) - 1)) /\ s[Len(s)] # s[1])
         /\ ~Alike(SubSeq(s, 1, Len(s) - 1)) => answer[2] > 0

LEMMA OneMoreJudged ==
  ASSUME NEW s \in Seq(Points), NEW v \in Points, NEW a, Tracks(a, s)
  PROVE  Judged(IF Len(s) >= PointWarmUp THEN Moving!ZScore(a, v) ELSE None, Append(s, v))
<1>1. PICK q : q = Append(s, v)
  OBVIOUS
<1>2. PICK k \in Nat : k = Len(s)
  OBVIOUS
<1>3. /\ Len(q) = k + 1 /\ q[k + 1] = v /\ (k > 0 => q[1] = s[1]) /\ q # <<>>
      /\ SubSeq(q, 1, k) = s
  BY <1>1, <1>2
<1>4. v \in Int /\ PointWarmUp \in Nat /\ None # Boundless /\ None \notin Int \X Int /\ Boundless \notin Int \X Int
  BY PointsParameters
<1>5. PICK mean_ \in Int, variance_ \in Nat : mean_ = a.mean /\ variance_ = a.variance
  BY DEF Tracks
<1>6. PICK sq \in Int : sq = (v - mean_) * (v - mean_)
  BY <1>4
<1>7. PICK z : z = Moving!ZScore(a, v)
  OBVIOUS
<1>8. z = IF variance_ > 0 THEN <<sq, variance_>> ELSE IF v = mean_ THEN <<0, 1>> ELSE Boundless
  <2>1. v - mean_ = 0 <=> v = mean_
    BY <1>4
  <2> QED
    BY <1>5, <1>6, <1>7, <2>1 DEF Moving!ZScore
<1>9. z # None /\ (z = Boundless <=> variance_ = 0 /\ v # mean_) /\ (variance_ > 0 => z[2] > 0)
  <2>1. <<sq, variance_>> \in Int \X Int /\ <<0, 1>> \in Int \X Int
    OBVIOUS
  <2> QED
    BY <1>4, <1>8, <2>1
<1>10. (variance_ = 0 <=> Alike(s)) /\ (k > 0 /\ variance_ = 0 => mean_ = s[1])
  BY <1>2, <1>5 DEF Tracks
<1>11. PICK w : w = IF k >= PointWarmUp THEN z ELSE None
  OBVIOUS
<1>12. Judged(w, q)
  <2>1. Len(q) - 1 = k /\ (Len(q) > 1 <=> k > 0)
    BY <1>3
  <2>2. (w = None) = (k < PointWarmUp)
    BY <1>4, <1>9, <1>11
  <2>3. ASSUME w # None, k > 0
        PROVE  /\ (w = Boundless) = (Alike(s) /\ q[k + 1] # q[1])
               /\ ~Alike(s) => w[2] > 0
    <3>1. w = z
      BY <1>11, <2>3
    <3> QED
      BY <1>3, <1>9, <1>10, <2>3, <3>1
  <2> QED
    BY <1>3, <2>1, <2>2, <2>3 DEF Judged
<1> QED
  BY <1>1, <1>2, <1>7, <1>11, <1>12

MovingInv ==
  /\ stretch \in Seq(Points) /\ arrived \in Seq(Points) /\ Len(stretch) <= Len(arrived)
  /\ samples = Len(stretch) /\ Tracks(average, stretch) /\ Judged(verdict, stretch)

LEMMA MovingInit == Moving!Init => MovingInv
BY NothingTracked DEF Moving!Init, MovingInv, Judged

LEMMA MovingNext == MovingInv /\ [Moving!Next]_movingVars => MovingInv'
<1> SUFFICES ASSUME MovingInv, [Moving!Next]_movingVars PROVE MovingInv'
  OBVIOUS
<1>1. CASE UNCHANGED movingVars
  BY <1>1 DEF movingVars, MovingInv
<1>2. ASSUME NEW v \in Points, Moving!Observe(v) PROVE MovingInv'
  <2>1. /\ stretch \in Seq(Points) /\ arrived \in Seq(Points) /\ Len(stretch) <= Len(arrived)
        /\ samples = Len(stretch) /\ Tracks(average, stretch)
    BY DEF MovingInv
  <2>2. /\ Len(arrived) < MaxPoints
        /\ verdict' = IF Len(stretch) >= PointWarmUp THEN Moving!ZScore(average, v) ELSE None
        /\ average' = Moving!Ewma(average, v) /\ samples' = samples + 1
        /\ arrived' = Append(arrived, v) /\ stretch' = Append(stretch, v)
    BY <1>2, <2>1 DEF Moving!Observe
  <2>3. Len(stretch) < MaxPoints
    BY <2>1, <2>2, PointsParameters
  <2>4. Tracks(average', stretch')
    BY <2>1, <2>2, <2>3, OneMoreTracked
  <2>5. Judged(verdict', stretch')
    BY <2>1, <2>2, OneMoreJudged
  <2>6. /\ stretch' \in Seq(Points) /\ arrived' \in Seq(Points) /\ Len(stretch') <= Len(arrived')
        /\ samples' = Len(stretch')
    BY <2>1, <2>2
  <2> QED
    BY <2>4, <2>5, <2>6 DEF MovingInv
<1>3. CASE Moving!Reset
  <2>1. /\ average' = Moving!NewAverage /\ samples' = 0 /\ stretch' = <<>> /\ arrived' = arrived
    BY <1>3 DEF Moving!Reset
  <2>2. arrived \in Seq(Points) /\ Len(arrived) \in Nat
    BY DEF MovingInv
  <2>3. Judged(verdict', <<>>)
    BY DEF Judged
  <2> QED
    BY <2>1, <2>2, <2>3, NothingTracked DEF MovingInv
<1> QED
  BY <1>1, <1>2, <1>3 DEF Moving!Next

LEMMA MovingIsJudged == MovingInv => Moving!JudgedByItsPast
<1> SUFFICES ASSUME MovingInv, stretch # <<>> PROVE Moving!JudgedByItsPast
  BY DEF Moving!JudgedByItsPast
<1>1. PICK past : past = SubSeq(stretch, 1, Len(stretch) - 1)
  OBVIOUS
<1>2. stretch \in Seq(Points) /\ Len(stretch) \in Nat /\ Len(stretch) > 0
  BY DEF MovingInv
<1>3. /\ past \in Seq(Points) /\ Len(past) = Len(stretch) - 1
      /\ (past # <<>> => Len(stretch) > 1 /\ past[1] = stretch[1])
  <2>1. past \in Seq(Points) /\ Len(past) = Len(stretch) - 1
    <3>1. PICK k \in Nat : k = Len(stretch) - 1
      BY <1>2
    <3>2. \A i \in 1..k : stretch[i] \in Points
      BY <1>2, <3>1
    <3>3. past = SubSeq(stretch, 1, k)
      BY <1>1, <3>1
    <3>4. SubSeq(stretch, 1, k) \in Seq(Points) /\ Len(SubSeq(stretch, 1, k)) = k
      BY <1>2, <3>1, <3>2
    <3> QED
      BY <3>1, <3>3, <3>4
  <2>2. ASSUME past # <<>> PROVE Len(stretch) > 1 /\ past[1] = stretch[1]
    <3>1. Len(past) # 0
      BY SMTT(30), <2>1, <2>2
    <3>2. 1 \in 1..(Len(stretch) - 1)
      BY <1>2, <2>1, <3>1
    <3> QED
      BY <1>1, <1>2, <2>1, <3>2
  <2> QED
    BY <2>1, <2>2
<1>4. (Moving!Constant(past) <=> Alike(past)) /\ (Moving!Constant(stretch) <=> Alike(stretch))
  BY <1>2, <1>3, ConstantIsAlike
<1>5. Moving!Constant(past) \in BOOLEAN /\ Alike(past) \in BOOLEAN
  BY DEF Moving!Constant, Alike
<1>6. (verdict = None) = (Len(past) < PointWarmUp)
  BY <1>3 DEF MovingInv, Judged
<1>7. ASSUME verdict # None, past # <<>>
      PROVE  /\ (verdict = Boundless) = (Moving!Constant(past) /\ stretch[Len(stretch)] # past[1])
             /\ ~Moving!Constant(past) => verdict[2] > 0
  BY <1>1, <1>3, <1>4, <1>5, <1>7 DEF MovingInv, Judged
<1>8. average.variance = 0 <=> Moving!Constant(stretch)
  BY <1>4 DEF MovingInv, Tracks
<1> QED
  BY <1>1, <1>6, <1>7, <1>8 DEF Moving!JudgedByItsPast

------------------------------------------------------------------------------
(* The baselines.                                                           *)

LEMMA BaselinesParameters ==
  /\ Observables \subseteq Int /\ Half \in Nat /\ Half > 0 /\ NumBins \in Nat /\ NumBins >= 2
  /\ None \notin Int /\ None \notin [min : Int, max : Int]
BY StreamsParameters DEF Frozen!BaselinesAssumption

LEMMA BaselinesNames ==
  /\ \A f : Frozen!SumFunction(f) = Sum(f)
  /\ \A S : Frozen!Cardinality(S) = Cardinality(S)
  /\ \A S : Frozen!Max(S) = CHOOSE x \in S : \A y \in S : x >= y
  /\ \A S : Frozen!Min(S) = CHOOSE x \in S : \A y \in S : x <= y
<1>1. \A f : Frozen!SumFunction(f) = Sum(f)
  BY DEF Frozen!SumFunction, Frozen!SumFunctionOnSet, Frozen!FoldFunctionOnSet,
         Frozen!MapThenFoldSet, Sum, FoldFunction, FoldFunctionOnSet, MapThenFoldSet
<1>2. \A S : Frozen!Cardinality(S) = Cardinality(S)
  BY DEF Frozen!Cardinality, Cardinality
<1>3. \A S : Frozen!Max(S) = CHOOSE x \in S : \A y \in S : x >= y
  BY DEF Frozen!Max
<1>4. \A S : Frozen!Min(S) = CHOOSE x \in S : \A y \in S : x <= y
  BY DEF Frozen!Min
<1> QED
  BY <1>1, <1>2, <1>3, <1>4

LEMMA MinIsLeast ==
  ASSUME NEW S \in SUBSET Int, IsFiniteSet(S), S # {}
  PROVE  /\ Frozen!Min(S) \in S /\ Frozen!Max(S) \in S
         /\ \A y \in S : Frozen!Min(S) <= y /\ y <= Frozen!Max(S)
<1>1. PICK m \in S : \A y \in S : m <= y
  BY Smallest
<1>2. Frozen!Min(S) \in S /\ \A y \in S : Frozen!Min(S) <= y
  BY <1>1, BaselinesNames
<1>3. PICK t \in S : \A y \in S : y <= t
  BY Greatest
<1>4. \A y \in S : t >= y
  BY <1>3
<1>5. Frozen!Max(S) \in S /\ \A y \in S : Frozen!Max(S) >= y
  BY <1>3, <1>4, BaselinesNames
<1>6. \A y \in S : y <= Frozen!Max(S)
  BY <1>5
<1> QED
  BY <1>2, <1>5, <1>6

IsRange(e) == e \in [min : Int, max : Int] /\ e.min < e.max

\* v lies at or above the lower side of bin b.
Reaches(v, b, e) == b = 1 \/ NumBins * (v - e.min) >= (b - 1) * (e.max - e.min)

LEMMA Quotient ==
  ASSUME NEW x \in Int, NEW y \in Int, y > 0, NEW b \in Int
  PROVE  /\ x \div y \in Int
         /\ 1 + (x \div y) >= b <=> x >= (b - 1) * y
<1>1. PICK q \in Int : q = x \div y
  OBVIOUS
<1>2. y * q <= x /\ x < y * q + y
  BY <1>1
<1>3. ASSUME q >= b - 1 PROVE x >= (b - 1) * y
  BY <1>2, <1>3
<1>4. ASSUME q < b - 1 PROVE x < (b - 1) * y
  BY <1>2, <1>4
<1> QED
  BY <1>1, <1>3, <1>4

\* A value falls in the highest bin it reaches.
LEMMA BinIsReached ==
  ASSUME NEW v \in Int, NEW e, IsRange(e)
  PROVE  /\ Frozen!MapToBin(v, e.min, e.max) \in 1..NumBins
         /\ \A b \in 1..NumBins : Frozen!MapToBin(v, e.min, e.max) >= b <=> Reaches(v, b, e)
<1>1. PICK lo \in Int, hi \in Int : lo = e.min /\ hi = e.max /\ lo < hi
  BY DEF IsRange
<1>2. PICK bin : bin = Frozen!MapToBin(v, lo, hi)
  OBVIOUS
<1>3. NumBins \in Nat /\ NumBins >= 2
  BY BaselinesParameters
<1>4. \A b : Reaches(v, b, e) <=> b = 1 \/ NumBins * (v - lo) >= (b - 1) * (hi - lo)
  BY <1>1 DEF Reaches
<1>5. CASE v <= lo
  <2>1. bin = 1
    BY <1>2, <1>5 DEF Frozen!MapToBin
  <2>2. ASSUME NEW b \in 1..NumBins, b # 1 PROVE ~(NumBins * (v - lo) >= (b - 1) * (hi - lo))
    <3>1. \A x, y \in Nat : x > 0 /\ y > 0 => x * y > 0
      OBVIOUS
    <3>2. (b - 1) * (hi - lo) > 0
      BY <1>1, <1>3, <2>2, <3>1
    <3>3. NumBins * (v - lo) <= 0
      BY <1>1, <1>3, <1>5
    <3> QED
      BY <1>1, <1>3, <2>2, <3>2, <3>3
  <2> QED
    BY <1>1, <1>2, <1>3, <1>4, <2>1, <2>2
<1>6. CASE ~(v <= lo) /\ v >= hi
  <2>1. bin = NumBins
    BY <1>2, <1>6 DEF Frozen!MapToBin
  <2>2. ASSUME NEW b \in 1..NumBins PROVE NumBins * (v - lo) >= (b - 1) * (hi - lo)
    BY <1>1, <1>3, <1>6
  <2> QED
    BY <1>1, <1>2, <1>3, <1>4, <2>1, <2>2
<1>7. CASE ~(v <= lo) /\ ~(v >= hi)
  <2>1. PICK q \in Int : q = ((v - lo) * NumBins) \div (hi - lo)
    BY <1>1, <1>3, Quotient
  <2>2. bin = Frozen!Min({NumBins, 1 + q})
    BY <1>2, <1>7, <2>1 DEF Frozen!MapToBin
  <2>3. bin = IF NumBins <= 1 + q THEN NumBins ELSE 1 + q
    <3>1. IsFiniteSet({NumBins}) /\ IsFiniteSet({NumBins} \cup {1 + q}) /\ {NumBins} \cup {1 + q} = {NumBins, 1 + q}
      BY FS_Singleton, FS_AddElement
    <3>2. bin \in {NumBins, 1 + q} /\ \A y \in {NumBins, 1 + q} : bin <= y
      BY <1>3, <2>2, <3>1, MinIsLeast
    <3> QED
      BY <1>3, <3>2
  <2>4. ASSUME NEW b \in 1..NumBins PROVE 1 + q >= b <=> NumBins * (v - lo) >= (b - 1) * (hi - lo)
    <3>1. (v - lo) * NumBins \in Int /\ hi - lo \in Int /\ hi - lo > 0 /\ b \in Int
      BY <1>1, <1>3
    <3>2. 1 + q >= b <=> (v - lo) * NumBins >= (b - 1) * (hi - lo)
      BY <2>1, <3>1, Quotient
    <3>3. (v - lo) * NumBins = NumBins * (v - lo)
      BY <1>1, <1>3
    <3> QED
      BY <3>2, <3>3
  <2>5. 1 + q >= 1
    <3>1. NumBins * (v - lo) >= (1 - 1) * (hi - lo)
      BY <1>1, <1>3, <1>7
    <3>2. 1 \in 1..NumBins
      BY <1>3
    <3> QED
      BY <2>4, <3>1, <3>2
  <2>6. \A b \in 1..NumBins : bin >= b <=> 1 + q >= b
    BY <1>3, <2>3
  <2>7. bin \in 1..NumBins
    BY <1>3, <2>3, <2>5
  <2>8. ASSUME NEW b \in 1..NumBins PROVE bin >= b <=> Reaches(v, b, e)
    BY <1>3, <1>4, <2>4, <2>5, <2>6
  <2> QED
    BY <1>1, <1>2, <2>7, <2>8
<1> QED
  BY <1>1, <1>5, <1>6, <1>7

\* How many of the values of s lie in T.
Count(s, T) == Cardinality({i \in 1..Len(s) : s[i] \in T})

LEMMA CountOfNone == \A T : Count(<<>>, T) = 0
BY FS_EmptySet DEF Count

LEMMA CountAppended ==
  ASSUME NEW s \in Seq(Int), NEW v \in Int, NEW T
  PROVE  /\ Count(s, T) \in Nat
         /\ Count(Append(s, v), T) = Count(s, T) + (IF v \in T THEN 1 ELSE 0)
<1>1. PICK k \in Nat : k = Len(s)
  OBVIOUS
<1>2. PICK q : q = Append(s, v)
  OBVIOUS
<1>3. Len(q) = k + 1 /\ q[k + 1] = v /\ \A i \in 1..k : q[i] = s[i]
  BY <1>1, <1>2
<1>4. PICK A : A = {i \in 1..k : s[i] \in T}
  OBVIOUS
<1>5. IsFiniteSet(A) /\ Cardinality(A) \in Nat /\ k + 1 \notin A
  <2>1. IsFiniteSet(1..k)
    BY FS_Interval
  <2>2. IsFiniteSet(A)
    BY <1>4, <2>1, FS_Subset
  <2> QED
    BY <1>4, <2>2, FS_CardinalityType
<1>6. {i \in 1..(k + 1) : q[i] \in T} = IF v \in T THEN A \cup {k + 1} ELSE A
  <2>1. \A i : i \in 1..(k + 1) <=> i \in 1..k \/ i = k + 1
    OBVIOUS
  <2> QED
    BY <1>3, <1>4, <2>1
<1>7. Cardinality(A \cup {k + 1}) = Cardinality(A) + 1
  BY <1>5, FS_AddElement
<1>8. Count(s, T) = Cardinality(A)
  BY <1>1, <1>4 DEF Count
<1>9. Count(q, T) = Cardinality(IF v \in T THEN A \cup {k + 1} ELSE A)
  BY <1>3, <1>6 DEF Count
<1> QED
  BY <1>2, <1>5, <1>7, <1>8, <1>9

Above(b, e) == {v \in Int : Reaches(v, b, e)}

\* The bins of h hold the values of s.
Bars(h, b) == [c \in b..NumBins |-> h[c]]
Holds(h, s, e) ==
  /\ h \in [1..NumBins -> Nat]
  /\ \A b \in 1..NumBins : Sum(Bars(h, b)) = Count(s, Above(b, e))

LEMMA NoneHeld == \A e : Holds(Frozen!Empty, <<>>, e)
<1>1. Frozen!Empty \in [1..NumBins -> Nat] /\ \A b \in 1..NumBins : Frozen!Empty[b] = 0
  BY DEF Frozen!Empty
<1>2. ASSUME NEW b \in 1..NumBins PROVE Sum(Bars(Frozen!Empty, b)) = 0
  <2>0. b \in Int /\ NumBins \in Int
    BY BaselinesParameters
  <2>1. IsFiniteSet(b..NumBins)
    BY <2>0, FS_Interval
  <2>2. \A c \in b..NumBins : c \in 1..NumBins
    BY BaselinesParameters
  <2>3. PICK f : f = Bars(Frozen!Empty, b)
    OBVIOUS
  <2>4. f \in [b..NumBins -> Nat] /\ \A c \in b..NumBins : f[c] = 0
    BY <1>1, <2>2, <2>3 DEF Bars
  <2>5. Sum(f) = 0
    BY <2>1, <2>4, SumOfNats
  <2> QED
    BY <2>3, <2>5
<1> QED
  BY <1>1, <1>2, CountOfNone DEF Holds

\* g is f but for one bar.
OneBar(g, f, bars, bin) ==
  /\ f \in [bars -> Int] /\ g \in [bars -> Int] /\ bin \in bars
  /\ \A c \in bars : c # bin => g[c] = f[c]

LEMMA ChangedBar ==
  ASSUME NEW bars, IsFiniteSet(bars), NEW f, NEW g, NEW bin, OneBar(g, f, bars, bin)
  PROVE  Sum(g) = Sum(f) - f[bin] + g[bin]
BY SumUpdate DEF OneBar

LEMMA OneMoreHeld ==
  ASSUME NEW h, NEW s \in Seq(Int), NEW e, IsRange(e), Holds(h, s, e), NEW v \in Int,
         NEW bin, bin = Frozen!MapToBin(v, e.min, e.max)
  PROVE  Holds([h EXCEPT ![bin] = @ + 1], Append(s, v), e)
<1>1. bin \in 1..NumBins /\ \A b \in 1..NumBins : bin >= b <=> Reaches(v, b, e)
  BY BinIsReached
<1>2. PICK g : g = [h EXCEPT ![bin] = @ + 1]
  OBVIOUS
<1>3. h \in [1..NumBins -> Nat] /\ NumBins \in Nat
  BY BaselinesParameters DEF Holds
<1>4. /\ g \in [1..NumBins -> Nat] /\ g[bin] = h[bin] + 1
      /\ \A c \in 1..NumBins : c # bin => g[c] = h[c]
  BY <1>1, <1>2, <1>3
<1>5. ASSUME NEW b \in 1..NumBins PROVE Sum(Bars(g, b)) = Count(Append(s, v), Above(b, e))
  <2>1. PICK x : x = Bars(h, b)
    OBVIOUS
  <2>2. PICK y : y = Bars(g, b)
    OBVIOUS
  <2>3. \A c \in b..NumBins : c \in 1..NumBins
    BY <1>3
  <2>4. IsFiniteSet(b..NumBins)
    BY <1>3, FS_Interval
  <2>5. /\ x \in [b..NumBins -> Int] /\ y \in [b..NumBins -> Int]
        /\ \A c \in b..NumBins : c # bin => y[c] = x[c]
    BY <1>3, <1>4, <2>1, <2>2, <2>3 DEF Bars
  <2>6. Sum(x) \in Int
    BY <2>4, <2>5, SumType
  <2>7. /\ Count(s, Above(b, e)) = Sum(x)
        /\ Count(Append(s, v), Above(b, e)) = Sum(x) + (IF bin >= b THEN 1 ELSE 0)
    <3>1. v \in Above(b, e) <=> bin >= b
      BY <1>1 DEF Above
    <3>2. Count(s, Above(b, e)) = Sum(x)
      BY <2>1 DEF Holds
    <3>3. Count(Append(s, v), Above(b, e)) = Count(s, Above(b, e)) + (IF v \in Above(b, e) THEN 1 ELSE 0)
      BY CountAppended
    <3> QED
      BY <3>1, <3>2, <3>3
  <2>8. CASE bin >= b
    <3>1. bin \in b..NumBins
      BY <1>1, <1>3, <2>8
    <3>2. y[bin] = x[bin] + 1 /\ x[bin] \in Int
      BY <1>3, <1>4, <2>1, <2>2, <2>3, <3>1 DEF Bars
    <3>3. Sum(y) = Sum(x) - x[bin] + y[bin]
      <4>1. OneBar(y, x, b..NumBins, bin)
        BY <2>5, <3>1 DEF OneBar
      <4> QED
        BY <2>4, <4>1, ChangedBar
    <3> QED
      BY <2>2, <2>6, <2>7, <2>8, <3>2, <3>3
  <2>9. CASE ~(bin >= b)
    <3>1. \A c \in b..NumBins : c # bin
      BY <1>1, <1>3, <2>9
    <3>2. y = x
      <4>1. \A c \in b..NumBins : g[c] = h[c]
        BY <1>4, <2>3, <3>1
      <4> QED
        BY <2>1, <2>2, <4>1 DEF Bars
    <3> QED
      BY <2>2, <2>6, <2>7, <2>9, <3>2
  <2> QED
    BY <2>8, <2>9
<1> QED
  BY <1>2, <1>4, <1>5 DEF Holds

\* The histogram of values holds them: one value after the other.
LEMMA HistogramHolds ==
  ASSUME NEW e, IsRange(e)
  PROVE  \A s \in Seq(Int) : Holds(Frozen!Histogram(s, e), s, e)
<1> DEFINE In(b) == {v \in Int : Frozen!MapToBin(v, e.min, e.max) = b}
           Bad == {k \in Nat : \E s \in Seq(Int) : Len(s) = k /\ ~Holds(Frozen!Histogram(s, e), s, e)}
<1>1. ASSUME NEW s \in Seq(Int)
      PROVE  Frozen!Histogram(s, e) = [b \in 1..NumBins |-> Count(s, In(b))]
  <2>1. DOMAIN s = 1..Len(s) /\ \A i \in 1..Len(s) : s[i] \in Int
    OBVIOUS
  <2> QED
    BY <2>1, BaselinesNames DEF Frozen!Histogram, Count
<1> HIDE DEF In
<1>2. ASSUME NEW k \in Bad, \A j \in Bad : k <= j PROVE FALSE
  <2>1. PICK s \in Seq(Int) : Len(s) = k /\ ~Holds(Frozen!Histogram(s, e), s, e)
    OBVIOUS
  <2>2. k \in Nat
    OBVIOUS
  <2>3. CASE k = 0
    <3>1. s = <<>>
      BY <2>1, <2>3
    <3>2. Frozen!Histogram(s, e) = Frozen!Empty
      BY <1>1, <2>1, <3>1, CountOfNone DEF Frozen!Empty
    <3> QED
      BY <2>1, <3>1, <3>2, NoneHeld
  <2>4. CASE k # 0
    <3>1. PICK r : r = SubSeq(s, 1, k - 1)
      OBVIOUS
    <3>2. PICK v \in Int : v = s[k]
      BY <2>1, <2>2, <2>4
    <3>3. r \in Seq(Int) /\ Len(r) = k - 1 /\ s = Append(r, v)
      BY <2>1, <2>2, <2>4, <3>1, <3>2
    <3>4. Holds(Frozen!Histogram(r, e), r, e)
      <4>1. k - 1 \in Nat /\ ~(k <= k - 1)
        BY <2>2, <2>4
      <4>2. k - 1 \notin Bad
        BY <1>2, <4>1
      <4> QED
        BY <3>3, <4>1, <4>2
    <3>5. PICK bin : bin = Frozen!MapToBin(v, e.min, e.max)
      OBVIOUS
    <3>6. bin \in 1..NumBins
      BY <3>5, BinIsReached
    <3>7. PICK h : h = Frozen!Histogram(r, e)
      OBVIOUS
    <3>8. h = [b \in 1..NumBins |-> Count(r, In(b))]
      BY <1>1, <3>3, <3>7
    <3>9. \A b \in 1..NumBins : Count(s, In(b)) = Count(r, In(b)) + (IF b = bin THEN 1 ELSE 0)
      <4>1. \A b : v \in In(b) <=> b = bin
        BY <3>5 DEF In
      <4> QED
        BY <3>3, <4>1, CountAppended
    <3>10. \A b \in 1..NumBins : Count(r, In(b)) \in Nat
      BY <3>3, CountAppended
    <3>11. Frozen!Histogram(s, e) = [h EXCEPT ![bin] = @ + 1]
      BY <1>1, <2>1, <3>6, <3>8, <3>9, <3>10
    <3>12. Holds([h EXCEPT ![bin] = @ + 1], Append(r, v), e)
      BY <3>3, <3>4, <3>5, <3>7, OneMoreHeld
    <3> QED
      BY <2>1, <3>3, <3>11, <3>12
  <2> QED
    BY <2>3, <2>4
<1>3. Bad = {}
  <2>1. Bad \subseteq Nat
    OBVIOUS
  <2> HIDE DEF Bad
  <2> QED
    BY <1>2, <2>1, Least
<1> QED
  <2> SUFFICES ASSUME NEW s \in Seq(Int) PROVE Holds(Frozen!Histogram(s, e), s, e)
    OBVIOUS
  <2>1. Len(s) \in Nat /\ Len(s) \notin Bad
    BY <1>3
  <2> QED
    BY <2>1

\* The values of s after the m-th.
After(s, m) == SubSeq(s, m + 1, Len(s))

LEMMA AfterFacts ==
  ASSUME NEW s \in Seq(Int), NEW m \in 0..Len(s), NEW v \in Int
  PROVE  /\ After(s, m) \in Seq(Int) /\ SubSeq(s, 1, m) \in Seq(Int)
         /\ After(Append(s, v), m) = Append(After(s, m), v)
         /\ SubSeq(Append(s, v), 1, m) = SubSeq(s, 1, m)
         /\ After(s, Len(s)) = <<>> /\ SubSeq(s, 1, Len(s)) = s
         /\ Len(Append(s, v)) = Len(s) + 1 /\ Append(s, v) \in Seq(Int)
<1>1. PICK k \in Nat : k = Len(s)
  OBVIOUS
<1>2. m \in Nat /\ m <= k
  BY <1>1
<1>3. PICK q : q = Append(s, v)
  OBVIOUS
<1>4. q \in Seq(Int) /\ Len(q) = k + 1 /\ q[k + 1] = v /\ \A i \in 1..k : q[i] = s[i]
  BY <1>1, <1>3
<1>5. PICK r : r = SubSeq(s, m + 1, k)
  OBVIOUS
<1>6. r \in Seq(Int) /\ Len(r) = k - m /\ \A i \in 1..(k - m) : r[i] = s[m + i]
  BY <1>1, <1>2, <1>5
<1>7. SubSeq(s, 1, m) \in Seq(Int)
  BY <1>1, <1>2
<1>8. SubSeq(q, m + 1, k + 1) = Append(r, v)
  <2>1. PICK t : t = SubSeq(q, m + 1, k + 1)
    OBVIOUS
  <2>2. t \in Seq(Int) /\ Len(t) = k - m + 1 /\ \A i \in 1..(k - m + 1) : t[i] = q[m + i]
    BY <1>2, <1>4, <2>1
  <2>3. PICK z : z = Append(r, v)
    OBVIOUS
  <2>4. /\ z \in Seq(Int) /\ Len(z) = k - m + 1 /\ z[k - m + 1] = v
        /\ \A i \in 1..(k - m) : z[i] = r[i]
    BY <1>2, <1>6, <2>3
  <2>5. ASSUME NEW i \in 1..(k - m + 1) PROVE t[i] = z[i]
    <3>1. CASE i = k - m + 1
      <4>1. m + i = k + 1
        BY <1>2, <3>1
      <4> QED
        BY <1>4, <2>2, <2>4, <3>1, <4>1
    <3>2. CASE i # k - m + 1
      <4>1. i \in 1..(k - m) /\ m + i \in 1..k
        BY <1>2, <3>2
      <4> QED
        BY <1>4, <1>6, <2>2, <2>4, <4>1
    <3> QED
      BY <3>1, <3>2
  <2>6. t = z
    BY <1>2, <2>2, <2>4, <2>5
  <2> QED
    BY <2>1, <2>3, <2>6
<1>9. SubSeq(q, 1, m) = SubSeq(s, 1, m)
  BY <1>1, <1>2, <1>4
<1>10. SubSeq(s, k + 1, k) = <<>> /\ SubSeq(s, 1, k) = s
  BY <1>1
<1> QED
  BY <1>1, <1>3, <1>4, <1>5, <1>6, <1>7, <1>8, <1>9, <1>10 DEF After

\* What the histograms hold: before they are frozen nothing but the samples,
\* and then what came before, and what came since they were last emptied.
Histograms(o, fa, wa, es, b, p, cs) ==
  /\ wa \in 0..Len(o)
  /\ fa = None => es = None /\ cs = o
  /\ fa # None =>
       /\ fa \in 0..Len(o) /\ cs = <<>> /\ IsRange(es)
       /\ Holds(b, SubSeq(o, 1, fa), es) /\ Holds(p, After(o, wa), es)

Over(u) == {x \in Int : x > u}

\* What the peaks count: what came since the threshold was pinned, above it.
Peaks(o, pa, u, c) ==
  /\ pa \in 0..Len(o)
  /\ u # None => u \in Int /\ c = Count(After(o, pa), Over(u))

FrozenInv ==
  /\ observed \in Seq(Observables)
  /\ Histograms(observed, frozen_at, window_at, bin_edges, baseline, production, cold_samples)
  /\ Peaks(observed, pinned_at, frozen_u, peak_count)

LEMMA ObservedAreInts ==
  ASSUME NEW s \in Seq(Observables) PROVE s \in Seq(Int) /\ Len(s) \in Nat
<1>1. Len(s) \in Nat /\ s = [i \in 1..Len(s) |-> s[i]] /\ \A i \in 1..Len(s) : s[i] \in Observables
  OBVIOUS
<1>2. Observables \subseteq Int
  BY BaselinesParameters
<1>3. [i \in 1..Len(s) |-> s[i]] \in Seq(Int)
  BY <1>1, <1>2
<1> QED
  BY <1>1, <1>3

LEMMA FrozenInit == Frozen!Init => FrozenInv
BY DEF Frozen!Init, FrozenInv, Histograms, Peaks

\* The range of some samples has two ends.
LEMMA EdgesAreRange ==
  ASSUME NEW s \in Seq(Int), s # <<>> PROVE IsRange(Frozen!Edges(s))
<1>1. PICK S : S = {s[i] : i \in 1..Len(s)}
  OBVIOUS
<1>2. Frozen!ToSet(s) = S
  BY <1>1 DEF Frozen!ToSet
<1>3. S \in SUBSET Int /\ IsFiniteSet(S) /\ S # {}
  <2>1. Len(s) \in Nat /\ Len(s) # 0 /\ \A i \in 1..Len(s) : s[i] \in Int
    OBVIOUS
  <2>2. IsFiniteSet(1..Len(s))
    BY <2>1, FS_Interval
  <2>3. IsFiniteSet(S)
    BY <1>1, <2>2, ImageFinite
  <2>4. 1 \in 1..Len(s)
    BY <2>1
  <2> QED
    BY <1>1, <2>1, <2>3, <2>4
<1>4. PICK low_ \in Int, high_ \in Int : low_ = Frozen!Min(S) /\ high_ = Frozen!Max(S) /\ low_ <= high_
  BY <1>3, MinIsLeast
<1>5. Frozen!Edges(s) = IF low_ = high_ THEN [min |-> low_ - Half, max |-> high_ + Half]
                        ELSE [min |-> low_, max |-> high_]
  BY <1>2, <1>4 DEF Frozen!Edges
<1>6. Half \in Nat /\ Half > 0
  BY BaselinesParameters
<1> QED
  BY <1>4, <1>5, <1>6 DEF IsRange

LEMMA FrozenObserve ==
  ASSUME FrozenInv, NEW v \in Observables, Frozen!Observe(v)
  PROVE  FrozenInv'
<1>1. PICK o : o = observed
  OBVIOUS
<1>2. PICK q : q = Append(o, v)
  OBVIOUS
<1>3. o \in Seq(Int) /\ v \in Int /\ Len(o) \in Nat /\ q \in Seq(Observables)
  BY <1>1, <1>2, ObservedAreInts, BaselinesParameters DEF FrozenInv
<1>4. observed' = q
  BY <1>1, <1>2 DEF Frozen!Observe
<1>5. /\ window_at \in 0..Len(o) /\ pinned_at \in 0..Len(o)
      /\ Len(q) = Len(o) + 1
      /\ After(q, window_at) = Append(After(o, window_at), v) /\ After(o, window_at) \in Seq(Int)
      /\ After(q, pinned_at) = Append(After(o, pinned_at), v) /\ After(o, pinned_at) \in Seq(Int)
  <2>1. window_at \in 0..Len(o) /\ pinned_at \in 0..Len(o)
    BY <1>1 DEF FrozenInv, Histograms, Peaks
  <2> QED
    BY <1>2, <1>3, <2>1, AfterFacts
<1>6. /\ window_at \in 0..Len(q) /\ pinned_at \in 0..Len(q)
  BY <1>3, <1>5
<1>7. UNCHANGED <<baseline, bin_edges, frozen_u, frozen_at, window_at, pinned_at>>
  BY DEF Frozen!Observe
<1>8. Histograms(q, frozen_at, window_at, bin_edges, baseline, production', cold_samples')
  <2>1. CASE frozen_at = None
    <3>1. bin_edges = None /\ cold_samples = o
      BY <1>1, <2>1 DEF FrozenInv, Histograms
    <3>2. cold_samples' = q
      BY <1>2, <3>1 DEF Frozen!Observe
    <3> QED
      BY <1>6, <2>1, <3>1, <3>2 DEF Histograms
  <2>2. CASE frozen_at # None
    <3>1. /\ frozen_at \in 0..Len(o) /\ cold_samples = <<>> /\ IsRange(bin_edges)
          /\ Holds(baseline, SubSeq(o, 1, frozen_at), bin_edges)
          /\ Holds(production, After(o, window_at), bin_edges)
      BY <1>1, <2>2 DEF FrozenInv, Histograms
    <3>2. bin_edges # None
      BY <3>1, BaselinesParameters DEF IsRange
    <3>3. PICK bin : bin = Frozen!MapToBin(v, bin_edges.min, bin_edges.max)
      OBVIOUS
    <3>4. production' = [production EXCEPT ![bin] = @ + 1] /\ cold_samples' = cold_samples
      BY <3>2, <3>3 DEF Frozen!Observe
    <3>5. Holds(production', After(q, window_at), bin_edges)
      <4>1. PICK r \in Seq(Int) : r = After(o, window_at)
        BY <1>5
      <4>2. Holds(production, r, bin_edges) /\ IsRange(bin_edges)
        BY <3>1, <4>1
      <4>3. Holds([production EXCEPT ![bin] = @ + 1], Append(r, v), bin_edges)
        BY <1>3, <3>3, <4>2, OneMoreHeld
      <4> QED
        BY <1>5, <3>4, <4>1, <4>3
    <3>6. SubSeq(q, 1, frozen_at) = SubSeq(o, 1, frozen_at)
      BY <1>2, <1>3, <3>1, AfterFacts
    <3>7. frozen_at \in 0..Len(q)
      BY <1>3, <1>5, <3>1
    <3> QED
      BY <1>6, <2>2, <3>1, <3>4, <3>5, <3>6, <3>7 DEF Histograms
  <2> QED
    BY <2>1, <2>2
<1>9. Peaks(q, pinned_at, frozen_u, peak_count')
  <2>1. CASE frozen_u = None
    BY <1>6, <2>1 DEF Peaks
  <2>2. CASE frozen_u # None
    <3>1. frozen_u \in Int /\ peak_count = Count(After(o, pinned_at), Over(frozen_u))
      BY <1>1, <2>2 DEF FrozenInv, Peaks
    <3>2. peak_count' = peak_count + (IF v > frozen_u THEN 1 ELSE 0)
      BY <2>2 DEF Frozen!Observe, Frozen!Record
    <3>3. v \in Over(frozen_u) <=> v > frozen_u
      BY <1>3 DEF Over
    <3>4. Count(After(q, pinned_at), Over(frozen_u))
            = Count(After(o, pinned_at), Over(frozen_u)) + (IF v \in Over(frozen_u) THEN 1 ELSE 0)
      BY <1>3, <1>5, CountAppended
    <3> QED
      BY <1>6, <3>1, <3>2, <3>3, <3>4 DEF Peaks
  <2> QED
    BY <2>1, <2>2
<1> QED
  BY <1>3, <1>4, <1>7, <1>8, <1>9 DEF FrozenInv

LEMMA FrozenFreeze == FrozenInv /\ Frozen!FreezeBaseline => FrozenInv'
<1> SUFFICES ASSUME FrozenInv, Frozen!FreezeBaseline PROVE FrozenInv'
  OBVIOUS
<1>1. PICK o : o = observed
  OBVIOUS
<1>2. o \in Seq(Int) /\ Len(o) \in Nat /\ observed' = o /\ observed \in Seq(Observables)
  BY <1>1, ObservedAreInts DEF FrozenInv, Frozen!FreezeBaseline
<1>3. frozen_at = None /\ cold_samples = o /\ o # <<>>
  BY <1>1 DEF FrozenInv, Histograms, Frozen!FreezeBaseline
<1>4. PICK es : es = Frozen!Edges(o)
  OBVIOUS
<1>5. IsRange(es)
  BY <1>2, <1>3, <1>4, EdgesAreRange
<1>6. /\ bin_edges' = es /\ baseline' = Frozen!Histogram(o, es) /\ production' = Frozen!Empty
      /\ cold_samples' = <<>> /\ frozen_at' = Len(o) /\ window_at' = Len(o)
      /\ UNCHANGED <<frozen_u, peak_count, pinned_at>>
  BY <1>1, <1>3, <1>4 DEF Frozen!FreezeBaseline
<1>7. SubSeq(o, 1, Len(o)) = o /\ After(o, Len(o)) = <<>>
  <2>1. Len(o) \in 0..Len(o) /\ 0 \in Int
    BY <1>2
  <2> QED
    BY <1>2, <2>1, AfterFacts
<1>8. Holds(baseline', SubSeq(o, 1, Len(o)), es) /\ Holds(production', After(o, Len(o)), es)
  BY <1>2, <1>5, <1>6, <1>7, HistogramHolds, NoneHeld
<1>9. Len(o) \in 0..Len(o) /\ Len(o) # None
  BY <1>2, BaselinesParameters
<1>10. Histograms(o, frozen_at', window_at', bin_edges', baseline', production', cold_samples')
  BY <1>5, <1>6, <1>8, <1>9 DEF Histograms
<1>11. Peaks(o, pinned_at', frozen_u', peak_count')
  BY <1>1, <1>6 DEF FrozenInv
<1> QED
  BY <1>1, <1>2, <1>10, <1>11 DEF FrozenInv

LEMMA FrozenReset == FrozenInv /\ Frozen!ResetProduction => FrozenInv'
<1> SUFFICES ASSUME FrozenInv, Frozen!ResetProduction PROVE FrozenInv'
  OBVIOUS
<1>1. PICK o : o = observed
  OBVIOUS
<1>2. o \in Seq(Int) /\ Len(o) \in Nat /\ observed' = o /\ observed \in Seq(Observables)
  BY <1>1, ObservedAreInts DEF FrozenInv, Frozen!ResetProduction
<1>3. /\ production' = Frozen!Empty /\ window_at' = Len(o)
      /\ UNCHANGED <<baseline, bin_edges, cold_samples, frozen_at, frozen_u, peak_count, pinned_at>>
  BY <1>1 DEF Frozen!ResetProduction
<1>4. Len(o) \in 0..Len(o) /\ After(o, Len(o)) = <<>>
  <2>1. Len(o) \in 0..Len(o) /\ 0 \in Int
    BY <1>2
  <2> QED
    BY <1>2, <2>1, AfterFacts
<1>5. Histograms(o, frozen_at, window_at', bin_edges, baseline, production', cold_samples)
  BY <1>1, <1>3, <1>4, NoneHeld DEF FrozenInv, Histograms
<1>6. Peaks(o, pinned_at', frozen_u', peak_count')
  BY <1>1, <1>3 DEF FrozenInv
<1> QED
  BY <1>1, <1>2, <1>3, <1>5, <1>6 DEF FrozenInv

LEMMA FrozenPin == FrozenInv /\ Frozen!FreezeThreshold => FrozenInv'
<1> SUFFICES ASSUME FrozenInv, Frozen!FreezeThreshold PROVE FrozenInv'
  OBVIOUS
<1>1. PICK o : o = observed
  OBVIOUS
<1>2. o \in Seq(Int) /\ Len(o) \in Nat /\ observed \in Seq(Observables)
  BY <1>1, ObservedAreInts DEF FrozenInv
<1>3. PICK u \in Frozen!Min(Frozen!ToSet(observed))..Frozen!Max(Frozen!ToSet(observed)) : Frozen!Pin(u)
  BY DEF Frozen!FreezeThreshold
<1>4. u \in Int
  OBVIOUS
<1>5. /\ frozen_u' = u /\ peak_count' = 0 /\ pinned_at' = Len(o) /\ observed' = o
      /\ UNCHANGED <<baseline, production, bin_edges, cold_samples, frozen_at, window_at>>
  BY <1>1, <1>3 DEF Frozen!Pin
<1>6. Len(o) \in 0..Len(o) /\ After(o, Len(o)) = <<>>
  <2>1. Len(o) \in 0..Len(o) /\ 0 \in Int
    BY <1>2
  <2> QED
    BY <1>2, <2>1, AfterFacts
<1>7. Peaks(o, pinned_at', frozen_u', peak_count')
  BY <1>4, <1>5, <1>6, CountOfNone DEF Peaks
<1>8. Histograms(o, frozen_at', window_at', bin_edges', baseline', production', cold_samples')
  BY <1>1, <1>5 DEF FrozenInv
<1> QED
  BY <1>1, <1>2, <1>5, <1>7, <1>8 DEF FrozenInv

LEMMA FrozenNext == FrozenInv /\ [Frozen!Next]_frozenVars => FrozenInv'
<1>1. FrozenInv /\ UNCHANGED frozenVars => FrozenInv'
  BY DEF frozenVars, FrozenInv
<1> QED
  BY <1>1, FrozenObserve, FrozenFreeze, FrozenReset, FrozenPin DEF Frozen!Next

LEMMA FrozenIsFrozen == FrozenInv => Frozen!FrozenStaysFrozen
<1> SUFFICES ASSUME FrozenInv PROVE Frozen!FrozenStaysFrozen
  OBVIOUS
<1>1. observed \in Seq(Int) /\ Len(observed) \in Nat
  BY ObservedAreInts DEF FrozenInv
<1>2. ASSUME NEW h, NEW s \in Seq(Int), NEW e, Holds(h, s, e), NEW b \in 1..NumBins
      PROVE  Frozen!Upper(h, b) = Frozen!FromBin(s, b, e)
  <2>1. Frozen!Upper(h, b) = Sum(Bars(h, b))
    BY BaselinesNames DEF Frozen!Upper, Bars
  <2>2. DOMAIN s = 1..Len(s) /\ \A i \in 1..Len(s) : s[i] \in Int
    OBVIOUS
  <2>3. Frozen!FromBin(s, b, e) = Count(s, Above(b, e))
    BY <2>2, BaselinesNames DEF Frozen!FromBin, Count, Above, Reaches
  <2> QED
    BY <1>2, <2>1, <2>3 DEF Holds
<1>3. \A m \in 0..Len(observed) :
        /\ After(observed, m) \in Seq(Int) /\ SubSeq(observed, 1, m) \in Seq(Int)
        /\ Frozen!Since(m) = After(observed, m)
  <2>1. 0 \in Int
    OBVIOUS
  <2> QED
    BY <1>1, <2>1, AfterFacts DEF After, Frozen!Since
<1>4. ASSUME frozen_at # None, NEW b \in 1..NumBins
      PROVE  /\ Frozen!Upper(baseline, b) = Frozen!FromBin(SubSeq(observed, 1, frozen_at), b, bin_edges)
             /\ Frozen!Upper(production, b) = Frozen!FromBin(Frozen!Since(window_at), b, bin_edges)
  <2>1. /\ frozen_at \in 0..Len(observed) /\ window_at \in 0..Len(observed)
        /\ Holds(baseline, SubSeq(observed, 1, frozen_at), bin_edges)
        /\ Holds(production, After(observed, window_at), bin_edges)
    BY <1>4 DEF FrozenInv, Histograms
  <2>2. PICK s \in Seq(Int) : s = SubSeq(observed, 1, frozen_at)
    BY <1>3, <2>1
  <2>3. PICK t \in Seq(Int) : t = After(observed, window_at) /\ t = Frozen!Since(window_at)
    BY <1>3, <2>1
  <2>4. Frozen!Upper(baseline, b) = Frozen!FromBin(s, b, bin_edges)
    BY <1>2, <2>1, <2>2
  <2>5. Frozen!Upper(production, b) = Frozen!FromBin(t, b, bin_edges)
    BY <1>2, <2>1, <2>3
  <2> QED
    BY <2>2, <2>3, <2>4, <2>5
<1>5. frozen_at = None => cold_samples = observed
  BY DEF FrozenInv, Histograms
<1>6. ASSUME frozen_u # None
      PROVE  peak_count = Frozen!Cardinality({i \in DOMAIN Frozen!Since(pinned_at) :
                                               Frozen!Since(pinned_at)[i] > frozen_u})
  <2>1. PICK s \in Seq(Int) : s = After(observed, pinned_at) /\ s = Frozen!Since(pinned_at)
    BY <1>3 DEF FrozenInv, Peaks
  <2>2. DOMAIN s = 1..Len(s) /\ \A i \in 1..Len(s) : s[i] \in Int
    OBVIOUS
  <2>3. peak_count = Count(s, Over(frozen_u))
    BY <1>6, <2>1 DEF FrozenInv, Peaks
  <2> QED
    BY <2>1, <2>2, <2>3, BaselinesNames DEF Count, Over
<1> QED
  BY <1>4, <1>5, <1>6 DEF Frozen!FrozenStaysFrozen

------------------------------------------------------------------------------

\* Windows, sums, baselines and peaks are of the stretch of the stream they
\* belong to, and a point is judged by its past (adwin.rs, meta_drift.rs,
\* per_feature_cusum.rs, per_feature_ewma.rs, feature_drift.rs,
\* univariate_spot.rs): for any values, any sizes of window and of histogram, any
\* limits and any resets.
THEOREM DetectorsStayInStretch == StreamsSpec => []DetectorsKeepToTheirStretch
<1> DEFINE Inv == WindowInv /\ SumsInv /\ FrozenInv /\ MovingInv
<1>1. StreamsInit => Inv
  BY WindowInit, SumsInit, FrozenInit, MovingInit DEF StreamsInit
<1>2. Inv /\ [StreamsNext]_<<part, forestVars, wrapperVars, sketchVars, detectorVars, metricVars>>
      => Inv'
  BY WindowNext, SumsNext, FrozenNext, MovingNext, DetectorsStep
<1>3. Inv => DetectorsKeepToTheirStretch
  BY WindowIsFlat, SumsAreWorst, FrozenIsFrozen, MovingIsJudged DEF DetectorsKeepToTheirStretch
<1> HIDE DEF Inv
<1> QED
  BY <1>1, <1>2, <1>3, PTL DEF StreamsSpec
=============================================================================
