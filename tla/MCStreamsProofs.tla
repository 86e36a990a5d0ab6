--------------------------- MODULE MCStreamsProofs ---------------------------
(***************************************************************************)
(* Proofs about the parts of the core that follow one stream, as MCStreams *)
(* composes them, for every value of their constants.                      *)
(***************************************************************************)
EXTENDS MCStreams, FunctionSums, SequenceTheorems, TLAPS

\* A step of one part leaves the variables of the others alone.
LEMMA PartsStep ==
  ASSUME [StreamsNext]_<<part, forestVars, wrapperVars, sketchVars, detectorVars,
                         metricVars>>
  PROVE  /\ part' = part
         /\ [Next]_vars /\ [Snapshot!Next]_saveVars /\ [Shingle!Next]_ringVars
         /\ [Sampler!Next]_samplerVars /\ [Failing!Next]_failingVars
BY DEF StreamsNext, ForestStep, WrapperStep, SketchStep, DetectorStep, MetricStep,
       forestVars, wrapperVars

------------------------------------------------------------------------------
(* Recovery by a shadow forest.                                             *)

LEMMA DriftInit == Init => RecoveryInv
<1> SUFFICES ASSUME Init PROVE RecoveryInv
  OBVIOUS
<1>1. Cardinality({}) = 0
  BY FS_EmptySet
<1>2. born + 1 .. stream = {} /\ primary = {}
  BY DEF Init
<1>3. TypeOK /\ ShadowInv
  BY DEF Init, TypeOK, ShadowInv
<1> QED
  BY <1>1, <1>2, <1>3 DEF Init, RecoveryInv, RecoveryLosesNothing

\* A forest that has taken the positions from one on.
LEMMA Positions ==
  ASSUME NEW f, NEW l \in Nat, NEW h \in Nat, f \subseteq l + 1 .. h
  PROVE  /\ IsFiniteSet(f) /\ Cardinality(f) \in Nat
         /\ Cardinality(f \cup {h + 1}) = Cardinality(f) + 1
         /\ \A g \in SUBSET f : IsFiniteSet(g) /\ Cardinality(g) \in Nat
                                /\ Cardinality(g) <= Cardinality(f)
<1>1. IsFiniteSet(f)
  <2>1. l + 1 \in Int /\ h \in Int
    OBVIOUS
  <2>2. IsFiniteSet(l + 1 .. h)
    BY <2>1, FS_Interval
  <2> QED
    BY <2>2, FS_Subset
<1>2. h + 1 \notin f
  OBVIOUS
<1> QED
  BY <1>1, <1>2, FS_AddElement, FS_CardinalityType, FS_Subset

\* A point more: what each forest lacks is still what update failed for.
LEMMA DriftNext == RecoveryInv /\ [Next]_vars => RecoveryInv'
<1> SUFFICES ASSUME RecoveryInv, [Next]_vars PROVE RecoveryInv'
  OBVIOUS
<1>1. /\ stream \in Nat /\ born \in Nat /\ born <= stream /\ primary_age \in Nat
      /\ failed \subseteq 1..stream /\ Here = stream + 1
  BY DEF RecoveryInv, TypeOK, Here
<1>2. /\ primary \subseteq born + 1 .. stream
      /\ (born + 1 .. stream) \ primary \subseteq failed
      /\ Cardinality(primary \ failed) <= primary_age
      /\ primary_age <= Cardinality(primary)
  BY DEF RecoveryInv, RecoveryLosesNothing
<1>3. /\ Cardinality(primary \cup {Here}) = Cardinality(primary) + 1
      /\ Cardinality((primary \ failed) \cup {Here}) = Cardinality(primary \ failed) + 1
      /\ Cardinality(primary) \in Nat /\ Cardinality(primary \ failed) \in Nat
  BY <1>1, <1>2, Positions
<1>4. born + 1 .. stream + 1 = (born + 1 .. stream) \cup {Here} /\ Here \notin failed
  BY <1>1
\* The live forest, in a call that it fails or takes.
<1>5. ASSUME stream' = Here, PrimaryFails PROVE RecoveryInv'
  <2>1. primary' \ failed' = primary \ failed /\ born' = born
    BY <1>1, <1>2, <1>5 DEF PrimaryFails
  <2>2. /\ Cardinality(primary') \in Nat /\ Cardinality(primary) <= Cardinality(primary')
        /\ primary_age' = primary_age
    BY <1>3, <1>5 DEF PrimaryFails
  <2>3. primary' \subseteq born + 1 .. stream + 1
    BY <1>1, <1>2, <1>4, <1>5 DEF PrimaryFails
  <2>4. (born + 1 .. stream + 1) \ primary' \subseteq failed'
    BY <1>1, <1>2, <1>4, <1>5 DEF PrimaryFails
  <2>5. RecoveryLosesNothing'
    BY <1>1, <1>2, <1>3, <1>5, <2>1, <2>2, <2>3, <2>4 DEF RecoveryLosesNothing
  <2>6. TypeOK'
    BY <1>1, <1>5 DEF PrimaryFails, TypeOK
  <2>7. ShadowInv'
    <3>1. ASSUME shadow # None PROVE (shadow.from + 1 .. stream + 1) \ failed' = shadow.forest
      <4>1. shadow.from \in 0..stream /\ shadow.forest = (shadow.from + 1 .. stream) \ failed
        BY <3>1 DEF RecoveryInv, ShadowInv
      <4>2. shadow.from + 1 .. stream + 1 = (shadow.from + 1 .. stream) \cup {Here}
        BY <1>1, <4>1
      <4> QED
        BY <1>1, <1>5, <4>1, <4>2 DEF PrimaryFails
    <3> QED
      BY <1>1, <1>5, <3>1 DEF PrimaryFails, RecoveryInv, ShadowInv
  <2> QED
    BY <2>5, <2>6, <2>7 DEF RecoveryInv
<1>6. ASSUME stream' = Here, primary' = primary \cup {Here}, Aged,
             born' = born, failed' \in {failed, failed \cup {Here}}
      PROVE  RecoveryLosesNothing' /\ TypeOK'
  <2>1. Cardinality(primary' \ failed') <= Cardinality(primary \ failed) + 1
    <3>1. CASE failed' = failed
      <4>1. primary' \ failed' = (primary \ failed) \cup {Here}
        BY <1>4, <1>6, <3>1
      <4> QED
        BY <1>3, <4>1
    <3>2. CASE failed' = failed \cup {Here}
      <4>1. primary' \ failed' = primary \ failed
        BY <1>1, <1>2, <1>6, <3>2
      <4>2. Cardinality(primary' \ failed') = Cardinality(primary \ failed)
        BY <4>1
      <4> QED
        BY <1>3, <4>2
    <3> QED
      BY <1>6, <3>1, <3>2
  <2>2. Cardinality(primary' \ failed') \in Nat
    <3>1. primary' \subseteq born + 1 .. stream + 1 /\ stream + 1 \in Nat
      BY <1>1, <1>2, <1>4, <1>6
    <3> QED
      BY <1>1, <3>1, Positions
  <2> QED
    BY <1>1, <1>2, <1>3, <1>4, <1>6, <2>1, <2>2 DEF Aged, RecoveryLosesNothing, TypeOK
\* The shadow, one point further.
<1>7. ASSUME shadow # None
      PROVE  /\ Taught = [forest |-> shadow.forest \cup {Here}, seen |-> shadow.seen + 1,
                          from |-> shadow.from]
             /\ shadow.from \in Nat /\ shadow.from <= stream
             /\ Taught.forest = (shadow.from + 1 .. Here) \ failed
             /\ Taught.seen = Cardinality(Taught.forest) /\ Taught.seen \in Nat
  <2>1. /\ shadow = [forest |-> shadow.forest, seen |-> shadow.seen, from |-> shadow.from]
        /\ shadow.from \in Nat /\ shadow.from <= stream
        /\ shadow.forest = (shadow.from + 1 .. stream) \ failed
        /\ shadow.seen = Cardinality(shadow.forest)
    BY <1>1, <1>7 DEF RecoveryInv, ShadowInv
  <2>2. Taught = [forest |-> shadow.forest \cup {Here}, seen |-> shadow.seen + 1,
                  from |-> shadow.from]
    BY DEF Taught
  <2>3. /\ Cardinality(shadow.forest \cup {Here}) = Cardinality(shadow.forest) + 1
        /\ Cardinality(shadow.forest) \in Nat
    BY <1>1, <2>1, Positions
  <2>4. shadow.from + 1 .. Here = (shadow.from + 1 .. stream) \cup {Here}
    BY <1>1, <2>1
  <2> QED
    BY <1>4, <2>1, <2>2, <2>3, <2>4
<1>8. CASE Update
  <2>1. stream' = Here
    BY <1>8 DEF Update
  <2>2. CASE PrimaryFails
    BY <1>5, <2>1, <2>2
  <2>3. CASE PrimaryOnly
    <3>1. ShadowInv'
      BY <2>3 DEF PrimaryOnly, ShadowInv
    <3> QED
      BY <1>6, <2>1, <2>3, <3>1 DEF PrimaryOnly, RecoveryInv
  <2>4. CASE ShadowFails
    <3>1. ShadowInv'
      BY <2>4 DEF ShadowFails, ShadowInv
    <3> QED
      BY <1>6, <2>1, <2>4, <3>1 DEF ShadowFails, RecoveryInv
  <2>5. CASE ShadowLearns
    <3>1. ShadowInv'
      BY <1>1, <1>7, <2>1, <2>5 DEF ShadowLearns, ShadowInv
    <3> QED
      BY <1>6, <2>1, <2>5, <3>1 DEF ShadowLearns, RecoveryInv
  <2>6. CASE Swap
    <3>1. /\ primary' = (shadow.from + 1 .. Here) \ failed /\ failed' = failed
          /\ born' = shadow.from /\ primary_age' = Cardinality(primary')
      BY <1>7, <2>6 DEF Swap
    <3>2. primary' \ failed' = primary'
      BY <3>1
    <3>3. RecoveryLosesNothing' /\ TypeOK'
      BY SMTT(30), <1>1, <1>7, <2>1, <2>6, <3>1, <3>2 DEF Swap, RecoveryLosesNothing, TypeOK
    <3>4. ShadowInv'
      BY <2>6 DEF Swap, ShadowInv
    <3> QED
      BY <3>3, <3>4 DEF RecoveryInv
  <2> QED
    BY <1>8, <2>2, <2>3, <2>4, <2>5, <2>6 DEF Update
<1>9. CASE OnDrift
  <2>1. shadow'.from + 1 .. stream = {} /\ Cardinality({}) = 0
    BY <1>1, <1>9, FS_EmptySet DEF OnDrift
  <2>2. ShadowInv'
    BY <1>1, <1>9, <2>1 DEF OnDrift, ShadowInv
  <2> QED
    BY <1>1, <1>2, <1>9, <2>2 DEF OnDrift, RecoveryInv, RecoveryLosesNothing, TypeOK
<1>10. CASE AbortShadow \/ UNCHANGED vars
  BY <1>10 DEF AbortShadow, vars, RecoveryInv, RecoveryLosesNothing, TypeOK, ShadowInv
<1> QED
  BY <1>8, <1>9, <1>10 DEF Next

\* DriftAware: a swapped-in shadow lacks nothing but what the caller was told
\* of, for any warm-up and age, and any errors of either forest.
THEOREM RecoveryIsComplete == StreamsSpec => []RecoveryLosesNothing
<1>1. StreamsInit => RecoveryInv
  BY DriftInit DEF StreamsInit
<1>2. RecoveryInv /\ [StreamsNext]_<<part, forestVars, wrapperVars, sketchVars,
                                    detectorVars, metricVars>> => RecoveryInv'
  BY PartsStep, DriftNext
<1>3. RecoveryInv => RecoveryLosesNothing
  BY DEF RecoveryInv
<1> QED
  BY <1>1, <1>2, <1>3, PTL DEF StreamsSpec

------------------------------------------------------------------------------
(* Shingles.                                                                *)

LEMMA RingParameters == D \in Nat \ {0}
BY StreamsParameters DEF Shingle!ShingleAssumption

\* Division with remainder.
LEMMA Quotient ==
  ASSUME NEW a \in Nat
  PROVE  \E q \in Nat, r \in 0..D-1 : a = D * q + r /\ a % D = r
<1>1. a = D * (a \div D) + (a % D) /\ a % D \in 0..D-1 /\ a \div D \in Nat
  BY RingParameters
<1> QED
  BY <1>1

LEMMA Remainder ==
  ASSUME NEW q \in Nat, NEW r \in 0..D-1
  PROVE  (D * q + r) % D = r
BY RingParameters

\* Fewer than D steps do not come round to the same place of the ring.
LEMMA PlacesDiffer ==
  ASSUME NEW a \in Nat, NEW b \in Nat, a < b, b < a + D
  PROVE  a % D # b % D
<1>1. PICK q \in Nat, r \in 0..D-1 : a = D * q + r /\ a % D = r
  BY Quotient
<1>2. PICK p \in Nat, u \in 0..D-1 : b = D * p + u /\ b % D = u
  BY Quotient
<1>3. SUFFICES ASSUME r = u PROVE FALSE
  BY <1>1, <1>2
<1>4. D * (p - q) = b - a /\ p - q \in Int
  BY <1>1, <1>2, <1>3, RingParameters
<1>5. CASE p - q <= 0
  <2>1. D * (p - q) <= 0
    BY <1>4, <1>5, RingParameters
  <2> QED
    BY <1>4, <2>1
<1>6. CASE p - q >= 1
  <2>1. D * (p - q) >= D
    BY <1>4, <1>6, RingParameters
  <2> QED
    BY <1>4, <2>1, RingParameters
<1> QED
  BY <1>4, <1>5, <1>6

\* Steps from the place of a number are those from the number.
LEMMA PlaceAfter ==
  ASSUME NEW a \in Nat, NEW k \in Nat
  PROVE  ((a % D) + k) % D = (a + k) % D
<1>1. PICK q \in Nat, r \in 0..D-1 : a = D * q + r /\ a % D = r
  BY Quotient
<1>2. PICK p \in Nat, u \in 0..D-1 : r + k = D * p + u /\ (r + k) % D = u
  <2>1. r + k \in Nat
    BY <1>1, RingParameters
  <2> QED
    BY <2>1, Quotient
<1>3. a + k = D * (q + p) + u /\ q + p \in Nat
  BY <1>1, <1>2, RingParameters
<1> QED
  BY <1>1, <1>2, <1>3, Remainder

LEMMA OnceRound ==
  ASSUME NEW a \in Nat
  PROVE  (a + D) % D = a % D
<1>1. PICK q \in Nat, r \in 0..D-1 : a = D * q + r /\ a % D = r
  BY Quotient
<1>2. a + D = D * (q + 1) + r /\ q + 1 \in Nat
  BY <1>1, RingParameters
<1> QED
  BY <1>1, <1>2, Remainder

LEMMA RingInit == Shingle!Init => Shingle!RingInv
<1> SUFFICES ASSUME Shingle!Init PROVE Shingle!RingInv
  OBVIOUS
<1>1. accepted = <<>> /\ submitted = <<>> /\ Len(accepted) = 0 /\ Len(submitted) = 0
  BY DEF Shingle!Init
<1>2. 0 % D = 0
  BY RingParameters
<1>3. Shingle!TypeOK
  BY <1>1 DEF Shingle!Init, Shingle!TypeOK, Shingle!EmptyRing
<1> QED
  BY <1>1, <1>2, <1>3, RingParameters
  DEF Shingle!Init, Shingle!RingInv, Shingle!ShinglesAreWindows

\* An accepted scalar takes the place of the oldest, which no window needs
\* any more.
LEMMA RotateStep ==
  ASSUME Shingle!RingInv, NEW v \in Nat, Shingle!Rotate(v)
  PROVE  /\ ring' \in [0..D-1 -> Nat] /\ accepted' \in Seq(Nat)
         /\ Len(accepted') = Len(accepted) + 1
         /\ \A k \in 1..Len(accepted) : accepted'[k] = accepted[k]
         /\ cursor' = Len(accepted') % D
         /\ filled' = IF Len(accepted') < D THEN Len(accepted') ELSE D
         /\ \A k \in 1..Len(accepted') :
              k > Len(accepted') - D => ring'[(k - 1) % D] = accepted'[k]
<1>1. /\ ring \in [0..D-1 -> Nat] /\ accepted \in Seq(Nat) /\ Len(accepted) \in Nat
      /\ cursor = Len(accepted) % D
      /\ filled = IF Len(accepted) < D THEN Len(accepted) ELSE D
      /\ \A k \in 1..Len(accepted) :
           k > Len(accepted) - D => ring[(k - 1) % D] = accepted[k]
  BY DEF Shingle!RingInv, Shingle!TypeOK
<1>2. accepted' = Append(accepted, v)
  BY DEF Shingle!Rotate
<1>3. /\ accepted' \in Seq(Nat) /\ Len(accepted') = Len(accepted) + 1
      /\ \A k \in 1..Len(accepted) : accepted'[k] = accepted[k]
      /\ accepted'[Len(accepted) + 1] = v
  BY <1>1, <1>2
<1>4. cursor \in 0..D-1 /\ ring' = [ring EXCEPT ![cursor] = v]
  BY <1>1, RingParameters DEF Shingle!Rotate
<1>5. cursor' = Len(accepted') % D
  <2>1. cursor' = (cursor + 1) % D
    BY DEF Shingle!Rotate
  <2>2. (cursor + 1) % D = (Len(accepted) + 1) % D
    BY <1>1, PlaceAfter
  <2> QED
    BY <1>3, <2>1, <2>2
<1>6. filled' = IF Len(accepted') < D THEN Len(accepted') ELSE D
  BY <1>1, <1>3, RingParameters DEF Shingle!Rotate
<1>7. ASSUME NEW k \in 1..Len(accepted'), k > Len(accepted') - D
      PROVE  ring'[(k - 1) % D] = accepted'[k]
  <2>1. CASE k = Len(accepted) + 1
    BY <1>1, <1>3, <1>4, <2>1
  <2>2. CASE k \in 1..Len(accepted)
    <3>1. k - 1 \in Nat /\ k - 1 < Len(accepted) /\ Len(accepted) < (k - 1) + D
      <4>1. k > Len(accepted) + 1 - D /\ D \in Nat
        BY <1>3, <1>7, RingParameters
      <4> QED
        BY SMTT(30), <1>1, <2>2, <4>1
    <3>2. (k - 1) % D # cursor
      BY <1>1, <3>1, PlacesDiffer
    <3>3. (k - 1) % D \in 0..D-1
      BY <3>1, RingParameters
    <3>4. ring[(k - 1) % D] = accepted[k]
      BY <1>1, <1>3, <1>7, <2>2, RingParameters
    <3> QED
      BY <1>1, <1>3, <1>4, <2>2, <3>2, <3>3, <3>4
  <2> QED
    BY <1>1, <1>3, <2>1, <2>2
<1> QED
  BY <1>1, <1>3, <1>4, <1>5, <1>6, <1>7

\* A full ring, read from its cursor, is the newest D accepted scalars.
LEMMA FullRing ==
  ASSUME Shingle!RingInv, Len(accepted) >= D, NEW k \in 1..D
  PROVE  ring[(cursor + k - 1) % D] = accepted[Len(accepted) - D + k]
<1>1. /\ Len(accepted) \in Nat /\ cursor = Len(accepted) % D
      /\ \A j \in 1..Len(accepted) :
           j > Len(accepted) - D => ring[(j - 1) % D] = accepted[j]
  BY DEF Shingle!RingInv, Shingle!TypeOK
<1> DEFINE j == Len(accepted) - D + k
<1>2. j \in 1..Len(accepted) /\ j > Len(accepted) - D /\ j - 1 \in Nat
  BY <1>1, RingParameters
<1>3. ring[(j - 1) % D] = accepted[j]
  BY <1>1, <1>2
<1>4. (cursor + k - 1) % D = (j - 1) % D
  <2>1. k - 1 \in Nat /\ Len(accepted) + (k - 1) = (j - 1) + D
    BY <1>1, RingParameters
  <2>2. (cursor + (k - 1)) % D = (Len(accepted) + (k - 1)) % D
    BY <1>1, <2>1, PlaceAfter
  <2>3. ((j - 1) + D) % D = (j - 1) % D
    BY <1>2, OnceRound
  <2>4. cursor + k - 1 = cursor + (k - 1)
    BY <1>1, RingParameters
  <2> QED
    BY <2>1, <2>2, <2>3, <2>4
<1> QED
  BY <1>3, <1>4

LEMMA RingNext == Shingle!RingInv /\ [Shingle!Next]_ringVars => Shingle!RingInv'
<1> SUFFICES ASSUME Shingle!RingInv, [Shingle!Next]_ringVars PROVE Shingle!RingInv'
  OBVIOUS
<1>1. /\ accepted \in Seq(Nat) /\ Len(accepted) \in Nat /\ offered \in Nat
      /\ submitted \in Seq([1..D -> Nat]) /\ Len(submitted) \in Nat
      /\ filled = IF Len(accepted) < D THEN Len(accepted) ELSE D
      /\ Len(submitted) = (IF Len(accepted) > D THEN Len(accepted) - D ELSE 0)
      /\ \A k \in 1..Len(submitted) : submitted[k] = Shingle!Window(k)
      /\ warmed <=> submitted # <<>>
  BY DEF Shingle!RingInv, Shingle!TypeOK, Shingle!ShinglesAreWindows
\* The windows submitted so far reach no further than what was accepted.
<1>2. ASSUME NEW v \in Nat, Shingle!Rotate(v), NEW k \in 1..Len(submitted)
      PROVE  Shingle!Window(k)' = Shingle!Window(k)
  <2>1. \A i \in 1..D : k + i - 1 \in 1..Len(accepted)
    BY <1>1, RingParameters
  <2>2. \A i \in 1..D : accepted'[k + i - 1] = accepted[k + i - 1]
    BY <1>2, <2>1, RotateStep
  <2> QED
    BY <2>2 DEF Shingle!Window
<1>3. CASE Shingle!Fill
  <2>1. offered + 1 \in Nat /\ Shingle!Rotate(offered + 1)
    BY <1>1, <1>3 DEF Shingle!Fill
  <2>2. submitted' = submitted /\ warmed' = warmed /\ offered' = offered + 1
    BY <1>3 DEF Shingle!Fill, Shingle!Offer
  <2>3. Len(accepted) < D /\ Len(submitted) = 0
    BY <1>1, <1>3, RingParameters DEF Shingle!Fill
  <2>4. Len(accepted') <= D
    BY <1>1, <2>1, <2>3, RotateStep, RingParameters
  <2>5. Shingle!ShinglesAreWindows'
    <3>1. Len(accepted') = Len(accepted) + 1
      BY <2>1, RotateStep
    <3>2. ~ (Len(accepted') > D) /\ Len(submitted') = 0
      BY <1>1, <2>2, <2>3, <3>1, RingParameters
    <3>3. 1..Len(submitted') = {}
      BY <3>2
    <3>4. \A k \in 1..Len(submitted') : submitted'[k] = Shingle!Window(k)'
      BY <3>3
    <3> QED
      BY <1>1, <2>2, <3>2, <3>4 DEF Shingle!ShinglesAreWindows
  <2> QED
    BY <1>1, <2>1, <2>2, <2>5, RotateStep DEF Shingle!RingInv, Shingle!TypeOK
<1>4. CASE Shingle!Submit
  <2>1. offered + 1 \in Nat /\ Shingle!Rotate(offered + 1) /\ Len(accepted) >= D
    BY <1>1, <1>4, RingParameters DEF Shingle!Submit
  <2>2. /\ submitted' = Append(submitted, Shingle!MaterialiseShingle)
        /\ warmed' = TRUE /\ offered' = offered + 1
    BY <1>4 DEF Shingle!Submit, Shingle!Offer
  <2>3. Len(accepted') = Len(accepted) + 1 /\ Len(submitted) = Len(accepted) - D
    BY <1>1, <2>1, RotateStep, RingParameters
  <2>4. \A i \in 1..D : /\ ring[(cursor + i - 1) % D] = accepted[Len(accepted) - D + i]
                        /\ Len(accepted) - D + i \in 1..Len(accepted)
    <3> TAKE i \in 1..D
    <3>1. Len(accepted) - D + i \in 1..Len(accepted)
      BY <1>1, <2>1, RingParameters
    <3> QED
      BY <2>1, <3>1, FullRing
  <2>5. ASSUME NEW k, k = Len(submitted) + 1
        PROVE  Shingle!MaterialiseShingle = Shingle!Window(k)'
    <3>1. \A i \in 1..D : accepted'[k + i - 1] = accepted[Len(accepted) - D + i]
      <4>1. \A i \in 1..D : k + i - 1 = Len(accepted) - D + i
        BY <1>1, <2>3, <2>5, RingParameters
      <4> QED
        BY <2>1, <2>4, <4>1, RotateStep
    <3> QED
      BY <2>4, <3>1 DEF Shingle!MaterialiseShingle, Shingle!Window
  <2>6. Shingle!MaterialiseShingle \in [1..D -> Nat]
    BY <1>1, <2>4 DEF Shingle!MaterialiseShingle
  <2>7. /\ submitted' \in Seq([1..D -> Nat]) /\ Len(submitted') = Len(submitted) + 1
        /\ \A k \in 1..Len(submitted) : submitted'[k] = submitted[k]
        /\ submitted'[Len(submitted) + 1] = Shingle!MaterialiseShingle
        /\ submitted' # <<>>
    BY <1>1, <2>2, <2>6
  <2>8. ASSUME NEW k \in 1..Len(submitted') PROVE submitted'[k] = Shingle!Window(k)'
    <3>1. CASE k \in 1..Len(submitted)
      BY <1>1, <1>2, <2>1, <2>7, <3>1
    <3>2. CASE k = Len(submitted) + 1
      BY <2>5, <2>7, <3>2
    <3> QED
      BY <1>1, <2>7, <3>1, <3>2
  <2>9. Shingle!ShinglesAreWindows'
    <3>1. Len(accepted') > D /\ Len(submitted') = Len(accepted') - D
      BY <1>1, <2>1, <2>3, <2>7, RingParameters
    <3> QED
      BY <2>2, <2>7, <2>8, <3>1 DEF Shingle!ShinglesAreWindows
  <2> QED
    BY <1>1, <2>1, <2>2, <2>7, <2>9, RotateStep DEF Shingle!RingInv, Shingle!TypeOK
<1>5. CASE Shingle!UpdateFails
  BY <1>1, <1>5
  DEF Shingle!UpdateFails, Shingle!Offer, Shingle!RingInv, Shingle!TypeOK,
      Shingle!ShinglesAreWindows, Shingle!Window
<1>6. CASE Shingle!ResetRing
  <2>1. /\ accepted' = <<>> /\ submitted' = <<>> /\ Len(accepted') = 0
        /\ Len(submitted') = 0 /\ 0 % D = 0
    BY <1>6, RingParameters DEF Shingle!ResetRing
  <2>2. Shingle!TypeOK'
    BY <1>1, <1>6, <2>1 DEF Shingle!ResetRing, Shingle!TypeOK, Shingle!EmptyRing
  <2> QED
    BY <1>6, <2>1, <2>2, RingParameters
    DEF Shingle!ResetRing, Shingle!RingInv, Shingle!ShinglesAreWindows
<1>7. CASE UNCHANGED ringVars
  BY <1>7
  DEF ringVars, Shingle!RingInv, Shingle!TypeOK, Shingle!ShinglesAreWindows, Shingle!Window
<1> QED
  BY <1>3, <1>4, <1>5, <1>6, <1>7 DEF Shingle!Next

\* Shingled submits every window of D accepted scalars once and in order, and a
\* query extends the newest, for any D and any errors and resets.
THEOREM WindowsStayWhole == StreamsSpec => []ShinglesAreWindows
<1>1. StreamsInit => Shingle!RingInv
  BY RingInit DEF StreamsInit
<1>2. Shingle!RingInv /\ [StreamsNext]_<<part, forestVars, wrapperVars, sketchVars,
                                        detectorVars, metricVars>> => Shingle!RingInv'
  BY PartsStep, RingNext
<1>3. Shingle!RingInv => ShinglesAreWindows
  <2> SUFFICES ASSUME Shingle!RingInv PROVE ShinglesAreWindows
    OBVIOUS
  <2>1. ASSUME filled = D, NEW i \in 1..D-1
        PROVE  Shingle!ShingleWith(offered + 1)[i] = accepted[Len(accepted) - D + 1 + i]
    <3>0. Len(accepted) \in Nat /\ filled = IF Len(accepted) < D THEN Len(accepted) ELSE D
      BY DEF Shingle!RingInv, Shingle!TypeOK
    <3>1. Len(accepted) >= D /\ Len(accepted) \in Nat
      BY <2>1, <3>0, RingParameters
    <3>2. i + 1 \in 1..D /\ i # D /\ i \in 1..D
      BY RingParameters
    <3>3. ring[(cursor + (i + 1) - 1) % D] = accepted[Len(accepted) - D + (i + 1)]
      BY <3>1, <3>2, FullRing
    <3>4. cursor + (i + 1) - 1 = cursor + i
      BY <3>1, RingParameters DEF Shingle!RingInv
    <3>5. Len(accepted) - D + (i + 1) = Len(accepted) - D + 1 + i
      BY <3>1, RingParameters
    <3> QED
      BY <3>2, <3>3, <3>4, <3>5 DEF Shingle!ShingleWith
  <2> QED
    BY <2>1 DEF ShinglesAreWindows, Shingle!RingInv, Shingle!QueryExtendsNewest
<1> QED
  BY <1>1, <1>2, <1>3, PTL DEF StreamsSpec
------------------------------------------------------------------------------
(* The sampler.                                                             *)

LEMMA SamplerParameters ==
  /\ Capacity \in Nat \ {0} /\ Noise \subseteq Int
  /\ Decay \in Nat /\ WarmUp \in Nat
BY StreamsParameters DEF Sampler!SamplerAssumption

\* Of two numbers.
LEMMA LesserAndGreater ==
  ASSUME NEW a \in Int, NEW b \in Int
  PROVE  /\ Sampler!Min({a, b}) = IF a <= b THEN a ELSE b
         /\ Sampler!Max({a, b}) = IF a >= b THEN a ELSE b
BY DEF Sampler!Min, Sampler!Max

\* An instance has the standard modules' operators under names of its own.
LEMMA SamplerSets ==
  \A S : (Sampler!IsFiniteSet(S) <=> IsFiniteSet(S)) /\ Sampler!Cardinality(S) = Cardinality(S)
BY DEF Sampler!IsFiniteSet, IsFiniteSet, Sampler!Cardinality, Cardinality

LEMMA GateIsOpen == Sampler!TypeOK => Sampler!AdmitProbability[1] > 0
<1> SUFFICES ASSUME Sampler!TypeOK PROVE Sampler!AdmitProbability[1] > 0
  OBVIOUS
<1> DEFINE threshold == Sampler!Max({WarmUp, 1})
<1>1. threshold \in Nat /\ threshold >= 1
  <2>1. WarmUp \in Int /\ 1 \in Int
    BY SamplerParameters
  <2>2. threshold = IF WarmUp >= 1 THEN WarmUp ELSE 1
    BY <2>1, LesserAndGreater
  <2> QED
    BY <2>2, SamplerParameters
<1>2. entries_seen \in Nat
  BY DEF Sampler!TypeOK
<1>3. Sampler!Min({entries_seen + 1, threshold}) > 0
  <2>1. entries_seen + 1 \in Int /\ threshold \in Int
    BY <1>1, <1>2
  <2> HIDE DEF threshold
  <2> QED
    BY <1>1, <1>2, <2>1, LesserAndGreater
<1> QED
  BY <1>3 DEF Sampler!AdmitProbability

LEMMA SamplerInit == Sampler!Init => Sampler!SamplerInv
<1> SUFFICES ASSUME Sampler!Init PROVE Sampler!SamplerInv
  OBVIOUS
<1>1. Cardinality({}) = 0 /\ IsFiniteSet({})
  BY FS_EmptySet
<1>2. Sampler!TypeOK
  BY <1>1, SamplerSets DEF Sampler!Init, Sampler!TypeOK
<1>3. Sampler!Min({Capacity, 0}) = 0
  BY SamplerParameters, LesserAndGreater
<1> QED
  BY <1>1, <1>2, <1>3, GateIsOpen, SamplerSets
  DEF Sampler!Init, Sampler!SamplerInv, Sampler!SampleIsLightest

\* The heaviest of a heap that is not empty.
LEMMA PeekIsHeaviest ==
  ASSUME Sampler!TypeOK, heap # {}
  PROVE  /\ Sampler!Peek \in Int /\ \A e \in heap : e.weight <= Sampler!Peek
         /\ \E e \in heap : e.weight = Sampler!Peek
<1> DEFINE weights == {e.weight : e \in heap}
<1>1. /\ heap \subseteq contenders /\ IsFiniteSet(contenders)
      /\ \A e \in heap : e.weight \in Int
  BY SamplerSets DEF Sampler!TypeOK
<1>2. weights \in SUBSET Int /\ weights # {}
  BY <1>1
<1>3. IsFiniteSet(weights)
  <2>1. IsFiniteSet(heap)
    BY <1>1, FS_Subset
  <2>2. [e \in heap |-> e.weight] \in Surjection(heap, weights)
    BY DEF Surjection
  <2> QED
    BY <2>1, <2>2, FS_Surjection DEF ExistsSurjection
<1>4. \E m \in weights : \A y \in weights : y <= m
  <2> HIDE DEF weights
  <2> QED
    BY <1>2, <1>3, Greatest
<1>5. \E m \in weights : \A y \in weights : m >= y
  BY <1>2, <1>4
<1>6. Sampler!Peek \in weights /\ \A y \in weights : Sampler!Peek >= y
  <2>1. Sampler!Peek = CHOOSE m \in weights : \A y \in weights : m >= y
    BY DEF Sampler!Peek, Sampler!Max
  <2> HIDE DEF weights
  <2> QED
    BY <1>5, <2>1
<1> QED
  BY <1>2, <1>6

LEMMA SamplerNext == Sampler!SamplerInv /\ [Sampler!Next]_samplerVars => Sampler!SamplerInv'
<1> SUFFICES ASSUME Sampler!SamplerInv, [Sampler!Next]_samplerVars PROVE Sampler!SamplerInv'
  OBVIOUS
<1> DEFINE size == Cardinality(heap)
           known == Cardinality(contenders)
           Goal == /\ Sampler!TypeOK'
                   /\ Cardinality(heap') = IF Capacity <= Cardinality(contenders')
                                           THEN Capacity ELSE Cardinality(contenders')
                   /\ Cardinality(contenders') \in Int
                   /\ \A out \in contenders' \ heap', in \in heap' : out.weight >= in.weight
<1>1. /\ entries_seen \in Nat /\ heap \subseteq contenders
      /\ IsFiniteSet(contenders) /\ IsFiniteSet(heap)
      /\ contenders \subseteq [weight : Int, point_idx : 1..entries_seen]
      /\ size \in Nat /\ known \in Nat /\ Sampler!TypeOK
  <2>1. IsFiniteSet(contenders) /\ heap \subseteq contenders
    BY SamplerSets DEF Sampler!SamplerInv, Sampler!TypeOK
  <2> QED
    BY <2>1, FS_Subset, FS_CardinalityType DEF Sampler!SamplerInv, Sampler!TypeOK
<1>2. /\ size = IF Capacity <= known THEN Capacity ELSE known
      /\ \A out \in contenders \ heap, in \in heap : out.weight >= in.weight
  <2>1. size = Sampler!Min({Capacity, known})
    BY SamplerSets DEF Sampler!SamplerInv, Sampler!SampleIsLightest
  <2> QED
    BY <1>1, <2>1, SamplerParameters, LesserAndGreater
    DEF Sampler!SamplerInv, Sampler!SampleIsLightest
\* A heap that has room holds all there is.
<1>3. size < Capacity => heap = contenders
  BY <1>1, <1>2, FS_Subset, SamplerParameters
<1>4. SUFFICES ASSUME ~UNCHANGED samplerVars
               PROVE  Goal
  <2>1. CASE UNCHANGED samplerVars
    BY <2>1 DEF samplerVars, Sampler!SamplerInv, Sampler!TypeOK, Sampler!SampleIsLightest,
                Sampler!AdmitProbability
  <2>2. CASE ~UNCHANGED samplerVars
    <3>1. (Sampler!TypeOK => Sampler!AdmitProbability[1] > 0)'
      BY GateIsOpen, PTL
    <3>2. Cardinality(heap') = Sampler!Min({Capacity, Cardinality(contenders')})
      BY <1>4, <2>2, SamplerParameters, LesserAndGreater
    <3> QED
      BY <1>4, <2>2, <3>1, <3>2, SamplerSets DEF Sampler!SamplerInv, Sampler!SampleIsLightest
  <2> QED
    BY <2>1, <2>2
<1>5. CASE Sampler!Accept
  <2>1. entries_seen' = entries_seen + 1 /\ entries_seen' \in Nat
    BY <1>1, <1>5 DEF Sampler!Accept
  <2>2. contenders \subseteq [weight : Int, point_idx : 1..entries_seen']
    BY <1>1, <2>1
  <2>3. CASE Sampler!TurnAway({})
    <3>1. heap' = heap /\ contenders' = contenders /\ op' = "rejected"
      BY <2>3 DEF Sampler!TurnAway
    <3> QED
      BY <1>1, <1>2, <2>1, <2>2, <3>1, SamplerSets DEF Sampler!TypeOK
  <2>4. ASSUME NEW noise \in Noise, NEW e,
               e = [weight |-> noise - entries_seen' * Decay, point_idx |-> entries_seen'],
               \/ Cardinality(heap) < Capacity /\ Sampler!Hold(e)
               \/ ~(Cardinality(heap) < Capacity) /\ e.weight < Sampler!Peek /\ Sampler!Replace(e)
               \/ ~(Cardinality(heap) < Capacity) /\ ~(e.weight < Sampler!Peek)
                  /\ Sampler!TurnAway({e})
        PROVE  Goal
    <3>1. /\ e.weight \in Int /\ e.point_idx = entries_seen + 1
          /\ e \in [weight : Int, point_idx : 1..entries_seen']
      <4>1. noise \in Int /\ entries_seen' * Decay \in Int
        BY <2>1, SamplerParameters
      <4>2. PICK weight : weight = noise - entries_seen' * Decay
        OBVIOUS
      <4>3. weight \in Int
        BY <4>1, <4>2
      <4>4. e = [weight |-> weight, point_idx |-> entries_seen']
        BY <2>4, <4>2
      <4>5. entries_seen' \in 1..entries_seen'
        BY <1>1, <2>1
      <4> QED
        BY <2>1, <4>3, <4>4, <4>5
    <3>2. e \notin contenders /\ e \notin heap
      <4>1. \A c \in contenders : c.point_idx # entries_seen + 1
        BY <1>1
      <4> QED
        BY <1>1, <3>1, <4>1
    <3>3. /\ Cardinality(contenders \cup {e}) = known + 1 /\ IsFiniteSet(contenders \cup {e})
          /\ Cardinality(heap \cup {e}) = size + 1
      BY <1>1, <3>2, FS_AddElement
    <3>4. CASE contenders' = contenders \cup {e}
      <4>0. Cardinality(contenders') = known + 1
        BY <3>3, <3>4
      <4>1. (heap' \subseteq contenders' /\ op' \in {"inserted", "replaced", "rejected"})
              => Sampler!TypeOK'
        BY <2>1, <2>2, <3>1, <3>3, <3>4, SamplerSets DEF Sampler!TypeOK
      <4>2. CASE Cardinality(heap) < Capacity /\ Sampler!Hold(e)
        <5>1. heap' = contenders' /\ op' = "inserted" /\ heap' = heap \cup {e}
          BY <1>3, <4>2 DEF Sampler!Hold
        <5>2. Cardinality(heap') = size + 1 /\ size = known
          BY <1>3, <3>3, <4>2, <5>1
        <5>3. size + 1 <= Capacity
          BY <1>1, <4>2, SamplerParameters
        <5> QED
          BY <1>1, <4>0, <4>1, <5>1, <5>2, <5>3, SamplerParameters
      <4>3. CASE ~(Cardinality(heap) < Capacity) /\ e.weight < Sampler!Peek /\ Sampler!Replace(e)
        <5>1. PICK out \in heap : /\ out.weight = Sampler!Peek
                                  /\ heap' = (heap \ {out}) \cup {e} /\ op' = "replaced"
          BY <4>3 DEF Sampler!Replace
        <5>2. Sampler!Peek \in Int /\ \A x \in heap : x.weight <= Sampler!Peek
          BY <1>1, <5>1, PeekIsHeaviest
        <5>3. Cardinality(heap') = size
          <6>1. Cardinality(heap \ {out}) = size - 1 /\ IsFiniteSet(heap \ {out})
            BY <1>1, <5>1, FS_RemoveElement
          <6>2. e \notin heap \ {out}
            BY <3>2
          <6>3. Cardinality((heap \ {out}) \cup {e}) = Cardinality(heap \ {out}) + 1
            BY <6>1, <6>2, FS_AddElement
          <6> QED
            BY <1>1, <5>1, <6>1, <6>3
        <5>4. size = Capacity /\ known >= Capacity
          BY <1>1, <1>2, <4>3, SamplerParameters
        <5>5. ASSUME NEW x \in contenders' \ heap', NEW y \in heap' PROVE x.weight >= y.weight
          <6>1. x = out \/ x \in contenders \ heap
            BY <3>4, <5>1, <5>5
          <6>2. x.weight \in Int /\ x.weight >= Sampler!Peek
            BY <1>1, <1>2, <5>1, <5>2, <6>1
          <6>3. y.weight \in Int /\ y.weight <= Sampler!Peek
            BY <1>1, <3>1, <4>3, <5>1, <5>2, <5>5
          <6> QED
            BY <5>2, <6>2, <6>3
        <5> QED
          BY <1>1, <3>4, <4>0, <4>1, <5>1, <5>3, <5>4, <5>5, SamplerParameters
      <4>4. CASE /\ ~(Cardinality(heap) < Capacity) /\ ~(e.weight < Sampler!Peek)
                 /\ Sampler!TurnAway({e})
        <5>1. heap' = heap /\ op' = "rejected"
          BY <4>4 DEF Sampler!TurnAway
        <5>2. size = Capacity /\ known >= Capacity
          BY <1>1, <1>2, <4>4, SamplerParameters
        <5>3. heap # {}
          <6>1. size # 0 /\ Cardinality({}) = 0
            BY <5>2, SamplerParameters, FS_EmptySet
          <6> QED
            BY <6>1
        <5>4. Sampler!Peek \in Int /\ \A x \in heap : x.weight <= Sampler!Peek
          BY <1>1, <5>3, PeekIsHeaviest
        <5>5. ASSUME NEW x \in contenders' \ heap', NEW y \in heap' PROVE x.weight >= y.weight
          <6>1. CASE x = e
            <7>1. y \in heap /\ y.weight \in Int
              BY <1>1, <5>1
            <7> QED
              BY <3>1, <4>4, <5>4, <6>1, <7>1
          <6>2. CASE x \in contenders \ heap
            BY <1>2, <5>1, <6>2
          <6> QED
            BY <3>4, <5>1, <5>5, <6>1, <6>2
        <5> QED
          BY <1>1, <3>4, <4>0, <4>1, <5>1, <5>2, <5>5, SamplerParameters
      <4> QED
        BY <2>4, <4>2, <4>3, <4>4
    <3> QED
      BY <2>4, <3>4 DEF Sampler!Hold, Sampler!Replace, Sampler!TurnAway
  <2> QED
    <3>1. CASE ~Sampler!Sure /\ Sampler!TurnAway({})
      BY <2>3, <3>1
    <3>2. CASE \E noise \in Noise :
          LET e == [weight |-> noise - entries_seen' * Decay, point_idx |-> entries_seen']
          IN IF Cardinality(heap) < Capacity THEN Sampler!Hold(e)
             ELSE IF e.weight < Sampler!Peek THEN Sampler!Replace(e) ELSE Sampler!TurnAway({e})
      <4>1. PICK noise \in Noise :
              LET e == [weight |-> noise - entries_seen' * Decay, point_idx |-> entries_seen']
              IN IF Cardinality(heap) < Capacity THEN Sampler!Hold(e)
                 ELSE IF e.weight < Sampler!Peek THEN Sampler!Replace(e)
                      ELSE Sampler!TurnAway({e})
        BY <3>2
      <4>2. PICK e : e = [weight |-> noise - entries_seen' * Decay,
                          point_idx |-> entries_seen']
        OBVIOUS
      <4>3. IF Cardinality(heap) < Capacity THEN Sampler!Hold(e)
            ELSE IF e.weight < Sampler!Peek THEN Sampler!Replace(e) ELSE Sampler!TurnAway({e})
        BY <4>1, <4>2, Zenon
      <4> HIDE DEF Goal
      <4> QED
        BY <2>4, <4>2, <4>3
    <3> QED
      BY <1>5, <3>1, <3>2, SamplerSets DEF Sampler!Accept
<1>6. CASE Sampler!Remove
  <2>1. PICK gone \in heap : heap' = heap \ {gone} /\ contenders' = heap \ {gone}
    BY <1>6 DEF Sampler!Remove
  <2>2. entries_seen' = entries_seen /\ op' = op
    BY <1>6 DEF Sampler!Remove
  <2>3. Cardinality(heap') = size - 1 /\ IsFiniteSet(heap') /\ size - 1 \in Nat
    <3>1. Cardinality(heap \ {gone}) = size - 1 /\ IsFiniteSet(heap \ {gone})
      BY <1>1, FS_RemoveElement
    <3>2. Cardinality(heap \ {gone}) \in Nat
      BY <3>1, FS_CardinalityType
    <3> QED
      BY <2>1, <3>1, <3>2
  <2>4. size - 1 <= Capacity
    BY <1>1, <1>2, SamplerParameters
  <2>5. Sampler!TypeOK'
    BY <1>1, <2>1, <2>2, <2>3, SamplerSets DEF Sampler!TypeOK
  <2>6. Cardinality(contenders') = size - 1
    BY <2>1, <2>3
  <2>7. Cardinality(heap') = IF Capacity <= Cardinality(contenders')
                             THEN Capacity ELSE Cardinality(contenders')
    BY <2>3, <2>4, <2>6, SamplerParameters
  <2> QED
    BY <2>1, <2>3, <2>5, <2>6, <2>7
<1>7. CASE Sampler!Reset
  <2>1. heap' = {} /\ contenders' = {} /\ entries_seen' = 0 /\ op' = "none"
    BY <1>7 DEF Sampler!Reset
  <2>2. Cardinality({}) = 0 /\ IsFiniteSet({})
    BY FS_EmptySet
  <2>3. Sampler!TypeOK'
    BY <2>1, <2>2, SamplerSets DEF Sampler!TypeOK
  <2> QED
    BY <2>1, <2>2, <2>3, SamplerParameters
<1> QED
  BY <1>4, <1>5, <1>6, <1>7 DEF Sampler!Next, samplerVars

\* The sample is the lightest of all that was weighed against it, whatever the
\* capacity, the decay, the warm-up and the noise.
THEOREM SampleStaysLightest == StreamsSpec => []SampleIsLightest
<1>1. StreamsInit => Sampler!SamplerInv
  BY SamplerInit DEF StreamsInit
<1>2. Sampler!SamplerInv /\ [StreamsNext]_<<part, forestVars, wrapperVars, sketchVars,
                                           detectorVars, metricVars>> => Sampler!SamplerInv'
  BY SamplerNext, PartsStep
<1>3. Sampler!SamplerInv => SampleIsLightest
  BY DEF Sampler!SamplerInv, SampleIsLightest
<1> QED
  BY <1>1, <1>2, <1>3, PTL DEF StreamsSpec
------------------------------------------------------------------------------
(* The saves.                                                               *)


LEMMA SaveParameters ==
  ProcessOf \in [Threads -> Processes] /\ MaxSaves \in Nat /\ None \notin Nat
BY StreamsParameters DEF Snapshot!CheckpointAssumption

LEMMA SaveInit == Snapshot!Init => Snapshot!SaveInv
<1> SUFFICES ASSUME Snapshot!Init PROVE Snapshot!SaveInv
  OBVIOUS
<1>1. Snapshot!TypeOK
  BY SaveParameters DEF Snapshot!Init, Snapshot!TypeOK, Snapshot!Files, Snapshot!Idle
<1>2. Snapshot!PathInv
  BY DEF Snapshot!Init, Snapshot!PathInv, Snapshot!Names
<1>3. \A t \in Threads : Snapshot!SaverInv(t)
  BY DEF Snapshot!Init, Snapshot!SaverInv, Snapshot!Idle, Snapshot!Unfinished
<1> QED
  BY <1>1, <1>2, <1>3 DEF Snapshot!SaveInv

\* A saver that writes to its file disturbs nobody: it is not the path's yet.
LEMMA WriterStep ==
  ASSUME Snapshot!SaveInv, NEW t \in Threads, NEW to \in Snapshot!Unfinished,
         NEW content \in [holds : Snapshot!Extent, disk : SUBSET Snapshot!Extent],
         at[t].step \in Snapshot!Unfinished,
         at' = [at EXCEPT ![t].step = to],
         files' = [files EXCEPT ![at[t].file] = content],
         to = "written" => content.holds = "whole",
         to = "synced" => content = [holds |-> "whole", disk |-> {"whole"}],
         UNCHANGED <<seq, dir, kept, reading, renamed, saved>>
  PROVE  Snapshot!SaveInv'
<1> DEFINE file == at[t].file
<1>1. /\ Snapshot!TypeOK /\ Snapshot!PathInv /\ \A u \in Threads : Snapshot!SaverInv(u)
  BY DEF Snapshot!SaveInv
<1>2. /\ file \in Snapshot!Files /\ file \notin Snapshot!Range(renamed)
      /\ \A u \in Threads \ {t} : at[u].step \in Snapshot!Unfinished => at[u].file # file
  BY <1>1 DEF Snapshot!SaverInv
<1>3. /\ Snapshot!Files' = Snapshot!Files /\ files'[file] = content
      /\ \A i \in Snapshot!Files \ {file} : files'[i] = files[i]
      /\ files' \in Seq([holds : Snapshot!Extent, disk : SUBSET Snapshot!Extent])
  BY <1>1, <1>2 DEF Snapshot!TypeOK, Snapshot!Files
<1>4. /\ at' \in [Threads -> [step : Snapshot!Unfinished \cup {"idle", "renamed"},
                             file : Snapshot!Files \cup {None},
                             tmp : Snapshot!Names \cup {None}]]
      /\ at'[t].step = to /\ at'[t].file = file /\ at'[t].tmp = at[t].tmp
      /\ \A u \in Threads \ {t} : at'[u] = at[u]
  BY <1>1 DEF Snapshot!TypeOK
<1>5. Snapshot!TypeOK'
  BY <1>1, <1>3, <1>4 DEF Snapshot!TypeOK
<1>6. \A i \in Snapshot!Range(renamed) : i \in Snapshot!Files /\ files'[i] = files[i]
  BY <1>1, <1>2, <1>3 DEF Snapshot!TypeOK, Snapshot!Range
<1>7. Snapshot!PathInv'
  BY <1>1, <1>6 DEF Snapshot!PathInv, Snapshot!Whole, Snapshot!Range
<1>8. ASSUME NEW u \in Threads PROVE Snapshot!SaverInv(u)'
  <2>1. CASE u = t
    <3>1. at[t].tmp \in Snapshot!Names \ {Snapshot!Target} /\ dir[at[t].tmp] = file
      BY <1>1 DEF Snapshot!SaverInv
    <3>2. \A v \in Threads \ {t} : at'[v].step \in Snapshot!Unfinished => at'[v].file # file
      BY <1>2, <1>4
    <3>3. (to = "written" => content.holds = "whole") /\ to # "renamed"
      BY DEF Snapshot!Unfinished
    <3>4. /\ at'[u].step = to /\ at'[u].file = file /\ at'[u].tmp = at[t].tmp
          /\ \A v \in Threads \ {u} : at'[v].step \in Snapshot!Unfinished => at'[v].file # file
      BY <1>4, <2>1, <3>2
    <3>5. /\ at'[u].file \in Snapshot!Files' /\ at'[u].tmp \in Snapshot!Names \ {Snapshot!Target}
          /\ dir'[at'[u].tmp] = at'[u].file /\ at'[u].file \notin Snapshot!Range(renamed')
      BY <1>2, <1>3, <3>1, <3>4
    <3>6. \A v \in Threads \ {u} : at'[v].step \in Snapshot!Unfinished => at'[v].file # at'[u].file
      BY <3>4
    <3>7. /\ at'[u].step = "written" => files'[at'[u].file].holds = "whole"
          /\ at'[u].step = "synced"
               => files'[at'[u].file] = [holds |-> "whole", disk |-> {"whole"}]
      BY <1>3, <3>4
    <3> QED
      BY <3>3, <3>4, <3>5, <3>6, <3>7 DEF Snapshot!SaverInv, Snapshot!Whole
  <2>2. CASE u # t
    <3>1. Snapshot!SaverInv(u)
      BY <1>1
    <3>2. at'[u] = at[u]
      BY <1>4, <2>2
    <3>3. at[u].step \in Snapshot!Unfinished => at[u].file # file
      BY <1>2, <2>2
    <3> QED
      BY <1>2, <1>3, <1>4, <2>2, <3>1, <3>2, <3>3
      DEF Snapshot!SaverInv, Snapshot!Unfinished, Snapshot!Whole, Snapshot!Range
  <2> QED
    BY <2>1, <2>2
<1> QED
  BY <1>5, <1>7, <1>8 DEF Snapshot!SaveInv

\* The target is no tmp name.
LEMMA TmpIsNoTarget ==
  \A p \in Processes, k \in Nat : Snapshot!TmpPath(p, k) # Snapshot!Target
BY DEF Snapshot!TmpPath, Snapshot!Target

\* Who is done, has failed or has died leaves the rest as it was; a failed saver
\* may have removed the file at its tmp name.
LEMMA LeaveStep ==
  ASSUME Snapshot!SaveInv, NEW Gone \in SUBSET Threads,
         at' = [u \in Threads |-> IF u \in Gone THEN Snapshot!Idle ELSE at[u]],
         seq' \in [Processes -> Nat],
         UNCHANGED <<files, reading, renamed, saved>>,
         \/ UNCHANGED <<dir, kept>>
         \/ \E t \in Gone : at[t].step \in Snapshot!Unfinished /\ Snapshot!Bind(at[t].tmp, None)
  PROVE  Snapshot!SaveInv'
<1>1. /\ Snapshot!TypeOK /\ Snapshot!PathInv /\ \A u \in Threads : Snapshot!SaverInv(u)
  BY DEF Snapshot!SaveInv
<1>2. /\ \A u \in Gone : at'[u] = Snapshot!Idle
      /\ \A u \in Threads \ Gone : at'[u] = at[u]
      /\ at' \in [Threads -> [step : Snapshot!Unfinished \cup {"idle", "renamed"},
                             file : Snapshot!Files \cup {None},
                             tmp : Snapshot!Names \cup {None}]]
  BY <1>1 DEF Snapshot!TypeOK, Snapshot!Idle
<1>3. Snapshot!Files' = Snapshot!Files
  BY DEF Snapshot!Files
<1> DEFINE Left ==
           /\ dir' \in [Snapshot!Names -> Snapshot!Files \cup {None}]
           /\ kept' \in [Snapshot!Names -> SUBSET (Snapshot!Files \cup {None})]
           /\ \A name \in Snapshot!Names : dir'[name] \in kept'[name]
           /\ dir'[Snapshot!Target] = dir[Snapshot!Target]
           /\ kept'[Snapshot!Target] = kept[Snapshot!Target]
           /\ \A u \in Threads \ Gone :
                at[u].step \in Snapshot!Unfinished => dir'[at[u].tmp] = at[u].file
<1>4. Left
  <2>1. CASE UNCHANGED <<dir, kept>>
    BY <1>1, <2>1 DEF Snapshot!TypeOK, Snapshot!PathInv, Snapshot!SaverInv
  <2>2. ASSUME NEW t \in Gone, at[t].step \in Snapshot!Unfinished,
               Snapshot!Bind(at[t].tmp, None)
        PROVE  Left
    <3>1. /\ at[t].tmp \in Snapshot!Names \ {Snapshot!Target} /\ dir[at[t].tmp] = at[t].file
      BY <1>1, <2>2 DEF Snapshot!SaverInv
    <3> QED
      BY <1>1, <2>2, <3>1 DEF Snapshot!Bind, Snapshot!TypeOK, Snapshot!PathInv, Snapshot!SaverInv
  <2> QED
    BY <2>1, <2>2
<1>5. Snapshot!TypeOK'
  BY <1>1, <1>2, <1>3, <1>4 DEF Snapshot!TypeOK
<1>6. Snapshot!PathInv'
  BY <1>1, <1>4 DEF Snapshot!PathInv, Snapshot!Whole, Snapshot!Range
<1>7. ASSUME NEW u \in Threads PROVE Snapshot!SaverInv(u)'
  <2>1. CASE u \in Gone
    BY <1>2, <2>1 DEF Snapshot!SaverInv, Snapshot!Idle, Snapshot!Unfinished
  <2>2. CASE u \notin Gone
    <3>1. Snapshot!SaverInv(u)
      BY <1>1
    <3>2. at'[u] = at[u] /\ \A v \in Threads : at'[v].step \in Snapshot!Unfinished => at'[v] = at[v]
      BY <1>2, <2>2 DEF Snapshot!Idle, Snapshot!Unfinished
    <3> QED
      BY <1>3, <1>4, <2>2, <3>1, <3>2
      DEF Snapshot!SaverInv, Snapshot!Whole, Snapshot!Range
  <2> QED
    BY <2>1, <2>2
<1> QED
  BY <1>5, <1>6, <1>7 DEF Snapshot!SaveInv

\* A new file is at its own name, and nobody else's.
LEMMA CreateStep ==
  ASSUME Snapshot!SaveInv, NEW t \in Threads, Snapshot!Create(t)
  PROVE  Snapshot!SaveInv'
<1> DEFINE p == ProcessOf[t]
           name == Snapshot!Tmp(t)
           file == Len(files) + 1
           blank == [holds |-> "empty", disk |-> {"empty"}]
<1>1. /\ Snapshot!TypeOK /\ Snapshot!PathInv /\ \A u \in Threads : Snapshot!SaverInv(u)
  BY DEF Snapshot!SaveInv
<1>2. /\ p \in Processes /\ seq' \in [Processes -> Nat] /\ seq[p] \in 0..MaxSaves-1
      /\ UNCHANGED <<reading, renamed, saved>>
  BY <1>1, SaveParameters DEF Snapshot!Create, Snapshot!Taken, Snapshot!TypeOK
<1>3. CASE dir[name] # None /\ UNCHANGED <<at, files, dir, kept>>
  <2>1. Snapshot!TypeOK'
    BY <1>1, <1>2, <1>3 DEF Snapshot!TypeOK, Snapshot!Files
  <2>2. Snapshot!PathInv'
    BY <1>1, <1>2, <1>3 DEF Snapshot!PathInv, Snapshot!Whole, Snapshot!Range
  <2>3. \A u \in Threads : Snapshot!SaverInv(u)'
    BY <1>1, <1>2, <1>3 DEF Snapshot!SaverInv, Snapshot!Whole, Snapshot!Range, Snapshot!Files
  <2> QED
    BY <2>1, <2>2, <2>3 DEF Snapshot!SaveInv
<1>4. CASE dir[name] = None /\ Snapshot!Opened(t)
  <2>1. name \in Snapshot!Names \ {Snapshot!Target}
    BY <1>2, TmpIsNoTarget DEF Snapshot!Tmp, Snapshot!Names
  <2>2. /\ Len(files) \in Nat /\ Snapshot!Files = 1..Len(files)
        /\ file \in Nat /\ file \notin Snapshot!Files
    BY <1>1 DEF Snapshot!TypeOK, Snapshot!Files
  <2>3. /\ files' = Append(files, blank)
        /\ at' = [at EXCEPT ![t] = [step |-> "create", file |-> file, tmp |-> name]]
        /\ dir' = [dir EXCEPT ![name] = file]
        /\ kept' = [kept EXCEPT ![name] = @ \cup {file}]
    BY <1>4 DEF Snapshot!Opened, Snapshot!Bind
  <2>4. /\ Snapshot!Files' = Snapshot!Files \cup {file}
        /\ \A i \in Snapshot!Files : files'[i] = files[i]
        /\ files' \in Seq([holds : Snapshot!Extent, disk : SUBSET Snapshot!Extent])
    BY <1>1, <2>2, <2>3 DEF Snapshot!TypeOK, Snapshot!Files, Snapshot!Extent
  <2>5. /\ at'[t] = [step |-> "create", file |-> file, tmp |-> name]
        /\ \A u \in Threads \ {t} : at'[u] = at[u]
        /\ dir'[name] = file /\ \A m \in Snapshot!Names \ {name} : dir'[m] = dir[m]
        /\ kept'[Snapshot!Target] = kept[Snapshot!Target]
        /\ dir'[Snapshot!Target] = dir[Snapshot!Target]
    BY <1>1, <2>1, <2>3 DEF Snapshot!TypeOK, Snapshot!Names
  <2>6. Snapshot!TypeOK'
    <3>1. renamed' \in Seq(Snapshot!Files \cup {file}) /\ saved' \in 0..Len(renamed')
      BY <1>1, <1>2 DEF Snapshot!TypeOK
    <3>2. at' \in [Threads -> [step : Snapshot!Unfinished \cup {"idle", "renamed"},
                             file : (Snapshot!Files \cup {file}) \cup {None},
                             tmp : Snapshot!Names \cup {None}]]
      BY <1>1, <2>1, <2>3 DEF Snapshot!TypeOK, Snapshot!Unfinished
    <3>3. /\ dir' \in [Snapshot!Names -> (Snapshot!Files \cup {file}) \cup {None}]
          /\ kept' \in [Snapshot!Names -> SUBSET ((Snapshot!Files \cup {file}) \cup {None})]
          /\ reading' \in (Snapshot!Files \cup {file}) \cup {None}
      BY <1>1, <1>2, <2>1, <2>3 DEF Snapshot!TypeOK
    <3> QED
      BY <1>2, <2>4, <3>1, <3>2, <3>3 DEF Snapshot!TypeOK
  <2>7. \A i \in Snapshot!Range(renamed) : i \in Snapshot!Files
    BY <1>1 DEF Snapshot!TypeOK, Snapshot!Range
  <2>8. Snapshot!PathInv'
    <3>1. \A m \in Snapshot!Names : dir'[m] \in kept'[m]
      BY <1>1, <2>1, <2>3 DEF Snapshot!PathInv, Snapshot!TypeOK
    <3>2. ASSUME NEW f \in (kept'[Snapshot!Target] \cup {reading'}) \ {None}
          PROVE  f \in Snapshot!Range(renamed') /\ files'[f] = [holds |-> "whole", disk |-> {"whole"}]
      <4>1. f \in (kept[Snapshot!Target] \cup {reading}) \ {None}
        BY <1>2, <2>5
      <4>2. f \in Snapshot!Range(renamed) /\ files[f] = [holds |-> "whole", disk |-> {"whole"}]
        BY <1>1, <4>1 DEF Snapshot!PathInv, Snapshot!Whole
      <4> QED
        BY <1>2, <2>4, <2>7, <4>2
    <3>3. /\ \A i, j \in DOMAIN renamed' : renamed'[i] = renamed'[j] => i = j
          /\ saved' > 0 => \A f \in kept'[Snapshot!Target] :
                             \E i \in saved'..Len(renamed') : renamed'[i] = f
      BY <1>1, <1>2, <2>5 DEF Snapshot!PathInv
    <3> QED
      BY <3>1, <3>2, <3>3 DEF Snapshot!PathInv, Snapshot!Whole
  <2>9. ASSUME NEW u \in Threads PROVE Snapshot!SaverInv(u)'
    <3>0. \A v \in Threads : at[v].step \in Snapshot!Unfinished => at[v].file \in Snapshot!Files
      BY <1>1 DEF Snapshot!SaverInv
    <3>1. CASE u = t
      <4>1. /\ at'[u].step = "create" /\ at'[u].file = file /\ at'[u].tmp = name
            /\ \A v \in Threads \ {u} : at'[v] = at[v]
        BY <2>5, <3>1
      <4>2. file \notin Snapshot!Range(renamed')
        BY <1>2, <2>2, <2>7
      <4>3. \A v \in Threads \ {u} : at'[v].step \in Snapshot!Unfinished => at'[v].file # file
        BY <2>2, <3>0, <4>1
      <4> QED
        BY <2>1, <2>4, <2>5, <4>1, <4>2, <4>3 DEF Snapshot!SaverInv
    <3>2. CASE u # t
      <4>1. Snapshot!SaverInv(u) /\ at'[u] = at[u]
        BY <1>1, <2>5, <3>2
      <4>2. ASSUME at[u].step \in Snapshot!Unfinished
            PROVE  /\ at[u].file \in Snapshot!Files' /\ at[u].file \notin Snapshot!Range(renamed')
                   /\ at[u].tmp \in Snapshot!Names \ {Snapshot!Target}
                   /\ dir'[at[u].tmp] = at[u].file
                   /\ \A v \in Threads \ {u} :
                        at'[v].step \in Snapshot!Unfinished => at'[v].file # at[u].file
        <5>1. /\ at[u].file \in Snapshot!Files /\ at[u].file \notin Snapshot!Range(renamed)
              /\ at[u].tmp \in Snapshot!Names \ {Snapshot!Target}
              /\ dir[at[u].tmp] = at[u].file
              /\ \A v \in Threads \ {u} :
                   at[v].step \in Snapshot!Unfinished => at[v].file # at[u].file
          BY <4>1, <4>2 DEF Snapshot!SaverInv
        <5>2. at[u].tmp # name
          BY <1>4, <2>2, <5>1, SaveParameters
        <5>3. dir'[at[u].tmp] = at[u].file
          BY <2>5, <5>1, <5>2
        <5>4. ASSUME NEW v \in Threads \ {u}, at'[v].step \in Snapshot!Unfinished
              PROVE  at'[v].file # at[u].file
          <6>1. CASE v = t
            BY <2>2, <2>5, <5>1, <6>1
          <6>2. CASE v # t
            BY <2>5, <5>1, <5>4, <6>2
          <6> QED
            BY <6>1, <6>2
        <5> QED
          BY <1>2, <2>4, <5>1, <5>3, <5>4
      <4>3. /\ at[u].step = "written" => files'[at[u].file].holds = "whole"
            /\ at[u].step = "synced"
                 => files'[at[u].file] = [holds |-> "whole", disk |-> {"whole"}]
        BY <2>4, <3>0, <4>1 DEF Snapshot!SaverInv, Snapshot!Unfinished, Snapshot!Whole
      <4>4. at[u].step = "renamed" => /\ at[u].file \in Snapshot!Range(renamed')
                                     /\ dir'[Snapshot!Target] = renamed'[Len(renamed')]
        BY <1>2, <2>5, <4>1 DEF Snapshot!SaverInv
      <4> QED
        BY <4>1, <4>2, <4>3, <4>4 DEF Snapshot!SaverInv, Snapshot!Whole
    <3> QED
      BY <3>1, <3>2
  <2> QED
    BY <2>6, <2>8, <2>9 DEF Snapshot!SaveInv
<1> QED
  BY <1>3, <1>4 DEF Snapshot!Create

\* What is moved is the saver's own file, whole and on disk, and it is moved once.
LEMMA RenameStep ==
  ASSUME Snapshot!SaveInv, NEW t \in Threads, Snapshot!Rename(t)
  PROVE  Snapshot!SaveInv'
<1> DEFINE file == at[t].file
           tmp == at[t].tmp
<1>1. /\ Snapshot!TypeOK /\ Snapshot!PathInv /\ \A u \in Threads : Snapshot!SaverInv(u)
  BY DEF Snapshot!SaveInv
<1>2. /\ at[t].step = "synced" /\ at' = [at EXCEPT ![t].step = "renamed"]
      /\ UNCHANGED <<seq, files, reading, saved>>
  BY DEF Snapshot!Rename, Snapshot!Then
<1>3. /\ file \in Snapshot!Files /\ tmp \in Snapshot!Names \ {Snapshot!Target}
      /\ dir[tmp] = file /\ file \notin Snapshot!Range(renamed) /\ Snapshot!Whole(file)
      /\ \A u \in Threads \ {t} : at[u].step \in Snapshot!Unfinished => at[u].file # file
  BY <1>1, <1>2 DEF Snapshot!SaverInv, Snapshot!Unfinished
<1>4. /\ dir' = [dir EXCEPT ![Snapshot!Target] = file, ![tmp] = None]
      /\ kept' = [kept EXCEPT ![Snapshot!Target] = @ \cup {file}, ![tmp] = @ \cup {None}]
      /\ renamed' = Append(renamed, file)
  BY <1>3 DEF Snapshot!Rename
<1>5. /\ Snapshot!Target \in Snapshot!Names
      /\ dir'[Snapshot!Target] = file /\ kept'[Snapshot!Target] = kept[Snapshot!Target] \cup {file}
      /\ dir'[tmp] = None /\ kept'[tmp] = kept[tmp] \cup {None}
      /\ \A m \in Snapshot!Names \ {Snapshot!Target, tmp} : dir'[m] = dir[m] /\ kept'[m] = kept[m]
  BY <1>1, <1>3, <1>4 DEF Snapshot!TypeOK, Snapshot!Names
<1>6. /\ renamed \in Seq(Snapshot!Files) /\ Len(renamed) \in Nat /\ Len(renamed') = Len(renamed) + 1
      /\ \A i \in 1..Len(renamed) : renamed'[i] = renamed[i]
      /\ renamed'[Len(renamed')] = file /\ renamed' \in Seq(Snapshot!Files)
      /\ DOMAIN renamed = 1..Len(renamed) /\ DOMAIN renamed' = 1..Len(renamed')
      /\ saved \in 0..Len(renamed)
  BY <1>1, <1>3, <1>4 DEF Snapshot!TypeOK
<1>7. Snapshot!Range(renamed') = Snapshot!Range(renamed) \cup {file}
  <2>1. \A i \in DOMAIN renamed' : i \in DOMAIN renamed \/ i = Len(renamed')
    BY <1>6
  <2>2. DOMAIN renamed \subseteq DOMAIN renamed' /\ Len(renamed') \in DOMAIN renamed'
    BY <1>6
  <2> QED
    BY <1>6, <2>1, <2>2 DEF Snapshot!Range
<1>8. /\ at'[t].step = "renamed" /\ at'[t].file = file
      /\ \A u \in Threads \ {t} : at'[u] = at[u]
      /\ at' \in [Threads -> [step : Snapshot!Unfinished \cup {"idle", "renamed"},
                             file : Snapshot!Files \cup {None},
                             tmp : Snapshot!Names \cup {None}]]
  BY <1>1, <1>2 DEF Snapshot!TypeOK
<1>9. Snapshot!TypeOK'
  <2>1. dir' \in [Snapshot!Names -> Snapshot!Files \cup {None}]
    BY <1>1, <1>3, <1>4 DEF Snapshot!TypeOK
  <2>2. kept' \in [Snapshot!Names -> SUBSET (Snapshot!Files \cup {None})]
    BY <1>1, <1>3, <1>4 DEF Snapshot!TypeOK
  <2>3. saved' \in 0..Len(renamed') /\ Snapshot!Files' = Snapshot!Files
    BY <1>2, <1>6 DEF Snapshot!Files
  <2> QED
    BY <1>1, <1>2, <1>6, <1>8, <2>1, <2>2, <2>3 DEF Snapshot!TypeOK
<1>10. Snapshot!PathInv'
  <2>1. \A m \in Snapshot!Names : dir'[m] \in kept'[m]
    BY <1>1, <1>5 DEF Snapshot!PathInv
  <2>2. \A f \in (kept'[Snapshot!Target] \cup {reading'}) \ {None} :
          f \in Snapshot!Range(renamed') /\ files'[f] = [holds |-> "whole", disk |-> {"whole"}]
    BY <1>1, <1>2, <1>3, <1>5, <1>7 DEF Snapshot!PathInv, Snapshot!Whole
  <2>3. ASSUME NEW i \in DOMAIN renamed', NEW j \in DOMAIN renamed', renamed'[i] = renamed'[j]
        PROVE  i = j
    <3>1. \A k \in DOMAIN renamed' : \/ k \in DOMAIN renamed /\ renamed'[k] = renamed[k]
                                     \/ k = Len(renamed') /\ renamed'[k] = file
      BY <1>6
    <3>2. \A k \in DOMAIN renamed : renamed[k] # file
      BY <1>3 DEF Snapshot!Range
    <3> QED
      BY <1>1, <2>3, <3>1, <3>2 DEF Snapshot!PathInv
  <2>4. ASSUME saved' > 0, NEW f \in kept'[Snapshot!Target]
        PROVE  \E i \in saved'..Len(renamed') : renamed'[i] = f
    <3>1. CASE f = file
      BY <1>2, <1>6, <3>1
    <3>2. CASE f # file
      <4>1. PICK i \in saved..Len(renamed) : renamed[i] = f
        BY <1>1, <1>2, <1>5, <2>4, <3>2 DEF Snapshot!PathInv
      <4> QED
        BY <1>2, <1>6, <2>4, <4>1
    <3> QED
      BY <3>1, <3>2
  <2> QED
    BY <2>1, <2>2, <2>3, <2>4 DEF Snapshot!PathInv, Snapshot!Whole
<1>11. ASSUME NEW u \in Threads PROVE Snapshot!SaverInv(u)'
  <2>1. CASE u = t
    BY <1>5, <1>6, <1>7, <1>8, <2>1 DEF Snapshot!SaverInv, Snapshot!Unfinished
  <2>2. CASE u # t
    <3>1. Snapshot!SaverInv(u) /\ at'[u] = at[u]
      BY <1>1, <1>8, <2>2
    <3>2. ASSUME at[u].step \in Snapshot!Unfinished
          PROVE  /\ at[u].file \in Snapshot!Files' /\ at[u].file \notin Snapshot!Range(renamed')
                 /\ at[u].tmp \in Snapshot!Names \ {Snapshot!Target}
                 /\ dir'[at[u].tmp] = at[u].file
                 /\ \A v \in Threads \ {u} :
                      at'[v].step \in Snapshot!Unfinished => at'[v].file # at[u].file
      <4>1. /\ at[u].file \in Snapshot!Files /\ at[u].file \notin Snapshot!Range(renamed)
            /\ at[u].tmp \in Snapshot!Names \ {Snapshot!Target}
            /\ dir[at[u].tmp] = at[u].file /\ at[u].file # file
            /\ \A v \in Threads \ {u} :
                 at[v].step \in Snapshot!Unfinished => at[v].file # at[u].file
        BY <1>3, <2>2, <3>1, <3>2 DEF Snapshot!SaverInv
      <4>2. at[u].tmp # tmp
        BY <1>3, <4>1
      <4>3. ASSUME NEW v \in Threads \ {u}, at'[v].step \in Snapshot!Unfinished
            PROVE  at'[v].file # at[u].file
        <5>1. CASE v = t
          BY <1>8, <4>1, <5>1
        <5>2. CASE v # t
          BY <1>8, <4>1, <4>3, <5>2
        <5> QED
          BY <5>1, <5>2
      <4>4. Snapshot!Files' = Snapshot!Files
        BY <1>2 DEF Snapshot!Files
      <4> QED
        BY <1>5, <1>7, <4>1, <4>2, <4>3, <4>4
    <3>3. at[u].step = "renamed" => at[u].file \in Snapshot!Range(renamed')
      BY <1>7, <3>1 DEF Snapshot!SaverInv
    <3>4. /\ at[u].step = "written" => files'[at[u].file].holds = "whole"
          /\ at[u].step = "synced" => Snapshot!Whole(at[u].file)
      BY <1>2, <3>1 DEF Snapshot!SaverInv
    <3> QED
      BY <1>2, <1>5, <1>6, <3>1, <3>2, <3>3, <3>4 DEF Snapshot!SaverInv, Snapshot!Whole
  <2> QED
    BY <2>1, <2>2
<1> QED
  BY <1>9, <1>10, <1>11 DEF Snapshot!SaveInv

\* What the directory is synced with is the file moved last.
LEMMA SyncParentStep ==
  ASSUME Snapshot!SaveInv, NEW t \in Threads, Snapshot!SyncParent(t)
  PROVE  Snapshot!SaveInv'
<1>1. /\ Snapshot!TypeOK /\ Snapshot!PathInv /\ \A u \in Threads : Snapshot!SaverInv(u)
  BY DEF Snapshot!SaveInv
<1>2. /\ at[t].step = "renamed" /\ at' = [at EXCEPT ![t] = Snapshot!Idle]
      /\ UNCHANGED <<seq, files, dir, reading, renamed>>
  BY DEF Snapshot!SyncParent
<1>3. CASE UNCHANGED <<kept, saved>>
  <2>1. at' = [u \in Threads |-> IF u \in {t} THEN Snapshot!Idle ELSE at[u]]
    BY <1>1, <1>2 DEF Snapshot!TypeOK
  <2>2. seq' \in [Processes -> Nat] /\ {t} \in SUBSET Threads
    BY <1>1, <1>2 DEF Snapshot!TypeOK
  <2> QED
    BY <1>2, <1>3, <2>1, <2>2, LeaveStep
<1>4. CASE /\ kept' = [m \in Snapshot!Names |-> {dir[m]}]
           /\ saved' = Snapshot!Max({saved, Snapshot!PlaceOf(at[t].file)})
  <2>1. /\ at[t].file \in Snapshot!Range(renamed)
        /\ dir[Snapshot!Target] = renamed[Len(renamed)]
    BY <1>1, <1>2 DEF Snapshot!SaverInv
  <2>2. Snapshot!PlaceOf(at[t].file) \in DOMAIN renamed
    BY <2>1 DEF Snapshot!PlaceOf, Snapshot!Range
  <2>3. /\ DOMAIN renamed = 1..Len(renamed) /\ Len(renamed) \in Nat
        /\ saved \in 0..Len(renamed)
    BY <1>1 DEF Snapshot!TypeOK
  <2>4. saved' \in 1..Len(renamed)
    <3>1. ASSUME NEW a \in 0..Len(renamed), NEW b \in 1..Len(renamed)
          PROVE  Snapshot!Max({a, b}) \in 1..Len(renamed)
      <4>1. Snapshot!Max({a, b}) = IF a >= b THEN a ELSE b
        BY <2>3 DEF Snapshot!Max
      <4> QED
        BY <2>3, <4>1
    <3> HIDE DEF Snapshot!PlaceOf
    <3> QED
      BY <1>4, <2>2, <2>3, <3>1
  <2>5. Snapshot!Target \in Snapshot!Names
    BY DEF Snapshot!Names
  <2>6. /\ kept'[Snapshot!Target] = {renamed[Len(renamed)]}
        /\ dir[Snapshot!Target] \in kept[Snapshot!Target]
    BY <1>1, <1>4, <2>1, <2>5 DEF Snapshot!PathInv
  <2>7. /\ at'[t] = Snapshot!Idle /\ \A u \in Threads \ {t} : at'[u] = at[u]
        /\ at' \in [Threads -> [step : Snapshot!Unfinished \cup {"idle", "renamed"},
                               file : Snapshot!Files \cup {None},
                               tmp : Snapshot!Names \cup {None}]]
    BY <1>1, <1>2 DEF Snapshot!TypeOK, Snapshot!Idle
  <2>8. Snapshot!TypeOK'
    BY <1>1, <1>2, <1>4, <2>3, <2>4, <2>7 DEF Snapshot!TypeOK, Snapshot!Files
  <2>9. Snapshot!PathInv'
    <3>1. \A f \in (kept'[Snapshot!Target] \cup {reading'}) \ {None} :
            f \in Snapshot!Range(renamed) /\ Snapshot!Whole(f)
      BY <1>1, <1>2, <2>1, <2>6 DEF Snapshot!PathInv
    <3>2. \A f \in kept'[Snapshot!Target] : \E i \in saved'..Len(renamed') : renamed'[i] = f
      BY <1>2, <2>3, <2>4, <2>6
    <3>3. \A m \in Snapshot!Names : dir'[m] \in kept'[m]
      BY <1>2, <1>4
    <3> QED
      BY <1>1, <1>2, <3>1, <3>2, <3>3 DEF Snapshot!PathInv, Snapshot!Whole, Snapshot!Range
  <2>10. ASSUME NEW u \in Threads PROVE Snapshot!SaverInv(u)'
    <3>1. CASE u = t
      BY <2>7, <3>1 DEF Snapshot!SaverInv, Snapshot!Idle, Snapshot!Unfinished
    <3>2. CASE u # t
      <4>1. Snapshot!SaverInv(u) /\ at'[u] = at[u]
        BY <1>1, <2>7, <3>2
      <4>2. \A v \in Threads : at'[v].step \in Snapshot!Unfinished => at'[v] = at[v]
        BY <2>7 DEF Snapshot!Idle, Snapshot!Unfinished
      <4> QED
        BY <1>2, <4>1, <4>2 DEF Snapshot!SaverInv, Snapshot!Whole, Snapshot!Range, Snapshot!Files
    <3> QED
      BY <3>1, <3>2
  <2> QED
    BY <2>8, <2>9, <2>10 DEF Snapshot!SaveInv
<1> QED
  BY <1>3, <1>4 DEF Snapshot!SyncParent

\* Whatever the disk says then is a file that was moved to the path, or nothing.
LEMMA PowerLossStep == Snapshot!SaveInv /\ Snapshot!PowerLoss => Snapshot!SaveInv'
<1> SUFFICES ASSUME Snapshot!SaveInv, Snapshot!PowerLoss PROVE Snapshot!SaveInv'
  OBVIOUS
<1>1. Snapshot!TypeOK /\ Snapshot!PathInv
  BY DEF Snapshot!SaveInv
<1>2. /\ seq' = [p \in Processes |-> 0] /\ at' = [t \in Threads |-> Snapshot!Idle]
      /\ reading' = None /\ UNCHANGED <<renamed, saved>>
  BY DEF Snapshot!PowerLoss
<1>3. PICK found \in [Snapshot!Names -> {None} \cup Snapshot!Files] :
        /\ \A m \in Snapshot!Names : found[m] \in kept[m]
        /\ dir' = found /\ kept' = [m \in Snapshot!Names |-> {found[m]}]
        /\ \E left \in [Snapshot!Files -> Snapshot!Extent] :
             /\ \A i \in Snapshot!Files :
                  left[i] \in IF i \in Snapshot!Range(found) THEN files[i].disk ELSE {"empty"}
             /\ files' = [i \in Snapshot!Files |-> [holds |-> left[i], disk |-> {left[i]}]]
  BY DEF Snapshot!PowerLoss, Snapshot!Files
<1>4. PICK left \in [Snapshot!Files -> Snapshot!Extent] :
        /\ \A i \in Snapshot!Files :
             left[i] \in IF i \in Snapshot!Range(found) THEN files[i].disk ELSE {"empty"}
        /\ files' = [i \in Snapshot!Files |-> [holds |-> left[i], disk |-> {left[i]}]]
  BY <1>3
<1>5. Snapshot!Target \in Snapshot!Names
  BY DEF Snapshot!Names
<1>6. /\ Snapshot!Files = 1..Len(files) /\ Len(files) \in Nat
  BY <1>1 DEF Snapshot!TypeOK, Snapshot!Files
<1>7. /\ files' \in Seq([holds : Snapshot!Extent, disk : SUBSET Snapshot!Extent])
      /\ Snapshot!Files' = Snapshot!Files
  <2>1. files' \in [1..Len(files) -> [holds : Snapshot!Extent, disk : SUBSET Snapshot!Extent]]
    BY <1>4, <1>6
  <2> QED
    BY <1>4, <1>6, <2>1 DEF Snapshot!Files
<1>8. Snapshot!TypeOK'
  <2>1. kept' \in [Snapshot!Names -> SUBSET (Snapshot!Files \cup {None})]
    BY <1>3
  <2>2. /\ seq' \in [Processes -> Nat] /\ dir' \in [Snapshot!Names -> Snapshot!Files \cup {None}]
        /\ at' \in [Threads -> [step : Snapshot!Unfinished \cup {"idle", "renamed"},
                               file : Snapshot!Files \cup {None},
                               tmp : Snapshot!Names \cup {None}]]
    BY <1>2, <1>3 DEF Snapshot!Idle
  <2> QED
    BY <1>1, <1>2, <1>7, <2>1, <2>2 DEF Snapshot!TypeOK
<1>9. Snapshot!PathInv'
  <2>1. kept'[Snapshot!Target] = {found[Snapshot!Target]}
        /\ found[Snapshot!Target] \in kept[Snapshot!Target]
    BY <1>3, <1>5
  <2>2. ASSUME NEW f \in (kept'[Snapshot!Target] \cup {reading'}) \ {None}
        PROVE  f \in Snapshot!Range(renamed) /\ files'[f] = [holds |-> "whole", disk |-> {"whole"}]
    <3>1. f = found[Snapshot!Target] /\ f \in kept[Snapshot!Target] \ {None} /\ f \in Snapshot!Files
      BY <1>2, <1>3, <1>5, <2>1
    <3>2. f \in Snapshot!Range(renamed) /\ files[f].disk = {"whole"}
      BY <1>1, <3>1 DEF Snapshot!PathInv, Snapshot!Whole
    <3>3. f \in Snapshot!Range(found)
      BY <1>3, <1>5, <3>1 DEF Snapshot!Range
    <3>4. left[f] = "whole"
      BY <1>4, <3>1, <3>2, <3>3
    <3> QED
      BY <1>4, <3>1, <3>2, <3>4
  <2>3. \A m \in Snapshot!Names : dir'[m] \in kept'[m]
    BY <1>3
  <2>4. saved' > 0 => \A f \in kept'[Snapshot!Target] :
                        \E i \in saved'..Len(renamed') : renamed'[i] = f
    BY <1>1, <1>2, <2>1 DEF Snapshot!PathInv
  <2> QED
    BY <1>1, <1>2, <2>2, <2>3, <2>4 DEF Snapshot!PathInv, Snapshot!Whole, Snapshot!Range
<1>10. \A t \in Threads : Snapshot!SaverInv(t)'
  BY <1>2 DEF Snapshot!SaverInv, Snapshot!Idle, Snapshot!Unfinished
<1> QED
  BY <1>8, <1>9, <1>10 DEF Snapshot!SaveInv

LEMMA SaveNext == Snapshot!SaveInv /\ [Snapshot!Next]_saveVars => Snapshot!SaveInv'
<1> SUFFICES ASSUME Snapshot!SaveInv, [Snapshot!Next]_saveVars PROVE Snapshot!SaveInv'
  OBVIOUS
<1>1. /\ Snapshot!TypeOK /\ Snapshot!PathInv /\ \A u \in Threads : Snapshot!SaverInv(u)
  BY DEF Snapshot!SaveInv
<1>0. \A f \in Snapshot!Files : /\ files[f] \in [holds : Snapshot!Extent, disk : SUBSET Snapshot!Extent]
                               /\ files[f].disk \in SUBSET Snapshot!Extent
  <2>1. /\ files \in Seq([holds : Snapshot!Extent, disk : SUBSET Snapshot!Extent])
        /\ Snapshot!Files = 1..Len(files)
    BY <1>1 DEF Snapshot!TypeOK, Snapshot!Files
  <2>2. ASSUME NEW f \in Snapshot!Files
        PROVE  files[f] \in [holds : Snapshot!Extent, disk : SUBSET Snapshot!Extent]
    BY <2>1, ElementOfSeq
  <2> QED
    BY <2>2
<1>2. CASE UNCHANGED saveVars
  <2>1. Snapshot!TypeOK' /\ Snapshot!PathInv'
    BY <1>1, <1>2 DEF saveVars, Snapshot!TypeOK, Snapshot!Files, Snapshot!PathInv,
                      Snapshot!Whole, Snapshot!Range
  <2>2. \A t \in Threads : Snapshot!SaverInv(t)'
    BY <1>1, <1>2 DEF saveVars, Snapshot!SaverInv, Snapshot!Files, Snapshot!Whole, Snapshot!Range
  <2> QED
    BY <2>1, <2>2 DEF Snapshot!SaveInv
<1>3. ASSUME NEW t \in Threads, Snapshot!Create(t) PROVE Snapshot!SaveInv'
  BY <1>3, CreateStep
<1>4. ASSUME NEW t \in Threads, Snapshot!Write(t) PROVE Snapshot!SaveInv'
  <2>1. UNCHANGED <<seq, dir, kept, reading, renamed, saved>>
    BY <1>4 DEF Snapshot!Write
  <2>2. at[t].step \in {"create", "write"} => files[at[t].file].disk \in SUBSET Snapshot!Extent
    <3>1. at[t].step \in {"create", "write"} => at[t].file \in Snapshot!Files
      BY <1>1 DEF Snapshot!SaverInv, Snapshot!Unfinished
    <3> QED
      BY <1>0, <3>1
  <2>3. CASE /\ Snapshot!Then(t, "create", "write")
             /\ files' = [files EXCEPT ![at[t].file] =
                  [holds |-> "part", disk |-> @.disk \cup {"part"}]]
    <3>1. PICK content : content = [holds |-> "part", disk |-> files[at[t].file].disk \cup {"part"}]
      OBVIOUS
    <3>2. files' = [files EXCEPT ![at[t].file] = content]
      BY <2>3, <3>1
    <3>3. content \in [holds : Snapshot!Extent, disk : SUBSET Snapshot!Extent]
      BY <2>2, <2>3, <3>1 DEF Snapshot!Extent, Snapshot!Then
    <3>4. /\ "write" \in Snapshot!Unfinished /\ at[t].step \in Snapshot!Unfinished
          /\ at' = [at EXCEPT ![t].step = "write"]
      BY <2>3 DEF Snapshot!Then, Snapshot!Unfinished
    <3> QED
      BY <2>1, <3>2, <3>3, <3>4, WriterStep
  <2>4. CASE /\ Snapshot!Then(t, "write", "written")
             /\ files' = [files EXCEPT ![at[t].file] =
                  [holds |-> "whole", disk |-> Snapshot!Extent]]
    <3>1. PICK content : content = [holds |-> "whole", disk |-> Snapshot!Extent]
      OBVIOUS
    <3>2. files' = [files EXCEPT ![at[t].file] = content] /\ content.holds = "whole"
      BY <2>4, <3>1
    <3>3. content \in [holds : Snapshot!Extent, disk : SUBSET Snapshot!Extent]
      BY <3>1 DEF Snapshot!Extent
    <3>4. /\ "written" \in Snapshot!Unfinished /\ at[t].step \in Snapshot!Unfinished
          /\ at' = [at EXCEPT ![t].step = "written"]
      BY <2>4 DEF Snapshot!Then, Snapshot!Unfinished
    <3> QED
      BY <2>1, <3>2, <3>3, <3>4, WriterStep
  <2> QED
    BY <1>4, <2>3, <2>4 DEF Snapshot!Write
<1>5. ASSUME NEW t \in Threads, Snapshot!SyncFile(t) PROVE Snapshot!SaveInv'
  <2>1. /\ at[t].step = "written" /\ at' = [at EXCEPT ![t].step = "synced"]
        /\ UNCHANGED <<seq, dir, kept, reading, renamed, saved>>
    BY <1>5 DEF Snapshot!SyncFile, Snapshot!Then
  <2>2. /\ "synced" \in Snapshot!Unfinished /\ at[t].step \in Snapshot!Unfinished
        /\ at[t].file \in Snapshot!Files /\ files[at[t].file].holds = "whole"
    BY <1>1, <2>1 DEF Snapshot!SaverInv, Snapshot!Unfinished
  <2>3. PICK content : content = [holds |-> "whole", disk |-> {"whole"}]
    OBVIOUS
  <2>4. files' = [files EXCEPT ![at[t].file] = content]
    <3>1. files[at[t].file] \in [holds : Snapshot!Extent, disk : SUBSET Snapshot!Extent]
      BY <1>0, <2>2
    <3>2. [files[at[t].file] EXCEPT !.disk = {"whole"}] = content
      BY <2>2, <2>3, <3>1
    <3> QED
      BY <1>5, <2>2, <3>2 DEF Snapshot!SyncFile
  <2>5. content \in [holds : Snapshot!Extent, disk : SUBSET Snapshot!Extent]
    BY <2>3 DEF Snapshot!Extent
  <2> QED
    BY <2>1, <2>2, <2>3, <2>4, <2>5, WriterStep
<1>6. ASSUME NEW t \in Threads, Snapshot!Rename(t) PROVE Snapshot!SaveInv'
  BY <1>6, RenameStep
<1>7. ASSUME NEW t \in Threads, Snapshot!Fail(t) PROVE Snapshot!SaveInv'
  <2>1. /\ at[t].step \in Snapshot!Unfinished /\ at' = [at EXCEPT ![t] = Snapshot!Idle]
        /\ Snapshot!Bind(at[t].tmp, None) \/ UNCHANGED <<dir, kept>>
        /\ UNCHANGED <<seq, files, reading, renamed, saved>>
    BY <1>7 DEF Snapshot!Fail, Snapshot!Unfinished
  <2>2. at' = [u \in Threads |-> IF u \in {t} THEN Snapshot!Idle ELSE at[u]]
    BY <1>1, <2>1 DEF Snapshot!TypeOK
  <2>3. seq' \in [Processes -> Nat] /\ {t} \in SUBSET Threads
    BY <1>1, <2>1 DEF Snapshot!TypeOK
  <2> QED
    BY <2>1, <2>2, <2>3, LeaveStep
<1>8. ASSUME NEW t \in Threads, Snapshot!SyncParent(t) PROVE Snapshot!SaveInv'
  BY <1>8, SyncParentStep
<1>9. CASE Snapshot!Open \/ Snapshot!Close
  <2>1. /\ UNCHANGED <<seq, at, files, dir, kept, renamed, saved>>
        /\ reading' = dir[Snapshot!Target] \/ reading' = None
    BY <1>9 DEF Snapshot!Open, Snapshot!Close
  <2>2. Snapshot!Target \in Snapshot!Names
    BY DEF Snapshot!Names
  <2>3. Snapshot!TypeOK'
    BY <1>1, <2>1, <2>2 DEF Snapshot!TypeOK, Snapshot!Files
  <2>4. Snapshot!PathInv'
    <3>1. reading' \in kept[Snapshot!Target] \cup {None}
      BY <1>1, <2>1, <2>2 DEF Snapshot!PathInv
    <3> QED
      BY <1>1, <2>1, <3>1 DEF Snapshot!PathInv, Snapshot!Whole, Snapshot!Range
  <2>5. \A t \in Threads : Snapshot!SaverInv(t)'
    BY <1>1, <2>1 DEF Snapshot!SaverInv, Snapshot!Files, Snapshot!Whole, Snapshot!Range
  <2> QED
    BY <2>3, <2>4, <2>5 DEF Snapshot!SaveInv
<1>10. ASSUME NEW p \in Processes, Snapshot!Crash(p) PROVE Snapshot!SaveInv'
  <2>1. PICK Gone \in SUBSET Threads : Gone = {t \in Threads : ProcessOf[t] = p}
    OBVIOUS
  <2>2. /\ at' = [u \in Threads |-> IF u \in Gone THEN Snapshot!Idle ELSE at[u]]
        /\ UNCHANGED <<files, dir, kept, reading, renamed, saved>>
    BY <1>10, <2>1 DEF Snapshot!Crash
  <2>3. seq' \in [Processes -> Nat]
    BY <1>1, <1>10 DEF Snapshot!Crash, Snapshot!TypeOK
  <2> QED
    BY <2>2, <2>3, LeaveStep
<1> QED
  BY <1>2, <1>3, <1>4, <1>5, <1>6, <1>7, <1>8, <1>9, <1>10, PowerLossStep DEF Snapshot!Next

\* Saves are atomic and last, for any number of threads and processes, whoever
\* dies or fails at whatever step and whenever the power goes, whatever pids are
\* given again.
THEOREM SavesAreAtomic == StreamsSpec => []SaveIsAtomicAndLasts
<1>1. StreamsInit => Snapshot!SaveInv
  BY SaveInit DEF StreamsInit
<1>2. Snapshot!SaveInv /\ [StreamsNext]_<<part, forestVars, wrapperVars, sketchVars,
                                         detectorVars, metricVars>> => Snapshot!SaveInv'
  BY SaveNext, PartsStep
<1>3. Snapshot!SaveInv => SaveIsAtomicAndLasts
  <2> SUFFICES ASSUME Snapshot!SaveInv PROVE Snapshot!SaveIsAtomicAndLasts
    BY DEF SaveIsAtomicAndLasts
  <2>1. Snapshot!PathInv /\ renamed \in Seq(Snapshot!Files) /\ saved \in 0..Len(renamed)
        /\ Snapshot!Files \subseteq Nat
    BY DEF Snapshot!SaveInv, Snapshot!TypeOK, Snapshot!Files
  <2>2. ASSUME saved > 0 PROVE None \notin kept[Snapshot!Target]
    <3>1. ASSUME NEW i \in saved..Len(renamed) PROVE renamed[i] \in Nat
      <4>1. i \in 1..Len(renamed)
        BY <2>1, <2>2
      <4> QED
        BY <2>1, <4>1, ElementOfSeq
    <3>2. \A f \in kept[Snapshot!Target] : \E i \in saved..Len(renamed) : renamed[i] = f
      BY <2>1, <2>2 DEF Snapshot!PathInv
    <3>3. \A f \in kept[Snapshot!Target] : f \in Nat
      BY <3>1, <3>2
    <3> QED
      BY <3>3, SaveParameters
  <2>3. \A file \in (kept[Snapshot!Target] \cup {reading}) \ {None} :
          files[file].holds = "whole" /\ files[file].disk = {"whole"}
    BY <2>1 DEF Snapshot!PathInv, Snapshot!Whole
  <2> QED
    BY <2>1, <2>2, <2>3 DEF Snapshot!SaveIsAtomicAndLasts, Snapshot!PathInv
<1> QED
  BY <1>1, <1>2, <1>3, PTL DEF StreamsSpec
------------------------------------------------------------------------------
(* The forest whose trees fail.                                             *)


LEMMA FailureParameters ==
  NumTrees \in Nat /\ SampleSize \in Nat /\ MaxSlots \in Nat /\ None \notin Nat
BY StreamsParameters DEF Failing!FailureAssumption

LEMMA FailingSets ==
  /\ \A S : Failing!IsFiniteSet(S) = IsFiniteSet(S)
  /\ \A S : Failing!Cardinality(S) = Cardinality(S)
  /\ \A f : Failing!SumFunction(f) = Sum(f)
<1>1. \A S : Failing!IsFiniteSet(S) = IsFiniteSet(S)
  BY DEF Failing!IsFiniteSet, IsFiniteSet
<1>2. \A S : Failing!Cardinality(S) = Cardinality(S)
  BY DEF Failing!Cardinality, Cardinality
<1>3. \A f : Failing!SumFunction(f) = Sum(f)
  BY DEF Failing!SumFunction, Failing!SumFunctionOnSet, Failing!FoldFunctionOnSet,
         Failing!MapThenFoldSet, Sum, FoldFunction, FoldFunctionOnSet, MapThenFoldSet
<1> QED
  BY <1>1, <1>2, <1>3

LEMMA TreesAndSlots ==
  /\ IsFiniteSet(Failing!Trees) /\ Cardinality(Failing!Trees) = NumTrees
  /\ IsFiniteSet(Failing!Slots)
<1>1. 1 \in Int /\ NumTrees \in Int /\ 0 \in Int /\ MaxSlots - 1 \in Int
  BY FailureParameters
<1>2. IsFiniteSet(1..NumTrees) /\ IsFiniteSet(0..MaxSlots-1)
  BY <1>1, FS_Interval
<1>3. Cardinality(1..NumTrees) = NumTrees
  BY <1>1, FS_Interval, FailureParameters
<1> QED
  BY <1>2, <1>3 DEF Failing!Trees, Failing!Slots

\* The trees that index a slot.
Holders(s) == {t \in Failing!Trees : s \in indexed[t]}

LEMMA HoldersCount ==
  \A s : /\ IsFiniteSet(Holders(s)) /\ Cardinality(Holders(s)) \in Nat
         /\ Cardinality(Holders(s)) = 0 <=> \A t \in Failing!Trees : s \notin indexed[t]
<1> SUFFICES ASSUME NEW s
    PROVE  /\ IsFiniteSet(Holders(s)) /\ Cardinality(Holders(s)) \in Nat
           /\ Cardinality(Holders(s)) = 0 <=> \A t \in Failing!Trees : s \notin indexed[t]
  OBVIOUS
<1>1. IsFiniteSet(Holders(s))
  <2>1. Holders(s) \subseteq Failing!Trees
    BY DEF Holders
  <2> QED
    BY <2>1, TreesAndSlots, FS_Subset
<1>2. Cardinality(Holders(s)) \in Nat /\ (Cardinality(Holders(s)) = 0 <=> Holders(s) = {})
  BY <1>1, FS_CardinalityType, FS_EmptySet
<1> QED
  BY <1>1, <1>2 DEF Holders

\* Another leaf index of one tree changes the counts of what it gains and loses.
LEMMA CountsFollow ==
  ASSUME indexed \in [Failing!Trees -> SUBSET Failing!Slots],
         NEW t \in Failing!Trees, NEW leaves \in SUBSET Failing!Slots,
         indexed' = [indexed EXCEPT ![t] = leaves], NEW s
  PROVE  Cardinality(Holders(s)') = Cardinality(Holders(s))
           + (IF s \in leaves THEN 1 ELSE 0) - (IF s \in indexed[t] THEN 1 ELSE 0)
<1>1. Holders(s)' = {u \in Failing!Trees \ {t} : s \in indexed[u]}
                      \cup (IF s \in leaves THEN {t} ELSE {})
  BY DEF Holders
<1>2. Holders(s) = {u \in Failing!Trees \ {t} : s \in indexed[u]}
                      \cup (IF s \in indexed[t] THEN {t} ELSE {})
  BY DEF Holders
<1> DEFINE others == {u \in Failing!Trees \ {t} : s \in indexed[u]}
<1>3. IsFiniteSet(others) /\ t \notin others
  <2>1. others \subseteq Failing!Trees
    OBVIOUS
  <2> QED
    BY <2>1, TreesAndSlots, FS_Subset
<1>4. Cardinality(others) \in Nat /\ Cardinality(others \cup {t}) = Cardinality(others) + 1
  BY <1>3, FS_CardinalityType, FS_AddElement
<1>5. Holders(s)' = (IF s \in leaves THEN others \cup {t} ELSE others)
  BY <1>1
<1>6. Holders(s) = (IF s \in indexed[t] THEN others \cup {t} ELSE others)
  BY <1>2
<1> HIDE DEF others
<1> QED
  BY <1>4, <1>5, <1>6

\* What the invariant says of the counts, in one place.
LEMMA FailureFacts ==
  ASSUME Failing!FailureInv
  PROVE  /\ Failing!TypeOK /\ Failing!FanOutInv /\ Failing!GhostInv /\ Failing!LossInv
         /\ \A s \in Failing!Slots :
              /\ refs[s] = Cardinality(Holders(s)) /\ refs[s] \in Nat
              /\ refs[s] = 0 <=> \A t \in Failing!Trees : s \notin indexed[t]
         /\ \A t \in Failing!Trees :
              /\ indexed[t] \in SUBSET Failing!Slots /\ entries[t] \in [Failing!Slots -> Nat]
              /\ \A s \in indexed[t] : s \in live /\ entries[t][s] > 0
              /\ IsFiniteSet(indexed[t]) /\ Cardinality(indexed[t]) \in Nat
              /\ Sum(entries[t]) \in Nat /\ Sum(entries[t]) <= SampleSize
         /\ \A s \in pending : s \in live /\ s \in Failing!Slots /\ refs[s] = 0
         /\ live \subseteq Failing!Slots
<1>1. /\ Failing!TypeOK /\ Failing!FanOutInv /\ Failing!GhostInv /\ Failing!LossInv
      /\ Failing!DamageIsContained
  BY DEF Failing!FailureInv
<1>2. ASSUME NEW s \in Failing!Slots
      PROVE  /\ refs[s] = Cardinality(Holders(s)) /\ refs[s] \in Nat
             /\ refs[s] = 0 <=> \A t \in Failing!Trees : s \notin indexed[t]
  <2>1. refs[s] = Cardinality(Holders(s))
    BY <1>1, FailingSets DEF Failing!DamageIsContained, Holders
  <2> QED
    BY <2>1, HoldersCount
<1>3. ASSUME NEW t \in Failing!Trees
      PROVE  /\ indexed[t] \in SUBSET Failing!Slots /\ entries[t] \in [Failing!Slots -> Nat]
             /\ \A s \in indexed[t] : s \in live /\ entries[t][s] > 0
             /\ IsFiniteSet(indexed[t]) /\ Cardinality(indexed[t]) \in Nat
             /\ Sum(entries[t]) \in Nat /\ Sum(entries[t]) <= SampleSize
  <2>1. indexed[t] \in SUBSET Failing!Slots /\ entries[t] \in [Failing!Slots -> Nat]
    BY <1>1 DEF Failing!TypeOK
  <2>2. IsFiniteSet(indexed[t]) /\ Cardinality(indexed[t]) \in Nat
    BY <2>1, TreesAndSlots, FS_Subset, FS_CardinalityType
  <2>3. Sum(entries[t]) \in Nat
    BY <2>1, TreesAndSlots, SumOfNats
  <2>4. (\A s \in indexed[t] : s \in live /\ entries[t][s] > 0) /\ Sum(entries[t]) <= SampleSize
    BY <1>1, FailingSets DEF Failing!DamageIsContained, Failing!Held
  <2> QED
    BY <2>1, <2>2, <2>3, <2>4
<1>4. \A s \in pending : s \in live /\ s \in Failing!Slots /\ refs[s] = 0
  BY <1>1 DEF Failing!DamageIsContained, Failing!TypeOK
<1>5. live \subseteq Failing!Slots
  BY <1>1, FailureParameters DEF Failing!TypeOK, Failing!Slots
<1> QED
  BY <1>1, <1>2, <1>3, <1>4, <1>5

\* What there is to show of a step.
Contained ==
  /\ Failing!TypeOK /\ Failing!FanOutInv /\ Failing!GhostInv /\ Failing!LossInv
  /\ \A s \in Failing!Slots : refs[s] = Cardinality(Holders(s))
  /\ \A t \in Failing!Trees :
       /\ \A s \in indexed[t] : s \in live /\ entries[t][s] > 0
       /\ Sum(entries[t]) <= SampleSize
  /\ \A s \in pending : s \in live /\ refs[s] = 0

LEMMA ContainedIsEnough == Contained => Failing!FailureInv
<1> SUFFICES ASSUME Contained PROVE Failing!FailureInv
  OBVIOUS
<1>0. Failing!TypeOK /\ Failing!FanOutInv /\ Failing!GhostInv /\ Failing!LossInv
  BY DEF Contained
<1>1. ASSUME job = "none"
      PROVE  /\ \A t \in Failing!Trees : Failing!Ghosts(t) <= errors
             /\ Failing!Cardinality(Failing!Lost) <= (NumTrees + 1) * errors
  <2>1. pending = {} /\ ~erred /\ Failing!Newcomer = {}
    BY <1>0, <1>1 DEF Failing!FanOutInv, Failing!Newcomer
  <2>2. Failing!Lost \ (pending \cup Failing!Newcomer) = Failing!Lost
    BY <2>1
  <2>3. \A t \in Failing!Trees : Failing!Ghosts(t) <= errors
    <3>1. errors + 0 = errors
      BY <1>0 DEF Failing!TypeOK
    <3> QED
      BY <1>0, <2>1, <3>1 DEF Failing!GhostInv
  <2> QED
    BY <1>0, <2>2, <2>3, FailingSets DEF Failing!LossInv
<1>2. Failing!DamageIsContained
  BY <1>1, FailingSets DEF Contained, Failing!DamageIsContained, Failing!Held, Holders
<1> QED
  BY <1>0, <1>2 DEF Failing!FailureInv

\* A tree's turn: it gives up one leaf at most, whose slot is to be freed if the
\* tree was the last to hold it, may take the newcomer, and if it loses an entry's
\* leaf, errs.
LEMMA VisitStep ==
  ASSUME Failing!FailureInv, NEW t \in waiting, job # "none",
         waiting' = waiting \ {t}, UNCHANGED <<live, capacity, job, newcomer, errors>>,
         NEW leaves \in SUBSET live, indexed' = [indexed EXCEPT ![t] = leaves],
         NEW bag \in [Failing!Slots -> Nat], entries' = [entries EXCEPT ![t] = bag],
         \A s \in leaves : bag[s] > 0,
         Sum(bag) <= SampleSize, erred' \in BOOLEAN, erred => erred',
         Sum(bag) - Cardinality(leaves)
           <= Sum(entries[t]) - Cardinality(indexed[t]) + (IF erred' THEN 1 ELSE 0),
         refs' \in [Failing!Slots -> Int],
         \A s \in Failing!Slots :
           refs'[s] = refs[s] + (IF s \in leaves THEN 1 ELSE 0)
                              - (IF s \in indexed[t] THEN 1 ELSE 0),
         leaves \ indexed[t] \subseteq Failing!Newcomer,
         NEW given, indexed[t] \ leaves \subseteq {given},
         job = "delete" => indexed[t] \ leaves \subseteq {newcomer},
         pending' = pending \cup {s \in indexed[t] \ leaves : refs[s] = 1}
  PROVE  Failing!FailureInv'
<1>0. /\ Failing!TypeOK /\ Failing!FanOutInv /\ Failing!GhostInv /\ Failing!LossInv
      /\ t \in Failing!Trees /\ live \subseteq Failing!Slots
  BY FailureFacts DEF Failing!TypeOK
<1>1. \A s \in Failing!Slots : /\ refs[s] = Cardinality(Holders(s)) /\ refs[s] \in Nat
                               /\ refs[s] = 0 <=> \A u \in Failing!Trees : s \notin indexed[u]
  BY FailureFacts
<1>2. \A u \in Failing!Trees :
        /\ indexed[u] \in SUBSET Failing!Slots /\ entries[u] \in [Failing!Slots -> Nat]
        /\ \A s \in indexed[u] : s \in live /\ entries[u][s] > 0
        /\ Sum(entries[u]) <= SampleSize
  BY FailureFacts
<1>3. \A s \in pending : s \in live /\ s \in Failing!Slots /\ refs[s] = 0 /\ s \notin indexed[t]
  BY <1>0, <1>1, FailureFacts
<1>4. /\ indexed'[t] = leaves /\ entries'[t] = bag
      /\ \A u \in Failing!Trees \ {t} : indexed'[u] = indexed[u] /\ entries'[u] = entries[u]
      /\ indexed' \in [Failing!Trees -> SUBSET Failing!Slots]
      /\ entries' \in [Failing!Trees -> [Failing!Slots -> Nat]]
  BY <1>0 DEF Failing!TypeOK
<1>5. Failing!Newcomer' = Failing!Newcomer
  BY DEF Failing!Newcomer
<1>6. \A s \in Failing!Newcomer : s \in live \ pending /\ s \notin indexed[t]
  BY <1>0 DEF Failing!Newcomer, Failing!FanOutInv
<1>7. ASSUME NEW s \in Failing!Slots PROVE refs'[s] \in Nat
  <2>1. refs[s] \in Nat /\ (s \in indexed[t] => refs[s] # 0)
    BY <1>0, <1>1
  <2> QED
    BY <2>1
<1>8. Failing!TypeOK'
  <2>1. refs' \in [Failing!Slots -> Nat]
    BY <1>7
  <2>2. pending' \subseteq Failing!Slots /\ waiting' \subseteq Failing!Trees
    BY <1>0, <1>2 DEF Failing!TypeOK
  <2> QED
    BY <1>0, <1>4, <2>1, <2>2 DEF Failing!TypeOK
<1>9. Failing!FanOutInv'
  <2>1. job = "update" => /\ newcomer \in live \ pending'
                          /\ \A u \in waiting' : newcomer \notin indexed'[u]
    <3>1. job = "update" => newcomer \in Failing!Newcomer
      BY DEF Failing!Newcomer
    <3> QED
      BY <1>0, <1>4, <1>6, <3>1 DEF Failing!FanOutInv, Failing!TypeOK
  <2>2. job = "delete" => pending' \subseteq {newcomer}
    BY <1>0 DEF Failing!FanOutInv
  <2>3. Cardinality(pending') + Cardinality(waiting') <= NumTrees
    <3>1. IsFiniteSet(pending) /\ IsFiniteSet(waiting)
      BY <1>0, TreesAndSlots, FS_Subset DEF Failing!TypeOK
    <3>2. /\ Cardinality(pending) \in Nat /\ Cardinality(waiting) \in Nat
          /\ Cardinality(pending) + Cardinality(waiting) <= NumTrees
      BY <1>0, <3>1, FS_CardinalityType, FailingSets DEF Failing!FanOutInv
    <3>3. Cardinality(waiting') = Cardinality(waiting) - 1
      BY <3>1, FS_RemoveElement
    <3>4. Cardinality(pending') \in Nat /\ Cardinality(pending') <= Cardinality(pending) + 1
      <4>1. /\ IsFiniteSet(pending \cup {given})
            /\ Cardinality(pending \cup {given}) \in Nat
            /\ Cardinality(pending \cup {given}) <= Cardinality(pending) + 1
        <5>1. IsFiniteSet(pending \cup {given})
          BY <3>1, FS_AddElement
        <5>2. Cardinality(pending \cup {given})
                = IF given \in pending THEN Cardinality(pending) ELSE Cardinality(pending) + 1
          BY <3>1, FS_AddElement
        <5> QED
          BY <3>2, <5>1, <5>2
      <4>2. pending' \in SUBSET (pending \cup {given})
        OBVIOUS
      <4>3. IsFiniteSet(pending') /\ Cardinality(pending') <= Cardinality(pending \cup {given})
        BY <4>1, <4>2, FS_Subset
      <4>4. Cardinality(pending') \in Nat
        BY <4>3, FS_CardinalityType
      <4> QED
        BY <3>2, <4>1, <4>3, <4>4
    <3> QED
      BY <3>2, <3>3, <3>4, FailureParameters
  <2>4. job' # "none" /\ (job' # "none" => newcomer' \in Failing!Slots)
    BY <1>0 DEF Failing!FanOutInv
  <2> QED
    BY <2>1, <2>2, <2>3, <2>4, FailingSets DEF Failing!FanOutInv
<1>10. Failing!GhostInv'
  <2>1. ASSUME NEW u \in Failing!Trees
        PROVE  Failing!Ghosts(u)' <= errors + (IF erred' /\ u \notin waiting' THEN 1 ELSE 0)
    <3>0. /\ Failing!Ghosts(u) = Sum(entries[u]) - Cardinality(indexed[u])
          /\ Failing!Ghosts(u)' = Sum(entries'[u]) - Cardinality(indexed'[u])
      BY FailingSets DEF Failing!Ghosts, Failing!Held
    <3>1. /\ Failing!Ghosts(u) <= errors + (IF erred /\ u \notin waiting THEN 1 ELSE 0)
          /\ errors \in Nat
      BY <1>0 DEF Failing!GhostInv, Failing!TypeOK
    <3>2. Sum(entries[u]) \in Nat /\ Cardinality(indexed[u]) \in Nat
      BY FailureFacts
    <3>3. CASE u = t
      <4>1. IsFiniteSet(leaves)
        BY <1>0, TreesAndSlots, FS_Subset
      <4>2. Cardinality(leaves) \in Nat /\ Sum(bag) \in Nat
        BY <4>1, FS_CardinalityType, TreesAndSlots, SumOfNats
      <4>3. Failing!Ghosts(u) <= errors /\ u \notin waiting'
        BY <3>1, <3>3
      <4>4. Failing!Ghosts(u)' <= Failing!Ghosts(u) + (IF erred' THEN 1 ELSE 0)
        BY <1>4, <3>0, <3>3
      <4>5. Failing!Ghosts(u) \in Int /\ Failing!Ghosts(u)' \in Int
        BY <1>4, <3>0, <3>2, <3>3, <4>2
      <4> HIDE DEF Failing!Ghosts
      <4> QED
        BY <3>1, <4>3, <4>4, <4>5
    <3>4. CASE u # t
      <4>1. Failing!Ghosts(u)' = Failing!Ghosts(u) /\ (u \in waiting <=> u \in waiting')
        BY <1>4, <3>0, <3>4
      <4>2. Failing!Ghosts(u) \in Int
        BY <3>0, <3>2
      <4> QED
        BY <3>1, <4>1, <4>2
    <3> QED
      BY <3>3, <3>4
  <2> QED
    BY <2>1 DEF Failing!GhostInv
<1>11. Failing!LossInv'
  <2> DEFINE Gone == Failing!Lost \ (pending \cup Failing!Newcomer)
             Gone1 == {s \in live : refs'[s] = 0} \ (pending' \cup Failing!Newcomer)
  <2>1. ASSUME NEW s \in Gone1 PROVE s \in Gone
    <3>1. s \in live /\ s \in Failing!Slots /\ refs'[s] = 0 /\ s \notin pending'
          /\ s \notin Failing!Newcomer /\ s \notin pending
      BY <1>0
    <3>2. s \in leaves => s \in indexed[t]
      BY <3>1
    <3>3. s \in indexed[t] => s \in leaves
      <4> SUFFICES ASSUME s \in indexed[t], s \notin leaves PROVE FALSE
        OBVIOUS
      <4>1. refs[s] = 1
        BY <1>1, <3>1
      <4> QED
        BY <3>1, <4>1
    <3>4. refs[s] = 0
      BY <1>1, <3>1, <3>2, <3>3
    <3> QED
      BY <3>1, <3>4 DEF Failing!Lost
  <2>2. IsFiniteSet(Gone)
    <3>1. Gone \subseteq Failing!Slots
      BY <1>0 DEF Failing!Lost
    <3> QED
      BY <3>1, TreesAndSlots, FS_Subset
  <2>3. Cardinality(Gone1) <= Cardinality(Gone) /\ IsFiniteSet(Gone1)
    <3>1. Gone1 \in SUBSET Gone
      BY <2>1
    <3> HIDE DEF Gone, Gone1
    <3> QED
      BY <2>2, <3>1, FS_Subset
  <2>4. Cardinality(Gone1) \in Nat /\ Cardinality(Gone) \in Nat
    BY <2>2, <2>3, FS_CardinalityType
  <2>5. Cardinality(Gone) <= (NumTrees + 1) * errors
    BY <1>0, FailingSets DEF Failing!LossInv
  <2>6. (NumTrees + 1) * errors \in Nat
    BY <1>0, FailureParameters DEF Failing!TypeOK
  <2>7. (Failing!Lost \ (pending \cup Failing!Newcomer))' = Gone1
    BY <1>5 DEF Failing!Lost
  <2>8. Cardinality(Gone1) <= (NumTrees + 1) * errors
    <3> HIDE DEF Gone, Gone1
    <3> QED
      BY <2>3, <2>4, <2>5, <2>6
  <2> QED
    BY <2>7, <2>8, FailingSets DEF Failing!LossInv
<1>12. ASSUME NEW s \in Failing!Slots PROVE refs'[s] = Cardinality(Holders(s)')
  <2>1. /\ indexed \in [Failing!Trees -> SUBSET Failing!Slots]
        /\ leaves \in SUBSET Failing!Slots
    BY <1>0 DEF Failing!TypeOK
  <2>2. Cardinality(Holders(s)') = Cardinality(Holders(s))
          + (IF s \in leaves THEN 1 ELSE 0) - (IF s \in indexed[t] THEN 1 ELSE 0)
    BY <1>0, <2>1, CountsFollow
  <2> QED
    BY <1>1, <2>2
<1>13. ASSUME NEW u \in Failing!Trees
       PROVE  /\ \A s \in indexed'[u] : s \in live /\ entries'[u][s] > 0
              /\ Sum(entries'[u]) <= SampleSize
  <2>1. CASE u = t
    BY <1>4, <2>1
  <2>2. CASE u # t
    BY <1>2, <1>4, <2>2
  <2> QED
    BY <2>1, <2>2
<1>14. ASSUME NEW s \in pending' PROVE s \in live /\ refs'[s] = 0
  <2>1. CASE s \in pending
    <3>1. s \notin leaves
      BY <1>3, <1>6, <2>1
    <3> QED
      BY <1>3, <2>1, <3>1
  <2>2. CASE s \notin pending
    <3>1. s \in indexed[t] \ leaves /\ refs[s] = 1 /\ s \in Failing!Slots /\ s \in live
      BY <1>0, <1>2, <2>2
    <3> QED
      BY <3>1
  <2> QED
    BY <2>1, <2>2
<1>15. (Contained => Failing!FailureInv)'
  BY ContainedIsEnough, PTL
<1> QED
  BY <1>8, <1>9, <1>10, <1>11, <1>12, <1>13, <1>14, <1>15 DEF Contained

\* A call begins: nobody holds the slot the newcomer is given.
LEMMA BeginStep ==
  ASSUME Failing!FailureInv, NEW s \in Failing!Slots,
         job = "none", job' \in {"update", "delete"}, newcomer' = s,
         waiting' = Failing!Trees, pending' = {}, erred' = FALSE,
         UNCHANGED <<refs, entries, indexed, errors>>,
         capacity' \in 0..MaxSlots, live' \subseteq 0..capacity'-1,
         live \subseteq live', job' = "delete" => live' = live,
         job' = "update" => s \notin live /\ live' = live \cup {s}
  PROVE  Failing!FailureInv'
<1>1. /\ Failing!TypeOK /\ Failing!FanOutInv /\ Failing!GhostInv /\ Failing!LossInv
  BY FailureFacts
<1>2. pending = {} /\ ~erred /\ Failing!Newcomer = {}
  BY <1>1 DEF Failing!FanOutInv, Failing!Newcomer
<1>3. Failing!TypeOK'
  BY <1>1 DEF Failing!TypeOK
<1>4. Failing!FanOutInv'
  <2>1. \A t \in Failing!Trees : \A r \in indexed[t] : r \in live
    BY FailureFacts
  <2>2. job' = "update" => /\ newcomer' \in live' \ pending'
                           /\ \A t \in waiting' : newcomer' \notin indexed'[t]
    BY <2>1
  <2>3. Cardinality(pending') + Cardinality(waiting') <= NumTrees
    BY TreesAndSlots, FS_EmptySet, FailureParameters
  <2> QED
    BY <2>2, <2>3, FailingSets DEF Failing!FanOutInv
<1>5. Failing!GhostInv'
  <2>1. ASSUME NEW t \in Failing!Trees
        PROVE  Failing!Ghosts(t)' <= errors' + (IF erred' /\ t \notin waiting' THEN 1 ELSE 0)
    <3>1. Failing!Ghosts(t)' = Failing!Ghosts(t)
      BY DEF Failing!Ghosts, Failing!Held
    <3>2. Failing!Ghosts(t) <= errors + 0
      BY <1>1, <1>2 DEF Failing!GhostInv
    <3> QED
      BY <3>1, <3>2
  <2> QED
    BY <2>1 DEF Failing!GhostInv
<1>6. Failing!LossInv'
  <2>1. (Failing!Lost \ (pending \cup Failing!Newcomer))' \in SUBSET Failing!Lost
    BY DEF Failing!Lost, Failing!Newcomer
  <2>2. Cardinality(Failing!Lost) <= (NumTrees + 1) * errors
    <3>1. Failing!Lost \ (pending \cup Failing!Newcomer) = Failing!Lost
      BY <1>2
    <3> QED
      BY <1>1, <3>1, FailingSets DEF Failing!LossInv
  <2>3. IsFiniteSet(Failing!Lost)
    <3>1. Failing!Lost \in SUBSET Failing!Slots
      BY FailureFacts DEF Failing!Lost
    <3> QED
      BY <3>1, TreesAndSlots, FS_Subset
  <2>4. /\ IsFiniteSet((Failing!Lost \ (pending \cup Failing!Newcomer))')
        /\ Cardinality((Failing!Lost \ (pending \cup Failing!Newcomer))')
             <= Cardinality(Failing!Lost)
    BY <2>1, <2>3, FS_Subset
  <2>5. /\ Cardinality((Failing!Lost \ (pending \cup Failing!Newcomer))') \in Nat
        /\ Cardinality(Failing!Lost) \in Nat /\ (NumTrees + 1) * errors \in Nat
    BY <1>1, <2>3, <2>4, FS_CardinalityType, FailureParameters DEF Failing!TypeOK
  <2>6. Cardinality((Failing!Lost \ (pending \cup Failing!Newcomer))') <= (NumTrees + 1) * errors
    BY <2>2, <2>4, <2>5
  <2> QED
    BY <2>6, FailingSets DEF Failing!LossInv
<1>7. /\ \A r \in Failing!Slots : refs'[r] = Cardinality(Holders(r)')
      /\ \A u \in Failing!Trees :
           /\ \A r \in indexed'[u] : r \in live' /\ entries'[u][r] > 0
           /\ Sum(entries'[u]) <= SampleSize
      /\ \A r \in pending' : r \in live' /\ refs'[r] = 0
  BY FailureFacts DEF Holders
<1>8. (Contained => Failing!FailureInv)'
  BY ContainedIsEnough, PTL
<1> QED
  BY <1>3, <1>4, <1>5, <1>6, <1>7, <1>8 DEF Contained

\* A call returns, in error only after a worker's: what was to be freed is freed
\* or forgotten.
LEMMA RestStep ==
  ASSUME Failing!FailureInv, job # "none", Failing!Rest,
         UNCHANGED <<capacity, refs, entries, indexed>>,
         \/ /\ ~erred /\ errors' = errors
            /\ live' = live \ (pending \cup {s \in {newcomer} : job = "update" /\ refs[s] = 0})
         \/ errors' = errors + 1 /\ live' = live
  PROVE  Failing!FailureInv'
<1>1. /\ Failing!TypeOK /\ Failing!FanOutInv /\ Failing!GhostInv /\ Failing!LossInv
  BY FailureFacts
<1>2. /\ job' = "none" /\ newcomer' = None /\ waiting' = {} /\ pending' = {} /\ erred' = FALSE
      /\ Failing!Newcomer' = {} /\ live' \subseteq live /\ errors' \in Nat /\ errors \in Nat
  BY <1>1 DEF Failing!Rest, Failing!Newcomer, Failing!TypeOK
<1>3. Failing!TypeOK'
  BY <1>1, <1>2 DEF Failing!TypeOK
<1>4. Failing!FanOutInv'
  <2>1. Cardinality(pending') + Cardinality(waiting') <= NumTrees
    BY <1>2, FS_EmptySet, FailureParameters
  <2> QED
    BY <1>2, <2>1, FailingSets DEF Failing!FanOutInv
<1>5. Failing!GhostInv'
  <2>1. ASSUME NEW t \in Failing!Trees PROVE Failing!Ghosts(t)' <= errors' + 0
    <3>1. Failing!Ghosts(t)' = Failing!Ghosts(t)
      BY DEF Failing!Ghosts, Failing!Held
    <3>2. Failing!Ghosts(t) <= errors + (IF erred /\ t \notin waiting THEN 1 ELSE 0)
      BY <1>1 DEF Failing!GhostInv
    <3>3. Failing!Ghosts(t) \in Int
      BY FailureFacts, FailingSets DEF Failing!Ghosts, Failing!Held
    <3> HIDE DEF Failing!Ghosts
    <3> QED
      BY <1>2, <3>1, <3>2, <3>3
  <2> QED
    BY <1>2, <2>1 DEF Failing!GhostInv
<1>6. Failing!LossInv'
  <2> DEFINE gone == Failing!Lost \ (pending \cup Failing!Newcomer)
             lost1 == {s \in live' : refs[s] = 0}
  <2>1. /\ IsFiniteSet(gone) /\ Cardinality(gone) \in Nat
        /\ Cardinality(gone) <= (NumTrees + 1) * errors
    <3>1. gone \in SUBSET Failing!Slots
      BY FailureFacts DEF Failing!Lost
    <3>2. IsFiniteSet(gone)
      BY <3>1, TreesAndSlots, FS_Subset
    <3> QED
      BY <1>1, <3>2, FS_CardinalityType, FailingSets DEF Failing!LossInv
  <2>2. (Failing!Lost \ (pending \cup Failing!Newcomer))' = lost1
    BY <1>2 DEF Failing!Lost
  <2>3. IsFiniteSet(lost1) /\ Cardinality(lost1) \in Nat
    <3>1. lost1 \in SUBSET Failing!Slots
      BY <1>2, FailureFacts
    <3>2. IsFiniteSet(lost1)
      BY <3>1, TreesAndSlots, FS_Subset
    <3> QED
      BY <3>2, FS_CardinalityType
  <2>4. Cardinality(lost1) <= (NumTrees + 1) * errors'
    <3>1. CASE /\ ~erred /\ errors' = errors
               /\ live' = live \ (pending \cup
                            {s \in {newcomer} : job = "update" /\ refs[s] = 0})
      <4>1. lost1 \in SUBSET gone
        BY <3>1 DEF Failing!Lost, Failing!Newcomer
      <4>2. Cardinality(lost1) <= Cardinality(gone)
        <5> HIDE DEF lost1, gone
        <5> QED
          BY <2>1, <4>1, FS_Subset
      <4>3. (NumTrees + 1) * errors \in Int
        BY <1>2, FailureParameters
      <4> HIDE DEF lost1, gone
      <4> QED
        BY <2>1, <2>3, <3>1, <4>2, <4>3
    <3>2. CASE errors' = errors + 1 /\ live' = live
      <4>1. lost1 \in SUBSET ((gone \cup pending) \cup {newcomer})
        BY <3>2 DEF Failing!Lost, Failing!Newcomer
      <4>2. /\ IsFiniteSet(pending) /\ Cardinality(pending) \in Nat
            /\ Cardinality(pending) <= NumTrees
        <5>1. IsFiniteSet(pending) /\ IsFiniteSet(waiting)
          BY <1>1, TreesAndSlots, FS_Subset DEF Failing!TypeOK
        <5>2. Cardinality(pending) \in Nat /\ Cardinality(waiting) \in Nat
          BY <5>1, FS_CardinalityType
        <5>3. Cardinality(pending) + Cardinality(waiting) <= NumTrees
          BY <1>1, FailingSets DEF Failing!FanOutInv
        <5> QED
          BY <5>1, <5>2, <5>3, FailureParameters
      <4>3. /\ IsFiniteSet(gone \cup pending) /\ Cardinality(gone \cup pending) \in Nat
            /\ Cardinality(gone \cup pending) <= Cardinality(gone) + Cardinality(pending)
        <5> HIDE DEF gone
        <5>1. /\ IsFiniteSet(gone \cup pending) /\ IsFiniteSet(gone \cap pending)
              /\ Cardinality(gone \cup pending)
                   = Cardinality(gone) + Cardinality(pending) - Cardinality(gone \cap pending)
          <6>1. IsFiniteSet(gone \cap pending)
            <7>1. gone \cap pending \in SUBSET pending
              OBVIOUS
            <7> QED
              BY <4>2, <7>1, FS_Subset
          <6> QED
            BY <2>1, <4>2, <6>1, FS_Union
        <5>2. Cardinality(gone \cap pending) \in Nat /\ Cardinality(gone \cup pending) \in Nat
          BY <5>1, FS_CardinalityType
        <5> QED
          BY <2>1, <4>2, <5>1, <5>2
      <4>4. Cardinality(lost1) <= Cardinality(gone \cup pending) + 1
        <5> HIDE DEF gone, lost1
        <5>1. /\ IsFiniteSet((gone \cup pending) \cup {newcomer})
              /\ Cardinality((gone \cup pending) \cup {newcomer})
                   = IF newcomer \in gone \cup pending THEN Cardinality(gone \cup pending)
                     ELSE Cardinality(gone \cup pending) + 1
          BY <4>3, FS_AddElement
        <5>2. Cardinality(lost1) <= Cardinality((gone \cup pending) \cup {newcomer})
          BY <4>1, <5>1, FS_Subset
        <5> QED
          BY <2>3, <4>3, <5>1, <5>2
      <4>5. /\ (NumTrees + 1) * errors' = (NumTrees + 1) * errors + (NumTrees + 1)
            /\ (NumTrees + 1) * errors \in Int
        BY <1>2, <3>2, FailureParameters
      <4> HIDE DEF lost1, gone
      <4> QED
        BY <2>1, <2>3, <4>2, <4>3, <4>4, <4>5, FailureParameters
    <3> QED
      BY <3>1, <3>2
  <2> QED
    BY <2>2, <2>4, FailingSets DEF Failing!LossInv
<1>7. /\ \A r \in Failing!Slots : refs'[r] = Cardinality(Holders(r)')
      /\ \A r \in pending' : r \in live' /\ refs'[r] = 0
  BY <1>2, FailureFacts DEF Holders
<1>8. ASSUME NEW u \in Failing!Trees
      PROVE  /\ \A r \in indexed'[u] : r \in live' /\ entries'[u][r] > 0
             /\ Sum(entries'[u]) <= SampleSize
  <2>1. /\ \A r \in indexed[u] : r \in live /\ entries[u][r] > 0 /\ r \in Failing!Slots
        /\ Sum(entries[u]) <= SampleSize
    BY FailureFacts
  <2>2. \A r \in indexed[u] : refs[r] # 0 /\ r \notin pending
    BY <2>1, FailureFacts
  <2> QED
    BY <2>1, <2>2
<1>9. (Contained => Failing!FailureInv)'
  BY ContainedIsEnough, PTL
<1> QED
  BY <1>3, <1>4, <1>5, <1>6, <1>7, <1>8, <1>9 DEF Contained

LEMMA FailureInit == Failing!Init => Failing!FailureInv
<1> SUFFICES ASSUME Failing!Init PROVE Failing!FailureInv
  OBVIOUS
<1>1. Failing!TypeOK
  <2>1. /\ refs \in [Failing!Slots -> Nat] /\ indexed \in [Failing!Trees -> SUBSET Failing!Slots]
        /\ entries \in [Failing!Trees -> [Failing!Slots -> Nat]]
    BY DEF Failing!Init
  <2>2. capacity \in 0..MaxSlots /\ live \subseteq 0..capacity-1 /\ errors \in Nat
    BY FailureParameters DEF Failing!Init
  <2> QED
    BY <2>1, <2>2 DEF Failing!Init, Failing!TypeOK
<1>2. ASSUME NEW t \in Failing!Trees
      PROVE  Sum(entries[t]) = 0 /\ Cardinality(indexed[t]) = 0 /\ indexed[t] = {}
  <2>1. entries[t] \in [Failing!Slots -> Nat] /\ \A s \in Failing!Slots : entries[t][s] = 0
    BY DEF Failing!Init
  <2>2. Sum(entries[t]) = 0
    BY <2>1, TreesAndSlots, SumOfNats
  <2> QED
    BY <2>2, FS_EmptySet DEF Failing!Init
<1>3. Failing!FanOutInv
  <2>1. Cardinality(pending) + Cardinality(waiting) <= NumTrees
    BY FS_EmptySet, FailureParameters DEF Failing!Init
  <2> QED
    BY <2>1, FailingSets DEF Failing!FanOutInv, Failing!Init
<1>4. Failing!GhostInv
  BY <1>2, FailingSets DEF Failing!GhostInv, Failing!Ghosts, Failing!Held, Failing!Init
<1>5. Failing!LossInv
  <2>1. Failing!Lost \ (pending \cup Failing!Newcomer) = {}
    BY DEF Failing!Lost, Failing!Init
  <2>2. errors = 0 /\ Cardinality({}) = 0 /\ (NumTrees + 1) * 0 = 0
    BY FS_EmptySet, FailureParameters DEF Failing!Init
  <2> QED
    BY <2>1, <2>2, FailingSets DEF Failing!LossInv
<1>6. /\ \A s \in Failing!Slots : refs[s] = Cardinality(Holders(s))
      /\ \A s \in pending : s \in live /\ refs[s] = 0
  <2>1. ASSUME NEW s \in Failing!Slots PROVE Cardinality(Holders(s)) = 0
    BY <1>2, HoldersCount
  <2> QED
    BY <2>1 DEF Failing!Init
<1> QED
  BY <1>1, <1>2, <1>3, <1>4, <1>5, <1>6, FailureParameters, ContainedIsEnough DEF Contained

\* What tree.add makes of the leaves a tree has left.
LEMMA LeafAdded ==
  ASSUME NEW t, NEW leaves, NEW count, Failing!AddLeaf(t, leaves, count)
  PROVE  \/ /\ indexed' = [indexed EXCEPT ![t] = leaves \cup {newcomer}]
            /\ refs' = [count EXCEPT ![newcomer] = @ + 1] /\ erred' = erred
         \/ indexed' = [indexed EXCEPT ![t] = leaves] /\ refs' = count /\ erred' = TRUE
BY DEF Failing!AddLeaf, Failing!Err

\* A tree that has nothing to do with the call.
LEMMA SkipStep ==
  ASSUME Failing!FailureInv, NEW t \in waiting, job # "none", waiting' = waiting \ {t},
         UNCHANGED <<live, capacity, refs, entries, indexed, job, newcomer, pending,
                     erred, errors>>
  PROVE  Failing!FailureInv'
<1>1. /\ Failing!TypeOK /\ t \in Failing!Trees
      /\ indexed[t] \in SUBSET live /\ entries[t] \in [Failing!Slots -> Nat]
      /\ \A s \in indexed[t] : entries[t][s] > 0
      /\ Sum(entries[t]) \in Nat /\ Sum(entries[t]) <= SampleSize
      /\ Cardinality(indexed[t]) \in Nat
  <2>1. Failing!TypeOK /\ t \in Failing!Trees
    BY FailureFacts DEF Failing!TypeOK
  <2> QED
    BY <2>1, FailureFacts
<1>2. PICK leaves \in SUBSET live : leaves = indexed[t]
  BY <1>1
<1>3. PICK bag \in [Failing!Slots -> Nat] : bag = entries[t]
  BY <1>1
<1>4. /\ indexed' = [indexed EXCEPT ![t] = leaves] /\ entries' = [entries EXCEPT ![t] = bag]
      /\ erred' \in BOOLEAN /\ refs' \in [Failing!Slots -> Int]
  BY <1>1, <1>2, <1>3 DEF Failing!TypeOK
<1>5. \A s \in Failing!Slots :
        refs'[s] = refs[s] + (IF s \in leaves THEN 1 ELSE 0) - (IF s \in indexed[t] THEN 1 ELSE 0)
  BY <1>2, <1>4
<1>6. Sum(bag) - Cardinality(leaves)
        <= Sum(entries[t]) - Cardinality(indexed[t]) + (IF erred' THEN 1 ELSE 0)
  BY <1>1, <1>2, <1>3
<1>7. /\ indexed[t] \ leaves = {} /\ leaves \ indexed[t] = {}
      /\ pending' = pending \cup {s \in indexed[t] \ leaves : refs[s] = 1}
  BY <1>2
<1>8. (\A s \in leaves : bag[s] > 0) /\ Sum(bag) <= SampleSize
  BY <1>1, <1>2, <1>3
<1> QED
  BY <1>4, <1>5, <1>6, <1>7, <1>8, VisitStep

LEMMA InsertStep ==
  ASSUME Failing!FailureInv, NEW t \in Failing!Trees, Failing!Insert(t)
  PROVE  Failing!FailureInv'
<1>1. /\ job = "update" /\ t \in waiting /\ waiting' = waiting \ {t}
      /\ Sum(entries[t]) < SampleSize
      /\ entries' = [entries EXCEPT ![t][newcomer] = @ + 1]
      /\ Failing!AddLeaf(t, indexed[t], refs)
      /\ UNCHANGED <<live, capacity, job, newcomer, pending, errors>>
  BY FailingSets DEF Failing!Insert, Failing!Visit, Failing!Held
<1>2. /\ Failing!TypeOK /\ newcomer \in live \ pending /\ newcomer \notin indexed[t]
      /\ newcomer \in Failing!Slots /\ newcomer \in Failing!Newcomer
  BY <1>1, FailureFacts DEF Failing!FanOutInv, Failing!Newcomer
<1>3. /\ indexed[t] \in SUBSET live /\ entries[t] \in [Failing!Slots -> Nat]
      /\ \A s \in indexed[t] : entries[t][s] > 0
      /\ Sum(entries[t]) \in Nat /\ IsFiniteSet(indexed[t]) /\ Cardinality(indexed[t]) \in Nat
  BY FailureFacts
<1>4. PICK bag \in [Failing!Slots -> Nat] : bag = [entries[t] EXCEPT ![newcomer] = @ + 1]
  <2>1. entries[t][newcomer] + 1 \in Nat
    BY <1>2, <1>3
  <2>2. [entries[t] EXCEPT ![newcomer] = @ + 1] \in [Failing!Slots -> Nat]
    BY <1>3, <2>1
  <2> QED
    BY <2>2
<1>5. entries' = [entries EXCEPT ![t] = bag]
  BY <1>1, <1>4
<1>6. Sum(bag) = Sum(entries[t]) + 1
  <2>1. /\ bag \in [Failing!Slots -> Int] /\ entries[t] \in [Failing!Slots -> Int]
        /\ bag[newcomer] = entries[t][newcomer] + 1
        /\ \A s \in Failing!Slots : s # newcomer => bag[s] = entries[t][s]
    BY <1>2, <1>3, <1>4
  <2>2. Sum(bag) = Sum(entries[t]) - entries[t][newcomer] + bag[newcomer]
    BY <1>2, <2>1, TreesAndSlots, SumUpdate
  <2> QED
    BY <1>2, <1>3, <2>1, <2>2
<1>7. /\ \A s \in indexed[t] \cup {newcomer} : bag[s] > 0
      /\ Sum(bag) <= SampleSize /\ job # "none" /\ job # "delete"
  BY <1>1, <1>2, <1>3, <1>4, <1>6, FailureParameters
<1>8. CASE /\ indexed' = [indexed EXCEPT ![t] = indexed[t] \cup {newcomer}]
           /\ refs' = [refs EXCEPT ![newcomer] = @ + 1] /\ erred' = erred
  <2>1. PICK leaves \in SUBSET live : leaves = indexed[t] \cup {newcomer}
    BY <1>2, <1>3
  <2>2. Cardinality(leaves) = Cardinality(indexed[t]) + 1
    BY <1>2, <1>3, <2>1, FS_AddElement
  <2>3. refs' \in [Failing!Slots -> Int] /\ erred' \in BOOLEAN
    BY <1>2, <1>8 DEF Failing!TypeOK
  <2>4. \A s \in Failing!Slots :
          refs'[s] = refs[s] + (IF s \in leaves THEN 1 ELSE 0) - (IF s \in indexed[t] THEN 1 ELSE 0)
    BY <1>2, <1>8, <2>1 DEF Failing!TypeOK
  <2>5. Sum(bag) - Cardinality(leaves)
          <= Sum(entries[t]) - Cardinality(indexed[t]) + (IF erred' THEN 1 ELSE 0)
    BY <1>3, <1>6, <2>2
  <2>6. /\ indexed[t] \ leaves = {} /\ leaves \ indexed[t] \subseteq Failing!Newcomer
        /\ pending' = pending \cup {s \in indexed[t] \ leaves : refs[s] = 1}
    BY <1>1, <1>2, <2>1
  <2>7. indexed' = [indexed EXCEPT ![t] = leaves] /\ \A s \in leaves : bag[s] > 0
    BY <1>7, <1>8, <2>1
  <2> QED
    BY <1>1, <1>5, <1>7, <1>8, <2>3, <2>4, <2>5, <2>6, <2>7, VisitStep
<1>9. CASE indexed' = [indexed EXCEPT ![t] = indexed[t]] /\ refs' = refs /\ erred' = TRUE
  <2>1. PICK leaves \in SUBSET live : leaves = indexed[t]
    BY <1>3
  <2>2. refs' \in [Failing!Slots -> Int] /\ erred' \in BOOLEAN
    BY <1>2, <1>9 DEF Failing!TypeOK
  <2>3. \A s \in Failing!Slots :
          refs'[s] = refs[s] + (IF s \in leaves THEN 1 ELSE 0) - (IF s \in indexed[t] THEN 1 ELSE 0)
    BY <1>2, <1>9, <2>1 DEF Failing!TypeOK
  <2>4. Sum(bag) - Cardinality(leaves)
          <= Sum(entries[t]) - Cardinality(indexed[t]) + (IF erred' THEN 1 ELSE 0)
    BY <1>3, <1>6, <1>9, <2>1
  <2>5. /\ indexed[t] \ leaves = {} /\ leaves \ indexed[t] = {}
        /\ pending' = pending \cup {s \in indexed[t] \ leaves : refs[s] = 1}
    BY <1>1, <2>1
  <2>6. indexed' = [indexed EXCEPT ![t] = leaves] /\ \A s \in leaves : bag[s] > 0
    BY <1>7, <1>9, <2>1
  <2> QED
    BY <1>1, <1>5, <1>7, <1>9, <2>2, <2>3, <2>4, <2>5, <2>6, VisitStep
<1> QED
  BY <1>1, <1>8, <1>9, LeafAdded

\* The evicted entry's leaf goes, if the tree has it; a ghost's does not exist.
LEMMA ReplaceStep ==
  ASSUME Failing!FailureInv, NEW t \in Failing!Trees, NEW e \in Failing!Slots,
         Failing!Replace(t, e)
  PROVE  Failing!FailureInv'
<1>1. /\ job = "update" /\ t \in waiting /\ waiting' = waiting \ {t} /\ entries[t][e] > 0
      /\ entries' = Failing!Swapped(t, e)
      /\ UNCHANGED <<live, capacity, job, newcomer, errors>>
  BY DEF Failing!Replace, Failing!Visit
<1>2. /\ Failing!TypeOK /\ newcomer \in live \ pending /\ newcomer \notin indexed[t]
      /\ newcomer \in Failing!Slots /\ newcomer \in Failing!Newcomer
  BY <1>1, FailureFacts DEF Failing!FanOutInv, Failing!Newcomer
<1>3. /\ indexed[t] \in SUBSET live /\ entries[t] \in [Failing!Slots -> Nat]
      /\ \A s \in indexed[t] : entries[t][s] > 0
      /\ Sum(entries[t]) \in Nat /\ Sum(entries[t]) <= SampleSize
      /\ IsFiniteSet(indexed[t]) /\ Cardinality(indexed[t]) \in Nat
  BY FailureFacts
<1>4. PICK mid \in [Failing!Slots -> Nat] : mid = [entries[t] EXCEPT ![e] = @ - 1]
  <2>1. entries[t][e] - 1 \in Nat
    BY <1>1, <1>3
  <2>2. [entries[t] EXCEPT ![e] = @ - 1] \in [Failing!Slots -> Nat]
    BY <1>3, <2>1
  <2> QED
    BY <2>2
<1>5. PICK bag \in [Failing!Slots -> Nat] : bag = [mid EXCEPT ![newcomer] = @ + 1]
  <2>1. mid[newcomer] + 1 \in Nat
    BY <1>2
  <2>2. [mid EXCEPT ![newcomer] = @ + 1] \in [Failing!Slots -> Nat]
    BY <2>1
  <2> QED
    BY <2>2
<1>6. entries' = [entries EXCEPT ![t] = bag]
  BY <1>1, <1>4, <1>5 DEF Failing!Swapped
<1>7. Sum(bag) = Sum(entries[t])
  <2>1. /\ mid \in [Failing!Slots -> Int] /\ entries[t] \in [Failing!Slots -> Int]
        /\ bag \in [Failing!Slots -> Int] /\ mid[e] = entries[t][e] - 1
        /\ \A s \in Failing!Slots : s # e => mid[s] = entries[t][s]
        /\ bag[newcomer] = mid[newcomer] + 1
        /\ \A s \in Failing!Slots : s # newcomer => bag[s] = mid[s]
    BY <1>2, <1>3, <1>4, <1>5
  <2>2. Sum(mid) = Sum(entries[t]) - entries[t][e] + mid[e]
    BY <2>1, TreesAndSlots, SumUpdate
  <2>3. Sum(bag) = Sum(mid) - mid[newcomer] + bag[newcomer]
    BY <1>2, <2>1, TreesAndSlots, SumUpdate
  <2>4. entries[t][e] \in Int /\ mid[newcomer] \in Int
    BY <1>2, <1>3
  <2>5. mid[e] = entries[t][e] - 1 /\ bag[newcomer] = mid[newcomer] + 1
    BY <2>1
  <2>6. Sum(mid) = Sum(entries[t]) - 1
    BY <1>3, <2>2, <2>4, <2>5
  <2> QED
    BY <1>3, <2>3, <2>4, <2>5, <2>6
<1>8. /\ \A s \in (indexed[t] \ {e}) \cup {newcomer} : bag[s] > 0
      /\ Sum(bag) <= SampleSize /\ job # "none" /\ job # "delete"
  <2>1. ASSUME NEW s \in indexed[t] \ {e} PROVE bag[s] > 0
    <3>1. s \in Failing!Slots /\ s # newcomer /\ entries[t][s] > 0
      BY <1>2, <1>3, FailureFacts
    <3> QED
      BY <1>2, <1>3, <1>4, <1>5, <3>1
  <2>2. bag[newcomer] > 0
    BY <1>2, <1>5
  <2> QED
    BY <1>1, <1>3, <1>7, <2>1, <2>2
<1>9. refs \in [Failing!Slots -> Nat]
  BY <1>2 DEF Failing!TypeOK
<1>10. CASE e \in indexed[t]
  <2>1. /\ pending' = IF refs[e] = 1 THEN pending \cup {e} ELSE pending
        /\ Failing!AddLeaf(t, indexed[t] \ {e}, Failing!Without(e)) /\ e # newcomer
    BY <1>2, <1>10 DEF Failing!Replace
  <2>2. Cardinality(indexed[t] \ {e}) = Cardinality(indexed[t]) - 1 /\ IsFiniteSet(indexed[t] \ {e})
    BY <1>3, <1>10, FS_RemoveElement
  <2>3. CASE /\ indexed' = [indexed EXCEPT ![t] = (indexed[t] \ {e}) \cup {newcomer}]
             /\ refs' = [Failing!Without(e) EXCEPT ![newcomer] = @ + 1] /\ erred' = erred
    <3>1. PICK leaves \in SUBSET live : leaves = (indexed[t] \ {e}) \cup {newcomer}
      BY <1>2, <1>3
    <3>2. Cardinality(leaves) = Cardinality(indexed[t])
      <4>1. Cardinality(leaves) = Cardinality(indexed[t] \ {e}) + 1
        BY <1>2, <2>2, <3>1, FS_AddElement
      <4> QED
        BY <1>3, <2>2, <4>1
    <3>3. refs' \in [Failing!Slots -> Int] /\ erred' \in BOOLEAN
      BY <1>2, <1>9, <2>3 DEF Failing!Without, Failing!TypeOK
    <3>4. \A s \in Failing!Slots :
            refs'[s] = refs[s] + (IF s \in leaves THEN 1 ELSE 0) - (IF s \in indexed[t] THEN 1 ELSE 0)
      BY <1>2, <1>9, <1>10, <2>1, <2>3, <3>1 DEF Failing!Without
    <3>5. Sum(bag) - Cardinality(leaves)
            <= Sum(entries[t]) - Cardinality(indexed[t]) + (IF erred' THEN 1 ELSE 0)
      BY <1>3, <1>7, <3>2
    <3>6. /\ indexed[t] \ leaves = {e} /\ leaves \ indexed[t] \subseteq Failing!Newcomer
          /\ pending' = pending \cup {s \in indexed[t] \ leaves : refs[s] = 1}
      BY <1>2, <1>10, <2>1, <3>1
    <3>7. indexed' = [indexed EXCEPT ![t] = leaves] /\ \A s \in leaves : bag[s] > 0
      BY <1>8, <2>3, <3>1
    <3>8. (erred => erred') /\ indexed[t] \ leaves \subseteq {e}
      BY <2>3, <3>6
    <3>9. pending' = pending \cup {s \in indexed[t] \ leaves : refs[s] = 1}
      BY <3>6
    <3> QED
      BY <1>1, <1>6, <1>8, <3>3, <3>4, <3>5, <3>6, <3>7, <3>8, <3>9, VisitStep
  <2>4. CASE /\ indexed' = [indexed EXCEPT ![t] = indexed[t] \ {e}]
             /\ refs' = Failing!Without(e) /\ erred' = TRUE
    <3>1. PICK leaves \in SUBSET live : leaves = indexed[t] \ {e}
      BY <1>3
    <3>2. refs' \in [Failing!Slots -> Int] /\ erred' \in BOOLEAN
      BY <1>9, <2>4 DEF Failing!Without
    <3>3. \A s \in Failing!Slots :
            refs'[s] = refs[s] + (IF s \in leaves THEN 1 ELSE 0) - (IF s \in indexed[t] THEN 1 ELSE 0)
      BY <1>9, <1>10, <2>4, <3>1 DEF Failing!Without
    <3>4. Sum(bag) - Cardinality(leaves)
            <= Sum(entries[t]) - Cardinality(indexed[t]) + (IF erred' THEN 1 ELSE 0)
      BY <1>3, <1>7, <2>2, <2>4, <3>1
    <3>5. /\ indexed[t] \ leaves = {e} /\ leaves \ indexed[t] = {}
          /\ pending' = pending \cup {s \in indexed[t] \ leaves : refs[s] = 1}
      BY <1>10, <2>1, <3>1
    <3>6. indexed' = [indexed EXCEPT ![t] = leaves] /\ \A s \in leaves : bag[s] > 0
      BY <1>8, <2>4, <3>1
    <3> QED
      BY <1>1, <1>6, <1>8, <2>4, <3>2, <3>3, <3>4, <3>5, <3>6, VisitStep
  <2> QED
    BY <2>1, <2>3, <2>4, LeafAdded
<1>11. CASE e \notin indexed[t]
  <2>1. erred' = TRUE /\ UNCHANGED <<refs, indexed, pending>>
    BY <1>11 DEF Failing!Replace, Failing!Err
  <2>2. PICK leaves \in SUBSET live : leaves = indexed[t]
    BY <1>3
  <2>3. /\ refs' \in [Failing!Slots -> Int] /\ erred' \in BOOLEAN
        /\ indexed' = [indexed EXCEPT ![t] = leaves]
    BY <1>2, <1>9, <2>1, <2>2 DEF Failing!TypeOK
  <2>4. \A s \in Failing!Slots :
          refs'[s] = refs[s] + (IF s \in leaves THEN 1 ELSE 0) - (IF s \in indexed[t] THEN 1 ELSE 0)
    BY <1>9, <2>1, <2>2
  <2>5. Sum(bag) - Cardinality(leaves)
          <= Sum(entries[t]) - Cardinality(indexed[t]) + (IF erred' THEN 1 ELSE 0)
    BY <1>3, <1>7, <2>1, <2>2
  <2>6. /\ indexed[t] \ leaves = {} /\ leaves \ indexed[t] = {}
        /\ pending' = pending \cup {s \in indexed[t] \ leaves : refs[s] = 1}
    BY <2>1, <2>2
  <2>7. \A s \in leaves : bag[s] > 0
    BY <1>8, <1>11, <2>2
  <2> QED
    BY <1>1, <1>6, <1>8, <2>1, <2>3, <2>4, <2>5, <2>6, <2>7, VisitStep
<1> QED
  BY <1>10, <1>11

LEMMA WithdrawStep ==
  ASSUME Failing!FailureInv, NEW t \in Failing!Trees, Failing!Withdraw(t)
  PROVE  Failing!FailureInv'
<1>1. /\ job = "delete" /\ t \in waiting /\ waiting' = waiting \ {t}
      /\ entries[t][newcomer] > 0
      /\ entries' = [entries EXCEPT ![t][newcomer] = 0]
      /\ UNCHANGED <<live, capacity, job, newcomer, errors>>
  BY DEF Failing!Withdraw, Failing!Visit
<1>2. /\ Failing!TypeOK /\ newcomer \in Failing!Slots /\ pending \subseteq {newcomer}
  BY <1>1, FailureFacts DEF Failing!FanOutInv
<1>3. /\ indexed[t] \in SUBSET live /\ entries[t] \in [Failing!Slots -> Nat]
      /\ \A s \in indexed[t] : entries[t][s] > 0 /\ s \in Failing!Slots
      /\ Sum(entries[t]) \in Nat /\ Sum(entries[t]) <= SampleSize
      /\ IsFiniteSet(indexed[t]) /\ Cardinality(indexed[t]) \in Nat
  BY FailureFacts
<1>4. PICK bag \in [Failing!Slots -> Nat] : bag = [entries[t] EXCEPT ![newcomer] = 0]
  BY <1>2, <1>3
<1>5. entries' = [entries EXCEPT ![t] = bag]
  BY <1>1, <1>4
<1>6. Sum(bag) = Sum(entries[t]) - entries[t][newcomer] /\ entries[t][newcomer] \in Nat
  <2>1. /\ bag \in [Failing!Slots -> Int] /\ entries[t] \in [Failing!Slots -> Int]
        /\ bag[newcomer] = 0
        /\ \A s \in Failing!Slots : s # newcomer => bag[s] = entries[t][s]
    BY <1>2, <1>3, <1>4
  <2>2. Sum(bag) = Sum(entries[t]) - entries[t][newcomer] + bag[newcomer]
    BY <1>2, <2>1, TreesAndSlots, SumUpdate
  <2> QED
    BY <1>2, <1>3, <2>1, <2>2
<1>7. /\ \A s \in indexed[t] \ {newcomer} : bag[s] > 0
      /\ Sum(bag) <= SampleSize /\ job # "none" /\ job # "update"
  <2>1. \A s \in indexed[t] \ {newcomer} : bag[s] > 0
    BY <1>2, <1>3, <1>4
  <2> QED
    BY <1>1, <1>3, <1>6, <2>1, FailureParameters
<1>8. refs \in [Failing!Slots -> Nat]
  BY <1>2 DEF Failing!TypeOK
<1>9. PICK leaves \in SUBSET live : leaves = indexed[t] \ {newcomer}
  BY <1>3
<1>10. /\ indexed[t] \ leaves \subseteq {newcomer} /\ leaves \ indexed[t] = {}
       /\ \A s \in leaves : bag[s] > 0
  BY <1>7, <1>9
<1>11. CASE newcomer \in indexed[t]
  <2>1. /\ indexed' = [indexed EXCEPT ![t] = @ \ {newcomer}] /\ erred' = erred
        /\ refs' = [refs EXCEPT ![newcomer] = @ - 1]
        /\ pending' = IF refs[newcomer] = 1 THEN {newcomer} ELSE pending
    BY <1>11 DEF Failing!Withdraw, Failing!Without
  <2>2. Cardinality(leaves) = Cardinality(indexed[t]) - 1
    BY <1>3, <1>9, <1>11, FS_RemoveElement
  <2>3. /\ refs' \in [Failing!Slots -> Int] /\ erred' \in BOOLEAN
        /\ indexed' = [indexed EXCEPT ![t] = leaves]
    BY <1>2, <1>8, <1>9, <2>1 DEF Failing!TypeOK
  <2>4. \A s \in Failing!Slots :
          refs'[s] = refs[s] + (IF s \in leaves THEN 1 ELSE 0) - (IF s \in indexed[t] THEN 1 ELSE 0)
    BY <1>2, <1>8, <1>9, <1>11, <2>1
  <2>5. Sum(bag) - Cardinality(leaves)
          <= Sum(entries[t]) - Cardinality(indexed[t]) + (IF erred' THEN 1 ELSE 0)
    BY <1>1, <1>3, <1>6, <2>2
  <2>6. pending' = pending \cup {s \in indexed[t] \ leaves : refs[s] = 1}
    <3>1. indexed[t] \ leaves = {newcomer}
      BY <1>9, <1>11
    <3> QED
      BY <1>2, <2>1, <3>1
  <2>7. erred => erred'
    BY <2>1
  <2> QED
    BY <1>1, <1>5, <1>7, <1>10, <2>3, <2>4, <2>5, <2>6, <2>7, VisitStep
<1>12. CASE newcomer \notin indexed[t]
  <2>1. erred' = TRUE /\ UNCHANGED <<indexed, refs, pending>> /\ leaves = indexed[t]
    BY <1>9, <1>12 DEF Failing!Withdraw, Failing!Err
  <2>2. /\ refs' \in [Failing!Slots -> Int] /\ erred' \in BOOLEAN
        /\ indexed' = [indexed EXCEPT ![t] = leaves]
    BY <1>2, <1>8, <2>1 DEF Failing!TypeOK
  <2>3. \A s \in Failing!Slots :
          refs'[s] = refs[s] + (IF s \in leaves THEN 1 ELSE 0) - (IF s \in indexed[t] THEN 1 ELSE 0)
    BY <1>8, <2>1
  <2>4. Sum(bag) - Cardinality(leaves)
          <= Sum(entries[t]) - Cardinality(indexed[t]) + (IF erred' THEN 1 ELSE 0)
    BY <1>1, <1>3, <1>6, <2>1
  <2>5. pending' = pending \cup {s \in indexed[t] \ leaves : refs[s] = 1}
    BY <2>1
  <2> QED
    BY <1>1, <1>5, <1>7, <1>10, <2>1, <2>2, <2>3, <2>4, <2>5, VisitStep
<1> QED
  BY <1>11, <1>12

LEMMA FailureNext == Failing!FailureInv /\ [Failing!Next]_failingVars => Failing!FailureInv'
<1> SUFFICES ASSUME Failing!FailureInv, [Failing!Next]_failingVars PROVE Failing!FailureInv'
  OBVIOUS
<1>1. Failing!TypeOK
  BY FailureFacts
<1>2. CASE UNCHANGED failingVars
  BY <1>2 DEF failingVars, Failing!FailureInv, Failing!TypeOK, Failing!FanOutInv,
              Failing!GhostInv, Failing!LossInv, Failing!DamageIsContained, Failing!Ghosts,
              Failing!Held, Failing!Lost, Failing!Newcomer
<1>3. ASSUME NEW s \in Failing!Slots, Failing!BeginUpdate(s) PROVE Failing!FailureInv'
  <2>1. /\ job = "none" /\ job' = "update" /\ newcomer' = s /\ waiting' = Failing!Trees
        /\ pending' = {} /\ erred' = FALSE /\ UNCHANGED <<entries, indexed, errors>>
        /\ live' = live \cup {s} /\ refs' = [refs EXCEPT ![s] = 0]
    BY <1>3 DEF Failing!BeginUpdate, Failing!FanOut
  <2>2. /\ capacity' \in 0..MaxSlots /\ s \in 0..capacity'-1 /\ s \notin live
        /\ 0..capacity-1 \subseteq 0..capacity'-1
    <3>1. capacity \in 0..MaxSlots /\ live \subseteq 0..capacity-1 /\ s \in 0..MaxSlots-1
      BY <1>1 DEF Failing!TypeOK, Failing!Slots
    <3>2. \/ s < capacity /\ s \notin live /\ capacity' = capacity
          \/ s = capacity /\ capacity' = capacity + 1
      BY <1>3 DEF Failing!BeginUpdate
    <3> QED
      BY <3>1, <3>2, FailureParameters
  <2>3. live \subseteq live' /\ live' \subseteq 0..capacity'-1
    BY <1>1, <2>1, <2>2 DEF Failing!TypeOK
  <2>4. refs' = refs
    <3>1. refs[s] = 0
      BY <2>2, FailureFacts
    <3> QED
      BY <1>1, <2>1, <3>1 DEF Failing!TypeOK
  <2> QED
    BY <2>1, <2>2, <2>3, <2>4, BeginStep
<1>4. ASSUME NEW s \in Failing!Slots, Failing!BeginDelete(s) PROVE Failing!FailureInv'
  <2>1. /\ job = "none" /\ job' = "delete" /\ newcomer' = s /\ waiting' = Failing!Trees
        /\ pending' = {} /\ erred' = FALSE /\ UNCHANGED <<entries, indexed, errors>>
        /\ UNCHANGED <<live, capacity, refs>>
    BY <1>4 DEF Failing!BeginDelete, Failing!FanOut, Failing!store
  <2>2. capacity' \in 0..MaxSlots /\ live' \subseteq 0..capacity'-1
    BY <1>1, <2>1 DEF Failing!TypeOK
  <2> QED
    BY <2>1, <2>2, BeginStep
<1>5. ASSUME NEW t \in Failing!Trees, Failing!Reject(t) \/ Failing!NotHeld(t)
      PROVE  Failing!FailureInv'
  <2>1. /\ job # "none" /\ t \in waiting /\ waiting' = waiting \ {t}
        /\ UNCHANGED <<live, capacity, refs, entries, indexed, job, newcomer, pending,
                       erred, errors>>
    BY <1>5 DEF Failing!Reject, Failing!NotHeld, Failing!Visit, Failing!store
  <2> QED
    BY <2>1, SkipStep
<1>6. ASSUME NEW t \in Failing!Trees, Failing!Insert(t) PROVE Failing!FailureInv'
  BY <1>6, InsertStep
<1>7. ASSUME NEW t \in Failing!Trees, NEW e \in Failing!Slots, Failing!Replace(t, e)
      PROVE  Failing!FailureInv'
  BY <1>7, ReplaceStep
<1>8. ASSUME NEW t \in Failing!Trees, Failing!Withdraw(t) PROVE Failing!FailureInv'
  BY <1>8, WithdrawStep
<1>9. CASE Failing!ReturnOk
  <2>1. /\ job # "none" /\ Failing!Rest /\ UNCHANGED <<capacity, refs, entries, indexed>>
        /\ ~erred /\ errors' = errors
        /\ live' = live \ (pending \cup {s \in {newcomer} : job = "update" /\ refs[s] = 0})
    BY <1>9 DEF Failing!ReturnOk
  <2> QED
    BY <2>1, RestStep
<1>10. CASE Failing!ReturnErr
  <2>1. /\ job # "none" /\ Failing!Rest /\ UNCHANGED <<capacity, refs, entries, indexed>>
        /\ errors' = errors + 1 /\ live' = live
    BY <1>10 DEF Failing!ReturnErr, Failing!store
  <2> QED
    BY <2>1, RestStep
<1> QED
  BY <1>2, <1>3, <1>4, <1>5, <1>6, <1>7, <1>8, <1>9, <1>10 DEF Failing!Next

\* The damage failing workers do stays contained, for any number of trees, of
\* places in a sample, of slots and of refusals.
THEOREM DamageStaysContained == StreamsSpec => []DamageIsContained
<1>1. StreamsInit => Failing!FailureInv
  BY FailureInit DEF StreamsInit
<1>2. Failing!FailureInv /\ [StreamsNext]_<<part, forestVars, wrapperVars, sketchVars,
                                           detectorVars, metricVars>> => Failing!FailureInv'
  BY FailureNext, PartsStep
<1>3. Failing!FailureInv => DamageIsContained
  BY DEF Failing!FailureInv, DamageIsContained
<1> QED
  BY <1>1, <1>2, <1>3, PTL DEF StreamsSpec
==============================================================================
