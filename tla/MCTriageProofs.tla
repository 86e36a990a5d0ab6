---------------------------- MODULE MCTriageProofs ----------------------------
(***************************************************************************)
(* Proofs about the parts of the triage crate, in the composition that is  *)
(* checked: the audit chain, the feedback store, the credits of SAGE and   *)
(* the two alert clusterers, for every value of their constants.           *)
(***************************************************************************)
EXTENDS MCTriage, FunctionSums, SequenceTheorems

------------------------------------------------------------------------------
(* Sequences.                                                               *)

\* The names the instance gives the operators of SequencesExt.
LEMMA ChainSequences ==
  \A s : /\ Chain!Last(s) = s[Len(s)]
         /\ Chain!Front(s) = SubSeq(s, 1, Len(s) - 1)
         /\ Chain!ToSet(s) = {s[i] : i \in DOMAIN s}
         /\ \A i : Chain!RemoveAt(s, i) = SubSeq(s, 1, i - 1) \o SubSeq(s, i + 1, Len(s))
BY DEF Chain!Last, Chain!Front, Chain!ToSet, Chain!RemoveAt

\* One entry more: it is the last and the others stand before it.
LEMMA OneEntryMore ==
  ASSUME NEW S, NEW s \in Seq(S), NEW e \in S
  PROVE  /\ Append(s, e) \in Seq(S) /\ Append(s, e) # <<>>
         /\ Len(Append(s, e)) = Len(s) + 1
         /\ Chain!Last(Append(s, e)) = e /\ Chain!Front(Append(s, e)) = s
         /\ Chain!ToSet(Append(s, e)) = Chain!ToSet(s) \cup {e}
<1> DEFINE t == Append(s, e)
<1>1. t \in Seq(S) /\ Len(t) = Len(s) + 1 /\ t[Len(s) + 1] = e /\ Len(s) \in Nat
  BY AppendProperties
<1>2. \A i \in 1..Len(s) : t[i] = s[i]
  BY AppendProperties
<1> HIDE DEF t
<1>3. DOMAIN t = 1..Len(s) + 1 /\ DOMAIN s = 1..Len(s) /\ t # <<>>
  BY <1>1
<1>4. SubSeq(t, 1, Len(s)) = s
  <2>1. SubSeq(t, 1, Len(s)) \in Seq(S) /\ Len(SubSeq(t, 1, Len(s))) = Len(s)
    BY <1>1, SubSeqProperties
  <2>2. \A i \in 1..Len(s) : SubSeq(t, 1, Len(s))[i] = t[i]
    BY <1>1, SubSeqProperties
  <2> QED
    BY <1>2, <2>1, <2>2, SeqEqual
<1>5. Chain!ToSet(t) = Chain!ToSet(s) \cup {e}
  <2>1. Chain!ToSet(t) = {t[i] : i \in DOMAIN t} /\ Chain!ToSet(s) = {s[i] : i \in DOMAIN s}
    BY DEF Chain!ToSet
  <2>2. \A x : x \in Chain!ToSet(t) <=> \E i \in 1..Len(s) + 1 : x = t[i]
    BY <1>3, <2>1
  <2>3. \A x : x \in Chain!ToSet(s) <=> \E i \in 1..Len(s) : x = s[i]
    BY <1>3, <2>1
  <2>4. \A i : i \in 1..Len(s) + 1 <=> (i \in 1..Len(s) \/ i = Len(s) + 1)
    BY <1>1
  <2>5. \A x : (\E i \in 1..Len(s) + 1 : x = t[i]) <=> (\E i \in 1..Len(s) : x = s[i]) \/ x = e
    BY <1>1, <1>2, <2>4
  <2> QED
    BY <2>2, <2>3, <2>5
<1>6. Chain!Last(t) = e /\ Chain!Front(t) = s
  <2>1. Chain!Last(t) = t[Len(t)] /\ Chain!Front(t) = SubSeq(t, 1, Len(t) - 1)
    BY DEF Chain!Last, Chain!Front
  <2>2. Len(t) - 1 = Len(s)
    BY <1>1
  <2> QED
    BY <1>1, <1>4, <2>1, <2>2
<1> QED
  BY <1>1, <1>3, <1>5, <1>6 DEF t

\* A beginning has the entries of the whole.
LEMMA Beginning ==
  ASSUME NEW S, NEW s \in Seq(S), NEW n \in 0..Len(s)
  PROVE  /\ SubSeq(s, 1, n) \in Seq(S) /\ Len(SubSeq(s, 1, n)) = n
         /\ \A i \in 1..n : SubSeq(s, 1, n)[i] = s[i]
<1>1. n \in Nat /\ Len(s) \in Nat /\ n <= Len(s)
  OBVIOUS
<1>2. CASE n = 0
  <2>1. SubSeq(s, 1, 0) = <<>>
    BY SubSeqEmpty
  <2> QED
    BY <1>2, <2>1
<1>3. CASE n # 0
  <2>1. SubSeq(s, 1, n) \in Seq(S) /\ Len(SubSeq(s, 1, n)) = n
    BY <1>1, <1>3, SubSeqProperties
  <2>2. \A i \in 1..n : SubSeq(s, 1, n)[i] = s[i]
    BY <1>1, <1>3, SubSeqProperties
  <2> QED
    BY <2>1, <2>2
<1> QED
  BY <1>2, <1>3

\* Sequences over the set of their entries.
LEMMA EntriesOf ==
  ASSUME NEW S, NEW s \in Seq(S)
  PROVE  /\ s \in Seq(Chain!ToSet(s)) /\ Chain!ToSet(s) \subseteq S
         /\ \A i \in 1..Len(s) : s[i] \in Chain!ToSet(s)
<1>1. DOMAIN s = 1..Len(s) /\ Len(s) \in Nat /\ s \in [1..Len(s) -> S]
  BY LenProperties
<1>2. Chain!ToSet(s) = {s[i] : i \in DOMAIN s}
  BY DEF Chain!ToSet
<1>3. \A i \in 1..Len(s) : s[i] \in Chain!ToSet(s)
  BY <1>1, <1>2
<1>4. Chain!ToSet(s) \subseteq S
  BY <1>1, <1>2
<1>5. SubSeq(s, 1, Len(s)) \in Seq(Chain!ToSet(s))
  BY <1>1, <1>3, SubSeqProperties
<1>6. SubSeq(s, 1, Len(s)) = s
  BY SubSeqFull
<1> QED
  BY <1>3, <1>4, <1>5, <1>6

\* What is left of a sequence has entries of it.
LEMMA Leftovers ==
  ASSUME NEW S, NEW s \in Seq(S), s # <<>>
  PROVE  /\ Head(s) \in Chain!ToSet(s)
         /\ Tail(s) \in Seq(Chain!ToSet(s))
         /\ \A i \in DOMAIN s : Chain!RemoveAt(s, i) \in Seq(Chain!ToSet(s))
<1>1. s \in Seq(Chain!ToSet(s)) /\ \A i \in 1..Len(s) : s[i] \in Chain!ToSet(s)
  BY EntriesOf
<1>2. Head(s) \in Chain!ToSet(s) /\ Tail(s) \in Seq(Chain!ToSet(s))
  BY <1>1, HeadTailProperties
<1>3. ASSUME NEW i \in DOMAIN s PROVE Chain!RemoveAt(s, i) \in Seq(Chain!ToSet(s))
  <2>1. i \in 1..Len(s) /\ Len(s) \in Nat
    BY LenProperties
  <2>2. SubSeq(s, 1, i - 1) \in Seq(Chain!ToSet(s))
    <3>1. \A j \in 1..i - 1 : s[j] \in Chain!ToSet(s)
      BY <1>1, <2>1
    <3>2. i - 1 \in Int
      BY <2>1
    <3> QED
      BY <3>1, <3>2, SubSeqProperties
  <2>3. SubSeq(s, i + 1, Len(s)) \in Seq(Chain!ToSet(s))
    <3>1. \A j \in i + 1..Len(s) : s[j] \in Chain!ToSet(s)
      BY <1>1, <2>1
    <3>2. i + 1 \in Int /\ Len(s) \in Int
      BY <2>1
    <3> QED
      BY <3>1, <3>2, SubSeqProperties
  <2>4. Chain!RemoveAt(s, i) = SubSeq(s, 1, i - 1) \o SubSeq(s, i + 1, Len(s))
    BY DEF Chain!RemoveAt
  <2> QED
    BY <2>2, <2>3, <2>4, ConcatProperties
<1> QED
  BY <1>2, <1>3

------------------------------------------------------------------------------
(* The audit chain.                                                         *)

LEMMA ChainParameters == MaxSeq \in Nat /\ MaxAppends \in Nat /\ MaxFaults \in Nat
BY TriageParameters DEF Chain!ChainAssumption

LEMMA ChainInit == Chain!Init => Chain!ChainInv
<1> SUFFICES ASSUME Chain!Init PROVE Chain!ChainInv
  OBVIOUS
<1>1. /\ written = {<<>>} /\ transit = <<>> /\ stored = <<>> /\ journal = <<>>
      /\ chain = [seq |-> 0, prev_tag |-> Chain!Genesis]
  BY DEF Chain!Init
<1>2. \A S : <<>> \in Seq(S)
  BY EmptySeq
<1>3. Chain!TypeOK
  BY <1>1, <1>2 DEF Chain!TypeOK
<1>4. Chain!WrittenInv
  BY <1>1 DEF Chain!WrittenInv
<1>5. Chain!ToSet(<<>>) = {}
  BY DEF Chain!ToSet
<1>6. Chain!SignedInv
  BY <1>1, <1>5 DEF Chain!SignedInv
<1>7. Chain!WriterInv
  BY <1>1 DEF Chain!WriterInv, Chain!TagOf
<1> QED
  BY <1>3, <1>4, <1>6, <1>7 DEF Chain!ChainInv

LEMMA EntriesGrow ==
  ASSUME written \subseteq written'
  PROVE  Chain!Entries \subseteq Chain!Entries'
<1>1. Chain!Tags \subseteq Chain!Tags'
  BY DEF Chain!Tags
<1> QED
  BY <1>1 DEF Chain!Entries

\* Moving entries about, or dropping them, leaves what is known of them.
LEMMA Delivery ==
  ASSUME Chain!ChainInv, UNCHANGED written, Chain!WriterInv',
         transit' \in Seq(Chain!ToSet(transit) \cup Chain!ToSet(stored)),
         stored' \in Seq(Chain!ToSet(transit) \cup Chain!ToSet(stored))
  PROVE  Chain!ChainInv'
<1> DEFINE All == Chain!ToSet(transit) \cup Chain!ToSet(stored)
<1>1. Chain!TypeOK /\ Chain!WrittenInv /\ Chain!SignedInv
  BY DEF Chain!ChainInv
<1>2. Chain!ToSet(transit') \subseteq All /\ Chain!ToSet(stored') \subseteq All
  BY EntriesOf
<1>3. All \subseteq Chain!Entries
  BY <1>1, EntriesOf DEF Chain!TypeOK
<1>4. Chain!Entries' = Chain!Entries
  BY DEF Chain!Entries, Chain!Tags
<1>5. Chain!TypeOK'
  BY <1>1, <1>3, <1>4, SeqMonotonic DEF Chain!TypeOK
<1>6. Chain!WrittenInv'
  BY <1>1 DEF Chain!WrittenInv
<1>7. Chain!SignedInv'
  BY <1>1, <1>2 DEF Chain!SignedInv
<1> QED
  BY <1>5, <1>6, <1>7 DEF Chain!ChainInv

LEMMA StoreStep ==
  ASSUME Chain!ChainInv, Chain!Store \/ Chain!Misdeliver
  PROVE  Chain!ChainInv'
<1> DEFINE T == Chain!ToSet(transit)
           All == T \cup Chain!ToSet(stored)
<1>1. transit \in Seq(Chain!Entries) /\ stored \in Seq(Chain!Entries)
  BY DEF Chain!ChainInv, Chain!TypeOK
<1>2. transit \in Seq(T) /\ \A i \in DOMAIN transit : transit[i] \in T
  BY <1>1, EntriesOf, LenProperties
<1>3. stored \in Seq(Chain!ToSet(stored))
  BY <1>1, EntriesOf
<1>4. T \subseteq All /\ Chain!ToSet(stored) \subseteq All
  OBVIOUS
<1>5. UNCHANGED <<chain, journal, written>> /\ transit # <<>>
  <2>1. CASE Chain!Store
    BY <2>1 DEF Chain!Store
  <2>2. CASE Chain!Misdeliver
    <3>1. UNCHANGED <<chain, journal, written>> /\ \E i \in DOMAIN transit : TRUE
      BY <2>2 DEF Chain!Misdeliver
    <3>2. DOMAIN transit = 1..Len(transit) /\ Len(<<>>) = 0
      BY <1>1, LenProperties, EmptySeq
    <3> QED
      BY <3>1, <3>2
  <2> QED
    BY <2>1, <2>2
<1>6. /\ Head(transit) \in T /\ Tail(transit) \in Seq(T)
      /\ \A i \in DOMAIN transit : Chain!RemoveAt(transit, i) \in Seq(T)
  BY <1>1, <1>5, Leftovers
<1> HIDE DEF T, All
<1>7. transit' \in Seq(T)
  BY <1>2, <1>6 DEF Chain!Store, Chain!Misdeliver
<1>8. stored' = stored \/ \E e \in T : stored' = Append(stored, e)
  BY <1>2, <1>6 DEF Chain!Store, Chain!Misdeliver
<1>9. transit' \in Seq(All) /\ stored \in Seq(All)
  BY <1>3, <1>4, <1>7, SeqMonotonic
<1>10. stored' \in Seq(All)
  BY <1>4, <1>8, <1>9, AppendProperties
<1>11. Chain!WriterInv'
  BY <1>5 DEF Chain!ChainInv, Chain!WriterInv
<1> QED
  BY <1>5, <1>9, <1>10, <1>11, Delivery DEF All, T

LEMMA ResumeStep ==
  ASSUME Chain!ChainInv, Chain!Resume
  PROVE  Chain!ChainInv'
<1>1. transit' = <<>> /\ UNCHANGED <<stored, written>>
  BY DEF Chain!Resume
<1>2. stored \in Seq(Chain!Entries) /\ Chain!WrittenInv /\ Chain!SignedInv
      /\ written \subseteq Seq(Chain!Entries) /\ <<>> \in written
  BY DEF Chain!ChainInv, Chain!TypeOK
<1>3. Chain!WriterInv'
  <2>1. CASE stored = <<>>
    <3>1. chain' = [seq |-> 0, prev_tag |-> Chain!Genesis] /\ journal' = <<>>
      BY <2>1 DEF Chain!Resume
    <3> QED
      BY <1>1, <1>2, <3>1 DEF Chain!WriterInv, Chain!TagOf
  <2>2. CASE stored # <<>>
    <3> DEFINE e == Chain!Last(stored)
    <3>1. PICK log \in written \ {<<>>} : Chain!Last(log).tag = e.tag /\ journal' = log
      BY <2>2 DEF Chain!Resume
    <3>2. chain' = [seq |-> e.seq + 1, prev_tag |-> e.tag]
      BY <2>2 DEF Chain!Resume, Chain!ContinueAfter
    <3>3. e \in Chain!ToSet(stored)
      <4>1. e = stored[Len(stored)]
        BY DEF Chain!Last
      <4>2. Len(stored) \in 1..Len(stored)
        BY <1>2, <2>2, EmptySeq
      <4> QED
        BY <1>2, <4>1, <4>2, EntriesOf
    <3> HIDE DEF e
    <3>4. PICK mine \in written \ {<<>>} : e = [Chain!Last(mine) EXCEPT !.record = e.record]
      BY <1>2, <3>3 DEF Chain!SignedInv
    <3>5. \A l \in written \ {<<>>} : Chain!Last(l) \in Chain!Entries /\ Len(l) \in Nat
      <4> SUFFICES ASSUME NEW l \in written \ {<<>>}
                   PROVE  Chain!Last(l) \in Chain!Entries /\ Len(l) \in Nat
        OBVIOUS
      <4>1. l \in Seq(Chain!Entries) /\ Len(l) \in 1..Len(l) /\ Len(l) \in Nat
        BY <1>2, EmptySeq
      <4>2. Chain!Last(l) = l[Len(l)]
        BY DEF Chain!Last
      <4> QED
        BY <4>1, <4>2, ElementOfSeq
    <3>6. e.tag = Chain!Last(mine).tag /\ e.seq = Chain!Last(mine).seq
      <4>1. Chain!Last(mine) \in Chain!Entries
        BY <3>5
      <4> QED
        BY <3>4, <4>1 DEF Chain!Entries
    <3>7. mine = log
      <4>1. Chain!TagOf(mine) = Chain!TagOf(log)
        BY <3>1, <3>6 DEF Chain!TagOf
      <4> QED
        BY <1>2, <4>1 DEF Chain!WrittenInv
    <3>8. Chain!Last(log).seq = Len(log) - 1
      BY <1>2 DEF Chain!WrittenInv
    <3>9. chain' = [seq |-> Len(log), prev_tag |-> Chain!TagOf(log)]
      <4>1. Len(log) \in Nat
        BY <3>5
      <4> QED
        BY <3>1, <3>2, <3>6, <3>7, <3>8, <4>1 DEF Chain!TagOf
    <3> QED
      BY <1>1, <3>1, <3>9 DEF Chain!WriterInv, Chain!TagOf
  <2> QED
    BY <2>1, <2>2
<1>4. stored \in Seq(Chain!ToSet(transit) \cup Chain!ToSet(stored))
  <2>1. stored \in Seq(Chain!ToSet(stored))
    BY <1>2, EntriesOf
  <2> QED
    BY <2>1, SeqMonotonic
<1>5. <<>> \in Seq(Chain!ToSet(transit) \cup Chain!ToSet(stored))
  BY EmptySeq
<1> QED
  BY <1>1, <1>3, <1>4, <1>5, Delivery

LEMMA SpoilStep ==
  ASSUME Chain!ChainInv, Chain!Spoil
  PROVE  Chain!ChainInv'
<1>1. UNCHANGED <<chain, transit, journal, written>>
  BY DEF Chain!Spoil
<1>2. /\ transit \in Seq(Chain!Entries) /\ stored \in Seq(Chain!Entries)
      /\ Chain!TypeOK /\ Chain!WrittenInv /\ Chain!SignedInv
  BY DEF Chain!ChainInv, Chain!TypeOK
<1>3. Chain!WriterInv'
  BY <1>1 DEF Chain!ChainInv, Chain!WriterInv, Chain!TagOf
<1>4. DOMAIN stored = 1..Len(stored)
  BY <1>2, LenProperties
<1>5. ASSUME NEW i \in DOMAIN stored, stored' = Chain!RemoveAt(stored, i)
      PROVE  Chain!ChainInv'
  <2>1. stored # <<>>
    BY <1>4, EmptySeq
  <2>2. stored' \in Seq(Chain!ToSet(stored))
    BY <1>2, <1>5, <2>1, Leftovers
  <2>3. transit \in Seq(Chain!ToSet(transit))
    BY <1>2, EntriesOf
  <2>4. /\ stored' \in Seq(Chain!ToSet(transit) \cup Chain!ToSet(stored))
        /\ transit \in Seq(Chain!ToSet(transit) \cup Chain!ToSet(stored))
    BY <2>2, <2>3, SeqMonotonic
  <2> QED
    BY <1>1, <1>3, <2>4, Delivery
<1>6. ASSUME NEW i \in DOMAIN stored, NEW r \in Records,
             stored' = [stored EXCEPT ![i].record = r]
      PROVE  Chain!ChainInv'
  <2> DEFINE old == stored[i]
             new == [old EXCEPT !.record = r]
  <2>1. old \in Chain!Entries /\ old \in Chain!ToSet(stored)
    BY <1>2, <1>4, ElementOfSeq, EntriesOf
  <2>2. new \in Chain!Entries
    BY <2>1 DEF Chain!Entries
  <2>3. stored' = [stored EXCEPT ![i] = new]
    BY <1>6
  <2> HIDE DEF new
  <2>4. /\ stored' \in Seq(Chain!Entries) /\ Len(stored') = Len(stored)
        /\ \A j \in 1..Len(stored) : stored'[j] = IF j = i THEN new ELSE stored[j]
    BY <1>2, <1>4, <2>2, <2>3, ExceptSeq
  <2>5. Chain!Entries' = Chain!Entries
    BY <1>1 DEF Chain!Entries, Chain!Tags
  <2>6. Chain!TypeOK'
    BY <1>1, <1>2, <2>4, <2>5 DEF Chain!TypeOK
  <2>7. Chain!WrittenInv'
    BY <1>1, <1>2 DEF Chain!WrittenInv
  <2>8. ASSUME NEW e \in Chain!ToSet(stored') PROVE e = new \/ e \in Chain!ToSet(stored)
    <3>1. Chain!ToSet(stored') = {stored'[j] : j \in DOMAIN stored'}
      BY DEF Chain!ToSet
    <3>2. DOMAIN stored' = 1..Len(stored)
      BY <2>4, LenProperties
    <3>3. PICK j \in 1..Len(stored) : e = stored'[j]
      BY <2>8, <3>1, <3>2
    <3> QED
      BY <1>2, <2>4, <3>3, EntriesOf
  <2>9. \E log \in written \ {<<>>} : new = [Chain!Last(log) EXCEPT !.record = new.record]
    <3>1. PICK log \in written \ {<<>>} : old = [Chain!Last(log) EXCEPT !.record = old.record]
      BY <1>2, <2>1 DEF Chain!SignedInv
    <3>2. new.record = r
      BY <2>1 DEF new, Chain!Entries
    <3>3. new = [Chain!Last(log) EXCEPT !.record = r]
      BY <3>1 DEF new
    <3> QED
      BY <3>2, <3>3
  <2>10. Chain!SignedInv'
    <3>1. \A e \in Chain!ToSet(transit) \cup Chain!ToSet(stored') :
            e = new \/ e \in Chain!ToSet(transit) \cup Chain!ToSet(stored)
      BY <2>8
    <3> QED
      BY <1>1, <1>2, <2>9, <3>1 DEF Chain!SignedInv
  <2> QED
    BY <1>3, <2>6, <2>7, <2>10 DEF Chain!ChainInv
<1> QED
  BY <1>5, <1>6 DEF Chain!Spoil

\* A tag says what was signed, and is never the genesis.
LEMMA TagsTell ==
  /\ \A n, m, p, q, r, s :
       Chain!Tag(n, p, r) = Chain!Tag(m, q, s) => n = m /\ p = q /\ r = s
  /\ \A n, p, r : Chain!Tag(n, p, r) # Chain!Genesis
BY DEF Chain!Tag, Chain!Genesis

\* The parts of a log that is there.
LEMMA LogParts ==
  ASSUME Chain!ChainInv, NEW log \in written, log # <<>>
  PROVE  /\ log \in Seq(Chain!Entries) /\ Len(log) \in Nat /\ Len(log) > 0
         /\ Chain!Last(log) = log[Len(log)] /\ Chain!Last(log) \in Chain!Entries
         /\ Chain!TagOf(log) = Chain!Last(log).tag
         /\ Chain!Front(log) \in written
         /\ Chain!Last(log).seq = Len(log) - 1
         /\ Chain!Last(log).prev_tag = Chain!TagOf(Chain!Front(log))
         /\ Chain!Last(log).tag =
              Chain!Tag(Len(log) - 1, Chain!TagOf(Chain!Front(log)), Chain!Last(log).record)
<1>1. Chain!TypeOK /\ Chain!WrittenInv
  BY DEF Chain!ChainInv
<1>2. log \in Seq(Chain!Entries)
  BY <1>1 DEF Chain!TypeOK
<1>3. Len(log) \in Nat /\ Len(log) \in 1..Len(log)
  BY <1>2, EmptySeq
<1>4. Chain!Last(log) = log[Len(log)]
  BY DEF Chain!Last
<1>5. log[Len(log)] \in Chain!Entries
  BY <1>2, <1>3, ElementOfSeq
<1>6. Chain!TagOf(log) = Chain!Last(log).tag
  BY DEF Chain!TagOf
<1> QED
  BY <1>1, <1>2, <1>3, <1>4, <1>5, <1>6 DEF Chain!WrittenInv

LEMMA WriteStep ==
  ASSUME Chain!ChainInv, NEW r \in Records, Chain!Write(r)
  PROVE  Chain!ChainInv'
<1> DEFINE n == Len(journal)
           prev == Chain!TagOf(journal)
           tag == Chain!Tag(n, prev, r)
           entry == [record |-> r, seq |-> n, prev_tag |-> prev, tag |-> tag]
           log == Append(journal, entry)
<1>1. /\ Chain!TypeOK /\ Chain!WrittenInv /\ Chain!SignedInv
      /\ journal \in written /\ chain = [seq |-> n, prev_tag |-> prev]
      /\ written \subseteq Seq(Chain!Entries) /\ <<>> \in written
      /\ transit \in Seq(Chain!Entries) /\ stored \in Seq(Chain!Entries)
  BY DEF Chain!ChainInv, Chain!WriterInv, Chain!TypeOK
<1>2. chain.seq = n /\ chain.prev_tag = prev
  BY <1>1
<1>3. /\ n < MaxSeq /\ chain' = [seq |-> n + 1, prev_tag |-> tag]
      /\ transit' = Append(transit, entry) /\ journal' = log
      /\ written' = written \cup {log} /\ stored' = stored
  BY <1>2 DEF Chain!Write
<1>4. n \in 0..MaxSeq-1 /\ journal \in Seq(Chain!Entries)
  BY <1>1, <1>3, ChainParameters, LenProperties
<1>5. Chain!Entries \subseteq Chain!Entries'
  BY <1>3, EntriesGrow
<1> HIDE DEF n, prev, tag, entry, log
<1>6. /\ entry.record = r /\ entry.seq = n /\ entry.prev_tag = prev /\ entry.tag = tag
      /\ [entry EXCEPT !.record = entry.record] = entry
  BY DEF entry
<1>7. /\ log # <<>> /\ Len(log) = n + 1 /\ Chain!Last(log) = entry
      /\ Chain!Front(log) = journal /\ Chain!TagOf(log) = tag
  <2> DEFINE Known == Chain!Entries \cup {entry}
  <2>1. journal \in Seq(Known) /\ entry \in Known
    BY <1>4, SeqMonotonic
  <2> HIDE DEF Known
  <2>2. /\ log # <<>> /\ Len(log) = Len(journal) + 1 /\ Chain!Last(log) = entry
        /\ Chain!Front(log) = journal
    BY <2>1, OneEntryMore DEF log
  <2> QED
    BY <1>6, <2>2 DEF Chain!TagOf, n
<1>8. entry \in Chain!Entries'
  <2>1. Chain!Tags' = {Chain!TagOf(l) : l \in written'}
    BY DEF Chain!Tags, Chain!TagOf, Chain!Genesis
  <2>2. prev \in Chain!Tags' /\ tag \in Chain!Tags'
    BY <1>1, <1>3, <1>7, <2>1 DEF prev
  <2>3. Chain!Entries' = [record : Records, seq : 0..MaxSeq-1, prev_tag : Chain!Tags', tag : Chain!Tags']
    BY DEF Chain!Entries
  <2> QED
    BY <1>4, <2>2, <2>3 DEF entry
<1>9. Chain!TypeOK'
  <2>1. journal \in Seq(Chain!Entries') /\ transit \in Seq(Chain!Entries')
        /\ stored \in Seq(Chain!Entries') /\ written \subseteq Seq(Chain!Entries')
    BY <1>1, <1>4, <1>5, SeqMonotonic
  <2>2. log \in Seq(Chain!Entries') /\ transit' \in Seq(Chain!Entries')
    BY <1>3, <1>8, <2>1, AppendProperties DEF log
  <2> QED
    BY <1>1, <1>3, <2>1, <2>2 DEF Chain!TypeOK
<1>10. Chain!WriterInv'
  BY <1>3, <1>7 DEF Chain!WriterInv, Chain!TagOf
<1>11. Chain!SignedInv'
  <2>1. Chain!ToSet(transit') = Chain!ToSet(transit) \cup {entry}
    <3> DEFINE Known == Chain!Entries \cup {entry}
    <3>1. transit \in Seq(Known) /\ entry \in Known
      BY <1>1, SeqMonotonic
    <3> HIDE DEF Known
    <3> QED
      BY <1>3, <3>1, OneEntryMore
  <2>2. \A e \in Chain!ToSet(transit') \cup Chain!ToSet(stored') :
          e = entry \/ e \in Chain!ToSet(transit) \cup Chain!ToSet(stored)
    BY <1>3, <2>1
  <2>3. log \in written' \ {<<>>} /\ entry = [Chain!Last(log) EXCEPT !.record = entry.record]
    BY <1>3, <1>6, <1>7
  <2> QED
    BY <1>1, <1>3, <2>2, <2>3 DEF Chain!SignedInv
<1>12. ASSUME NEW other \in written, Chain!TagOf(other) = tag PROVE other = log
  <2>1. other # <<>>
    BY <1>12, TagsTell DEF Chain!TagOf, tag
  <2>2. /\ Chain!Last(other).tag =
             Chain!Tag(Len(other) - 1, Chain!TagOf(Chain!Front(other)), Chain!Last(other).record)
        /\ Chain!TagOf(other) = Chain!Last(other).tag /\ Chain!Front(other) \in written
        /\ Chain!Last(other).seq = Len(other) - 1
        /\ Chain!Last(other).prev_tag = Chain!TagOf(Chain!Front(other))
        /\ Chain!Last(other) \in Chain!Entries
        /\ other \in Seq(Chain!Entries) /\ Len(other) \in Nat /\ Len(other) > 0
        /\ Chain!Last(other) = other[Len(other)]
    BY <2>1, LogParts
  <2>3. Len(other) - 1 = n /\ Chain!TagOf(Chain!Front(other)) = prev /\ Chain!Last(other).record = r
    <3> DEFINE p == Chain!TagOf(Chain!Front(other))
               s == Chain!Last(other).record
    <3>1. Chain!Tag(Len(other) - 1, p, s) = Chain!Tag(n, prev, r)
      BY <1>12, <2>2 DEF tag
    <3> HIDE DEF p, s
    <3>2. Len(other) - 1 = n /\ p = prev /\ s = r
      BY <3>1, TagsTell
    <3> QED
      BY <3>2 DEF p, s
  <2>4. Chain!Front(other) = journal
    BY <1>1, <2>2, <2>3 DEF Chain!WrittenInv, prev
  <2>5. Chain!Last(other) = entry
    BY <1>12, <2>2, <2>3 DEF Chain!Entries, entry
  <2>6. other = Append(Chain!Front(other), Chain!Last(other))
    <3>1. other = Append(SubSeq(other, 1, Len(other) - 1), other[Len(other)])
      BY <2>2
    <3> QED
      BY <3>1 DEF Chain!Front, Chain!Last
  <2> QED
    BY <2>4, <2>5, <2>6 DEF log
<1>13. Chain!WrittenInv'
  <2>1. \A l \in written' \ {<<>>} :
          /\ Chain!Front(l) \in written'
          /\ LET e == Chain!Last(l) IN
               /\ e.seq = Len(l) - 1 /\ e.prev_tag = Chain!TagOf(Chain!Front(l))
               /\ e.tag = Chain!Tag(e.seq, e.prev_tag, e.record)
    <3>1. CASE TRUE
      <4> SUFFICES ASSUME NEW l \in written' \ {<<>>}
                   PROVE  /\ Chain!Front(l) \in written'
                          /\ Chain!Last(l).seq = Len(l) - 1
                          /\ Chain!Last(l).prev_tag = Chain!TagOf(Chain!Front(l))
                          /\ Chain!Last(l).tag = Chain!Tag(Chain!Last(l).seq,
                               Chain!Last(l).prev_tag, Chain!Last(l).record)
        OBVIOUS
      <4>1. CASE l = log
        <5>1. Len(log) - 1 = n
          BY <1>4, <1>7
        <5> QED
          BY <1>1, <1>3, <1>6, <1>7, <4>1, <5>1 DEF prev, tag
      <4>2. CASE l \in written
        BY <1>1, <1>3, <4>2 DEF Chain!WrittenInv
      <4> QED
        BY <1>3, <4>1, <4>2
    <3> QED
      BY <3>1
  <2>2. \A l, other \in written' : Chain!TagOf(l) = Chain!TagOf(other) => l = other
    BY <1>1, <1>3, <1>7, <1>12 DEF Chain!WrittenInv
  <2> QED
    BY <2>1, <2>2 DEF Chain!WrittenInv
<1> QED
  BY <1>9, <1>10, <1>11, <1>13 DEF Chain!ChainInv

LEMMA ChainStepInv ==
  ASSUME Chain!ChainInv, [Chain!Next]_chainVars
  PROVE  Chain!ChainInv'
<1>1. CASE UNCHANGED chainVars
  <2>1. Chain!TypeOK'
    BY <1>1 DEF chainVars, Chain!ChainInv, Chain!TypeOK, Chain!Entries, Chain!Tags
  <2>2. Chain!WrittenInv' /\ Chain!SignedInv' /\ Chain!WriterInv'
    BY <1>1 DEF chainVars, Chain!ChainInv, Chain!WrittenInv, Chain!SignedInv, Chain!WriterInv
  <2> QED
    BY <2>1, <2>2 DEF Chain!ChainInv
<1>2. CASE Chain!Next
  BY <1>2, WriteStep, StoreStep, SpoilStep, ResumeStep DEF Chain!Next
<1> QED
  BY <1>1, <1>2

\* A log that is there verifies, and so does each part of it.
LEMMA LogVerifies ==
  ASSUME Chain!ChainInv, NEW log \in written
  PROVE  /\ \A i \in 1..Len(log) :
              /\ SubSeq(log, 1, i) \in written
              /\ log[i].seq = i - 1 /\ i - 1 < MaxSeq
              /\ log[i].prev_tag = IF i = 1 THEN Chain!Genesis ELSE log[i - 1].tag
              /\ log[i].tag = Chain!Tag(log[i].seq, log[i].prev_tag, log[i].record)
<1>1. log \in Seq(Chain!Entries) /\ Len(log) \in Nat /\ <<>> \in written
  BY LenProperties DEF Chain!ChainInv, Chain!TypeOK
<1> DEFINE Cut(k) == SubSeq(log, 1, Len(log) - k)
           Bad == {k \in Nat : k < Len(log) /\ Cut(k) \notin written}
<1>2. ASSUME NEW k \in Nat, k < Len(log)
      PROVE  /\ Len(Cut(k)) = Len(log) - k /\ Cut(k) # <<>>
             /\ Chain!Last(Cut(k)) = log[Len(log) - k]
             /\ Chain!Front(Cut(k)) = Cut(k + 1)
             /\ Len(log) - k - 1 > 0 => Chain!Last(Cut(k + 1)) = log[Len(log) - k - 1]
  <2> DEFINE n == Len(log) - k
  <2>1. n \in 1..Len(log) /\ n \in Nat /\ n - 1 \in 0..Len(log)
    BY <1>1, <1>2
  <2>2. /\ Cut(k) \in Seq(Chain!Entries) /\ Len(Cut(k)) = n
        /\ \A i \in 1..n : Cut(k)[i] = log[i]
    BY <1>1, <2>1, Beginning
  <2>3. /\ SubSeq(log, 1, n - 1) \in Seq(Chain!Entries) /\ Len(SubSeq(log, 1, n - 1)) = n - 1
        /\ \A i \in 1..n - 1 : SubSeq(log, 1, n - 1)[i] = log[i]
    BY <1>1, <2>1, Beginning
  <2>4. n - 1 = Len(log) - (k + 1)
    BY <1>1, <1>2
  <2>5. Cut(k + 1) = SubSeq(log, 1, n - 1)
    BY <2>4
  <2> HIDE DEF Cut, n
  <2>6. Chain!Last(Cut(k)) = log[n]
    BY <2>1, <2>2 DEF Chain!Last
  <2>7. Chain!Front(Cut(k)) = SubSeq(Cut(k), 1, n - 1)
    BY <2>2 DEF Chain!Front
  <2>8. /\ SubSeq(Cut(k), 1, n - 1) \in Seq(Chain!Entries)
        /\ Len(SubSeq(Cut(k), 1, n - 1)) = n - 1
        /\ \A i \in 1..n - 1 : SubSeq(Cut(k), 1, n - 1)[i] = Cut(k)[i]
    <3>1. n - 1 \in 0..Len(Cut(k))
      BY <2>1, <2>2
    <3> QED
      BY <2>2, <3>1, Beginning
  <2>9. SubSeq(Cut(k), 1, n - 1) = SubSeq(log, 1, n - 1)
    <3>1. \A i \in 1..n - 1 : SubSeq(Cut(k), 1, n - 1)[i] = SubSeq(log, 1, n - 1)[i]
      BY <2>1, <2>2, <2>3, <2>8
    <3> QED
      BY <2>3, <2>8, <3>1, SeqEqual
  <2>10. Cut(k) # <<>>
    BY <2>1, <2>2
  <2>11. n - 1 > 0 => Chain!Last(Cut(k + 1)) = log[n - 1]
    <3>1. Chain!Last(Cut(k + 1)) = SubSeq(log, 1, n - 1)[n - 1]
      BY <2>3, <2>5 DEF Chain!Last
    <3> QED
      BY <2>1, <2>3, <3>1
  <2> QED
    BY <2>2, <2>5, <2>6, <2>7, <2>9, <2>10, <2>11 DEF n
<1>3. Cut(0) = log
  BY <1>1, SubSeqFull
<1>4. Cut(Len(log)) = <<>>
  BY <1>1, SubSeqEmpty
<1> HIDE DEF Cut
<1>5. Bad = {}
  <2> SUFFICES ASSUME Bad # {} PROVE FALSE
    OBVIOUS
  <2>1. PICK k \in Bad : \A m \in Bad : k <= m
    <3>1. Bad \subseteq Nat
      OBVIOUS
    <3> HIDE DEF Bad
    <3> QED
      BY <3>1, Least
  <2>2. k # 0 /\ k \in Nat /\ k - 1 \in Nat /\ k < Len(log)
    BY <1>3, <2>1
  <2>3. Cut(k - 1) \in written
    <3>1. k - 1 \notin Bad
      BY <2>1, <2>2
    <3> QED
      BY <1>1, <2>2, <3>1
  <2>4. Cut(k - 1) # <<>> /\ Chain!Front(Cut(k - 1)) = Cut(k)
    <3>1. k - 1 < Len(log) /\ k - 1 + 1 = k
      BY <1>1, <2>2
    <3> QED
      BY <1>2, <2>2, <3>1
  <2>5. Cut(k) \in written
    BY <2>3, <2>4, LogParts
  <2> QED
    BY <2>1, <2>5
<1> HIDE DEF Bad
<1>6. ASSUME NEW i \in 1..Len(log)
      PROVE  /\ SubSeq(log, 1, i) \in written
             /\ log[i].seq = i - 1 /\ i - 1 < MaxSeq
             /\ log[i].prev_tag = IF i = 1 THEN Chain!Genesis ELSE log[i - 1].tag
             /\ log[i].tag = Chain!Tag(log[i].seq, log[i].prev_tag, log[i].record)
  <2> DEFINE k == Len(log) - i
  <2>1. k \in Nat /\ k < Len(log) /\ Len(log) - k = i /\ Len(log) - (k + 1) = i - 1
    BY <1>1
  <2>2. Cut(k) = SubSeq(log, 1, i) /\ Cut(k) \in written
    <3>1. k \notin Bad
      BY <1>5
    <3>2. Cut(k) = SubSeq(log, 1, Len(log) - k)
      BY DEF Cut
    <3> QED
      BY <2>1, <3>1, <3>2 DEF Bad
  <2> HIDE DEF k
  <2>3. /\ Len(Cut(k)) = i /\ Cut(k) # <<>> /\ Chain!Last(Cut(k)) = log[i]
        /\ Chain!Front(Cut(k)) = Cut(k + 1)
        /\ i - 1 > 0 => Chain!Last(Cut(k + 1)) = log[i - 1]
    BY <1>2, <2>1
  <2>4. /\ Chain!Last(Cut(k)) \in Chain!Entries
        /\ Chain!Last(Cut(k)).seq = Len(Cut(k)) - 1
        /\ Chain!Last(Cut(k)).prev_tag = Chain!TagOf(Chain!Front(Cut(k)))
        /\ Chain!Last(Cut(k)).tag = Chain!Tag(Len(Cut(k)) - 1,
             Chain!TagOf(Chain!Front(Cut(k))), Chain!Last(Cut(k)).record)
    BY <2>2, <2>3, LogParts
  <2>5. log[i].seq = i - 1 /\ log[i].prev_tag = Chain!TagOf(Cut(k + 1))
        /\ log[i].tag = Chain!Tag(log[i].seq, log[i].prev_tag, log[i].record)
    BY <2>3, <2>4
  <2>6. i - 1 < MaxSeq
    BY <2>3, <2>4, <2>5, ChainParameters DEF Chain!Entries
  <2>7. CASE i = 1
    <3>1. Cut(k + 1) = <<>>
      <4>1. k + 1 = Len(log)
        BY <1>1, <2>1, <2>7
      <4> QED
        BY <1>4, <4>1
    <3> QED
      BY <2>2, <2>5, <2>6, <2>7, <3>1 DEF Chain!TagOf
  <2>8. CASE i # 1
    <3>1. k + 1 \in Nat /\ k + 1 < Len(log) /\ i - 1 > 0
      BY <1>1, <2>1, <2>8
    <3>2. Cut(k + 1) # <<>>
      BY <1>2, <3>1
    <3>3. Chain!TagOf(Cut(k + 1)) = log[i - 1].tag
      BY <2>3, <3>1, <3>2 DEF Chain!TagOf
    <3> QED
      BY <2>2, <2>5, <2>6, <2>8, <3>3
  <2> QED
    BY <2>7, <2>8
<1> QED
  BY <1>6

\* What verifies is a log that some writer wrote.
LEMMA VerifiedIsLog ==
  ASSUME Chain!ChainInv, Chain!Verifies(stored, Chain!Genesis)
  PROVE  stored \in written
<1>1. /\ stored \in Seq(Chain!Entries) /\ Len(stored) \in Nat /\ <<>> \in written
      /\ written \subseteq Seq(Chain!Entries) /\ Chain!WrittenInv /\ Chain!SignedInv
  BY LenProperties DEF Chain!ChainInv, Chain!TypeOK
<1>2. DOMAIN stored = 1..Len(stored)
  BY <1>1, LenProperties
<1> DEFINE Cut(n) == SubSeq(stored, 1, n)
           Bad == {n \in Nat : n <= Len(stored) /\ Cut(n) \notin written}
<1>3. Cut(Len(stored)) = stored /\ Cut(0) = <<>>
  BY <1>1, SubSeqFull, SubSeqEmpty
<1>4. ASSUME Bad # {} PROVE FALSE
  <2>1. PICK n \in Bad : \A m \in Bad : n <= m
    <3>1. Bad \subseteq Nat
      OBVIOUS
    <3> HIDE DEF Bad
    <3> QED
      BY <1>4, <3>1, Least
  <2>2. n # 0 /\ n \in Nat /\ n <= Len(stored)
    BY <1>1, <1>3, <2>1
  <2> DEFINE before == Cut(n - 1)
             e == stored[n]
  <2>3. before \in written
    <3>1. n - 1 \in Nat /\ n - 1 \notin Bad /\ n - 1 <= Len(stored)
      BY <1>1, <2>1, <2>2
    <3> QED
      BY <3>1
  <2>4. /\ e.prev_tag = IF n = 1 THEN Chain!Genesis ELSE stored[n - 1].tag
        /\ e.tag = Chain!Tag(e.seq, e.prev_tag, e.record)
    <3>1. n \in DOMAIN stored
      BY <1>2, <2>2
    <3> QED
      BY <3>1 DEF Chain!Verifies
  <2>5. e \in Chain!ToSet(stored) /\ e \in Chain!Entries
    <3>1. n \in 1..Len(stored)
      BY <2>2
    <3> QED
      BY <1>1, <3>1, EntriesOf
  <2>6. PICK log \in written \ {<<>>} : e = [Chain!Last(log) EXCEPT !.record = e.record]
    BY <1>1, <2>5 DEF Chain!SignedInv
  <2>7. /\ log \in Seq(Chain!Entries) /\ Len(log) \in Nat /\ Len(log) > 0
        /\ Chain!Last(log) = log[Len(log)] /\ Chain!Last(log) \in Chain!Entries
        /\ Chain!Front(log) \in written
        /\ Chain!Last(log).seq = Len(log) - 1
        /\ Chain!Last(log).prev_tag = Chain!TagOf(Chain!Front(log))
        /\ Chain!Last(log).tag =
             Chain!Tag(Len(log) - 1, Chain!TagOf(Chain!Front(log)), Chain!Last(log).record)
    BY <2>6, LogParts
  <2>8. e.seq = Chain!Last(log).seq /\ e.prev_tag = Chain!Last(log).prev_tag
        /\ e.tag = Chain!Last(log).tag
    BY <2>6, <2>7 DEF Chain!Entries
  <2>9. e.record = Chain!Last(log).record
    <3>1. Chain!Tag(e.seq, e.prev_tag, e.record) =
            Chain!Tag(Len(log) - 1, Chain!TagOf(Chain!Front(log)), Chain!Last(log).record)
      BY <2>4, <2>7, <2>8
    <3> QED
      BY <3>1, TagsTell
  <2>10. e = Chain!Last(log)
    BY <2>5, <2>7, <2>8, <2>9 DEF Chain!Entries
  <2>11. Chain!TagOf(before) = e.prev_tag
    <3>1. CASE n = 1
      BY <1>3, <2>4, <3>1 DEF Chain!TagOf
    <3>2. CASE n # 1
      <4>1. n - 1 \in 0..Len(stored) /\ n - 1 \in 1..n - 1 /\ n - 1 # 0
        BY <1>1, <2>2, <3>2
      <4>2. Len(before) = n - 1 /\ before[n - 1] = stored[n - 1]
        BY <1>1, <4>1, Beginning
      <4> HIDE DEF before
      <4>3. before # <<>>
        BY <4>1, <4>2
      <4>4. Chain!Last(before) = stored[n - 1]
        BY <4>2 DEF Chain!Last
      <4> QED
        BY <2>4, <3>2, <4>3, <4>4 DEF Chain!TagOf
    <3> QED
      BY <3>1, <3>2
  <2>12. Chain!Front(log) = before
    <3>1. Chain!TagOf(Chain!Front(log)) = Chain!TagOf(before)
      BY <2>7, <2>8, <2>11
    <3> QED
      BY <1>1, <2>3, <2>7, <3>1 DEF Chain!WrittenInv
  <2> HIDE DEF before
  <2>13. log = Append(before, e)
    <3>1. log = Append(SubSeq(log, 1, Len(log) - 1), log[Len(log)])
      BY <2>7
    <3> QED
      BY <2>7, <2>10, <2>12, <3>1 DEF Chain!Front
  <2>14. Cut(n) = Append(before, e)
    <3>1. Cut(n) \in Seq(Chain!Entries) /\ Len(Cut(n)) = n /\ \A i \in 1..n : Cut(n)[i] = stored[i]
      <4>1. n \in 0..Len(stored)
        BY <2>2
      <4> QED
        BY <1>1, <4>1, Beginning
    <3>2. before \in Seq(Chain!Entries) /\ Len(before) = n - 1
          /\ \A i \in 1..n - 1 : before[i] = stored[i]
      <4>1. n - 1 \in 0..Len(stored)
        BY <1>1, <2>2
      <4> QED
        BY <1>1, <4>1, Beginning DEF before
    <3> HIDE DEF Cut, e
    <3>3. Append(before, e) \in Seq(Chain!Entries) /\ Len(Append(before, e)) = n
          /\ Append(before, e)[n] = e /\ \A i \in 1..n - 1 : Append(before, e)[i] = before[i]
      BY <2>2, <2>5, <3>2, AppendProperties
    <3>4. \A i \in 1..n : Cut(n)[i] = Append(before, e)[i]
      <4> SUFFICES ASSUME NEW i \in 1..n PROVE Cut(n)[i] = Append(before, e)[i]
        OBVIOUS
      <4>1. CASE i = n
        BY <2>2, <3>1, <3>3, <4>1 DEF e
      <4>2. CASE i # n
        <5>1. i \in 1..n - 1
          BY <2>2, <4>2
        <5> QED
          BY <3>1, <3>2, <3>3, <5>1
      <4> QED
        BY <4>1, <4>2
    <3> QED
      BY <3>1, <3>3, <3>4, SeqEqual
  <2>15. Cut(n) \in written
    BY <2>6, <2>13, <2>14
  <2> QED
    BY <2>1, <2>15
<1>5. Cut(Len(stored)) \in written
  <2>1. Len(stored) \notin Bad
    BY <1>4
  <2> QED
    BY <1>1, <2>1
<1> QED
  BY <1>3, <1>5

LEMMA PrefixesAccepted == Chain!ChainInv => Chain!AcceptsPrefixesOnly
<1> SUFFICES ASSUME Chain!ChainInv PROVE Chain!AcceptsPrefixesOnly
  OBVIOUS
<1>1. stored \in Seq(Chain!Entries) /\ Len(stored) \in Nat /\ DOMAIN stored = 1..Len(stored)
  BY LenProperties DEF Chain!ChainInv, Chain!TypeOK
<1>2. ASSUME stored \in written
      PROVE  \A i \in 1..Len(stored) :
               /\ stored[i].seq = i - 1 /\ i - 1 < MaxSeq
               /\ stored[i].prev_tag = IF i = 1 THEN Chain!Genesis ELSE stored[i - 1].tag
               /\ stored[i].tag = Chain!Tag(stored[i].seq, stored[i].prev_tag, stored[i].record)
  BY <1>2, LogVerifies
<1>3. ASSUME stored \in written PROVE Chain!Verifies(stored, Chain!Genesis)
  <2> SUFFICES ASSUME NEW i \in DOMAIN stored
               PROVE  /\ stored[i].seq = stored[1].seq + i - 1 /\ stored[i].seq < MaxSeq
                      /\ stored[i].prev_tag = IF i = 1 THEN Chain!Genesis ELSE stored[i - 1].tag
                      /\ stored[i].tag = Chain!Tag(stored[i].seq, stored[i].prev_tag, stored[i].record)
    BY DEF Chain!Verifies
  <2>1. i \in 1..Len(stored) /\ 1 \in 1..Len(stored)
    BY <1>1
  <2>2. stored[1].seq = 0 /\ stored[i].seq = i - 1
    BY <1>2, <1>3, <2>1
  <2> QED
    BY <1>2, <1>3, <2>1, <2>2
<1>4. ASSUME stored \in written, NEW k \in 2..Len(stored)
      PROVE  Chain!Verifies(SubSeq(stored, k, Len(stored)), stored[k - 1].tag)
  <2> DEFINE part2 == SubSeq(stored, k, Len(stored))
  <2>1. \A i \in k..Len(stored) : stored[i] \in Chain!Entries
    <3>1. \A i \in k..Len(stored) : i \in 1..Len(stored)
      BY <1>1
    <3> QED
      BY <1>1, <3>1, ElementOfSeq
  <2>2. /\ part2 \in Seq(Chain!Entries) /\ Len(part2) = Len(stored) - k + 1
        /\ \A i \in 1..Len(stored) - k + 1 : part2[i] = stored[k + i - 1]
    BY <1>1, <2>1, SubSeqProperties
  <2> HIDE DEF part2
  <2>3. DOMAIN part2 = 1..Len(stored) - k + 1
    BY <2>2, LenProperties
  <2>4. ASSUME NEW i \in DOMAIN part2
        PROVE  /\ part2[i].seq = part2[1].seq + i - 1 /\ part2[i].seq < MaxSeq
               /\ part2[i].prev_tag = IF i = 1 THEN stored[k - 1].tag ELSE part2[i - 1].tag
               /\ part2[i].tag = Chain!Tag(part2[i].seq, part2[i].prev_tag, part2[i].record)
    <3> DEFINE j == k + i - 1
    <3>1. j \in 1..Len(stored) /\ k \in 1..Len(stored) /\ j # 1 /\ i \in Nat /\ k \in Nat
          /\ 1 \in 1..Len(stored) - k + 1
      BY <1>1, <2>3
    <3>2. part2[i] = stored[j] /\ part2[1] = stored[k]
      <4>1. part2[i] = stored[j]
        BY <2>2, <2>3
      <4>2. part2[1] = stored[k + 1 - 1] /\ k + 1 - 1 = k
        BY <2>2, <3>1
      <4> QED
        BY <4>1, <4>2
    <3>3. /\ stored[j].seq = j - 1 /\ j - 1 < MaxSeq /\ stored[j].prev_tag = stored[j - 1].tag
          /\ stored[j].tag = Chain!Tag(stored[j].seq, stored[j].prev_tag, stored[j].record)
          /\ stored[k].seq = k - 1
      <4> HIDE DEF j
      <4> QED
        BY <1>2, <1>4, <3>1
    <3>4. j - 1 = k - 1 + i - 1
      BY <3>1
    <3>5. CASE i = 1
      <4>1. j - 1 = k - 1
        BY <3>1, <3>5
      <4> QED
        BY <3>1, <3>2, <3>3, <3>5, <4>1
    <3>6. CASE i # 1
      <4>1. part2[i - 1] = stored[j - 1]
        <5>1. i - 1 \in 1..Len(stored) - k + 1 /\ k + (i - 1) - 1 = j - 1
          BY <1>1, <2>3, <3>1, <3>6
        <5> QED
          BY <2>2, <5>1
      <4> QED
        BY <3>1, <3>2, <3>3, <3>4, <3>6, <4>1
    <3> QED
      BY <3>5, <3>6
  <2> QED
    BY <2>4 DEF Chain!Verifies, part2
<1> QED
  BY <1>3, <1>4, VerifiedIsLog DEF Chain!AcceptsPrefixesOnly

\* What a store returns verifies if and only if it is a beginning of what a
\* writer wrote, whatever was lost, repeated, reordered or spoiled and however
\* often writers resumed (audit_chain.rs).
THEOREM VerifiedIsWritten == TriageSpec => []AcceptsPrefixesOnly
<1>1. TriageInit => Chain!ChainInv
  BY ChainInit DEF TriageInit
<1>2. Chain!ChainInv /\ [TriageNext]_triageVars => Chain!ChainInv'
  <2> SUFFICES ASSUME Chain!ChainInv, [TriageNext]_triageVars PROVE Chain!ChainInv'
    OBVIOUS
  <2>1. [Chain!Next]_chainVars
    BY DEF TriageNext, triageVars, ClustersStep, LshStep, FeedbackStep, ChainStep,
           PlattStep, SageStep
  <2> QED
    BY <2>1, ChainStepInv
<1>3. Chain!ChainInv => AcceptsPrefixesOnly
  BY PrefixesAccepted DEF AcceptsPrefixesOnly
<1> QED
  BY <1>1, <1>2, <1>3, PTL DEF TriageSpec

------------------------------------------------------------------------------
(* The credits of SAGE.                                                     *)

LEMMA SageParameters == Dimension \in Nat \ {0} /\ Scores \subseteq Int /\ Draws \in Nat
BY TriageParameters DEF Sage!SageAssumption

LEMMA SageSets ==
  /\ \A S : Sage!Cardinality(S) = Cardinality(S)
  /\ \A f : Sage!SumFunction(f) = Sum(f)
<1>1. \A S : Sage!Cardinality(S) = Cardinality(S)
  BY DEF Sage!Cardinality, Cardinality
<1>2. \A f : Sage!SumFunction(f) = Sum(f)
  BY DEF Sage!SumFunction, Sage!SumFunctionOnSet, Sage!FoldFunctionOnSet,
         Sage!MapThenFoldSet, Sum, FoldFunction, FoldFunctionOnSet, MapThenFoldSet
<1> QED
  BY <1>1, <1>2

LEMMA DimsFinite == IsFiniteSet(Sage!Dims) /\ Cardinality(Sage!Dims) = Dimension
<1>1. 1 \in Int /\ Dimension \in Int /\ 1 <= Dimension
  BY SageParameters
<1>2. IsFiniteSet(1..Dimension) /\ Cardinality(1..Dimension) = Dimension - 1 + 1
  BY <1>1, FS_Interval
<1> QED
  BY <1>1, <1>2 DEF Sage!Dims

LEMMA SageInit == Sage!Init => Sage!SageInv
<1> SUFFICES ASSUME Sage!Init PROVE Sage!SageInv
  OBVIOUS
<1>1. /\ score \in [SUBSET Sage!Dims -> Scores] /\ order = [i \in Sage!Dims |-> i]
      /\ swap_at = Dimension /\ joined = {} /\ prev_score = score[{}]
      /\ shapley = [d \in Sage!Dims |-> 0] /\ runs = 0
  BY DEF Sage!Init, Sage!Identity
<1>2. Sage!TypeOK
  BY <1>1, SageParameters DEF Sage!TypeOK, Sage!Dims
<1>3. Sum(shapley) = 0
  <2>1. shapley \in [Sage!Dims -> Nat] /\ \A d \in Sage!Dims : shapley[d] = 0
    BY <1>1
  <2> QED
    BY <2>1, DimsFinite, SumOfNats
<1>4. score[Sage!Dims] \in Int /\ score[{}] \in Int
  BY <1>1, SageParameters
<1>5. Sage!CreditsAddUp
  BY <1>1, <1>3, <1>4, SageSets DEF Sage!CreditsAddUp
<1> QED
  BY <1>1, <1>2, <1>5 DEF Sage!SageInv

LEMMA SageStepInv ==
  ASSUME Sage!SageInv, [Sage!Next]_sageVars
  PROVE  Sage!SageInv'
<1>0. /\ score \in [SUBSET Sage!Dims -> Scores] /\ order \in [Sage!Dims -> Sage!Dims]
      /\ swap_at \in Sage!Dims /\ joined \subseteq Sage!Dims
      /\ shapley \in [Sage!Dims -> Int] /\ runs \in Nat
      /\ prev_score = score[joined]
      /\ \A S \in SUBSET Sage!Dims : score[S] \in Int
      /\ Sum(shapley) = runs * (score[Sage!Dims] - score[{}]) + score[joined] - score[{}]
      /\ \A d \in Sage!Dims :
           (\A S \in SUBSET Sage!Dims : score[S \cup {d}] = score[S]) => shapley[d] = 0
  BY SageSets, SageParameters DEF Sage!SageInv, Sage!TypeOK, Sage!CreditsAddUp
<1>1. CASE UNCHANGED sageVars
  BY <1>1 DEF sageVars, Sage!SageInv, Sage!TypeOK, Sage!CreditsAddUp
<1>2. CASE Sage!Shuffle
  <2>1. UNCHANGED <<score, joined, prev_score, shapley, runs>>
    BY <1>2 DEF Sage!Shuffle
  <2>2. swap_at' \in Sage!Dims
    BY <1>0, <1>2, SageParameters DEF Sage!Shuffle, Sage!Dims
  <2>3. order' \in [Sage!Dims -> Sage!Dims]
    <3>1. PICK j \in 1..swap_at :
            order' = [order EXCEPT ![swap_at] = order[j], ![j] = order[swap_at]]
      BY <1>2 DEF Sage!Shuffle
    <3>2. j \in Sage!Dims
      BY <1>0, SageParameters DEF Sage!Dims
    <3>3. order[j] \in Sage!Dims /\ order[swap_at] \in Sage!Dims
      BY <1>0, <3>2
    <3> QED
      BY <1>0, <3>1, <3>3
  <2> QED
    BY <1>0, <2>1, <2>2, <2>3 DEF Sage!SageInv, Sage!TypeOK, Sage!CreditsAddUp
<1>3. CASE Sage!Walk
  <2> DEFINE d == order[Cardinality(joined) + 1]
             more == joined \cup {d}
  <2>1. d \in Sage!Dims
    <3>1. joined # Sage!Dims
      BY <1>3 DEF Sage!Walk
    <3>2. Cardinality(joined) \in Nat /\ Cardinality(joined) < Dimension
      <4>1. IsFiniteSet(joined) /\ Cardinality(joined) <= Cardinality(Sage!Dims)
        BY <1>0, DimsFinite, FS_Subset
      <4>2. Cardinality(joined) # Cardinality(Sage!Dims)
        BY <1>0, <3>1, DimsFinite, FS_Subset
      <4>3. Cardinality(joined) \in Nat
        BY <4>1, FS_CardinalityType
      <4> QED
        BY <4>1, <4>2, <4>3, DimsFinite, SageParameters
    <3>3. Cardinality(joined) + 1 \in Sage!Dims
      BY <3>2, SageParameters DEF Sage!Dims
    <3> QED
      BY <1>0, <3>3
  <2>2. /\ joined' = more /\ prev_score' = score[more]
        /\ shapley' = [shapley EXCEPT ![d] = shapley[d] + score[more] - prev_score]
        /\ UNCHANGED <<score, order, swap_at, runs>>
    BY <1>3, SageSets DEF Sage!Walk
  <2> HIDE DEF d
  <2>3. more \in SUBSET Sage!Dims /\ joined \in SUBSET Sage!Dims
    BY <1>0, <2>1
  <2>4. score[more] \in Int /\ score[joined] \in Int
    BY <1>0, <2>3
  <2> HIDE DEF more
  <2>5. /\ shapley' \in [Sage!Dims -> Int]
        /\ shapley'[d] = shapley[d] + score[more] - score[joined]
        /\ \A e \in Sage!Dims : e # d => shapley'[e] = shapley[e]
    BY <1>0, <2>1, <2>2, <2>4
  <2>6. Sum(shapley') = Sum(shapley) - shapley[d] + shapley'[d]
    BY <1>0, <2>1, <2>5, DimsFinite, SumUpdate
  <2>7. Sum(shapley) \in Int /\ shapley[d] \in Int
    BY <1>0, <2>1, DimsFinite, SumType
  <2>8. Sum(shapley') = Sum(shapley) + score[more] - score[joined]
    BY <2>4, <2>5, <2>6, <2>7
  <2>9. Sum(shapley') = runs * (score[Sage!Dims] - score[{}]) + score[more] - score[{}]
    <3> DEFINE total == runs * (score[Sage!Dims] - score[{}])
    <3>1. score[Sage!Dims] \in Int /\ score[{}] \in Int
      BY <1>0
    <3>2. total \in Int
      BY <1>0, <3>1
    <3>3. Sum(shapley) = total + score[joined] - score[{}]
      BY <1>0
    <3> HIDE DEF total
    <3>4. Sum(shapley') = total + score[more] - score[{}]
      BY <2>4, <2>8, <3>1, <3>2, <3>3
    <3> QED
      BY <3>4 DEF total
  <2>10. ASSUME NEW e \in Sage!Dims, \A S \in SUBSET Sage!Dims : score[S \cup {e}] = score[S]
         PROVE  shapley'[e] = 0
    <3>1. shapley[e] = 0
      BY <1>0, <2>10
    <3>2. CASE e = d
      <4>1. score[more] = score[joined]
        BY <2>3, <2>10, <3>2 DEF more
      <4> QED
        BY <2>4, <2>5, <3>1, <3>2, <4>1
    <3> QED
      BY <2>5, <3>1, <3>2
  <2>11. Sage!CreditsAddUp'
    BY <2>2, <2>9, <2>10, SageSets DEF Sage!CreditsAddUp
  <2>12. Sage!TypeOK'
    BY <1>0, <2>2, <2>3, <2>5 DEF Sage!TypeOK
  <2> QED
    BY <2>2, <2>11, <2>12 DEF Sage!SageInv
<1>4. CASE Sage!NextPermutation
  <2>1. /\ joined = Sage!Dims /\ joined' = {} /\ prev_score' = score[{}]
        /\ order' = [i \in Sage!Dims |-> i] /\ swap_at' = Dimension
        /\ runs' = runs + 1 /\ UNCHANGED <<score, shapley>>
    BY <1>4 DEF Sage!NextPermutation, Sage!Identity
  <2> DEFINE gap == score[Sage!Dims] - score[{}]
  <2>2. gap \in Int /\ score[{}] \in Int /\ score[Sage!Dims] \in Int
    BY <1>0
  <2>3. Sum(shapley) = (runs + 1) * gap + score[{}] - score[{}]
    <3>1. Sum(shapley) = runs * gap + gap
      <4>1. runs * gap \in Int
        BY <1>0, <2>2
      <4>2. Sum(shapley) = runs * gap + score[Sage!Dims] - score[{}]
        BY <1>0, <2>1
      <4> QED
        BY <2>2, <4>1, <4>2
    <3> HIDE DEF gap
    <3>2. (runs + 1) * gap = runs * gap + gap
      BY <1>0, <2>2
    <3>3. (runs + 1) * gap \in Int
      BY <1>0, <2>2
    <3> QED
      BY <2>2, <3>1, <3>2, <3>3
  <2>4. Sage!CreditsAddUp'
    BY <1>0, <2>1, <2>3, SageSets DEF Sage!CreditsAddUp
  <2>5. Sage!TypeOK'
    <3>1. order' \in [Sage!Dims -> Sage!Dims]
      BY <2>1
    <3>2. swap_at' \in Sage!Dims
      BY <2>1, SageParameters DEF Sage!Dims
    <3> QED
      BY <1>0, <2>1, <3>1, <3>2 DEF Sage!TypeOK
  <2> QED
    BY <2>1, <2>4, <2>5 DEF Sage!SageInv
<1> QED
  BY <1>1, <1>2, <1>3, <1>4 DEF Sage!Next

\* The credits of the finished permutations add up to what they explain, and
\* an irrelevant dimension gets none (sage.rs).
THEOREM CreditsStayExact == TriageSpec => []CreditsAddUp
<1>1. TriageInit => Sage!SageInv
  BY SageInit DEF TriageInit
<1>2. Sage!SageInv /\ [TriageNext]_triageVars => Sage!SageInv'
  <2> SUFFICES ASSUME Sage!SageInv, [TriageNext]_triageVars PROVE Sage!SageInv'
    OBVIOUS
  <2>1. [Sage!Next]_sageVars
    BY DEF TriageNext, triageVars, ClustersStep, LshStep, FeedbackStep, ChainStep,
           PlattStep, SageStep
  <2> QED
    BY <2>1, SageStepInv
<1>3. Sage!SageInv => CreditsAddUp
  BY DEF Sage!SageInv, CreditsAddUp
<1> QED
  BY <1>1, <1>2, <1>3, PTL DEF TriageSpec

------------------------------------------------------------------------------
(* The feedback store.                                                      *)

Labels == [point : Points, label : Feedback!Verdicts]

LEMMA FeedbackParameters ==
  /\ Capacity \in Nat \ {0} /\ Strength \in Int /\ Points \subseteq Int /\ RawScores \subseteq Nat
  /\ Kernel \in [{Feedback!Distance(p, q) : p \in Points, q \in Points} -> Nat]
BY TriageParameters DEF Feedback!FeedbackAssumption

LEMMA FeedbackSequences ==
  /\ \A x, y \in Int : Feedback!Max({x, y}) = IF x >= y THEN x ELSE y
  /\ \A f : Feedback!SumFunction(f) = Sum(f)
  /\ \A s : Feedback!ToSet(s) = {s[i] : i \in DOMAIN s}
<1>1. ASSUME NEW x \in Int, NEW y \in Int
      PROVE  Feedback!Max({x, y}) = IF x >= y THEN x ELSE y
  <2> DEFINE IsMax(m) == m \in {x, y} /\ \A z \in {x, y} : m >= z
  <2>1. Feedback!Max({x, y}) = CHOOSE m \in {x, y} : \A z \in {x, y} : m >= z
    BY DEF Feedback!Max
  <2>2. \E m \in {x, y} : \A z \in {x, y} : m >= z
    OBVIOUS
  <2>3. IsMax(Feedback!Max({x, y}))
    BY <2>1, <2>2
  <2> QED
    BY <2>3
<1>2. \A f : Feedback!SumFunction(f) = Sum(f)
  BY DEF Feedback!SumFunction, Feedback!SumFunctionOnSet, Feedback!FoldFunctionOnSet,
         Feedback!MapThenFoldSet, Sum, FoldFunction, FoldFunctionOnSet, MapThenFoldSet
<1>3. \A s : Feedback!ToSet(s) = {s[i] : i \in DOMAIN s}
  BY DEF Feedback!ToSet
<1> QED
  BY <1>1, <1>2, <1>3

\* The newest labels, by their number.
LEMMA NewestLabels ==
  ASSUME NEW s \in Seq(Labels)
  PROVE  LET first == Feedback!Max({1, Len(s) - Capacity + 1})
             newest == SubSeq(s, first, Len(s))
         IN  /\ first = IF Len(s) > Capacity THEN Len(s) - Capacity + 1 ELSE 1
             /\ newest \in Seq(Labels)
             /\ Len(newest) = IF Len(s) > Capacity THEN Capacity ELSE Len(s)
             /\ \A i \in 1..Len(newest) : newest[i] = s[first + i - 1]
<1> DEFINE first == Feedback!Max({1, Len(s) - Capacity + 1})
           newest == SubSeq(s, first, Len(s))
<1>0. Len(s) \in Nat /\ Capacity \in Nat /\ Capacity > 0 /\ Len(s) - Capacity + 1 \in Int
  BY FeedbackParameters
<1>1. first = IF Len(s) > Capacity THEN Len(s) - Capacity + 1 ELSE 1
  <2>1. Feedback!Max({1, Len(s) - Capacity + 1}) =
          IF 1 >= Len(s) - Capacity + 1 THEN 1 ELSE Len(s) - Capacity + 1
    BY <1>0, FeedbackSequences
  <2> QED
    BY <1>0, <2>1
<1> HIDE DEF first
<1>2. \A i \in first..Len(s) : s[i] \in Labels
  <2>1. \A i \in first..Len(s) : i \in 1..Len(s)
    BY <1>0, <1>1
  <2> QED
    BY <2>1, ElementOfSeq
<1>3. /\ newest \in Seq(Labels)
      /\ Len(newest) = IF first <= Len(s) THEN Len(s) - first + 1 ELSE 0
      /\ \A i \in 1..Len(s) - first + 1 : newest[i] = s[first + i - 1]
  <2>1. first \in Int /\ Len(s) \in Int
    BY <1>0, <1>1
  <2> QED
    BY <1>2, <2>1, SubSeqProperties
<1> HIDE DEF newest
<1>4. Len(newest) = IF Len(s) > Capacity THEN Capacity ELSE Len(s)
  <2>1. CASE Len(s) > Capacity
    <3>1. first = Len(s) - Capacity + 1 /\ first <= Len(s) /\ Len(s) - first + 1 = Capacity
      BY <1>0, <1>1, <2>1
    <3> QED
      BY <1>3, <2>1, <3>1
  <2>2. CASE ~(Len(s) > Capacity)
    <3>1. first = 1 /\ (first <= Len(s) <=> Len(s) # 0) /\ Len(s) - first + 1 = Len(s)
      BY <1>0, <1>1, <2>2
    <3> QED
      BY <1>3, <2>2, <3>1
  <2> QED
    BY <2>1, <2>2
<1>5. \A i \in 1..Len(newest) : newest[i] = s[first + i - 1]
  BY <1>0, <1>1, <1>3, <1>4
<1> QED
  BY <1>1, <1>3, <1>4, <1>5 DEF first, newest

\* Of no labels none are the newest.
LEMMA NoNewest ==
  ASSUME NEW s, s = <<>>
  PROVE  SubSeq(s, Feedback!Max({1, Len(s) - Capacity + 1}), Len(s)) = <<>>
<1>1. s \in Seq(Labels) /\ Len(s) = 0
  BY EmptySeq
<1> DEFINE newest == SubSeq(s, Feedback!Max({1, Len(s) - Capacity + 1}), Len(s))
<1>2. newest \in Seq(Labels) /\ Len(newest) = IF Len(s) > Capacity THEN Capacity ELSE Len(s)
  BY <1>1, NewestLabels
<1> HIDE DEF newest
<1>3. Len(newest) = 0
  BY <1>1, <1>2, FeedbackParameters
<1>4. newest = <<>>
  BY <1>2, <1>3
<1> QED
  BY <1>4 DEF newest

LEMMA FeedbackInit == Feedback!Init => Feedback!StoreInv
<1> SUFFICES ASSUME Feedback!Init PROVE Feedback!StoreInv
  OBVIOUS
<1>1. entries = <<>> /\ labelled = <<>> /\ labelled \in Seq(Labels) /\ Len(<<>>) = 0
  BY EmptySeq DEF Feedback!Init
<1>2. Feedback!TypeOK
  BY <1>1 DEF Feedback!TypeOK, Labels
<1>3. Feedback!HoldsNewest
  <2>1. SubSeq(labelled, Feedback!Max({1, Len(labelled) - Capacity + 1}), Len(labelled)) = <<>>
    BY <1>1, NoNewest
  <2> QED
    BY <1>1, <2>1 DEF Feedback!HoldsNewest
<1> QED
  BY <1>2, <1>3 DEF Feedback!StoreInv

NewestOf(s) == SubSeq(s, Feedback!Max({1, Len(s) - Capacity + 1}), Len(s))

\* One label more, and the oldest goes where there is no room.
LEMMA NewestWith ==
  ASSUME NEW s \in Seq(Labels), NEW e \in Labels
  PROVE  LET held == NewestOf(s)
             kept == IF Len(held) >= Capacity THEN Tail(held) ELSE held
         IN  Append(kept, e) = NewestOf(Append(s, e))
<1> DEFINE held == NewestOf(s)
           kept == IF Len(held) >= Capacity THEN Tail(held) ELSE held
           t == Append(s, e)
           n == Len(s)
           first(r) == Feedback!Max({1, Len(r) - Capacity + 1})
           skip == IF n > Capacity THEN n - Capacity + 1 ELSE 1
           next == IF n + 1 > Capacity THEN n + 1 - Capacity + 1 ELSE 1
<1>0. Capacity \in Nat /\ Capacity > 0
  BY FeedbackParameters
<1>1. /\ t \in Seq(Labels) /\ Len(t) = n + 1 /\ n \in Nat
      /\ t[n + 1] = e /\ \A i \in 1..n : t[i] = s[i]
  BY AppendProperties
<1>2. /\ held \in Seq(Labels) /\ Len(held) = IF n > Capacity THEN Capacity ELSE n
      /\ \A i \in 1..Len(held) : held[i] = s[skip + i - 1]
  <2>1. /\ first(s) = skip
        /\ SubSeq(s, first(s), n) \in Seq(Labels)
        /\ Len(SubSeq(s, first(s), n)) = IF n > Capacity THEN Capacity ELSE n
        /\ \A i \in 1..Len(SubSeq(s, first(s), n)) :
             SubSeq(s, first(s), n)[i] = s[first(s) + i - 1]
    BY NewestLabels
  <2>2. held = SubSeq(s, first(s), n)
    BY DEF NewestOf
  <2> HIDE DEF first, held, n, skip
  <2> QED
    BY <2>1, <2>2
<1>3. /\ NewestOf(t) \in Seq(Labels)
      /\ Len(NewestOf(t)) = IF n + 1 > Capacity THEN Capacity ELSE n + 1
      /\ \A i \in 1..Len(NewestOf(t)) : NewestOf(t)[i] = t[next + i - 1]
  <2> HIDE DEF t
  <2>1. /\ first(t) = IF Len(t) > Capacity THEN Len(t) - Capacity + 1 ELSE 1
        /\ SubSeq(t, first(t), Len(t)) \in Seq(Labels)
        /\ Len(SubSeq(t, first(t), Len(t))) = IF Len(t) > Capacity THEN Capacity ELSE Len(t)
        /\ \A i \in 1..Len(SubSeq(t, first(t), Len(t))) :
             SubSeq(t, first(t), Len(t))[i] = t[first(t) + i - 1]
    BY <1>1, NewestLabels
  <2>2. NewestOf(t) = SubSeq(t, first(t), Len(t))
    BY DEF NewestOf
  <2> HIDE DEF first
  <2>3. first(t) = next
    BY <1>1, <2>1
  <2> QED
    BY <1>1, <2>1, <2>2, <2>3
<1> HIDE DEF held, t, n
<1>4. /\ kept \in Seq(Labels)
      /\ Len(kept) = IF n >= Capacity THEN Capacity - 1 ELSE n
      /\ \A i \in 1..Len(kept) : kept[i] = s[next + i - 1]
  <2>1. CASE n < Capacity
    <3>1. kept = held /\ skip = 1 /\ next = 1 /\ Len(held) = n
      BY <1>0, <1>1, <1>2, <2>1
    <3> HIDE DEF kept, skip, next
    <3>2. ~(n >= Capacity)
      BY <1>0, <1>1, <2>1
    <3>3. \A i \in 1..Len(kept) : kept[i] = s[next + i - 1]
      BY <1>2, <3>1
    <3>4. kept \in Seq(Labels)
      BY <1>2, <3>1
    <3>5. Len(kept) = IF n >= Capacity THEN Capacity - 1 ELSE n
      BY <3>1, <3>2
    <3> QED
      BY <3>3, <3>4, <3>5
  <2>2. CASE n >= Capacity
    <3>1. Len(held) = Capacity /\ held # <<>>
      BY <1>0, <1>1, <1>2, <2>2
    <3>2. kept = Tail(held)
      BY <1>0, <3>1
    <3>3. next = skip + 1 /\ skip \in Int
      BY <1>0, <1>1, <2>2
    <3> HIDE DEF kept, skip, next
    <3>4. /\ kept \in Seq(Labels) /\ Len(kept) = Len(held) - 1
          /\ \A i \in 1..Len(kept) : kept[i] = held[i + 1]
      BY <1>2, <3>1, <3>2, HeadTailProperties
    <3>5. ASSUME NEW i \in 1..Len(kept) PROVE kept[i] = s[next + i - 1]
      <4>1. i + 1 \in 1..Len(held)
        BY <1>0, <3>1, <3>4
      <4>2. skip + (i + 1) - 1 = next + i - 1
        BY <3>3
      <4> QED
        BY <1>2, <3>4, <4>1, <4>2
    <3> QED
      BY <1>0, <1>1, <2>2, <3>1, <3>4, <3>5
  <2> HIDE DEF kept, next
  <2> QED
    BY <1>0, <1>1, <2>1, <2>2
<1> HIDE DEF kept
<1>5. /\ Append(kept, e) \in Seq(Labels) /\ Len(Append(kept, e)) = Len(kept) + 1
      /\ Append(kept, e)[Len(kept) + 1] = e
      /\ \A i \in 1..Len(kept) : Append(kept, e)[i] = kept[i]
  BY <1>4, AppendProperties
<1>6. Len(Append(kept, e)) = Len(NewestOf(t)) /\ Len(kept) \in Nat
  BY <1>0, <1>1, <1>3, <1>4, <1>5
<1> DEFINE size == Len(kept)
<1>7. size \in Nat /\ next \in Nat /\ next >= 1 /\ next + size = n + 1
  <2>1. size = IF n >= Capacity THEN Capacity - 1 ELSE n
    BY <1>4
  <2> HIDE DEF size
  <2> QED
    BY <1>0, <1>1, <2>1
<1> HIDE DEF next
<1>8. ASSUME NEW i \in 1..Len(kept) + 1 PROVE Append(kept, e)[i] = NewestOf(t)[i]
  <2>1. NewestOf(t)[i] = t[next + i - 1]
    BY <1>3, <1>5, <1>6
  <2>2. CASE i = Len(kept) + 1
    <3>1. next + i - 1 = n + 1
      BY <1>1, <1>7, <2>2
    <3> QED
      BY <1>1, <1>5, <2>1, <2>2, <3>1
  <2>3. CASE i # Len(kept) + 1
    <3>1. i \in 1..Len(kept)
      BY <1>6, <2>3
    <3>2. next + i - 1 \in 1..n
      <4>1. i \in 1..size
        BY <3>1
      <4> HIDE DEF size
      <4> QED
        BY <1>1, <1>7, <4>1
    <3> QED
      BY <1>1, <1>4, <1>5, <2>1, <3>1, <3>2
  <2> QED
    BY <2>2, <2>3
<1>9. Append(kept, e) = NewestOf(t)
  BY <1>3, <1>5, <1>6, <1>8, SeqEqual
<1> QED
  BY <1>9 DEF kept, held, t

LEMMA FeedbackStepInv ==
  ASSUME Feedback!StoreInv, [Feedback!Next]_feedbackVars
  PROVE  Feedback!StoreInv'
<1>1. CASE UNCHANGED feedbackVars
  BY <1>1 DEF feedbackVars, Feedback!StoreInv, Feedback!TypeOK, Feedback!HoldsNewest
<1>2. CASE Feedback!Clear
  <2>1. entries' = <<>> /\ labelled' = <<>>
    BY <1>2 DEF Feedback!Clear
  <2>2. <<>> \in Seq(Labels) /\ Len(<<>>) = 0
    BY EmptySeq
  <2>3. SubSeq(labelled', Feedback!Max({1, Len(labelled') - Capacity + 1}), Len(labelled')) = <<>>
    BY <2>1, NoNewest
  <2>4. Feedback!TypeOK'
    BY <2>1, <2>2 DEF Feedback!TypeOK, Labels
  <2>5. Feedback!HoldsNewest'
    BY <2>1, <2>3 DEF Feedback!HoldsNewest, Feedback!Max
  <2> QED
    BY <2>4, <2>5 DEF Feedback!StoreInv
<1>3. CASE Feedback!Label
  <2>1. PICK e \in Labels : Feedback!LabelStored(e) /\ labelled' = Append(labelled, e)
    BY <1>3 DEF Feedback!Label, Labels
  <2>2. entries = NewestOf(labelled) /\ labelled \in Seq(Labels)
    BY DEF Feedback!StoreInv, Feedback!TypeOK, Feedback!HoldsNewest, Labels, NewestOf
  <2>3. entries' = NewestOf(labelled')
    BY <2>1, <2>2, NewestWith DEF Feedback!LabelStored
  <2>4. Feedback!TypeOK'
    BY <2>1, <2>2, AppendProperties DEF Feedback!TypeOK, Labels
  <2>5. Feedback!HoldsNewest'
    BY <2>3 DEF Feedback!HoldsNewest, Feedback!Max, NewestOf
  <2> QED
    BY <2>4, <2>5 DEF Feedback!StoreInv
<1> QED
  BY <1>1, <1>2, <1>3 DEF Feedback!Next

\* Scaling by a factor of no more than the whole.
LEMMA Scaled ==
  ASSUME NEW k \in Nat, NEW a \in Nat, NEW x \in Int, -k <= x, x <= k
  PROVE  -(a * k) <= a * x /\ a * x <= a * k /\ a * k \in Nat /\ a * x \in Int
<1>1. k - x \in Nat /\ k + x \in Nat
  OBVIOUS
<1>2. a * (k - x) \in Nat /\ a * (k + x) \in Nat
  BY <1>1
<1>3. a * (k - x) = a * k - a * x /\ a * (k + x) = a * k + a * x
  OBVIOUS
<1>4. a * k \in Nat /\ a * x \in Int
  OBVIOUS
<1> QED
  BY <1>2, <1>3, <1>4

LEMMA AdjustmentBounds == Feedback!StoreInv => Feedback!AdjustmentIsBounded
<1> SUFFICES ASSUME Feedback!StoreInv PROVE Feedback!AdjustmentIsBounded
  OBVIOUS
<1> DEFINE D == 1..Len(entries)
<1>1. entries \in Seq(Labels) /\ DOMAIN entries = D /\ IsFiniteSet(D)
  <2>1. entries = NewestOf(labelled) /\ labelled \in Seq(Labels)
    BY DEF Feedback!StoreInv, Feedback!TypeOK, Feedback!HoldsNewest, Labels, NewestOf
  <2>2. NewestOf(labelled) \in Seq(Labels)
    BY <2>1, NewestLabels DEF NewestOf
  <2>3. Len(entries) \in Int /\ 1 \in Int
    BY <2>1, <2>2, LenProperties
  <2> QED
    BY <2>1, <2>2, <2>3, LenProperties, FS_Interval
<1>2. \A i \in D : entries[i] \in Labels
  BY <1>1, ElementOfSeq
<1> HIDE DEF D
<1> SUFFICES ASSUME NEW p \in Points, NEW raw \in RawScores, Feedback!KernelSum(p) > 0
             PROVE  LET base == raw * Feedback!KernelSum(p)
                        move == Feedback!Max({Strength, -Strength}) * Feedback!KernelSum(p)
                        reached == {e.label : e \in {f \in Feedback!ToSet(entries) :
                                                       Feedback!Weight(p, f) > 0}}
                    IN  /\ Feedback!Adjusted(p, raw) \in Feedback!Max({0, base - move})..(base + move)
                        /\ reached = {"Benign"} /\ Strength >= 0 => Feedback!Adjusted(p, raw) <= base
                        /\ reached = {"Confirmed"} /\ Strength >= 0 =>
                             Feedback!Adjusted(p, raw) = base + move
  BY DEF Feedback!AdjustmentIsBounded, Feedback!StoreInv
<1> DEFINE w == [i \in D |-> Feedback!Weight(p, entries[i])]
           v == [i \in D |-> Feedback!Sign(entries[i].label) * Feedback!Weight(p, entries[i])]
           K == Sum(w)
           S == Sum(v)
           size == Feedback!Max({Strength, -Strength})
           base == raw * K
           reached == {e.label : e \in {f \in Feedback!ToSet(entries) : Feedback!Weight(p, f) > 0}}
<1>3. Feedback!KernelSum(p) = K /\ Feedback!SignedSum(p) = S
  BY <1>1, FeedbackSequences DEF Feedback!KernelSum, Feedback!SignedSum
<1>4. ASSUME NEW i \in D
      PROVE  /\ Feedback!Weight(p, entries[i]) \in Nat
             /\ entries[i].label \in {"Benign", "Confirmed"}
  <2>1. entries[i].point \in Points /\ entries[i].label \in {"Benign", "Confirmed"}
    BY <1>2 DEF Labels, Feedback!Verdicts
  <2>2. Feedback!Distance(p, entries[i].point) \in
          {Feedback!Distance(q, r) : q \in Points, r \in Points}
    BY <2>1
  <2> QED
    BY <2>1, <2>2, FeedbackParameters DEF Feedback!Weight
<1>5. ASSUME NEW i \in D
      PROVE  /\ w[i] \in Nat /\ w[i] = Feedback!Weight(p, entries[i])
             /\ v[i] \in Int /\ -w[i] <= v[i] /\ v[i] <= w[i]
             /\ entries[i].label = "Benign" => v[i] = -w[i]
             /\ entries[i].label = "Confirmed" => v[i] = w[i]
             /\ w[i] = 0 => v[i] = w[i] /\ v[i] = -w[i]
  <2>1. CASE entries[i].label = "Benign"
    <3>1. Feedback!Sign(entries[i].label) = -1
      BY <2>1 DEF Feedback!Sign
    <3> QED
      BY <1>4, <2>1, <3>1
  <2>2. CASE entries[i].label = "Confirmed"
    <3>1. Feedback!Sign(entries[i].label) = 1
      BY <2>2 DEF Feedback!Sign
    <3> QED
      BY <1>4, <2>2, <3>1
  <2> QED
    BY <1>4, <2>1, <2>2
<1>6. w \in [D -> Nat] /\ w \in [D -> Int] /\ v \in [D -> Int]
  <2>1. w = [i \in D |-> w[i]] /\ v = [i \in D |-> v[i]]
    OBVIOUS
  <2> HIDE DEF w, v
  <2> QED
    BY <1>5, <2>1
<1> HIDE DEF w, v
<1>7. K \in Nat /\ K > 0 /\ S \in Int
  BY <1>1, <1>3, <1>6, SumOfNats, SumType
<1>8. -K <= S /\ S <= K /\ ((\A i \in D : v[i] = -w[i]) => S = -K)
  BY <1>1, <1>5, <1>6, SumBounds
<1>9. raw \in Nat /\ Strength \in Int
  BY FeedbackParameters
<1>10. size \in Nat /\ (size = Strength \/ size = -Strength) /\ (Strength >= 0 => size = Strength)
  <2>1. Feedback!Max({Strength, -Strength}) = IF Strength >= -Strength THEN Strength ELSE -Strength
    BY <1>9, FeedbackSequences
  <2> QED
    BY <1>9, <2>1
<1> HIDE DEF K, S, size
<1>11. base \in Nat
  BY <1>7, <1>9
<1>12. /\ -(size * K) <= Strength * S /\ Strength * S <= size * K
       /\ size * K \in Nat /\ Strength * S \in Int
  <2>1. /\ -(size * K) <= size * S /\ size * S <= size * K
        /\ size * K \in Nat /\ size * S \in Int
    BY <1>7, <1>8, <1>10, Scaled
  <2>2. CASE size = Strength
    BY <2>1, <2>2
  <2>3. CASE size = -Strength
    <3>1. Strength * S = -(size * S)
      BY <1>7, <1>9, <2>3
    <3> QED
      BY <2>1, <3>1
  <2> QED
    BY <1>10, <2>2, <2>3
<1> DEFINE moved == base + Strength * S
<1>13. Feedback!Adjusted(p, raw) = IF 0 >= moved THEN 0 ELSE moved
  <2>1. Feedback!Adjusted(p, raw) = Feedback!Max({0, moved})
    BY <1>3 DEF Feedback!Adjusted
  <2>2. moved \in Int /\ 0 \in Int
    BY <1>11, <1>12
  <2> HIDE DEF moved
  <2> QED
    BY <2>1, <2>2, FeedbackSequences
<1>14. Feedback!Max({0, base - size * K}) = IF 0 >= base - size * K THEN 0 ELSE base - size * K
  <2> DEFINE low == base - size * K
  <2>1. low \in Int /\ 0 \in Int
    BY <1>11, <1>12
  <2> HIDE DEF low
  <2>2. Feedback!Max({0, low}) = IF 0 >= low THEN 0 ELSE low
    BY <2>1, FeedbackSequences
  <2> QED
    BY <2>2 DEF low
<1>15. ASSUME NEW i \in D, w[i] # 0 PROVE entries[i].label \in reached
  <2>1. Feedback!Weight(p, entries[i]) > 0
    BY <1>5, <1>15
  <2>2. entries[i] \in Feedback!ToSet(entries)
    <3>1. Feedback!ToSet(entries) = {entries[j] : j \in DOMAIN entries}
      BY FeedbackSequences
    <3> QED
      BY <1>1, <3>1
  <2> QED
    BY <2>1, <2>2
<1> HIDE DEF reached, base
<1>16. ASSUME reached = {"Benign"} PROVE S = -K
  <2>1. \A i \in D : v[i] = -w[i]
    <3> SUFFICES ASSUME NEW i \in D PROVE v[i] = -w[i]
      OBVIOUS
    <3>1. w[i] # 0 => entries[i].label = "Benign"
      BY <1>15, <1>16
    <3> QED
      BY <1>5, <3>1
  <2> QED
    BY <1>8, <2>1
<1>17. ASSUME reached = {"Confirmed"} PROVE S = K
  <2>1. \A i \in D : v[i] = w[i]
    <3> SUFFICES ASSUME NEW i \in D PROVE v[i] = w[i]
      OBVIOUS
    <3>1. w[i] # 0 => entries[i].label = "Confirmed"
      BY <1>15, <1>17
    <3> QED
      BY <1>5, <3>1
  <2>2. v = w
    BY <1>6, <2>1
  <2> QED
    BY <2>2 DEF S, K
<1>18. Feedback!Adjusted(p, raw) \in Feedback!Max({0, base - size * K})..(base + size * K)
  BY <1>11, <1>12, <1>13, <1>14
<1>19. ASSUME reached = {"Benign"}, Strength >= 0 PROVE Feedback!Adjusted(p, raw) <= base
  <2>1. Strength * S = -(size * K)
    BY <1>7, <1>9, <1>10, <1>16, <1>19
  <2> QED
    BY <1>11, <1>12, <1>13, <2>1
<1>20. ASSUME reached = {"Confirmed"}, Strength >= 0
       PROVE  Feedback!Adjusted(p, raw) = base + size * K
  <2>1. Strength * S = size * K
    BY <1>10, <1>17, <1>20
  <2> QED
    BY <1>11, <1>12, <1>13, <2>1
<1> QED
  BY <1>3, <1>18, <1>19, <1>20 DEF base, reached, size

\* The store keeps the newest labels, and what it answers stays within its
\* strength of the score, on the side its labels say (feedback.rs).
THEOREM AdjustmentStaysBounded == TriageSpec => []AdjustmentIsBounded
<1>1. TriageInit => Feedback!StoreInv
  BY FeedbackInit DEF TriageInit
<1>2. Feedback!StoreInv /\ [TriageNext]_triageVars => Feedback!StoreInv'
  <2> SUFFICES ASSUME Feedback!StoreInv, [TriageNext]_triageVars PROVE Feedback!StoreInv'
    OBVIOUS
  <2>1. [Feedback!Next]_feedbackVars
    BY DEF TriageNext, triageVars, ClustersStep, LshStep, FeedbackStep, ChainStep,
           PlattStep, SageStep
  <2> QED
    BY <2>1, FeedbackStepInv
<1>3. Feedback!StoreInv => AdjustmentIsBounded
  BY AdjustmentBounds DEF AdjustmentIsBounded
<1> QED
  BY <1>1, <1>2, <1>3, PTL DEF TriageSpec

------------------------------------------------------------------------------
(* The clusters.                                                            *)

\* Each step leads from one set into the next.
Leads(N, S, base, step, good) ==
  /\ N \in Nat /\ good \in [0..N -> SUBSET S] /\ base \in good[0]
  /\ \A k \in 1..N : \A x \in good[k - 1] : step[<<k, x>>] \in good[k]

\* f takes those steps.
Follows(f, N, S, base, step) ==
  /\ f[0] = base
  /\ \A k \in 1..N : f[k - 1] \in S => f[k] = step[<<k, f[k - 1]>>]

\* A function computed step by step from its last value exists, where each
\* step leads from one set into the next.
LEMMA Iterates ==
  ASSUME NEW N, NEW S, NEW base, NEW step, NEW good, Leads(N, S, base, step, good)
  PROVE  \E f \in [0..N -> S] : f[0] = base /\ \A k \in 1..N : f[k] = step[<<k, f[k - 1]>>]
<1> USE DEF Leads
<1> DEFINE Walk(f, n) == /\ f \in [0..n -> S] /\ f[0] = base
                         /\ \A k \in 1..n : f[k] = step[<<k, f[k - 1]>>]
                         /\ \A k \in 0..n : f[k] \in good[k]
           Bad == {n \in 0..N : ~ \E f : Walk(f, n)}
<1>1. ASSUME Bad # {} PROVE FALSE
  <2>1. PICK n \in Bad : \A m \in Bad : n <= m
    <3>1. Bad \subseteq Nat
      OBVIOUS
    <3> HIDE DEF Bad
    <3> QED
      BY <1>1, <3>1, Least
  <2>2. CASE n = 0
    <3>1. Walk([k \in 0..0 |-> base], 0)
      BY <2>2
    <3> QED
      BY <2>1, <2>2, <3>1
  <2>3. CASE n # 0
    <3>1. n - 1 \in 0..N /\ n - 1 \notin Bad /\ n \in Nat /\ n \in 1..N
      <4>1. n \in 0..N
        BY <2>1
      <4> HIDE DEF Bad
      <4>2. n - 1 \notin Bad
        BY <2>1, <4>1
      <4> QED
        BY <2>3, <4>1, <4>2
    <3>2. PICK f : Walk(f, n - 1)
      BY <3>1
    <3> DEFINE x == step[<<n, f[n - 1]>>]
               g == [k \in 0..n |-> IF k = n THEN x ELSE f[k]]
    <3>3. f[n - 1] \in good[n - 1] /\ n - 1 \in 0..n - 1
      BY <3>1, <3>2
    <3>4. x \in good[n]
      BY <3>1, <3>3
    <3>5. x \in S
      BY <3>1, <3>4
    <3> HIDE DEF x
    <3>6. \A k \in 0..n : k # n => k \in 0..n - 1
      BY <3>1
    <3>7. g \in [0..n -> S] /\ g[n] = x /\ \A k \in 0..n - 1 : g[k] = f[k]
      BY <3>1, <3>2, <3>5, <3>6
    <3> HIDE DEF g
    <3>8. g[0] = base
      BY <3>1, <3>2, <3>7
    <3>9. \A k \in 1..n : g[k] = step[<<k, g[k - 1]>>]
      <4> SUFFICES ASSUME NEW k \in 1..n PROVE g[k] = step[<<k, g[k - 1]>>]
        OBVIOUS
      <4>1. k - 1 \in 0..n - 1 /\ g[k - 1] = f[k - 1]
        BY <3>1, <3>7
      <4>2. CASE k = n
        BY <3>7, <4>1, <4>2 DEF x
      <4>3. CASE k # n
        <5>1. k \in 1..n - 1 /\ k \in 0..n - 1
          BY <3>1, <4>3
        <5> QED
          BY <3>2, <3>7, <4>1, <5>1
      <4> QED
        BY <4>2, <4>3
    <3>10. \A k \in 0..n : g[k] \in good[k]
      BY <3>2, <3>4, <3>6, <3>7
    <3>11. Walk(g, n)
      BY <3>7, <3>8, <3>9, <3>10
    <3> QED
      BY <2>1, <3>11
  <2> QED
    BY <2>2, <2>3
<1>2. \E f \in [0..N -> S] : f[0] = base /\ \A k \in 1..N : f[k] = step[<<k, f[k - 1]>>]
  <2>1. N \in 0..N
    OBVIOUS
  <2>2. \E f : Walk(f, N)
    BY <1>1, <2>1
  <2> QED
    BY <2>2
<1> QED
  BY <1>2

\* It goes through those sets.
LEMMA IteratesStay ==
  ASSUME NEW N, NEW S, NEW base, NEW step, NEW good, Leads(N, S, base, step, good),
         NEW f, Follows(f, N, S, base, step)
  PROVE  \A k \in 0..N : f[k] \in good[k]
<1> USE DEF Leads, Follows
<1> SUFFICES ASSUME NEW k \in 0..N PROVE f[k] \in good[k]
  OBVIOUS
<1> DEFINE Off == {m \in 0..N : f[m] \notin good[m]}
<1> SUFFICES ASSUME Off # {} PROVE FALSE
  OBVIOUS
<1>1. PICK m \in Off : \A j \in Off : m <= j
  <2>1. Off \subseteq Nat
    OBVIOUS
  <2> HIDE DEF Off
  <2> QED
    BY <2>1, Least
<1>2. m \in 0..N /\ f[m] \notin good[m]
  OBVIOUS
<1>3. m # 0
  BY <1>2
<1>4. m - 1 \in 0..N /\ m \in 1..N
  BY <1>2, <1>3
<1>5. f[m - 1] \in good[m - 1]
  <2>1. m - 1 \notin Off
    <3> HIDE DEF Off
    <3> QED
      BY <1>1, <1>2
  <2> QED
    BY <1>4, <2>1
<1>6. f[m] = step[<<m, f[m - 1]>>]
  BY <1>4, <1>5
<1> QED
  BY <1>2, <1>4, <1>5, <1>6

\* One entry more.
LEMMA Appended ==
  ASSUME NEW S, NEW s \in Seq(S), NEW e \in S
  PROVE  /\ Append(s, e) \in Seq(S) /\ Len(Append(s, e)) = Len(s) + 1
         /\ DOMAIN Append(s, e) = 1..Len(s) + 1 /\ DOMAIN s = 1..Len(s) /\ Len(s) \in Nat
         /\ Append(s, e)[Len(s) + 1] = e /\ \A i \in 1..Len(s) : Append(s, e)[i] = s[i]
         /\ ToSet(Append(s, e)) = ToSet(s) \cup {e}
         /\ IsInjective(s) /\ e \notin ToSet(s) => IsInjective(Append(s, e))
<1> DEFINE t == Append(s, e)
           n == Len(s)
<1>1. /\ t \in Seq(S) /\ Len(t) = n + 1 /\ t[n + 1] = e /\ n \in Nat
      /\ \A i \in 1..n : t[i] = s[i]
  BY AppendProperties
<1>2. DOMAIN t = 1..n + 1 /\ DOMAIN s = 1..n
  BY <1>1
<1> HIDE DEF t, n
<1>3. \A i : i \in 1..n + 1 <=> (i \in 1..n \/ i = n + 1)
  BY <1>1
<1>4. ToSet(t) = ToSet(s) \cup {e}
  <2>1. \A x : x \in ToSet(t) <=> \E i \in 1..n + 1 : x = t[i]
    BY <1>2 DEF ToSet
  <2>2. \A x : x \in ToSet(s) <=> \E i \in 1..n : x = s[i]
    BY <1>2 DEF ToSet
  <2>3. \A x : (\E i \in 1..n + 1 : x = t[i]) <=> (\E i \in 1..n : x = s[i]) \/ x = e
    BY <1>1, <1>3
  <2> QED
    BY <2>1, <2>2, <2>3
<1>5. ASSUME IsInjective(s), e \notin ToSet(s) PROVE IsInjective(t)
  <2> SUFFICES ASSUME NEW i \in 1..n + 1, NEW j \in 1..n + 1, t[i] = t[j] PROVE i = j
    BY <1>2 DEF IsInjective
  <2>1. \A k \in 1..n : s[k] # e
    BY <1>2, <1>5 DEF ToSet
  <2>2. CASE i \in 1..n /\ j \in 1..n
    BY <1>1, <1>2, <1>5, <2>2 DEF IsInjective
  <2> QED
    BY <1>1, <1>3, <2>1, <2>2
<1> QED
  BY <1>1, <1>2, <1>4, <1>5 DEF t, n

\* What is left when the clusters seen last are kept.
Left(cs, of) ==
  /\ IsInjective(cs) /\ ToSet(cs) \subseteq ToSet(of) /\ Len(cs) <= Len(of)
  /\ \A c \in ToSet(of) \ ToSet(cs), d \in ToSet(cs) : c.last_seen_ms <= d.last_seen_ms

LEMMA AllLeft ==
  ASSUME NEW S, NEW cs \in Seq(S), IsInjective(cs)
  PROVE  Left(cs, cs)
<1>1. Len(cs) \in Nat
  OBVIOUS
<1> QED
  BY <1>1 DEF Left

\* A set of clusters is that of a sequence over it.
LEMMA Members ==
  ASSUME NEW S, NEW s \in Seq(S)
  PROVE  /\ ToSet(s) \subseteq S /\ DOMAIN s = 1..Len(s) /\ Len(s) \in Nat
         /\ \A i \in 1..Len(s) : s[i] \in ToSet(s) /\ s[i] \in S
         /\ s \in Seq(ToSet(s)) /\ ToSet(s) = {s[i] : i \in 1..Len(s)}
<1>1. DOMAIN s = 1..Len(s) /\ Len(s) \in Nat /\ s \in [1..Len(s) -> S]
  BY LenProperties
<1>2. ToSet(s) = {s[i] : i \in 1..Len(s)}
  BY <1>1 DEF ToSet
<1>3. \A i \in 1..Len(s) : s[i] \in ToSet(s) /\ s[i] \in S
  BY <1>1, <1>2
<1>4. ToSet(s) \subseteq S
  BY <1>2, <1>3
<1>5. SubSeq(s, 1, Len(s)) \in Seq(ToSet(s))
  BY <1>1, <1>3, SubSeqProperties
<1>6. SubSeq(s, 1, Len(s)) = s
  BY SubSeqFull
<1> QED
  BY <1>1, <1>2, <1>3, <1>4, <1>5, <1>6

LEMMA LeftOfLeft ==
  ASSUME NEW S, \A c \in S : c.last_seen_ms \in Nat,
         NEW cs \in Seq(S), NEW ds \in Seq(S), NEW es \in Seq(S), Left(cs, ds), Left(ds, es)
  PROVE  Left(cs, es)
<1>1. /\ Len(cs) \in Nat /\ Len(ds) \in Nat /\ Len(es) \in Nat
      /\ ToSet(cs) \subseteq S /\ ToSet(ds) \subseteq S /\ ToSet(es) \subseteq S
  BY Members
<1>2. ASSUME NEW c \in ToSet(es) \ ToSet(cs), NEW d \in ToSet(cs)
      PROVE  c.last_seen_ms <= d.last_seen_ms
  <2>1. d \in ToSet(ds)
    BY DEF Left
  <2>2. CASE c \in ToSet(ds)
    BY <2>2 DEF Left
  <2>3. CASE c \notin ToSet(ds)
    BY <2>1, <2>3 DEF Left
  <2> QED
    BY <2>2, <2>3
<1>3. Len(cs) <= Len(es)
  BY <1>1 DEF Left
<1> QED
  BY <1>2, <1>3 DEF Left

\* The cluster evict_oldest_cluster picks was seen last no later than any.
LEMMA OldestIs ==
  ASSUME NEW S, \A c \in S : c.last_seen_ms \in Nat, NEW cs \in Seq(S), cs # <<>>
  PROVE  /\ Oldest(cs) \in 1..Len(cs)
         /\ \A j \in 1..Len(cs) : cs[Oldest(cs)].last_seen_ms <= cs[j].last_seen_ms
<1> DEFINE n == Len(cs)
           seenAt == {cs[i].last_seen_ms : i \in 1..n}
           IsFirst(i) == i \in 1..n /\ \A j \in 1..n :
             \/ cs[i].last_seen_ms < cs[j].last_seen_ms
             \/ cs[i].last_seen_ms = cs[j].last_seen_ms /\ i <= j
<1>1. n \in Nat /\ n # 0 /\ DOMAIN cs = 1..n /\ \A i \in 1..n : cs[i].last_seen_ms \in Nat
  BY EmptySeq, Members
<1>2. PICK m \in seenAt : \A y \in seenAt : m <= y
  <2>1. seenAt \subseteq Nat /\ seenAt # {}
    <3>1. 1 \in 1..n
      BY <1>1
    <3> QED
      BY <1>1, <3>1
  <2> HIDE DEF seenAt
  <2> QED
    BY <2>1, Least
<1> DEFINE places == {i \in 1..n : cs[i].last_seen_ms = m}
<1>3. PICK i \in places : \A j \in places : i <= j
  <2>1. places \subseteq Nat /\ places # {}
    OBVIOUS
  <2> HIDE DEF places
  <2> QED
    BY <2>1, Least
<1>4. IsFirst(i)
  <2>1. i \in 1..n /\ cs[i].last_seen_ms = m /\ m \in Nat
    BY <1>1
  <2> SUFFICES ASSUME NEW j \in 1..n
               PROVE  \/ cs[i].last_seen_ms < cs[j].last_seen_ms
                      \/ cs[i].last_seen_ms = cs[j].last_seen_ms /\ i <= j
    BY <2>1
  <2>2. m <= cs[j].last_seen_ms /\ cs[j].last_seen_ms \in Nat
    BY <1>1, <1>2
  <2>3. cs[j].last_seen_ms = m => i <= j
    BY <1>3
  <2> QED
    BY <2>1, <2>2, <2>3
<1>5. IsFirst(Oldest(cs))
  <2>1. Oldest(cs) = CHOOSE k : IsFirst(k)
    BY <1>1, <1>4 DEF Oldest
  <2> QED
    BY <1>4, <2>1
<1> QED
  BY <1>1, <1>5

\* swap_remove: the others are left.
LEMMA SwapRemoved ==
  ASSUME NEW S, NEW cs \in Seq(S), IsInjective(cs), NEW o \in 1..Len(cs),
         NEW ds, ds = Front([cs EXCEPT ![o] = Last(cs)])
  PROVE  /\ ds \in Seq(S) /\ Len(ds) = Len(cs) - 1
         /\ IsInjective(ds) /\ ToSet(ds) = ToSet(cs) \ {cs[o]}
<1> DEFINE n == Len(cs)
           swapped == [cs EXCEPT ![o] = cs[n]]
           t == SubSeq(swapped, 1, n - 1)
<1>1. n \in Nat /\ n >= 1 /\ o \in 1..n /\ DOMAIN cs = 1..n /\ \A i \in 1..n : cs[i] \in S
  BY Members
<1>2. /\ swapped \in Seq(S) /\ Len(swapped) = n
      /\ \A i \in 1..n : swapped[i] = IF i = o THEN cs[n] ELSE cs[i]
  BY <1>1, ExceptSeq
<1>3. ds = t
  BY <1>2 DEF Front, Last
<1>4. /\ t \in Seq(S) /\ Len(t) = n - 1
      /\ \A i \in 1..n - 1 : t[i] = IF i = o THEN cs[n] ELSE cs[i]
  <2> HIDE DEF swapped
  <2>1. n - 1 \in 0..n /\ n - 1 \in 0..Len(swapped)
    BY <1>1, <1>2
  <2>2. /\ t \in Seq(S) /\ Len(t) = n - 1
        /\ \A i \in 1..n - 1 : t[i] = swapped[i]
    BY <1>2, <2>1, Beginning
  <2>3. \A i \in 1..n - 1 : i \in 1..n
    BY <1>1
  <2> QED
    BY <1>2, <2>2, <2>3
<1> HIDE DEF swapped, t, n
<1>5. DOMAIN t = 1..n - 1 /\ ToSet(t) = {t[i] : i \in 1..n - 1} /\ ToSet(cs) = {cs[i] : i \in 1..n}
  BY <1>1, <1>4, Members DEF ToSet
<1>6. \A i, j \in 1..n : cs[i] = cs[j] => i = j
  BY <1>1 DEF IsInjective
<1>7. \A i \in 1..n - 1 : i \in 1..n /\ i # n
  BY <1>1
<1>8. n \in 1..n
  BY <1>1
<1>9. IsInjective(t)
  <2> SUFFICES ASSUME NEW i \in 1..n - 1, NEW j \in 1..n - 1, t[i] = t[j] PROVE i = j
    BY <1>5 DEF IsInjective
  <2> QED
    BY <1>4, <1>6, <1>7, <1>8
<1>10. ASSUME NEW x \in ToSet(t) PROVE x \in ToSet(cs) \ {cs[o]}
  <2>1. PICK i \in 1..n - 1 : x = t[i]
    BY <1>5
  <2> QED
    BY <1>1, <1>4, <1>5, <1>6, <1>7, <1>8, <2>1
<1>11. ASSUME NEW x \in ToSet(cs) \ {cs[o]} PROVE x \in ToSet(t)
  <2>1. PICK i \in 1..n : x = cs[i]
    BY <1>5
  <2>2. CASE i = n
    <3>1. o # n /\ o \in 1..n - 1
      BY <1>1, <2>1, <2>2
    <3> QED
      BY <1>4, <1>5, <2>1, <2>2, <3>1
  <2>3. CASE i # n
    <3>1. i # o /\ i \in 1..n - 1
      BY <1>1, <2>1, <2>3
    <3> QED
      BY <1>4, <1>5, <2>1, <3>1
  <2> QED
    BY <2>2, <2>3
<1>12. ToSet(t) = ToSet(cs) \ {cs[o]}
  BY <1>10, <1>11
<1> QED
  BY <1>3, <1>4, <1>9, <1>12 DEF n

LEMMA EvictOldestLeaves ==
  ASSUME NEW S, \A c \in S : c.last_seen_ms \in Nat, NEW cs \in Seq(S), cs # <<>>,
         IsInjective(cs)
  PROVE  /\ EvictOldest(cs) \in Seq(S) /\ Len(EvictOldest(cs)) = Len(cs) - 1
         /\ Left(EvictOldest(cs), cs)
<1> DEFINE o == Oldest(cs)
           t == EvictOldest(cs)
<1>1. o \in 1..Len(cs) /\ \A j \in 1..Len(cs) : cs[o].last_seen_ms <= cs[j].last_seen_ms
  BY OldestIs
<1> HIDE DEF o
<1>2. t = Front([cs EXCEPT ![o] = Last(cs)])
  BY DEF EvictOldest, o
<1> HIDE DEF t
<1>3. t \in Seq(S) /\ Len(t) = Len(cs) - 1 /\ IsInjective(t) /\ ToSet(t) = ToSet(cs) \ {cs[o]}
  BY <1>1, <1>2, SwapRemoved
<1>4. Len(cs) \in Nat /\ ToSet(cs) = {cs[i] : i \in 1..Len(cs)}
  BY Members
<1>5. \A c \in ToSet(cs) \ ToSet(t), d \in ToSet(t) : c = cs[o] /\ c.last_seen_ms <= d.last_seen_ms
  BY <1>1, <1>3, <1>4
<1>6. Len(t) <= Len(cs)
  BY <1>3, <1>4
<1>7. Left(t, cs)
  BY <1>3, <1>5, <1>6 DEF Left
<1> QED
  BY <1>3, <1>7 DEF t

\* The eviction loop leaves as many as there is room for.
LEMMA EvictToLeaves ==
  ASSUME NEW S, \A c \in S : c.last_seen_ms \in Nat, NEW cs \in Seq(S), IsInjective(cs),
         NEW room \in Nat
  PROVE  /\ EvictTo(cs, room) \in Seq(S) /\ Left(EvictTo(cs, room), cs)
         /\ Len(EvictTo(cs, room)) = IF Len(cs) <= room THEN Len(cs) ELSE room
<1>1. Len(cs) \in Nat
  OBVIOUS
<1>2. CASE Len(cs) <= room
  <2>1. EvictTo(cs, room) = cs
    BY <1>2 DEF EvictTo
  <2> QED
    BY <1>2, <2>1, AllLeft
<1>3. CASE ~(Len(cs) <= room)
  <2> DEFINE N == Len(cs)
             T == Seq(S)
             step == [p \in (1..N) \X T |-> EvictOldest(p[2])]
             after(k) == {x \in T : Len(x) = N - k /\ Left(x, cs)}
             good == [k \in 0..N |-> after(k)]
  <2>1. good \in [0..N -> SUBSET T] /\ cs \in good[0]
    <3>1. cs \in after(0) /\ 0 \in 0..N
      BY <1>1, AllLeft
    <3> HIDE DEF after, T, N
    <3>2. good[0] = after(0)
      BY <3>1
    <3>3. \A k \in 0..N : after(k) \in SUBSET T
      BY DEF after
    <3> QED
      BY <3>1, <3>2, <3>3
  <2>2. ASSUME NEW k \in 1..N, NEW x \in good[k - 1] PROVE step[<<k, x>>] \in good[k]
    <3>0. k \in 0..N /\ k - 1 \in 0..N /\ N \in Nat
      BY <1>1
    <3>1. good[k] = after(k) /\ good[k - 1] = after(k - 1)
      <4> HIDE DEF after, N
      <4> QED
        BY <3>0
    <3>2. x \in Seq(S) /\ Len(x) = N - (k - 1) /\ Left(x, cs)
      BY <2>2, <3>1
    <3>3. x # <<>> /\ IsInjective(x)
      <4>1. Len(x) # 0
        <5> HIDE DEF N
        <5> QED
          BY <3>0, <3>2
      <4>2. x # <<>>
        BY <4>1, EmptySeq
      <4> QED
        BY <3>2, <4>2 DEF Left
    <3>4. EvictOldest(x) \in Seq(S) /\ Len(EvictOldest(x)) = Len(x) - 1 /\ Left(EvictOldest(x), x)
      BY <3>2, <3>3, EvictOldestLeaves
    <3>5. Left(EvictOldest(x), cs)
      BY <3>2, <3>4, LeftOfLeft
    <3>6. Len(EvictOldest(x)) = N - k
      <4> HIDE DEF N
      <4> QED
        BY <3>0, <3>2, <3>4
    <3>7. EvictOldest(x) \in after(k)
      BY <3>4, <3>5, <3>6
    <3>8. step[<<k, x>>] = EvictOldest(x)
      <4>1. <<k, x>> \in (1..N) \X T /\ <<k, x>>[2] = x
        BY <3>2
      <4> HIDE DEF N, T
      <4> QED
        BY <4>1
    <3> QED
      BY <3>1, <3>7, <3>8
  <2>3. \A k \in 1..N, x \in T : step[<<k, x>>] = EvictOldest(x)
    <3> SUFFICES ASSUME NEW k \in 1..N, NEW x \in T PROVE step[<<k, x>>] = EvictOldest(x)
      OBVIOUS
    <3>1. <<k, x>> \in (1..N) \X T /\ <<k, x>>[2] = x
      OBVIOUS
    <3> HIDE DEF N, T
    <3> QED
      BY <3>1
  <2> HIDE DEF step, good
  <2>12. \A k \in 1..N : \A x \in good[k - 1] : step[<<k, x>>] \in good[k]
    BY <2>2
  <2> HIDE DEF N, T
  <2>4. N \in Nat
    BY <1>1 DEF N
  <2>14. Leads(N, T, cs, step, good)
    BY <2>1, <2>4, <2>12 DEF Leads
  <2>5. PICK f \in [0..N -> T] : f[0] = cs /\ \A k \in 1..N : f[k] = step[<<k, f[k - 1]>>]
    BY <2>14, Iterates
  <2>6. f = [k \in 0..N |-> IF k = 0 THEN cs ELSE EvictOldest(f[k - 1])]
    <3> SUFFICES ASSUME NEW k \in 0..N PROVE f[k] = IF k = 0 THEN cs ELSE EvictOldest(f[k - 1])
      BY <2>5
    <3>1. CASE k = 0
      BY <2>5, <3>1
    <3>2. CASE k # 0
      <4>1. k \in 1..N /\ k - 1 \in 0..N
        BY <2>4, <3>2
      <4> QED
        BY <2>3, <2>5, <3>2, <4>1
    <3> QED
      BY <3>1, <3>2
  <2> DEFINE left == CHOOSE g : g = [k \in 0..N |-> IF k = 0 THEN cs ELSE EvictOldest(g[k - 1])]
  <2>7. left = [k \in 0..N |-> IF k = 0 THEN cs ELSE EvictOldest(left[k - 1])]
    BY <2>6
  <2>8. EvictTo(cs, room) = left[N - room]
    BY <1>3 DEF EvictTo, N
  <2> HIDE DEF left, T
  <2>9. Follows(left, N, T, cs, step)
    <3>1. 0 \in 0..N /\ \A k \in 1..N : k \in 0..N /\ k # 0
      BY <2>4
    <3>2. left[0] = cs
      BY <2>7, <3>1
    <3>3. \A k \in 1..N : left[k] = EvictOldest(left[k - 1])
      BY <2>7, <3>1
    <3> QED
      BY <2>3, <3>2, <3>3 DEF Follows
  <2>10. \A k \in 0..N : left[k] \in good[k]
    BY <2>9, <2>14, IteratesStay
  <2>11. N - room \in 0..N /\ N - (N - room) = room
    BY <1>3, <2>4 DEF N
  <2>13. left[N - room] \in after(N - room)
    BY <2>10, <2>11 DEF good
  <2> QED
    BY <1>3, <2>8, <2>11, <2>13 DEF N, T
<1> QED
  BY <1>2, <1>3

LEMMA ClustersParameters ==
  /\ \A a, b \in Alerts :
       /\ Similarity[<<a.attribution, b.attribution>>] \in Int
       /\ Similarity[<<a.attribution, b.attribution>>] = Similarity[<<b.attribution, a.attribution>>]
  /\ \A a \in Alerts : a.score \in Int
  /\ Threshold \in Int /\ Window \in Nat \cup {Forever} /\ Times \subseteq Nat
  /\ MaxTenants \in Nat /\ MaxTenants > 0 /\ MaxCap \in Nat /\ MaxCap > 0 /\ MaxAlerts \in Nat
BY TriageParameters DEF ClustersAssumption

\* Pruning leaves the clusters seen last, all of them within the window.
LEMMA FreshLeaves ==
  ASSUME NEW S, \A c \in S : c.last_seen_ms \in Nat, clusters \in Seq(S), IsInjective(clusters),
         NEW now \in Nat
  PROVE  /\ Fresh(now) \in Seq(S) /\ Left(Fresh(now), clusters)
         /\ Window # Forever => \A c \in ToSet(Fresh(now)) : c.last_seen_ms >= now - Window
<1>1. /\ Len(clusters) \in Nat /\ ToSet(clusters) = {clusters[i] : i \in 1..Len(clusters)}
      /\ DOMAIN clusters = 1..Len(clusters) /\ ToSet(clusters) \subseteq S
      /\ \A i \in 1..Len(clusters) : clusters[i] \in S
  BY Members
<1>2. CASE Window = Forever
  <2>1. Fresh(now) = clusters
    BY <1>2 DEF Fresh
  <2> QED
    BY <1>2, <2>1, AllLeft
<1>3. CASE Window # Forever
  <2> DEFINE N == Len(clusters)
             T == Seq(S)
             bound == now - Window
             IsFresh(k) == clusters[k].last_seen_ms >= bound
             From(k) == {clusters[i] : i \in {j \in 1..k : IsFresh(j)}}
             after(k) == {x \in T : IsInjective(x) /\ ToSet(x) = From(k) /\ Len(x) <= k}
             step == [p \in (1..N) \X T |->
                        IF IsFresh(p[1]) THEN Append(p[2], clusters[p[1]]) ELSE p[2]]
             good == [k \in 0..N |-> after(k)]
             none == <<>>
  <2>0. bound \in Int /\ N \in Nat
    BY <1>1, <1>3, ClustersParameters
  <2> HIDE DEF bound
  <2>1. good \in [0..N -> SUBSET T] /\ none \in good[0]
    <3>1. From(0) = {}
      OBVIOUS
    <3>2. ToSet(<<>>) = {} /\ IsInjective(<<>>) /\ <<>> \in T /\ Len(<<>>) = 0
      BY EmptySeq DEF ToSet, IsInjective
    <3>3. none \in after(0) /\ 0 \in 0..N
      BY <1>1, <3>1, <3>2
    <3> HIDE DEF after, T, N, none
    <3>4. good[0] = after(0)
      BY <3>3
    <3>5. \A k \in 0..N : after(k) \in SUBSET T
      BY DEF after
    <3> QED
      BY <3>3, <3>4, <3>5
  <2>2. \A k \in 1..N, x \in T :
           step[<<k, x>>] = IF IsFresh(k) THEN Append(x, clusters[k]) ELSE x
    <3> SUFFICES ASSUME NEW k \in 1..N, NEW x \in T
                 PROVE  step[<<k, x>>] = IF IsFresh(k) THEN Append(x, clusters[k]) ELSE x
      OBVIOUS
    <3>1. <<k, x>> \in (1..N) \X T /\ <<k, x>>[1] = k /\ <<k, x>>[2] = x
      OBVIOUS
    <3> HIDE DEF N, T, IsFresh
    <3> QED
      BY <3>1
  <2> HIDE DEF step, IsFresh
  <2>3. ASSUME NEW k \in 1..N, NEW x \in good[k - 1] PROVE step[<<k, x>>] \in good[k]
    <3> HIDE DEF N, after
    <3>0. k \in 0..N /\ k - 1 \in 0..N /\ N \in Nat /\ k \in Nat
      BY <2>0
    <3>1. good[k] = after(k) /\ good[k - 1] = after(k - 1)
      BY <3>0
    <3> HIDE DEF good
    <3>2. x \in Seq(S) /\ IsInjective(x) /\ ToSet(x) = From(k - 1) /\ Len(x) <= k - 1
          /\ Len(x) \in Nat
      BY <2>3, <3>1 DEF after
    <3>3. clusters[k] \in S /\ \A i \in 1..k - 1 : i \in 1..N /\ i # k
      BY <1>1, <3>0 DEF N
    <3>4. \A i \in 1..k : i \in 1..k - 1 \/ i = k
      BY <3>0
    <3>5. \A i \in 1..k - 1 : i \in 1..k
      BY <3>0
    <3>6. k \in 1..k
      BY <3>0
    <3>7. CASE IsFresh(k)
      <4>1. step[<<k, x>>] = Append(x, clusters[k])
        BY <2>2, <3>2, <3>7
      <4>2. clusters[k] \notin From(k - 1)
        <5>1. \A i, j \in 1..N : clusters[i] = clusters[j] => i = j
          BY <1>1 DEF IsInjective, N
        <5> QED
          BY <3>3, <5>1
      <4>3. From(k) = From(k - 1) \cup {clusters[k]}
        <5>1. \A c : c \in From(k) <=> \E i \in 1..k : IsFresh(i) /\ c = clusters[i]
          OBVIOUS
        <5>2. \A c : c \in From(k - 1) <=> \E i \in 1..k - 1 : IsFresh(i) /\ c = clusters[i]
          OBVIOUS
        <5> HIDE DEF From
        <5>3. \A c : c \in From(k) <=> c \in From(k - 1) \/ c = clusters[k]
          BY <3>4, <3>5, <3>6, <3>7, <5>1, <5>2
        <5> QED
          BY <5>3
      <4> HIDE DEF From
      <4> DEFINE y == Append(x, clusters[k])
      <4>4. y \in Seq(S) /\ Len(y) = Len(x) + 1 /\ ToSet(y) = ToSet(x) \cup {clusters[k]}
            /\ IsInjective(y)
        BY <3>2, <3>3, <4>2, Appended
      <4> HIDE DEF y
      <4>5. Len(y) <= k
        BY <3>0, <3>2, <4>4
      <4>6. y \in after(k)
        BY <3>2, <4>3, <4>4, <4>5 DEF after
      <4> QED
        BY <3>1, <4>1, <4>6 DEF y
    <3>8. CASE ~IsFresh(k)
      <4>1. step[<<k, x>>] = x
        BY <2>2, <3>2, <3>8
      <4>2. From(k) = From(k - 1)
        <5>1. \A i : (i \in 1..k /\ IsFresh(i)) <=> (i \in 1..k - 1 /\ IsFresh(i))
          BY <3>4, <3>5, <3>8
        <5> QED
          BY <5>1
      <4> HIDE DEF From
      <4>3. Len(x) <= k
        BY <3>0, <3>2
      <4>4. x \in after(k)
        BY <3>2, <4>2, <4>3 DEF after
      <4> QED
        BY <3>1, <4>1, <4>4
    <3> QED
      BY <3>7, <3>8
  <2>4. \A k \in 1..N : \A x \in good[k - 1] : step[<<k, x>>] \in good[k]
    BY <2>3
  <2> HIDE DEF good, N, T, none
  <2>18. Leads(N, T, none, step, good)
    BY <2>0, <2>1, <2>4 DEF Leads
  <2>5. PICK f \in [0..N -> T] : f[0] = none /\ \A k \in 1..N : f[k] = step[<<k, f[k - 1]>>]
    BY <2>18, Iterates
  <2> DEFINE Rule(g) == [k \in 0..N |->
               IF k = 0 THEN none
               ELSE IF IsFresh(k) THEN Append(g[k - 1], clusters[k]) ELSE g[k - 1]]
             kept == CHOOSE g : g = Rule(g)
  <2>6. f = Rule(f)
    <3> SUFFICES ASSUME NEW k \in 0..N
                 PROVE  f[k] = IF k = 0 THEN none
                               ELSE IF IsFresh(k) THEN Append(f[k - 1], clusters[k]) ELSE f[k - 1]
      BY <2>5
    <3>1. CASE k = 0
      BY <2>5, <3>1
    <3>2. CASE k # 0
      <4>1. k \in 1..N /\ k - 1 \in 0..N
        BY <2>0, <3>2
      <4> QED
        BY <2>2, <2>5, <3>2, <4>1
    <3> QED
      BY <3>1, <3>2
  <2>7. kept = Rule(kept)
    BY <2>6
  <2>8. Fresh(now) = kept[N]
    BY <1>3 DEF Fresh, N, IsFresh, bound, none
  <2> HIDE DEF kept
  <2>9. Follows(kept, N, T, none, step)
    <3>1. 0 \in 0..N /\ \A k \in 1..N : k \in 0..N /\ k # 0
      BY <2>0
    <3>2. kept[0] = none
      BY <2>7, <3>1
    <3>3. \A k \in 1..N : kept[k] = IF IsFresh(k) THEN Append(kept[k - 1], clusters[k]) ELSE kept[k - 1]
      BY <2>7, <3>1
    <3> QED
      BY <2>2, <3>2, <3>3 DEF Follows
  <2>10. \A k \in 0..N : kept[k] \in good[k]
    BY <2>9, <2>18, IteratesStay
  <2>11. kept[N] \in after(N)
    <3>1. N \in 0..N
      BY <2>0
    <3> QED
      BY <2>10, <3>1 DEF good
  <2> DEFINE live == Fresh(now)
  <2>12. live \in Seq(S) /\ IsInjective(live) /\ ToSet(live) = From(N) /\ Len(live) <= Len(clusters)
    BY <2>8, <2>11 DEF N, T
  <2> HIDE DEF live
  <2>13. \A i \in 1..N : clusters[i].last_seen_ms \in Nat
    BY <1>1 DEF N
  <2>14. \A c \in From(N) : c.last_seen_ms >= bound /\ c.last_seen_ms \in Nat /\ c \in ToSet(clusters)
    BY <1>1, <2>13 DEF IsFresh, N
  <2>15. \A c \in ToSet(clusters) \ From(N) : ~(c.last_seen_ms >= bound) /\ c.last_seen_ms \in Nat
    BY <1>1, <2>13 DEF IsFresh, N
  <2> HIDE DEF From
  <2>16. \A c \in ToSet(clusters) \ From(N), d \in From(N) : c.last_seen_ms <= d.last_seen_ms
    BY <2>0, <2>14, <2>15
  <2>17. Left(live, clusters)
    BY <2>12, <2>14, <2>16 DEF Left
  <2> QED
    BY <2>12, <2>14, <2>17 DEF live, bound
<1> QED
  BY <1>2, <1>3

------------------------------------------------------------------------------
(* Least and greatest.                                                      *)

LEMMA MaxIs ==
  ASSUME NEW A \in SUBSET Int, NEW m \in A, \A y \in A : y <= m
  PROVE  Max(A) = m
<1>1. Max(A) \in A /\ \A y \in A : Max(A) >= y
  <2>1. \A y \in A : m >= y
    OBVIOUS
  <2> QED
    BY <2>1 DEF Max
<1>2. Max(A) \in Int /\ m \in Int /\ Max(A) >= m /\ Max(A) <= m
  BY <1>1
<1> QED
  BY <1>2

LEMMA MinIs ==
  ASSUME NEW A \in SUBSET Int, NEW m \in A, \A y \in A : m <= y
  PROVE  Min(A) = m
<1>1. Min(A) \in A /\ \A y \in A : Min(A) <= y
  BY DEF Min
<1>2. Min(A) \in Int /\ m \in Int /\ Min(A) <= m /\ m <= Min(A)
  BY <1>1
<1> QED
  BY <1>2

LEMMA MaxOf ==
  ASSUME NEW A \in SUBSET Int, IsFiniteSet(A), A # {}
  PROVE  Max(A) \in A /\ \A y \in A : y <= Max(A)
<1>1. PICK m \in A : \A y \in A : y <= m
  BY Greatest
<1>2. Max(A) = m
  BY <1>1, MaxIs
<1> QED
  BY <1>1, <1>2

LEMMA MinOf ==
  ASSUME NEW A \in SUBSET Nat, A # {}
  PROVE  Min(A) \in A /\ \A y \in A : Min(A) <= y
<1>1. PICK m \in A : \A y \in A : m <= y
  BY Least
<1>2. A \in SUBSET Int
  OBVIOUS
<1>3. Min(A) = m
  BY <1>1, <1>2, MinIs
<1> QED
  BY <1>1, <1>3

LEMMA OfOne ==
  ASSUME NEW m \in Int
  PROVE  Max({m}) = m /\ Min({m}) = m
<1> DEFINE A == {m}
<1>1. A \in SUBSET Int /\ m \in A /\ \A y \in A : y <= m /\ m <= y
  OBVIOUS
<1> HIDE DEF A
<1>2. Max(A) = m /\ Min(A) = m
  BY <1>1, MaxIs, MinIs
<1> QED
  BY <1>2 DEF A

\* With one more value.
LEMMA MaxWith ==
  ASSUME NEW A \in SUBSET Int, IsFiniteSet(A), A # {}, NEW t \in Int
  PROVE  Max(A \cup {t}) = Max({Max(A), t}) /\ Max({Max(A), t}) \in Int
<1> DEFINE m == Max(A)
<1>1. m \in A /\ \A y \in A : y <= m
  BY MaxOf
<1> HIDE DEF m
<1>2. m \in Int /\ A \cup {t} \in SUBSET Int /\ {m, t} \in SUBSET Int
  BY <1>1
<1>3. CASE m <= t
  <2>1. \A y \in A \cup {t} : y <= t
    BY <1>1, <1>2, <1>3
  <2>2. \A y \in {m, t} : y <= t
    BY <1>2, <1>3
  <2>3. Max(A \cup {t}) = t /\ Max({m, t}) = t
    BY <1>2, <2>1, <2>2, MaxIs
  <2> QED
    BY <2>3 DEF m
<1>4. CASE ~(m <= t)
  <2>1. \A y \in A \cup {t} : y <= m
    BY <1>1, <1>2, <1>4
  <2>2. \A y \in {m, t} : y <= m
    BY <1>2, <1>4
  <2>3. Max(A \cup {t}) = m /\ Max({m, t}) = m
    BY <1>1, <1>2, <2>1, <2>2, MaxIs
  <2> QED
    BY <1>2, <2>3 DEF m
<1> QED
  BY <1>3, <1>4

LEMMA MinWith ==
  ASSUME NEW A \in SUBSET Nat, A # {}, NEW t \in Nat
  PROVE  Min(A \cup {t}) = Min({Min(A), t}) /\ Min({Min(A), t}) \in Nat
<1> DEFINE m == Min(A)
<1>1. m \in A /\ \A y \in A : m <= y
  BY MinOf
<1> HIDE DEF m
<1>2. m \in Nat /\ A \cup {t} \in SUBSET Int /\ {m, t} \in SUBSET Int
  BY <1>1
<1>3. CASE t <= m
  <2>1. \A y \in A \cup {t} : t <= y
    BY <1>1, <1>2, <1>3
  <2>2. \A y \in {m, t} : t <= y
    BY <1>2, <1>3
  <2>3. Min(A \cup {t}) = t /\ Min({m, t}) = t
    BY <1>2, <2>1, <2>2, MinIs
  <2> QED
    BY <2>3 DEF m
<1>4. CASE ~(t <= m)
  <2>1. \A y \in A \cup {t} : m <= y
    BY <1>1, <1>2, <1>4
  <2>2. \A y \in {m, t} : m <= y
    BY <1>2, <1>4
  <2>3. Min(A \cup {t}) = m /\ Min({m, t}) = m
    BY <1>1, <1>2, <2>1, <2>2, MinIs
  <2> QED
    BY <1>2, <2>3 DEF m
<1> QED
  BY <1>3, <1>4

\* The tenants of a cluster with one more of them.
LEMMA TenantJoins ==
  ASSUME NEW K, NEW ts \in Seq(K), NEW k \in K, IsInjective(ts), Len(ts) <= MaxTenants
  PROVE  /\ WithTenant(ts, k) \in Seq(K) /\ IsInjective(WithTenant(ts, k))
         /\ Len(WithTenant(ts, k)) <= MaxTenants
         /\ ToSet(WithTenant(ts, k)) \subseteq ToSet(ts) \cup {k}
<1>1. /\ MaxTenants \in Nat /\ MaxTenants > 0 /\ Len(ts) \in Nat
      /\ DOMAIN ts = 1..Len(ts) /\ ToSet(ts) = {ts[i] : i \in 1..Len(ts)}
  BY ClustersParameters, Members
<1>2. CASE Contains(ts, k)
  <2>1. WithTenant(ts, k) = ts
    BY <1>2 DEF WithTenant
  <2> QED
    BY <2>1
<1>3. CASE ~Contains(ts, k)
  <2> DEFINE us == IF Len(ts) >= MaxTenants THEN Tail(ts) ELSE ts
  <2>1. k \notin ToSet(ts)
    BY <1>1, <1>3 DEF Contains
  <2>2. us \in Seq(K) /\ IsInjective(us) /\ ToSet(us) \subseteq ToSet(ts) /\ Len(us) < MaxTenants
    <3>1. CASE Len(ts) >= MaxTenants
      <4>1. ts # <<>> /\ us = Tail(ts)
        BY <1>1, <3>1, EmptySeq
      <4>2. /\ us \in Seq(K) /\ Len(us) = Len(ts) - 1
            /\ \A i \in 1..Len(us) : us[i] = ts[i + 1]
        BY <4>1, HeadTailProperties
      <4> HIDE DEF us
      <4>3. DOMAIN us = 1..Len(us) /\ ToSet(us) = {us[i] : i \in 1..Len(us)} /\ Len(us) \in Nat
        BY <4>2, Members
      <4>4. \A i \in 1..Len(us) : i + 1 \in 1..Len(ts) /\ i \in Nat
        BY <1>1, <4>2, <4>3
      <4>5. IsInjective(us)
        <5> SUFFICES ASSUME NEW i \in 1..Len(us), NEW j \in 1..Len(us), us[i] = us[j] PROVE i = j
          BY <4>3 DEF IsInjective
        <5>1. ts[i + 1] = ts[j + 1] /\ i + 1 \in DOMAIN ts /\ j + 1 \in DOMAIN ts
          BY <1>1, <4>2, <4>4
        <5>2. i + 1 = j + 1
          BY <5>1 DEF IsInjective
        <5> QED
          BY <4>4, <5>2
      <4>6. ToSet(us) \subseteq ToSet(ts)
        BY <1>1, <4>2, <4>3, <4>4
      <4>7. Len(us) < MaxTenants
        BY <1>1, <4>2
      <4> QED
        BY <4>2, <4>5, <4>6, <4>7
    <3>2. CASE ~(Len(ts) >= MaxTenants)
      BY <1>1, <3>2
    <3> QED
      BY <3>1, <3>2
  <2>3. WithTenant(ts, k) = Append(us, k)
    <3>1. WithTenant(ts, k) = us \o <<k>>
      BY <1>3 DEF WithTenant
    <3> HIDE DEF us
    <3> QED
      BY <2>2, <3>1, AppendIsConcat
  <2> HIDE DEF us
  <2>4. k \notin ToSet(us)
    BY <2>1, <2>2
  <2>5. /\ Append(us, k) \in Seq(K) /\ IsInjective(Append(us, k))
        /\ Len(Append(us, k)) = Len(us) + 1 /\ ToSet(Append(us, k)) = ToSet(us) \cup {k}
        /\ Len(us) \in Nat
    BY <2>2, <2>4, Appended
  <2> QED
    BY <1>1, <2>2, <2>3, <2>5
<1> QED
  BY <1>2, <1>3

------------------------------------------------------------------------------
(* The invariant of the clusters.                                           *)

\* What is true of any clusters left.
Sound(cs) ==
  /\ \A i \in 1..Len(cs) :
       /\ Summary(cs[i])
       /\ \A n \in cs[i].members \ {cs[i].representative} : Belongs(n, cs[i])
  /\ \A i, j \in 1..Len(cs) : i # j =>
       /\ cs[i].members \cap cs[j].members = {}
       /\ Likeness(cs[i], seen[cs[j].representative]) < Threshold

Whole ==
  /\ TypeOK /\ Sound(clusters) /\ Len(clusters) <= max_clusters
  /\ opened = Len(clusters) + pruned + cleared
  /\ decision # <<>> => decision[1] \in clusters[decision[2]].members

LEMMA InvIsWhole == ClustersInv <=> Whole
<1>1. TypeOK => DOMAIN clusters = 1..Len(clusters)
  BY LenProperties DEF TypeOK
<1> QED
  BY <1>1 DEF ClustersInv, ClustersSummariseAlerts, ClustersKeepApart, Disjoint, Sound, Whole

LEMMA ClusterFields ==
  ASSUME seen \in Seq(Observed), NEW c \in Clusters
  PROVE  /\ c.representative \in Nat /\ c.count \in Nat /\ c.max_score \in Int
         /\ c.first_seen_ms \in Nat /\ c.last_seen_ms \in Nat
         /\ c.tenants \in Seq({a.tenant : a \in Alerts})
         /\ c.members \subseteq 1..Len(seen) /\ c.members # {}
         /\ c.members \subseteq Nat /\ IsFiniteSet(c.members) /\ Len(seen) \in Nat
<1>1. DOMAIN seen = 1..Len(seen) /\ Len(seen) \in Nat
  BY LenProperties
<1>2. c.members \subseteq 1..Len(seen) /\ c.members # {}
  BY <1>1 DEF Clusters
<1>3. IsFiniteSet(c.members)
  <2>1. IsFiniteSet(1..Len(seen))
    BY <1>1, FS_Interval
  <2> QED
    BY <1>2, <2>1, FS_Subset
<1>4. c.members \subseteq Nat
  BY <1>1, <1>2
<1> QED
  BY <1>1, <1>2, <1>3, <1>4 DEF Clusters

LEMMA AlertFields ==
  ASSUME NEW a \in Observed
  PROVE  /\ a.timestamp_ms \in Nat /\ a.timestamp_ms \in Times /\ a.score \in Int
         /\ a.tenant \in {k.tenant : k \in Alerts}
         /\ a.attribution \in {k.attribution : k \in Alerts}
<1>1. PICK kind \in Alerts, now \in Times : a = AlertAt(kind, now)
  BY DEF Observed
<1> QED
  BY <1>1, ClustersParameters DEF AlertAt

\* The representative is one of the members.
LEMMA RepresentativeIn ==
  ASSUME seen \in Seq(Observed), NEW c \in Clusters, Summary(c)
  PROVE  c.representative \in c.members /\ \A n \in c.members : c.representative <= n
BY ClusterFields, MinOf DEF Summary

\* Clusters in the sequence are different clusters.
LEMMA ClustersDiffer ==
  ASSUME TypeOK, Sound(clusters)
  PROVE  IsInjective(clusters)
<1>1. DOMAIN clusters = 1..Len(clusters) /\ \A i \in 1..Len(clusters) : clusters[i] \in Clusters
  BY Members DEF TypeOK
<1>2. \A i \in 1..Len(clusters) : clusters[i].members # {}
  BY <1>1 DEF Clusters
<1> QED
  BY <1>1, <1>2 DEF Sound, IsInjective

LEMMA LeftIsSound ==
  ASSUME TypeOK, Sound(clusters), NEW cs \in Seq(Clusters), Left(cs, clusters)
  PROVE  Sound(cs)
<1>1. /\ ToSet(clusters) = {clusters[i] : i \in 1..Len(clusters)}
      /\ \A i \in 1..Len(cs) : cs[i] \in ToSet(cs) /\ DOMAIN cs = 1..Len(cs)
  BY Members DEF TypeOK
<1>2. \A i \in 1..Len(cs) : \E p \in 1..Len(clusters) : cs[i] = clusters[p]
  BY <1>1 DEF Left
<1>3. ASSUME NEW i \in 1..Len(cs)
      PROVE  /\ Summary(cs[i])
             /\ \A n \in cs[i].members \ {cs[i].representative} : Belongs(n, cs[i])
  <2>1. PICK p \in 1..Len(clusters) : cs[i] = clusters[p]
    BY <1>2
  <2> QED
    BY <2>1 DEF Sound
<1>4. ASSUME NEW i \in 1..Len(cs), NEW j \in 1..Len(cs), i # j
      PROVE  /\ cs[i].members \cap cs[j].members = {}
             /\ Likeness(cs[i], seen[cs[j].representative]) < Threshold
  <2>1. PICK p \in 1..Len(clusters) : cs[i] = clusters[p]
    BY <1>2
  <2>2. PICK q \in 1..Len(clusters) : cs[j] = clusters[q]
    BY <1>2
  <2>3. p # q
    BY <1>1, <1>4, <2>1, <2>2 DEF Left, IsInjective
  <2> QED
    BY <2>1, <2>2, <2>3 DEF Sound
<1> QED
  BY <1>3, <1>4 DEF Sound

LEMMA Widened ==
  ASSUME NEW S, NEW T, NEW s \in Seq(S), \A i \in 1..Len(s) : s[i] \in T
  PROVE  s \in Seq(T)
<1>1. SubSeq(s, 1, Len(s)) \in Seq(T)
  <2>1. Len(s) \in Nat
    BY LenProperties
  <2> QED
    BY <2>1, SubSeqProperties
<1> QED
  BY <1>1, SubSeqFull

LEMMA Shorter ==
  ASSUME NEW S, NEW s \in Seq(S), NEW t \in Seq(S), Len(s) <= Len(t)
  PROVE  DOMAIN s \subseteq DOMAIN t /\ \A n \in 1..Len(s) : n \in 1..Len(t)
<1>1. DOMAIN s = 1..Len(s) /\ Len(s) \in Nat /\ DOMAIN t = 1..Len(t) /\ Len(t) \in Nat
  BY LenProperties
<1> DEFINE m == Len(s)
           n == Len(t)
<1>2. m \in Nat /\ n \in Nat /\ m <= n
  BY <1>1
<1> HIDE DEF m, n
<1>3. 1..m \subseteq 1..n
  BY <1>2
<1> QED
  BY <1>1, <1>3 DEF m, n

\* An alert more, or none, changes nothing of what has been seen.
LEMMA SeenStays ==
  ASSUME TypeOK, \/ UNCHANGED seen
                 \/ \E a \in Observed : seen' = Append(seen, a)
  PROVE  /\ seen' \in Seq(Observed) /\ Len(seen) <= Len(seen')
         /\ \A n \in 1..Len(seen) : seen'[n] = seen[n] /\ n \in 1..Len(seen')
         /\ Clusters \subseteq Clusters'
<1>1. seen \in Seq(Observed) /\ Len(seen) \in Nat /\ DOMAIN seen = 1..Len(seen)
  BY LenProperties DEF TypeOK
<1>2. /\ seen' \in Seq(Observed) /\ Len(seen) <= Len(seen')
      /\ \A n \in 1..Len(seen) : seen'[n] = seen[n]
  <2>1. CASE UNCHANGED seen
    BY <1>1, <2>1
  <2>2. CASE \E a \in Observed : seen' = Append(seen, a)
    <3>1. PICK a \in Observed : seen' = Append(seen, a)
      BY <2>2
    <3> DEFINE t == Append(seen, a)
    <3>2. t \in Seq(Observed) /\ Len(t) = Len(seen) + 1 /\ \A n \in 1..Len(seen) : t[n] = seen[n]
      BY <1>1, Appended
    <3>3. seen' = t
      BY <3>1
    <3> HIDE DEF t
    <3>4. Len(seen) <= Len(t)
      BY <1>1, <3>2
    <3> QED
      BY <3>2, <3>3, <3>4
  <2> QED
    BY <2>1, <2>2
<1>3. DOMAIN seen \subseteq DOMAIN seen' /\ \A n \in 1..Len(seen) : n \in 1..Len(seen')
  BY <1>1, <1>2, Shorter
<1>4. (SUBSET DOMAIN seen) \ {{}} \subseteq (SUBSET DOMAIN seen') \ {{}}
  BY <1>3
<1>5. Clusters \subseteq Clusters'
  BY <1>4 DEF Clusters
<1> QED
  BY <1>2, <1>3, <1>5

LEMMA SoundStays ==
  ASSUME TypeOK, NEW c \in Clusters,
         \/ UNCHANGED seen
         \/ \E a \in Observed : seen' = Append(seen, a)
  PROVE  /\ Stamps(c)' = Stamps(c)
         /\ Summary(c) => Summary(c)'
         /\ \A n \in c.members : Belongs(n, c) /\ c.representative \in c.members => Belongs(n, c)'
         /\ \A n \in 1..Len(seen) : c.representative \in c.members =>
              Likeness(c, seen[n])' = Likeness(c, seen[n])
<1>1. \A n \in 1..Len(seen) : seen'[n] = seen[n]
  BY SeenStays
<1>2. c.members \subseteq 1..Len(seen)
  BY ClusterFields DEF TypeOK
<1>3. /\ {seen'[n].timestamp_ms : n \in c.members} = {seen[n].timestamp_ms : n \in c.members}
      /\ {seen'[n].score : n \in c.members} = {seen[n].score : n \in c.members}
      /\ {seen'[n].tenant : n \in c.members} = {seen[n].tenant : n \in c.members}
  BY <1>1, <1>2
<1>4. Stamps(c)' = Stamps(c)
  BY <1>3 DEF Stamps
<1>5. Summary(c) => Summary(c)'
  BY <1>3, <1>4 DEF Summary
<1>6. ASSUME c.representative \in c.members, NEW n \in 1..Len(seen)
      PROVE  Likeness(c, seen[n])' = Likeness(c, seen[n])
  BY <1>1, <1>2, <1>6 DEF Likeness
<1>7. ASSUME NEW n \in c.members, Belongs(n, c), c.representative \in c.members
      PROVE  Belongs(n, c)'
  <2>1. Likeness(c, seen[n])' = Likeness(c, seen[n])
    BY <1>2, <1>6, <1>7
  <2> QED
    BY <1>1, <1>2, <1>7, <2>1 DEF Belongs
<1> QED
  BY <1>4, <1>5, <1>6, <1>7

\* So too of all of them at once.
LEMMA SoundLasts ==
  ASSUME TypeOK, NEW cs \in Seq(Clusters), Sound(cs),
         \/ UNCHANGED seen
         \/ \E a \in Observed : seen' = Append(seen, a)
  PROVE  Sound(cs)' /\ cs \in Seq(Clusters')
<1>1. \A i \in 1..Len(cs) : cs[i] \in Clusters
  BY Members
<1>2. \A i \in 1..Len(cs) : /\ cs[i].representative \in cs[i].members
                            /\ cs[i].members \subseteq 1..Len(seen)
  BY <1>1, RepresentativeIn, ClusterFields DEF Sound, TypeOK
<1>3. ASSUME NEW i \in 1..Len(cs)
      PROVE  /\ Summary(cs[i])'
             /\ \A n \in cs[i].members \ {cs[i].representative} : Belongs(n, cs[i])'
  BY <1>1, <1>2, SoundStays DEF Sound
<1>4. ASSUME NEW i \in 1..Len(cs), NEW j \in 1..Len(cs), i # j
      PROVE  /\ cs[i].members \cap cs[j].members = {}
             /\ Likeness(cs[i], seen[cs[j].representative])' < Threshold
  <2>1. Likeness(cs[i], seen[cs[j].representative])' = Likeness(cs[i], seen[cs[j].representative])
    BY <1>1, <1>2, SoundStays
  <2> QED
    BY <1>4, <2>1 DEF Sound
<1>5. Sound(cs)'
  BY <1>3, <1>4 DEF Sound
<1>6. cs \in Seq(Clusters')
  <2>1. \A i \in 1..Len(cs) : cs[i] \in Clusters'
    BY <1>1, SeenStays
  <2> QED
    BY <2>1, Widened
<1> QED
  BY <1>5, <1>6

\* Folding a later alert in keeps the summary.
LEMMA FoldedKeeps ==
  ASSUME seen \in Seq(Observed), NEW c \in Clusters, Summary(c), NEW n \in 1..Len(seen),
         \A m \in c.members : m < n, NEW d, d = Folded(c, n, seen[n])
  PROVE  /\ d \in Clusters /\ Summary(d) /\ d.representative = c.representative
         /\ d.members = c.members \cup {n}
<1> DEFINE a == seen[n]
           older == c.members
           tenants == {seen[m].tenant : m \in older}
           scores == {seen[m].score : m \in older}
<1>1. /\ a \in Observed /\ DOMAIN seen = 1..Len(seen) /\ n \in Nat
      /\ \A m \in 1..Len(seen) : seen[m] \in Observed
  BY LenProperties
<1>2. /\ a.timestamp_ms \in Nat /\ a.score \in Int /\ a.tenant \in {k.tenant : k \in Alerts}
      /\ \A m \in 1..Len(seen) : seen[m].timestamp_ms \in Nat /\ seen[m].score \in Int
  BY <1>1, AlertFields
<1>3. /\ older \subseteq 1..Len(seen) /\ older # {} /\ IsFiniteSet(older) /\ older \subseteq Nat
      /\ c.representative \in Nat /\ c.tenants \in Seq({k.tenant : k \in Alerts})
      /\ c.count \in Nat
  BY ClusterFields
<1>4. n \notin older
  BY <1>1, <1>3
<1>5. /\ d.representative = c.representative /\ d.count = c.count + 1
      /\ d.members = older \cup {n} /\ d.max_score = Max({c.max_score, a.score})
      /\ d.first_seen_ms = Min({c.first_seen_ms, a.timestamp_ms})
      /\ d.last_seen_ms = Max({c.last_seen_ms, a.timestamp_ms})
      /\ d.tenants = WithTenant(c.tenants, a.tenant)
      /\ d = [representative |-> d.representative, count |-> d.count, max_score |-> d.max_score,
              first_seen_ms |-> d.first_seen_ms, last_seen_ms |-> d.last_seen_ms,
              tenants |-> d.tenants, members |-> d.members]
  BY DEF Folded
<1> HIDE DEF a, older, tenants, scores
<1>6. d.count = Cardinality(d.members) /\ d.count \in Nat
  <2>1. Cardinality(older \cup {n}) = Cardinality(older) + 1
    BY <1>3, <1>4, FS_AddElement
  <2>2. c.count = Cardinality(older)
    BY DEF Summary, older
  <2> QED
    BY <1>3, <1>5, <2>1, <2>2
<1>7. d.representative = Min(d.members)
  <2>1. c.representative \in older /\ \A m \in older : c.representative <= m
    BY RepresentativeIn DEF older
  <2>2. c.representative <= n
    BY <1>1, <1>3, <2>1 DEF older
  <2>3. d.members \in SUBSET Int
    BY <1>1, <1>3, <1>5
  <2> QED
    BY <1>5, <2>1, <2>2, <2>3, MinIs
<1>8. Stamps(d) = Stamps(c) \cup {a.timestamp_ms}
  BY <1>5 DEF Stamps, older, a
<1>9. Stamps(c) \in SUBSET Nat /\ Stamps(c) # {} /\ IsFiniteSet(Stamps(c)) /\ Stamps(c) \in SUBSET Int
  <2> DEFINE f == [m \in 1..Len(seen) |-> seen[m].timestamp_ms]
  <2>1. Stamps(c) = {f[m] : m \in older}
    BY <1>3 DEF Stamps, older
  <2>2. Stamps(c) \in SUBSET Nat /\ Stamps(c) # {}
    BY <1>2, <1>3 DEF Stamps, older
  <2> HIDE DEF f
  <2>3. IsFiniteSet({f[m] : m \in older})
    BY <1>3, ImageFinite
  <2> QED
    BY <2>1, <2>2, <2>3
<1> DEFINE stamps == Stamps(c)
           now == a.timestamp_ms
<1> HIDE DEF stamps, now
<1>10. d.first_seen_ms = Min(Stamps(d)) /\ d.first_seen_ms \in Nat
  <2>1. /\ Stamps(d) = stamps \cup {now} /\ d.first_seen_ms = Min({Min(stamps), now})
        /\ now \in Nat /\ stamps \in SUBSET Nat /\ stamps # {}
    BY <1>2, <1>5, <1>8, <1>9 DEF Summary, stamps, now
  <2> QED
    BY <2>1, MinWith
<1>11. d.last_seen_ms = Max(Stamps(d)) /\ d.last_seen_ms \in Nat
  <2>1. /\ Stamps(d) = stamps \cup {now} /\ d.last_seen_ms = Max({Max(stamps), now})
        /\ now \in Int /\ stamps \in SUBSET Int /\ stamps # {} /\ IsFiniteSet(stamps)
        /\ stamps \cup {now} \in SUBSET Nat
    BY <1>2, <1>5, <1>8, <1>9 DEF Summary, stamps, now
  <2>2. d.last_seen_ms = Max(Stamps(d))
    BY <2>1, MaxWith
  <2>3. IsFiniteSet(stamps \cup {now}) /\ stamps \cup {now} # {} /\ stamps \cup {now} \in SUBSET Int
    BY <2>1, FS_AddElement
  <2>4. Max(stamps \cup {now}) \in stamps \cup {now}
    BY <2>3, MaxOf
  <2> QED
    BY <2>1, <2>2, <2>4
<1>12. d.max_score = Max({seen[m].score : m \in d.members}) /\ d.max_score \in Int
  <2> DEFINE f == [m \in 1..Len(seen) |-> seen[m].score]
  <2>1. {seen[m].score : m \in d.members} = scores \cup {a.score}
    BY <1>5 DEF scores, a
  <2>2. scores = {f[m] : m \in older}
    BY <1>3 DEF scores
  <2>3. scores \in SUBSET Int /\ scores # {}
    BY <1>2, <1>3 DEF scores
  <2> HIDE DEF f
  <2>4. IsFiniteSet(scores)
    BY <1>3, <2>2, ImageFinite
  <2>5. d.max_score = Max({Max(scores), a.score}) /\ a.score \in Int
    BY <1>2, <1>5 DEF Summary, scores, older
  <2> QED
    BY <2>1, <2>3, <2>4, <2>5, MaxWith
<1>13. /\ d.tenants \in Seq({k.tenant : k \in Alerts}) /\ IsInjective(d.tenants)
       /\ Len(d.tenants) <= MaxTenants
       /\ ToSet(d.tenants) \subseteq {seen[m].tenant : m \in d.members}
  <2> DEFINE K == {k.tenant : k \in Alerts}
             ts == c.tenants
             t == a.tenant
  <2>1. {seen[m].tenant : m \in d.members} = tenants \cup {a.tenant}
    BY <1>5 DEF tenants, a
  <2>2. ToSet(ts) \subseteq tenants /\ IsInjective(ts) /\ Len(ts) <= MaxTenants
    BY DEF Summary, tenants, older
  <2>3. ts \in Seq(K) /\ t \in K /\ d.tenants = WithTenant(ts, t)
    BY <1>2, <1>3, <1>5
  <2> HIDE DEF K, ts, t
  <2>4. /\ WithTenant(ts, t) \in Seq(K) /\ IsInjective(WithTenant(ts, t))
        /\ Len(WithTenant(ts, t)) <= MaxTenants
        /\ ToSet(WithTenant(ts, t)) \subseteq ToSet(ts) \cup {t}
    BY <2>2, <2>3, TenantJoins
  <2> QED
    BY <2>1, <2>2, <2>3, <2>4 DEF K, t
<1>14. d.members \in (SUBSET DOMAIN seen) \ {{}}
  BY <1>1, <1>3, <1>5
<1>15. d \in Clusters
  BY <1>3, <1>5, <1>6, <1>10, <1>11, <1>12, <1>13, <1>14 DEF Clusters
<1>16. Summary(d)
  BY <1>6, <1>7, <1>10, <1>11, <1>12, <1>13 DEF Summary
<1> QED
  BY <1>5, <1>15, <1>16 DEF older

\* An alert that resembles the cluster, and comes within the window of its
\* last one, belongs to it, and what belonged still does.
LEMMA FoldedBelongs ==
  ASSUME seen \in Seq(Observed), NEW c \in Clusters, Summary(c), NEW n \in 1..Len(seen),
         \A m \in c.members : m < n,
         \A m \in c.members \ {c.representative} : Belongs(m, c),
         Likeness(c, seen[n]) >= Threshold,
         Window # Forever => c.last_seen_ms >= seen[n].timestamp_ms - Window,
         NEW d, d.representative = c.representative, d.members = c.members \cup {n}
  PROVE  \A m \in d.members \ {d.representative} : Belongs(m, d)
<1>1. ASSUME NEW x PROVE Likeness(d, x) = Likeness(c, x)
  BY DEF Likeness
<1>2. ASSUME NEW m \in c.members \ {c.representative} PROVE Belongs(m, d)
  BY <1>1 DEF Belongs
<1>3. Belongs(n, d)
  <2>1. ASSUME Window # Forever
        PROVE  \E m \in c.members : m < n /\ seen[m].timestamp_ms >= seen[n].timestamp_ms - Window
    <3> DEFINE stamps == Stamps(c)
               f == [m \in 1..Len(seen) |-> seen[m].timestamp_ms]
    <3>1. /\ c.members \subseteq 1..Len(seen) /\ c.members # {} /\ IsFiniteSet(c.members)
          /\ DOMAIN seen = 1..Len(seen) /\ \A m \in 1..Len(seen) : seen[m] \in Observed
      BY ClusterFields, LenProperties
    <3>2. \A m \in 1..Len(seen) : seen[m].timestamp_ms \in Int
      BY <3>1, AlertFields
    <3>3. stamps = {f[m] : m \in c.members}
      BY <3>1 DEF Stamps
    <3>4. stamps \in SUBSET Int /\ stamps # {}
      BY <3>1, <3>2 DEF Stamps
    <3> HIDE DEF f
    <3>5. IsFiniteSet({f[m] : m \in c.members})
      BY <3>1, ImageFinite
    <3>6. c.last_seen_ms = Max(stamps)
      BY DEF Summary
    <3> HIDE DEF stamps
    <3>7. c.last_seen_ms \in stamps
      BY <3>3, <3>4, <3>5, <3>6, MaxOf
    <3>8. PICK m \in c.members : seen[m].timestamp_ms = c.last_seen_ms
      BY <3>7 DEF stamps, Stamps
    <3> QED
      BY <2>1, <3>8
  <2>2. Likeness(d, seen[n]) >= Threshold
    BY <1>1
  <2> QED
    BY <2>1, <2>2 DEF Belongs
<1> QED
  BY <1>2, <1>3

\* Alert n is folded into the b-th cluster, or opens a cluster of its own.
Joining(cs, n, b, d, ds) ==
  /\ seen \in Seq(Observed) /\ cs \in Seq(Clusters) /\ n \in 1..Len(seen) /\ b \in 1..Len(cs)
  /\ Sound(cs) /\ Likeness(cs[b], seen[n]) >= Threshold
  /\ \A i \in 1..Len(cs) : \A m \in cs[i].members : m < n
  /\ Window # Forever => cs[b].last_seen_ms >= seen[n].timestamp_ms - Window
  /\ d = Folded(cs[b], n, seen[n]) /\ ds = [cs EXCEPT ![b] = d]

Opening(cs, n, d, ds) ==
  /\ seen \in Seq(Observed) /\ cs \in Seq(Clusters) /\ n \in 1..Len(seen) /\ Sound(cs)
  /\ \A i \in 1..Len(cs) : \A m \in cs[i].members : m < n
  /\ \A i \in 1..Len(cs) : Likeness(cs[i], seen[n]) < Threshold
  /\ d = Fold1(n, seen[n]) /\ ds = Append(cs, d)

\* What comes of it.
SoundWith(ds, n, b) == ds \in Seq(Clusters) /\ Sound(ds) /\ n \in ds[b].members

LEMMA Joined ==
  ASSUME NEW cs, NEW n, NEW b, NEW d, NEW ds, Joining(cs, n, b, d, ds)
  PROVE  /\ SoundWith(ds, n, b) /\ Len(ds) = Len(cs)
         /\ \A i \in 1..Len(cs) : ds[i].representative = cs[i].representative
<1> USE DEF Joining
<1> DEFINE c == cs[b]
<1>1. c \in Clusters /\ Summary(c) /\ \A i \in 1..Len(cs) : cs[i] \in Clusters
  BY Members DEF Sound
<1>2. /\ d \in Clusters /\ Summary(d) /\ d.representative = c.representative
      /\ d.members = c.members \cup {n}
  BY <1>1, FoldedKeeps
<1>3. \A m \in c.members \ {c.representative} : Belongs(m, c)
  BY DEF Sound
<1>4. \A m \in d.members \ {d.representative} : Belongs(m, d)
  <2> HIDE DEF c
  <2>1. /\ \A m \in c.members : m < n
        /\ Likeness(c, seen[n]) >= Threshold
        /\ Window # Forever => c.last_seen_ms >= seen[n].timestamp_ms - Window
    BY DEF c
  <2> QED
    BY <1>1, <1>2, <1>3, <2>1, FoldedBelongs
<1>5. /\ ds \in Seq(Clusters) /\ Len(ds) = Len(cs)
      /\ \A i \in 1..Len(cs) : ds[i] = IF i = b THEN d ELSE cs[i]
  BY <1>2, ExceptSeq
<1>6. n \in Nat /\ \A i \in 1..Len(cs) : n \notin cs[i].members
  <2>1. Len(seen) \in Nat
    BY LenProperties
  <2> QED
    BY <2>1
<1>7. ASSUME NEW i \in 1..Len(cs)
      PROVE  /\ Summary(ds[i])
             /\ \A m \in ds[i].members \ {ds[i].representative} : Belongs(m, ds[i])
             /\ ds[i].representative = cs[i].representative
             /\ ds[i].members = IF i = b THEN cs[i].members \cup {n} ELSE cs[i].members
  <2>1. CASE i = b
    BY <1>2, <1>4, <1>5, <2>1
  <2>2. CASE i # b
    BY <1>5, <2>2 DEF Sound
  <2> QED
    BY <2>1, <2>2
<1>8. ASSUME NEW i \in 1..Len(cs), NEW j \in 1..Len(cs), i # j
      PROVE  /\ ds[i].members \cap ds[j].members = {}
             /\ Likeness(ds[i], seen[ds[j].representative]) < Threshold
  <2>1. cs[i].members \cap cs[j].members = {}
    BY <1>8 DEF Sound
  <2>2. ds[i].members \cap ds[j].members = {}
    <3>1. /\ ds[i].members \subseteq cs[i].members \cup (IF i = b THEN {n} ELSE {})
          /\ ds[j].members \subseteq cs[j].members \cup (IF j = b THEN {n} ELSE {})
      BY <1>7
    <3>2. n \notin cs[i].members /\ n \notin cs[j].members
      BY <1>6
    <3> QED
      BY <1>8, <2>1, <3>1, <3>2
  <2>3. Likeness(cs[i], seen[cs[j].representative]) < Threshold
    BY <1>8 DEF Sound
  <2>4. Likeness(ds[i], seen[ds[j].representative]) = Likeness(cs[i], seen[cs[j].representative])
    BY <1>7 DEF Likeness
  <2> QED
    BY <2>2, <2>3, <2>4
<1>9. Sound(ds)
  BY <1>5, <1>7, <1>8 DEF Sound
<1>10. n \in ds[b].members
  BY <1>2, <1>5
<1> QED
  BY <1>5, <1>7, <1>9, <1>10 DEF SoundWith

\* A cluster of its own for an alert that none is near to.
LEMMA Opened ==
  ASSUME NEW cs, NEW n, NEW d, NEW ds, Opening(cs, n, d, ds)
  PROVE  /\ SoundWith(ds, n, Len(ds)) /\ Len(ds) = Len(cs) + 1
         /\ ToSet(ds) = ToSet(cs) \cup {d} /\ d.representative = n
<1> USE DEF Opening
<1> DEFINE a == seen[n]
           k == Len(cs)
<1>1. /\ a \in Observed /\ DOMAIN seen = 1..Len(seen) /\ Len(seen) \in Nat
      /\ k \in Nat /\ \A i \in 1..k : cs[i] \in Clusters
  BY LenProperties, Members
<1>2. /\ a.timestamp_ms \in Nat /\ a.score \in Int /\ a.tenant \in {x.tenant : x \in Alerts}
      /\ n \in Nat
  BY <1>1, AlertFields
<1> HIDE DEF a, k
<1>3. /\ d = [representative |-> n, count |-> 1, max_score |-> a.score,
              first_seen_ms |-> a.timestamp_ms, last_seen_ms |-> a.timestamp_ms,
              tenants |-> <<a.tenant>>, members |-> {n}]
  BY DEF Fold1, a
<1>4. <<a.tenant>> \in Seq({x.tenant : x \in Alerts}) /\ Len(<<a.tenant>>) = 1
      /\ ToSet(<<a.tenant>>) = {a.tenant} /\ IsInjective(<<a.tenant>>)
  BY <1>2 DEF ToSet, IsInjective
<1>5. d \in Clusters
  BY <1>1, <1>2, <1>3, <1>4 DEF Clusters
<1>6. Summary(d)
  <2>1. Stamps(d) = {a.timestamp_ms}
    BY <1>3 DEF Stamps, a
  <2>2. {seen[m].score : m \in d.members} = {a.score} /\ {seen[m].tenant : m \in d.members} = {a.tenant}
    BY <1>3 DEF a
  <2>3. /\ Max({a.score}) = a.score /\ Min({n}) = n
        /\ Max({a.timestamp_ms}) = a.timestamp_ms /\ Min({a.timestamp_ms}) = a.timestamp_ms
    <3>1. a.score \in Int /\ a.timestamp_ms \in Int /\ n \in Int
      BY <1>2
    <3> QED
      BY <3>1, OfOne, Zenon
  <2>5. Cardinality({n}) = 1
    BY FS_Singleton
  <2>6. d.members = {n} /\ d.count = 1 /\ d.representative = n
        /\ d.first_seen_ms = a.timestamp_ms /\ d.last_seen_ms = a.timestamp_ms
        /\ d.max_score = a.score /\ d.tenants = <<a.tenant>>
    BY <1>3
  <2>7. Len(d.tenants) <= MaxTenants
    BY <1>4, <2>6, ClustersParameters
  <2> QED
    BY <1>4, <2>1, <2>2, <2>3, <2>5, <2>6, <2>7 DEF Summary
<1>7. d.representative = n /\ d.members = {n}
  BY <1>3
<1>8. /\ ds \in Seq(Clusters) /\ Len(ds) = k + 1 /\ ds[k + 1] = d
      /\ \A i \in 1..k : ds[i] = cs[i]
      /\ ToSet(ds) = ToSet(cs) \cup {d}
  BY <1>5, Appended DEF k
<1>9. \A i \in 1..k + 1 : i \in 1..k \/ i = k + 1
  BY <1>1
<1>10. \A i \in 1..k : n \notin cs[i].members
  BY <1>2 DEF k
<1>11. ASSUME NEW i \in 1..k
       PROVE  /\ Likeness(cs[i], seen[n]) < Threshold
              /\ Likeness(d, seen[cs[i].representative]) < Threshold
  <2>1. cs[i].representative \in cs[i].members
    BY <1>1, RepresentativeIn DEF Sound, k
  <2>2. cs[i].representative \in 1..Len(seen)
    BY <1>1, <2>1, ClusterFields
  <2>3. seen[cs[i].representative] \in Observed
    BY <1>1, <2>2, LenProperties
  <2>4. PICK x \in Alerts : seen[cs[i].representative].attribution = x.attribution
    BY <2>3, AlertFields
  <2>5. PICK y \in Alerts : seen[n].attribution = y.attribution
    BY <1>1, AlertFields DEF a
  <2>6. Likeness(d, seen[cs[i].representative]) = Likeness(cs[i], seen[n])
    BY <1>7, <2>4, <2>5, ClustersParameters DEF Likeness
  <2> QED
    BY <2>6 DEF k
<1>12. ASSUME NEW i \in 1..k + 1
       PROVE  /\ Summary(ds[i])
              /\ \A m \in ds[i].members \ {ds[i].representative} : Belongs(m, ds[i])
  <2>1. CASE i \in 1..k
    BY <1>8, <2>1 DEF Sound, k
  <2>2. CASE i = k + 1
    BY <1>6, <1>7, <1>8, <2>2
  <2> QED
    BY <1>9, <2>1, <2>2
<1>13. ASSUME NEW i \in 1..k + 1, NEW j \in 1..k + 1, i # j
       PROVE  /\ ds[i].members \cap ds[j].members = {}
              /\ Likeness(ds[i], seen[ds[j].representative]) < Threshold
  <2>1. CASE i \in 1..k /\ j \in 1..k
    BY <1>8, <1>13, <2>1 DEF Sound, k
  <2>2. CASE i \in 1..k /\ j = k + 1
    BY <1>7, <1>8, <1>10, <1>11, <2>2
  <2>3. CASE i = k + 1 /\ j \in 1..k
    BY <1>7, <1>8, <1>10, <1>11, <2>3
  <2> QED
    BY <1>9, <1>13, <2>1, <2>2, <2>3
<1>14. Sound(ds)
  BY <1>8, <1>12, <1>13 DEF Sound
<1> QED
  BY <1>1, <1>7, <1>8, <1>14 DEF SoundWith, k

\* The same, as formulas that hold in the next state too.
JoinsSoundly ==
  \A cs, n, b, d, ds : Joining(cs, n, b, d, ds) =>
    /\ SoundWith(ds, n, b) /\ Len(ds) = Len(cs)
    /\ \A i \in 1..Len(cs) : ds[i].representative = cs[i].representative

LEMMA AlwaysJoins == JoinsSoundly
BY Joined DEF JoinsSoundly

OpensSoundly ==
  \A cs, n, d, ds : Opening(cs, n, d, ds) =>
    /\ SoundWith(ds, n, Len(ds)) /\ Len(ds) = Len(cs) + 1
    /\ ToSet(ds) = ToSet(cs) \cup {d} /\ d.representative = n

LEMMA AlwaysOpens == OpensSoundly
BY Opened DEF OpensSoundly

LEMMA LikenessIs ==
  ASSUME seen \in Seq(Observed), NEW c \in Clusters, Summary(c), NEW a \in Observed
  PROVE  Likeness(c, a) \in Int
<1>1. c.representative \in 1..Len(seen) /\ DOMAIN seen = 1..Len(seen)
  BY RepresentativeIn, ClusterFields, LenProperties
<1>2. seen[c.representative] \in Observed
  BY <1>1, LenProperties
<1>3. PICK x \in Alerts : seen[c.representative].attribution = x.attribution
  BY <1>2, AlertFields
<1>4. PICK y \in Alerts : a.attribution = y.attribution
  BY AlertFields
<1> QED
  BY <1>3, <1>4, ClustersParameters DEF Likeness

\* The best cluster is one that is near.
LEMMA BestIs ==
  ASSUME seen \in Seq(Observed), NEW cs \in Seq(Clusters), Sound(cs), NEW a \in Observed
  PROVE  /\ Near(cs, a) # {} => /\ Best(cs, a) \in 1..Len(cs)
                                /\ Likeness(cs[Best(cs, a)], a) >= Threshold
         /\ Near(cs, a) = {} => \A i \in 1..Len(cs) : Likeness(cs[i], a) < Threshold
<1> DEFINE near == Near(cs, a)
           like == [i \in 1..Len(cs) |-> Likeness(cs[i], a)]
           likes == {like[i] : i \in near}
           IsBest(i) == i \in near /\ \A j \in near :
             \/ Likeness(cs[j], a) < Likeness(cs[i], a)
             \/ Likeness(cs[j], a) = Likeness(cs[i], a) /\ j <= i
<1>1. DOMAIN cs = 1..Len(cs) /\ Len(cs) \in Nat /\ \A i \in 1..Len(cs) : cs[i] \in Clusters
  BY Members
<1>2. \A i \in 1..Len(cs) : like[i] = Likeness(cs[i], a) /\ like[i] \in Int
  BY <1>1, LikenessIs DEF Sound
<1>3. near = {i \in 1..Len(cs) : like[i] >= Threshold} /\ Threshold \in Int
  BY <1>1, <1>2, ClustersParameters DEF Near
<1>4. ASSUME near # {}
      PROVE  Best(cs, a) \in near
  <2> HIDE DEF like, near
  <2>0. IsFiniteSet(near) /\ near \subseteq 1..Len(cs)
    <3>1. IsFiniteSet(1..Len(cs))
      BY <1>1, FS_Interval
    <3> QED
      BY <1>3, <3>1, FS_Subset
  <2>1. PICK m \in likes : \A y \in likes : y <= m
    <3>1. likes \in SUBSET Int /\ likes # {} /\ IsFiniteSet(likes)
      BY <1>2, <1>4, <2>0, ImageFinite
    <3> HIDE DEF likes
    <3> QED
      BY <3>1, Greatest
  <2> DEFINE places == {i \in near : like[i] = m}
  <2>2. PICK i \in places : \A j \in places : j <= i
    <3>1. places \in SUBSET Int /\ places # {} /\ IsFiniteSet(places)
      <4>0. PICK i \in near : m = like[i]
        OBVIOUS
      <4>1. places \in SUBSET near /\ places \in SUBSET Int /\ places # {}
        <5>1. 1..Len(cs) \subseteq Int
          BY <1>1
        <5>2. i \in places
          BY <4>0
        <5>3. places \subseteq near
          OBVIOUS
        <5> HIDE DEF places
        <5> QED
          BY <2>0, <5>1, <5>2, <5>3
      <4> HIDE DEF places
      <4>2. IsFiniteSet(places)
        BY <2>0, <4>1, FS_Subset
      <4> QED
        BY <4>1, <4>2
    <3> HIDE DEF places
    <3> QED
      BY <3>1, Greatest
  <2>3. \A j \in near : \/ like[j] < like[i]
                        \/ like[j] = like[i] /\ j <= i
    <3> SUFFICES ASSUME NEW j \in near
                 PROVE  like[j] < like[i] \/ (like[j] = like[i] /\ j <= i)
      OBVIOUS
    <3>1. like[j] <= m /\ like[j] \in Int /\ like[i] = m /\ m \in Int
      BY <1>2, <2>0, <2>1
    <3>2. like[j] = m => j <= i
      BY <2>2
    <3> QED
      BY <3>1, <3>2
  <2>4. i \in near /\ i \in 1..Len(cs) /\ \A j \in near : j \in 1..Len(cs)
    BY <2>0
  <2>5. IsBest(i)
    BY <1>2, <2>3, <2>4
  <2>6. Best(cs, a) = CHOOSE k : IsBest(k)
    BY DEF Best, near
  <2> HIDE DEF IsBest
  <2>7. IsBest(Best(cs, a))
    BY <2>5, <2>6
  <2> QED
    BY <2>7 DEF IsBest
<1>5. ASSUME near = {}
      PROVE  \A i \in 1..Len(cs) : Likeness(cs[i], a) < Threshold
  <2> HIDE DEF like, near
  <2>1. \A i \in 1..Len(cs) : ~(like[i] >= Threshold)
    BY <1>3, <1>5
  <2> QED
    BY <1>2, <1>3, <2>1
<1> QED
  BY <1>2, <1>3, <1>4, <1>5

------------------------------------------------------------------------------
(* The steps of the clusterer.                                              *)

\* What may be said of any step from cs, the clusters it leaves.
Leaving(cs) ==
  /\ cs \in Seq(Clusters) /\ Left(cs, clusters) /\ Sound(cs)
  /\ \A e \in ToSet(clusters') :
       e.representative = Len(seen) + 1 \/ \E x \in ToSet(cs) : x.representative = e.representative
  /\ \A x \in ToSet(cs) : \E e \in ToSet(clusters') : x.representative = e.representative

LEMMA InvParts ==
  ASSUME ClustersInv
  PROVE  /\ TypeOK /\ Sound(clusters) /\ IsInjective(clusters) /\ clusters \in Seq(Clusters)
         /\ seen \in Seq(Observed) /\ Len(clusters) \in Nat /\ Len(clusters) <= max_clusters
         /\ max_clusters \in 1..MaxCap /\ opened \in Nat /\ pruned \in Nat /\ cleared \in Nat
         /\ opened = Len(clusters) + pruned + cleared
         /\ \A c \in Clusters : c.last_seen_ms \in Nat
<1>1. TypeOK
  BY DEF ClustersInv
<1>2. /\ clusters \in Seq(Clusters) /\ seen \in Seq(Observed)
      /\ max_clusters \in 1..MaxCap /\ opened \in Nat /\ pruned \in Nat /\ cleared \in Nat
  BY <1>1 DEF TypeOK
<1>3. Len(clusters) \in Nat
  BY <1>2, LenProperties
<1>4. \A c \in Clusters : c.last_seen_ms \in Nat
  BY DEF Clusters
<1>5. /\ Sound(clusters) /\ Len(clusters) <= max_clusters
      /\ opened = Len(clusters) + pruned + cleared
  BY InvIsWhole DEF Whole
<1> QED
  BY <1>1, <1>2, <1>3, <1>4, <1>5, ClustersDiffer

LEMMA FreshIs ==
  ASSUME ClustersInv, NEW now \in Times, NEW live, live = Fresh(now)
  PROVE  /\ live \in Seq(Clusters) /\ Left(live, clusters) /\ Sound(live)
         /\ Window # Forever => \A c \in ToSet(live) : c.last_seen_ms >= now - Window
<1>1. now \in Nat
  BY ClustersParameters
<1>2. /\ live \in Seq(Clusters) /\ Left(live, clusters)
      /\ Window # Forever => \A c \in ToSet(live) : c.last_seen_ms >= now - Window
  BY <1>1, InvParts, FreshLeaves
<1> QED
  BY <1>2, InvParts, LeftIsSound

LEMMA EvictIs ==
  ASSUME ClustersInv, NEW cs \in Seq(Clusters), Left(cs, clusters), NEW room \in Nat,
         NEW ds, ds = EvictTo(cs, room)
  PROVE  /\ ds \in Seq(Clusters) /\ Left(ds, clusters) /\ Sound(ds)
         /\ Len(ds) <= room /\ Len(ds) <= Len(cs) /\ Len(ds) \in Nat
<1>1. IsInjective(cs) /\ Len(cs) \in Nat
  BY LenProperties DEF Left
<1>2. /\ ds \in Seq(Clusters) /\ Left(ds, cs)
      /\ Len(ds) = IF Len(cs) <= room THEN Len(cs) ELSE room
  BY <1>1, InvParts, EvictToLeaves
<1>3. Left(ds, clusters)
  BY <1>2, InvParts, LeftOfLeft
<1>4. Sound(ds)
  BY <1>2, <1>3, InvParts, LeftIsSound
<1>5. Len(ds) <= room /\ Len(ds) <= Len(cs) /\ Len(ds) \in Nat
  BY <1>1, <1>2
<1> QED
  BY <1>2, <1>3, <1>4, <1>5

\* When clusters only go.
LEMMA Thinned ==
  ASSUME ClustersInv, NEW cs \in Seq(Clusters), Left(cs, clusters), clusters' = cs,
         UNCHANGED seen, max_clusters' \in 1..MaxCap, Len(cs) <= max_clusters',
         opened' \in Nat, pruned' \in Nat, cleared' \in Nat, decision' = <<>>,
         opened' = Len(cs) + pruned' + cleared'
  PROVE  ClustersInv' /\ Leaving(cs)
<1>1. Sound(cs)
  BY InvParts, LeftIsSound
<1>2. Sound(cs)' /\ cs \in Seq(Clusters') /\ seen' \in Seq(Observed)
  BY <1>1, InvParts, SoundLasts, SeenStays
<1>3. TypeOK'
  BY <1>2 DEF TypeOK
<1>4. ClustersInv' <=> Whole'
  BY InvIsWhole, PTL
<1>5. Sound(clusters)'
  BY <1>2 DEF Sound
<1>6. Leaving(cs)
  BY <1>1 DEF Leaving
<1> QED
  BY <1>3, <1>4, <1>5, <1>6 DEF Whole

\* An alert is observed: the clusters, and how near it is to them, are as
\* they were.
LEMMA Observing ==
  ASSUME ClustersInv, NEW kind \in Alerts, NEW now \in Times, NEW a, a = AlertAt(kind, now),
         seen' = Append(seen, a), NEW n, n = Len(seen) + 1,
         NEW cs \in Seq(Clusters), Sound(cs)
  PROVE  /\ a \in Observed /\ a.timestamp_ms = now /\ seen[n]' = a
         /\ seen' \in Seq(Observed) /\ n \in 1..Len(seen') /\ n \in DOMAIN seen'
         /\ Sound(cs)' /\ cs \in Seq(Clusters')
         /\ \A i \in 1..Len(cs) : \A m \in cs[i].members : m < n
         /\ \A i \in 1..Len(cs) : Likeness(cs[i], seen[n])' = Likeness(cs[i], a)
<1>1. a \in Observed /\ a.timestamp_ms = now
  BY DEF Observed, AlertAt
<1>2. TypeOK /\ seen \in Seq(Observed) /\ Len(seen) \in Nat
  BY InvParts, LenProperties
<1>3. /\ seen' \in Seq(Observed) /\ DOMAIN seen' = 1..n /\ Len(seen') = n /\ seen'[n] = a
  <2> DEFINE t == Append(seen, a)
  <2>1. t \in Seq(Observed) /\ DOMAIN t = 1..n /\ Len(t) = n /\ t[n] = a
    BY <1>1, <1>2, Appended
  <2>2. seen' = t
    OBVIOUS
  <2> HIDE DEF t
  <2> QED
    BY <2>1, <2>2
<1>4. n \in 1..n /\ n \in Nat
  BY <1>2
<1>5. Sound(cs)' /\ cs \in Seq(Clusters')
  BY <1>1, <1>2, SoundLasts
<1>6. \A i \in 1..Len(cs) : cs[i] \in Clusters /\ cs[i].members \subseteq 1..Len(seen)
                            /\ cs[i].representative \in 1..Len(seen)
  <2>1. \A i \in 1..Len(cs) : cs[i] \in Clusters
    BY Members
  <2> QED
    BY <1>2, <2>1, ClusterFields, RepresentativeIn DEF Sound
<1>7. \A i \in 1..Len(cs) : \A m \in cs[i].members : m < n
  BY <1>2, <1>6
<1>8. \A m \in 1..Len(seen) : seen'[m] = seen[m]
  BY <1>1, <1>2, SeenStays
<1>9. \A i \in 1..Len(cs) : Likeness(cs[i], seen[n])' = Likeness(cs[i], a)
  BY <1>3, <1>6, <1>8 DEF Likeness
<1> QED
  BY <1>1, <1>3, <1>4, <1>5, <1>7, <1>9

LEMMA Joins ==
  ASSUME ClustersInv, NEW kind \in Alerts, NEW now \in Times, NEW a, a = AlertAt(kind, now),
         seen' = Append(seen, a), NEW n, n = Len(seen) + 1,
         NEW live, live = Fresh(now), Join(n, a, live), UNCHANGED <<max_clusters, cleared>>
  PROVE  ClustersInv' /\ Leaving(live)
<1>1. /\ live \in Seq(Clusters) /\ Left(live, clusters) /\ Sound(live)
      /\ Window # Forever => \A c \in ToSet(live) : c.last_seen_ms >= now - Window
  BY FreshIs
<1>2. /\ a \in Observed /\ a.timestamp_ms = now /\ seen[n]' = a
      /\ seen' \in Seq(Observed) /\ n \in 1..Len(seen') /\ n \in DOMAIN seen'
      /\ Sound(live)' /\ live \in Seq(Clusters')
      /\ \A i \in 1..Len(live) : \A m \in live[i].members : m < n
      /\ \A i \in 1..Len(live) : Likeness(live[i], seen[n])' = Likeness(live[i], a)
  BY <1>1, Observing
<1>3. PICK b : b = Best(live, a)
  OBVIOUS
<1>4. b \in 1..Len(live) /\ Likeness(live[b], a) >= Threshold
  BY <1>1, <1>2, <1>3, InvParts, BestIs DEF Join
<1>5. PICK d : d = Folded(live[b], n, a)
  OBVIOUS
<1>6. PICK ds : ds = [live EXCEPT ![b] = d]
  OBVIOUS
<1>7. clusters' = ds /\ decision' = <<n, b>> /\ pruned' = pruned + Len(clusters) - Len(live)
      /\ opened' = opened
  BY <1>3, <1>5, <1>6 DEF Join
<1>8. /\ DOMAIN live = 1..Len(live) /\ Len(live) \in Nat
      /\ \A i \in 1..Len(live) : live[i] \in ToSet(live)
  BY <1>1, Members
<1>9. Joining(live, n, b, d, ds)'
  <2>1. Folded(live[b], n, seen[n])' = Folded(live[b], n, a)
    BY <1>2 DEF Folded
  <2>2. Window # Forever => live[b].last_seen_ms >= seen[n].timestamp_ms' - Window
    BY <1>1, <1>2, <1>4, <1>8
  <2>3. (Likeness(live[b], seen[n]) >= Threshold)'
    BY <1>2, <1>4
  <2> QED
    BY <1>2, <1>4, <1>5, <1>6, <2>1, <2>2, <2>3 DEF Joining
<1>10. JoinsSoundly'
  BY AlwaysJoins, PTL
<1>11. /\ SoundWith(ds, n, b)' /\ Len(ds) = Len(live)
       /\ \A i \in 1..Len(live) : ds[i].representative = live[i].representative
  BY <1>9, <1>10 DEF JoinsSoundly
<1>12. /\ ds \in Seq(Clusters') /\ Sound(clusters)' /\ n \in ds[b].members
       /\ DOMAIN ds = 1..Len(live)
  <2>1. ds \in Seq(Clusters') /\ Sound(clusters)' /\ n \in ds[b].members
    BY <1>7, <1>11 DEF SoundWith, Sound
  <2> QED
    BY <1>11, <2>1, LenProperties
<1>13. Len(live) <= Len(clusters) /\ Len(clusters) \in Nat
  BY <1>1, InvParts DEF Left
<1>14. pruned' \in Nat /\ opened' = Len(clusters') + pruned' + cleared' /\ Len(clusters') <= max_clusters'
  <2>1. /\ opened \in Nat /\ pruned \in Nat /\ cleared \in Nat /\ max_clusters \in Nat
        /\ opened = Len(clusters) + pruned + cleared /\ Len(clusters) <= max_clusters
    BY InvParts
  <2>2. Len(clusters') = Len(live)
    BY <1>7, <1>11
  <2> QED
    BY <1>7, <1>8, <1>13, <2>1, <2>2
<1>15. TypeOK'
  <2>1. decision' \in (DOMAIN seen') \X (DOMAIN clusters')
    BY <1>2, <1>4, <1>7, <1>12
  <2> QED
    BY <1>2, <1>7, <1>12, <1>14, <2>1, InvParts DEF TypeOK
<1>16. decision'[1] \in clusters'[decision'[2]].members
  BY <1>7, <1>12
<1>17. ClustersInv'
  <2>1. ClustersInv' <=> Whole'
    BY InvIsWhole, PTL
  <2> QED
    BY <1>12, <1>14, <1>15, <1>16, <2>1 DEF Whole
<1>18. Leaving(live)
  <2>1. ToSet(ds) = {ds[i] : i \in 1..Len(live)} /\ ToSet(live) = {live[i] : i \in 1..Len(live)}
    BY <1>8, <1>12 DEF ToSet
  <2>2. ASSUME NEW e \in ToSet(ds)
        PROVE  \E x \in ToSet(live) : x.representative = e.representative
    <3>1. PICK i \in 1..Len(live) : e = ds[i]
      BY <2>1
    <3>2. live[i] \in ToSet(live) /\ ds[i].representative = live[i].representative
      BY <1>8, <1>11
    <3> QED
      BY <3>1, <3>2
  <2>3. ASSUME NEW x \in ToSet(live)
        PROVE  \E e \in ToSet(ds) : x.representative = e.representative
    <3>1. PICK i \in 1..Len(live) : x = live[i]
      BY <2>1
    <3>2. ds[i] \in ToSet(ds) /\ ds[i].representative = live[i].representative
      BY <1>11, <2>1
    <3> QED
      BY <3>1, <3>2
  <2> QED
    BY <1>1, <1>7, <2>2, <2>3 DEF Leaving
<1> QED
  BY <1>17, <1>18

LEMMA Opens ==
  ASSUME ClustersInv, NEW kind \in Alerts, NEW now \in Times, NEW a, a = AlertAt(kind, now),
         seen' = Append(seen, a), NEW n, n = Len(seen) + 1,
         NEW live, live = Fresh(now), Open(n, a, live), UNCHANGED <<max_clusters, cleared>>
  PROVE  ClustersInv' /\ Leaving(EvictTo(live, max_clusters - 1))
<1>1. live \in Seq(Clusters) /\ Left(live, clusters) /\ Sound(live)
  BY FreshIs
<1>2. PICK cs : cs = EvictTo(live, max_clusters - 1)
  OBVIOUS
<1>3. max_clusters \in Nat /\ max_clusters - 1 \in Nat
  <2>1. max_clusters \in 1..MaxCap
    BY InvParts
  <2> QED
    BY <2>1, ClustersParameters
<1>4. /\ cs \in Seq(Clusters) /\ Left(cs, clusters) /\ Sound(cs)
      /\ Len(cs) <= max_clusters - 1 /\ Len(cs) \in Nat /\ Left(cs, live)
  <2> DEFINE room == max_clusters - 1
  <2>1. room \in Nat /\ cs = EvictTo(live, room)
    BY <1>2, <1>3
  <2> HIDE DEF room
  <2>2. /\ cs \in Seq(Clusters) /\ Left(cs, clusters) /\ Sound(cs)
        /\ Len(cs) <= room /\ Len(cs) \in Nat
    BY <1>1, <2>1, EvictIs
  <2>3. IsInjective(live)
    BY <1>1 DEF Left
  <2>4. Left(cs, live)
    BY <1>1, <2>1, <2>3, InvParts, EvictToLeaves
  <2> QED
    BY <2>2, <2>4 DEF room
<1>5. /\ a \in Observed /\ seen[n]' = a
      /\ seen' \in Seq(Observed) /\ n \in 1..Len(seen') /\ n \in DOMAIN seen'
      /\ Sound(cs)' /\ cs \in Seq(Clusters')
      /\ \A i \in 1..Len(cs) : \A m \in cs[i].members : m < n
      /\ \A i \in 1..Len(cs) : Likeness(cs[i], seen[n])' = Likeness(cs[i], a)
  BY <1>4, Observing
<1>6. \A i \in 1..Len(cs) : Likeness(cs[i], a) < Threshold
  <2>1. \A i \in 1..Len(live) : Likeness(live[i], a) < Threshold
    BY <1>1, <1>5, InvParts, BestIs DEF Open
  <2>2. /\ ToSet(live) = {live[i] : i \in 1..Len(live)}
        /\ \A i \in 1..Len(cs) : cs[i] \in ToSet(cs)
    BY <1>1, <1>4, Members
  <2>3. \A i \in 1..Len(cs) : \E j \in 1..Len(live) : cs[i] = live[j]
    BY <1>4, <2>2 DEF Left
  <2> QED
    BY <2>1, <2>3
<1>7. PICK d : d = Fold1(n, a)
  OBVIOUS
<1>8. PICK ds : ds = Append(cs, d)
  OBVIOUS
<1>9. /\ clusters' = ds /\ decision' = <<n, Len(ds)>>
      /\ pruned' = pruned + Len(clusters) - Len(cs) /\ opened' = opened + 1
  BY <1>2, <1>7, <1>8 DEF Open
<1>10. Opening(cs, n, d, ds)'
  <2>1. Fold1(n, seen[n])' = Fold1(n, a)
    BY <1>5 DEF Fold1
  <2>2. (\A i \in 1..Len(cs) : Likeness(cs[i], seen[n]) < Threshold)'
    BY <1>5, <1>6
  <2> QED
    BY <1>5, <1>7, <1>8, <2>1, <2>2 DEF Opening
<1>11. OpensSoundly'
  BY AlwaysOpens, PTL
<1>12. /\ SoundWith(ds, n, Len(ds))' /\ Len(ds) = Len(cs) + 1
       /\ ToSet(ds) = ToSet(cs) \cup {d} /\ d.representative = n
  BY <1>10, <1>11 DEF OpensSoundly
<1>13. /\ ds \in Seq(Clusters') /\ Sound(clusters)' /\ n \in ds[Len(ds)].members
       /\ DOMAIN ds = 1..Len(ds) /\ Len(ds) \in 1..Len(ds)
  <2>1. ds \in Seq(Clusters') /\ Sound(clusters)' /\ n \in ds[Len(ds)].members
    BY <1>9, <1>12 DEF SoundWith, Sound
  <2>2. DOMAIN ds = 1..Len(ds)
    BY <2>1, LenProperties
  <2>3. Len(ds) \in 1..Len(ds)
    BY <1>4, <1>12
  <2> QED
    BY <2>1, <2>2, <2>3
<1>14. pruned' \in Nat /\ opened' = Len(ds) + pruned' + cleared' /\ Len(ds) <= max_clusters'
       /\ opened' \in Nat
  <2>1. /\ opened \in Nat /\ pruned \in Nat /\ cleared \in Nat /\ Len(clusters) \in Nat
        /\ opened = Len(clusters) + pruned + cleared
    BY InvParts
  <2>2. Len(cs) <= Len(clusters)
    BY <1>4 DEF Left
  <2>3. Len(ds) = Len(cs) + 1 /\ max_clusters' = max_clusters /\ cleared' = cleared
    BY <1>12
  <2> DEFINE before == Len(clusters)
             kept == Len(cs)
  <2> HIDE DEF before, kept
  <2>4. /\ pruned' = pruned + before - kept /\ opened' = opened + 1
        /\ before \in Nat /\ kept \in Nat /\ kept <= before /\ kept <= max_clusters - 1
        /\ opened = before + pruned + cleared /\ Len(ds) = kept + 1
    BY <1>4, <1>9, <2>1, <2>2, <2>3 DEF before, kept
  <2>5. pruned' \in Nat
    BY <2>1, <2>4
  <2>6. opened' = Len(ds) + pruned' + cleared' /\ opened' \in Nat
    BY SMTT(30), <2>1, <2>3, <2>4
  <2>7. Len(ds) <= max_clusters'
    BY <1>3, <2>3, <2>4
  <2> QED
    BY <2>5, <2>6, <2>7
<1>15. TypeOK'
  <2>1. decision' \in (DOMAIN seen') \X (DOMAIN clusters')
    BY <1>5, <1>9, <1>13
  <2> QED
    BY <1>5, <1>9, <1>13, <1>14, <2>1, InvParts DEF TypeOK
<1>16. decision'[1] \in clusters'[decision'[2]].members
  BY <1>9, <1>13
<1>17. ClustersInv'
  <2>1. ClustersInv' <=> Whole'
    BY InvIsWhole, PTL
  <2> QED
    BY <1>9, <1>13, <1>14, <1>15, <1>16, <2>1 DEF Whole
<1>18. Leaving(cs)
  BY <1>4, <1>9, <1>12 DEF Leaving
<1> QED
  BY <1>2, <1>17, <1>18

LEMMA ClustersInit ==
  ASSUME Init
  PROVE  ClustersInv
<1>1. clusters = <<>> /\ seen = <<>> /\ Len(clusters) = 0
  BY DEF Init
<1>2. seen \in Seq(Observed) /\ clusters \in Seq(Clusters)
  BY <1>1
<1>3. TypeOK
  BY <1>2, ClustersParameters DEF Init, TypeOK
<1>4. Sound(clusters)
  BY <1>1 DEF Sound
<1>5. Whole
  BY <1>1, <1>3, <1>4, ClustersParameters DEF Init, Whole
<1> QED
  BY <1>5, InvIsWhole

LEMMA ClustersNext ==
  ASSUME ClustersInv, Next
  PROVE  ClustersInv' /\ \E cs \in Seq(Clusters) : Leaving(cs)
<1>1. CASE Observe
  <2>1. PICK kind \in Alerts, now \in Times :
          /\ seen' = Append(seen, AlertAt(kind, now))
          /\ \/ Join(Len(seen) + 1, AlertAt(kind, now), Fresh(now))
             \/ Open(Len(seen) + 1, AlertAt(kind, now), Fresh(now))
    BY <1>1 DEF Observe
  <2>2. PICK a : a = AlertAt(kind, now)
    OBVIOUS
  <2>3. PICK n : n = Len(seen) + 1
    OBVIOUS
  <2>4. PICK live : live = Fresh(now)
    OBVIOUS
  <2>5. seen' = Append(seen, a) /\ UNCHANGED <<max_clusters, cleared>>
    BY <1>1, <2>1, <2>2 DEF Observe
  <2>6. CASE Join(n, a, live)
    <3>1. ClustersInv' /\ Leaving(live)
      BY <2>2, <2>3, <2>4, <2>5, <2>6, Joins
    <3> QED
      BY <3>1 DEF Leaving
  <2>7. CASE Open(n, a, live)
    <3>1. ClustersInv' /\ Leaving(EvictTo(live, max_clusters - 1))
      BY <2>2, <2>3, <2>4, <2>5, <2>7, Opens
    <3> QED
      BY <3>1 DEF Leaving
  <2> QED
    BY <2>1, <2>2, <2>3, <2>4, <2>6, <2>7
<1>2. CASE PruneStale
  <2>1. PICK now \in Times : clusters' = Fresh(now)
    BY <1>2 DEF PruneStale
  <2>2. PICK cs : cs = Fresh(now)
    OBVIOUS
  <2>3. cs \in Seq(Clusters) /\ Left(cs, clusters)
    BY <2>2, FreshIs
  <2>4. /\ clusters' = cs /\ pruned' = pruned + Len(clusters) - Len(cs)
        /\ decision' = <<>> /\ UNCHANGED <<max_clusters, opened, seen, cleared>>
    BY <1>2, <2>1, <2>2 DEF PruneStale
  <2>5. Len(cs) <= Len(clusters) /\ Len(cs) \in Nat
    BY <2>3, LenProperties DEF Left
  <2>6. /\ max_clusters' \in 1..MaxCap /\ Len(cs) <= max_clusters' /\ opened' \in Nat
        /\ pruned' \in Nat /\ cleared' \in Nat /\ opened' = Len(cs) + pruned' + cleared'
    <3>1. max_clusters \in Nat
      BY InvParts
    <3> QED
      BY SMTT(30), <2>4, <2>5, <3>1, InvParts
  <2>7. ClustersInv' /\ Leaving(cs)
    BY <2>3, <2>4, <2>6, Thinned
  <2> QED
    BY <2>3, <2>7
<1>3. CASE SetMaxClusters
  <2>1. PICK cs : cs = EvictTo(clusters, max_clusters')
    OBVIOUS
  <2>2. /\ clusters' = cs /\ pruned' = pruned + Len(clusters) - Len(cs)
        /\ max_clusters' \in 1..MaxCap
        /\ decision' = <<>> /\ UNCHANGED <<opened, seen, cleared>>
    BY <1>3, <2>1 DEF SetMaxClusters
  <2>3. Left(clusters, clusters)
    BY InvParts, AllLeft
  <2>4. PICK room \in Nat : room = max_clusters'
    BY <2>2
  <2>5. /\ cs \in Seq(Clusters) /\ Left(cs, clusters)
        /\ Len(cs) <= room /\ Len(cs) <= Len(clusters) /\ Len(cs) \in Nat
    BY <2>1, <2>3, <2>4, InvParts, EvictIs
  <2>6. /\ Len(cs) <= max_clusters' /\ opened' \in Nat
        /\ pruned' \in Nat /\ cleared' \in Nat /\ opened' = Len(cs) + pruned' + cleared'
    BY <2>2, <2>4, <2>5, InvParts
  <2>7. ClustersInv' /\ Leaving(cs)
    BY <2>2, <2>5, <2>6, Thinned
  <2> QED
    BY <2>5, <2>7
<1>4. CASE Clear
  <2>1. PICK cs : cs = <<>>
    OBVIOUS
  <2>2. cs \in Seq(Clusters) /\ Len(cs) = 0 /\ Left(cs, clusters)
    <3>1. ToSet(cs) = {} /\ IsInjective(cs) /\ Len(cs) = 0
      BY <2>1 DEF ToSet, IsInjective
    <3> QED
      BY <2>1, <3>1, InvParts DEF Left
  <2>3. /\ clusters' = cs /\ cleared' = cleared + Len(clusters)
        /\ decision' = <<>> /\ UNCHANGED <<max_clusters, opened, pruned, seen>>
    BY <1>4, <2>1 DEF Clear
  <2>4. /\ max_clusters' \in 1..MaxCap /\ Len(cs) <= max_clusters' /\ opened' \in Nat
        /\ pruned' \in Nat /\ cleared' \in Nat /\ opened' = Len(cs) + pruned' + cleared'
    BY <2>2, <2>3, InvParts
  <2>5. ClustersInv' /\ Leaving(cs)
    BY <2>2, <2>3, <2>4, Thinned
  <2> QED
    BY <2>2, <2>5
<1> QED
  BY <1>1, <1>2, <1>3, <1>4 DEF Next

\* Each step removes the clusters seen last before the others.
LEMMA OldestLeave ==
  ASSUME ClustersInv, NEW cs, Leaving(cs), NEW c \in ToSet(clusters), NEW d \in ToSet(clusters),
         \A e \in ToSet(clusters') : e.representative # c.representative,
         \E e \in ToSet(clusters') : e.representative = d.representative
  PROVE  c.last_seen_ms <= d.last_seen_ms
<1>1. c \notin ToSet(cs)
  BY DEF Leaving
<1>2. /\ ToSet(clusters) = {clusters[i] : i \in 1..Len(clusters)}
      /\ \A x \in ToSet(clusters) : x \in Clusters
  BY InvParts, Members
<1>3. \A x \in ToSet(clusters) : Summary(x)
  BY <1>2, InvParts DEF Sound
<1>4. \A x \in ToSet(clusters) : x.representative \in x.members /\ x.representative \in 1..Len(seen)
  BY <1>2, <1>3, InvParts, RepresentativeIn, ClusterFields
<1>5. Len(seen) + 1 \notin 1..Len(seen)
  <2>1. Len(seen) \in Nat
    BY InvParts, LenProperties
  <2> QED
    BY <2>1
<1>6. PICK x \in ToSet(cs) : x.representative = d.representative
  BY <1>4, <1>5 DEF Leaving
<1>7. x \in ToSet(clusters)
  BY DEF Leaving, Left
<1>8. x = d
  <2>1. PICK i \in 1..Len(clusters) : x = clusters[i]
    BY <1>2, <1>7
  <2>2. PICK j \in 1..Len(clusters) : d = clusters[j]
    BY <1>2
  <2>3. x.members \cap d.members # {}
    BY <1>4, <1>6, <1>7
  <2>4. i = j
    BY <2>1, <2>2, <2>3, InvParts DEF Sound
  <2> QED
    BY <2>1, <2>2, <2>4
<1> QED
  BY <1>1, <1>6, <1>8 DEF Leaving, Left

LEMMA ClustersStutter ==
  ASSUME ClustersInv, UNCHANGED vars
  PROVE  ClustersInv'
<1>1. /\ clusters' = clusters /\ max_clusters' = max_clusters /\ opened' = opened
      /\ pruned' = pruned /\ seen' = seen /\ cleared' = cleared /\ decision' = decision
  BY DEF vars
<1>2. Clusters' = Clusters
  BY <1>1 DEF Clusters
<1>3. TypeOK'
  BY <1>1, <1>2 DEF ClustersInv, TypeOK
<1>4. ASSUME NEW c PROVE Summary(c)' <=> Summary(c)
  BY <1>1 DEF Summary, Stamps
<1>5. ASSUME NEW c, NEW x PROVE Likeness(c, x)' = Likeness(c, x)
  BY <1>1 DEF Likeness
<1>6. ASSUME NEW n, NEW c PROVE Belongs(n, c)' <=> Belongs(n, c)
  BY <1>1 DEF Belongs, Likeness
<1>7. PICK cs : cs = clusters
  OBVIOUS
<1>8. Sound(cs)' <=> Sound(cs)
  BY <1>1, <1>4, <1>6 DEF Sound, Likeness
<1>9. Whole'
  BY <1>1, <1>3, <1>7, <1>8, InvIsWhole DEF Whole, Sound
<1>10. ClustersInv' <=> Whole'
  BY InvIsWhole, PTL
<1> QED
  BY <1>9, <1>10

LEMMA ClustersInvariance == TriageSpec => []ClustersInv
<1>1. TriageInit => ClustersInv
  BY ClustersInit DEF TriageInit
<1>2. ClustersInv /\ [TriageNext]_triageVars => ClustersInv'
  <2> SUFFICES ASSUME ClustersInv, [TriageNext]_triageVars PROVE ClustersInv'
    OBVIOUS
  <2>1. [Next]_vars
    BY DEF TriageNext, triageVars, ClustersStep, LshStep, FeedbackStep, ChainStep,
           PlattStep, SageStep
  <2>2. CASE Next
    BY <2>2, ClustersNext
  <2>3. CASE UNCHANGED vars
    BY <2>3, ClustersStutter
  <2> QED
    BY <2>1, <2>2, <2>3
<1> QED
  BY <1>1, <1>2, PTL DEF TriageSpec

\* Live clusters are never near enough to be one, and every alert of a cluster
\* belongs to it (alert_cluster.rs).
THEOREM ClustersStayApart == TriageSpec => []ClustersKeepApart
<1>1. ClustersInv => ClustersKeepApart
  BY DEF ClustersInv
<1> QED
  BY <1>1, ClustersInvariance, PTL

\* A cluster goes only when those that stay were seen last no earlier
\* (alert_cluster.rs).
THEOREM OldestGoFirst == TriageSpec => RemovalsAreOldest
<1> DEFINE Stays(c) == \E d \in ToSet(clusters') : d.representative = c.representative
           Removal == \A c, d \in ToSet(clusters) :
             ~Stays(c) /\ Stays(d) => c.last_seen_ms <= d.last_seen_ms
<1>1. ClustersInv /\ [TriageNext]_triageVars => [Removal]_vars
  <2> SUFFICES ASSUME ClustersInv, [TriageNext]_triageVars PROVE [Removal]_vars
    OBVIOUS
  <2>1. [Next]_vars
    BY DEF TriageNext, triageVars, ClustersStep, LshStep, FeedbackStep, ChainStep,
           PlattStep, SageStep
  <2>2. ASSUME Next PROVE Removal
    <3>1. PICK cs \in Seq(Clusters) : Leaving(cs)
      BY <2>2, ClustersNext
    <3> QED
      BY <3>1, OldestLeave
  <2> QED
    BY <2>1, <2>2
<1>2. TriageSpec => [][Removal]_vars
  BY <1>1, ClustersInvariance, PTL DEF TriageSpec
<1> QED
  BY <1>2 DEF RemovalsAreOldest

------------------------------------------------------------------------------
(* The cells.                                                               *)

LEMMA LshParameters ==
  /\ BucketsPerDim \in Nat /\ BucketsPerDim >= 2 /\ AttrCap \in Nat /\ AttrCap > 0
  /\ Values \subseteq Int \cup {NonFinite} /\ NonFinite \notin Int
  /\ IsFiniteSet(Axes) /\ MaxObs \in Nat
BY TriageParameters DEF Lsh!LshAssumption, Lsh!IsFiniteSet, IsFiniteSet

LEMMA LshSets ==
  /\ \A S : Lsh!Cardinality(S) = Cardinality(S)
  /\ \A f : Lsh!SumFunction(f) = Sum(f)
<1>1. \A S : Lsh!Cardinality(S) = Cardinality(S)
  BY DEF Lsh!Cardinality, Cardinality
<1>2. \A f : Lsh!SumFunction(f) = Sum(f)
  BY DEF Lsh!SumFunction, Lsh!SumFunctionOnSet, Lsh!FoldFunctionOnSet,
         Lsh!MapThenFoldSet, Sum, FoldFunction, FoldFunctionOnSet, MapThenFoldSet
<1> QED
  BY <1>1, <1>2

\* Products compare as their factors do.
LEMMA ProductsCompare ==
  ASSUME NEW a \in Int, NEW b \in Int, NEW m \in Int, a <= b, m >= 0
  PROVE  a * m <= b * m /\ a * m \in Int /\ b * m \in Int
OBVIOUS

\* A value lies in the cell it is quantised to.
LEMMA LiesInCell ==
  ASSUME NEW v \in Int
  PROVE  Lsh!Quantise(v) \in 0..BucketsPerDim - 1 /\ Lsh!InCell(v, Lsh!Quantise(v))
<1> DEFINE B == BucketsPerDim
           A == AttrCap
           w == Lsh!Clamp(v, -A, A)
           x == (w + A) * B
           q == x \div (2 * A)
           b == Lsh!Quantise(v)
<1>1. B \in Nat /\ B >= 2 /\ A \in Nat /\ A > 0 /\ v # NonFinite
  BY LshParameters
<1>2. w \in Int /\ -A <= w /\ w <= A /\ (v <= A => v <= w) /\ (v >= -A => w <= v)
  BY <1>1 DEF Lsh!Clamp
<1>3. b = Lsh!Clamp(q, 0, B - 1)
  BY <1>1 DEF Lsh!Quantise
<1> HIDE DEF B, A, w, b
<1>4. x \in Int
  BY <1>1, <1>2
<1>5. q \in Int /\ q * (2 * A) <= x /\ x < (q + 1) * (2 * A)
  <2> HIDE DEF x
  <2> QED
    BY <1>1, <1>4
<1> HIDE DEF q
<1>6. q >= 0 /\ q <= B
  <2>1. x >= 0 /\ x <= B * (2 * A)
    BY <1>1, <1>2
  <2> DEFINE M == 2 * A
  <2> HIDE DEF x
  <2>2. M \in Int /\ M > 0 /\ q * M <= x /\ x < (q + 1) * M /\ x <= B * M
    BY <1>1, <1>5, <2>1
  <2> HIDE DEF M
  <2>3. ASSUME q < 0 PROVE FALSE
    <3>1. (q + 1) * M <= 0 * M
      BY <1>5, <2>2, <2>3, ProductsCompare
    <3> QED
      BY <1>4, <1>5, <2>1, <2>2, <3>1
  <2>4. ASSUME q > B PROVE FALSE
    <3>1. (B + 1) * M <= q * M
      BY <1>1, <1>5, <2>2, <2>4, ProductsCompare
    <3>2. (B + 1) * M = B * M + M /\ B * M \in Int
      BY <1>1, <2>2
    <3> QED
      BY <1>4, <1>5, <2>2, <3>1, <3>2
  <2> QED
    BY <1>1, <1>5, <2>3, <2>4
<1>7. b = (IF q > B - 1 THEN B - 1 ELSE q) /\ b \in 0..B - 1
  BY <1>1, <1>3, <1>5, <1>6 DEF Lsh!Clamp
<1>8. b > 0 => v * B >= (2 * b - B) * A
  <2> SUFFICES ASSUME b > 0 PROVE v * B >= (2 * b - B) * A
    OBVIOUS
  <2>1. b * (2 * A) <= x
    <3>1. b <= q /\ 2 * A \in Int /\ 2 * A >= 0 /\ b \in Int
      BY <1>1, <1>5, <1>7
    <3>2. b * (2 * A) <= q * (2 * A) /\ b * (2 * A) \in Int /\ q * (2 * A) \in Int
      BY <1>5, <3>1, ProductsCompare
    <3> HIDE DEF x
    <3> QED
      BY <1>4, <1>5, <3>2
  <2>2. w * B >= (2 * b - B) * A
    <3>1. x = w * B + A * B /\ w * B \in Int /\ A * B \in Int
      BY <1>1, <1>2
    <3>2. (2 * b - B) * A = b * (2 * A) - A * B /\ b * (2 * A) \in Int
      BY <1>1, <1>7
    <3> HIDE DEF x
    <3> QED
      BY <2>1, <3>1, <3>2
  <2>3. CASE v >= -A
    <3>1. w * B <= v * B /\ w * B \in Int /\ v * B \in Int
      BY <1>1, <1>2, <2>3, ProductsCompare
    <3>2. (2 * b - B) * A \in Int
      BY <1>1, <1>7
    <3> QED
      BY <2>2, <3>1, <3>2
  <2>4. CASE v < -A
    <3>1. w = -A
      BY <1>1, <1>2, <2>4 DEF w, Lsh!Clamp
    <3>2. (-A) * B < (2 * b - B) * A
      BY <1>1, <1>7
    <3> QED
      BY <1>1, <1>7, <2>2, <3>1, <3>2
  <2> QED
    BY <1>1, <2>3, <2>4
<1>9. b < B - 1 => v * B < (2 * b + 2 - B) * A
  <2> SUFFICES ASSUME b < B - 1 PROVE v * B < (2 * b + 2 - B) * A
    OBVIOUS
  <2>1. b = q
    BY <1>1, <1>5, <1>7
  <2>2. w * B < (2 * b + 2 - B) * A
    BY <1>1, <1>2, <1>5, <2>1
  <2>3. CASE v <= A
    BY <1>1, <1>2, <1>7, <2>2, <2>3
  <2>4. CASE v > A
    <3>1. w = A
      BY <1>1, <1>2, <2>4 DEF w, Lsh!Clamp
    <3>2. A * B >= (2 * b + 2 - B) * A
      BY <1>1, <1>7
    <3> QED
      BY <1>1, <1>7, <2>2, <3>1, <3>2
  <2> QED
    BY <1>1, <2>3, <2>4
<1> QED
  BY <1>7, <1>8, <1>9 DEF Lsh!InCell, B, A, b

\* It lies in no other.
LEMMA OneCell ==
  ASSUME NEW v \in Int, NEW b \in 0..BucketsPerDim - 1, NEW c \in 0..BucketsPerDim - 1,
         Lsh!InCell(v, b), Lsh!InCell(v, c)
  PROVE  ~(b < c)
<1> DEFINE B == BucketsPerDim
           A == AttrCap
<1>1. B \in Nat /\ A \in Nat /\ A > 0
  BY LshParameters
<1> SUFFICES ASSUME b < c PROVE FALSE
  OBVIOUS
<1>2. b \in Int /\ c \in Int /\ 0 <= b /\ c <= B - 1 /\ c > 0 /\ b < B - 1
  BY <1>1
<1>3. v * B < (2 * b + 2 - B) * A /\ v * B >= (2 * c - B) * A
  BY <1>2 DEF Lsh!InCell
<1> HIDE DEF A, B
<1>4. (2 * b + 2 - B) * A <= (2 * c - B) * A
  BY <1>1, <1>2
<1> QED
  BY <1>1, <1>2, <1>3, <1>4

LEMMA CellFields ==
  ASSUME NEW a \in [Axes -> Values]
  PROVE  /\ Lsh!Cell(a) \in [Axes -> 0..BucketsPerDim - 1]
         /\ \A d \in Axes : Lsh!Cell(a)[d] = Lsh!Quantise(a[d])
<1>1. 0 \in 0..BucketsPerDim - 1
  BY LshParameters
<1>2. ASSUME NEW v \in Values PROVE Lsh!Quantise(v) \in 0..BucketsPerDim - 1
  <2>1. CASE v = NonFinite
    BY <1>1, <2>1 DEF Lsh!Quantise
  <2>2. CASE v # NonFinite
    BY <2>2, LshParameters, LiesInCell
  <2> QED
    BY <2>1, <2>2
<1> QED
  BY <1>2 DEF Lsh!Cell

\* A cell is what the attributions in it have in common.
LEMMA CellIs ==
  ASSUME NEW a \in [Axes -> Values], NEW h \in [Axes -> 0..BucketsPerDim - 1]
  PROVE  Lsh!Cell(a) = h <=>
           \A d \in Axes : IF a[d] = NonFinite THEN h[d] = 0 ELSE Lsh!InCell(a[d], h[d])
<1>1. Lsh!Cell(a) = h <=> \A d \in Axes : Lsh!Quantise(a[d]) = h[d]
  BY CellFields
<1>2. ASSUME NEW d \in Axes
      PROVE  Lsh!Quantise(a[d]) = h[d] <=>
               IF a[d] = NonFinite THEN h[d] = 0 ELSE Lsh!InCell(a[d], h[d])
  <2>1. CASE a[d] = NonFinite
    BY <2>1 DEF Lsh!Quantise
  <2>2. CASE a[d] # NonFinite
    <3>1. PICK v \in Int : v = a[d]
      BY <2>2, LshParameters
    <3>2. PICK b \in 0..BucketsPerDim - 1 : b = h[d]
      OBVIOUS
    <3>3. PICK q : q = Lsh!Quantise(v)
      OBVIOUS
    <3>4. q \in 0..BucketsPerDim - 1 /\ Lsh!InCell(v, q)
      BY <3>3, LiesInCell
    <3>5. Lsh!InCell(v, b) => ~(b < q) /\ ~(q < b)
      BY <3>4, OneCell
    <3>6. b \in Int /\ q \in Int
      BY <3>2, <3>4
    <3>7. Lsh!InCell(v, b) => b = q
      BY <3>5, <3>6
    <3>8. Lsh!InCell(v, b) <=> q = b
      BY <3>4, <3>7
    <3> QED
      BY <2>2, <3>1, <3>2, <3>3, <3>8
  <2> QED
    BY <2>1, <2>2
<1> QED
  BY <1>1, <1>2

\* Where a sequence of alerts falls.
InCells(s) == {Lsh!Cell(s[i]) : i \in 1..Len(s)}
OfCell(s, h) == {i \in 1..Len(s) : Lsh!Cell(s[i]) = h}

LEMMA CellsFinite ==
  ASSUME NEW s \in Seq([Axes -> Values])
  PROVE  /\ IsFiniteSet(InCells(s)) /\ \A h : IsFiniteSet(OfCell(s, h))
         /\ \A h : OfCell(s, h) \in SUBSET (1..Len(s))
         /\ \A h : h \notin InCells(s) => OfCell(s, h) = {}
         /\ \A h \in InCells(s) : OfCell(s, h) # {}
<1> DEFINE f == [i \in 1..Len(s) |-> Lsh!Cell(s[i])]
<1>1. Len(s) \in Nat
  BY LenProperties
<1>2. IsFiniteSet(1..Len(s))
  BY <1>1, FS_Interval
<1>3. InCells(s) = {f[i] : i \in 1..Len(s)}
  BY DEF InCells
<1> HIDE DEF f
<1>4. IsFiniteSet({f[i] : i \in 1..Len(s)})
  BY <1>2, ImageFinite
<1>5. \A h : IsFiniteSet(OfCell(s, h)) /\ OfCell(s, h) \in SUBSET (1..Len(s))
  <2> TAKE h
  <2>1. OfCell(s, h) \in SUBSET (1..Len(s))
    BY DEF OfCell
  <2> QED
    BY <1>2, <2>1, FS_Subset
<1>6. \A h : h \in InCells(s) <=> OfCell(s, h) # {}
  BY DEF OfCell, InCells
<1> QED
  BY <1>3, <1>4, <1>5, <1>6

\* One alert more.
Extends(s, a, t) ==
  s \in Seq([Axes -> Values]) /\ a \in [Axes -> Values] /\ t = Append(s, a)

LEMMA OneAlertMore ==
  ASSUME NEW s, NEW a, NEW t, Extends(s, a, t)
  PROVE  /\ t \in Seq([Axes -> Values]) /\ Len(t) = Len(s) + 1 /\ Len(s) \in Nat
         /\ InCells(t) = InCells(s) \cup {Lsh!Cell(a)}
         /\ Cardinality(OfCell(t, Lsh!Cell(a))) = Cardinality(OfCell(s, Lsh!Cell(a))) + 1
         /\ \A h : h # Lsh!Cell(a) => OfCell(t, h) = OfCell(s, h)
<1> DEFINE n == Len(s)
<1>1. /\ t \in Seq([Axes -> Values]) /\ Len(t) = n + 1 /\ t[n + 1] = a /\ n \in Nat
      /\ \A i \in 1..n : t[i] = s[i]
  BY AppendProperties DEF Extends
<1> HIDE DEF n
<1>2. \A i : i \in 1..n + 1 <=> (i \in 1..n \/ i = n + 1)
  BY <1>1
<1>3. n + 1 \notin 1..n
  BY <1>1
<1>4. InCells(t) = InCells(s) \cup {Lsh!Cell(a)}
  <2>1. \A h : h \in InCells(t) <=> \E i \in 1..n + 1 : h = Lsh!Cell(t[i])
    BY <1>1 DEF InCells
  <2>2. \A h : h \in InCells(s) <=> \E i \in 1..n : h = Lsh!Cell(s[i])
    BY DEF InCells, n
  <2>3. \A h : (\E i \in 1..n + 1 : h = Lsh!Cell(t[i]))
                 <=> (\E i \in 1..n : h = Lsh!Cell(s[i])) \/ h = Lsh!Cell(a)
    BY <1>1, <1>2
  <2> QED
    BY <2>1, <2>2, <2>3
<1>5. ASSUME NEW h
      PROVE  /\ \A i : i \in OfCell(t, h) <=> i \in 1..n + 1 /\ Lsh!Cell(t[i]) = h
             /\ \A i : i \in OfCell(s, h) <=> i \in 1..n /\ Lsh!Cell(s[i]) = h
  BY <1>1 DEF OfCell, n
<1>6. ASSUME NEW h, h # Lsh!Cell(a) PROVE OfCell(t, h) = OfCell(s, h)
  <2>1. \A i : i \in OfCell(t, h) <=> i \in OfCell(s, h)
    BY <1>1, <1>2, <1>5, <1>6
  <2> QED
    BY <2>1
<1>7. Cardinality(OfCell(t, Lsh!Cell(a))) = Cardinality(OfCell(s, Lsh!Cell(a))) + 1
  <2>1. PICK h : h = Lsh!Cell(a)
    OBVIOUS
  <2>2. IsFiniteSet(OfCell(s, h)) /\ OfCell(s, h) \in SUBSET (1..n)
    BY CellsFinite DEF Extends, n
  <2>3. \A i : i \in OfCell(t, h) <=> i \in OfCell(s, h) \/ i = n + 1
    BY <1>1, <1>2, <1>5, <2>1
  <2>4. OfCell(t, h) = OfCell(s, h) \cup {n + 1}
    BY <2>3
  <2>5. Cardinality(OfCell(s, h) \cup {n + 1}) = Cardinality(OfCell(s, h)) + 1
    BY <1>3, <2>2, FS_AddElement
  <2> QED
    BY <2>1, <2>4, <2>5
<1> QED
  BY <1>1, <1>4, <1>6, <1>7 DEF n

------------------------------------------------------------------------------
(* The buckets.                                                             *)

\* The buckets of a sequence of alerts.
BucketsOf(s) == [h \in InCells(s) |-> Cardinality(OfCell(s, h))]

\* The invariant, with those names.
Counted ==
  /\ Lsh!TypeOK /\ buckets = BucketsOf(inputs) /\ Sum(buckets) = Len(inputs)
  /\ observed_total = lost + Len(inputs)
  /\ observed_total = joined_total + new_cluster_total
  /\ new_cluster_total >= Cardinality(DOMAIN buckets)

LEMMA LshInvIsCounted == Lsh!LshInv <=> Counted
<1>1. Lsh!TypeOK => DOMAIN inputs = 1..Len(inputs)
  BY LenProperties DEF Lsh!TypeOK
<1>2. ASSUME DOMAIN inputs = 1..Len(inputs)
      PROVE  [h \in {Lsh!Cell(inputs[i]) : i \in DOMAIN inputs} |->
                 Lsh!Cardinality({i \in DOMAIN inputs : Lsh!Cell(inputs[i]) = h})]
             = BucketsOf(inputs)
  BY <1>2, LshSets DEF BucketsOf, InCells, OfCell
<1>3. Lsh!TypeOK => (Lsh!CountInv <=> buckets = BucketsOf(inputs) /\ Sum(buckets) = Len(inputs))
  BY <1>1, <1>2, LshSets DEF Lsh!CountInv
<1>4. Lsh!TotalsInv <=> /\ observed_total = lost + Len(inputs)
                        /\ observed_total = joined_total + new_cluster_total
                        /\ new_cluster_total >= Cardinality(DOMAIN buckets)
  BY LshSets DEF Lsh!TotalsInv
<1> QED
  BY <1>3, <1>4 DEF Lsh!LshInv, Counted

LEMMA NoBuckets ==
  /\ BucketsOf(<<>>) = <<>> /\ Sum(<<>>) = 0 /\ Cardinality(DOMAIN <<>>) = 0
  /\ Len(<<>>) = 0 /\ <<>> \in Seq([Axes -> Values])
<1>1. DOMAIN <<>> = {} /\ Len(<<>>) = 0 /\ <<>> \in Seq([Axes -> Values])
  BY EmptySeq
<1>2. InCells(<<>>) = {}
  BY <1>1 DEF InCells
<1>3. BucketsOf(<<>>) = <<>>
  BY <1>1, <1>2 DEF BucketsOf
<1>4. Cardinality({}) = 0 /\ IsFiniteSet({})
  BY FS_EmptySet
<1>5. Sum(<<>>) = 0
  <2> DEFINE none == [x \in {} |-> 0]
  <2>1. none \in [{} -> Nat] /\ \A x \in {} : none[x] = 0
    OBVIOUS
  <2>2. none = <<>>
    BY <1>1
  <2> HIDE DEF none
  <2>3. Sum(none) = 0
    BY <1>4, <2>1, SumOfNats
  <2> QED
    BY <2>2, <2>3
<1> QED
  BY <1>1, <1>3, <1>4, <1>5

LEMMA LshInit == Lsh!Init => Lsh!LshInv
<1> SUFFICES ASSUME Lsh!Init PROVE Counted
  BY LshInvIsCounted
<1>1. /\ buckets = <<>> /\ inputs = <<>> /\ lost = 0
      /\ observed_total = 0 /\ joined_total = 0 /\ new_cluster_total = 0
  BY DEF Lsh!Init
<1> QED
  BY <1>1, NoBuckets DEF Counted, Lsh!TypeOK

\* The bucket of one alert more counts one more.
SizeIn(before, g) == IF g \in DOMAIN before THEN before[g] ELSE 0

Growth(s, a, t, h, before, after) ==
  /\ Extends(s, a, t)
  /\ h = Lsh!Cell(a) /\ before = BucketsOf(s)
  /\ after = [g \in DOMAIN before \cup {h} |-> SizeIn(before, g) + (IF g = h THEN 1 ELSE 0)]

LEMMA BucketsGrow ==
  ASSUME NEW s, NEW a, NEW t, NEW h, NEW before, NEW after,
         Growth(s, a, t, h, before, after)
  PROVE  /\ after = BucketsOf(t) /\ Sum(after) = Sum(before) + 1
         /\ Cardinality(DOMAIN before) \in Nat /\ Cardinality(DOMAIN after) \in Nat
         /\ Cardinality(DOMAIN after) <= Cardinality(DOMAIN before) + 1
         /\ SizeIn(before, h) # 0 => DOMAIN after = DOMAIN before
<1> DEFINE D == InCells(s)
           Count(g) == Cardinality(OfCell(s, g))
<1>0. /\ s \in Seq([Axes -> Values]) /\ a \in [Axes -> Values] /\ h = Lsh!Cell(a)
      /\ DOMAIN before = D /\ before = [g \in D |-> Count(g)]
  BY DEF BucketsOf, Growth, Extends
<1>1. /\ InCells(t) = InCells(s) \cup {h} /\ \A g : g # h => OfCell(t, g) = OfCell(s, g)
      /\ Cardinality(OfCell(t, h)) = Cardinality(OfCell(s, h)) + 1
  <2>1. Extends(s, a, t) /\ h = Lsh!Cell(a)
    BY DEF Growth
  <2> HIDE DEF D, Count
  <2> QED
    BY <2>1, OneAlertMore
<1>2. \A g : Cardinality(OfCell(t, g)) = Count(g) + (IF g = h THEN 1 ELSE 0)
  <2>1. \A g : Count(g) \in Nat
    BY <1>0, CellsFinite, FS_CardinalityType
  <2> QED
    BY <1>1, <2>1
<1>3. IsFiniteSet(D) /\ \A g : Count(g) \in Nat /\ (g \notin D => Count(g) = 0)
  BY <1>0, CellsFinite, FS_CardinalityType, FS_EmptySet
<1>5. BucketsOf(t) = [g \in D \cup {h} |-> Count(g) + (IF g = h THEN 1 ELSE 0)]
  BY <1>1, <1>2 DEF BucketsOf
<1> HIDE DEF D, Count
<1>4. \A g : SizeIn(before, g) = Count(g)
  BY <1>0, <1>3 DEF SizeIn
<1>6. after = [g \in D \cup {h} |-> Count(g) + (IF g = h THEN 1 ELSE 0)]
  BY <1>0, <1>4 DEF Growth
<1>7. /\ DOMAIN after = D \cup {h} /\ before \in [D -> Int] /\ \A g \in D : before[g] = Count(g)
      /\ \A g \in D \cup {h} : after[g] = Count(g) + (IF g = h THEN 1 ELSE 0)
  <2>1. DOMAIN after = D \cup {h}
        /\ \A g \in D \cup {h} : after[g] = Count(g) + (IF g = h THEN 1 ELSE 0)
    BY <1>6
  <2>2. before \in [D -> Int] /\ \A g \in D : before[g] = Count(g)
    BY <1>0, <1>3
  <2> QED
    BY <2>1, <2>2
<1>8. after \in [D \cup {h} -> Int]
  <2>1. \A g \in D \cup {h} : Count(g) + (IF g = h THEN 1 ELSE 0) \in Int
    BY <1>3
  <2> QED
    BY <1>6, <2>1
<1>9. Sum(before) \in Int
  BY <1>3, <1>7, SumType
<1>10. Sum(after) = Sum(before) + 1
  <2>1. CASE h \in D
    <3>1. after \in [D -> Int]
      <4>1. D \cup {h} = D
        BY <2>1
      <4> QED
        BY <1>8, <4>1
    <3>2. (\A g \in D : g # h => after[g] = before[g]) /\ after[h] = before[h] + 1 /\ before[h] \in Int
      BY <1>3, <1>7, <2>1
    <3>3. Sum(after) = Sum(before) - before[h] + after[h]
      <4>1. IsFiniteSet(D) /\ before \in [D -> Int]
        BY <1>3, <1>7
      <4> QED
        BY <2>1, <3>1, <3>2, <4>1, SumUpdate
    <3> QED
      BY <1>9, <3>2, <3>3
  <2>2. CASE h \notin D
    <3>1. (\A g \in D : after[g] = before[g]) /\ after[h] = 1
      BY <1>3, <1>7, <2>2
    <3>2. Sum(after) = Sum(before) + after[h]
      <4>1. IsFiniteSet(D) /\ before \in [D -> Int]
        BY <1>3, <1>7
      <4> QED
        BY <1>8, <2>2, <3>1, <4>1, SumGrows
    <3> QED
      BY <3>1, <3>2
  <2> QED
    BY <2>1, <2>2
<1>11. /\ Cardinality(D) \in Nat /\ Cardinality(D \cup {h}) \in Nat
       /\ Cardinality(D \cup {h}) <= Cardinality(D) + 1
  <2>1. Cardinality(D) \in Nat
    BY <1>3, FS_CardinalityType
  <2>2. Cardinality(D \cup {h}) = IF h \in D THEN Cardinality(D) ELSE Cardinality(D) + 1
    BY <1>3, FS_AddElement
  <2> QED
    BY <2>1, <2>2
<1>12. SizeIn(before, h) # 0 => DOMAIN after = DOMAIN before
  BY <1>0, <1>7 DEF SizeIn
<1> QED
  BY <1>0, <1>5, <1>6, <1>7, <1>10, <1>11, <1>12

LEMMA LshStepInv ==
  ASSUME Lsh!LshInv, [Lsh!Next]_lshVars
  PROVE  Lsh!LshInv'
<1>1. Counted
  BY LshInvIsCounted
<1>2. /\ inputs \in Seq([Axes -> Values]) /\ observed_total \in Nat /\ joined_total \in Nat
      /\ new_cluster_total \in Nat /\ lost \in Nat
      /\ buckets = BucketsOf(inputs) /\ Sum(buckets) = Len(inputs) /\ Len(inputs) \in Nat
      /\ observed_total = lost + Len(inputs)
      /\ observed_total = joined_total + new_cluster_total
      /\ new_cluster_total >= Cardinality(DOMAIN buckets)
  BY <1>1, LenProperties DEF Counted, Lsh!TypeOK
<1>3. CASE Lsh!Observe
  <2>1. PICK a \in [Axes -> Values] :
          /\ inputs' = Append(inputs, a)
          /\ buckets' = [g \in DOMAIN buckets \cup {Lsh!Cell(a)} |->
                           Lsh!ClusterSize(g) + (IF g = Lsh!Cell(a) THEN 1 ELSE 0)]
          /\ IF Lsh!ClusterSize(Lsh!Cell(a)) = 0
             THEN new_cluster_total' = new_cluster_total + 1 /\ UNCHANGED joined_total
             ELSE joined_total' = joined_total + 1 /\ UNCHANGED new_cluster_total
    BY <1>3 DEF Lsh!Observe
  <2>2. observed_total' = observed_total + 1 /\ lost' = lost
    BY <1>3 DEF Lsh!Observe
  <2>3. PICK h : h = Lsh!Cell(a)
    OBVIOUS
  <2>4. PICK t : t = Append(inputs, a)
    OBVIOUS
  <2>5. PICK after : after = buckets'
    OBVIOUS
  <2>6. \A g : Lsh!ClusterSize(g) = SizeIn(buckets, g)
    BY DEF Lsh!ClusterSize, SizeIn
  <2>7. Extends(inputs, a, t) /\ Growth(inputs, a, t, h, buckets, after)
    BY <1>2, <2>1, <2>3, <2>4, <2>5, <2>6 DEF Growth, Extends
  <2>8. /\ after = BucketsOf(t) /\ Sum(after) = Sum(buckets) + 1
        /\ Cardinality(DOMAIN buckets) \in Nat /\ Cardinality(DOMAIN after) \in Nat
        /\ Cardinality(DOMAIN after) <= Cardinality(DOMAIN buckets) + 1
        /\ SizeIn(buckets, h) # 0 => DOMAIN after = DOMAIN buckets
    BY <2>7, BucketsGrow
  <2>9. t \in Seq([Axes -> Values]) /\ Len(t) = Len(inputs) + 1
    BY <2>7, OneAlertMore
  <2>10. /\ joined_total' \in Nat /\ new_cluster_total' \in Nat
         /\ joined_total' + new_cluster_total' = joined_total + new_cluster_total + 1
         /\ new_cluster_total' >= Cardinality(DOMAIN after)
    <3>1. CASE SizeIn(buckets, h) = 0
      BY <1>2, <2>1, <2>3, <2>6, <2>8, <3>1
    <3>2. CASE SizeIn(buckets, h) # 0
      <4>1. DOMAIN after = DOMAIN buckets
        BY <2>8, <3>2
      <4>2. joined_total' = joined_total + 1 /\ new_cluster_total' = new_cluster_total
        BY <2>1, <2>3, <2>6, <3>2
      <4> QED
        BY <1>2, <4>1, <4>2
    <3> QED
      BY <3>1, <3>2
  <2>11. inputs' = t /\ buckets' = after
    BY <2>1, <2>4, <2>5
  <2>12. Lsh!TypeOK'
    BY <1>2, <2>2, <2>9, <2>10, <2>11 DEF Lsh!TypeOK
  <2>13. BucketsOf(inputs)' = BucketsOf(t) /\ Sum(buckets)' = Sum(after)
    BY <2>11
  <2>14. Counted'
    <3>1. buckets' = BucketsOf(inputs)' /\ Sum(buckets)' = Len(inputs')
      BY <1>2, <2>8, <2>9, <2>11, <2>13
    <3>2. observed_total' = lost' + Len(inputs')
      <4>1. /\ observed_total' = observed_total + 1 /\ lost' = lost
            /\ Len(inputs') = Len(inputs) + 1 /\ observed_total = lost + Len(inputs)
            /\ lost \in Nat /\ Len(inputs) \in Nat
        BY <1>2, <2>2, <2>9, <2>11
      <4> QED
        BY <4>1
    <3>3. observed_total' = joined_total' + new_cluster_total'
      BY <1>2, <2>2, <2>10
    <3> QED
      BY <2>10, <2>11, <2>12, <3>1, <3>2, <3>3 DEF Counted
  <2>15. Lsh!LshInv' <=> Counted'
    BY LshInvIsCounted, PTL
  <2> QED
    BY <2>14, <2>15
<1>4. CASE Lsh!ClearBuckets
  <2>1. /\ buckets' = <<>> /\ inputs' = <<>> /\ lost' = lost + Len(inputs)
        /\ observed_total' = observed_total /\ joined_total' = joined_total
        /\ new_cluster_total' = new_cluster_total
    BY <1>4 DEF Lsh!ClearBuckets
  <2>2. Lsh!TypeOK'
    BY <1>2, <2>1, NoBuckets DEF Lsh!TypeOK
  <2>3. Counted'
    <3>1. BucketsOf(inputs)' = BucketsOf(<<>>)
      BY <2>1
    <3>2. Sum(buckets)' = Sum(<<>>)
      BY <2>1
    <3>3. Len(inputs') = 0 /\ Cardinality(DOMAIN buckets') = 0
      BY <2>1, NoBuckets
    <3>4. buckets' = BucketsOf(inputs)' /\ Sum(buckets)' = Len(inputs')
      BY <2>1, <3>1, <3>2, <3>3, NoBuckets
    <3> QED
      BY <1>2, <2>1, <2>2, <3>3, <3>4 DEF Counted
  <2>4. Lsh!LshInv' <=> Counted'
    BY LshInvIsCounted, PTL
  <2> QED
    BY <2>3, <2>4
<1>5. CASE UNCHANGED lshVars
  BY <1>5 DEF lshVars, Lsh!LshInv, Lsh!TypeOK, Lsh!CountInv, Lsh!TotalsInv
<1> QED
  BY <1>3, <1>4, <1>5 DEF Lsh!Next

\* A bucket counts the alerts of its cell.
LEMMA BucketsCount ==
  ASSUME Lsh!LshInv
  PROVE  Lsh!BucketsAreCells
<1>1. Counted
  BY LshInvIsCounted
<1>2. inputs \in Seq([Axes -> Values]) /\ buckets = BucketsOf(inputs) /\ DOMAIN inputs = 1..Len(inputs)
  BY <1>1, LenProperties DEF Counted, Lsh!TypeOK
<1>3. DOMAIN buckets = InCells(inputs)
      /\ \A h \in InCells(inputs) : buckets[h] = Cardinality(OfCell(inputs, h))
  BY <1>2 DEF BucketsOf
<1>4. ASSUME NEW h \in DOMAIN buckets
      PROVE  buckets[h] = Lsh!Cardinality({i \in DOMAIN inputs : \A d \in Axes :
               IF inputs[i][d] = NonFinite THEN h[d] = 0 ELSE Lsh!InCell(inputs[i][d], h[d])})
  <2>1. \A i \in 1..Len(inputs) : inputs[i] \in [Axes -> Values]
    BY <1>2
  <2>2. h \in [Axes -> 0..BucketsPerDim - 1]
    BY <1>3, <1>4, <2>1, CellFields DEF InCells
  <2>3. \A i \in 1..Len(inputs) : Lsh!Cell(inputs[i]) = h <=> \A d \in Axes :
          IF inputs[i][d] = NonFinite THEN h[d] = 0 ELSE Lsh!InCell(inputs[i][d], h[d])
    BY <2>1, <2>2, CellIs
  <2>4. OfCell(inputs, h) = {i \in DOMAIN inputs : \A d \in Axes :
          IF inputs[i][d] = NonFinite THEN h[d] = 0 ELSE Lsh!InCell(inputs[i][d], h[d])}
    BY <1>2, <2>3 DEF OfCell
  <2> QED
    BY <1>3, <2>4, LshSets
<1>5. /\ observed_total = lost + Lsh!SumFunction(buckets)
      /\ observed_total = joined_total + new_cluster_total
      /\ new_cluster_total >= Lsh!Cardinality(DOMAIN buckets)
  BY <1>1, LshSets DEF Counted
<1> QED
  BY <1>4, <1>5 DEF Lsh!BucketsAreCells

LEMMA BucketsInvariance == TriageSpec => []Lsh!BucketsAreCells
<1>1. TriageInit => Lsh!LshInv
  BY LshInit DEF TriageInit
<1>2. Lsh!LshInv /\ [TriageNext]_triageVars => Lsh!LshInv'
  <2> SUFFICES ASSUME Lsh!LshInv, [TriageNext]_triageVars PROVE Lsh!LshInv'
    OBVIOUS
  <2>1. [Lsh!Next]_lshVars
    BY DEF TriageNext, triageVars, ClustersStep, LshStep, FeedbackStep, ChainStep,
           PlattStep, SageStep
  <2> QED
    BY <2>1, LshStepInv
<1>3. Lsh!LshInv => Lsh!BucketsAreCells
  BY BucketsCount
<1> QED
  BY <1>1, <1>2, <1>3, PTL DEF TriageSpec

\* A cluster summarises the alerts that joined it and a bucket counts the
\* alerts of its cell, through pruning, eviction and clears
\* (alert_cluster.rs, lsh_cluster.rs).
THEOREM ClustersStaySummaries == TriageSpec => []ClustersAreTheirAlerts
<1>1. ClustersInv => ClustersSummariseAlerts
  BY DEF ClustersInv
<1> QED
  BY <1>1, ClustersInvariance, BucketsInvariance, PTL DEF ClustersAreTheirAlerts
==============================================================================
