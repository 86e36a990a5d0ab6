----------------------------- MODULE AuditChain ------------------------------
(***************************************************************************)
(* The audit trail: a writer signs each record together with its sequence  *)
(* number and the tag of the entry before, hands the entry to a store, and *)
(* a verifier later walks what the store returns.  The MAC is ideal: a tag *)
(* is the value it was computed over.  The store and the way to it may     *)
(* lose, reorder, repeat and spoil entries, and the writer may crash.      *)
(***************************************************************************)
EXTENDS Naturals, Sequences, SequencesExt

CONSTANTS
  Records,
  MaxSeq,     \* the last value of the u64 sequence counter
  MaxAppends, MaxFaults  \* bounds

VARIABLES
  chain,     \* the writer: seq and prev_tag of the next entry
  transit,   \* entries returned by append and not stored yet
  stored,    \* what the verifier is given
  journal,   \* history: the entries of this lineage, in order
  written,   \* history: all journals there have been
  appends, faults

vars == <<chain, transit, stored, journal, written, appends, faults>>

ChainAssumption ==
  MaxSeq \in Nat /\ MaxAppends \in Nat /\ MaxFaults \in Nat

\* GENESIS_PREV, which is the tag of nothing.
Genesis == <<>>

Tag(seq, prev, record) == <<seq, prev, record>>

Init ==
  /\ chain = [seq |-> 0, prev_tag |-> Genesis]
  /\ transit = <<>> /\ stored = <<>> /\ journal = <<>> /\ written = {<<>>}
  /\ appends = 0 /\ faults = 0

\* append; at the last sequence number it fails and changes nothing.
Write(r) ==
  LET tag == Tag(chain.seq, chain.prev_tag, r)
      entry == [record |-> r, seq |-> chain.seq, prev_tag |-> chain.prev_tag, tag |-> tag]
  IN  /\ appends < MaxAppends /\ chain.seq < MaxSeq
      /\ chain' = [seq |-> chain.seq + 1, prev_tag |-> tag]
      /\ transit' = Append(transit, entry)
      /\ journal' = Append(journal, entry)
      /\ written' = written \cup {journal'}
      /\ appends' = appends + 1
      /\ UNCHANGED <<stored, faults>>

\* The store takes the oldest entry, or, being faulty, any, and keeps it or
\* drops it; a repeated delivery leaves it in transit.
Store ==
  /\ transit # <<>>
  /\ stored' = Append(stored, Head(transit)) /\ transit' = Tail(transit)
  /\ UNCHANGED <<chain, journal, written, appends, faults>>

Fault == faults < MaxFaults /\ faults' = faults + 1

Misdeliver ==
  /\ Fault /\ UNCHANGED <<chain, journal, written, appends>>
  /\ \E i \in DOMAIN transit :
       \/ stored' = Append(stored, transit[i]) /\ transit' \in {transit, RemoveAt(transit, i)}
       \/ stored' = stored /\ transit' = RemoveAt(transit, i)

Spoil ==
  /\ Fault /\ UNCHANGED <<chain, journal, written, appends>>
  /\ \/ \E i \in DOMAIN stored, r \in Records :
          stored' = [stored EXCEPT ![i].record = r]
     \/ \E i \in DOMAIN stored : stored' = RemoveAt(stored, i)
  /\ UNCHANGED transit

\* Mutant: seq and prev_tag of the last entry, not of the one after it.
ContinueAtTail(tail) == [seq |-> tail.seq, prev_tag |-> tail.prev_tag]

ContinueAfter(tail) == [seq |-> tail.seq + 1, prev_tag |-> tail.tag]

\* with_genesis, after a crash that loses what was in transit: the writer
\* continues behind the entry stored last, verified or not.
Resume ==
  /\ Fault
  /\ transit' = <<>> /\ UNCHANGED <<stored, written, appends>>
  /\ IF stored = <<>>
     THEN chain' = [seq |-> 0, prev_tag |-> Genesis] /\ journal' = <<>>
     ELSE /\ chain' = ContinueAfter(Last(stored))
          /\ \E log \in written \ {<<>>} :
               Last(log).tag = Last(stored).tag /\ journal' = log

Next == (\E r \in Records : Write(r)) \/ Store \/ Misdeliver \/ Spoil \/ Resume

Spec == Init /\ [][Next]_vars

------------------------------------------------------------------------------

\* verify_chain: contiguous from the first entry's number, linked, and signed.
Verifies(es, genesis) ==
  \A i \in DOMAIN es :
    /\ es[i].seq = es[1].seq + i - 1 /\ es[i].seq < MaxSeq
    /\ es[i].prev_tag = IF i = 1 THEN genesis ELSE es[i - 1].tag
    /\ es[i].tag = Tag(es[i].seq, es[i].prev_tag, es[i].record)

\* What is stored verifies if and only if it is an unbroken beginning of what
\* some writer wrote, through crashes and resumption: no fault in the middle goes
\* unnoticed, no clean log is refused, and all the verifier cannot see is that
\* the end is missing, or is another than was written after a resumption.  A
\* clean log also verifies in parts, each off the tag before it.
AcceptsPrefixesOnly ==
  /\ Verifies(stored, Genesis) <=> stored \in written
  /\ stored \in written => \A k \in 2..Len(stored) :
       Verifies(SubSeq(stored, k, Len(stored)), stored[k - 1].tag)
------------------------------------------------------------------------------
(* What makes it so: the inductive invariant.                               *)

TagOf(log) == IF log = <<>> THEN Genesis ELSE Last(log).tag

Tags == {TagOf(log) : log \in written}

Entries ==
  [record : Records, seq : 0..MaxSeq-1, prev_tag : Tags, tag : Tags]

TypeOK ==
  /\ written \subseteq Seq(Entries) /\ <<>> \in written
  /\ transit \in Seq(Entries) /\ stored \in Seq(Entries)

\* A log is the beginning of it before its last entry, and that entry, signed
\* for its place; no two logs end in one tag.
WrittenInv ==
  /\ \A log \in written \ {<<>>} :
       /\ Front(log) \in written
       /\ LET e == Last(log) IN
            /\ e.seq = Len(log) - 1 /\ e.prev_tag = TagOf(Front(log))
            /\ e.tag = Tag(e.seq, e.prev_tag, e.record)
  /\ \A log, other \in written : TagOf(log) = TagOf(other) => log = other

\* Whatever was done to an entry, its numbers and tags are those of one signed.
SignedInv ==
  \A e \in ToSet(transit) \cup ToSet(stored) :
    \E log \in written \ {<<>>} : e = [Last(log) EXCEPT !.record = e.record]

WriterInv ==
  journal \in written /\ chain = [seq |-> Len(journal), prev_tag |-> TagOf(journal)]

ChainInv == TypeOK /\ WrittenInv /\ SignedInv /\ WriterInv
=============================================================================
