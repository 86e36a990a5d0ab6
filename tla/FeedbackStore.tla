---------------------------- MODULE FeedbackStore ----------------------------
(***************************************************************************)
(* The bounded ledger of analyst labels and the adjustment of a raw score  *)
(* by the labels near a probe.  Points are positions on a line, and the    *)
(* Gaussian kernel is any non-increasing weight of the distance.           *)
(***************************************************************************)
EXTENDS Integers, Sequences, SequencesExt, Functions

CONSTANTS
  Capacity,   \* at least one
  Strength,   \* any sign
  Kernel,     \* weight of a distance; 0 stands for below KERNEL_SUM_FLOOR
  Points, RawScores,
  MaxLabels   \* bound on labels between two clears

VARIABLES
  entries,
  labelled    \* history: every label since the last clear

vars == <<entries, labelled>>

Distance(p, q) == IF p < q THEN q - p ELSE p - q

FeedbackAssumption ==
  /\ Capacity \in Nat \ {0} /\ Strength \in Int /\ MaxLabels \in Nat
  /\ Points \subseteq Int /\ RawScores \subseteq Nat
  /\ Kernel \in [{Distance(p, q) : p \in Points, q \in Points} -> Nat]

Verdicts == {"Benign", "Confirmed"}

Init == entries = <<>> /\ labelled = <<>>

\* Mutant: makes room only once the store is over its capacity.
LabelPastCapacity(e) ==
  entries' = Append(IF Len(entries) > Capacity THEN Tail(entries) ELSE entries, e)

LabelStored(e) ==
  entries' = Append(IF Len(entries) >= Capacity THEN Tail(entries) ELSE entries, e)

\* label, of a finite point; another is refused and changes nothing.
Label ==
  /\ Len(labelled) < MaxLabels
  /\ \E p \in Points, l \in Verdicts : LET e == [point |-> p, label |-> l] IN
       LabelStored(e) /\ labelled' = Append(labelled, e)

Clear == entries' = <<>> /\ labelled' = <<>>

Next == Label \/ Clear

Spec == Init /\ [][Next]_vars

------------------------------------------------------------------------------
(* adjust, as a fraction over the sum of the kernel weights.                *)

Sign(l) == IF l = "Benign" THEN -1 ELSE 1

Weight(p, e) == Kernel[Distance(p, e.point)]

KernelSum(p) == SumFunction([i \in DOMAIN entries |-> Weight(p, entries[i])])
SignedSum(p) ==
  SumFunction([i \in DOMAIN entries |-> Sign(entries[i].label) * Weight(p, entries[i])])

\* adjust(p, raw) times the kernel sum, when that is not negligible.
Adjusted(p, raw) == Max({0, raw * KernelSum(p) + Strength * SignedSum(p)})

------------------------------------------------------------------------------
(* Properties.                                                              *)

HoldsNewest ==
  entries = SubSeq(labelled, Max({1, Len(labelled) - Capacity + 1}), Len(labelled))

\* The adjustment goes by the newest labels, at most Capacity of them; however
\* many there are and wherever the probe is, it moves the score by no more
\* than Strength, never below zero, and by labels of one verdict only one way.
AdjustmentIsBounded ==
  /\ HoldsNewest
  /\ \A p \in Points, raw \in RawScores : KernelSum(p) > 0 =>
       LET base == raw * KernelSum(p)
           move == Max({Strength, -Strength}) * KernelSum(p)
           reached == {e.label : e \in {f \in ToSet(entries) : Weight(p, f) > 0}}
       IN  /\ Adjusted(p, raw) \in Max({0, base - move})..(base + move)
           /\ reached = {"Benign"} /\ Strength >= 0 => Adjusted(p, raw) <= base
           /\ reached = {"Confirmed"} /\ Strength >= 0 => Adjusted(p, raw) = base + move
------------------------------------------------------------------------------
(* What makes it so: the inductive invariant.                               *)

TypeOK == labelled \in Seq([point : Points, label : Verdicts])

StoreInv == TypeOK /\ HoldsNewest
=============================================================================
