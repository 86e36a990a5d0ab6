------------------------------ MODULE Shingled ------------------------------
(***************************************************************************)
(* A stream of scalars turned into points: a ring keeps the last D of      *)
(* them, and once it is full every scalar submits the ring to the forest   *)
(* before it enters the ring itself.  Scalars are told apart by their      *)
(* position in the stream; only the forest's answer matters of the forest. *)
(***************************************************************************)
EXTENDS Naturals, Sequences

CONSTANTS
  D,           \* shingle size, at least one
  MaxScalars   \* bound on scalars offered

ShingleAssumption == D \in Nat \ {0} /\ MaxScalars \in Nat

VARIABLES
  ring, filled, cursor, warmed,
  offered,    \* scalars offered, refused ones included
  accepted,   \* history: positions that entered the ring since it was empty
  submitted   \* history: shingles the forest took since then, oldest first

vars == <<ring, filled, cursor, warmed, offered, accepted, submitted>>

\* Position 0 stands for the zeros of a ring never written.
EmptyRing == [i \in 0..D-1 |-> 0]

Init ==
  /\ ring = EmptyRing /\ filled = 0 /\ cursor = 0 /\ warmed = FALSE
  /\ offered = 0 /\ accepted = <<>> /\ submitted = <<>>

\* Mutant: starts one slot late.
MaterialiseFromNext == [i \in 1..D |-> ring[(cursor + i) % D]]

\* Logical order, oldest first: a full ring has its oldest at the cursor.
MaterialiseShingle == [i \in 1..D |-> ring[(cursor + i - 1) % D]]

ShingleWith(v) == [i \in 1..D |-> IF i = D THEN v ELSE ring[(cursor + i) % D]]

Rotate(v) ==
  /\ ring' = [ring EXCEPT ![cursor] = v]
  /\ cursor' = (cursor + 1) % D
  /\ filled' = IF filled < D THEN filled + 1 ELSE filled
  /\ accepted' = Append(accepted, v)

Offer == offered < MaxScalars /\ offered' = offered + 1

Fill ==
  /\ filled < D /\ Offer /\ Rotate(offered + 1)
  /\ UNCHANGED <<warmed, submitted>>

Submit ==
  /\ filled >= D /\ Offer
  /\ submitted' = Append(submitted, MaterialiseShingle)
  /\ warmed' = TRUE
  /\ Rotate(offered + 1)

\* The scalar is not finite, or the forest refuses the shingle: the error
\* returns before the ring turns.
UpdateFails == Offer /\ UNCHANGED <<ring, filled, cursor, warmed, accepted, submitted>>

ResetRing ==
  /\ ring' = EmptyRing /\ filled' = 0 /\ cursor' = 0 /\ warmed' = FALSE
  /\ accepted' = <<>> /\ submitted' = <<>>
  /\ UNCHANGED offered

Next == Fill \/ Submit \/ UpdateFails \/ ResetRing

Spec == Init /\ [][Next]_vars

------------------------------------------------------------------------------
(* Properties.                                                              *)

Window(n) == [i \in 1..D |-> accepted[n + i - 1]]

\* What the forest has seen since the ring was empty is every window of D
\* consecutive accepted scalars but the newest, once each and in order: errors
\* and resets neither tear a window nor repeat one.
ShinglesAreWindows ==
  /\ Len(submitted) = (IF Len(accepted) > D THEN Len(accepted) - D ELSE 0)
  /\ \A n \in 1..Len(submitted) : submitted[n] = Window(n)
  /\ warmed <=> submitted # <<>>

\* A query sees the newest D - 1 accepted scalars and then its own.
QueryExtendsNewest ==
  filled = D =>
    \A i \in 1..D-1 : ShingleWith(offered + 1)[i] = accepted[Len(accepted) - D + 1 + i]
------------------------------------------------------------------------------
(* What makes it so: the inductive invariant.                               *)

TypeOK ==
  /\ offered \in Nat /\ ring \in [0..D-1 -> Nat]
  /\ accepted \in Seq(Nat) /\ submitted \in Seq([1..D -> Nat])

\* The ring is the newest accepted scalars, each where its number wraps to.
RingInv ==
  /\ TypeOK /\ ShinglesAreWindows
  /\ cursor = Len(accepted) % D
  /\ filled = IF Len(accepted) < D THEN Len(accepted) ELSE D
  /\ \A n \in 1..Len(accepted) :
       n > Len(accepted) - D => ring[(n - 1) % D] = accepted[n]
=============================================================================
