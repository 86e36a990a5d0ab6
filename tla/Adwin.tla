-------------------------------- MODULE Adwin --------------------------------
(***************************************************************************)
(* AdwinDetector: a window of the newest values, cut where the means on    *)
(* its two sides differ by more than a Hoeffding bound.  Values are whole  *)
(* numbers and the logarithm in the bound is a table; a value that is not  *)
(* finite changes nothing.                                                 *)
(***************************************************************************)
EXTENDS Integers, Sequences, FiniteSetsExt, SequencesExt

CONSTANTS
  Values,
  MinSub,      \* MIN_SUBWINDOW_LEN
  WindowCap,
  LogTerm,     \* range^2 * ln(4 n / delta) for a window of n values
  MaxArrivals  \* bound: values since the last reset

VARIABLES
  window,      \* buffer
  fired,       \* what update returned
  accepted     \* history: values since the last reset

vars == <<window, fired, accepted>>

AdwinAssumption ==
  MinSub \in Nat \ {0} /\ WindowCap \in Nat /\ WindowCap >= 2 * MinSub

Init == window = <<>> /\ fired = FALSE /\ accepted = <<>>

------------------------------------------------------------------------------

Total(s) == FoldSeq(LAMBDA x, y : x + y, 0, s)

\* The mean of the first split values and that of the rest are more than
\* eps_cut apart, cross-multiplied.
Flags(w, split) ==
  LET nr == Len(w) - split
      left == Total(SubSeq(w, 1, split))
      gap == left * nr - (Total(w) - left) * split
  IN 2 * gap * gap > LogTerm[Len(w)] * split * nr * Len(w)

\* Mutant: the newest split is not looked at.
SplitsButNewest(n) == MinSub..(n - MinSub - 1)

Splits(n) == MinSub..(n - MinSub)

\* What detect_and_shrink leaves: the first split that flags is cut at.
Shrunk(w) ==
  LET flagged == {split \in Splits(Len(w)) : Flags(w, split)}
  IN IF flagged = {} THEN w ELSE SubSeq(w, Min(flagged) + 1, Len(w))

Update(value) ==
  LET kept == IF Len(window) >= WindowCap THEN Tail(window) ELSE window
      w == Append(kept, value)
  IN /\ Len(accepted) < MaxArrivals
     /\ window' = Shrunk(w)
     /\ fired' = (window' # w)
     /\ accepted' = Append(accepted, value)

ResetWindow == window' = <<>> /\ fired' = FALSE /\ accepted' = <<>>

Next == (\E value \in Values : Update(value)) \/ ResetWindow

Spec == Init /\ [][Next]_vars

------------------------------------------------------------------------------
(* Properties.                                                              *)

\* The window is the newest values without a gap; an update that said nothing
\* leaves no two sides of at least MinSub values it could have told apart, and
\* one that fired leaves such a side: a level that has held long enough is
\* never averaged away unnoticed (update, detect_and_shrink).
QuietWindowIsFlat ==
  /\ IsSuffix(window, accepted)
  /\ Len(window) <= WindowCap
  /\ fired => Len(window) >= MinSub
  /\ ~fired =>
       \A split \in 1..Len(window) :
         split >= MinSub /\ Len(window) - split >= MinSub => ~Flags(window, split)
=============================================================================
