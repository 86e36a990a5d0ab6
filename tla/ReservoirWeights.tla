-------------------------- MODULE ReservoirWeights ---------------------------
(***************************************************************************)
(* ReservoirSampler with its weights: the sampler keeps the smallest, a    *)
(* weight falls by Decay with every offer, and while it warms up an offer  *)
(* may be turned away unweighed.                                           *)
(*                                                                         *)
(* Weights are whole numbers; what ln(-ln(u)) may be is a set, and the     *)
(* toss of the warm-up gate falls either way unless it is sure.            *)
(***************************************************************************)
EXTENDS Integers, FiniteSets, FiniteSetsExt

CONSTANTS
  Capacity,   \* at least one
  Noise,      \* what ln(-ln(u)) may be, for u clamped above zero
  Decay,      \* time_decay, not negative
  WarmUp,     \* initial_accept_fraction * capacity, or zero for fraction one
  MaxOffers   \* bound: offers since the last reset

SamplerAssumption ==
  /\ Capacity \in Nat \ {0} /\ Noise \subseteq Int
  /\ Decay \in Nat /\ WarmUp \in Nat /\ MaxOffers \in Nat

VARIABLES
  heap,          \* entries: a weight and a point index each
  entries_seen,
  op,            \* what accept returned
  contenders     \* history: entries weighed since the heap was last not full,
                 \* and those held then

vars == <<heap, entries_seen, op, contenders>>

Init == heap = {} /\ entries_seen = 0 /\ op = "none" /\ contenders = {}

------------------------------------------------------------------------------

\* admit_probability, as a ratio; the first offer already may pass.
AdmitProbability ==
  LET threshold == Max({WarmUp, 1})
  IN IF WarmUp = 0 \/ entries_seen >= threshold THEN <<1, 1>>
     ELSE <<Min({entries_seen + 1, threshold}), threshold>>

Sure == AdmitProbability[1] >= AdmitProbability[2]

\* Mutant: a heap of the least.
PeekLightest == Min({e.weight : e \in heap})

Peek == Max({e.weight : e \in heap})

Hold(e) ==
  /\ heap' = heap \cup {e} /\ op' = "inserted"
  /\ contenders' = contenders \cup {e}

\* Among the heaviest the heap may give up any.
Replace(e) ==
  \E out \in heap :
    /\ out.weight = Peek
    /\ heap' = (heap \ {out}) \cup {e} /\ op' = "replaced"
    /\ contenders' = contenders \cup {e}

TurnAway(considered) ==
  /\ heap' = heap /\ op' = "rejected"
  /\ contenders' = contenders \cup considered

\* accept; the point index is the number of the offer, which is unique.
Accept ==
  /\ entries_seen < MaxOffers
  /\ entries_seen' = entries_seen + 1
  /\ \/ ~Sure /\ TurnAway({})
     \/ \E noise \in Noise :
          LET e == [weight |-> noise - entries_seen' * Decay, point_idx |-> entries_seen']
          IN IF Cardinality(heap) < Capacity THEN Hold(e)
             ELSE IF e.weight < Peek THEN Replace(e) ELSE TurnAway({e})

Remove ==
  \E gone \in heap :
    /\ heap' = heap \ {gone} /\ contenders' = heap \ {gone}
    /\ UNCHANGED <<entries_seen, op>>

Reset == heap' = {} /\ entries_seen' = 0 /\ op' = "none" /\ contenders' = {}

Next == Accept \/ Remove \/ Reset

Spec == Init /\ [][Next]_vars

------------------------------------------------------------------------------
(* Properties.                                                              *)

\* The sample is the lightest of all that was weighed against it since a place
\* was last free, however their weights have fallen: whoever is out is no lighter
\* than anyone in; no place is empty while there are contenders for it, over
\* removals and the warm-up, of which the first offer already may pass.
SampleIsLightest ==
  /\ Cardinality(heap) = Min({Capacity, Cardinality(contenders)})
  /\ \A out \in contenders \ heap, in \in heap : out.weight >= in.weight
  /\ AdmitProbability[1] > 0
------------------------------------------------------------------------------
(* What makes it so: the inductive invariant.                               *)

TypeOK ==
  /\ entries_seen \in Nat /\ op \in {"none", "inserted", "replaced", "rejected"}
  /\ contenders \subseteq [weight : Int, point_idx : 1..entries_seen]
  /\ IsFiniteSet(contenders) /\ heap \subseteq contenders

SamplerInv == TypeOK /\ SampleIsLightest
==============================================================================
