------------------------------ MODULE Baselines -------------------------------
(***************************************************************************)
(* Two detectors with a baseline the caller freezes: the histograms of     *)
(* FeatureDriftDetector (one dimension: the others are filled alike) and   *)
(* the peaks of PotDetector, on one stream of whole numbers.               *)
(*                                                                         *)
(* The quantile PotDetector reads off its digest is any value between the  *)
(* least and the greatest recorded.  A value that is not finite changes    *)
(* nothing in either.  A range of one value is widened by Half a unit      *)
(* either way, so Values are multiples of a unit of 2 * Half.              *)
(***************************************************************************)
EXTENDS Integers, Sequences, FiniteSets, FiniteSetsExt, SequencesExt

CONSTANTS
  Values,
  Half,
  NumBins,
  None,
  MaxArrivals  \* bound

VARIABLES
  baseline, production, bin_edges, cold_samples,  \* FeatureDriftDetector
  frozen_u, peak_count,                           \* PotDetector
  stream,      \* history: every value observed
  frozen_at,   \* history: values before freeze_baseline, or None
  window_at,   \* history: values before the production histogram was emptied
  pinned_at    \* history: values before the threshold was last pinned

vars == <<baseline, production, bin_edges, cold_samples, frozen_u, peak_count,
          stream, frozen_at, window_at, pinned_at>>

BaselinesAssumption ==
  /\ Values \subseteq Int /\ Half \in Nat \ {0} /\ NumBins \in Nat /\ NumBins >= 2
  /\ None \notin Int /\ None \notin [min : Int, max : Int]

Empty == [b \in 1..NumBins |-> 0]

Init ==
  /\ baseline = None /\ production = Empty /\ bin_edges = None
  /\ cold_samples = <<>> /\ frozen_u = None /\ peak_count = 0
  /\ stream = <<>> /\ frozen_at = None /\ window_at = 0 /\ pinned_at = 0

------------------------------------------------------------------------------

\* map_to_bin.
MapToBin(v, min, max) ==
  IF v <= min THEN 1
  ELSE IF v >= max THEN NumBins
  ELSE Min({NumBins, 1 + ((v - min) * NumBins) \div (max - min)})

\* What PotDetector::record makes of a value; the live quantile has already
\* taken it in, and cannot be above the greatest value.
Record(value) ==
  LET seen == {stream[i] : i \in DOMAIN stream} \cup {value}
  IN \E u \in IF frozen_u # None THEN {frozen_u} ELSE Min(seen)..Max(seen) :
       peak_count' = peak_count + (IF value > u THEN 1 ELSE 0)

\* observe of FeatureDriftDetector and record of PotDetector.
Observe(value) ==
  /\ Len(stream) < MaxArrivals
  /\ \/ /\ bin_edges = None
        /\ cold_samples' = Append(cold_samples, value) /\ UNCHANGED production
     \/ /\ bin_edges # None
        /\ production' = [production EXCEPT
             ![MapToBin(value, bin_edges.min, bin_edges.max)] = @ + 1]
        /\ UNCHANGED cold_samples
  /\ Record(value)
  /\ stream' = Append(stream, value)
  /\ UNCHANGED <<baseline, bin_edges, frozen_u, frozen_at, window_at, pinned_at>>

\* The range of the cold samples, widened when it is one value.
Edges(samples) ==
  LET low == Min(ToSet(samples))
      high == Max(ToSet(samples))
  IN IF low = high THEN [min |-> low - Half, max |-> high + Half]
     ELSE [min |-> low, max |-> high]

Histogram(samples, edges) ==
  [b \in 1..NumBins |->
    Cardinality({i \in DOMAIN samples : MapToBin(samples[i], edges.min, edges.max) = b})]

\* freeze_baseline of FeatureDriftDetector; refused once the samples are gone,
\* as they are after the first time.
FreezeBaseline ==
  /\ cold_samples # <<>>
  /\ bin_edges' = Edges(cold_samples)
  /\ baseline' = Histogram(cold_samples, bin_edges')
  /\ production' = Empty /\ cold_samples' = <<>>
  /\ frozen_at' = Len(stream) /\ window_at' = Len(stream)
  /\ UNCHANGED <<frozen_u, peak_count, stream, pinned_at>>

ResetProduction ==
  /\ production' = Empty /\ window_at' = Len(stream)
  /\ UNCHANGED <<baseline, bin_edges, cold_samples, frozen_u, peak_count,
                 stream, frozen_at, pinned_at>>

Pin(u) ==
  /\ frozen_u' = u /\ peak_count' = 0 /\ pinned_at' = Len(stream)
  /\ UNCHANGED <<baseline, production, bin_edges, cold_samples,
                 stream, frozen_at, window_at>>

\* freeze_baseline of PotDetector; may be called again.
FreezeThreshold ==
  /\ stream # <<>>
  /\ \E u \in Min(ToSet(stream))..Max(ToSet(stream)) : Pin(u)

Next ==
  \/ \E value \in Values : Observe(value)
  \/ FreezeBaseline \/ ResetProduction \/ FreezeThreshold

Spec == Init /\ [][Next]_vars

------------------------------------------------------------------------------
(* Properties.                                                              *)

Since(n) == SubSeq(stream, n + 1, Len(stream))

\* How many of the values lie at or above the lower side of bin b; of the first
\* bin that is everything, however far below the range.
FromBin(values, b, edges) ==
  Cardinality({i \in DOMAIN values :
    b = 1 \/ NumBins * (values[i] - edges.min) >= (b - 1) * (edges.max - edges.min)})

Upper(counts, b) == SumFunction([c \in b..NumBins |-> counts[c]])

\* Once frozen, the baseline is for ever the histogram of what came before, on
\* edges that take all of it in, and production that of every value since the
\* last reset, none lost for lying outside; the peaks are the values since the
\* threshold was pinned that lie above it, and none of those before.
FrozenStaysFrozen ==
  /\ frozen_at # None =>
       \A b \in 1..NumBins :
         /\ Upper(baseline, b) = FromBin(SubSeq(stream, 1, frozen_at), b, bin_edges)
         /\ Upper(production, b) = FromBin(Since(window_at), b, bin_edges)
  /\ frozen_at = None => cold_samples = stream
  /\ frozen_u # None =>
       peak_count = Cardinality({i \in DOMAIN Since(pinned_at) : Since(pinned_at)[i] > frozen_u})
==============================================================================
