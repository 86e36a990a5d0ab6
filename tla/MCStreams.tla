------------------------------ MODULE MCStreams ------------------------------
(* The parts of the core that follow one stream, and share no state: the     *)
(* sampler, the forest's answer and its failures, the wrappers of a forest,  *)
(* its snapshots, the sketches, the detectors, and the answers computed from *)
(* a record.  A behaviour is one of them; the variables of the others keep   *)
(* their first values.                                                       *)
EXTENDS DriftAware

VARIABLES part,
  heap, entries_seen, op, contenders,
  trees, partials, walked, n, mean, m2, early,
  ring, filled, cursor, warmed, offered, accepted, submitted,
  seq, at, files, dir, kept, reading, renamed, saved,
  counts, total, col, table, truth,
  indexes, slot, rho, bits, registers, total_added, held,
  bins, underflow, overflow, non_finite, centroids, buffer, total_weight,
  min, max, recorded,
  window, fired, windowed,
  observations, low, high, s_high, s_low, excess,
  s_pos, s_neg, reference, reference_set, drift_samples, total_samples, shifts,
  baseline, production, bin_edges, cold_samples, frozen_u, peak_count,
  observed, frozen_at, window_at, pinned_at,
  live, capacity, refs, entries, indexed, job, newcomer, waiting, pending,
  erred, updates, refusals, errors,
  series, row, sums, qt, profile, index,
  scores, labels, radius, areas, emitted, covered, precision_tp, auc,
  arrived, stats, average, samples, verdict, stretch,
  fleet, top_n, unseen, nearest, listed

CONSTANTS
  Capacity, Noise, Decay, WarmUp, MaxOffers,              \* of the sampler
  NumTrees, SampleSize, MaxSlots, MaxUpdates, MaxRefusals,  \* of the failing forest
  D, MaxScalars,                                          \* of the shingles
  Threads, Processes, ProcessOf, Pid, MaxSaves,           \* of the snapshots
  Items, Counters, Rows, Width, MaxTotal,                 \* of the frequencies
  Collectors, Members, Bits, NumHashes, Registers, MaxRank, MaxAdded,  \* of the sets
  Readings, MinSub, WindowCap, LogTerm, MaxReadings,      \* of the window
  Scores, Slack, Limit, MinScores, Spreads, MaxScores,    \* of the sums
  Observables, Half, NumBins, MaxObserved,                \* of the baselines
  Points, PointWarmUp, Boundless, MaxPoints               \* of the moving average

\* A digest another collector sends: three values, two of them in a centroid.
Peer ==
  [recorded |-> <<1, 5, 9>>, centroids |-> <<[sum |-> 6, weight |-> 2]>>,
   buffer |-> <<9>>, min |-> 1, max |-> 9,
   bins |-> <<1, 1, 0>>, underflow |-> 0, overflow |-> 1]

\* What the scores of a tenant may look like; the last has seen too few.
Profiles ==
  {[mean |-> 0, stddev |-> 0, observations |-> 2],
   [mean |-> 1, stddev |-> 0, observations |-> 2],
   [mean |-> 1, stddev |-> 1, observations |-> 2],
   [mean |-> 3, stddev |-> 0, observations |-> 1]}

Sampler == INSTANCE ReservoirWeights
Ensemble == INSTANCE EnsembleScores WITH
  NumTrees <- 4, Scores <- {0, 12, 24, 36}, Empty <- None, MinTrees <- 2,
  Confidence <- <<1, 2>>, Trim <- <<1, 3>>
Failing == INSTANCE ForestFailures WITH
  Absent <- None, slot <- newcomer, failed <- erred
Shingle == INSTANCE Shingled
Snapshot == INSTANCE Checkpoint
Frequency == INSTANCE FrequencySketches WITH Keys <- Items, Capacity <- Counters
Sets == INSTANCE SetSketches WITH Keys <- Members
Cutting == INSTANCE Adwin WITH
  Values <- Readings, MaxArrivals <- MaxReadings, accepted <- windowed
Sums == INSTANCE CumulativeSums WITH
  Values <- Scores, MinObservations <- MinScores, MaxArrivals <- MaxScores
Frozen == INSTANCE Baselines WITH
  Values <- Observables, MaxArrivals <- MaxObserved, stream <- observed
Moving == INSTANCE RunningStats WITH
  Values <- Points, WarmUp <- PointWarmUp, Unjudged <- None, MaxArrivals <- MaxPoints

ASSUME StreamsParameters ==
  /\ Sampler!SamplerAssumption /\ Failing!FailureAssumption
  /\ Shingle!ShingleAssumption /\ Snapshot!CheckpointAssumption
  /\ Frequency!FrequencyAssumption /\ Sets!SetsAssumption
  /\ Cutting!AdwinAssumption /\ Sums!SumsAssumption
  /\ Frozen!BaselinesAssumption /\ Moving!RunningAssumption

Quantiles == INSTANCE QuantileSketches WITH
  Lowest <- 1, Highest <- 8, BinCount <- 3, Values <- {0, 3, 6, 9},
  Threshold <- 3, Others <- {Peer}, Steps <- 8, MaxRecorded <- 4
Matrix == INSTANCE MatrixProfile WITH
  Values <- {0, 1, 3}, Length <- 8, Window <- 4, Exclusion <- 2, Far <- None
Ranking == INSTANCE RangePrecision WITH
  Length <- 4, Levels <- {0, 1, 2}, MaxBuffer <- 2, Scale <- 12, buffer <- radius
Fleet == INSTANCE FleetQueries WITH
  Tenants <- 1..4, Stats <- Profiles, Key <- 1, MinObservations <- 2, MaxTop <- 2,
  heap <- nearest, out <- listed

samplerVars == <<heap, entries_seen, op, contenders>>
ensembleVars == <<trees, partials, walked, n, mean, m2, early>>
ringVars == <<ring, filled, cursor, warmed, offered, accepted, submitted>>
saveVars == <<seq, at, files, dir, kept, reading, renamed, saved>>
frequencyVars == <<counts, total, col, table, truth>>
setVars == <<indexes, slot, rho, bits, registers, total_added, held>>
quantileVars == <<bins, underflow, overflow, non_finite, centroids, buffer,
                  total_weight, min, max, recorded>>
windowVars == <<window, fired, windowed>>
sumVars == <<observations, low, high, s_high, s_low, excess, s_pos, s_neg,
             reference, reference_set, drift_samples, total_samples, shifts>>
frozenVars == <<baseline, production, bin_edges, cold_samples, frozen_u,
                peak_count, observed, frozen_at, window_at, pinned_at>>
failingVars == <<live, capacity, refs, entries, indexed, job, newcomer, waiting,
                 pending, erred, updates, refusals, errors>>
matrixVars == <<series, row, sums, qt, profile, index>>
movingVars == <<arrived, stats, average, samples, verdict, stretch>>
fleetVars == <<fleet, top_n, unseen, nearest, listed>>
rankingVars == <<scores, labels, radius, areas, emitted, covered, precision_tp, auc>>

forestVars == <<samplerVars, ensembleVars, failingVars>>
wrapperVars == <<vars, ringVars, saveVars>>
sketchVars == <<frequencyVars, setVars, quantileVars>>
detectorVars == <<windowVars, sumVars, frozenVars, movingVars>>
metricVars == <<matrixVars, rankingVars, fleetVars>>

StreamsInit ==
  /\ part \in {"sampler", "ensemble", "drift", "shingle", "save", "frequency",
               "sets", "quantiles", "window", "sums", "frozen", "failing",
               "profile", "ranking", "moving", "fleet"}
  /\ Sampler!Init /\ Ensemble!Init
  /\ part # "ensemble" => \A i \in DOMAIN trees : trees[i] = None
  /\ Init /\ Shingle!Init /\ Snapshot!Init /\ Quantiles!Init
  /\ Cutting!Init /\ Sums!Init /\ Frozen!Init
  /\ Frequency!Init
  /\ part # "frequency" => \A c \in DOMAIN col : col[c] = 0
  /\ Sets!Init
  /\ part # "sets" => \A k \in Members :
       indexes[k] = {CHOOSE b \in Bits : TRUE} /\ slot[k] = (CHOOSE r \in Registers : TRUE)
       /\ rho[k] = 1
  /\ Failing!Init
  /\ part = "profile" \/ series = [i \in 1..8 |-> 0]
  /\ Matrix!Init
  /\ part = "ranking" \/ (scores = [p \in 1..4 |-> 0] /\ labels = {1})
  /\ Ranking!Init
  /\ Moving!Init
  /\ part = "fleet" \/ (fleet = <<>> /\ top_n = 0)
  /\ Fleet!Init

ForestStep ==
  /\ UNCHANGED <<part, wrapperVars, sketchVars, detectorVars, metricVars>>
  /\ \/ part = "sampler" /\ Sampler!Next /\ UNCHANGED <<ensembleVars, failingVars>>
     \/ part = "ensemble" /\ Ensemble!Next /\ UNCHANGED <<samplerVars, failingVars>>
     \/ part = "failing" /\ Failing!Next /\ UNCHANGED <<samplerVars, ensembleVars>>

WrapperStep ==
  /\ UNCHANGED <<part, forestVars, sketchVars, detectorVars, metricVars>>
  /\ \/ part = "drift" /\ Next /\ UNCHANGED <<ringVars, saveVars>>
     \/ part = "shingle" /\ Shingle!Next /\ UNCHANGED <<vars, saveVars>>
     \/ part = "save" /\ Snapshot!Next /\ UNCHANGED <<vars, ringVars>>

SketchStep ==
  /\ UNCHANGED <<part, forestVars, wrapperVars, detectorVars, metricVars>>
  /\ \/ part = "frequency" /\ Frequency!Next /\ UNCHANGED <<setVars, quantileVars>>
     \/ part = "sets" /\ Sets!Next /\ UNCHANGED <<frequencyVars, quantileVars>>
     \/ part = "quantiles" /\ Quantiles!Next /\ UNCHANGED <<frequencyVars, setVars>>

DetectorStep ==
  /\ UNCHANGED <<part, forestVars, wrapperVars, sketchVars, metricVars>>
  /\ \/ part = "window" /\ Cutting!Next /\ UNCHANGED <<sumVars, frozenVars, movingVars>>
     \/ part = "sums" /\ Sums!Next /\ UNCHANGED <<windowVars, frozenVars, movingVars>>
     \/ part = "frozen" /\ Frozen!Next /\ UNCHANGED <<windowVars, sumVars, movingVars>>
     \/ part = "moving" /\ Moving!Next /\ UNCHANGED <<windowVars, sumVars, frozenVars>>

MetricStep ==
  /\ UNCHANGED <<part, forestVars, wrapperVars, sketchVars, detectorVars>>
  /\ \/ part = "profile" /\ Matrix!Next /\ UNCHANGED <<rankingVars, fleetVars>>
     \/ part = "ranking" /\ Ranking!Next /\ UNCHANGED <<matrixVars, fleetVars>>
     \/ part = "fleet" /\ Fleet!Next /\ UNCHANGED <<matrixVars, rankingVars>>

StreamsNext ==
  ForestStep \/ WrapperStep \/ SketchStep \/ DetectorStep \/ MetricStep

StreamsSpec ==
  StreamsInit /\
  [][StreamsNext]_<<part, forestVars, wrapperVars, sketchVars, detectorVars,
                    metricVars>>

\* The sampler holds the lightest of what was weighed (reservoir.rs).
SampleIsLightest == part = "sampler" => Sampler!SampleIsLightest

\* What is computed on the way is what its definition says: the forest's
\* answer by whichever call (random_cut_forest.rs), the nearest neighbours and
\* the discords of a series (matrix_profile.rs), the hits of a range-aware
\* precision and recall (vus_pr.rs), moments taken in one pass (online_stats.rs,
\* normalize.rs), the tenants most like one (tenant_pool.rs), and the quantiles
\* of a sketch, which are in order (histogram.rs, tdigest.rs).
AnswersAgree ==
  /\ part = "ensemble" => Ensemble!AnswersAgree
  /\ part = "profile"  => Matrix!ProfileIsNearest /\ Matrix!DiscordsStandApart
  /\ part = "ranking"  => Ranking!CurveCountsHits
  /\ part = "moving"   => Moving!OnePassIsTwo
  /\ part = "fleet"    => Fleet!NearestTenantsListed
  /\ part = "quantiles" => Quantiles!QuantilesInOrder

\* An erring worker's leftovers do not reach other points (random_cut_forest.rs).
DamageIsContained == part = "failing" => Failing!DamageIsContained

\* The forest sees every window once, in order, and a query the newest scalars
\* and then its own (shingled.rs).
ShinglesAreWindows ==
  part = "shingle" => Shingle!ShinglesAreWindows /\ Shingle!QueryExtendsNewest

\* The path is a whole snapshot, never older than the newest Ok (persistence.rs).
SaveIsAtomicAndLasts == part = "save" => Snapshot!SaveIsAtomicAndLasts

\* What the sketches say brackets the stream, or the union of streams, they saw
\* (space_saving.rs, count_min_sketch.rs, bloom.rs, hyperloglog.rs).
SketchesBracketTruth ==
  /\ part = "frequency" => Frequency!EstimatesBracketTruth
  /\ part = "sets"      => Sets!MergeIsUnion

\* Windows, sums, baselines and peaks are of the stretch of the stream they
\* belong to, over any resets, and a quiet window hides no shift (adwin.rs,
\* meta_drift.rs, per_feature_cusum.rs, per_feature_ewma.rs, feature_drift.rs,
\* univariate_spot.rs).
DetectorsKeepToTheirStretch ==
  /\ part = "window" => Cutting!QuietWindowIsFlat
  /\ part = "sums"   => Sums!SumsAreWorstRuns
  /\ part = "frozen" => Frozen!FrozenStaysFrozen
  /\ part = "moving" => Moving!JudgedByItsPast

------------------------------------------------------------------------------
(* For TLC.                                                                 *)

\* Each process has one thread, and they have the same pid.
OwnProcess == [t \in Threads |-> t]
SamePid == [p \in Processes |-> 1]

LogTerms == <<1, 1, 2, 2, 2, 2>>
==============================================================================
