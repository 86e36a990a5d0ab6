------------------------------ MODULE MCTriage -------------------------------
(* The parts of the triage crate, which share no state: a behaviour is one   *)
(* of them, and the variables of the others keep their first values.        *)
EXTENDS AlertClusters

VARIABLES part,
  buckets, observed_total, joined_total, new_cluster_total, lost, inputs,
  entries, labelled,
  chain, transit, stored, journal, written, appends, faults,
  fit_pc, min_step, positives, negatives, iters, converged, high_skew, halved,
  moves, ended,
  score, order, swap_at, joined, prev_score, shapley, runs

CONSTANTS
  BucketsPerDim, AttrCap, Axes, Values, NonFinite, MaxObs,
  Capacity, Strength, Kernel, Points, RawScores, MaxLabels,
  Records, MaxSeq, MaxAppends, MaxFaults,
  MinSteps,
  Dimension, Scores, Draws

\* The angle between two attributions is the distance of their numbers, 30
\* degrees each; 0 is the zero vector.
Cosine[x \in 0..3, y \in 0..3] ==
  IF x = 0 \/ y = 0 THEN 0 ELSE IF x < y THEN 3 + x - y ELSE 3 + y - x

Kinds == {[attribution |-> x, score |-> (2 * x) % 3, tenant |-> x] : x \in 0..3}

Pair == 1..2
Attributions == {-3, -1, 0, 1, NonFinite}

\* Weights of the Gaussian kernel at 0 to 3 standard deviations, in eighths.
Gauss == [d \in 0..3 |-> <<8, 5, 1, 0>>[d + 1]]

Lsh == INSTANCE LshClusters
Feedback == INSTANCE FeedbackStore
Chain == INSTANCE AuditChain
Platt == INSTANCE PlattFit WITH
  MaxIters <- 3, Subnormal <- 3, SkewThreshold <- 2, Epochs <- 2,
  MaxClass <- 5, MaxOnline <- 2
Sage == INSTANCE SageShapley

ASSUME TriageParameters ==
  ClustersAssumption /\ Lsh!LshAssumption /\ Chain!ChainAssumption
  /\ Feedback!FeedbackAssumption /\ Sage!SageAssumption

lshVars == <<buckets, observed_total, joined_total, new_cluster_total, lost, inputs>>
feedbackVars == <<entries, labelled>>
chainVars == <<chain, transit, stored, journal, written, appends, faults>>
plattVars == <<fit_pc, min_step, positives, negatives, iters, converged, high_skew,
               halved, moves, ended>>
sageVars == <<score, order, swap_at, joined, prev_score, shapley, runs>>

triageVars == <<vars, part, lshVars, feedbackVars, chainVars, plattVars, sageVars>>

TriageInit ==
  /\ part \in {"clusters", "lsh", "feedback", "chain", "platt", "sage"}
  /\ Init /\ Lsh!Init /\ Feedback!Init /\ Chain!Init
  /\ Platt!Init
  /\ part # "platt" => /\ positives = 0 /\ negatives = 0
                       /\ \A m \in MinSteps : min_step <= m
  /\ Sage!Init /\ (part # "sage" => \A S \in SUBSET Sage!Dims : score[S] = 0)

ClustersStep == part = "clusters" /\ Next
  /\ UNCHANGED <<part, lshVars, feedbackVars, chainVars, plattVars, sageVars>>
LshStep == part = "lsh" /\ Lsh!Next
  /\ UNCHANGED <<part, vars, feedbackVars, chainVars, plattVars, sageVars>>
FeedbackStep == part = "feedback" /\ Feedback!Next
  /\ UNCHANGED <<part, vars, lshVars, chainVars, plattVars, sageVars>>
ChainStep == part = "chain" /\ Chain!Next
  /\ UNCHANGED <<part, vars, lshVars, feedbackVars, plattVars, sageVars>>
PlattStep == part = "platt" /\ Platt!Next
  /\ UNCHANGED <<part, vars, lshVars, feedbackVars, chainVars, sageVars>>
SageStep == part = "sage" /\ Sage!Next
  /\ UNCHANGED <<part, vars, lshVars, feedbackVars, chainVars, plattVars>>

TriageNext ==
  \/ ClustersStep \/ LshStep \/ FeedbackStep \/ ChainStep \/ PlattStep \/ SageStep

TriageSpec ==
  /\ TriageInit /\ [][TriageNext]_triageVars
  /\ WF_triageVars(PlattStep)

\* A cluster summarises the alerts that joined it (alert_cluster.rs), and is
\* exactly the alerts of one cell (lsh_cluster.rs).
ClustersAreTheirAlerts == ClustersSummariseAlerts /\ Lsh!BucketsAreCells

\* The adjustment goes by the newest labels and is bounded (feedback.rs).
AdjustmentIsBounded == Feedback!AdjustmentIsBounded

\* A log verifies exactly when it is a beginning of one that was written
\* (audit_chain.rs).
AcceptsPrefixesOnly == Chain!AcceptsPrefixesOnly

\* The credits add up to what they explain (sage.rs).
CreditsAddUp == Sage!CreditsAddUp

\* fit returns (calibrator.rs).
FitReturns == part = "platt" => Platt!FitReturns

\* A fit that gave up does not say that it converged (calibrator.rs:423).
GivingUpIsNotConverging == Platt!GivingUpIsNotConverging
==============================================================================
