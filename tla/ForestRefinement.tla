-------------------------- MODULE ForestRefinement --------------------------
(***************************************************************************)
(* RandomCutForest, with its slots, counters and workers, implements       *)
(* ReservoirEnsemble: a slot stands for the observation stored in it.      *)
(***************************************************************************)
EXTENDS RandomCutForest

\* A deletion whose slot is empty touches nothing: the ensemble stays at rest.
Vacuous == job = "delete" /\ ~IsLive(slot)

StampOf(o) ==
  IF \E s \in Slots : points[s] = o
  THEN timestamps[CHOOSE s \in Slots : points[s] = o]
  ELSE None

HeldObs  == [t \in Trees |-> {points[s] : s \in sample[t]}]
StampObs == [o \in Obs |-> StampOf(o)]
Phase    == IF job = "none" \/ Vacuous THEN "rest"
            ELSE IF job = "insert" THEN "insert" ELSE "retract"
Asked    == IF job = "none" \/ Vacuous THEN {} ELSE {t \in Trees : stage[t] # "start"}
Target   == IF job = "delete" /\ ~Vacuous THEN points[slot] ELSE None

Ensemble == INSTANCE ReservoirEnsemble WITH
  held <- HeldObs, stamp <- StampObs, seen <- updates_seen,
  phase <- Phase, asked <- Asked, target <- Target

\* Slot reuse, reference counting and the order of the workers are invisible:
\* each observation is baselined, stamped and retracted as itself.
ImplementsEnsemble == Ensemble!Spec

\* For TLC: observations alternate between two points.
TwoValues == [o \in Obs |-> o % 2]
==============================================================================
