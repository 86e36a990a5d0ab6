----------------------------- MODULE DriftAware -----------------------------
(***************************************************************************)
(* A forest that recovers from drift: on a trigger a shadow forest starts  *)
(* to take every point beside the primary, and once warm replaces it.      *)
(* A forest is the set of stream positions it has ingested.                *)
(***************************************************************************)
EXTENDS Naturals, FiniteSets

CONSTANTS
  ShadowWarmup, MinPrimaryAge,  \* DriftRecoveryConfig
  MaxStream, MaxSpawns,         \* bounds on points offered, on shadows
  None

ASSUME RecoveryAssumption ==
  ShadowWarmup \in Nat /\ MinPrimaryAge \in Nat /\ MaxStream \in Nat /\ MaxSpawns \in Nat

VARIABLES
  primary,      \* the positions the live forest holds
  shadow,       \* None, or its forest and the count of points since spawn
  primary_age,
  swaps,
  stream,       \* points offered so far
  born,         \* history: where the primary's forest was built
  failed,       \* history: positions `update` returned an error for
  spawned,      \* the counter DRIFT_AWARE_ON_DRIFT_TOTAL
  dropped       \* history: shadows given up

vars == <<primary, shadow, primary_age, swaps, stream, born, failed, spawned,
          dropped>>

Init ==
  /\ primary = {} /\ shadow = None
  /\ primary_age = 0 /\ swaps = 0 /\ stream = 0
  /\ born = 0 /\ failed = {} /\ spawned = 0 /\ dropped = 0

Here == stream + 1

\* The live forest refuses the point, having ingested it in part or not.
PrimaryFails ==
  /\ primary' \in {primary, primary \cup {Here}}
  /\ failed' = failed \cup {Here}
  /\ UNCHANGED <<shadow, primary_age, swaps, born, spawned, dropped>>

Aged == primary_age' = primary_age + 1

PrimaryOnly ==
  /\ shadow = None
  /\ primary' = primary \cup {Here} /\ Aged
  /\ UNCHANGED <<shadow, swaps, born, failed, spawned, dropped>>

\* The shadow refuses it: the shadow goes, and the caller hears of an error.
ShadowFails ==
  /\ shadow # None
  /\ primary' = primary \cup {Here} /\ Aged
  /\ shadow' = None /\ dropped' = dropped + 1
  /\ failed' = failed \cup {Here}
  /\ UNCHANGED <<swaps, born, spawned>>

Taught ==
  [forest |-> shadow.forest \cup {Here}, seen |-> shadow.seen + 1, from |-> shadow.from]

ShadowLearns ==
  /\ shadow # None /\ Taught.seen < ShadowWarmup
  /\ primary' = primary \cup {Here} /\ Aged
  /\ shadow' = Taught
  /\ UNCHANGED <<swaps, born, failed, spawned, dropped>>

\* Mutant: the swap counts the point only after the shadow has become primary.
SwapForgetsPoint ==
  /\ shadow # None /\ Taught.seen >= ShadowWarmup
  /\ primary' = shadow.forest /\ primary_age' = shadow.seen
  /\ shadow' = None /\ swaps' = swaps + 1
  /\ born' = shadow.from
  /\ UNCHANGED <<failed, spawned, dropped>>

\* swap_shadow_into_primary, in the call that makes the shadow warm.
Swap ==
  /\ shadow # None /\ Taught.seen >= ShadowWarmup
  /\ primary' = Taught.forest /\ primary_age' = Taught.seen
  /\ shadow' = None /\ swaps' = swaps + 1
  /\ born' = shadow.from
  /\ UNCHANGED <<failed, spawned, dropped>>

Update ==
  /\ stream < MaxStream /\ stream' = Here
  /\ PrimaryFails \/ PrimaryOnly \/ ShadowFails \/ ShadowLearns \/ Swap

\* A trigger, ignored during recovery and by a primary too young.
OnDrift ==
  /\ spawned < MaxSpawns
  /\ shadow = None /\ primary_age >= MinPrimaryAge
  /\ shadow' = [forest |-> {}, seen |-> 0, from |-> stream]
  /\ spawned' = spawned + 1
  /\ UNCHANGED <<primary, primary_age, swaps, stream, born, failed, dropped>>

AbortShadow ==
  /\ shadow' = None
  /\ dropped' = dropped + (IF shadow = None THEN 0 ELSE 1)
  /\ UNCHANGED <<primary, primary_age, swaps, stream, born, failed, spawned>>

Next == Update \/ OnDrift \/ AbortShadow

Spec == Init /\ [][Next]_vars

------------------------------------------------------------------------------
(* Properties.                                                              *)

\* The live forest, swapped in or not, holds everything offered since it was
\* built except points an error was returned for: recovery leaves no gap.  And
\* the age that gates the next recovery counts what the live forest accepted,
\* also when that forest was a shadow while it did.
RecoveryLosesNothing ==
  /\ primary \subseteq born + 1 .. stream
  /\ (born + 1 .. stream) \ primary \subseteq failed
  /\ Cardinality(primary \ failed) <= primary_age
  /\ primary_age <= Cardinality(primary)
------------------------------------------------------------------------------
(* What makes it so: the inductive invariant.                               *)

TypeOK ==
  /\ stream \in Nat /\ born \in 0..stream
  /\ primary_age \in Nat /\ failed \subseteq 1..stream

\* A shadow holds all it was offered since it was spawned, errors excepted, and
\* has counted what it holds: it is a primary that has not taken over yet.
ShadowInv ==
  shadow # None =>
    /\ shadow = [forest |-> shadow.forest, seen |-> shadow.seen, from |-> shadow.from]
    /\ shadow.from \in 0..stream
    /\ shadow.forest \subseteq shadow.from + 1 .. stream
    /\ shadow.forest = (shadow.from + 1 .. stream) \ failed
    /\ shadow.seen = Cardinality(shadow.forest)

RecoveryInv == TypeOK /\ RecoveryLosesNothing /\ ShadowInv
=============================================================================
