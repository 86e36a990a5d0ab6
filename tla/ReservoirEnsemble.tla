-------------------------- MODULE ReservoirEnsemble --------------------------
(***************************************************************************)
(* What a RandomCutForest promises about the observations it baselines,    *)
(* with no slots, reference counts or workers: every tree keeps at most    *)
(* SampleSize observations, an observation enters a tree only while it is  *)
(* the one being inserted, leaves it only for that newcomer or when it is  *)
(* itself retracted, and its timestamp lives exactly as long as some tree  *)
(* holds it.                                                               *)
(***************************************************************************)
EXTENDS Integers, FiniteSets

CONSTANTS NumTrees, SampleSize, WarmUp, MaxObs, Times, None

Trees == 1..NumTrees
Obs   == 1..MaxObs

VARIABLES
  held,      \* held[t]: the observations tree t baselines
  stamp,     \* timestamp of an observation, None when it has none
  seen,      \* observations inserted so far
  phase,     \* "rest", "insert" or "retract"
  asked,     \* trees that have decided on the insertion or retraction
  target     \* observation being retracted

vars == <<held, stamp, seen, phase, asked, target>>

Held(o) == \E t \in Trees : o \in held[t]
Newcomer == seen + 1

Init ==
  /\ held = [t \in Trees |-> {}]
  /\ stamp = [o \in Obs |-> None]
  /\ seen = 0
  /\ phase = "rest"
  /\ asked = {}
  /\ target = None

BeginInsert ==
  /\ phase = "rest" /\ seen < MaxObs
  /\ phase' = "insert"
  /\ asked' = {}
  /\ UNCHANGED <<held, stamp, seen, target>>

\* Tree t turns the newcomer down (never when it has room and the stream is past
\* its warm-up), has room for it, or swaps one out for it.
Decide(t) ==
  /\ phase = "insert" /\ t \notin asked
  /\ asked' = asked \cup {t}
  /\ \/ /\ Cardinality(held[t]) = SampleSize \/ Newcomer < WarmUp
        /\ held' = held
     \/ /\ Cardinality(held[t]) < SampleSize
        /\ held' = [held EXCEPT ![t] = @ \cup {Newcomer}]
     \/ \E e \in held[t] :
          /\ Cardinality(held[t]) = SampleSize
          /\ held' = [held EXCEPT ![t] = (@ \ {e}) \cup {Newcomer}]
  /\ UNCHANGED <<stamp, seen, phase, target>>

\* An observation the last tree has given up loses its timestamp.
Forget(o) ==
  /\ phase = "insert" /\ asked = Trees
  /\ ~Held(o) /\ o # Newcomer
  /\ stamp' = [stamp EXCEPT ![o] = None]
  /\ UNCHANGED <<held, seen, phase, asked, target>>

EndInsert(ts) ==
  /\ phase = "insert" /\ asked = Trees
  /\ \A o \in Obs : stamp[o] # None => Held(o)
  /\ ts # None => Held(Newcomer)
  /\ stamp' = [stamp EXCEPT ![Newcomer] = ts]
  /\ seen' = seen + 1
  /\ phase' = "rest"
  /\ asked' = {}
  /\ UNCHANGED <<held, target>>

BeginRetract(o) ==
  /\ phase = "rest"
  /\ Held(o)
  /\ phase' = "retract"
  /\ target' = o
  /\ asked' = {}
  /\ UNCHANGED <<held, stamp, seen>>

Withdraw(t) ==
  /\ phase = "retract" /\ t \notin asked
  /\ held' = [held EXCEPT ![t] = @ \ {target}]
  /\ asked' = asked \cup {t}
  /\ UNCHANGED <<stamp, seen, phase, target>>

EndRetract ==
  /\ phase = "retract" /\ asked = Trees
  /\ stamp' = [stamp EXCEPT ![target] = None]
  /\ phase' = "rest"
  /\ target' = None
  /\ asked' = {}
  /\ UNCHANGED <<held, seen>>

Stamp(o, ts) ==
  /\ phase = "rest"
  /\ Held(o)
  /\ stamp' = [stamp EXCEPT ![o] = ts]
  /\ UNCHANGED <<held, seen, phase, asked, target>>

Next ==
  \/ BeginInsert
  \/ \E t \in Trees : Decide(t) \/ Withdraw(t)
  \/ \E o \in Obs : Forget(o) \/ BeginRetract(o)
  \/ \E ts \in Times \cup {None} : EndInsert(ts)
  \/ EndRetract
  \/ \E o \in Obs, ts \in Times : Stamp(o, ts)

Spec == Init /\ [][Next]_vars
==============================================================================
