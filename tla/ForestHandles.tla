---------------------------- MODULE ForestHandles ----------------------------
(***************************************************************************)
(* RandomCutForest seen by a caller that keeps the index update_indexed    *)
(* returned for an observation and uses it later, as the docs of           *)
(* update_indexed, delete and set_point_timestamp propose: to retract the  *)
(* observation or to stamp it "after the fact".                            *)
(***************************************************************************)
EXTENDS RandomCutForest

VARIABLES
  handle,      \* the index the caller was given for each observation
  retracting   \* the observation whose index was handed to delete, or None

handleVars == <<vars, handle, retracting>>

HInit ==
  /\ Init
  /\ handle = [o \in Obs |-> None]
  /\ retracting = None

\* update_indexed returns the slot of the observation it has inserted.
HReturn ==
  /\ EndInsert
  /\ handle' = [handle EXCEPT ![updates_seen + 1] = slot]
  /\ UNCHANGED retracting

HDelete(o) ==
  /\ handle[o] # None
  /\ Delete(handle[o])
  /\ retracting' = o
  /\ UNCHANGED handle

HEndDelete ==
  /\ EndDelete
  /\ retracting' = None
  /\ UNCHANGED handle

HStamp(o, ts) ==
  /\ handle[o] # None
  /\ SetPointTimestamp(handle[o], ts)
  /\ UNCHANGED <<handle, retracting>>

HStep ==
  /\ \/ \E t \in Trees : Worker(t) \/ FreeEvicted(t)
     \/ Update
     \/ \E cutoff \in Times : DeleteBefore(cutoff)
     \/ \E s \in Slots : DeleteNext(s)
     \/ Return
  /\ UNCHANGED <<handle, retracting>>

HNext ==
  \/ HReturn
  \/ \E o \in Obs : HDelete(o)
  \/ HEndDelete
  \/ \E o \in Obs, ts \in Times : HStamp(o, ts)
  \/ HStep

HSpec == HInit /\ [][HNext]_handleVars

\* Once delete has returned for an observation's index, no slot of the store
\* holds that observation any more, whichever trees sampled it and however
\* their workers interleaved: a retracted point cannot linger in some tree.
RetractedIsGone ==
  [][HEndDelete /\ retracting # None =>
       \A s \in Slots : points'[s] # retracting]_handleVars

\* delete(idx) retracts the observation idx was returned for, or nothing when
\* the reservoirs have evicted it already: it never retracts another one.
HandleRetractsItsOwn ==
  retracting # None /\ job = "delete" =>
    points[slot] \in {retracting, None}
==============================================================================
