----------------------------- MODULE StripedPair -----------------------------
(***************************************************************************)
(* One of the two counters of a hotpath StripedPair: threads count events  *)
(* on the stripe they were dealt, and every Batch-th event of a stripe, or *)
(* an explicit flush_metrics, sends the metrics sink what it has not been  *)
(* sent yet.  Nothing is locked; the loads are relaxed, so the loads of    *)
(* one flush may be performed in any order.                                *)
(***************************************************************************)
EXTENDS Integers, FiniteSets, Functions

CONSTANTS
  Threads,    \* the threads that count and flush
  Stripes,    \* the STRIPES stripes
  StripeOf,   \* the stripe each thread was dealt by stripe_index
  Batch,      \* METRICS_BATCH_SIZE
  MaxEvents   \* bound: events ever counted

StripeAssumption ==
  /\ IsFiniteSet(Threads) /\ IsFiniteSet(Stripes) /\ "flushed" \notin Stripes
  /\ StripeOf \in [Threads -> Stripes]
  /\ Batch \in Nat \ {0} /\ MaxEvents \in Nat

VARIABLES
  counts,   \* per stripe
  flushed,  \* cumulative count claimed for the sink
  sent,     \* what inc_counter has handed the sink
  \* per thread: where it is in flush, what it has still to load, the sum of
  \* the stripes loaded, the value of flushed it knows
  pc, unread, now, prev,
  goal      \* history: the exact total when the thread's flush began

vars == <<counts, flushed, sent, pc, unread, now, prev, goal>>

Total == FoldFunction(+, 0, counts)

Init ==
  /\ counts = [s \in Stripes |-> 0]
  /\ flushed = 0
  /\ sent = 0
  /\ pc = [t \in Threads |-> "idle"]
  /\ unread = [t \in Threads |-> {}]
  /\ now = [t \in Threads |-> 0]
  /\ prev = [t \in Threads |-> 0]
  /\ goal = [t \in Threads |-> 0]

------------------------------------------------------------------------------

\* A thread that returns forgets what it loaded.
Return(t) ==
  /\ pc' = [pc EXCEPT ![t] = "idle"]
  /\ now' = [now EXCEPT ![t] = 0]
  /\ prev' = [prev EXCEPT ![t] = 0]
  /\ goal' = [goal EXCEPT ![t] = 0]

\* flush: total() loads every stripe, then flushed is loaded.
BeginFlush(t) ==
  /\ pc' = [pc EXCEPT ![t] = "load"]
  /\ unread' = [unread EXCEPT ![t] = Stripes \cup {"flushed"}]
  /\ goal' = [goal EXCEPT ![t] = Total']
  /\ UNCHANGED <<flushed, sent, now, prev>>

\* record: count, and flush when the stripe reaches a multiple of the batch.
Record(t) ==
  LET next == counts[StripeOf[t]] + 1 IN
  /\ pc[t] = "idle"
  /\ Total < MaxEvents
  /\ counts' = [counts EXCEPT ![StripeOf[t]] = next]
  /\ IF next % Batch = 0
     THEN BeginFlush(t)
     ELSE UNCHANGED <<flushed, sent, pc, unread, now, prev, goal>>

FlushMetrics(t) ==
  /\ pc[t] = "idle"
  /\ UNCHANGED counts
  /\ BeginFlush(t)

LoadStripe(t, s) ==
  /\ pc[t] = "load" /\ s \in unread[t]
  /\ now' = [now EXCEPT ![t] = @ + counts[s]]
  /\ unread' = [unread EXCEPT ![t] = @ \ {s}]
  /\ UNCHANGED <<counts, flushed, sent, pc, prev, goal>>

LoadFlushed(t) ==
  /\ pc[t] = "load" /\ "flushed" \in unread[t]
  /\ prev' = [prev EXCEPT ![t] = flushed]
  /\ unread' = [unread EXCEPT ![t] = @ \ {"flushed"}]
  /\ UNCHANGED <<counts, flushed, sent, pc, now, goal>>

\* Mutant: the range is claimed by a plain store.
ClaimByStore(t) ==
  /\ pc[t] = "load" /\ unread[t] = {}
  /\ now[t] > prev[t]
  /\ flushed' = now[t]
  /\ pc' = [pc EXCEPT ![t] = "send"]
  /\ UNCHANGED <<counts, sent, unread, now, prev, goal>>

\* The compare-exchange claims the range from prev to now.
Claim(t) ==
  /\ pc[t] = "load" /\ unread[t] = {}
  /\ now[t] > prev[t]
  /\ flushed = prev[t]
  /\ flushed' = now[t]
  /\ pc' = [pc EXCEPT ![t] = "send"]
  /\ UNCHANGED <<counts, sent, unread, now, prev, goal>>

\* Mutant: a flush that loses the race leaves the rest to its peer.
ClaimGivesUp(t) ==
  /\ pc[t] = "load" /\ unread[t] = {}
  /\ now[t] > prev[t]
  /\ Return(t)
  /\ UNCHANGED <<counts, flushed, sent, unread>>

\* It fails when a peer moved flushed, or spuriously.
ClaimFails(t) ==
  /\ pc[t] = "load" /\ unread[t] = {}
  /\ now[t] > prev[t]
  /\ prev' = [prev EXCEPT ![t] = flushed]
  /\ UNCHANGED <<counts, flushed, sent, pc, unread, now, goal>>

\* A sum not above what was claimed already sends nothing.
NothingToSend(t) ==
  /\ pc[t] = "load" /\ unread[t] = {}
  /\ now[t] <= prev[t]
  /\ Return(t)
  /\ UNCHANGED <<counts, flushed, sent, unread>>

\* inc_counter(metric, now - prev).
Send(t) ==
  /\ pc[t] = "send"
  /\ sent' = sent + (now[t] - prev[t])
  /\ Return(t)
  /\ UNCHANGED <<counts, flushed, unread>>

Flush(t) ==
  \/ \E s \in Stripes : LoadStripe(t, s)
  \/ LoadFlushed(t)
  \/ Claim(t)
  \/ ClaimFails(t)
  \/ NothingToSend(t)
  \/ Send(t)

Next == \E t \in Threads : Record(t) \/ FlushMetrics(t) \/ Flush(t)

Spec == Init /\ [][Next]_vars

\* Threads are scheduled, and a weak compare-exchange that could succeed does
\* not fail spuriously for ever.
Fairness == \A t \in Threads : WF_vars(Flush(t)) /\ SF_vars(Claim(t))

FairSpec == Spec /\ Fairness

------------------------------------------------------------------------------

InFlight == FoldFunction(+, 0,
              [t \in Threads |-> IF pc[t] = "send" THEN now[t] - prev[t] ELSE 0])

AtRest == \A t \in Threads : pc[t] = "idle"

Residue == FoldFunction(+, 0, [s \in Stripes |-> counts[s] % Batch])

TypeOK ==
  /\ counts \in [Stripes -> 0..MaxEvents]
  /\ flushed \in 0..MaxEvents
  /\ sent \in 0..MaxEvents
  /\ pc \in [Threads -> {"idle", "load", "send"}]
  /\ unread \in [Threads -> SUBSET (Stripes \cup {"flushed"})]
  /\ now \in [Threads -> 0..MaxEvents]
  /\ prev \in [Threads -> 0..MaxEvents]
  /\ goal \in [Threads -> 0..MaxEvents]

\* No event is sent twice and none is sent before it was counted, although the
\* stripes are summed without a snapshot: what the sink has and what flushes
\* have claimed but not yet handed over add up to the claimed total, which
\* never passes the exact one.
EachEventSentOnce ==
  /\ sent + InFlight = flushed
  /\ flushed <= Total

\* When a flush returns, everything counted before it began has been claimed,
\* by itself or by a peer that beat it: flush_metrics before an export cannot
\* return and leave such events to a batch that may never fill.
FlushCoversItsStart ==
  [][\A t \in Threads : pc[t] # "idle" /\ pc'[t] = "idle" => flushed' >= goal[t]]_vars

\* Between calls the sink lags by the stripes' partial batches and no more,
\* even when the flushes of full batches raced.
LagIsPartialBatches == AtRest => Total - sent <= Residue

\* Every flush returns, whatever its peers count meanwhile.
FlushReturns == \A t \in Threads : pc[t] # "idle" ~> pc[t] = "idle"

------------------------------------------------------------------------------

\* What a flush has still to load, were it to load it now.
Unloaded(t) ==
  FoldFunction(+, 0, [s \in Stripes |-> IF s \in unread[t] THEN counts[s] ELSE 0])

\* What a flush knows at each point: it has or will have loaded at least what
\* was counted before it began and at most what is counted now.
FlushInv(t) ==
  /\ pc[t] = "idle" => now[t] = 0 /\ prev[t] = 0
  /\ pc[t] # "load" => unread[t] = {}
  /\ pc[t] = "load" =>
       goal[t] <= now[t] + Unloaded(t) /\ now[t] + Unloaded(t) <= Total /\ prev[t] <= flushed
  /\ pc[t] = "send" => goal[t] <= now[t] /\ prev[t] < now[t] /\ now[t] <= flushed

\* The full batches are claimed, or a flush is under way that will see to it.
BatchInv ==
  \/ Total - Residue <= flushed
  \/ \E t \in Threads : pc[t] # "idle" /\ Total - Residue <= goal[t]

StripeInv ==
  /\ TypeOK /\ Total <= MaxEvents
  /\ EachEventSentOnce /\ BatchInv
  /\ \A t \in Threads : FlushInv(t)
==============================================================================
