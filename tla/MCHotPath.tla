----------------------------- MODULE MCHotPath ------------------------------
(* The three concurrent parts of the hotpath, which share no state: the      *)
(* prefix rate cap, a striped counter, and the sampler with its channel.  A  *)
(* behaviour is one of them.                                                 *)
EXTENDS PrefixRateCap, TLC

VARIABLES part,
  counts, flushed, sent, stripe_pc, unread, sum, prev, goal,
  counter, accepted, rejected, queue, enqueued, dropped, senders, receiver,
  producer_pc, packet, updater, delivered

CONSTANTS
  Stripes, StripeOf, Batch, MaxEvents,          \* of the striped counter
  Producers, Capacity, KeepEveryN, MaxPackets   \* of the sampler and its channel

Stripe == INSTANCE StripedPair WITH pc <- stripe_pc, now <- sum
Channel == INSTANCE HotPath WITH pc <- producer_pc

ASSUME HotPathParameters == Stripe!StripeAssumption /\ Channel!HotPathAssumption

stripeVars == <<counts, flushed, sent, stripe_pc, unread, sum, prev, goal>>
channelVars == <<counter, accepted, rejected, queue, enqueued, dropped, senders,
                 receiver, producer_pc, packet, updater, delivered>>

AllInit ==
  /\ part \in {"cap", "stripe", "channel"}
  /\ Init /\ Stripe!Init /\ Channel!Init

CapStep == part = "cap" /\ Next /\ UNCHANGED <<part, stripeVars, channelVars>>
StripeStep == part = "stripe" /\ Stripe!Next /\ UNCHANGED <<part, vars, channelVars>>
ChannelStep == part = "channel" /\ Channel!Next /\ UNCHANGED <<part, vars, stripeVars>>

AllNext == CapStep \/ StripeStep \/ ChannelStep

AllSpec ==
  /\ AllInit /\ [][AllNext]_<<part, vars, stripeVars, channelVars>>
  /\ Fairness /\ Stripe!Fairness

\* The sink is sent each event once, none before it happened, and lags by the
\* partial batches only.
EachEventSentOnce ==
  Stripe!TypeOK /\ Stripe!EachEventSentOnce /\ Stripe!LagIsPartialBatches

\* A flush covers what was counted before it began.
FlushCoversItsStart == Stripe!FlushCoversItsStart

\* Every call returns: check_and_record and flush.
EveryCallReturns == CallsReturn /\ Stripe!FlushReturns

\* Sampler and producer counts are exact between calls.
TotalsAreExact == Channel!TypeOK /\ Channel!TotalsAreExact

\* A point said to be enqueued reaches the sink while the consumer lives, and
\* a clean shutdown loses none.
EnqueuedIsDelivered == Channel!EnqueuedIsDelivered /\ Channel!ShutdownIsClean

\* For TLC: each thread has a stripe of its own.
OwnStripe == CHOOSE f \in [Threads -> Stripes] : \A t, u \in Threads : f[t] = f[u] => t = u
==============================================================================
