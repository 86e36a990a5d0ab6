------------------------------- MODULE HotPath -------------------------------
(***************************************************************************)
(* The hotpath's classifier/updater split: classifier threads sample their *)
(* packets by stride (UpdateSampler), offer the kept ones to a bounded     *)
(* channel without blocking (UpdateProducer), and one updater thread       *)
(* drains it (UpdateConsumer).  The channel itself is std's sync_channel.  *)
(* A packet is represented by its number, in the order the sampler's       *)
(* counter saw it.                                                         *)
(***************************************************************************)
EXTENDS Integers, Sequences, FiniteSets

CONSTANTS
  Producers,   \* classifier threads, each with a clone of the producer
  Capacity,    \* of the channel
  KeepEveryN,  \* keep_every_n of the sampler
  MaxPackets   \* bound: packets ever seen

HotPathAssumption ==
  /\ IsFiniteSet(Producers)
  /\ Capacity \in Nat \ {0} /\ KeepEveryN \in Nat \ {0} /\ MaxPackets \in Nat

VARIABLES
  counter,             \* UpdateSampler.counter
  accepted, rejected,  \* UpdateSampler.counts
  queue,               \* the channel: packets in flight
  enqueued, dropped,   \* the producer clones' shared counts
  senders,             \* producers not dropped yet
  receiver,            \* whether the consumer is alive
  \* per producer: where it is, the packet it holds
  pc, packet,
  updater,             \* where the updater thread is
  delivered            \* history: points handed to the updater's sink

vars == <<counter, accepted, rejected, queue, enqueued, dropped, senders, receiver,
          pc, packet, updater, delivered>>

samplerVars == <<counter, accepted, rejected>>
updaterVars == <<updater, delivered, receiver>>

NoPacket == -1

Init ==
  /\ counter = 0 /\ accepted = 0 /\ rejected = 0
  /\ queue = <<>> /\ enqueued = 0 /\ dropped = 0
  /\ senders = Producers /\ receiver = TRUE
  /\ pc = [p \in Producers |-> "idle"]
  /\ packet = [p \in Producers |-> NoPacket]
  /\ updater = "idle"
  /\ delivered = <<>>

------------------------------------------------------------------------------
(* A classifier thread.                                                     *)

\* accept_stride takes the next number; KeepEveryN = 1 keeps every packet.
Sample(p) ==
  /\ pc[p] = "idle" /\ p \in senders
  /\ counter < MaxPackets
  /\ counter' = counter + 1
  /\ packet' = [packet EXCEPT ![p] = counter]
  /\ pc' = [pc EXCEPT ![p] = "sampled"]
  /\ UNCHANGED <<accepted, rejected, queue, enqueued, dropped, senders,
                 updaterVars>>

\* Mutant: the stride is tested on the counter as it is by now.
KeepRereads(p) ==
  /\ pc[p] = "sampled" /\ (counter - 1) % KeepEveryN = 0
  /\ accepted' = accepted + 1
  /\ pc' = [pc EXCEPT ![p] = "offer"]
  /\ UNCHANGED <<counter, rejected, queue, enqueued, dropped, senders, packet,
                 updaterVars>>

Keep(p) ==
  /\ pc[p] = "sampled" /\ packet[p] % KeepEveryN = 0
  /\ accepted' = accepted + 1
  /\ pc' = [pc EXCEPT ![p] = "offer"]
  /\ UNCHANGED <<counter, rejected, queue, enqueued, dropped, senders, packet,
                 updaterVars>>

Skip(p) ==
  /\ pc[p] = "sampled" /\ packet[p] % KeepEveryN # 0
  /\ rejected' = rejected + 1
  /\ pc' = [pc EXCEPT ![p] = "idle"]
  /\ packet' = [packet EXCEPT ![p] = NoPacket]
  /\ UNCHANGED <<counter, accepted, queue, enqueued, dropped, senders,
                 updaterVars>>

\* try_send succeeds when the consumer lives and there is room.
TrySend(p) ==
  /\ pc[p] = "offer"
  /\ IF receiver /\ Len(queue) < Capacity
     THEN /\ queue' = Append(queue, packet[p])
          /\ pc' = [pc EXCEPT ![p] = "count_enqueued"]
     ELSE /\ pc' = [pc EXCEPT ![p] = "count_dropped"]
          /\ UNCHANGED queue
  /\ UNCHANGED <<samplerVars, enqueued, dropped, senders, packet, updaterVars>>

\* The result is counted after the fact.
CountOffer(p) ==
  /\ pc[p] \in {"count_enqueued", "count_dropped"}
  /\ IF pc[p] = "count_enqueued"
     THEN enqueued' = enqueued + 1 /\ UNCHANGED dropped
     ELSE dropped' = dropped + 1 /\ UNCHANGED enqueued
  /\ pc' = [pc EXCEPT ![p] = "idle"]
  /\ packet' = [packet EXCEPT ![p] = NoPacket]
  /\ UNCHANGED <<samplerVars, queue, senders, updaterVars>>

DropProducer(p) ==
  /\ pc[p] = "idle" /\ p \in senders
  /\ senders' = senders \ {p}
  /\ UNCHANGED <<samplerVars, queue, enqueued, dropped, pc, packet, updaterVars>>

------------------------------------------------------------------------------
(* The updater thread.                                                      *)

\* try_drain: pop until the queue is empty.
BeginDrain ==
  /\ updater = "idle" /\ receiver
  /\ updater' = "drain"
  /\ UNCHANGED <<samplerVars, queue, enqueued, dropped, senders, receiver, pc, packet,
                 delivered>>

\* Mutant: taking one point discards those behind it.
TakeClears(from, to) ==
  /\ updater = from /\ queue # <<>>
  /\ queue' = <<>>
  /\ delivered' = Append(delivered, Head(queue))
  /\ updater' = to
  /\ UNCHANGED <<samplerVars, enqueued, dropped, senders, receiver, pc, packet>>

Take(from, to) ==
  /\ updater = from /\ queue # <<>>
  /\ queue' = Tail(queue)
  /\ delivered' = Append(delivered, Head(queue))
  /\ updater' = to
  /\ UNCHANGED <<samplerVars, enqueued, dropped, senders, receiver, pc, packet>>

TryRecv == Take("drain", "sink")

\* The sink stores the point in the forest, or fails and the drain goes on.
Ingest ==
  /\ updater = "sink"
  /\ updater' = "drain"
  /\ UNCHANGED <<samplerVars, queue, enqueued, dropped, senders, receiver, pc, packet,
                 delivered>>

EndDrain ==
  /\ updater = "drain" /\ queue = <<>>
  /\ updater' = "idle"
  /\ UNCHANGED <<samplerVars, queue, enqueued, dropped, senders, receiver, pc, packet,
                 delivered>>

\* recv blocks for a point; it returns None when every producer is gone.
BeginRecv ==
  /\ updater = "idle" /\ receiver
  /\ updater' = "recv"
  /\ UNCHANGED <<samplerVars, queue, enqueued, dropped, senders, receiver, pc, packet,
                 delivered>>

RecvPoint == Take("recv", "idle")

RecvNone ==
  /\ updater = "recv" /\ queue = <<>> /\ senders = {}
  /\ updater' = "shutdown"
  /\ UNCHANGED <<samplerVars, queue, enqueued, dropped, senders, receiver, pc, packet,
                 delivered>>

\* The updater thread ends early: its consumer is dropped with what it holds.
DropConsumer ==
  /\ updater = "idle" /\ receiver
  /\ receiver' = FALSE
  /\ queue' = <<>>
  /\ UNCHANGED <<samplerVars, enqueued, dropped, senders, pc, packet, updater,
                 delivered>>

Classifier(p) == Keep(p) \/ Skip(p) \/ TrySend(p) \/ CountOffer(p)

Updater ==
  \/ TryRecv
  \/ Ingest
  \/ EndDrain
  \/ RecvPoint
  \/ RecvNone

Next ==
  \/ \E p \in Producers : Sample(p) \/ Classifier(p) \/ DropProducer(p)
  \/ BeginDrain
  \/ BeginRecv
  \/ Updater
  \/ DropConsumer

Spec == Init /\ [][Next]_vars

------------------------------------------------------------------------------

TypeOK ==
  /\ counter \in 0..MaxPackets
  /\ {accepted, rejected, enqueued, dropped} \subseteq 0..MaxPackets
  /\ queue \in Seq(0..MaxPackets-1) /\ Len(queue) <= Capacity
  /\ delivered \in Seq(0..MaxPackets-1)
  /\ senders \subseteq Producers /\ receiver \in BOOLEAN
  /\ pc \in [Producers -> {"idle", "sampled", "offer", "count_enqueued", "count_dropped"}]
  /\ packet \in [Producers -> (0..MaxPackets-1) \cup {NoPacket}]
  /\ updater \in {"idle", "drain", "sink", "recv", "shutdown"}

Quiet == \A p \in Producers : pc[p] = "idle"

\* Between calls the lifetime totals are exact: the sampler kept one packet in
\* KeepEveryN, rounded up, whichever threads drew the numbers, and each packet
\* it kept was counted once by the producers, as enqueued or as dropped.
TotalsAreExact ==
  Quiet =>
    /\ accepted = (counter + KeepEveryN - 1) \div KeepEveryN
    /\ accepted + rejected = counter
    /\ enqueued + dropped = accepted

\* While the consumer lives, every point a producer was told is enqueued is in
\* the channel or was handed to the sink, once.
EnqueuedIsDelivered ==
  receiver =>
    /\ Len(delivered) + Len(queue) =
         enqueued + Cardinality({p \in Producers : pc[p] = "count_enqueued"})
    /\ \A i, j \in 1..Len(delivered \o queue) :
         (delivered \o queue)[i] = (delivered \o queue)[j] => i = j

\* recv answers None only after the last enqueued point was handed over: a clean
\* shutdown loses nothing.
ShutdownIsClean ==
  updater = "shutdown" => Quiet /\ queue = <<>> /\ Len(delivered) = enqueued

------------------------------------------------------------------------------
(* The inductive invariant behind the counts and the delivery.              *)

\* Producers between sampling and testing the stride, between acceptance and
\* counting the offer, and before counting one the channel has taken.
Drawing  == {p \in Producers : pc[p] = "sampled"}
Offering == {p \in Producers : pc[p] \in {"offer", "count_enqueued", "count_dropped"}}
Counting == {p \in Producers : pc[p] = "count_enqueued"}

\* Producers that drew a packet the stride will keep.
WillKeep == {p \in Drawing : packet[p] % KeepEveryN = 0}

\* Each number drawn is accepted, rejected or in a producer's hands, and each
\* packet accepted is counted as an offer or about to be.
CountInv ==
  /\ counter = accepted + rejected + Cardinality(Drawing)
  /\ (counter + KeepEveryN - 1) \div KeepEveryN = accepted + Cardinality(WillKeep)
  /\ accepted = enqueued + dropped + Cardinality(Offering)

\* Producers with a packet the channel has not taken hold different ones.
Holding == {p \in Producers : pc[p] \in {"sampled", "offer"}}

PacketInv ==
  /\ \A p \in Producers : pc[p] # "idle" =>
       p \in senders /\ packet[p] \in Nat /\ packet[p] < counter
  /\ \A p, q \in Holding : packet[p] = packet[q] => p = q

\* What the channel has taken, delivered or not, is no packet still held, is
\* each there once, and is counted by its producer or about to be.
Sent == delivered \o queue

SentInv ==
  /\ \A i \in 1..Len(Sent) : Sent[i] < counter /\ \A p \in Holding : Sent[i] # packet[p]
  /\ \A i, j \in 1..Len(Sent) : Sent[i] = Sent[j] => i = j
  /\ Len(Sent) = enqueued + Cardinality(Counting)

UpdaterInv ==
  /\ updater # "idle" => receiver
  /\ updater = "shutdown" => senders = {} /\ queue = <<>>

ChannelInv ==
  TypeOK /\ CountInv /\ PacketInv /\ (receiver => SentInv) /\ UpdaterInv
==============================================================================
