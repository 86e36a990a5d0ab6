---------------------------- MODULE AlertClusters ----------------------------
(***************************************************************************)
(* AlertClusterer: alerts whose attributions point the same way are folded *)
(* into one cluster, within a window of the timestamps the callers supply  *)
(* (which need not be in order) and under a cap on live clusters.          *)
(***************************************************************************)
EXTENDS Integers, Sequences, FiniteSets, SequencesExt

CONSTANTS
  Alerts,      \* alerts that may come: records of attribution, score, tenant
  Similarity,  \* cosine of two attributions, in steps; 0 with a zero vector
  Threshold,   \* similarity_threshold, in the same steps
  Window, Forever,  \* window_ms and its u64::MAX
  Times,
  MaxTenants,  \* MAX_TENANTS_PER_CLUSTER
  MaxCap,      \* bound on the caps with_max_clusters is given
  MaxAlerts    \* bound on alerts observed

VARIABLES
  clusters,
  max_clusters,
  opened, pruned,  \* ALERT_CLUSTERS_NEW_TOTAL, ALERT_CLUSTERS_PRUNED_TOTAL
  seen,            \* history: the alerts observed, with their timestamps
  cleared,         \* history: clusters dropped by clear
  decision         \* history: alert and index of the last call, if an observe

vars == <<clusters, max_clusters, opened, pruned, seen, cleared, decision>>

ClustersAssumption ==
  /\ \A a, b \in Alerts :
       /\ Similarity[<<a.attribution, b.attribution>>] \in Int
       /\ Similarity[<<a.attribution, b.attribution>>] = Similarity[<<b.attribution, a.attribution>>]
  /\ \A a \in Alerts : a.score \in Int
  /\ Threshold \in Int /\ Window \in Nat \cup {Forever} /\ Times \subseteq Nat
  /\ MaxTenants \in Nat \ {0} /\ MaxCap \in Nat \ {0} /\ MaxAlerts \in Nat

Init ==
  /\ clusters = <<>> /\ max_clusters = MaxCap
  /\ opened = 0 /\ pruned = 0 /\ cleared = 0
  /\ seen = <<>> /\ decision = <<>>

------------------------------------------------------------------------------

\* prune_stale_internal; subtraction saturates at zero.
Fresh(now) ==
  LET kept[k \in 0..Len(clusters)] ==
        IF k = 0 THEN <<>>
        ELSE IF clusters[k].last_seen_ms >= now - Window
             THEN Append(kept[k - 1], clusters[k]) ELSE kept[k - 1]
  IN  IF Window = Forever THEN clusters ELSE kept[Len(clusters)]

\* Mutant: evicts the cluster that was opened first.
LongestOpen(cs) == CHOOSE i \in DOMAIN cs :
  \A j \in DOMAIN cs : cs[i].first_seen_ms <= cs[j].first_seen_ms

\* min_by_key returns the first minimum.
Oldest(cs) == CHOOSE i \in DOMAIN cs : \A j \in DOMAIN cs :
  \/ cs[i].last_seen_ms < cs[j].last_seen_ms
  \/ cs[i].last_seen_ms = cs[j].last_seen_ms /\ i <= j

\* evict_oldest_cluster: swap_remove puts the last cluster in its place.
EvictOldest(cs) == Front([cs EXCEPT ![Oldest(cs)] = Last(cs)])

\* The loop that evicts until no more than room are left.
EvictTo(cs, room) ==
  LET left[k \in 0..Len(cs)] == IF k = 0 THEN cs ELSE EvictOldest(left[k - 1])
  IN  IF Len(cs) <= room THEN cs ELSE left[Len(cs) - room]

Likeness(c, a) == Similarity[<<seen[c.representative].attribution, a.attribution>>]

\* Mutant: the threshold itself does not join.
NearStrictly(cs, a) == {i \in DOMAIN cs : Likeness(cs[i], a) > Threshold}

Near(cs, a) == {i \in DOMAIN cs : Likeness(cs[i], a) >= Threshold}

\* The most similar cluster, the last one among equals.
Best(cs, a) == CHOOSE i \in Near(cs, a) : \A j \in Near(cs, a) :
  \/ Likeness(cs[j], a) < Likeness(cs[i], a)
  \/ Likeness(cs[j], a) = Likeness(cs[i], a) /\ j <= i

WithTenant(ts, k) ==
  IF Contains(ts, k) THEN ts
  ELSE (IF Len(ts) >= MaxTenants THEN Tail(ts) ELSE ts) \o <<k>>

\* Mutant: the timestamp of the last alert, late or not.
FoldedAsLast(c, n, a) ==
  [representative |-> c.representative, count |-> c.count + 1,
   max_score |-> Max({c.max_score, a.score}),
   first_seen_ms |-> Min({c.first_seen_ms, a.timestamp_ms}),
   last_seen_ms |-> a.timestamp_ms,
   tenants |-> WithTenant(c.tenants, a.tenant), members |-> c.members \cup {n}]

Folded(c, n, a) ==
  [representative |-> c.representative, count |-> c.count + 1,
   max_score |-> Max({c.max_score, a.score}),
   first_seen_ms |-> Min({c.first_seen_ms, a.timestamp_ms}),
   last_seen_ms |-> Max({c.last_seen_ms, a.timestamp_ms}),
   tenants |-> WithTenant(c.tenants, a.tenant), members |-> c.members \cup {n}]

Fold1(n, a) ==
  [representative |-> n, count |-> 1, max_score |-> a.score,
   first_seen_ms |-> a.timestamp_ms, last_seen_ms |-> a.timestamp_ms,
   tenants |-> <<a.tenant>>, members |-> {n}]

\* observe: prune, then join the best cluster or evict and open one.
Join(n, a, live) ==
  /\ Near(live, a) # {}
  /\ clusters' = [live EXCEPT ![Best(live, a)] = Folded(@, n, a)]
  /\ decision' = <<n, Best(live, a)>>
  /\ pruned' = pruned + Len(clusters) - Len(live)
  /\ UNCHANGED opened

Open(n, a, live) ==
  LET room == EvictTo(live, max_clusters - 1) IN
  /\ Near(live, a) = {}
  /\ clusters' = Append(room, Fold1(n, a))
  /\ decision' = <<n, Len(clusters')>>
  /\ pruned' = pruned + Len(clusters) - Len(room)
  /\ opened' = opened + 1

AlertAt(kind, now) ==
  [timestamp_ms |-> now, attribution |-> kind.attribution,
   score |-> kind.score, tenant |-> kind.tenant]

Observe ==
  /\ Len(seen) < MaxAlerts
  /\ \E kind \in Alerts, now \in Times :
       LET a == AlertAt(kind, now)
           n == Len(seen) + 1
       IN  /\ seen' = Append(seen, a)
           /\ Join(n, a, Fresh(now)) \/ Open(n, a, Fresh(now))
  /\ UNCHANGED <<max_clusters, cleared>>

PruneStale ==
  /\ \E now \in Times : clusters' = Fresh(now)
  /\ pruned' = pruned + Len(clusters) - Len(clusters')
  /\ decision' = <<>>
  /\ UNCHANGED <<max_clusters, opened, seen, cleared>>

\* with_max_clusters trims at once.
SetMaxClusters ==
  /\ max_clusters' \in 1..MaxCap
  /\ clusters' = EvictTo(clusters, max_clusters')
  /\ pruned' = pruned + Len(clusters) - Len(clusters')
  /\ decision' = <<>>
  /\ UNCHANGED <<opened, seen, cleared>>

Clear ==
  /\ clusters' = <<>> /\ cleared' = cleared + Len(clusters)
  /\ decision' = <<>>
  /\ UNCHANGED <<max_clusters, opened, pruned, seen>>

Next == Observe \/ PruneStale \/ SetMaxClusters \/ Clear

Spec == Init /\ [][Next]_vars

------------------------------------------------------------------------------
(* Properties.                                                              *)

Stamps(c) == {seen[n].timestamp_ms : n \in c.members}

Summary(c) ==
  /\ c.count = Cardinality(c.members) /\ c.representative = Min(c.members)
  /\ c.first_seen_ms = Min(Stamps(c)) /\ c.last_seen_ms = Max(Stamps(c))
  /\ c.max_score = Max({seen[n].score : n \in c.members})
  /\ ToSet(c.tenants) \subseteq {seen[n].tenant : n \in c.members}
  /\ IsInjective(c.tenants) /\ Len(c.tenants) <= MaxTenants

Disjoint ==
  \A i, j \in DOMAIN clusters :
    i # j => clusters[i].members \cap clusters[j].members = {}

\* A live cluster is the summary of the alerts folded into it, whatever order
\* they came in; no alert is in two, none exceeds the cap, every cluster ever
\* opened is live, pruned or cleared, and the index of a decision names the
\* cluster that holds the alert, evictions in the same call included.
ClustersSummariseAlerts ==
  /\ Len(clusters) <= max_clusters
  /\ opened = Len(clusters) + pruned + cleared
  /\ \A i \in DOMAIN clusters : Summary(clusters[i])
  /\ Disjoint
  /\ decision # <<>> => decision[1] \in clusters[decision[2]].members

\* The alert resembles its cluster, and came within the window of an earlier one.
Belongs(n, c) ==
  /\ Likeness(c, seen[n]) >= Threshold
  /\ Window # Forever => \E m \in c.members :
       m < n /\ seen[m].timestamp_ms >= seen[n].timestamp_ms - Window

\* Two live clusters are never near enough to be one, every alert is near the
\* representative of its cluster, and none joined across a gap longer than the
\* window: what came after the gap is a cluster of its own.
ClustersKeepApart ==
  \A i \in DOMAIN clusters :
    /\ \A j \in DOMAIN clusters \ {i} :
         Likeness(clusters[i], seen[clusters[j].representative]) < Threshold
    /\ \A n \in clusters[i].members \ {clusters[i].representative} :
         Belongs(n, clusters[i])

\* Pruned by window, evicted by the cap or both, a cluster goes only when
\* every cluster that stays was last seen no earlier.
RemovalsAreOldest ==
  [][LET Stays(c) == \E d \in ToSet(clusters') : d.representative = c.representative
     IN  \A c, d \in ToSet(clusters) :
           ~Stays(c) /\ Stays(d) => c.last_seen_ms <= d.last_seen_ms]_vars
------------------------------------------------------------------------------
(* What makes it so: the inductive invariant.                               *)

Observed == {AlertAt(kind, now) : kind \in Alerts, now \in Times}

Clusters ==
  [representative : Nat, count : Nat, max_score : Int,
   first_seen_ms : Nat, last_seen_ms : Nat,
   tenants : Seq({a.tenant : a \in Alerts}), members : (SUBSET DOMAIN seen) \ {{}}]

TypeOK ==
  /\ seen \in Seq(Observed) /\ clusters \in Seq(Clusters)
  /\ max_clusters \in 1..MaxCap
  /\ opened \in Nat /\ pruned \in Nat /\ cleared \in Nat
  /\ decision \in {<<>>} \cup ((DOMAIN seen) \X (DOMAIN clusters))

ClustersInv == TypeOK /\ ClustersSummariseAlerts /\ ClustersKeepApart
=============================================================================
