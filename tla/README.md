# Verification of anomstream

TLA+ modules, TLC configurations and TLAPS proofs for anomstream, a streaming
anomaly detector: a random cut forest with its storage, the layers around it,
and the lock-free front end that feeds it.  Every definition is translated from
the Rust source; `PROJECT.json` names the lines behind each.

## 1. The system

Four crates: `core` (detectors and streaming primitives), `hotpath` (what runs
on packet-classifier threads), `triage` (what happens to alerts) and `meta`
(re-exports).  Parts, with the state they keep, their operations, and what makes
them hard.

| Part | State | Operations | What is hard | What makes it correct |
|---|---|---|---|---|
| Point store (`forest/point_store.rs`) | slots of points, atomic reference counts, free list | add, incr_ref, decr_ref, set_free, drop_unreferenced | counts shared by parallel workers; slots reused at once | no double free, no under-decrement, every empty slot on the free list once |
| Forest (`forest/random_cut_forest.rs`) | store, (tree, sampler, rng) per tree, timestamps by slot, updates_seen | update(_indexed)(_at), delete, delete_before, delete_by_value, score_codisp(_many), set_point_timestamp; read-only scores | fan-out over rayon workers; calls made of several insertions and deletions | trees, samplers, counts and stamps agree between calls; nothing leaks; a retraction retracts |
| Reservoir sampler (`sampler/reservoir.rs`) | heap of weighted indices, entries_seen | accept, remove, reset | warm-up gate, eviction | at most capacity members, each the tree's |
| Random cut tree (`tree/*`, `domain/cut.rs`, `domain/bounding_box.rs`) | arena of nodes, root, leaf index, cached boxes and masses | add, delete, codisp and score walks | splices and promotions, duplicates, rounding of cuts, the `packed-cut` build | one binary tree, masses count points, boxes tight, every point found by routing it |
| Thresholded detector (`thresholded/*`) | forest, EMA and t-digest of scores | process(_indexed)(_at), score_only, reset_stats, retractions | score before insert, readiness gate, partial failure | a verdict depends only on what came before the point |
| Tenant pool (`pool/tenant_pool.rs`) | detectors by tenant, access tick and instant, lifetime counters | process, get, insert, remove, evict_lru, evict_idle, … | eviction order, factory failures | bounded, evicts the least recently used, counters exact |
| Shadow recovery (`drift_aware.rs`) | primary, shadow, ages | update, on_drift, abort_shadow | swap, anti-flap guard, shadow failure | never without a primary; swaps only a warm shadow |
| Shingling (`shingled.rs`, `dynamic_forest.rs`) | ring of scalars, forest | update_scalar, score, reset_ring | ring position | a shingle is the last D scalars |
| Sketches (`space_saving`, `count_min_sketch`, `bloom`, `hyperloglog`, `tdigest`, `histogram`) | fixed-size summaries | observe, query, merge, reset | behaviour at capacity, saturation | stated error bounds |
| Change detectors (`adwin`, `meta_drift`, `feature_drift`, `per_feature_*`, `univariate_spot`, `online_stats`, `normalize`) | running statistics | observe, query, reset | warm-up, reset | numeric |
| Persistence (`persistence.rs`, `TryFrom` of the forest) | — | encode, decode, validate | inconsistent images | what was saved loads |
| Hot path (`hotpath/src/lib.rs`) | striped counters, sampler counter, bounded channel, rate-cap window and buckets | record, flush, accept_stride/hash, try_enqueue, try_drain, recv, check_and_record | no locks at all; stale clocks; shutdown | totals exact, nothing sent twice, cap per window |
| Triage (`alert_cluster`, `lsh_cluster`, `feedback`, `audit`, `audit_chain`, `calibrator`, `sage`) | clusters, labels, chained records | observe, prune, label, append, verify | eviction at limits, indices that shift | bounded, attributable, tamper-evident |

How they interact.  Classifier threads call the hot path: the sampler picks
packets, the rate cap drops floods, `UpdateProducer` puts points on a bounded
channel.  One updater thread drains it and calls a detector: a forest, a
thresholded forest, or a pool of them.  Everything from the detector inwards is
`&mut self` and therefore sequential, with one exception: inside one insertion
or deletion the forest hands disjoint chunks of its trees to rayon workers,
which share the point store by reference and write its atomic counts.  Between
the layers there are calls and returned indices, no callbacks.  Concurrency is
thus in two places, the fan-out and the hot path, and these are modelled with
one atomic access per step; the rest is hard because of long sequences of calls.

`PROJECT.json` lists under `hazards` where each difficulty bites and which
property would catch it.

## 2. The modules

### RandomCutForest — the storage core

`points`, `refs`, `free`, `capacity` are the `PointStore`; `timestamps` and
`updates_seen` the forest's fields; `sample[t]` and `indexed[t]` the set of
indices tree t's sampler and leaf index hold.  `job`, `slot`, `stage`,
`victim`, `loaded`, `pending_free` are the local state of a fan-out and its
workers; `call` is the API call in progress with its list of remaining slots.

| Code | Actions |
|---|---|
| `insert_point`, `PointStore::add` | `BeginInsert`, then the workers, `FreeEvicted`, `EndInsert` |
| `process_tree_update` | `Reject`, `Admit`, `Replace`, `Link` |
| `decr_ref` | `LoadRef`, `CasRef`, `CasFails` |
| `process_tree_delete` | `Withdraw`, `NotHeld` |
| `delete` and what follows the join | `Delete`, `EndDelete` |
| `delete_before`, `delete_by_value` | `DeleteBefore`/`DeleteByValue` (collect), `DeleteNext`, `Return` |
| `score_codisp`, `score_codisp_many` | `ScoreCodisp`, `InsertProbe`, `WalkProbes`, `DeleteNext`, `Return` |
| `set_point_timestamp` | `SetPointTimestamp` |

A stored point is represented by the number of the observation it came from, so
that reusing a slot is visible; `ValueOf` gives coordinates where they matter.
Choices kept nondeterministic: what a sampler decides within its rules (warm-up
gate, room, the largest weight being any member) and the order of the workers.
One worker per tree allows more interleavings than chunks of trees do.  The
counts are read-modify-write atomics with acquire/release, so one order of all
accesses to one counter is what the hardware gives.  Mapped out: the weights of
the sampler (`ReservoirWeights`), the trees' inside (`RandomCutTree`), errors of
`tree.add` (`ForestFailures`).

### ReservoirEnsemble and ForestRefinement — what the forest promises

An ensemble of sets of observations with no slots, counts or workers: an
observation enters a tree only while it is being inserted, leaves for the
newcomer or when itself retracted, and its timestamp lives as long as some tree
holds it.  `ForestRefinement` maps a slot to the observation in it, the workers
that have passed `"start"` to the trees that have decided, and checks that every
step of the forest is a step or a stutter of the ensemble.  Slot reuse going
wrong in any way shows as one observation turning into another.

### ForestHandles — a caller that keeps indices

Adds to the forest a caller who remembers the index `update_indexed` returned
for each observation and later deletes or stamps by it, as the docs propose.

### RandomCutTree — one tree

`node` is the arena, a record per live leaf (`point`, `parent`, `mass`) or
internal node (`cut`, `box`, `left`, `right`, `parent`, `mass`), `leaf_index`
the reverse index, `adding` the walk of an insertion.  `BeginAdd`, `Descend`,
`Splice`, `Absorb` and `Refuse` are `add` with each draw of a cut a choice among
all the generator can produce; `DropCopy` and `DropLeaf` are
`delete_with_survivors` with the recomputation of every ancestor.  Coordinates
are integers, since the tree only compares them; `CutValues` is what a draw
between two coordinates can be stored as: in the default build any value from
the lower end up to and including the upper one (`lo + r * (hi - lo)` rounds), in
the packed build the nearest values of a coarser grid.  The arena gives its
lowest free index where the code pops a free list; the indices are only names.

`TreeScores` adds the read-only walks and what is made of them.  `CodispUp` and
`CodispDown` are the displacement walk up from a leaf and its stateless twin down
the cuts; `Traversed` is `traverse`; `ProbabilityOfCut` and
`TotalProbabilityOfCut` are the two box computations.  `ScalarScore`,
`Attribution` and `ScoreAndAttribution` are the three visitors over one tree; the
logarithms in their weights stand as integers that grow and fall as they do.  The code
divides in f64; the model keeps what is divided in units of `1 / Unit`, and
`UnitAssumption` says that `Unit` is a multiple of whatever a box and a query make it
be divided by, so that a division is exact where the code's is but for rounding.  Over
finitely many coordinates a common multiple exists.  (`Unit` may also be zero, so that
the assumption asks nothing of the coordinates of the theorems that have no shares in them;
an attribution of all zeros splits a score of zero, and the run sets 144.)
`TreeSnapshot` is `validate_restored` of the tree
with the arena's and the reverse index's checks, over the image of a tree.

### ForestFailures — the forest when a worker errs

`process_tree_update` lets the sampler take the newcomer before `tree.add` may
refuse it, and the error leaves the fan-out by `?`.  `AddLeaf` may refuse; `Err`
marks the fan-out; `ReturnErr` forgets what was to be freed.  A tree's whole turn
is one step here (the atomic accesses are RandomCutForest's) and a sampler is a
bag, since a ghost — an entry its tree does not index — may name a slot that is
handed out again.

### ReservoirWeights, EnsembleScores — sampling and combining

`ReservoirWeights` is the sampler with its heap of weights: `Peek` is the heaviest
entry, `Hold`, `Replace` and `TurnAway` are `accept`, `Decay` ages every weight
with each offer.  `EnsembleScores` follows the ways a forest answers: the fan-out's
sums joined in any order, the early-terminating walk with Welford's recurrence,
the two-pass estimate with its dispersion, and the trimmed mean.

### Checkpoint — the save of a snapshot

`write_atomic` one system call per step (`Create`, `Write`, `SyncFile`, `Rename`,
`SyncParent`, `Fail`), with readers (`Open`, `Close`), process deaths (`Crash`) and
loss of power (`PowerLoss`) anywhere.  The file system is external: a rename is
atomic, and content and names survive a power loss only once synced.

### StripedPair, PrefixRateCap, HotPath — the hot path

`StripedPair` is one of the two counters of the struct: `Record` (count and batch
test), `BeginFlush`, one load per step in any order (they are relaxed), `Claim`
or `ClaimFails` for the weak exchange, `Send`.  `PrefixRateCap` is
`check_and_record` one atomic access per step: `LoadStart`, `WindowHolds`,
`WinRoll`/`LoseRoll`, one `ZeroBucket` per bucket, `Admit`/`Refuse` for the
`fetch_add`, `Undo` for the `fetch_sub`, modulo `Wrap`.  A thread keeps the clock
reading it entered with while the clock moves on.  `HotPath` is the pipeline: the
stride sampler, the producer clones with `try_send` and its count as two steps,
the std channel (external: a bounded queue with a live-receiver flag), and the
consumer that drains, blocks, shuts down or dies.

### TenantPool, ThresholdedForest and LruCache — detectors by tenant

`forests` maps a resident tenant to its slot: the detector, the tick and the
instant of its last access.  Each call of the pool is one action, since calls take
`&mut self`: `Process`, `Bootstrap` and `ReadOrCreate` go through `TouchOrCreate`
(`touch_or_create`), `FactoryFails` is the same call when the factory errs, after
room was made; `Get` and `Delete` go through `GetMut`; `Insert`, `Remove`,
`Clear`, `IterMut`, `EvictLru` and `EvictIdle` are the methods of these names.
`Tick` is the clock.  `since`, `installed` and `released` are histories.  Ticks
are bounded by `MaxTick`; the saturation of the counter at 2^64 - 1 is not reached.

`ThresholdedForest` gives the detector as a value: whether the forest holds a
leaf, the number of recorded scores, whether their deviation is positive, whether
the digest has weight.  `Processed` is the set of detectors `process` may leave,
by whether the score differed from the mean and whether the samplers' warm-up
gates let the first points in.  `GradeReady` is the way through `score_only` and
`grade_from_score` to a grade with `ready`.

`LruCache` is the promise: a bounded set of keys in the order of their last use,
without ticks or clocks, from which only the least recent are evicted.  TenantPool
maps the order of its ticks to it; that evictions by instant follow this order too
is the point.

### DriftAware, Shingled — wrappers of one forest

In `DriftAware` a forest is the set of stream positions it has taken.  `Update`
is `update` by its outcome: `PrimaryFails` (the point taken or not), `PrimaryOnly`,
`ShadowFails`, `ShadowLearns`, `Swap`; `OnDrift` and `AbortShadow` are the calls.
In `Shingled` scalars are positions: `Fill` and `Submit` are `update_scalar` before
and after the ring is full, `UpdateFails` its early returns, `ResetRing` the
reset; `MaterialiseShingle` and `ShingleWith` read the ring at the cursor.

### Sketches

`FrequencySketches` feeds SpaceSaving and count-min the same weighted stream and
keeps the true counts beside them; `SetSketches` does so with the Bloom filter and
HyperLogLog in the hands of collectors that merge; `QuantileSketches` with the
histogram and the t-digest.  Hashes are any function of the key, centroids carry
sums instead of means, and which neighbours the digest's scale function lets join
is left open.

### Detectors

`Adwin` is the window and its cuts; `CumulativeSums` the two-sided sums of the
meta detector and of one feature, with warm-up, alert and resets; `Baselines` the
histograms of feature drift and the peaks of the univariate threshold, frozen and
reset; `RunningStats` the one-pass moments, alone and over the reservoirs
(`forensic_baseline`), the moving average that judges a point before it learns it,
and the normaliser's ranges.  Real numbers are integers chosen so that every
division is exact; a logarithm is a table.

### Recorded streams and the fleet

`MatrixProfile` computes a profile row by row, its dot products carried along
diagonals (`Stepped`), its deviations by sliding sums; distances are compared as
fractions of squares.  `RangePrecision` sweeps a ranking and adds up the area of its
curve for every buffer size (`Emit`, `NextBuffer`).  `FleetQueries` is
`most_similar`, a heap that never holds more than it must answer, fed in the order
of a hash map.

### Triage

`AlertClusters` and `LshClusters` are the two clusterers; `FeedbackStore` the label
ledger and its adjustment; `AuditChain` the writer, a store that may lose, reorder,
repeat and spoil entries (external), and the verifier, with every log there has been
kept beside them (`written`), since a writer resumed from an older entry starts
another; `PlattFit` the control of the
calibration fit with every outcome of its arithmetic open, for a `min_step` above the
first step, among the normal steps (as the default) or subnormal: in the first case an
accepted step ends the fit, in the last an abandoned search does not, and the next turn
of the Newton loop starts with `converged` set; `SageShapley` the permutation walk.

### The MC modules

The run `tree` is of TreeScores, whose end gives the tree coordinates and grids; the runs `forest`,
`forest_handles`, `tenant_pool` and `rate_cap_wrap`, and those that share their
modules, run ForestRefinement, ForestHandles, TenantPool and PrefixRateCap as they
are, the first with observations that alternate between two points (`TwoValues`).  `MCHotPath`,
`MCStreams` and `MCTriage` put parts that share no state into one run each: `part`
says which of them a behaviour is, and the variables of the others keep their first
values.  A part that leaves a choice in its `Init` makes it only where it is the one
that runs.  `MCHotPath`, and `MCStreams` and `MCTriage` for the parts that are proved about, leave
their constants to their `.cfg`, so that what is proved is proved for all of them.

## 3. What the runs check

Every passing run explores all states within its bounds; every property of a
passing run has a mutant of the code, listed in `PROJECT.json`, that breaks it.

| Run | Shows |
|---|---|
| `forest` | no store error, snapshots taken between calls pass `TryFrom`'s checks, the inductive invariant, exact retention, codisp cleans up, refinement of the ensemble, every call returns |
| `forest_handles` | retracted observations are gone from every tree; the store stays within trees × samples + 1 |
| `tree` | one well-formed tree, tight boxes; walks meet the subtrees the points call for, and an attribution splits the score; reload admits every such tree and no damaged one; an insertion fails only by rounding |
| `hot_path` | the cap is hard when the roll was alone, windows in order; no event sent twice or early, a flush covers its start; sampler and channel totals exact, enqueued points delivered once, clean shutdown loses nothing; every call returns |
| `tenant_pool` | bounded, an LRU cache, the working set stays, counters balance, grades only after the warm-up |
| `streams` | samples are the lightest, answers agree with their definitions and quantiles are in order, the damage of failing workers is contained, recovery loses nothing, shingles are windows, saves are atomic and last, counts and sets bracket the truth, detectors keep to their stretch |
| `triage` | clusters are their alerts and keep apart, removals are the oldest, the adjustment is bounded, the verifier accepts the beginnings of logs written and nothing else, credits add up, the fit returns |

The bounds:

| Run, part | Bounds |
|---|---|
| `forest` | 2 trees × 2 samples, 4 observations, 2 timestamps, batches ≤ 2 |
| `forest_handles` | 2 trees × 1 sample, 4 observations, stamps on any index |
| `tree` | 4 points at 4 places in 2 dimensions, both builds, shares in units of 1/144; damaged images of up to 3 points |
| `hot_path`, cap | 2 threads, 2 buckets, cap 1, window 2, clock ≤ 3, 4 calls, counters modulo 8 |
| `hot_path`, stripe | 2 threads, 2 stripes, batches of 2, 4 events |
| `hot_path`, channel | 2 producers, room for 2, 1 in 2 kept, 6 packets |
| `tenant_pool` | 3 tenants, capacity 2, 1 observation to be ready, replays ≤ 2, 5 ticks, 2 instants |
| `streams`, sampler, ensemble | capacity 2, 3 weights, 5 offers; 4 trees, scores 0, 12, 24, 36 or none |
| `streams`, failing | 2 trees × 2 samples, 5 slots, 4 updates, 2 refusals |
| `streams`, drift, shingle, save | warm-up 2, age 2, 7 points, 3 shadows; ring of 3, 8 scalars; 2 processes of one pid, 3 files |
| `streams`, sketches | 3 keys in 2 counters, weight 5; 2 rows × 2 columns; 2 collectors, 3 bits, 2 registers; 3 bins, digest threshold 3, 4 values and a peer |
| `streams`, detectors | window 5, sub-windows 2, 7 arrivals; 4 arrivals for sums, baselines of 3 bins and moments |
| `streams`, metrics | 8 values in windows of 4; 4 positions, 3 levels, buffers 0 to 2; 4 tenants, answers of up to 2 |
| `triage`, clusters | 4 alerts of 4 kinds, 3 timestamps, caps up to 3 |
| `triage`, the rest | 3 buckets × 2 dimensions, 3 alerts; 5 labels in room for 3; 4 appends, 4 faults; 3 iterations, `min_step` above the first, the second and every normal step; 3 dimensions, 2 permutations |

Why these bounds.  A defect of reference counting needs two workers and one
slot; slot reuse needs a full reservoir, an eviction and one insertion more,
which is three observations at capacity one and four at capacity two; two
timestamps are one on each side of a cutoff.  With two refusals one ghost can be
met while another is made, and five slots let a ghost's slot be handed out again.
In the tree three points make a
splice above an internal node and a promotion with a grandparent, the fourth a
deeper recomputation and duplicates beside them; the four places are one
distance an f32 cut resolves and one it does not.  Two threads are enough for
every race on one exchange; four events at batch two make two flushes that may
overlap.  Four calls and the clock allow two rolls with a delayed thread on
either side.  Three tenants in a
pool of two force an eviction, five ticks fill the pool, reorder it and evict
twice, two instants make one tenant idle and not the other.  Seven points take a
recovery of two points twice in a row with a failing update in each; eight
scalars turn a ring of three twice.  Three saves by two processes of one pid make
one meet the other's temporary file and a crashed one's.  Three keys over two
counters take over a counter that has been taken over.  Seven arrivals overflow a
window of five and cut it.  Four alerts open, join, evict and prune with one left
to be told apart.  Four faults are what the verifier's limits take: an
entry delivered twice, a resumption from it, a removal and a wrong order leave in the store a
log that was given up, which verifies.  Windows of four are the least the matrix profile takes and eight values the
shortest series.  Symmetry is used only in runs without
liveness, on points and tenants that no constant tells apart.

Runs that end in a counterexample each show one sentence of the documentation
or of a comment that the code does not keep:

| Run | The sentence | What happens |
|---|---|---|
| `forest_stale_handle` | track the index of `update_indexed` and hand it to `delete`, which returns false when the point is gone | the slot has been given to a newer point, which is retracted |
| `forest_batch_probes` | a batch larger than `sample_size` returns `EmptyForest`, since every probe misses a tree | each probe is still in some tree, or its slot is a later probe's: all are scored, on fewer trees, and the call succeeds |
| `pool_readiness` | a tenant is counted as ready when its grade is | the summary asks for a positive deviation also under a quantile threshold, which grades without one |
| `rate_cap_wrap` | the roll back keeps a late roll from accumulating on the bucket | a roll between `fetch_add` and `fetch_sub` makes the bucket wrap to its maximum |
| `platt_converged` | `converged` is false after an abandoned line search | the fit sets it to true where it abandons one |

Further observations of the same kind, not kept as runs: a timestamp set by an
index whose point is gone stays and makes `delete_before` retract the next tenant
of the slot (`set_point_timestamp` does not look); `dropped_total` also counts
points turned away because the consumer is gone; the sink may lag by one partial
batch per stripe and not by one in all (`METRICS_BATCH_SIZE`); under `packed-cut`
the heir of a shared leaf may lie outside its ancestors' cached boxes, and a new
point is absorbed as soon as the one cut drawn fails to isolate it, though the
comment says no cut could; in the default build a draw that rounds up to the
upper end of its range isolates neither of two neighbours, though the comment
calls this a bug elsewhere (`RefusesOnRoundingOnly` says it is the only way).  The
pool evicts before it asks the factory, so a failing factory costs a tenant, and
`tenants_created_lifetime` counts tenants created, not factory calls.  With
`score_decay = 1` the variance stays zero and a z-score threshold is never ready.
After a swap `primary_age` is what the shadow has seen, so with `shadow_warmup`
at or above `min_primary_age`, as in the defaults, the flap guard is open at once,
and the age is not "since the last shadow swap".  `score_scalar` is said to match
what the next `update_scalar` submits, which is the window before.

More such observations, from the later modules.

- Forest: a ghost (section 2) is not healed by updates: the call that evicts it
  errs and leaves another.  A forest with one can be saved, but its snapshot does not
  reload; `delete_by_value` and `delete_before` stop at the first.  Slots a failing
  fan-out was about to free stay live for good.  `ReservoirSampler::accept` asks for
  indices unique within its lifetime, while slots are reused.
- Sampler: `SamplerOp::Rejected` is documented for a weight smaller than every
  member's; it is returned for one no smaller than the largest, and by the warm-up gate.
- Persistence: the version is said to be checked before any third-party decoder
  (`persistence.rs:57`), which holds for the binary form and not for JSON.  When the
  sync of the directory fails `to_path` returns an error with the new snapshot in place.
- Sketches: `SpaceSaving::iter` says insertion order and gives a hash map's.  The head of
  `histogram.rs` has bins, underflow and overflow sum to `total()`, which also counts
  values that are not finite, as its own doc says.
- Feedback: the comment on `KERNEL_SUM_FLOOR` has a label at seven standard deviations
  weigh about 1e-21; the kernel there is exp(-24.5), about 2e-11, which is above the floor.
- Batched codisp: where one index of a batch names a later probe, the earlier probe's score
  is the later one's and the first deletion withdraws it, the second finding nothing.
- Detectors: `per_feature_magnitude` is the magnitude before the update unless the
  update alerts.  A moving average with `warmup_samples = 0` judges its first
  non-zero point against a mean of zero and answers the largest number.  The samples
  feature drift keeps before the freeze are not bounded.
- Matrix profile: `discord` puts windows without a distance first and takes the last of
  equals; `discord_topk` skips the former and takes the first.
- VUS-PR: a larger buffer is called more tolerant, but the area may fall with it; among
  equal scores positions decide, so a constant score is rated perfect when the anomaly
  comes first.
- Audit chain: the doc of `with_genesis` says to load sequence number and previous tag from
  the last stored entry; the chain joins up only with the number after that entry's and
  with its own tag.  A chain resumed behind an entry that is not the newest signed makes two
  logs of one beginning, and both verify; the verifier cannot tell which one was given up.

## 4. Fairness

Three runs state liveness.  `forest`: weak fairness of the running call and of
each worker — rayon runs every chunk before `install` returns — and strong fairness
of `CasRef`, since `compare_exchange_weak` may fail spuriously but not for ever on
a value it keeps matching.  Callers are not assumed to call.  `hot_path`: weak
fairness of each thread inside `check_and_record` and inside `flush`, strong
fairness of its exchange, for the same reason; the clock is not assumed to advance,
and no thread to call.  Nothing is assumed of the channel: whether the updater
drains is up to its caller.  `triage`: weak fairness of the calibration part alone,
since `fit` runs in one thread that nothing stops; the other parts move when called.
Pool, wrappers, sketches and detectors are sequential and state no liveness.

`CHECK_DEADLOCK FALSE` is given where the system may stop: in the runs made of
parts, whose bounded streams end and whose channel shuts down, in `rate_cap_wrap`,
whose clock and calls run out, and in the calibration run, whose fit returns.

## 5. What is proved

The prover knows nothing of the bounds of section 3: each theorem holds for every
value of the constants that its named assumptions allow.

### The forest (`ForestProofs`)

For every number of trees, every capacity, slot count and stream length:

- `Invariance`: `Spec => []IInv`;
- `StoreNeverErrs`, `OrphanFree`, `NamedPointsLive`, `TypeCorrect` from it;
- `SnapshotsReload`, for callers that stamp only live indices: between calls the
  forest passes `ValidSnapshot`, the checks of `TryFrom` condition by condition;
- `StoreStaysBounded`: the store has room for what the reservoirs hold and one more;
- `CallsInvariance`: `Spec => []CallsInv`, and from it `RetentionHolds`, again for
  callers that stamp only live indices, and `CodispLeavesNoTrace`.

Assumptions: `SizeAssumption`, `TimeAssumption`, `NoneAssumption`,
`StampAssumption` of RandomCutForest, which say that sizes are naturals, that
timestamps are, and that `None` is not a number.

The argument.  None of the properties is inductive alone: that `decr_ref` never
meets zero depends on how many trees still count a slot, which the property does
not mention.  `IInv` adds what the code keeps implicitly:

- `RefInv`: a count is exactly the number of trees whose reference it still
  includes — those that index the slot, and those between forgetting it and their
  exchange (`Counted`, `Holders`).  A successful exchange removes one holder and
  one from the count; `Link` adds one to each.
- `PendingInv`: a slot is handed over for freeing by one worker, at zero, and
  stays at zero, because nobody can gain a reference to it: only the newcomer's
  slot gains any, and it is another.
- `FreeInv`: the free list is the empty slots below the capacity, each once.
- `OwnerInv`: a live slot is referenced, being inserted or pending.
- `WorkerInv`: what each stage of a worker knows.

The proof takes the actions one by one; most disturb one worker's entry of the
functions, and two lemmas about `Cardinality(Holders(s))` when one tree joins or
leaves carry the arithmetic.  TLC checks `IInv` in the run `forest`.

`StoreStaysBounded` needs more than `IInv`: the capacity grows only when the free
list is empty, and then every slot below it is live, between calls, and so in some
reservoir.  Each is named by a pair of a tree and a place in its reservoir (an
injection), which bounds their number; one more slot is added to that.

`CallsInv` is about whole calls, which are several fan-outs with other state between
them.  `ObsInv`: an observation is stored once and never before its insertion.
`CallInv`: which call may be in which job.  `RetractInv`: a worker that has taken its
turn on a deletion has forgotten the slot.  `BeforeInv`: what `delete_before`
collected at its start is still, minus what it has passed, exactly the stale stamps —
nobody else stamps or frees meanwhile.  `ProbeInv`: a slot a codisp call was given
holds one of its probes until the call comes to delete it, or has been emptied; it
cannot have been given to an observation of the stream.

### What the forest promises (`ForestProofs`)

`ForestImplementsEnsemble`: `Spec => ImplementsEnsemble`, every step of the workers
maps to a step of ReservoirEnsemble or to none, assuming that callers stamp only live
indices (`~StampAnySlot`).  Without that it is false: a stamp set on a free slot makes
`delete_before` retract the slot's next tenant, which section 3 mentions.  A
reservoir's observations are those of its slots (`HeldObs`), as many as the slots
because an observation is stored once; a worker's turn is over where it has changed
its sampler, and what it does afterwards — counting down, handing over, linking — is a
stutter.  The invariant behind it is `IInv`, `CallsInv`, the stamps on live slots
only, and `FreshInv`: the slot of a newcomer has no stamp yet.

For callers with handles, in the same module:
`HandlesStayRight`: a caller that keeps the indices it was given and retracts or
stamps by them, in time or not, takes only steps of the forest, so all the above
holds for it; and while an observation is stored, it is where its handle says.
`RetractedStaysGone`: `HSpec => RetractedIsGone`.

### The hot path (`MCHotPathProofs`, `FunctionSums`)

All of it is about the composition `MCHotPath`; a part that does not run keeps its
first values.  Of the sampler and its channel: `ChannelInvariance`
(`AllSpec => []Channel!ChannelInv`), `TotalsStayExact` (`AllSpec => []TotalsAreExact`)
and `EnqueuedStaysDelivered` (`AllSpec => []EnqueuedIsDelivered`), for any finite set of
producers, any stride and capacity, under `HotPathAssumption`.  The totals are only
exact when everybody is at rest; what is inductive counts the producers at each point
of their call (`CountInv`): the sampler has counted what was drawn except for
those that have drawn and not counted (`Drawing`), and the channel what was kept except
for those that have yet to offer it or to count the offer (`Offering`).  `PacketInv` says that
the packets in the queue, handed over and held by a producer about to offer them are all
different and have all been drawn; `SentInv` and `UpdaterInv` relate what was enqueued to
queue and sink through a drain in progress, a consumer that dies and a shutdown.

Of the rate cap: `CapInvariance`, `CapHolds` (`Spec => []CapIsHard`) and `WindowOrder`
(`Spec => WindowsInOrder`).  Of the striped counter: `StripeInvariance`, `EventsSentOnce`
(`AllSpec => []EachEventSentOnce`) and `FlushesCoverTheirStart`
(`AllSpec => FlushCoversItsStart`).

Assumption of the cap: `CapAssumption`, by which sizes are naturals, the threads are
finite and a counter has room for the cap and one pending refusal per thread.  The
argument: `CallInv` gives the range of what a call holds at each point.  A roll
exchanges the very value the thread judged expired, so its clock reading is at least
one window past it, whatever moved in between — the order of windows.  `RollInv` says
that the winner of a roll nobody overlapped is alone and that the buckets it passed are
empty, so the window starts from zero.  From there on a bucket is its admissions plus
the refusals that have not been undone (`CapIsHardWhenRollIsAlone`), at most the cap and
one per thread, so it does not wrap and admits at most the cap.

Assumption of the counter: `StripeAssumption`, by which threads and stripes are finite
and the batch is above zero; threads may share stripes.  A flush reads the stripes one
by one while they grow, so its sum was perhaps never the total.  `FlushInv` says what it
was: what it has loaded, with what it has yet to load as that stands now, lies between
the total at its start and the present one.  So a claim is never ahead of the count, and
a flush that meets a larger claim may leave.  What the sink has and what flushes hold
claimed are the claimed total, because only the exchange moves it and moves it by what
its winner sends.  `BatchInv` says who will claim the full batches: they are claimed, or
a flush is under way that began late enough.

Totals are folds (`FoldFunction`) over the stripes.  `FunctionSums` shows what a fold
does when one value changes (`SumUpdate`): its recursive function exists, and the
order in which it takes the elements does not matter, each by the smallest set on which
it would fail.  The tree's scores use more of it: sums add up (`SumsAddUp`), two sums
over a rectangle may be swapped (`SumsSwap`), noughts may be left out
(`SumWithoutNoughts`), and the sum of the sizes of disjoint sets is the size of their
union (`SumCountsAll`).

### The pool (`TenantPoolProofs`)

For any finite set of tenants, any capacity above zero and any factory:

- `PoolInvariance`: `Spec => []PoolInv`, and from it `Bounded`;
- `WorkingSet`: `Spec => []WorkingSetStays`;
- `PoolImplementsLru`: `Spec => ImplementsLru`, the refinement of LruCache;
- `LedgerStaysBalanced`: `Spec => []TenantsAccountedFor`;
- `ReadinessIsEarned`: `Spec => []ReadyNeedsWarmup`.

Assumptions: `PoolAssumption` and `ReadinessAssumption` (sizes are naturals, the
set of tenants is finite).  The argument for the first three: `OrderInv` says that ticks
are unique and that a later tick was not taken at an earlier instant, so an eviction by
instant never takes a tenant and spares one used before it.  `SinceInv` and
`GoneInv` link the working set to the ticks: whoever carries a later tick was used
since, so the victim of a full pool has seen all the others used, and a tenant
without a slot has seen as many as the capacity.  `SizeInv` and `StampInv` supply
the types.  None of that depends on what the detectors are.

The last two do.  The ledger is two cardinalities and four counters, and each call is
shown to move both sides alike, whichever of its branches it takes — the eviction
before a factory that fails among them.  Readiness rests on `WarmInv`: a score is
recorded only of a point that found another stored, so a detector was fed one point more
than it has scores, and a spread takes two scores.  A bootstrap replays points by a recursive function; that it keeps a detector
warm, and that the function exists at all, is shown by taking the least length at which
it would fail.

### The tree (`RandomCutTreeProofs`)

For any finite set of points, any capacity, any coordinates and either build, under
`TreeAssumption` and, where attributions come in, `UnitAssumption`:

- `TreeInvariance`: `Spec => []TreeInv`, and from it `TreeStaysWellFormed`
  (`Spec => []WellFormed`);
- `GeomInvariance`: `Spec => [](TreeInv /\ GeomInv)`, and from it `BoxesStayTight`
  (`Spec => []BoxesTight`) and `CutsStaySeparate`;
- `RefusalsAreRoundings`: `Spec => RefusesOnRoundingOnly`;
- `BoxesStayOrdered` and `SnapshotsAdmitTrees`: `Spec => []AdmitsExactlyTrees`, in
  either build, and `AdmittedAreSafe`, its second half for any image at all;
- `WalksStayMatched`: `Spec => []WalksMatchPoints`, whose first two parts stand alone
  as `QueriesFindPoints` and `CodispStaysExact`.

`GeomInv`, the refusals and the walks say something of the default build only, as the
code does: packed cuts are rounded and may pass through a box.

The argument for the arena.  A deletion and an insertion walk from a node to the root
through parent links, and nothing in the arena's types says that the walk ends.  The
masses do: in a well-formed tree a parent's mass is the sum of its children's, so it grows
at every step up and never passes the root's.  From that the chain of ancestors
(`Above`, a recursive function) is shown to exist, to hold no node twice and to end
at the root, by taking the least distance in mass at which it would not.  `AddMass`,
`Splice`, `DropCopy` and `DropLeaf` change nodes on one such chain; that exactly one
child of each node on it is on it too is what makes adding or taking one mass
there keep `MassIsCount`.  There is always room to splice: the leaves map one to one
into the points present, which are fewer than the capacity (`AddingInv`), and the
internal nodes are one fewer than the leaves (`SizeInv`).

Boxes and cuts are inductive only together.  An insertion grows each box it passes and
the cut sends the point to the side that grows; a deletion recomputes each box
from the one below (`recompute_ancestors`, whose recursive definition
is shown to have a solution), which is within the old one, so cuts that
separated the sides still do.  Two things follow.  A box of two separate sides has
some extent, so an internal node always has a cut to draw, and a refused insertion
stands at a leaf whose draw rounded to the end of its range.  And each node on a
leaf's chain routes a point of the leaf along it, so a query arrives there.

The argument for a snapshot.  A tree of the running system passes each check of
`validate_restored`: its mass and reach are those of the invariant, and its cached boxes
have their lower ends at or below their upper ones in either build (`BoxesOrdered`, inductive
with `TreeInv` and without `GeomInv`, which the packed build does not have).  The other
way, the free lists hold every empty slot and the nodes reached from the root are as many
as the lists leave, so every node in use is reached (`AdmittedIsLinked`) and has the one
parent that reached it.  A mass is the sum of the children's and a leaf's is above zero, so
every step of a climb meets a heavier node and the climb ends, at the root
(`ClimbRises`).

The argument for the walks.

- Displacement: a node's mass is the number of points below it (`TreeInv`), so the
  ratios of cached masses are ratios of points.  The walk up is the largest of them, by
  the topmost node at which it would not be; the walk down meets the same nodes, because
  a stored point is routed along the chain of its leaf.
- Probabilities: the boxes along a walk are nested in what they leave of the query, and
  the draws of one dimension are an interval of cuts.  Their sizes add up over the
  dimensions (`SumCountsAll`), and those that isolate the query are the part of the
  interval beyond the box.  The denominator is above zero at an internal node, since a
  cut runs through its box.
- Attributions: by `UnitAssumption` each node's addition divides exactly into what each
  dimension is credited and, where the query lies within the box, nothing
  (`NodeCredits`).  Summing over the nodes and over the dimensions is one sum in either
  order (`SumsSwap`).  The nodes that credit nothing are those whose points
  surround the query, because a box reaches to a point on each of its sides
  (`BoxSpansPoints`).  No axis is credited on both sides, since every box of the walk holds
  the point at its end (`OneSide`), and the single pass agrees with the two passes at every
  prefix of the walk (`OnePass`).

### The streams (`MCStreamsProofs`, `SummaryProofs`, `FunctionSums`)

Of the composition `MCStreams`, whatever the constants of the part concerned:

- `RecoveryIsComplete`: `StreamsSpec => []RecoveryLosesNothing`;
- `WindowsStayWhole`: `StreamsSpec => []ShinglesAreWindows`;
- `SampleStaysLightest`: `StreamsSpec => []SampleIsLightest`;
- `SavesAreAtomic`: `StreamsSpec => []SaveIsAtomicAndLasts`;
- `DamageStaysContained`: `StreamsSpec => []DamageIsContained`;
- `SketchesStayBracketed`: `StreamsSpec => []SketchesBracketTruth`;
- `DetectorsStayInStretch`: `StreamsSpec => []DetectorsKeepToTheirStretch`.

Assumptions: `StreamsParameters`, which collects `SamplerAssumption`,
`FailureAssumption`, `ShingleAssumption`, `CheckpointAssumption`, `FrequencyAssumption`,
`SetsAssumption`, `AdwinAssumption`, `SumsAssumption`, `BaselinesAssumption` and
`RunningAssumption`, and `RecoveryAssumption` of DriftAware.  They say that sizes are naturals (a dimension, a
reservoir's capacity, the counters, the width and the ranks above zero, as the
constructors check), that there are finitely many keys, that noise is a set of
integers, that every thread belongs to a process, and that the absent value is no number.
A window has room for two sides and a histogram two bins or more, as their constructors
check.  What is observed is an integer; a deviation is never rounded away, which
`RunningAssumption` states of the values of the moving average: two of them lie far enough
apart for their squared distance to be halved at every arrival and stay above nought.  A
variance of floats that underflows, after a thousand equal values, is outside the model.
A part that does not run keeps its first values, where its invariant holds, so each
theorem is the part's own.  The inductive invariants stand at the end of the modules:

- Recovery (`RecoveryInv`): a shadow is a primary that has not taken over yet.  It
  holds what it was offered since it was spawned, errors excepted, and its age counts
  what it accepted; a swap moves both, and so keeps the claim.
- Windows (`RingInv`): the ring holds the newest accepted scalars, each at its number
  modulo `D`, and the cursor is the number of accepted ones modulo `D`.  That a slot is
  written again only after `D` others is arithmetic modulo `D`, which the
  prover needs in lemmas of its own.
- The sampler (`SamplerInv`): the property is inductive with the types.  `Peek` is
  a greatest member of a finite set, which has to be shown to exist; the entry that makes
  room is then no lighter than any left, and whoever is turned away no lighter than it.
- Saves (`SaveInv`): until it is renamed, a file belongs to one thread, which finds it at
  the temporary name it gave it (`SaverInv`), whatever pids processes share, because a
  name in use is refused.  So a rename moves a whole, synced file, and moves it once;
  what the path may be after a loss of power has been moved there and is not written
  again (`PathInv`).  A thread about to sync the directory knows that the path is the
  file renamed last, its own or a later one, which is why its Ok promises what it does.
- Failures (`FailureInv`): a count is the number of trees that index the slot, through
  every outcome of a tree's turn, which one lemma covers; a fan-out releases at most one
  slot per tree (`FanOutInv`), of which a retraction releases only its own, so
  forgetting them costs at most `NumTrees + 1` slots; a ghost is charged to the visit
  that fails (`GhostInv`).  A sampler is a bag of slots, so its size is a sum over them
  and rests on `FunctionSums`.
- Frequencies (`FrequencyInv`): that an estimate lies between a key's count and its
  count plus the entry's error is not inductive.  What is needed beside it is that a key
  without an entry came no oftener than the least entry says (`EntriesInv`), because it is
  that entry it will take over; that the entries add up to the stream; and that a full
  table's least entry is therefore at most its share of the stream (`SumAtLeast`), which
  bounds the error a newcomer inherits.  A cell of the table is the sum of the counts of
  the keys hashed to it (`CellsInv`), so each row's answer is at least a key's own.
- Sets (`SetsInv`): the property is inductive with the types.  The bits of a union are the
  union of the bits, and the highest rank among the keys of two collectors is the higher
  of their two, whether a key is in one of them or in both.
- Detectors (the invariants stand in `SummaryProofs`).  The window is the end of the
  stream (`WindowInv`): a cut takes its older part, however the means compare.  A sum
  (`SumsInv`) is the worst run that ends at the newest entry: that run goes on from the
  worst that ended one entry before, or begins here, or is empty (`WorstGrows`), which is
  what raising it by one entry computes; and an alert's duration counts from the last
  entry without one (`LastCalmGrows`).  A value falls in the highest bin whose lower side
  it reaches, its quotient rounded down and values beyond the range in the outer bins
  (`BinIsReached`), so counting it there adds one to every sum of bins that should grow
  (`OneMoreHeld`), and a histogram taken all at once holds what it would have held one
  value after the other (`HistogramHolds`); freezing moves the samples, and the
  production histogram holds what came after (`FrozenInv`).  The moving average
  (`MovingInv`) has a variance exactly when two of the values since the reset differ, and
  its mean is their value while none do (`Tracks`); that is what `z_score` asks of it.

### Triage (`MCTriageProofs`)

Of the composition `MCTriage`, whatever the constants of the part concerned:

- `VerifiedIsWritten`: `TriageSpec => []AcceptsPrefixesOnly`;
- `CreditsStayExact`: `TriageSpec => []CreditsAddUp`;
- `AdjustmentStaysBounded`: `TriageSpec => []AdjustmentIsBounded`;
- `ClustersStaySummaries`: `TriageSpec => []ClustersAreTheirAlerts`;
- `ClustersStayApart`: `TriageSpec => []ClustersKeepApart`;
- `OldestGoFirst`: `TriageSpec => RemovalsAreOldest`.

Assumptions: `TriageParameters`, which collects `ChainAssumption`, `FeedbackAssumption`,
`SageAssumption`, `ClustersAssumption` and `LshAssumption`: bounds and sizes are naturals,
a capacity is above zero, raw scores
are naturals and positions and scores integers, weights of the kernel are naturals; a
similarity is an integer that does not depend on the order of its arguments; there are
finitely many dimensions and at least two buckets for each.

- The chain (`ChainInv`): a tag is ideal, so no two logs written end in the same
  tag, and every beginning of a log written was one (`WrittenInv`).  Whatever was lost, repeated or
  altered, the number and tags of an entry are those of one that was signed (`SignedInv`).
  So the first entry that verifies ends a log of one, and each next one links to the tag
  of a log and extends it: a stored log that verifies and was not written would have a
  least beginning that was not, and there is none.  The other direction, that a log
  written verifies, is again by its least beginning that does not.
- The credits (`SageInv`): a step credits one feature by what the score changes by, so
  the sum of credits (`SumUpdate`) and the score of the features in place move alike;
  `prev_score` is that score, which the code carries from step to step.
- The feedback (`StoreInv`): the store is the newest labels by number.  The adjustment
  is a quotient of two sums over the same labels, one of weights, one of weights with a
  sign, and the second is within the first (`SumBounds`).
- The clusters (`ClustersInv`): the two invariants and the types together are inductive.
  Pruning and evicting are loops, written as recursive functions; `Iterates` shows that
  such a function exists and that each of its values is where its steps lead, by the
  least place at which it would not be.  Each step leaves some of the clusters and none
  older than one it drops (`Left`), a relation that composes, which is `OldestGoFirst`
  and keeps what holds of each cluster and each pair.  An alert that joins is near the
  representative, which does not change, and one that opens a cluster was near none, so
  that, similarity being symmetric, the new pairs are apart too.
- The buckets (`LshInv`): a bucket counts the alerts quantised to its cell and the sum of
  the buckets is the number of alerts (`SumUpdate` where one grows, `SumGrows` where one
  opens).  That a value is quantised to the cell it lies in is a lemma about the
  division and the two clamps (`LiesInCell`), and no value lies in two cells.

### Only model-checked

- Of `streams`, `AnswersAgree`: it compares what folds and recursive functions compute
  over a record with its definition, which is induction over data.
- All liveness, which is outside the prover's reach together with ENABLED.

## 6. What is not modelled

- Numeric formulas: the logarithms of the scores (integer weights stand for them),
  thresholds and grades, divergences, tail probabilities, the estimate of
  HyperLogLog, the kernels.  Group scores, severities, the stability of attributions
  and the loaders of benchmark data are formulas without state.
- The aggregation of attribution vectors across trees, `score_across_tenants` and
  `similarity_matrix`: sums over read-only answers.
- Byte encodings and the size checks of a snapshot's envelope; the encoding of an
  audit record.  The MAC is ideal, hashes are arbitrary functions.
- `accept_hash`, configuration, builders, metrics traits, error types, the facade.
- Weak memory beyond what section 2 says: loads of one flush may be reordered with
  each other, everything else is one order per location and sequentially consistent
  across.
- Interleavings inside a failing fan-out: ForestFailures takes a tree's turn as a
  step, so races between an error and its peers' single accesses are not explored.

`PROJECT.json` maps about a third of the non-test, non-comment code of the
crates, and a smaller share of all lines, since the sources consist to a large part of
doc comments, in-file tests, examples and benches.  The rest is the list above,
getters, validation of arguments and serde adapters.  Components with status
`not_modelled` have the reason there.

## 7. Plan

Every module planned is written and checked.  What is left is proof: section 5 lists
what is only model-checked.

Then the interleavings of a failing fan-out, by giving RandomCutForest's workers
the refusal of ForestFailures.
