# TLA+ models of the expert-residency core of grouped-nf4-gemm

The repository computes mixture-of-experts layers on quantised weights that do
not fit the GPU. Its kernels are numeric code; what decides *which bytes they
read* is a stack of caches in `src/kernel/`: experts are baked into an arena
file, read from NVMe into pinned DRAM, copied to device rows, gathered into an
engine's slots, and evicted again while streams and prefetch threads run behind
the host's back. Every mistake there yields a tensor of the right shape with the
wrong contents. That stack is what these modules model, and with it the two
other places where concurrency decides what a kernel computes: how small integer
tables reach the device, and the thread pool of the CPU kernels.

## 1. The system

| part | source | state | operations | modelled in |
|---|---|---|---|---|
| slot accounting | `vram_slots.py` | holder, state, generation, event tag, recency of each slot; ordered index of active slots; counters | `want`, `settle`, `discard` | `SlotArena`, `VramSlots` |
| device row cache | `dev_row_cache.py` | a `VramSlots`, the previous step's tag, the step census | `want` (settle, count, resolve, stall, retry), `discard`; `StepTag.record/sync/done` | `DevRowCache`, `StepCensus`, `DecodeSteps` |
| segmented pool | `segmented_pool.py` | a list of device row caches, `_where`, the rotation | `want`, `shrink`, `grow` | `SegmentedPool` |
| engine | `mxfp4_residency.py`, `mxfp4_pipelined.py` | wanted ids, tag, residency mirror, shared slot store | `_resolve_src`, `_commit`; `_claim`, `_prime`, `_fetch`, `_gather`, `_forget`, `_invalidate` | first half in `DevRowCache`, second in `HaveSkip` |
| row pool | `row_pool.py` | head, tail, demoted, frontier of each partition; pending batches | `append`, `row_view`, `run_view`, `demote_head`, `settle`, `host_run` | `RowPool` |
| cold tier | `nvme_residency.py` | two maps, free list, reservations, pending events, demand window, reclaimable set, generations, fences; victim and demotion heaps | `ensure` (demand, speculative), `fence`, `invalidate`, `row`, `validate`, `segment_into` | `ColdTier`, `RowCache`; the heaps in `LazyHeaps` |
| integer uploads | `nf4_grouped.py` 420-810 | two memos, pinned ring, capture arena, table memo | `to_device_i32`, `build_group_tiles` | `PinnedStaging` |
| CPU worker pool | `gnf4_native/cpu_kernels.c` | generation word, cursor, workers asleep | `pool_start`, `pool_run`, `pool_stop`, the worker | `CpuPool` |
| CPU view | `cold_cpu_view.py` | slot-parallel stacks | `landing`, `ensure` | no |
| arena reader | `nvme_reader.py` | thread pool, file descriptors | `read_row`, `read_row_scatter` | its contract, in `ColdTier` |
| arena bake | `nvme_arena.py`, `nvme_bake_nf4.py` | a file and its manifest | bake, verify | no |
| formats, attention, training, loaders, benches | the rest | none that outlives a call | | no |

How they meet. An engine resolves the experts of a layer: hot ones are on the
device; for cold ones it asks the device row cache, and for the rows that it has
to fill it asks the cold tier, whose reads go through the arena reader. The
engine issues a gather on a CUDA stream and records a tag behind it; the cache
frees rows by asking those tags, without blocking. A speculative prefetcher
calls the same cold tier from another thread. Layers share the device cache and
may share an engine's slots. Shared state: the tier's lock and its pending
events; CUDA events; the caches and slot stores shared by layers; pinned host
memory that a copy reads when it runs, not when it is queued.

What is hard: (a) the tier's lock is dropped while reads run and while a demand
call waits, so everything planned may be stale; (b) reads fail one by one, or at
submission, in the middle of a batch; (c) the GPU executes later than the host
believes, streams finish in any order, and a captured graph reads its pinned
sources again on every replay; (d) steps are abandoned before they record their
tag; (e) requests must be all-or-nothing; (f) the end of a decode step is
inferred; (g) a row that has moved may be back at an address a slot remembers;
(h) a CPU worker may be held up for any time between two accesses. The full
list, each at its line, is in `PROJECT.json`, `hazards`.

What makes each part correct: *slot accounting* - one slot per expert, the
slot's four records agree, a slot with readers is never given away, generations
move with contents. *Device cache, segmented pool* - a gather reads the rows it
was issued for, and a request that stalled is served. *Engine* - skipping a slot
whose address has not changed never keeps another expert's bytes. *Row pool* -
no row is reused before its copy has run, none is served from the host before it
is there, as it was written. *Cold tier* - no slot is lost, one fill per key, published rows are
whole, the demand window holds, no call waits for ever; the heaps choose what a
scan would. *Uploads* - a kernel reads the numbers its call passed. *CPU pool* -
every item runs exactly once, by workers of its own job, and calls return.

## 2. Modules

* `SlotArena` - one operator per operation of `VramSlots` on a record with the
  object's fields (`Wanted`, `Settled`, `Discarded`), shared by the three modules
  with arenas. `_active` becomes insertion stamps, so that LRU order is
  comparison; `_snapshot`/`_restore` becomes the absence of a step when `Claims`
  is empty. The six counters appear as one balance, `owed`, because the only
  thing the code promises of them is that they add up. `VramSlots` drives one
  arena with arbitrary requests; it is the abstract specification of the
  allocator below a cache.
* `StepCensus` - the census of `DevRowCache.want` as operators on a record.
  `DecodeSteps` drives it with decode steps in which any ascending layers ask, none
  included, and keeps the truth beside what the census infers: the rows of the
  running step, of each finished one, and of the runs of steps that the requests
  have set apart.
* `DevRowCache` - extends both. Host: `BeginWant` (record the previous tag if it
  was not, settle, count), then `Resolve`, or `NoSlot` and `Stall` and a second
  `Resolve`; then the engine's `Fill` per row, `Gather`, `Commit`, with
  `FillRaises` and `Abandon` for the exceptions. GPU: `Execute`. `bytes` and
  `reads` are ghosts that say what a row holds and what gathers in flight will
  read. That the second `Resolve` cannot fail, so that `want` does not raise, is
  `StallFreesEnough`; it rests on `AttachAssumption`, what the engine checks when
  it attaches a cache. `ImplementsArena` says that the cache drives its arena by
  `VramSlots`' operations only.
* `SegmentedPool` - a list of arenas. `want` is the sequence of requests it makes
  of its segments, all under one tag: `calls` holds those still to make (hits by
  segment, then one per miss, by rotation and within the budget). Each request
  stalls by itself, and may raise. The caller keeps the contract of `StepTag` and
  waits for nothing: it fills, gathers and records, as the engine does with a single
  cache. `Shrink` and `Grow` change the list; `SyncedShrink` says whether the caller
  synchronises the device first. `RoutedSize` is the `routed` of the constructor,
  which requests need not respect.
* `HaveSkip` - engines over shared slot stores. A fetch is claim, prime,
  invalidate, gather and commit in one host step; a captured engine's replay is
  the device's half alone. Addresses are abstract; a cache may put a cold row
  at any address that is not a hot row's. Any engines may share a store, as
  `SlotStore.check` compares nothing but the geometry.
* `RowPool` - the ring with streams. A turn of settle's loop is a step: settling
  two batches in one call is two turns, and a call that finds one of two events
  fired is one. The owner writes a row when it appends it and again through any view
  `row_view` gives (`Write`), rows it has demoted included; a write is queued on the
  owner's stream (`dev` is what was written) and has landed later (`landed`, `Land`),
  which is what a copy reads. Streams in `InOrder` run behind the writes queued
  before (the owner's own stream, or one made to wait for it), the others do not;
  `overtaken` remembers the rows whose copy may have missed a write. CPU pools,
  where copies are synchronous and no event exists, are the special case in which
  every write lands and every copy runs at once.
* `ColdTier` - one record `local[t]` per thread with its program counter and the
  locals of `ensure`. A step is what happens between two places where another
  thread can run: the plan holds the lock, key by key; `NoVictim`/`Unblock` is the
  wait inside `_claim_slot`; `PopFences`, `Submit`, `ReclaimUnsubmitted`,
  `Publish`, `FillFails`, `EndFill` are the fill; `Await`, `Refetch` and `Demote`
  end a demand call. `QueueCopies`, `Fence` and `ReadRows` are its caller, `Copy`
  is the stream. A nested call of `_ensure` reuses the record, with the outer
  call's remaining waits. Which of the eligible rows is evicted is left open;
  that reclaimable rows go first is kept. Requests come with distinct keys
  (`ensure` removes duplicates) and fit the pool (it refuses others).
* `RowCache` - what a demand thread may assume: it asks for rows, gets exactly
  those or an error, and they stay until it is done; never more than the
  capacity is resident. `ColdTier` implements it: `resident` is the domain of
  `_slot_of`, `asked` and `granted` the demand call's keys and its being answered.
* `LazyHeaps` - which row is evicted or demoted: `ColdTier` with the ranks of rows
  and the two heaps, each the bag of its entries. Every action is one of `ColdTier`
  with what it does to them (`Ask` is `Begin`, `Land` is `Publish`, `TakeVictim` is
  `ClaimVictim`, ...). The loops of the code take a step per turn: `_victim`
  (`StartSearch`, `SearchOn`, `TakeVictim` or `FindNone`), `_demote_locked`
  (`StartDemotion`, `DemoteOn`, `EndDemotion`, then `ReclaimNext` for each victim) and
  the pushes of resurrected rows (`ResurrectNext`). A loop runs to its end under the
  lock, and the steps that need no lock touch nothing that it reads or writes: while
  one runs, nothing else does (`Resting`). `list` is the loop's keys, `held` its
  entries kept aside.
* `PinnedStaging` - `to_device_i32` case by case (`FastHit`, `MemoHit`, `Stage`,
  `CopyPageable`, `TakeSlice`, `Refuse`) and the memo of `build_group_tiles` above it
  (`TileHit`), streams as queues of copies and kernels, captures and replays, and an
  allocator that hands a dead tensor's memory to the next one of its stream. Tile
  tables may be built on any stream and under capture. A table is `foreign` when that
  last memo, whose key has neither, gives it to another stream than the one whose
  memory it is in, or into or out of a capture.
* `CpuPool` - every step is one atomic access of the C code. Workers may be held
  up anywhere; the futex wakes spuriously; the generation's counter wraps.
* `...Proofs` - theorems, section 4; `SlotArenaProofs` has the lemmas about arenas
  that `DevRowCacheProofs` and `SegmentedPoolProofs` share. `MC...` modules hold the definitions a
  configuration cannot express.

## 3. Runs

| run | instance | states | question |
|---|---|---|---|
| `decode_steps` | 3 layers, requests of up to 2, 4 steps | 33 k | the census holds and reports the demand of whole steps and errs upward only |
| `dev_row_cache` | 2 layers, 4 rows, 5 keys, 4 steps | 271 k | one slot per expert, slot records agree; gathers read their rows; stalls suffice and end; the arena is implemented |
| `row_pool` | 1 partition, 2 streams of which 1 in order, ring 2, host 3, 4 rows, 1 rewrite | 71 k | no slot reused early; rows in order are served as written; demotions settle |
| `cold_tier` | 2 rows, 3 keys, 2 demand and 2 prefetch calls of up to 2 keys | 623 k | the concurrency contract, and `RowCache` |
| `cold_tier_live` | 3 rows, 4 keys, budget 2, 1 demand and 2 prefetch calls | 264 k | every call ends; what a call finds when it was blocked in its plan |
| `cold_tier_own_fill` | 2 rows, 3 keys | violation | a call blocks on its own reservation |
| `have_skip` | 2 tiered engines on one store; a captured pinned one and a tiered one on another; 1 slot, 2 experts, 4 addresses | 162 k | kernels read the experts wanted |
| `segmented_pool` | 2 segments of 4 rows, 5 keys, routed sets of 2, 4 requests, budgets 1 and 2 | 399 k | gathers read what was placed; no request fails |
| `segmented_pool_tight` | 2 segments of 2 rows, 4 keys, 3 requests | 14 k | no key in two segments, with requests that raise |
| `cpu_pool` | 2 workers, counter modulo 5, jobs of 1 and 5 items, 3 jobs | 99 k | every item once; calls return |
| `lazy_heaps` | 3 rows, 4 keys, heap limit 2, 3 demand calls and 1 prefetch of 3 keys | 2.75 M | the heaps choose as the scans |
| `pinned_staging` | ring of 2 slots of 1, arena 2 growing to 4, memos of 1, 4 buffers, 3 uploads, 1 capture, 2 streams; tile tables anywhere | 611 k | kernels read their numbers, in every table that is not foreign |

Some configurations belong to no run. `VramSlots.cfg` drives one arena alone, with
any tags and discards, and checks its type and its generations besides (46 k
states). The others reproduce the counterexamples of section 5, each in a few steps:

| configuration | checks | fails because |
|---|---|---|
| `DecodeStepsMerged.cfg` | `CurrentStepOnly` | two steps are added up as one |
| `RowPoolUnordered.cfg` | `SettledRowIntact` | with no stream in order, a copy overtakes the write of its row |
| `RowPoolLate.cfg` | `SettledRowIntact` | with every stream in order, a write after the demotion is lost |
| `HaveSkipReplay.cfg` | `TakeoverForgets` | a replay takes slots behind their owner's back |
| `SegmentedPoolShrink.cfg` | `ReadersKeepTheirBuffer` | without a synchronisation, a buffer goes under its reader |
| `SegmentedPoolMargin.cfg` | `GatherReadsItsExpert` | in a segment of 3 rows for routed sets of 2, a row is refilled under the gather of the step before |
| `PinnedStagingForeign.cfg` | `KernelsReadTheirValues` | a tile table is read on another stream, before its copy |
| `PinnedStagingCapture.cfg` | `KernelsReadTheirValues` | a table built by a capture that failed is read eagerly |

Why the bounds are enough to matter. The device cache has 2k rows and a budget of
rows - k, the least the engine's attach check admits, so that a step of all misses
meets a full cache and stalls; one more layer with its own keys makes the arena
shared. Four steps over three layers are enough for a step that repeats a layer, one
that begins above the last and is added up, and one with no request between them. Two
segments and two budgets displace a row and find it again under another segment;
segments of twice the routed set meet full arenas and stalls, and smaller ones
requests that raise half way. One slot and two engines a store make every takeover
overwrite what the other engine remembers; of the two stores one has a captured
engine next to a tiered one, which nothing in the code rules out. The ring of two
rows is full, wraps and is reused within three appends, two streams let the second
batch finish first, and one rewrite comes before, between or after a row's demotion
and its copy. In the tier two rows are fewer than the keys that two calls of two keys
ask for: claims meet reservations, the window and reclaimable rows; with three rows
and four keys a blocked call can wake to find its key resident or pending, which two
rows do not allow (its rows would fill the pool). A heap limit of two makes each heap
hold stale entries, re-file them and be rebuilt within four requests. A pinned ring
of two wraps on the third upload, when the first copy may still be queued; memos of
one entry are hit and displaced; a tile table is hit on the other stream and in a
capture; a capture fits the arena, is refused by it, or makes it grow. Two workers
give a job for one and a job for both, in either order, and five items more than a
chunk each. The counter modulo 5 does not come round within the three jobs and the
stop and restart of the run: liveness needs that (section 5); for safety the theorems
cover every modulus. Counters are bounded in guards: `MaxClock` (requests),
`MaxSteps`, `MaxRows`, `MaxVersion`, `MaxRequests`, `MaxJobs`, `MaxUploads`,
`MaxCaptures`, `MaxQueue`, `MaxHeld`, `MaxArena`, `MaxDrops`, `MaxSegments`,
`MaxItems`.

Deadlock is checked for `HaveSkip` and for `CpuPool`, which never stops but by its
counters. The others end when their bounded requests (in `PinnedStaging` also its
device memory) are used up; what must not stop is stated as `StallEnds`,
`DemotionsSettle`, `CallsEnd` and `PoolCallsEnd`.

**Fairness.** `DevRowCache`: the host thread inside a stall goes on, and the stream
executes what it was given; nothing is assumed of callers. `RowPool`: the owner keeps
calling `settle`, the streams run and the owner's writes land. `ColdTier`: a thread
in a call goes on, a read in flight lands or fails, copies get done, and the caller
gets round to reading. It is strong fairness for the threads, because a demand call
blocked in `_claim_slot` takes the lock every 30 seconds and gives it up again: the
lock is free again and again, never for good. That a thread which keeps asking for
such a lock gets it in the end is an assumption: nothing in the code holds it longer
than a pass over its tables. `CpuPool`: the operating system runs every runnable
thread, and the caller inside a call goes on; spurious wake-ups are not fair, so a
sleeper is woken by the code or never. No fairness is assumed of failures,
invalidations or new requests.

Symmetry (keys, experts, tags) is used only in runs without liveness.

Each property is paired in `PROJECT.json` with a mutant: a changed operator,
defined beside the original, that breaks it in the run's own configuration.

## 4. Proofs

Theorems about eight state machines, checked by TLAPS for every value of the constants
that the modules' named assumptions admit. None of the invariants below is inductive
by itself; each proof has a strengthened one, one lemma per action, and one step per
conjunct.

**`RowPoolProofs`**, from `RowPoolAssumption` (`DeviceRows`, `HostRows` positive, the
bounds natural numbers): every safety property of `row_pool`, whatever the owner
writes when and whichever streams are in order. The invariant `IInv` adds: the
cursors are ordered and fit the ring (`CursorsOrdered`); the tickets of a stream's
outstanding copies are distinct and above what it has executed (`TicketsOrdered`), so
that executing a copy completes exactly the next one; copies and batches lie below
the frontier; and every outstanding copy is covered by a batch of its partition whose
event is behind it on the same stream and below which no earlier batch reaches it
(`CopiesCovered`). From the last it follows that when the first batch of a partition
has fired, no copy below its mark is outstanding (`SettledBatchIsCopied`), which is
why moving the head is safe. Of the contents it says that versions only grow
(`VersionsWritten`), that an outstanding copy will read the last version unless its
row is marked `overtaken` (`CopiesReadTheLast`), and that the host has it when the
copy is done (`DemotedRowsKept`).

**`SlotArenaProofs`**, from `SlotArenaAssumption`: what the operations do to an arena
record, whoever drives it. `Sound` says that an arena has its type, that no expert
has two slots, that the records of a slot agree, and that stamps are fresh
(`Stamped`). What is hard is that the claims of a request are distinct: `Sooner` is
irreflexive and the `n`-th claim comes after those before it (`InTurn`). The loop of
claims succeeds whenever there are as many claimable slots as misses
(`ClaimsExist`, by a least counterexample: the well-foundedness of `<` on the
naturals, which the library states without an operator parameter). A demotion leaves
the active slots within the budget (`DemotionKeepsBudget`), and keeps the newest: a
slot that fewer than `Protected` active ones have overtaken is not demoted
(`NewestAreKept`).

**`DevRowCacheProofs`**, from the assumptions of `SlotArena`, `StepCensus`,
`DevRowCache` and `AttachAssumption`: every safety property of `dev_row_cache`, the
type and the generations of an arena, and that the cache implements `VramSlots`,
whose theorems therefore hold of its arena. `CInv`: the arena is sound; the step
under way is placed where it was told (`Placed`); a retiring row whose gather may not
have run is covered by a tag that is not done (`Covered`); a row about to be filled
has no reader left (`Unread`). `Room` adds the budget, and that what still retires
waits for a tag that was recorded, so that the stall, which waits for all of them,
leaves only active and claimable rows: `RoomIsEnough` then counts.

**`HaveSkipProofs`**, from `HaveSkipAssumption` (one address per hot row, every
expert of a pinned engine has a row, captured engines are pinned ones; any engines
may share a store): a pinned engine's kernels read the experts it wants, and so do a
tiered engine's where `MirrorIsKept`, that is, where no captured engine is on its
store (`SlotsCorrect`). The invariant: hot rows stay (`HotRowsStay`), the mirror of a
store's owner says what its slots hold where it is kept (`MirrorsTrue`), and an
address of a pinned engine's row, remembered by any store, has that row's bytes in
its slot (`HaveTrue`): this half is what a replay, which asks no owner, relies on,
and it needs no mirror.

**`CpuPoolProofs`**, from `CpuPoolAssumption`: every safety property of `cpu_pool`,
for any counter width. The invariant: a worker that the running job engaged and that
has not reported knows the job's word or has still to load it (`EngagedKnow`), a
worker inside the loop is engaged (`JoinersAreEngaged`), chunks are apart and behind
the cursor (`ChunksApart`), whoever reports has seen the cursor past the end
(`CursorPast`), and an item behind the cursor has been executed or is in someone's
chunk (`Progress`).

**`SegmentedPoolProofs`**, from `SlotArenaAssumption` and `SegmentedPoolAssumption`:
every invariant of `segmented_pool` and `segmented_pool_tight`. The constructor
admits segments for which less holds (section 5), so what a theorem needs beyond the
assumptions is written into its statement, and each of three invariants rests on the
one before:

* `PlaceInv`, without hypothesis: arenas are sound, `_where` covers what they hold,
  and the requests still to be made of the segments share no key and go where their
  keys are (`CallsApart`). Hence `OneSegmentPerKey`.
* `RoomInv`, under `Fits` (a segment has at least twice the rows of the routed set,
  and no request is longer than that set; so the protected share holds a request and
  leaves room for another): a segment's active slots are within its budget; what is placed and what is still to place fit it
  together (`RequestFits`); a retiring row waits for its segment's last tag or for
  one that was recorded (`TagWillBeRecorded`), although tags of the running step are
  recorded by its later requests. Hence `WaitingIsEnough`.
* `ReadInv`, under `Fits` and `SyncedShrink`: what the running request has been given
  is newer than everything else in its segments (`PlacedAreNewest`), so a later call
  of the same request demotes none of it; a row has the bytes of the expert it holds
  or its fill is due (`PublishedOrPromised`); a row that a gather in flight reads is
  active, or retiring under a tag that is not yet done (`ReadsKept`). Hence
  `RowsStayTheirGathers`.

Neither hypothesis is empty, and neither can be dropped: the run `segmented_pool`
satisfies both, `SegmentedPoolMargin.cfg` is a counterexample to the third layer
without `Fits`, and without `SyncedShrink` a buffer goes under its reader
(`SegmentedPoolShrink.cfg`) and a growth later the reader finds a new buffer in its
place. That `Fits` is enough for every instance is what the runs could not say. That
shrink spares the readers is no theorem: with the device synchronised there are none,
and without it is false.

`DevRowCacheProofs` also has, from `StepCensusAssumption` and
`DecodeStepsAssumption`, the proofs about `DecodeSteps` (`StepsSpec`): the three
invariants of `decode_steps`, for any layers, routed sets and number of steps,
whichever layers ask in each (`DemandIsOfWholeSteps`, `ReportsAreOfWholeSteps`,
`WorstStepIsSeen`). The demand of a step is a fold over the set of layers;
`SumsExist` and `SumsDiffer` say that the fold is a sum, and that changing one
layer's number changes it by the difference (least counterexamples again, over sizes
of sets), from which `DemandMoves` follows. `CensusInv`: the census's last layer is
the last that asked, its demand is that of the steps not yet set apart, and it has
nothing of layers above the last one (`Follows`), so that a layer that asks next adds
its rows and replaces none; what it reports is what the requests have set apart
(`Reports`); and every finished step is within the worst report or what is still
counted (`StepsCovered`). Nothing is assumed of which layers ask.

**`ColdTierProofs`**, from `ColdTierAssumption`
(at least one row, a budget within the rows, finitely many prefetchers, requests of
distinct keys that fit the pool): every safety property of `cold_tier`, and that the
tier implements `RowCache`. It begins with facts about sequences as sets
(appending, removing, filtering by `Only`) that the library does not state, then has
the invariant `IInv`, a lemma per action, and the properties drawn from it. `IInv`
says:

* whoever plans has the lock, and nobody else (`Locked`);
* the open batches, the reserved slots and the pending keys are the same fills, and
  no two share a key or a slot (`Filling`). `EverySlotInOnePlace` and
  `OneFillPerKey` need each other through it: a slot may be reclaimed because no
  other call can have it, and it cannot because it is reserved by this fill;
* what the locals of a call are in each phase (`PhaseOf`), and that it works on the
  keys it was asked for (`AskedOf`);
* what the demand call has resolved and does not fill itself is in its place and in
  the window, the window has nothing else, and each key asked for is resolved, to be
  planned or awaited (`Protected`). So a request is granted whole (`GrantStep`),
  and the window lets go of no granted row (`VictimDrops`);
* a reclaimable row is resident and outside the window (`Soft`);
* an outstanding copy is below the fence of its slot, or about to be fenced, or
  waited for by the call that popped the fence (`Fenced`).

`DemandServed` is a count: with nothing free, pending or evictable, the call would
hold every slot without the row it claims one for, and so have been asked for more
rows than fit. The refinement maps a published read to `Load`, a claim that evicts
and an invalidation to `Drop`, `Demote`, the end of an answered call, to `Grant`.

The last part is about the heaps, from `LazyHeapsAssumption` besides (keys are
ordered, as the tuples of the code are): the slot that a search takes is the one
`_victim_scan` would take (`VictimIsScanned`), the victims of a demotion are those of
`_demote_scan_locked` in its order (`DemotionIsScanned`), and `LazyHeaps` implements
`ColdTier` (`HeapsImplementTier`), so that all of the above holds of it. Neither
property is inductive: what makes them true is what the heaps hold between searches.
`HeapsRight` says it:

* every occupied slot has an entry of its key that ranks it no lower than it ranks now
  (`EveryRowFiled`). A touch or a resurrection only makes ranks worse, and a demotion,
  which improves one, pushes; while its loop runs the rows still to be pushed count as
  they were (`Pushed`). Hence a current entry at the top is the least of all;
* every row that may be demoted has exactly one entry of its publication, in `dheap` or
  held aside, that ranks it no lower than it ranks now, and no other row has one
  (`ActiveFiledOnce`). An entry of an earlier publication is told by its number, which
  is never used again (`InOrder`). Exactly one, because two would put a row into the
  victims twice: this is why `_dpush` returns after it has rebuilt;
* what a search holds aside may not be taken, what a demotion holds aside is in the
  window (`LoopRight`), and the victims so far rank before every row left
  (`ChosenFirst`). So an empty heap means that there is none.

`RanksCompare` and `DemotionRanksCompare` relate the number of a publication, by which
the heap breaks ties, to the insertion order of `_slot_of`, by which the scan does.

**`PinnedStagingProofs`**, from `PinnedStagingAssumption` alone: kernels read the
values they were launched with (`ValuesReach`: `OwnTablesRead`), for any streams,
requests, ring, arena and number of captures, and wherever tile tables are built; of
foreign tables nothing is claimed but that they spoil no other. What a queued kernel
will find is settled by its own queue: by the last copy before it to the memory it
reads (`Brings`), or by that memory if there is none (`Finds`). `IInv` makes this
lasting:

* `SourcesOwned`: a copy reads a slot of the ring or a slice of the arena behind the
  offset. The ring rewrites no slot that a queued copy reads (`Writable`, the event
  query); a slice once handed out is not written again, and growing leaves the old
  buffer as it is (`SliceKept`, `GrownKept`). Graphs read slices only.
* `PoolsApart`: an operation touches memory of its stream's pool, or its capture's;
  only the stream that replays touches that of finished captures. So no other queue
  can write what this one will read.
* `MemosRight`, `HeldRight`: a tensor in a memo, or held by a call, will have its
  values when the queue of its stream has run; in a capture, when the graph has.
  Hence a hit may skip the copy, and the allocator may hand out memory to which no
  entry and no call refers (`FreshIsApart`): kernels that still read it are
  earlier in the same queue.
* `QueuesRight`, `GraphsRight`: each queued kernel finds its values where it stands,
  and a graph brings all it reads, whatever memory it is replayed on.

The tile memo's key names no stream, and `MemosRight` cannot say of its entry where
it is ready. `TileRight` says it by the memory: the entry is ready on the stream
whose pool its memory is from, or in the running capture; the calls that ask from
there get a table of their own, and every other gets a foreign one.

Only model-checked: liveness (`StallEnds`, `DemotionsSettle`, `CallsEnd`,
`PoolCallsEnd`), which is out of the prover's reach.

## 5. What the models showed

* `cold_tier_own_fill`: a demand call waiting in `_claim_slot` picks the oldest
  pending event, which may be that of a row it has itself reserved and cannot
  submit before its plan ends; it then sleeps 30 seconds (`nvme_residency.py:693`).
  `CallsEnd` holds because the wait times out.
* `SegmentedPoolMargin.cfg`: the pool takes segments smaller than two requests. Its
  guard (`segmented_pool.py:37`) joins two conditions with `and` and refuses a segment
  of one row only; the margin rule that a comment there leaves to `DevRowCache` is a
  check of the engine's (`mxfp4_residency.py:548`), which the pool never meets. It
  makes a request per miss, all under one tag. The second of a step finds the tag
  unrecorded, records it before the gather is issued, and *demotes* the row of the
  first; a request of the *next* step takes the tag for done and refills that row,
  while the first gather may still be reading it. That needs a caller that records
  behind its gather and waits for nothing, as the engine does with a single cache
  (`mxfp4_residency.py:662`); no caller of the pool is caught by it today, because the
  dry steps of the benches synchronise before they record
  (`p2_g4_tribrid.py:254`, `p2_g3_elastic.py:77`) and their segments have 64 rows. With
  twice the routed set it cannot happen: `RowsStayTheirGathers`.
* `SegmentedPoolShrink.cfg`: `shrink` waits for the segment's last tag
  (`segmented_pool.py:174`), which a later request of the step may have recorded before
  the gather was issued. The bench that shrinks synchronises the device first, which
  is what `SyncedShrink` assumes; its docstring does not ask for it.
* `DecodeStepsMerged.cfg`: the census recognises a new step by a layer index that does
  not increase (`dev_row_cache.py:244`), although layers without cold experts do not
  ask. A step that begins above the layer on which the one before ended is added to it,
  so the demand is not of the current step only. What it is, whole steps and never too
  few rows, is proved.
* `HaveSkipReplay.cfg`: a captured decode step replays without `_claim`
  (`mxfp4_pipelined.py:337`), so the owner of a shared store is not told. A tiered
  engine on that store keeps its mirror and computes with the pinned layer's bytes.
  `SlotStore.check` compares the geometry only.
* `PinnedStagingForeign.cfg`, `PinnedStagingCapture.cfg`: `build_group_tiles` keeps
  tables in a memo whose key has no stream, and asks and fills it under capture
  (`nf4_grouped.py:800`): a table is read before another stream has run its copy, or
  after the capture that should have written it has failed.
* `RowPoolUnordered.cfg`, `RowPoolLate.cfg`: `demote_head` does not make its stream
  wait for the owner's writes (`row_pool.py:172`), and `row_view` still hands out a
  demoted row (`row_pool.py:130`): a copy may come before a write, and what settle
  publishes is then not what was written. Rows whose writes all come before their
  copies are right (`OrderedRowsIntact`).
* The counter of the CPU pool can come round while a worker is held up
  (`cpu_kernels.c:174` says it cannot): nothing bounds the words published for
  others meanwhile. Safety does not depend on it, as the theorems show; that the
  worker notices does, and `cpu_pool` takes a modulus above its words.
* Two benches record every tag before the kernels that read the rows
  (`p2_g3_elastic.py:158`, `p2_g4_tribrid.py:306`).
* Comments: a claim from the free list does not bump the generation
  (`nvme_residency.py:710`), which is harmless; an invalidated reclaimable row is a
  logical eviction that resolves neither way (`nvme_residency.py:202`, `:980`); the
  pool of segments has no pool-wide LRU (`segmented_pool.py:17`); `to_device_i32` is
  not pageable by default (`nf4_grouped.py:637`).

## 6. Not modelled

Most of the repository's lines: Triton and C kernels, quantised formats, paged
attention, training, loaders, bindings, benchmarks and the scripts that check
documents. They keep no state that outlives a call, or what matters of them is
floating point; their control is a choice of launch parameters. Arena bake is
sequential file I/O.

Of the parts that are modelled: in the tier, counters, timing, external landings
and `cold_cpu_view.py`, dtype casts, and `BaseException`s other than a failing read or
submission (an interrupt in the middle of the drain). In the device cache, counters;
its fill is one step per row and synchronous, as the default stream makes it look to
the host, and that its promise does not need the fill to be ordered behind the
readers makes the model the stricter one. In the engine, geometry and traffic
counters. In the uploads, the device-built tile tables. In the CPU pool, worker
placement and the length of the spin. The reader's resume after a short read is
arithmetic on the offsets of one call, which its tests reach.

## 7. Plan

Done, in this order: the allocator; the census and the device cache; the row pool;
the cold tier and its refinement; the heaps; the segmented pool; the engine's slots;
the CPU pool; the uploads; the proofs of section 4.

Left: the tier's external landing with the CPU view; the reader's resume and the
tile tables as pure algorithms.
