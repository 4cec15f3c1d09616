# Fluxfer: a TLA+ model of the hybrid hierarchical prefix cache

Fluxfer is a modified SGLang server. It keeps the KV cache of finished and
running requests in a radix tree whose pages live in device memory (HBM), in
host memory (DRAM) or in both, and optionally in a storage backend (L3). This
directory models the server in the configuration it is run in: hierarchical
cache on, hybrid I/O backend, write-through policy with a threshold of one hit,
page size 16, one rank, FCFS, no chunked prefill. Paths below are relative to
`src/python/sglang/srt/`.

## The system and its parts

One scheduler thread runs an event loop. In each iteration it receives requests,
polls the acknowledgement queues of the transfers (`check_hicache_events`), forms
a prefill batch or takes the running batch, launches it on the forward stream and
processes a result: the one of this batch (`event_loop_normal`) or of the last
one (`event_loop_overlap`). The pages of a prefill batch that are on the host
only are copied by the load stream, some as full blocks before the batch starts
(the preload), the others layer by layer while it runs. Three more threads move
pages between the host and the storage backend.

| part | source | model |
|---|---|---|
| radix tree, locks, eviction, backup, load-back, demotion | `mem_cache/hiradix_cache.py`, `radix_cache.py` | `HiRadixCache` |
| admission (`PrefillAdder.add_one_req`) and one batch-forming pass | `managers/schedule_policy.py`, `scheduler.py` | `HiRadixCache` |
| prefill, decode, retraction, release of a request's pages | `managers/schedule_batch.py`, `mem_cache/common.py` | `HiRadixCache` |
| device page allocator, host page pool | `mem_cache/allocator.py`, `memory_pool_host.py` | `free`, `Alloc`, `hostFree` of `HiRadixCache` |
| idle check | `managers/scheduler_runtime_checker_mixin.py` | `OnIdle` of `HiRadixCache` |
| ring of layer events, load stream, acknowledgements | `managers/cache_controller.py` | `LayerLoads` |
| event loops, bubble filling, abort, pause, flush | `managers/scheduler.py`, `scheduler_output_processor_mixin.py` | `BatchLoop`, which extends `LayerLoads` and implements `RequestLife` |
| balanced batch formation (BBF) | `managers/scheduler.py` | `BalancedBatch` |
| prefill event recorder, transfer measurements | `mem_cache/online_prefill_cost.py`, `managers/cache_controller.py`, `tp_worker.py` | `Measurements` |
| split of a batch between preload and layer-wise copy | `mem_cache/online_prefill_cost.py`, `managers/cache_controller.py` | `PreloadPlan` |
| L3 prefetch and backup | `mem_cache/hiradix_cache.py`, `managers/cache_controller.py` | `StoragePrefetch` |

The modules divide the state between them. What the cache does to pages while a
request is admitted, decodes or is retracted is `HiRadixCache`'s; for `BatchLoop`
these are choices, and it keeps which batch a request is in and which copies and
forward passes are in flight. `BalancedBatch` zooms into one batch-forming pass,
`PreloadPlan` and `Measurements` into the preparation of one load and what is
learnt from it, `StoragePrefetch` into the host tier and the threads behind it.

## HiRadixCache

A tree node is named by the page-aligned token prefix at which it ends.
`Anc[p]` is the set of non-empty prefixes of `p`; tokens are not modelled. The
pages of a node are the prefixes between its parent and itself (`Seg`), and the
state is kept per page: its device page (`dev`), whether it has a host copy
(`backed`) and the `lock_ref` of its node (`lockRef`). Splitting a node adds
its upper end to `nodes` and, as in `_split_node`, changes no page and no
count. The page table row of a request (`req_to_token`) is `kv[r]`, with the
partly filled last page in `tail[r]`; `prot[r]` is `cache_protected_len` and
`lastNode[r]` is `last_node`.

Handlers that loop are several steps under `ctl` (what comes next), `ret` (where
a loop returns to) and locals. No other handler starts while `ctl` is not
`"idle"`: there is one scheduler thread. What does interleave, at every point
between two handlers, is the completion of transfers, arrivals, aborts, and
which request the scheduler turns to.

| actions | code |
|---|---|
| `Arrive`, `AbortWaiting` | `process_input_requests`, `abort_request` |
| `MatchPrefix`, `AddRefused`, `AddOneReq`, `LoadBack`, `Admit`, `AdmitRefused` | one candidate of `_get_new_batch_prefill_raw`: `init_next_round_input`, `add_one_req`, `load_back` |
| `StartBatch`, `PrepareForExtend` | `ready_to_load_host_cache`, `alloc_for_extend` |
| `CacheUnfinished`, `FreeDuplicates`, `Relock` | `cache_unfinished_req` after a prefill |
| `Finish`, `ReleaseFinished` | `release_kv_cache`, `cache_finished_req` |
| `CheckDecodeMem`, `DecodeFits`, `AllocForDecode` | `update_running_batch`, `alloc_for_decode` |
| `RetractDecode`, `ReleaseRetracted`, `Shrink`, `Recheck` | `retract_decode`, `release_req` |
| `WriteBackup` | one `write_backup` of `_inc_hit_count`, with its host eviction |
| `Evict` | `evict` |
| `DemoteTail`, `DrainPending` | the two demotion loops at the end of a release |
| `WritingCheck`, `LoadingCheck`, `LoadingCheckDone` | `writing_check`, `_drain_load_back_acks` |
| `OnIdle` | `flush_hicache_events_on_idle` |

Choices the model leaves open, each covering more than one outcome of the code:
which request of the waiting queue is tried next; which nodes of one round of
the eviction heap go first (the LRU order is a function of clocks); the order in
which `hybrid_pending_device_demotions`, a Python set, is drained; which request
is retracted; how many tokens the requests of a batch add to a partly filled
page. `InBudget` reads the token budget of `add_one_req` in pages and in its
most permissive form, and `AddRefused` may refuse whenever a running or an added
request could be the reason.

Assumptions on the constants: prefixes form a forest (`PathsAssumption`); a
request's output extends its prompt (`RequestsAssumption`); the host pool is
larger than the device pool (`PoolsAssumption`, the check in `HostKVCache`).
Every prompt is taken to end inside a page, so that each request has a partly
filled page. The module runs the normal event loop.

## LayerLoads, BatchLoop and RequestLife

A CUDA event is represented by its pending record: it is ready when the load
stream holds no record of it. So waiting for an event waits for its latest
record, which is what makes reuse of the three `LayerLoadingEvent`s of the ring
delicate. `stream` is what the load stream has still to do, one element per layer
of a load, and layer 0 for `preload_finish_event`; `acks` is `ack_load_queue`.

`BatchLoop` is one iteration of the event loop in steps: `process_input_requests`
(`Arrive`, `AbortOne`, `AbortAll`, `PauseInPlace`, `PauseRetract`, `FlushCache`,
`EndInput`), then `MergeLast`, `FormBatch`, `LoadBatch` and `ChooseBatch`
(`get_next_batch_to_run` with bubble filling and `update_running_batch`), `Launch`
(`run_batch`) and `EndIteration` (`process_batch_result`). `CopyLayer` and
`ComputeLayer` are the two streams. The batches the scheduler can reach are
`running`, `last` (also `cur_batch`), `pending`
(`hybrid_bubble_pending_prefill_batch`) and `batch`; `results` holds the launched
forward passes whose result has not been processed, each with the layers it
waits for. `overlap` chooses the loop and never changes. Whether a request fits, how it
is loaded, when a token is a stop token and when memory runs out are choices.

`RequestLife` is what the scheduler promises about each request: it arrives once,
is queued and served by turns, and leaves once, finished or returned.
`LifeSpec` says that `BatchLoop` implements it, under the mapping that reads a
request's phase off the queue and the batches it is in.

## BalancedBatch

The pass `_form_hybrid_balanced_prefill_batch`. A request matches a path of tree
segments that are all on the host, those on the device being a prefix of it.
`stack` holds the active scans, since an admission starts a nested scan for its
bundle (`AdmitBalanced`, `AdmitStarved`, `Skip`, `Deprioritize`, `Refuse`,
`HardStop`, `EndScan`), then `Backfill` and `Run`. Loads may fail, and each load
may evict any unlocked segments from the leaves up, also when it fails. How much
memory there is, and when a request counts as starved, is left open.

## Measurements and PreloadPlan

`Measurements` is the recorder of layer times and the measurements of transfers
with their two pools of reusable event pairs. A pair is named by a number,
`stamp` says which batch's work it last timed, and time itself is left out. The
loop collects at its top and in `prepare_online_hybrid_batch`, whose second
collection happens inside `recorder.prepare`. `PreloadPlan` is the arithmetic of
the split: the pages of each path, the budget handed to the operations one after
the other, and the tokens `start_loading` submits on each path. The measured
estimate that chooses the split may be any number of pages.

## StoragePrefetch

Four threads share host pages: the scheduler's, which issues, polls, settles and
aborts prefetches and queues backups; `PrefetchThread`, which asks the backend
what it has, revokes an operation or trims it; the I/O thread (`IoTake`,
`IoWrite`, `IoIncrement`, `IoFinish`), which fills page after page and counts
each; and `BackupThread`. The host tier is a map from paths to host pages, one
node per page, and `data` says which prefix's KV a host page holds, so a page
written under the wrong owner is visible. Reads and writes of the backend may
fail. All lengths are in pages.


## Runs

| run | instance | checks |
|---|---|---|
| `shared_prefix` (`MCHiRadixCache`, `MCSharedPrefix.cfg`) | two requests over prompts `a` (generating one more page, `ab`) and `ac`; 5 device pages, 6 host pages; fairness; 117,018 states | `TypeOK`, `LocksAreExact`, `PageTableSound`, `PagesHaveOneOwner`, `SizesAreExact`, `LeavesAreExact`, `AllocationsFit`, `LockedPagesStay`, `QuietServerSettles` |
| `host_eviction` (`MCHiRadixCache`, `MCHostEviction.cfg`) | one request at a time over prompts `ab`, `ac`, `d`, `ef`; 4 device pages, 5 host pages; 23,448 states | `TiersArePrefixes`, `RadixShape`, `HostIsComplete` |
| `output_cached` (`MCHiRadixCache`, `MCOutputCached.cfg`) | prompt `a` generating `ab`, and prompt `ab` | `DecodePagesAreNotCached`, violated |
| `marked` (`MCHiRadixCache`, `MCMarked.cfg`) | as `shared_prefix` | `MarkedNodesAreDemoted`, violated |
| `loop` (`MCBatchLoop`, `MCLoop.cfg`) | both loops, two requests, two layers, two control requests of any kind; 1,016,336 states up to symmetry | `InOnePlace`, `LoadedBeforeUse`, `ProducerReady`, `IdleIsQuiet`, `StaleResultsAreDropped`, `LifeSpec` |
| `loop_live` (`MCBatchLoop`, `MCLoopLive.cfg`) | both loops, two requests, one layer, one abort, in-place pause or flush; fairness; 294,405 states | `FullMeansServing`, `EveryRequestLeaves`, `LoadsAreAcknowledged` |
| `balanced` (`MCBalancedBatch`, `MCBalanced.cfg`) | four requests, three segments of which one is shared, three slots; fairness; 26,006 states | `PickedOnce`, `NobodyIsLeft`, `LoadedStays`, `RatioIsKept`, `EveryRequestIsAdmitted` |
| `balanced_bundle` (`MCBalancedBatch`, `MCBalancedBundle.cfg`) | three of these requests | `BundleHitsComeFirst`, violated |
| `measured` (`MCMeasurements`, `MCMeasured.cfg`) | three batches, two layers, model instrumented or not; fairness; 60,903 states | `PairsHaveOneUse`, `TimesAreOfTheirBatch`, `RecordedIsRun`, `EveryMeasurementSettles` |
| `plan` (`MCPreloadPlan`, `MCPlan.cfg`) | up to three operations of up to five tokens, pages of two; 13,971 states | `EveryTokenIsSentOnce`, `BudgetIsSpent` |
| `prefetch` (`MCStoragePrefetch`, `MCPrefetch.cfg`) | policy `timeout`, requests `ab` and `c`, 2 host pages, two operations; 774,967 states | `NoPageIsShared`, `TreeHoldsItsData`, `HostRefsAreExact`, `AnchorsStay`, `StorageHoldsItsData` |
| `prefetch_wait` (`MCStoragePrefetch`, `MCPrefetchWait.cfg`) | policy `wait_complete`, requests `ab` and `a`, 4 host pages; fairness; 43,735 states | `NoPageIsLost`, `EveryPrefetchEnds`, `EveryPageComesBack` |

What the properties of the cache say:

- `TiersArePrefixes`: on every path, what is on the device is a prefix and what
  is on the host is a prefix. Backups, evictions, demotions, refills by a
  request's own pages and load-backs each keep one half of this locally; it is
  their interleaving that is checked.
- `RadixShape`: no node straddles a branching point.
- `LocksAreExact`: `lock_ref` is exactly the number of holders. A leak shows as
  a page that can never be evicted, a double release as a page that can be
  evicted under a running request.
- `LockedPagesStay`: a page keeps its device page for as long as it is locked.
- `PageTableSound`: up to the protected length the page table shows the tree's
  pages.
- `PagesHaveOneOwner`: between handlers each device page is free, in the tree
  once, or owned by one request.
- `SizesAreExact`, `LeavesAreExact`: the incrementally kept `evictable_size_`,
  `protected_size_` and leaf sets agree with the tree.
- `HostIsComplete`: between handlers each cached page has a host copy, and host
  pages are neither lost nor counted twice.
- `AllocationsFit`: what admission promised is there when it is allocated; the
  code raises otherwise.
- `QuietServerSettles`: once no request is left, all transfers are acknowledged,
  all locks released, and no pending demotion leaves its page on the device.

Of the loop:

- `LoadedBeforeUse`: no forward pass computes a layer while a page of one of its
  requests is still to be copied for it. `ProducerReady`: `start_loading` never
  takes a slot of the ring whose load is running.
- `IdleIsQuiet`: when a flush finds the server idle, no batch is put aside, no
  forward pass is launched and no copy is left, though `is_fully_idle` looks at
  none of the three.
- `StaleResultsAreDropped`: a token computed before a retraction is never counted
  after it, though the overlapped loop processes results one iteration late and a
  new admission clears `is_retracted`.
- `InOnePlace`, `LifeSpec`, `EveryRequestLeaves`: no request is in two batches,
  none is lost or comes back, and each one leaves.
- `FullMeansServing`: `batch_is_full`, which stops admission, is never left set
  with nobody being served. `LoadsAreAcknowledged`: the pages a load protects are
  released.

Of batch formation and measurement:

- `PickedOnce`, `NobodyIsLeft`, `EveryRequestIsAdmitted`: through nested scans a
  request is picked once; a pass nothing stopped leaves nobody behind; nobody is
  starved by the ratio.
- `RatioIsKept`, `LoadedStays`: the ratio holds for what was really loaded, and a
  later load of the pass does not evict it.
- `PairsHaveOneUse`, `TimesAreOfTheirBatch`, `RecordedIsRun`: event pairs are
  neither lost nor shared, and a collected time is of its own batch, also when
  the batch was put aside. `EveryMeasurementSettles`: it is collected.
- `EveryTokenIsSentOnce`, `BudgetIsSpent`: no token is copied twice or not at all
  when an operation ends inside a page, and the preload is the budget exactly.

Of the storage tier:

- `NoPageIsShared`, `NoPageIsLost`, `EveryPageComesBack`: each part of an
  operation's `host_indices` is given back, freed or inserted by exactly one of
  the three threads that share it.
- `TreeHoldsItsData`, `StorageHoldsItsData`: the tree and the backend never show
  another prefix's KV, although the I/O thread writes into pages of operations
  already given up, and the backup thread reads pages queued long before.
- `AnchorsStay`, `HostRefsAreExact`: the node a prefetch will be inserted below
  is not evicted, and every protection is released once.
- `EveryPrefetchEnds`: no request waits for its prefetch for ever.

### Disagreements with the comments and the documentation

Three runs show one each:

- `output_cached`: a retracted request is matched again over its prompt and its
  output. If another request's prompt covers that output, the row holds the
  tree's pages past the request's own prompt. `cache_finished_req` frees all of
  them, with the comment that they "were never inserted into the radix cache"
  (`hiradix_cache.py:836-838`). `shared_prefix` has no such pair of prompts,
  which is why `PagesHaveOneOwner` holds there.
- `marked`: `_try_hybrid_demote_device_node` drops a node from the pending set
  when it finds a child on the device. The set has no order, so a parent can be
  tried before its child, and it then stays on the device. The comment at
  `hiradix_cache.py:738-740` says that the final state is "DRAM-only".
- `balanced_bundle`: candidates of a bundle scan are matched after the anchor's
  `load_back` has made the shared nodes resident, so a request that shares only
  these is no hit. The docstring (`scheduler.py:1430-1432`) says that requests
  which "share the admitted request's host-cache segments" are admitted first.

The models show eight more; the change to a `.cfg` that makes TLC print the
behaviour is given in brackets.

- A retracting pause merges the last batch without resetting `batch_is_full` when
  it shrank, and resets it only if something runs (`scheduler.py:4203-4231`,
  unlike 3005-3006). If the last batch has finished and nothing runs, nobody is
  admitted again. [`loop_live` with `Controls = {"retract"}`: `FullMeansServing`]
- `abort_request` does not look at the batch put aside for bubble filling
  (`scheduler.py:4167-4170`), although `abort_all` is "Whether to abort all
  requests" (`io_struct.py:1665`). [`loop` with the property `AbortReachesAll`]
- After a retracting pause the waiting queue is not empty, so the server is not
  idle and refuses the flush that `io_struct.py:1368-1369` promises ("The KV cache
  can be flushed in this mode"). [`loop` with the property `RetractedIsFlushable`]
- A decode batch passes on the consumer index of the prefill it came from
  (`schedule_batch.py:2600`). When the ring has come round, the batch that fills
  the bubble waits for the load it should hide. [`loop` with `Layers = 1`,
  `MaxTokens = 6`, `MaxRetracts = 2`, `Controls = {}`: `FillerDoesNotWait`]
- Nothing applies the minimum below which a "Hybrid H2D preload should only run"
  (`scheduler.py:266-268`); the two functions that would have no caller. [`plan`
  with `PreloadNeedsCompute`]
- With a short host pool `prefetch_from_storage` cuts `host_indices` but not the
  key of the operation (`hiradix_cache.py:1591-1606`). The I/O thread then indexes
  past the end, and ends, since it catches only `Empty`; under `wait_complete` the
  request waits for ever. [`prefetch_wait` with `NumPages = 1`:
  `EveryPrefetchEnds`]
- The revoke queue carries request ids. A late revoke of a terminated operation
  pops the entry of the same request's next prefetch (`hiradix_cache.py:519-527`),
  whose pages then belong to nobody. [`prefetch_wait` with
  `StopPolicy = "best_effort"`: `NoPageIsLost`, or `NoEntryMeansOver`]
- `is_fully_idle` does not see a prefetch whose entry is gone but which a storage
  thread still has, or pages on their way back (`scheduler.py:3858-3866`).
  [`prefetch` with `IdleMeansDrained`]

### Bounds

Two requests suffice for the two-party hazards of the cache: a duplicate prompt,
a split under another's lock, an eviction between another's match and its
load-back, a retraction with a survivor. Five device pages is what makes
admission, decode and load-back compete: two requests with their partial pages
need more than five. `host_eviction` has one device page and one host page less
than the four prompts need, so host-only nodes must be deleted. No counter is
capped; the state space is finite since every transfer holds a distinct node.

`BatchLoop`: two requests in two slots give a running batch, a batch put aside
and a batch whose result is pending at once; two layers are needed for a layer to
be computed while a later one is copied. `MaxRetracts` and `MaxControls` bound
what would otherwise repeat for ever; two controls allow a pause and then a flush,
or an abort and then a retraction. Requests are interchangeable there, which
justifies the symmetry; it is not used with liveness.

`BalancedBatch`: a shared segment, its extension, an unrelated one and a request
that loads nothing are the kinds of candidates the pass tells apart.
`Measurements`: `MaxBatches` of three has one batch computing, one put aside or
loading, and one that reuses their pairs. `StoragePrefetch`: `MaxOps` bounds the
prefetches; two are a request and its successor, or two requests. Two host pages
for three prompts' pages make eviction and short pools happen, four exclude them.

Deadlock is checked in every run but `plan`, whose computation ends.

### Fairness

`HiRadixCache`: weak fairness of the steps inside a handler (the scheduler thread
does not stop), of the two polls of acknowledgement queues (each iteration polls,
and a transfer completes) and of the idle flush. Arrivals, aborts, decode steps
and the ends of requests get none; `QuietServerSettles` is conditional on the
requests ending.

`BatchLoop`: weak fairness of the loop, of both streams, and of
`ContinueGeneration`: whoever pauses the engine continues it. Inputs get none.
That each request ends is due to `MaxTokens`. `BalancedBatch`: weak fairness of
the pass and of some running request finishing. `Measurements`: of the loop and
both streams. `StoragePrefetch`: weak fairness of the storage threads and of the
passes, and strong fairness of admitting a request whose prefetch may stop: every
pass asks, and the requests before it leave their memory in the end.

## Proofs

TLAPS proves, for every forest of prefixes, set of requests and pool sizes that
meet the three assumptions of `HiRadixCache`, that the properties in this table
are invariants (or action properties) of its `Spec`. They are in
`HiRadixTheorems`.

| theorem | property |
|---|---|
| `CacheIsSound` | the inductive invariant `Control /\ CacheInv` |
| `TypesAreCorrect` | `TypeOK` |
| `LocksAreAlwaysExact` | `LocksAreExact` |
| `LockedIsAlwaysOnDevice` | `LockedOnDevice`: a locked page is on the device |
| `LockedPagesAlwaysStay` | `LockedPagesStay` |
| `TiersAreAlwaysPrefixes` | `TiersArePrefixes` |
| `ShapeIsAlwaysRadix` | `RadixShape` |
| `PageTablesAreAlwaysSound` | `PageTableSound` |
| `LoadsAreAlwaysStarted` | `LoadsAreStarted`: no handler ends with a load-back left in the queue |

`HiRadixInvariant` defines the invariant. The proofs build on each other:

1. `HiRadixTreeProofs`: constant-level lemmas about sets of nodes. `Shape(N)`
   says that `N` is a radix tree, `Whole(N, S)` that a set of pages `S` consists
   of whole nodes and is a prefix of each path. Splitting, adding a leaf,
   removing leaves and cutting a tier at a node keep both.
2. `HiRadixLockProofs`: counting locks, and the step of `TryDemote`.
3. `HiRadixControlProofs`: the control invariant `Control` (which request each
   label of `ctl` works for, where each loop returns, what a request in each
   phase holds) and the types.
4. `HiRadixTransferProofs`: one lemma per action that inserts, backs up, loads,
   evicts or demotes.
5. `HiRadixRequestProofs`: one lemma per action on a request's pages, and the
   acknowledgements.
6. `HiRadixTheorems`: the steps combined, and the theorems.

The counting lemmas take the facts they need about finite sets as a hypothesis,
`Counting`, which mentions constants only. Its proof needs the library's
theorems about cardinality, which slow down every proof in their reach, so it is
given once, in `HiRadixTheorems`, and discharges the hypothesis there.

The properties do not prove themselves. Tiers are prefixes only because a page
that leaves the device is unlocked, locks are monotone along a path only because
they are counts of holders, and holders exist only if eviction and deletion skip
locked nodes; and an unlocked node may be locked by the very loop that is
evicting. So `CacheInv` is the conjunction of

- `TreeInv`: tiers are whole nodes, and each node is on some tier;
- `LockInv`: `lockRef` is the count of holders, a holder's node is in the tree
  and on the device, a transfer's node also on the host, and no transfer is in
  two queues at once;
- `TableInv`: page tables show the tree's pages up to the protected length and
  the request's own pages past it;
- `LoopInv`: what a handler established before a loop is still true after it
  (the nodes to back up are on the device and not backed, the match of the
  request under admission ends at a node, the prompt just inserted is still
  resident).

It is inductive together with `Control`.

Only model-checked: `PagesHaveOneOwner`, which does not hold for all prompts (see
`output_cached`); `SizesAreExact`, `LeavesAreExact`, `HostIsComplete` and
`AllocationsFit`, whose proofs need sums of cardinalities over the tree; the
properties of the other modules; and all liveness properties, which are out of the
prover's reach.

## Not modelled

- Chunked prefill, where a request is prefilled over several batches: the cache
  and the loop have no chunked request.
- The product of the overlapped loop and the cache's pages. In the overlapped
  loop a request's pages are freed when its last token is processed, while the
  next decode step, already launched, writes one of them; `HiRadixCache` runs the
  normal loop and `BatchLoop` has no pages. The product is beyond exhaustive
  checking.
- The values of the cost estimate (the rings and buckets of the synopsis):
  averages of floating-point measurements, of which `PreloadPlan` allows any.
- `reset`, attaching and detaching a storage backend, zero-copy transfers, the
  agreement between tensor-parallel ranks, and the write policies other than
  hybrid write-through.
- The order in which the allocator hands out free pages.
- GPU kernels and memory layouts (pure copies), the caches for other model
  families, LoRA, disaggregation and preemption (not part of the served
  configuration), the trace replayer and the gateway (outside the server).
