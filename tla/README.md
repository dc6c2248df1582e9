# Verification of xllm's serving core

TLA+ models of the parts of xllm (`src/xllm/core`) that decide which KV-cache
memory holds which tokens, which request runs, and what happens when calls,
threads and devices fail or come late; TLC runs over small instances of them;
and TLAPS proofs of the invariants that matter most, for every instance.
`PROJECT.json` maps every definition to the lines it stands for and lists the
runs, mutants, hazards, findings and theorems.

## 1. The system

xllm is an LLM inference server.  A *master* accepts requests; a *scheduler*
thread puts sequences into batches and owns the KV-cache *block managers*; an
*engine* sends each batch to *workers* (one per device), which run the model.
Workers form data-parallel groups, and inside one a grid of tensor-parallel by
context-parallel ranks.  With prefill/decode disaggregation a prefill instance
pushes the KV of a prompt to a decode instance.  A host cache and a Mooncake
store extend the device cache.  Experts of MoE layers move between devices to
balance load, and several models may share a device's pages.

| Component | State | Operations | Interacts with | What makes it correct |
|---|---|---|---|---|
| KV leaf (`block_manager_impl`, `block`, `prefix_cache`) | free list, usage flags, reference counters, hash index, LRU list, evictable counter | allocate, free, match, insert, evict, reset | re-entered by `Block`'s destructor; called by the composite | exact counters; nothing handed out twice; an in-use prefix is never evicted |
| Pool and composite (`block_manager_pool`, `composite_block_manager`), `KVCacheState` | block table, shared count, publish cursor, cached-token count per sequence | allocate_shared, allocate, cache, deallocate | scheduler policies, batch builder | a sequence's cached KV is the KV of its own tokens |
| Scheduler policies and queues | prefill, decode and unified queues, batch | schedule, preempt, finish | pool, response processor | no starvation; nothing lost or run twice |
| Continuous scheduler | request queue, reservation counter, previous batch (overlap), pause state | add_request, step, pause, resume | policies, engine, store prefetch | capacity bound; every request answered once; a paused scheduler holds nothing |
| KV push (`kv_transfer_completion`, `kv_transfer_failure`) | futures, tracker, failed ids | add, wait, drain, reduce | workers of the grid, engine | source blocks outlive pushes; a lost push fails its request |
| Disaggregated PD (`disagg_pd_scheduler`, `disagg_pd_service_impl`) | dispatch queue, reservations, tombstones, link epochs, release tasks | dispatch, first generation, release, link, unlink | brpc, pool, KV push | KV lands in its own reservation; no reservation is forgotten |
| Store prefetch (`prefetch_result`, `worker_prefetch_session`, `comm_channel`) | per-worker progress, session state, stream ends | start, run_batch, control, close, shutdown | brpc streams, thread pools, host pool | only complete prefixes are published; everything ends and is reported once |
| XTensor pages (`page_allocator`) | page lists per model, used count, preallocation thread | allocate, free, trim, sleep, wake | block manager, worker broadcasts | a page is in one place; the device is not overcommitted |
| EPLB (`eplb_manager`, `eplb_policy`, `eplb_executor`) | placements, tokens, round state, staged weights | rebalance, prepare, activate | engine, workers | all ranks switch at the same step, to the plan the manager proposed |
| Host hierarchy | host tables, offload and load queues | offload, restore | pool, transfer streams | a restored block is the offloaded one |

Hard behaviours: reference-counted blocks that change hands between sequences
and the cache inside one handler; publishing before the KV is written; futures
that outlive their timeout; collectives on crossing groups; stream callbacks,
pool threads, timeouts and teardown racing over one session; remote calls that
are lost, late or repeated; a schedule that runs ahead of the results; mapping
outside the mutex that accounts for it.  The hazards list of `PROJECT.json`
gives each at its line.

## 2. Plan

| | Module | State |
|---|---|---|
| 1 | `BlockManagerImpl`, `FlatKvPool` | modelled, checked, proved |
| 2 | `KvPushCompletion` | modelled, checked, proved |
| 3 | `StorePrefetch` | modelled, checked, all but liveness proved |
| 4 | `ContinuousScheduler` (loop, two policies, pause), implementing the abstract `RequestService` | modelled, checked; all but liveness proved for the prefill-first policy |
| 5 | `PageAllocator` | modelled, checked, proved |
| 6 | `EplbManager` | modelled, checked, all but liveness proved |
| 7 | `DisaggPD` | modelled, checked, all but liveness proved |
| 8 | `FlatKvPoolLru`: the LRU list, implementing `FlatKvPool`, whose eviction picks any unshared node | left |
| 9 | `HierarchyBlockManagerPool`: offload and restore, the host side of `StorePrefetch`; the other block managers | left |
| 10 | Pure algorithms against reference definitions: composite trimming for SWA_COMPRESSED and FLAT_KV_LINEAR, the reshard planner | left |
| 11 | `ThreadPool`, `EncoderCache`; PULL mode and the co-location scheduler in `DisaggPD`; chunked prefill and `DecodeFirstPolicy` in `ContinuousScheduler` | left |
| 12 | Theorems: `ContinuousScheduler` under the unified policy | left |

## 3. The modules

### BlockManagerImpl

One leaf as a record `p`.  `allocate`, `free`, `claim` (the writing half of
`match`), `insert` and `evict` map a leaf to a leaf, so a handler is a
composition of them in the code's order.  `p.ok` is the conjunction of the
`CHECK`s passed so far.  An operation is one step because the leaf is used by
one scheduler thread or behind `ConcurrentBlockManagerImpl`'s recursive mutex.
Abstracted: LRU order (victims are any set of unshared nodes of the right size,
which includes LRU's choice), and hashes, which are the token prefix they were
computed from (XXH3-128 is assumed free of collisions).

### FlatKvPool

| Action | Code |
|---|---|
| `allocate_shared` | `SchedulerPolicy::allocate_shared_blocks_for` -> `BlockManagerPool::allocate_shared` -> `CompositeBlockManager::allocate_shared_for_sequence` -> `PrefixCache::match`, `KVCacheState::add_shared_blocks` |
| `Allocate`, `AllocateFails` | `BlockManagerPool::allocate` -> `cache_full_blocks_for_sequence`, `allocate_sequence`, `has_enough_blocks`/`evict`; for a scheduled prefill also `cache_in_batch_prefix` |
| `Cache` | `BlockManagerPool::cache` |
| `Forward` | batch build (`setup_kv_cache_info`) and the model's writes, then `append_token` |
| `Preempt`, `Finish` | `BlockManagerPool::deallocate` from the decode loop, from `collect_finished` |
| `ResetPrefixCache` | `BlockManagerPool::reset_prefix_cache` |

`Text[s]` fixes what `s` will read and generate, so that a preempted or repeated
request has the same tokens; two sequences that share a prefix of it can share
blocks.  `data` is the content of the device slots; the KV of a position is the
token prefix that determines it.  A sequence that allocates may be left out of
the batch ("idle": another sequence of its request did not fit).  Sequences in
the batch being assembled are not preempted before the forward pass, as in the
policies.  With schedule overlap the scheduler runs ahead of the device; the
device stream keeps the order of steps, so counting tokens at the forward pass
loses no state the pool can see.  `Lookahead = 1` is the MTP hasher.

### KvPushCompletion

One step of one DP group: ranks in a TP x CP grid, each with its transfer future
running beside the forward pass.  `Collect`/`WaitTimeout`/`Drained`/
`DrainTimeout` are the branches of `KVTransferCompletion::wait`; `Gather` walks
the four all-gathers of `reduce_failed_request_ids` (request sets over TP, over
CP; bitmaps over TP, over CP); `Report` is `LLMEngine` reading the driver.  A
transfer may end at any time, with any subset delivered, or never.

### StorePrefetch

One request's prefetch.  A step is one section under a mutex or one callback:
`finish()` is two steps (`finish`, `FinishClose`) because it drops its lock
around the stream close, `run_batch()` is three, and `start()` and
`schedule_batch()` are separate.  brpc is external and taken as: frames arrive
in order, a closure is seen after the frames sent before it, `on_closed` is
always called, a failed connection loses frames under way.  The RPC may fail at
the client before or after the worker serves it.  `Shutdown` may come before
`start()` has stored the stream id, in which case nothing is closed until the
server goes down.  A unit's gated blocks, and its non-gated blocks, are one bit
each: `Get` fills any subset.

### ContinuousScheduler and RequestService

Threads: callers of `add_request` (`Reserve`, `Admit`: the counter and the queue
size are two reads), prefetch callbacks (`PrefetchDone`, `PrefetchRelease`),
callers of `pause()` and `resume()`, and the loop thread.  One call of `step()`
is a chain of actions, because the other threads act in between:

| Action | Code |
|---|---|
| `Collect` | `handle_cancel_requests`, `drain_request_queue`, `collect_finished` |
| `RequeueOne`, `RequeueStop` | the requeue phase of `PrefillFirstPolicy::schedule` |
| `PrefillOne`, `PrefillStop` | `schedule_prefill_from_queue`, `handle_unschedulable_head` |
| `DecodeOne`, `DecodeStop` | `schedule_decode_from_queue` with preemption of the last request, `handle_abnormal_decode_request` |
| `UnifiedOne`, `UnifiedStop` | `UnifiedPolicy::schedule_from_unified_queue`; urgency is any order |
| `Dispatch` | `Engine::step`, and with overlap the results of the batch before |
| `PauseBegin`, `PauseEnd` | `try_complete_pause` with `preempt_all_running_requests` / `abort_all_running_requests` |

A block holds one token; a request has one sequence and ends after a number of
tokens TLC chooses, at most `MaxGen`.  `RequestService` is what a client and the
KV cache may rely on: one answer for good, no KV after it, never more blocks
than the device has.  The refinement maps `held` to `kv` and admission stage and
answer to `status`.

### PageAllocator

One worker; every model has virtual pages, a block manager (`sched`), its part
of the preallocation thread (`pre`) and a sleep or wake-up (`admin`).  The code
takes the mutex for short sections and maps or unmaps between them; a section is
an action, and `[pc, pages]` is what a thread carries from one to the next
(`LoadWeights`/`LoadMap`, `AllocTake`/`AllocMap`/`AllocInsert`, `PreallocTake`/
`PreallocCheck`/`PreallocMap`, `SleepBegin`/`SleepWeights`/`SleepUnmap`,
`WakeBegin`/`WakeMap`, `FreePages`/`TrimPages`/`UnmapDone`).  `SleepAtInit` is the
call with `skip_weight_release`, for a model that starts asleep.  `mapped` is the truth on the worker, next
to the books; a broadcast may fail (`MaxFaults`).  `PausedAtSleep` and
`IdleAsleep` say what the callers of `sleep_model` do; see section 6.

### EplbManager

The manager's two threads and the engine's hot path over one mutex
(`RebalanceSnapshot`, `Rebalance`, `PublishLoad`, `ManagerReady`,
`ManagerTimeout`, `GetEplbInfo` inside a dispatch), the engine's pairing of
tokens with steps (`CompletedToken`, `CollectPrepared`, `CollectLoad`), and on
each device the executor (`StartStep`, `FinishStep`) and its prepare thread
(`BeginPrepare`, `EndPrepare`).  A plan is an element of a small set; the load
is whether the current generation was sampled.  A prepare may fail, be late or
hang; with `Overlap` two steps are in flight.

### DisaggPD

One prefill and one decode instance in PUSH mode.

| Action | Code |
|---|---|
| `Dispatch`, `DispatchRefused`, `AddFails`, `AddReturns` | `dispatch_requests()` before, around and after `AddNewRequests` |
| `Drain`, `Schedule`, `DropWaiting`, `StepEnds`, `PushFails` | `drain_request_queue` with `reject_queued_request`, the prefill queue, `process_batch_output` / `collect_finished`, `fail_kv_push_requests` |
| `SendFirst`, `PrepareFails`, `GenFails`, `GenReturns` | `prefill_send_first_generation()` |
| `ReleaseNoChannel`, `SendRelease`, `ReleaseFails`, `ReleaseReturns` | `send_reservation_release()`; a release is given up after three attempts, and at once without a channel |
| `UnlinkPublish`, `UnlinkDone`, `LinkStart`, `LinkEnd` | `unlink_instance`, `link_instance` around their locks |
| `Admit`, `Register` (and `...Late`) | `decode_recv_new_requests`: `try_admit`, then `decode_schedule` |
| `ServeRelease`, `ServeGen`, `Restore` | `release_reservation`, `decode_recv_first_generation` |

brpc is external: a call may fail at its caller while the message is lost, under
way or being served; such a message or handler is *abandoned* and may act any
time later (`late`, `admitted`).  A connection error makes brpc send a request
again (`max_retry = 3` on the dispatch channel, 0 for releases).  A prompt is a
number of chunks; `kv` counts those that are in the blocks the decode holds.

## 4. Runs

Deadlock is checked except where the system may stop: a push step, a prefetch
and a hand-off end; in `PageAllocator` a failed broadcast may leave every page
charged.  That they end as they should is `StepEnds`, `PrefetchEnds` and
`RequestsEnd`.

| Run | Instance | Properties |
|---|---|---|
| `flat_kv_bs2` | 2 sequences that differ from the fourth token on, 3 blocks of 2 tokens, in-batch publishing | `NoCheckFails`, `RefExact`, `EvictableExact`, `UnpublishedIsPrivate`, `CachedKvIsOwn`, `FiledKvMatchesHash`, `SharedWritesAgree`, `SharedPrefixStays` |
| `kv_push_grid` | 2 x 2 ranks, 1 request, fair | `SourceKvStays`, `OkMeansDelivered`, `StepEnds` |
| `kv_push_driver` | the same; **violation** | `DriverSpeaksForAll` |
| `prefetch_faults` | 2 workers, 2 units with optional blocks, cancel, 1 failure | `PublishedIsFetched`, `CompleteMeansAll`, `PublishedIsQuiet` |
| `prefetch_session` | 1 worker, 3 units in batches of 2, timeout, measurements, 2 failures, fair | `ReportIsFinal`, `NoReportAfterShutdown`, `PrefetchEnds` |
| `eplb_overlap` | 2 devices, 2 layers, 2 plans, overlap, 2 attempts | `SameStepSamePlacement`, `ManagerKnowsPlacement`, `PolicyAlone`, `TransfersProposedPlan` |
| `eplb_rounds` | 1 device, 3 layers, 2 plans, no overlap, 1 warm-up, 3 attempts, fair | `NoPlanLost`, `RoundEnds` |
| `page_alloc` | 2 models, 3 virtual and 5 physical pages, weight 1, 1 failed broadcast, 3 sleeps | `PagesAccounted`, `UsedIsExact`, `NeverOvercommitted`, `HandedOutIsMapped`, `AsleepHoldsNothing` |
| `sched_preempt` | 3 requests (prompts 2, 1, 4), 3 blocks, up to 3 tokens each, fair | `FailsOnlyIfTooBig`, `AllAnswered` |
| `sched_pause` | 2 requests (prompts 1, 3), 4 blocks, up to 3 tokens each, overlap, a client that leaves, all modes, 2 pauses, fair | `UnfinishedIsQueued`, `PausedHoldsNoKv`, `ImplementsService`, `PauseSettles` |
| `sched_unified` | unified policy, 3 requests (2, 1, 3), 3 blocks, queue of 2 | `UnfinishedIsQueued`, `QueueNeverFull` |
| `disagg_pd` | 2 requests (2 chunks and 1), decode with room for 1, 1 failure, 1 resend, 1 unlink, a client that leaves, fair | `KvInItsReservation`, `NoOrphanReservation`, `NoPrefillAcrossUnlink`, `RequestsEnd` |

Why the bounds are enough.

* `flat_kv_bs2`: three blocks for two texts with a common prefix give hits,
  partial hits, exact repeats, refused allocations and evictions of residents
  next to held ones, and partial blocks.  The texts share the first block and
  part inside the second, so two sequences that hold one block have different KV
  to write behind it.  Sequences come back after `Finish`, so histories are
  unbounded.
* `kv_push`: two ranks per axis is the smallest grid with a rank outside both of
  the driver's groups.
* `prefetch`: a short last batch needs 3 units in batches of 2; two workers are
  needed for one to stop the other; two failures allow one during the handling
  of another.
* `eplb`: two layers are needed for a round to have a second activation behind
  the first, two attempts for a late report to meet another attempt, two devices
  for one to be without the weights.  `pending_activation_layer_id` is one slot:
  it can be overwritten only when a layer gets ready while another is pending
  behind one not yet acknowledged, which takes the three layers of
  `eplb_rounds`; one device is enough, because a layer is ready when all are.
  Three layers with overlap are left to the theorem `PlansAreKept`.
* `page_alloc`: with five pages two models with their weights fit only partly,
  so charges fail, and a reserve of two keeps the preallocation thread at work.
  Either model may start awake, asleep or with weights that fail to load.
* `sched_preempt`: no two of the requests fit together for long, one never
  fits.  `sched_pause`: the second pause meets a scheduler that is pausing,
  paused or resumed, and a request that the first one preempted and that, with
  the tokens it has generated, no longer fits below the other.  `sched_unified`: three requests for a queue of two.
* `disagg_pd`: with room for one request a forgotten reservation starves the
  other; one unlink is enough for an unlink and a link during a dispatch.  The
  invariants hold with two failures too (1.5 million states).

Each property has a mutant: a changed definition, kept just before the original
in the module, under which TLC finds the property violated.

**Fairness.**  `KvPushCompletion`: the forward pass ends, both timeouts of
`wait()` fire, a collective that all have entered returns, the engine reads a
ready answer; that a transfer ends is *not* assumed (hence the fatal outcome in
`StepEnds`).  `StorePrefetch`: threads and pools run what is queued, the stream
layer delivers what it holds, a Get returns, a destroyed service's server goes
down; nothing of timeouts, cancellation or failures.  `EplbManager`: the
manager's thread wakes at the latest at its timeout (`wait_for`), the engine
collects what is in flight, workers execute what they received (weak); decode
steps keep coming, though other steps may come between (strong fairness of
`DispatchDecode`: without traffic no layer is activated); a prepare may hang.
`ContinuousScheduler`: `LLMMaster::run` calls `step()` for ever, callbacks go
on, and who paused the scheduler resumes it once it is paused.  `DisaggPD`: the
threads of both instances run, a call that is not abandoned is served, the
decode finishes what it runs; nothing of failures, links, or messages whose
caller has given up.

### The finding

**`kv_push_driver`.**  `llm_engine.cpp` reads only the driver because "the
output on other workers is the same".  For failed pushes it is not, on a grid
with both axes larger than one: bitmaps are gathered over TP and over CP from
the *local* payload, so a failure on a rank in neither of the driver's groups
is reported by other ranks and not by the driver.  The request then continues
on the decode instance without that rank's KV.  `OkMeansDelivered`, which is
about the ranks that share a coordinate with the driver, holds and is proved.

## 5. Proofs

**FlatKvPool** (`BlockManagerImplProofs`, `FlatKvPoolProofs`), for every finite
set of blocks and sequences, all texts, every block size and both lookaheads.
None of the properties is inductive by itself.  The invariant is
`TypeOK /\ Books(pool, kv_state)` with bounds on the token counts.  `Books`
combines `LeafInv(p, cnt)` (the leaf's books relative to the number `cnt[b]` of
tables that hold `b`) with, for each table: no block occurs twice; the shared
prefix is what is filed under the sequence's own hashes; a block that is filed
at all is filed under the hash of its position; a block past the publish cursor
is private and unfiled.  The last two are what keeps `insert` from filing a
block twice, and they need the chained hash to be injective on a sequence's
positions (`HashInjective`).  `Books` is stated of a leaf and tables rather than
of the state, and each leaf operation has a lemma that carries it
(`EvictBooks`, `GrowBooks`, `PublishBooks`, `MountBooks`, `DropBooks`), so a
handler's composition is a chain of lemmas.  Proved: `TypeCorrectness`,
`NoCheckEverFails`, `RefCountsExact`, `EvictableCountExact`,
`UnpublishedBlocksPrivate`, `SharedPrefixNeverEvicted`.

The KV in the blocks needs a second invariant on top of the books, `ContentInv`.
Blocks are filed and mounted before the forward pass writes them, so it does not
say what a slot holds but what it *has* (`Has`): the slot holds the value, or some
sequence of the batch is to write it.  In these terms, every cached position of a
table and every slot of a filed block has its KV, the batch fits the tables, and
a block in two tables is filed (`SharedOnlyIfFiled`).  From the books, a filed
block then stands at the position of its hash in every table, and equal hashes
are hashes of the same tokens (`HashSame`), so whatever the batch writes to a
slot agrees with whatever anyone takes it to hold (`FiledAgrees`, `TableAgrees`):
the forward pass turns "has" into "holds".  All six handlers of a sequence are
shown to be instances of one action, `HandlerStep`: new blocks of a table are
filed or held by nobody; what is counted as cached was so before or is filed
under the sequence's hash; a block is newly filed only if its KV is cached or in
the batch.  `HandlerContent` shows once that such a step keeps the content.
Proved: `CachedKvAlwaysOwn`, `FiledKvAlwaysMatches`, `SharedWritesAlwaysAgree`,
with in-batch publishing on or off, for the MTP lookahead too, of which the run
has no instance.

**KvPushCompletion** (`KvPushCompletionProofs`), for every grid and set of
requests.  The invariant adds that a rank is in the collectives exactly when its
transfer is settled, that leaving gather *g* means the whole group has entered
it, and that a bitmap gather has merged the group's failures.
`SourceBlocksOutlivePushes` holds on every grid although the engine waits for
one rank: the driver's TP neighbours in the bitmap gather have left the CP
gather of the request sets.  `OkRequestsDelivered` covers the ranks that share a
coordinate with the driver, on every grid; `SingleAxisDelivers` concludes that
with one axis every rank has delivered.

**ContinuousScheduler** (`ContinuousSchedulerProofs`), for any number of
requests, blocks and pauses, with and without overlap unless stated.
`CallbacksNeverBlock` holds under both policies.  The pending count and the queue
size are read at different times, so no state compares the two; the invariant
orders the requests by their reservations (`Ordered`): whoever is let in saw, or
will see, every earlier request that is still pending or queued, in one of the
two numbers it adds, so the last of them left room for all.

The others are about the prefill-first policy (assumption `~Unified`: the unified
queue is not among those a pause goes over).  `PausedSchedulerHoldsNoKv` needs
more than the state at the pause: its invariant follows, through each phase of a
step, where a request with blocks can be (`HeldInv`), that the requeue phase
loses none of them (`RequeueInv`), and that a pause is read only between steps
(`PauseInv`); whenever the loop thread looks at the pause state, every request
with KV is in `running` or `decode_queue`, which is what the pause goes over.
`NoRequestIsLost` adds that a request is in at most one of the queues and once in
it (`SpotInv`, and that the sequences are injective).
`SchedulerImplementsService` proves the refinement of `RequestService` step by
step: every action is an abstract `Decide`, `Allocate`, `Release` or a stutter.
It needs that whatever is in a queue or in the batch has no answer yet, except
what `collect_finished` has answered and the requeue has still to drop, and that
no unfinished request has more blocks than tokens (`ServeInv`), which with a
batch in flight depends on the placeholder token it has put.
`FailedRequestsAreTooBig` also assumes `~Overlap`, which is necessary (section
6): the batch being put together then has no finished request (`FreshInv`), so
that a request is failed only when no other has a block.

**PageAllocator** (`PageAllocatorProofs`), for any models and pages.
`NoPageIsLost` assumes nothing: broadcasts may fail and block managers may call
at any time.  Its invariant counts a model's unfinished map operations exactly,
so that `sleep_model`, which waits for zero, meets no page in a thread's hands;
the branch of the preallocation thread that would drop a sleeping model's pages
is unreachable for the same reason.  The other four
theorems are about the steps before a broadcast fails, and assume
`PausedAtSleep` and `IdleAsleep`.  For `PagesInUseAreMapped` and
`SleepingModelHoldsNothing` the invariant describes what is mapped in each phase
of each thread.  `UsedCountExact` and `DeviceNeverOvercommitted` add
`ChargeInv`: between the sections under the mutex `worker_pages_used_` is what is
mapped *and* what some thread has charged and will map or has yet to unmap.  The
sum over the models is the cardinality of a set of pairs (`PagesOf`), so that a
step changes it by a union or a difference and no induction is needed.

**StorePrefetch** (`StorePrefetchProofs`), for every number of workers, units,
failures and every batch size.  A session and its receiver turn out to work in
lockstep: at most one frame or control of a worker is under way, and then the
session has no job (`FlowInv`).  So what a worker has in its pages is what the
receiver has recorded plus the frame being written or under way, or a frame was
lost and the receiver will never count this worker as stopped (`SyncInv`); once
it does, no Get of the worker is running or can start (`QuietInv`).
`PublishesWhatWasFetched` and `PublishesQuietPages` follow.
`CompleteIsComplete` needs that each batch before the current one was full
(`BatchInv`) and that a stop has a recorded reason (`StopInv`).
`ReportsAreFinal` and the action property `ShutdownEndsReports` are about the
session alone (`ReportInv`).

**EplbManager** (`EplbManagerProofs`), for any number of ranks, layers, plans,
attempts and warm-up steps, with and without overlap.  The invariant locates
every step: on each worker the outputs sent, the step that runs and the commands
not taken are the steps in flight, in order (`StepInv`), at most one of which
carries an activation (`FlightInv`), and a rank has switched the awaited layer
exactly when it has finished that step (`LiveInv`).  This gives
`RanksSwitchTogether` and `ManagerBelievesTruth`.  `TransfersCurrentPlan` also
needs that a late task of an earlier attempt never rewrites what is about to be
activated: tasks under way are for other layers than the one being activated
(`TaskInv`), and the current attempt is the last task of each worker
(`LastInv`).  `TokensLeaveWithTheirSteps`, `PlansAreKept` and
`PolicyComputesAlone` assume that there is no warm-up step or no overlap
(`NoSkew`), which is necessary (section 6): the current attempt then
travels behind the activation in flight (`BehindInv`), a layer becomes ready
only when the one before it is being acknowledged (`PairInv`), and what the
policy can roll back is what the round has still to activate (`PolicyInv`).

**DisaggPD** (`DisaggPDProofs`), for any number of requests, chunks, failures,
repeated calls and unlinks.  The invariant is about one request at a time: which
calls, abandoned messages, handlers and release tasks of it can exist in each
phase of its prefill, and what the decode holds for it then.  Abandoned calls
are counted, not forgotten: a release, and the tombstone it leaves, exist only
for a request that has failed, so a late copy of a call cannot touch a request
that goes on.  The proof of `PushedKvIsReserved` showed that
`KvInItsReservation` does not hold if brpc repeats both calls of one request,
which one run with one resend could not reach; the property now excepts just
those.  `NoReservationIsForgotten` covers reservations a message still under way
could make.  For `UnlinkedRequestsNotPrefilled` the epoch stamped on a request
stays behind the instance's for good.

Assumptions on constants: blocks, sequences, models, pages and requests are
finite sets, block size positive, lookahead 0 or 1, prompts non-empty and
shorter than the text, hashes of a sequence's blocks are hashes; the driver is a
rank; batches, layers, plans and chunks are at least one.  TLC evaluates each of
them.

**Model-checked only.**  `UnfinishedIsQueued` under the unified policy.  Liveness
(`StepEnds`, `PrefetchEnds`, `RoundEnds`, `AllAnswered`, `PauseSettles`,
`RequestsEnd`) is outside what the proof system handles.

## 6. Where the guarantees end

Behaviours of the code met while modelling that a caller may not expect.  Each
was reproduced with TLC by the change of an instance or of a property named
here, except where it says "not modelled".

* **Abandoned Get.**  `global_kvcache.md:682` says admission waits for in-flight
  batches after `prefetch_timeout`; the same value is the idle timeout of the
  stream (`comm_channel.cpp:542`), so a Get longer than it is abandoned: its
  pages go back to the host pool while it still writes.  Published pages are
  never affected (`PublishedIsQuiet`).
* **EPLB warm-up with overlap.**  `eplb_info.h:37` says that the engine keeps an
  activation token "until the corresponding worker output is collected".  Under
  overlap every step pushes a token, a graph warm-up step too
  (`llm_engine.cpp:1281`), but the collection of a warm-up step pops none
  (`1352`), so every later step is collected with the token of an earlier one:
  the step that activated a layer does not acknowledge it, its load is filed
  under the old placement, and the commit comes late by as many steps as there
  were warm-ups (`Overlap`, `Warmups = 1`, one device and layer:
  `AckedWithItsStep` is violated).  The activation may still be unacknowledged
  when the next layer is ready, and a plan the policy has booked is dropped (three
  layers and attempts: `NoPlanLost` and `PolicyAlone` are violated).  That ranks
  switch together and to the proposed plan holds all the same, and is proved.
* **Allocation at sleep.**  A page mapped outside the mutex while its model goes
  to sleep stays mapped (`page_allocator.cpp:558`; `PausedAtSleep = FALSE`
  violates `AsleepHoldsNothing`).
* **Freeing while asleep.**  A page freed during sleep is uncharged a second time
  (`page_allocator.cpp:610`; `IdleAsleep = FALSE` violates `UsedIsExact`).
* **Overlap and memory.**  A request that finished in the batch in flight still
  holds its blocks when the next schedule finds nothing else to preempt, and the
  other request is failed for lack of memory (`scheduler_policy.cpp:1231`;
  `Overlap = TRUE` with prompts 2, 1, 3 and 4 blocks violates
  `FailsOnlyIfTooBig`).
* **WAIT pause.**  It goes on scheduling whatever is queued
  (`continuous_scheduler.cpp:953`), new requests included, while
  `continuous_scheduler.h:263` says "Stop admitting new requests".
  It is PAUSED only when nothing is left to schedule, so under steady traffic
  `wait_until_paused()` does not return.  `PauseSettles` therefore speaks of KEEP
  and ABORT only; of a WAIT pause no end is claimed.
* **Finished before a pause.**  A KEEP or ABORT pause skips a request that
  finished in the batch it has just collected and then clears the lists
  (`continuous_scheduler.cpp:1111`, `1150`): its last answer is never sent
  (`Modes = {"KEEP"}`, one pause, violates `AllAnswered`).
* **KEEP with the unified policy.**  Preempted requests go to `prefill_queue_`
  (`continuous_scheduler.cpp:1123`), which the unified policy does not read:
  they wait for ever (`Unified = TRUE` with a KEEP pause violates `AllAnswered`
  for requests that are not finished).
* **pause() and resume() races.**  A `pause()` that is refused because one is
  under way has already replaced its mode (`continuous_scheduler.cpp:1026`); a
  `resume()` between the reading of the mode and the store of PAUSED is
  overwritten (`993` against `1065`).  Seen in behaviours of `sched_pause`.
* **AddNewRequests sent twice.**  If brpc repeats the call after a connection
  error and the decode has served the first copy, the second is refused as a
  duplicate or for lack of room, and dispatch repeats it without pause, before
  all younger requests, while nothing releases the first reservation because no
  `decode_rpc_address` was recorded (`disagg_pd_scheduler.cpp:472`, `1363`).
  `RequestsEnd` without `resends > 0`, and `NoOrphanReservation` without
  `resent.add`, are violated.  If `FirstGeneration` is repeated as well, late
  copies of both calls make the decode run a request that is over, on empty
  blocks (`MaxResends = 2`; `KvInItsReservation` without its exception).
* **A release that is given up.**  After three failures, or at once when the
  channel to the decode cannot be initialised, the prefill logs that the
  "reservation may remain allocated" (`disagg_pd_scheduler.cpp:144`, `174`) and
  nothing on the decode ends it.  It does not only cost memory: on a decode with
  no room left, dispatch repeats the next request without pause, before all
  younger ones.  `RequestsEnd` without `exhausted # {}` is violated.
* **PULL mode** (not modelled).  When `FirstGeneration` times out the prefill
  frees its blocks (`disagg_pd_scheduler.cpp:1130`) while the decode may be
  pulling them (`1547`).
* **Late reservation after an unlink of the prefill** (not modelled).
  `decode_schedule` does not look at the link, so a late `AddNewRequests`
  registers a reservation for an instance that has gone.

## 7. Not modelled

Models, layers, kernels and Python code (numeric), the API services and parsers
(formatting), RDMA and store I/O (nondeterministic outcomes); they are most of
the repository's half a million lines, so the map covers a small share of it.
Of the modelled parts:

* pool: the multimodal hasher, beam-search copy-on-write, DP rank choice,
  layouts other than FLAT_KV (SWA only in the prefetch's cut-back);
* scheduler: a finished request that a pause drops loses its blocks in that
  step, although a response thread that still holds the request may delay that;
  chunked prefill, token and latency budgets, `DecodeFirstPolicy`, the
  zero-eviction and fixed-steps schedulers, the decode restore queue, several
  sequences per request, shutdown;
* prefetch: the tail probe of measurements; fewer than 256 workers are assumed,
  because `PrefetchSummary` sums hits in `uint8_t`;
* pages: several workers and DP groups, the carving of a page into blocks;
* EPLB: load arithmetic and the choice of a plan, the weight exchange itself;
* hand-off: PULL mode, `pd_ooc_scheduler`, unlink on the decode side,
  `cancel_request`, the expiry of tombstones after five minutes, paused decode
  admission, the crash of an instance.
