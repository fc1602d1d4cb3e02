# A TLA+ development for nn

nn is a Rust framework that traces a model to a graph, compiles the graph to
GPU kernels and runs them.  Its hard part, for a model checker, is the Metal
runtime in `src/crates/nn-metal`: operations are encoded lazily into a command
batch, batches run on the GPU behind the thread's back, tensors live in an arena
that is reset as a whole, and almost all of the state is in thread-locals that a
dozen entry points read and reset in different orders.  Around it stand the
planner that lays out the memory of a compiled model, the caches text generation
runs on, and the channel audio is streamed over.  This development models the
runtime and these, checks them with TLC and proves the main results with TLAPS.

Paths below are relative to `src/crates/nn-metal/src` unless they start with
`nn-`.

## 1. The system

| component | state | operations | interacts with | what is hard |
|---|---|---|---|---|
| Activation arena (`arena.rs`) | current slab, capacity, bump offset, generation, byte counters, retired slabs | alloc, grow, reset, ensure_capacity, checkpoint, restore | called by the arena scopes; views keep slabs alive | offsets that mean something else after growth or reset |
| Arena scopes (`arena_scope.rs`) | default arena, explicit arena, bypass flag, decode-scope generation, planned redirect (thread-locals) | with_arena, without_arena, with_decode_scope, allocation routing, resets | every operation allocates through it | which of five places a tensor is put into |
| GPU scope (`gpu_scope.rs`) | open batch, encoding count, pending batch (thread-locals) | encode, submit, sync, flush, rotate, discard, take for fence | GPU queue, default arena | partial failures, order of commit, wait and reset |
| Pending batches, fences (`dispatch_pending.rs`, `gpu_fence.rs`) | a handle to a committed command buffer | wait (60 s), drop | taken from the open batch | work nobody waits for |
| Futures (`gpu_future.rs`) | two flags, a callback slot under a mutex | on_complete, is_complete, Metal's completion handler | a thread of Metal's own | real data sharing between threads |
| Transfer (`dyn_tensor_metal_transfer.rs`), `context.rs` | none | gpu_to_cpu (flush, stale check, read), clone_buffer | GPU scope, arena generation | stale or unwritten memory read as good |
| Buffer planner (`nn-dsl/src/buffer_planner.rs`) | none (pure) | linear scan over the steps, best fit, split, release at last use | gives the compiled model its offsets | overlap of buffers that are needed at the same time |
| Compiled model (`compiled_model_*.rs`) | planned buffer kept between runs, step buffers, arena checkpoint | step loop, eager release, output extraction | all of the above | views used after their bytes were given away; results that alias the kept buffer; error paths |
| Buffer pool (`buffer_pool.rs`) | entries per size class, byte count, statistics | acquire, reclaim_all, reset_stats | serves what bypasses the arena | reclaim while a holder is left; limits |
| Pipeline cache (`cache.rs`) | L1 per thread with access stamps, L2 shared | get_or_compile(_icb) | compiler, precompiled library | two tiers, eviction, hash keys, duplicate builds |
| Channel streaming (`compiled_kokoro_channel_streaming.rs`) | an mpsc channel, a cancel flag, a counter | drive, next_chunk, try_next_chunk, cancel, drop | synthesis thread and consumer thread | cancel against the callback and the end |
| KV cache and decode loops (`nn-core/src/layers/generation`) | per layer a pair of growing buffers, length, capacity | append, clear, reset; decode_generate, greedy_decode_with_verification | the model's forward pass appends layer by layer | an append that fails half-way; drafts that are rejected |
| Paged KV cache (same) | page tables, token counts, free pages, pool | allocate_sequence, append_kv, get_kv, free_sequence | shared by all sequences | exhaustion in mid-token, pages handed on |
| Segment and weight caches of Kokoro | LRU maps, a read-write lock | get/insert, get_or_init | synthesis threads | not modelled |
| Vulkan backend (`nn-vulkan`) | buffer pool, pipeline cache, command batch | acquire/release/evict, get/insert | | release by size; not modelled |

The rest of the repository keeps no protocol state: CPU kernels (nn-cpu),
CUDA/HIP code generation (nn-cuda, apart from its kernel cache), the kernel DSL
and macros (nn-dsl, nn-macros), importers (nn-import, nn-gguf), automatic
differentiation and optimizers (nn-autodiff, nn-optim: graph walks over numeric
data, loss scaling), model definitions (nn-models, nn-qwen3, nn-glm5, nn-gptoss,
nn-whisper), verification and reference tooling (nn-verify, nn-tts-verify,
nn-reftest), command lines (nn-cli, nn-optimize, nn) and stubs (nn-ane,
nn-swift).  `PROJECT.json` lists each with the reason.

What makes the components correct:

* arena: two views in use at the same time never share a byte; a view's slab is
  kept; pre-sizing with the estimate avoids growth;
* GPU scope and transfer: a readback returns what the tensor's operation computed
  or an error; every committed batch is waited for, or its handle was given up
  knowingly; the arena is reset when nothing uses it; no failure vanishes; every
  call returns although the GPU may hang;
* future: every accepted callback runs exactly once and is told the truth;
* pool: no buffer is held twice, none is too short, limits hold;
* planner and compiled model: buffers needed at the same time are disjoint, a step
  reads what its inputs wrote in this execution, results stay what they are;
* generation: a token is predicted from exactly the prompt and the tokens output
  before it; all layers, keys and values alike, stay in step; calls return;
* paged cache: every page is free or in one place, and what is read is what was
  appended;
* streaming: chunks in order without gaps, a prompt end after a cancel, and an end
  for every consumer;
* cache: the pipeline returned belongs to the source asked for.

## 2. Modules

| module | models | proofs |
|---|---|---|
| `RegionAllocator` | abstract: regions handed out are disjoint from those live | |
| `ActivationArena` | `arena.rs`, called the way `arena_scope.rs` does | `ActivationArenaProofs` |
| `ArenaEstimate` | `estimate_arena_peak_bytes` and pre-sizing, on top of `ActivationArena` | `ActivationArenaProofs` |
| `GpuRuntime` | GPU scope, arena scopes, fences, transfer, compiled steps, and the GPU | `GpuRuntimeProofs` |
| `CompletionNotice` | abstract: each accepted callback is told once how the work ended | |
| `GpuFuture` | `gpu_future.rs`, access by access | `GpuFutureProofs` |
| `BufferPool` | `buffer_pool.rs` | `BufferPoolProofs` |
| `PipelineCache` | `cache.rs`, both tiers, any number of threads | `PipelineCacheProofs` |
| `BufferPlanner` | `buffer_planner.rs`, one action per iteration of the scan | `CompiledModelProofs` |
| `CompiledModel` | the step loop over the buffer `BufferPlanner` laid out, several executions | `CompiledModelProofs` |
| `KvCache` | `kv_cache.rs`: append with every way it can end, as operators | |
| `Decoding` | both decode loops over a `KvCache` | `GenerationProofs` |
| `TokenStore` | abstract: a list of tokens per sequence and layer | |
| `PagedKvCache` | `paged_kv_cache.rs` | `GenerationProofs` |
| `ChannelStreaming` | the channel session, its receiver and the callback loop | `ChannelStreamingProofs` |
| `MC*` | constants for TLC | |

Definitions named `...Mutant`, and in the newer modules those named for the
mistake (`RemainderNotAdvanced`, `NormalizeByOffset`, `AcceptedOffByOne`,
`RecvPastEnd` and so on), are the definition next to them with one plausible
mistake; nothing uses them, they serve to confirm that each property notices a
mistake in the code it is about.

### ActivationArena

`slab`, `capacity`, `offset`, `generation`, `totalAllocated`, `peakBytes`,
`autoGrow`, `retired` are the fields of the struct, with a number for each
buffer.  `Alloc` is `alloc` with its three outcomes (`AllocInSlab`,
`GrowAndAlloc`, `AllocOverflow`), `EnsureCapacity`, `Reset` and `SetAutoGrow`
the methods of those names, `Checkpoint`, `Restore` and `AbandonCheckpoint` the
checkpoints of a compiled step: they nest, are ignored when the generation has
passed, and a step that fails never restores its own.  The history variable
`live` is what a client may still use.  The arena implements `RegionAllocator`
with the identity on `live`.

Bytes are natural numbers; the code's `checked_add` and `saturating_mul` errors
near 2^64 are out of the sizes an arena can have and are left out, as are the
growth and overflow counters, which nothing reads back.

`ArenaEstimate` adds `Presize`, which creates the default arena or grows it to the
estimate of a plan, and then runs the plan's allocations in order; all other
uses of the arena happen before and after.

### GpuRuntime

One thread and the GPU.  A call that waits is several actions: `Begin...`,
where it takes `PENDING` and blocks, `SyncReturns`, `CommitSubmitted` or
`CommitFlushed`, `FlushReturns`, `Read`; in between, the GPU (`GpuExecute`,
`GpuComplete`, `GpuFail`) takes as many steps as it likes.  An operation is
`BeginEncode` (allocate, rotate a full batch), `RotateReturns`, `Encode` or
`EncodeRejected`.  `WaitFails` is every wait's error path, by a GPU error or
after 60 seconds.  Calls that do not wait are one action each: `Clone`,
`ScopeError` (a `with_gpu_scope` that fails), `SubmitFence`, `DropFence`, the
scope toggles, the resets, `ReclaimPool`, a compiled step's checkpoint,
`GiveUpPlanned`, `NormalizeOutput`.

* Data: the memory of a tensor holds what its operation was to compute, or not
  (`intact`); executing an operation overwrites every tensor with the same home.
* Arenas are counted in slots, one per tensor: the bytes are ActivationArena's
  subject, and its theorem is what justifies counting.
* `Route` is the priority order of `arena_alloc_or_create`.  A bypassed request, and
  one that finds the explicit arena full, goes to the pool: `issued` counts the
  entries given out since the last reclaim, `ReclaimPool` makes all of them
  available again, and behind `PoolSlots` come buffers outside the pool (`PoolRoute`).
  `BufferPool` has the size classes and budgets behind this count.
* The planned buffer has `PlannedRanges` ranges.  A step's output may go into a range
  whose last holder was given up (`FreeRanges`), which is what the planner does:
  `GiveUpPlanned` is the step after the last use.  That the planner picks ranges so
  is `LiveRangesDisjoint` of `CompiledModelProofs`.
* Neither the reclaim nor the reuse of a range waits for the GPU.
* The client makes any calls in `Calls` but keeps what the documentation asks of
  it: it feeds an operation only tensors whose arena was not reset since
  (`MayUse`), reads the output of a fence after waiting for it (`MayRead`), holds no
  pool buffer over a reclaim (the contract at `buffer_pool.rs:179`) and no planned
  output over the reuse of its range: `freed` has the tensors it gave up.  Section 4
  shows where the code does not keep the last two (`MCPoolReclaim`, `plan_results`).
  A scope is lexical, so an explicit arena is not entered, left or reset, and the
  pool not reclaimed, in the middle of a compiled step.
* `reported`, `abandoned`, `freed`, `unwaited`, `outcome` are history.

### GpuFuture

Each atomic load or store and each lock operation of the completion handler and
of `on_complete` is one action, and any number of `on_complete` calls run at the
same time.  The stores are release, the loads acquire and the slot is under a
mutex, so interleaving in program order loses no behaviour.  `GpuFuture`
implements `CompletionNotice` with `accepted` defined from the program counters.

### BufferPool, PipelineCache

The pool keeps the availability flags of each class.  `OwnReclaim` says whether
the program keeps the contract of `reclaim_all` ("no outstanding references").
The cache keeps L1's stamps as the order they define; the L2 read lock, the
library search and compiler, and the L2 write lock are separate steps, so
threads meet between them.  A pipeline is the source it was built from; `Hash`
and `Entry` are constants, so that runs can have collisions or exclude them.

### BufferPlanner, CompiledModel

A plan is a record of sequences: the kind of each step, the bytes of its output and
the steps it reads.  `Scan` is one iteration of `linear_scan_alloc`: `Skip` for a
step without a planned output (with the releases that fall on it, which the code
then loses as well), `ReuseSlot` or `Extend` for one with.  Slots are a set, so a
tie between two slots of one size, which the code breaks by position, is left open.

`CompiledModel` plans first, then executes up to `MaxRuns` times.  `mem` is the
planned buffer, kept between executions: each byte holds the run and the step
that wrote it, so "reads what its input wrote in this execution" is a comparison
of tags (`Holds`: the slice is of this run and, unless it is a view, of its own
step).  Steps are `ForwardInput`, `TakeView` (the three kinds that alias their
input), `RunRuntimeOp` and `RunDispatch` (kernels, native operations and
constants, whose output ends in the planned range by redirect or by copy);
`StepFails` is any error.  `StepDone` releases the step buffers that are not
needed any more.  `NormalizeOutput` copies an output unless it is a whole buffer.
GPU operations are encoded on one serial queue, so their order is the order of
encoding; that the encoded work runs before it is read is GpuRuntime's subject.

### KvCache, Decoding

A buffer is the sequence of tokens it holds.  `AppendOutcomes` is the set of the
results `KvCacheLayer::append` can have, with the state each leaves: a pair that is
refused (`validate_kv_pair`, `validate_dims_match`), or a model that fails before it
gets to the layer, leaves the layer as it is, a write that fails after the buffers were taken out loses them, and a first append that fails
on the values leaves keys without capacity.  In `Decoding` a forward pass appends
to one layer after the other (`ForwardLayer`) and a failure, there or behind the last
layer (`PassFails`), ends the call and leaves the cache as it is.  Tokens are named by call and place, a rejected draft
has place 0; the drafts and the verifier's answer are chosen freely in
`DraftTokens`.  `basis` is history: the contexts, over all layers and over keys
and values, that each output token was predicted from.  The caller may clear or
reset the cache between calls, or do neither.

### PagedKvCache

The state of the code: page tables, token counts, free pages, page contents.
`AppendKv` of one layer is `Expand` (a page from the pool, none left is an error
without effect) or `Fill`.  Which free page is taken is left open; the code takes
the last.  Keys and values are written and read together, so one token stands for
both.  Freed pages keep their contents, as in the code (whose comment at
`free_sequence`, "Pages are zeroed on next allocation", describes something it
does not do); that this never shows is the refinement of `TokenStore`.

### ChannelStreaming

Producer, consumer and a canceller; one action per access to the flag, the
counter and the channel.  The session holds a sender of its own, so the channel
does not close while it lives.  The flag and the counter are relaxed atomics;
each is one variable read and written on its own, and no property relates two of
them except through the channel, which orders what it carries.

## 3. Runs

All cfgs set `CHECK_DEADLOCK FALSE`, because the bounds on tensors, batches, views,
executions or calls, or the finite set of `on_complete` calls, end every
behaviour.  Symmetry is used for the threads of the pipeline cache and for
sequences, layers, pages and tokens of the paged cache, in runs without liveness.

| run | shows | bounds, and why they are enough |
|---|---|---|
| `arena` | `NoOverlap`, `LiveSlabsHeld`, the refinement, `NoGrowthInHotPath` | plans of up to 2 steps of 0, 1 or 3 bytes; alignment 2, sizes 1, 3, 10 (padded, padded, larger than twice the slab), 3 slabs, 3 views per generation, 2 generations, 2 nested checkpoints: every pair of calls whose offsets can clash |
| `gpu_steps` | `ReadbackReturnsOwnData`, `StandaloneStayValid` with submits, resets and pool reclaims while the GPU is busy, explicit arenas, bypass and compiled steps | 3 tensors in slabs of 1 and 2 slots, an explicit arena and a pool of 1, 1 planned range, so that each kind of memory is reused; 3 batches (9 million states, 2 to 3 minutes) |
| `gpu_flushing` | what a program without submit and fences can rely on: the count guards `clone_buffer`, flush completes all, a reset finds no work | batches of 2, rotation, refused operations, scope errors, decode scopes, uncounted copies |
| `gpu_failures` | `Accounted`, `CorruptionWasReported`, `DiscardedFinishFirst`, `CallsReturn` with GPU errors and hangs | 3 tensors, 3 batches of 1 in 2 slots; the same invariants also held with growth (2.1 million states) |
| `future` | `ToldOnceRightly`, `NoneLeftBehind`, `CompletionNotice` with its liveness, `CallReturns` | three calls: one in the slot, one rejected, one after completion |
| `pool` | `HeldOnce`, `LargeEnough`, `WithinBudget` | three classes a factor 4 apart, requests at and next to each boundary, budget and class limit both reached |
| `cache` | `ReturnsOwnPipeline`, `HoldsLatestUsed`, `BuiltOncePerThread` | two threads, four keys over two sources with one entry point, both tiers full |
| `plan` | `NoLiveOverlap`, `ReadsOwnData`, `ResultsIntact` | every plan of 5 steps with one or two inputs, outputs of 1 or 2 units, views and unplanned steps, every choice of a second output, 2 executions that fail anywhere: 5 steps are needed for a slot to be split and both parts to be reused while a third buffer lives |
| `decode` | `PredictedFromOutput`, `CacheInStep`, `FitsContext`, `DecodeReturns` | 2 layers, capacity 2 that grows twice, 6 tokens of output in a window of 6, 3 drafts a round, 2 calls of either kind, 2 failing passes: a second call on what two failures left |
| `paged` | `EveryPageOnce`, `ImplementsStore` | 2 sequences of 2 layers on 4 pages of 2 slots, up to 5 tokens: the pool runs out for one layer while the other has room, and pages go from one sequence to the other |
| `stream` | `InOrder`, `OneChunkAfterCancel`, `CountNotBehind`, `StreamEnds` | 3 chunks and 2 calls of `drive` |
| `plan_results` | violated: a result handed out uncopied is overwritten by the next execution | plans of 3 steps |

The properties of the GPU runs differ because they are true of different
programs; which calls a property tolerates is the content of the run.
`StandaloneStayValid` is about tensors that `gpu_to_cpu` never refuses, because they
carry no generation, and about all that `without_arena` was used for: they lose their
data neither to an arena, nor to a reclaim or a reuse of a range that overtakes work
on the GPU.  It is an argument from two parts of the code, the routing and the order of
the queue, as its two mutants show: a bypass that is ignored above the default arena,
and an entry that `acquire` leaves available.
`FlushCompletesAll` and `CloneReturnsOwnData` fail as soon as batches are
submitted or fenced; `ReadbackReturnsOwnData` holds for all programs without
decode scopes, fenced compiled steps and failures; `DiscardedFinishFirst` is
the argument in the comment at `gpu_scope.rs:447-456`, and holds for discarded
batches but would not for a rotation that timed out.

Fairness: `WF(Continue)` in GpuRuntime says the calling thread keeps running.
Nothing is assumed of the GPU: `CallsReturn` rests on the 60-second limit of
`wait_with_timeout`, which `WaitFails` takes whenever the batch is not done.
In Decoding `WF(Work)` says that a call goes on: it is straight-line code on one
thread.  `DecodeReturns` is false without `reset` at its start, since an append
may spin on a layer without capacity.  In ChannelStreaming `WF(Produce)` says that
the synthesis of a chunk returns, with a result or an error, and `WF(Consume)`
that the consumer goes on pulling; nobody has to cancel or to call `drive`.
In GpuFuture the handler and each `on_complete` call are weakly fair: they are
straight-line code under a mutex every holder releases.  In `CompletionNotice`
fairness is what is promised, not assumed.

## 4. Where the code and its documentation differ

The run `plan_results`, quoted in `PROJECT.json`:

* **Results in the planned buffer** (`compiled_model_execute_helpers.rs:45`): the
  buffer is reused across executions, "safe" because outputs are "always
  blit-copied out" (`compiled_model.rs:237`).  An output that starts at byte 0 of a
  buffer of exactly its size is not copied; when the planned buffer has room for
  one step only, as in a model of one dispatch, that is the planned buffer itself,
  and the next execution writes into the result of the last.

Two limits of the planner are excepted by name in `ReadsOwnData` (`UsedLate`) and
`ResultsIntact` (`Excused`), and both disappear only if last use is made
transitive through views and outputs are never released:

* `compute_last_use` counts direct readers.  A view of a buffer that is read
  after the buffer's last direct reader may find the bytes given to another step.
  Only then: `UsedLate` asks of the step whose bytes the slice names whether the
  planner gave them away.
* An output that another step reads as well is released at that reader, so a
  later step may overwrite it before it is copied out.

Further configurations are kept to reproduce smaller disagreements; each ends in
a counterexample:

| configuration | module | property | disagreement |
|---|---|---|---|
| `MCCacheCollision` | MCPipelineCache | `ReturnsOwnPipeline` | L1 checks the stored source "to detect hash collisions" (`cache.rs:323`, test at `cache_tests.rs:314`); L2 compares the 64-bit key only, and the other source's pipeline enters L1 under the source asked for |
| `MCGpuFencedStep` | MCGpuRuntime | `ReadbackReturnsOwnData` | one generation late a tensor is "Safe only if no new allocs have overwritten the region (used_bytes == 0)" (`dyn_tensor_metal_transfer.rs:96`); after a fenced compiled step the checkpoint was restored and `used_bytes` is 0, but the memory was overwritten |
| `MCGpuSubmitClone` | MCGpuRuntime | `CloneReturnsOwnData` | the encoding count is the guard against reading unwritten memory (`gpu_scope.rs:431`); `submit` sets it to 0 while its batch runs |
| `MCGpuPending` | MCGpuRuntime | `FreshReadNeverStale` | with a batch pending, flush resets the arena in `sync` and again after its own commit; the tensor just flushed is two generations old and refused, against `dyn_tensor_metal_transfer.rs:73` |
| `MCDecodingRejected` | Decoding | `AlwaysPredictedFromOutput` | rejected drafts stay in the cache, and later tokens are predicted from them as well (`mtp_speculative.rs:234`): the output is not the greedy one any more |
| `MCDecodingSpins` | Decoding | `CallReturns` | `greedy_decode_with_verification` on a layer whose first append failed on the values doubles a capacity of 0 for ever (`kv_cache.rs:178`) |
| `MCGpuDiscardFlush` | MCGpuRuntime | `FlushCompletesAll` | after a scope error dropped `PENDING`, flush waits for nothing (`gpu_scope.rs:392`: "all GPU work is complete on return") |
| `MCGpuFence` | MCGpuRuntime | `FlushCompletesAll` | flush does not wait for fenced batches (`gpu_scope.rs:388`) |
| `MCGpuSync` | MCGpuRuntime | `ResetAfterAllWork` | sync resets the arena under the open batch (`gpu_scope.rs:120`: "the only point where all GPU work is known to be complete") |
| `MCGpuRotateFails` | MCGpuRuntime | `CountResetOnFlush` | after a failed auto-flush the count stays full through a flush (`gpu_scope.rs:74`: "Reset on flush") |
| `MCGpuDecode` | MCGpuRuntime | `ReadbackReturnsOwnData` | in a decode scope earlier tensors "are still valid" (`dyn_tensor_metal_transfer.rs:79`), but their slots are reused |
| `MCGpuExplicit` | MCGpuRuntime | `ExplicitNeverStale` | an explicit arena's generation is compared with the default arena's |
| `MCGpuUncounted` | MCGpuRuntime | `BatchBounded` | copies of model outputs are encoded without being counted |
| `MCArenaEnsure` | MCActivationArena | `EnsureAvoidsGrowth` | `ensure_capacity` ignores the padding of the next allocation (`arena.rs:335`) |
| `MCArenaPeak` | MCActivationArena | `PeakCoversLive` | restore gives padding back that was never counted, and peaks come out low (`arena.rs:244`) |
| `MCFuturePoll` | GpuFuture | `PolledMeansCompleted` | `is_complete` is true of failed work (`gpu_future.rs:150`) |
| `MCPoolReclaim` | MCBufferPool | `NotRecycledWhileHeld` | a batch reclaim recycles what a `without_arena` tensor still holds (`arena_scope.rs:125`) |

Without a configuration: `ChannelStreamingSession::cancel` says "A
`StreamChunk::Done` is NOT automatically sent -- the receiver will see the channel
close" (`compiled_kokoro_channel_streaming.rs:222`).  `drive` does send `Done` after
a cancel, and the channel stays open with the session; `StreamEnds` holds because
of it.  And `on_complete` says only one callback per future is allowed
(`gpu_future.rs:184`); once the work has completed it runs any number of them, each
once, at registration.

## 5. Theorems

Proved by TLAPS for every value of the constants, under the assumptions named
in the modules (`ArenaAssumption`, `RuntimeAssumption`, `PlansAssumption`,
`OutputsAssumption`, `CacheAssumption`, `DecodingAssumption`, `PagedAssumption`,
`PoolAssumption`, `StreamingAssumption`, and `NoSliceAssumption`,
`NoBufferAssumption`, `AbsentAssumption`, by which the value for "nothing there"
is not by accident a slice, a buffer or a page table: sizes and bounds are
naturals, alignment, capacity, page size, layers and prompt are positive, the
prompt fits the window, size classes increase, every input of a planned step is
an earlier step, outputs are steps).  A theorem that needs more names it as its
hypothesis, and below it is said which counterexample shows the need.  Every
inductive invariant was first checked with TLC.

**ActivationArenaProofs**: `TypeCorrect`, `LiveViewsDisjoint`, `SlabsHeld`,
`RegionsImplemented`, each for `Spec` and for `PlannedSpec`, which the run checks.
`NoOverlap` is not inductive: an allocation is disjoint
from what is live only because live views of the current slab end at or below
the bump pointer, and a restore moves the pointer down.  The invariant `IInv` adds
`BelowBump` (that fact for the present) and `CheckpointsSound` (that fact for the
offset and the `kept` views of every checkpoint of the present generation, whose
slab may be an older one).  One lemma per action; the refinement needs
`NoOverlap'` for allocations and set inclusion for the rest.  `PresizedIsEnough`
(`NoGrowthInHotPath`) for any plans: `InPlan` says that the bump pointer is where the
simulation has it before the next step and that the slab is as long as the
estimate, `NothingCut` that an arena that made no view is empty, as
`CreatePresized` takes for granted.  The simulation is a recursive function: that it
exists and never decreases is proved by taking the first step of a plan for which it
would fail (`LeastExists`, `SimulatedFacts`).

**GpuFutureProofs**: `TypeCorrect`, `NotifiedOnce`, `NoLostCallback`,
`ImplementsNoticeSafety`.  `FlagsFollow` ties the two flags and the handler's
position to the status, `OneRunner` says of each callback which of slot,
`handed`, handler and own program counter is responsible for it.

**GpuRuntimeProofs**: `WorkAccounted` (`Spec => []Accounted`), with `Typed`
and `CallShape` (what a call in progress holds) as strengthening, for any calls
and failures.  `CountGuardsBatch` (`CountMatchesBatch`) under `NoFailingWait`: no
GPU error and no timeout.  The assumption is needed: `MCGpuRotateFails` shows
the count stay full without it.

The two properties about arena resets rest on the order of the GPU queue:
`QueueInv` (the unfinished batches are the last ones committed), hence
`FinishedBefore`.  `DiscardIsSafe` (`DiscardedFinishFirst`, for clients without
explicit resets): by `DiscardInv` a discarded batch was committed before the
pending one and before any whose wait may reset the arena.  `ResetWaitsForAll`
(`ResetAfterAllWork`, for clients that do not submit): by `FlushInv` the only such
wait is for the batch committed last.  `MCGpuSync` shows that the second assumption
is needed.

What is in memory is proved in four layers, together `DataState`, which holds for
any calls and failures:

* `OrderInv`: operations stand in the batches in the order of their tensors, the
  open batch last, and every tensor is encoded or its operation was discarded;
* `PlaceInv`: a tensor is in a buffer outside the pool, in one of the pool that was
  issued, in a planned range, in a slab below the bump pointer, or in the explicit
  arena, and of two tensors with the same home the older was
  freed or belongs to an earlier generation (`HomesInv`).  A checkpoint restores
  the bump pointer, so what was there when the step began lies below the saved one
  (`SavedInv`), and an operation that waits in a rotation has its home already
  (`DraftPlaced`);
* `SourceInv`: between an operation and the one whose output it reads, none was
  given the home it reads from;
* `RunsInv`: what was executed holds its data until a later operation with the
  same home is executed, unless a batch failed.

`StandaloneKeepsData` (`StandaloneStayValid`) follows without hypotheses on calls and
failures: by `PlaceInv` an older tensor with the home of a newer one was freed or is
of an earlier generation, which a tensor without a generation cannot be, and what is
allocated under a bypass has none.  For the
reads, `CallInv` says what a call has made sure of when it comes to read,
`TrackInv` that an unfinished or failed batch is pending, fenced, reported or
dropped, and `RestInv` that a tensor of the present generation in a slab means that
the bump pointer is not 0, or, with compiled steps, that work is outstanding whose
end moves the generation.  The last is what the stale check's "one generation late,
`used_bytes` is 0" rests on, and a step whose batch leaves the thread breaks it:
hence the hypothesis `Restores` (no scope errors or fences together with compiled
steps), which `MCGpuFencedStep` shows to be needed, and the exclusion of decode scopes
(`MCGpuDecode`).  Under these two, `CorruptionIsReported` (`CorruptionWasReported`)
for any failures, and `ReadbackIsRight` (`ReadbackReturnsOwnData`) when no wait fails
and no submitted batch is discarded by a failing scope (`NoDiscard`).  `CloneIsRight`
(`CloneReturnsOwnData`) without submit (`MCGpuSubmitClone`): then the count tells
whether a batch is open, and nothing else is unfinished.  `FlushIsComplete`
(`FlushCompletesAll`) without timeouts, fences (`MCGpuFence`) and discards
(`MCGpuDiscardFlush`), whether or not batches fail.  `FreshReadIsServed`
(`FreshReadNeverStale`) without submit (`MCGpuPending`), resets by hand and explicit
arenas: what the open batch writes is of the present generation (`LazyGenInv`), and
the flush of the readback moves it by one.

**CompiledModelProofs**: `LiveRangesDisjoint` (`PlannerSpec => []NoLiveOverlap`)
for any plans.  Invariant `PInv`: the scan has allocated exactly the steps before
it (`ScannedAllocated`); held ranges and free slots end at or below the
high-water mark (`InBounds`); held ranges and free slots are pairwise disjoint
(`SlotsApart`); a range is apart from those of later steps up to the step that
gives it away (`ApartTillGiven`).  A range with a reader to come is held, because
its last use is at least that reader: this is what turns `SlotsApart` into
`NoLiveOverlap`, and it needs that a last use exists (the greatest element of a
bounded set, from the library's well-founded minimum).  One lemma per way of
placing a step: skipped, a new range, a split free slot, an extension at the end.

`InputsAreRight` (`ReadsOwnData`) and `ResultsStayRight` (`ResultsIntact`), for any
plans, any number of executions and failures at any step, without hypotheses.
`CInv` adds to `PInv`: a step left behind its own output or, as a view, that of an
earlier step of this execution (`SlicesInv`); it is there as long as it has readers,
and to the end if it is an output (`KeptInv`); and the range of a step holds what it
wrote until the planner gave it away (`MemoryInv`, by `ApartTillGiven`).

**GenerationProofs**, the paged cache: `PagesAccounted` and `StoreImplemented`
(`PagedSpec => ImplementsStore`) for any pool, page size, layers and sequences.
`EveryPageOnce` is inductive together with the types.  The refinement needs in
addition `CountsFit` (a layer with n tokens has just the pages for n tokens, at
least one, and a sequence that is not active has none), so that `append_kv`
writes behind the tokens stored and `get_kv` stays on the pages of its layer, and
`Stored` (every slot read holds a token).  `AppendEffect` says that the slot
written is read for no stored token, of this layer or another: on another page by
`EveryPageOnce`, on the same page by uniqueness of quotient and remainder
(`DivUnique`), which is proved from the prover's arithmetic.

**GenerationProofs**, the decode loops: `OutputIsPredicted` (`PredictedFromOutput`),
`CacheHoldsOutput` (`CacheInStep`) and `WindowKept` (`FitsContext`), without
hypotheses: for any layers, capacities, lengths of prompt, window and output, any
drafts, calls and failing passes.  `AppendKeepsSound` says what each of the
ways an append can end leaves (two buffers that are both there hold at least `len`
tokens; values are never there without keys), `AppendHolds` that a success puts the
new tokens behind those held, in keys and values.  `DecodingInv` says what a pass
was started with (`PassInv`): all layers held the same tokens H, the input continues
H to a context, and in the middle of the pass the layers below the next one hold
both.  H is nothing before the prompt, afterwards the context of the last token; it
is claimed only as long as no draft was rejected, which is where
`MCDecodingRejected` shows that it ends.  `ContextGrows` says that the context
followed by a guess begins, up to the first draft the verifier rejects, with the
context of the next token.  The doubling of the capacity and what it computes play
no part: they only decide which way an append goes.

**BufferPoolProofs**: `BuffersHeldOnce` under `OwnReclaim`, the contract of
`reclaim_all` (`MCPoolReclaim` shows that it is needed), `BuffersLargeEnough` and
`BudgetKept` (`WithinBudget`) without it.  The counted bytes are a sum over the
classes, defined by recursion on their number; that the sum moves with its entries
is proved by taking the least class at which it would not (`LeastExists`, from the
library's well-founded minimum), which stands in for induction.

**ChannelStreamingProofs**: `ChunksInOrder`, `CancelStops` and `CountKeepsUp`
(`CountNotBehind`) for any number of chunks and of calls to `drive`.
`InSequence`: up to the first end the channel holds the chunks that follow those
received; `AtNextChunk`: as long as there is no end in it, the producer is at the
chunk behind them.  A second `drive` starts over at chunk 1, but then an end lies
before its chunks.  `CountInv`: the count is what was received, what is in the
channel and the chunk on its way into it, exactly as long as there is a receiver.

**PipelineCacheProofs**: `OwnPipelineReturned` for any threads, limits and sources,
under two assumptions on the inputs, which the run `cache` satisfies: `NoCollision`
(`MCCacheCollision` shows that it is needed) and `EntryNamesSource` (an entry point
in the library is that of the source asked for).  Then a key belongs to one request,
and `LocalOwn` and `SharedOwn` say that both tiers hold that request's pipeline under
it, whatever threads evict and publish between looking and inserting; `Asked` says
what a thread has yet to publish.  `LatestUsedHeld` (`HoldsLatestUsed`) under
`NoCollision` (a hit with another source under the same key is a miss that replaces
it): the order of the stamps is a sequence without repetitions (`Order`), and a
thread that missed a key still misses it when it inserts (`Missed`).  `BuiltOnce`
(`BuiltOncePerThread`) for any finite set of threads, whatever the hashes:
`BuildsInv` counts, for a kernel that is not in L2, the threads that built it and
have yet to publish it, and for one that is, those that missed it before.

Only model-checked: liveness (`CallsReturn`, `CallReturns`, `DecodeReturns`,
`StreamEnds`, the fairness part of `ImplementsNotice`), because the prover handles
neither fairness nor ENABLED.  Every other property of the passing runs is the
statement of a theorem, the ones of the runtime under the hypotheses named above.

## 6. Plan

1. The preallocated and sliding-window caches behind `Decoding`, as further
   constants of `KvCache`; beam search over shared caches.
2. Indirect command buffers of the compiled model (`try_replay_icb`): the replayed
   segment against the step loop it replaces.
3. The planned-buffer redirect by byte size across the allocations of one native
   operation, which `RunDispatch` abstracts.
4. The segment caches, and the Vulkan buffer pool.

Proof to add: `ReadbackReturnsOwnData` for fenced steps whose checkpoint is not restored.

## 7. Not modelled

Numeric kernels and their results; buffer contents beyond "right or not"; dtype
conversion; statistics nothing reads back, except the pool's; poisoned locks;
the polling calls of fences; loading of the metallib at start-up; more than one
runtime thread in GpuRuntime, as all its state is thread-local and the GPU queue
is only shared in order.  Of the compiled model: mixed precision and its casts,
profiling, recorded command buffers, and the saturating additions of the planner,
which need sizes near 2^64.  Of generation: samplers, beam search and the other
caches.  `gpu_weight_cache.rs` is a double-checked lock whose `replace` and
`invalidate` only tests call.  Section 1 lists the components left out.
