----------------------------- MODULE GpuRuntime -----------------------------
(***************************************************************************)
(* The Metal runtime of one thread (nn-metal): the lazily created command  *)
(* batch every operation is encoded into, the batch submitted without      *)
(* waiting, caller-held fences, the thread's activation arenas, and the    *)
(* transfer of a tensor back to the CPU, against a GPU that runs committed *)
(* batches one after the other at its own pace.                            *)
(*                                                                         *)
(* Everything is thread-local except the GPU queue, so the interleaving is *)
(* between the thread, call by call and wait by wait, and the GPU.         *)
(*                                                                         *)
(* The client is any program that makes the calls in Calls and respects    *)
(* what their documentation asks of it (MayUse, MayRead).  The data of a   *)
(* tensor is abstracted to one bit, membership in intact: whether the      *)
(* memory of the tensor holds what its operation was to compute.  Arenas   *)
(* are counted in slots, one per tensor; bytes are ActivationArena's.      *)
(***************************************************************************)
EXTENDS Integers, Sequences

CONSTANTS
  Calls,           \* what the client calls, a subset of AllCalls
  Failures,        \* what goes wrong, a subset of AllFailures
  MaxLazy,         \* MAX_LAZY_ENCODINGS
  ArenaSlots,      \* slots of the first slab of the default arena
  ExplicitSlots,   \* slots of the arena given to with_arena
  PoolSlots,       \* buffers the pool keeps (MAX_PER_CLASS, MAX_POOLED_BYTES)
  PlannedRanges,   \* ranges of the planned buffer of a compiled model
  MaxTensors,      \* bound: tensors created
  MaxSlabs,        \* bound: slabs of the default arena
  MaxBatches,      \* bound: command buffers created
  MaxGeneration    \* bound: generations reached by explicit resets

AllCalls == {"submit", "sync", "flush", "readback", "clone", "fence",
             "scopeError", "bypass", "explicit", "decode", "step", "reset",
             "normalize", "reclaim"}
AllFailures == {"gpuError", "timeout", "encodeError"}

ASSUME RuntimeAssumption ==
  /\ Calls \subseteq AllCalls /\ Failures \subseteq AllFailures
  /\ MaxLazy \in Nat \ {0} /\ ArenaSlots \in Nat \ {0}
  /\ ExplicitSlots \in Nat /\ PoolSlots \in Nat /\ PlannedRanges \in Nat
  /\ MaxTensors \in Nat /\ MaxSlabs \in Nat /\ MaxBatches \in Nat /\ MaxGeneration \in Nat

VARIABLES
  \* thread-locals of gpu_scope.rs
  lazy,            \* LAZY_BATCH
  encodingCount,   \* ENCODING_COUNT
  pending,         \* PENDING: a batch number, 0 for none
  \* thread-locals of arena_scope.rs
  arena,           \* DEFAULT_ARENA
  explicit,        \* the arena the client passes to with_arena
  issued,          \* BUFFER_POOL: entries issued since the last reclaim
  inExplicit,      \* ARENA is set
  bypass,          \* ARENA_BYPASS
  decodeGen,       \* DECODE_SCOPE_GEN
  \* the call the thread is in
  pc, call,
  waiting,         \* the batch it is blocked on, 0 for none
  draft,           \* the tensor an operation is producing
  \* what the client holds
  tensors,         \* every tensor it was given, in order
  fences,          \* batches it holds a GpuFence for
  saved,           \* the arena checkpoint of the compiled step it is in
  \* the GPU
  batches,         \* every committed batch: its state and operations
  queue,           \* those not finished, in commit order
  executed,        \* operations of the first one already executed
  intact,
  \* history
  abandoned,       \* batches whose handle was dropped incomplete, and how
  freed,           \* tensors whose memory the client gave up
  unwaited,        \* tensors of fences the client has not waited for
  reported,        \* some call returned an error of the GPU
  outcome          \* how the last call ended

batchVars == <<lazy, encodingCount, pending>>
arenaVars == <<arena, explicit, issued, inExplicit, bypass, decodeGen>>
callVars == <<pc, call, waiting, draft>>
clientVars == <<tensors, fences, saved>>
gpuVars == <<batches, queue, executed, intact>>
historyVars == <<abandoned, freed, unwaited, reported, outcome>>
vars == <<batchVars, arenaVars, callVars, clientVars, gpuVars, historyVars>>

NoGen == -1
NoBatch == [open |-> FALSE, ops |-> <<>>]
NoCall == [op |-> "none", target |-> 0, fresh |-> FALSE]
NoDraft == [home |-> <<"own", 0, 0>>, gen |-> NoGen, src |-> 0,
            standalone |-> FALSE]
NotSaved == [gen |-> NoGen, off |-> 0, first |-> 0]
NoOutcome == [op |-> "none", result |-> "none", right |-> TRUE, fresh |-> FALSE,
              isExplicit |-> FALSE]

Ids == DOMAIN tensors
Elements(s) == {s[i] : i \in DOMAIN s}
Unfinished == {b \in DOMAIN batches : batches[b].state = "committed"}
Incomplete == {b \in DOMAIN batches : batches[b].state # "completed"}
Dropped(b, how) == [batch |-> b, how |-> how]

Init ==
  /\ lazy = NoBatch /\ encodingCount = 0 /\ pending = 0
  /\ arena = [exists |-> FALSE, slab |-> 1, cap |-> ArenaSlots, off |-> 0,
              gen |-> 0]
  /\ explicit = [off |-> 0, gen |-> 0] /\ issued = 0
  /\ inExplicit = FALSE /\ bypass = FALSE /\ decodeGen = NoGen
  /\ pc = "idle" /\ call = NoCall /\ waiting = 0 /\ draft = NoDraft
  /\ tensors = <<>> /\ fences = {} /\ saved = NotSaved
  /\ batches = <<>> /\ queue = <<>> /\ executed = 0 /\ intact = {}
  /\ abandoned = {} /\ freed = {} /\ unwaited = {} /\ reported = FALSE
  /\ outcome = NoOutcome

-----------------------------------------------------------------------------
(* The client's side of the contract.                                      *)

\* An arena tensor may feed a GPU operation until the arena it came from is
\* reset ("no outstanding references to arena memory exist").
MayUse(t) ==
  /\ t \notin freed
  /\ \/ tensors[t].gen = NoGen
     \/ tensors[t].home[1] = "explicit"
     \/ tensors[t].gen = arena.gen

\* The output of a fenced batch is read only once the fence was waited for.
MayRead(t) == t \notin freed /\ t \notin unwaited

Idle(c) == pc = "idle" /\ c \in Calls

Return(op, result) ==
  /\ pc' = "idle" /\ call' = NoCall
  /\ outcome' = [NoOutcome EXCEPT !.op = op, !.result = result]

-----------------------------------------------------------------------------
(* Command buffers.                                                        *)

\* commit: the open batch goes to the back of the GPU's queue.
Commit ==
  /\ batches' = Append(batches, [state |-> "committed", ops |-> lazy.ops])
  /\ queue' = Append(queue, Len(batches) + 1)
  /\ lazy' = NoBatch
  /\ UNCHANGED <<executed, intact>>

Committed == Len(batches) + 1
DoneMutant(b) == b # 0 /\ batches[b].state # "committed"
Done(b) == b # 0 /\ batches[b].state = "completed"

ResetArenaMutant == [arena EXCEPT !.off = 0]
ResetArena ==
  IF arena.exists THEN [arena EXCEPT !.off = 0, !.gen = @ + 1] ELSE arena

\* submit, sync, flush, readback and the exit of with_gpu_scope all start by
\* taking PENDING and waiting for it.
BeginSync(op, t) ==
  /\ waiting' = pending /\ pending' = 0
  /\ pc' = "sync"
  /\ call' = [op |-> op, target |-> t, fresh |-> t \in Elements(lazy.ops)]
  /\ outcome' = NoOutcome
  /\ UNCHANGED <<lazy, encodingCount, arenaVars, draft, clientVars, gpuVars,
                 abandoned, freed, unwaited, reported>>

\* submit without its leading sync
BeginSubmitMutant ==
  /\ Idle("submit")
  /\ pc' = "commit" /\ call' = [NoCall EXCEPT !.op = "submit"]
  /\ outcome' = NoOutcome
  /\ UNCHANGED <<batchVars, arenaVars, waiting, draft, clientVars, gpuVars,
                 abandoned, freed, unwaited, reported>>
BeginSubmit == Idle("submit") /\ BeginSync("submit", 0)
BeginSyncCall == Idle("sync") /\ BeginSync("sync", 0)
BeginFlush == Idle("flush") /\ BeginSync("flush", 0)
BeginReadback ==
  /\ Idle("readback")
  /\ \E t \in Ids : MayRead(t) /\ BeginSync("readback", t)

\* The arena is reset only if a batch was waited for.
SyncReturns ==
  /\ pc = "sync"
  /\ waiting = 0 \/ Done(waiting)
  /\ arena' = IF waiting = 0 THEN arena ELSE ResetArena
  /\ waiting' = 0
  /\ IF call.op = "sync"
     THEN Return("sync", "ok")
     ELSE pc' = "commit" /\ UNCHANGED <<call, outcome>>
  /\ UNCHANGED <<batchVars, explicit, issued, inExplicit, bypass, decodeGen, draft,
                 clientVars, gpuVars, abandoned, freed, unwaited, reported>>

CommitSubmitted ==
  /\ pc = "commit" /\ call.op = "submit"
  /\ IF lazy.open
     THEN Commit /\ pending' = Committed /\ encodingCount' = 0
     ELSE UNCHANGED <<batchVars, gpuVars>>
  /\ Return("submit", "ok")
  /\ UNCHANGED <<arenaVars, waiting, draft, clientVars, abandoned, freed,
                 unwaited, reported>>

\* Without an open batch flush is done; a readback goes on to the transfer.
CommitFlushed ==
  /\ pc = "commit" /\ call.op \in {"flush", "readback"}
  /\ IF lazy.open
     THEN /\ Commit /\ waiting' = Committed /\ encodingCount' = 0
          /\ pc' = "flush" /\ UNCHANGED <<pending, call, outcome>>
     ELSE /\ UNCHANGED <<batchVars, gpuVars, waiting>>
          /\ IF call.op = "flush"
             THEN Return("flush", "ok")
             ELSE pc' = "read" /\ UNCHANGED <<call, outcome>>
  /\ UNCHANGED <<arenaVars, draft, clientVars, abandoned, freed, unwaited,
                 reported>>

\* flush without its wait
FlushReturnsMutant ==
  /\ pc = "flush"
  /\ arena' = ResetArena
  /\ waiting' = 0
  /\ unwaited' = {}
  /\ IF call.op = "flush"
     THEN Return("flush", "ok")
     ELSE pc' = "read" /\ UNCHANGED <<call, outcome>>
  /\ UNCHANGED <<batchVars, explicit, issued, inExplicit, bypass, decodeGen, draft,
                 clientVars, gpuVars, abandoned, freed, reported>>
\* Batches run in commit order, so those committed earlier, behind fences
\* too, are complete.
FlushReturns ==
  /\ pc = "flush" /\ Done(waiting)
  /\ arena' = ResetArena
  /\ waiting' = 0
  /\ unwaited' = {}
  /\ IF call.op = "flush"
     THEN Return("flush", "ok")
     ELSE pc' = "read" /\ UNCHANGED <<call, outcome>>
  /\ UNCHANGED <<batchVars, explicit, issued, inExplicit, bypass, decodeGen, draft,
                 clientVars, gpuVars, abandoned, freed, reported>>

\* a wait without the 60 seconds
WaitFailsMutant ==
  /\ pc \in {"sync", "flush", "rotate", "fence"} /\ waiting # 0
  /\ batches[waiting].state = "error"
  /\ waiting' = 0 /\ draft' = NoDraft
  /\ reported' = TRUE
  /\ Return(call.op, "error")
  /\ UNCHANGED <<batchVars, arenaVars, clientVars, gpuVars, abandoned, freed,
                 unwaited>>
\* Every wait ends with an error when the batch failed, or after 60 seconds.
WaitFails ==
  /\ pc \in {"sync", "flush", "rotate", "fence"} /\ waiting # 0
  /\ \/ batches[waiting].state = "error" /\ UNCHANGED abandoned
     \/ /\ "timeout" \in Failures /\ batches[waiting].state = "committed"
        /\ abandoned' = abandoned \cup {Dropped(waiting, "timeout")}
  /\ waiting' = 0 /\ draft' = NoDraft
  /\ reported' = TRUE
  /\ Return(call.op, "error")
  /\ UNCHANGED <<batchVars, arenaVars, clientVars, gpuVars, freed, unwaited>>

-----------------------------------------------------------------------------
(* Transfer to the CPU.                                                    *)

\* gpu_to_cpu refuses a tensor of an earlier generation of the default
\* arena, unless the decode scope covers it.
OutOfDate(t) ==
  LET g == tensors[t].gen IN
  /\ g # NoGen /\ arena.exists
  /\ \/ arena.gen > g + 1
     \/ arena.gen = g + 1 /\ arena.off > 0
Stale(t) == OutOfDate(t) /\ ~(decodeGen # NoGen /\ tensors[t].gen >= decodeGen)

Read ==
  /\ pc = "read"
  /\ pc' = "idle" /\ call' = NoCall
  /\ LET t == call.target IN
     outcome' = [op |-> "readback", fresh |-> call.fresh,
                 result |-> IF Stale(t) THEN "stale" ELSE "ok",
                 right |-> t \in intact,
                 isExplicit |-> tensors[t].home[1] = "explicit"]
  /\ UNCHANGED <<batchVars, arenaVars, waiting, draft, clientVars, gpuVars,
                 abandoned, freed, unwaited, reported>>

\* clone_buffer reads without flushing, guarded by the encoding count.  The
\* client clones no tensor the arena has moved past.
Clone ==
  /\ Idle("clone")
  /\ \E t \in Ids :
       /\ MayRead(t) /\ ~OutOfDate(t)
       /\ outcome' = [NoOutcome EXCEPT !.op = "clone",
            !.result = IF encodingCount # 0 THEN "flushRequired" ELSE "ok",
            !.right = t \in intact]
  /\ UNCHANGED <<batchVars, arenaVars, callVars, clientVars, gpuVars,
                 abandoned, freed, unwaited, reported>>

-----------------------------------------------------------------------------
(* An operation: allocate the output, make sure a batch is open, encode.   *)

\* pool_acquire reuses an entry that is available, grows the pool, or falls
\* back to a buffer outside it.  Entries become available together only, so
\* those issued are the first ones.
PoolRoute == IF issued < PoolSlots THEN "pool" ELSE "own"

\* a bypass that stands above the explicit arena only
RouteMutant(planned) ==
  CASE planned # 0 -> "planned"
    [] planned = 0 /\ inExplicit ->
         IF ~bypass /\ explicit.off < ExplicitSlots THEN "explicit" ELSE PoolRoute
    [] OTHER -> "slab"
\* arena_alloc_or_create: the without_arena bypass first, then the planned
\* buffer of a compiled step, the explicit arena (a pool buffer when it is
\* full), the default arena.
Route(planned) ==
  CASE bypass -> PoolRoute
    [] ~bypass /\ planned # 0 -> "planned"
    [] ~bypass /\ planned = 0 /\ inExplicit ->
         IF explicit.off < ExplicitSlots THEN "explicit" ELSE PoolRoute
    [] OTHER -> "slab"

GrownArena == [arena EXCEPT !.slab = @ + 1, !.cap = 2 * @, !.off = 1]
ArenaAfterAlloc ==
  IF arena.off < arena.cap
  THEN [arena EXCEPT !.exists = TRUE, !.off = @ + 1]
  ELSE [GrownArena EXCEPT !.exists = TRUE]

\* The place of an output: kind of memory, slab, and slot in it.
Home(route, planned) ==
  CASE route = "own" -> <<"own", Len(tensors) + 1, 0>>
    [] route = "pool" -> <<"pool", 0, issued + 1>>
    [] route = "planned" -> <<"planned", 0, planned>>
    [] route = "explicit" -> <<"explicit", 0, explicit.off + 1>>
    [] route = "slab" -> <<"slab", ArenaAfterAlloc.slab, ArenaAfterAlloc.off>>

\* The output, stamped with the generation of the arena it is in, if any.
Allocated(route, planned, src) ==
  [home |-> Home(route, planned),
   gen |-> CASE route = "explicit" -> explicit.gen
             [] route = "slab" -> arena.gen
             [] OTHER -> NoGen,
   src |-> src, standalone |-> bypass]

\* an entry that acquire leaves available
IssuedAfterMutant(route) == issued
IssuedAfter(route) == IF route = "pool" THEN issued + 1 ELSE issued

InStep == saved.first # 0

\* The planner gives a range to an output only after the last use of what was
\* there.
FreeRanges ==
  {r \in 1..PlannedRanges :
     \A t \in Ids : tensors[t].home = <<"planned", 0, r>> => t \in freed}

\* ensure_batch commits a full batch and waits for it; the arena is kept.
MustRotate == lazy.open /\ encodingCount >= MaxLazy

BeginEncode ==
  /\ pc = "idle" /\ Len(tensors) < MaxTensors
  /\ lazy.open \/ Len(batches) < MaxBatches
  /\ MustRotate => Len(batches) + 1 < MaxBatches
  /\ \E src \in {0} \cup {t \in Ids : MayUse(t)},
        planned \in {0} \cup IF InStep THEN FreeRanges ELSE {} :
       LET route == Route(planned) IN
       /\ route = "slab" /\ arena.off = arena.cap => arena.slab < MaxSlabs
       /\ draft' = Allocated(route, planned, src)
       /\ arena' = IF route = "slab" THEN ArenaAfterAlloc ELSE arena
       /\ explicit' = IF route = "explicit"
                      THEN [explicit EXCEPT !.off = @ + 1] ELSE explicit
       /\ issued' = IssuedAfter(route)
  /\ IF MustRotate
     THEN Commit /\ waiting' = Committed /\ pc' = "rotate"
     ELSE UNCHANGED <<lazy, gpuVars, waiting>> /\ pc' = "encode"
  /\ call' = [NoCall EXCEPT !.op = "encode"]
  /\ outcome' = NoOutcome
  /\ UNCHANGED <<encodingCount, pending, inExplicit, bypass, decodeGen,
                 clientVars, abandoned, freed, unwaited, reported>>

RotatedArenaMutant == ResetArena
RotatedArena == arena

RotateReturns ==
  /\ pc = "rotate" /\ Done(waiting)
  /\ encodingCount' = 0
  /\ waiting' = 0 /\ pc' = "encode"
  /\ arena' = RotatedArena
  /\ UNCHANGED <<lazy, pending, explicit, issued, inExplicit, bypass, decodeGen,
                 call, draft, clientVars, gpuVars, historyVars>>

CountAfterEncodeMutant == IF lazy.open THEN encodingCount + 1 ELSE 0
\* A batch opened here starts its count again.
CountAfterEncode == IF lazy.open THEN encodingCount + 1 ELSE 1

Encode ==
  /\ pc = "encode"
  /\ tensors' = Append(tensors, draft)
  /\ lazy' = [open |-> TRUE, ops |-> Append(lazy.ops, Len(tensors) + 1)]
  /\ encodingCount' = CountAfterEncode
  /\ draft' = NoDraft
  /\ Return("encode", "ok")
  /\ UNCHANGED <<pending, arenaVars, waiting, fences, saved, gpuVars,
                 abandoned, freed, unwaited, reported>>

\* The encoder refuses the operation after the batch was opened and counted.
EncodeRejected ==
  /\ pc = "encode" /\ "encodeError" \in Failures
  /\ lazy' = [lazy EXCEPT !.open = TRUE]
  /\ encodingCount' = CountAfterEncode
  /\ draft' = NoDraft
  /\ Return("encode", "error")
  /\ UNCHANGED <<pending, arenaVars, waiting, clientVars, gpuVars, abandoned,
                 freed, unwaited, reported>>

\* An output of a compiled model is copied to a buffer of its own by one more
\* operation of the open batch, which is not counted; it needs a batch.
NormalizeOutput ==
  /\ Idle("normalize") /\ Len(tensors) < MaxTensors
  /\ \E src \in {t \in Ids : MayUse(t)} :
       IF lazy.open
       THEN /\ tensors' = Append(tensors, Allocated("own", 0, src))
            /\ lazy' = [lazy EXCEPT !.ops = Append(@, Len(tensors) + 1)]
            /\ Return("normalize", "ok")
       ELSE UNCHANGED <<tensors, lazy>> /\ Return("normalize", "error")
  /\ UNCHANGED <<encodingCount, pending, arenaVars, waiting, draft, fences,
                 saved, gpuVars, abandoned, freed, unwaited, reported>>

-----------------------------------------------------------------------------
(* Scopes, fences and resets.                                              *)

\* A failing with_gpu_scope, or a failing non-blocking execution, discards
\* the open batch and the handle of the pending one.
ScopeError ==
  /\ Idle("scopeError")
  /\ lazy' = NoBatch /\ encodingCount' = 0
  /\ abandoned' = IF pending \in Incomplete
                  THEN abandoned \cup {Dropped(pending, "discard")}
                  ELSE abandoned
  /\ pending' = 0
  /\ freed' = freed \cup Elements(lazy.ops)
  /\ outcome' = NoOutcome
  /\ UNCHANGED <<arenaVars, callVars, clientVars, gpuVars, unwaited, reported>>

SubmitFence ==
  /\ Idle("fence") /\ lazy.open
  /\ Commit
  /\ encodingCount' = 0
  /\ fences' = fences \cup {Committed}
  /\ unwaited' = unwaited \cup Elements(lazy.ops)
  /\ outcome' = NoOutcome
  /\ UNCHANGED <<pending, arenaVars, callVars, tensors, saved, abandoned,
                 freed, reported>>

BeginFenceWait ==
  /\ Idle("fence")
  /\ \E b \in fences : waiting' = b /\ fences' = fences \ {b}
  /\ pc' = "fence"
  /\ call' = [NoCall EXCEPT !.op = "fence"]
  /\ outcome' = NoOutcome
  /\ UNCHANGED <<batchVars, arenaVars, draft, tensors, saved, gpuVars,
                 abandoned, freed, unwaited, reported>>

FenceReturns ==
  /\ pc = "fence" /\ Done(waiting)
  /\ unwaited' = unwaited \ Elements(batches[waiting].ops)
  /\ waiting' = 0
  /\ Return("fence", "ok")
  /\ UNCHANGED <<batchVars, arenaVars, draft, clientVars, gpuVars, abandoned,
                 freed, reported>>

\* A fence may be dropped without waiting, as the segment pipeline does.
DropFence ==
  /\ Idle("fence")
  /\ \E b \in fences :
       /\ fences' = fences \ {b}
       /\ abandoned' = IF b \in Incomplete
                       THEN abandoned \cup {Dropped(b, "fence")}
                       ELSE abandoned
  /\ outcome' = NoOutcome
  /\ UNCHANGED <<batchVars, arenaVars, callVars, tensors, saved, gpuVars,
                 freed, unwaited, reported>>

ToggleBypass ==
  /\ Idle("bypass")
  /\ bypass' = ~bypass
  /\ outcome' = NoOutcome
  /\ UNCHANGED <<batchVars, arena, explicit, issued, inExplicit, decodeGen,
                 callVars, clientVars, gpuVars, abandoned, freed, unwaited, reported>>

\* Entering or leaving the outermost with_arena; inner ones do nothing, and a
\* compiled step does neither.
ToggleExplicit ==
  /\ Idle("explicit") /\ ~InStep
  /\ inExplicit' = ~inExplicit
  /\ outcome' = NoOutcome
  /\ UNCHANGED <<batchVars, arena, explicit, issued, bypass, decodeGen,
                 callVars, clientVars, gpuVars, abandoned, freed, unwaited, reported>>

\* Entering or leaving the outermost with_decode_scope.
ToggleDecode ==
  /\ Idle("decode")
  /\ decodeGen' = IF decodeGen = NoGen THEN arena.gen ELSE NoGen
  /\ outcome' = NoOutcome
  /\ UNCHANGED <<batchVars, arena, explicit, issued, inExplicit, bypass,
                 callVars, clientVars, gpuVars, abandoned, freed, unwaited, reported>>

\* The owner resets its arena outside the scope, or through
\* try_reset_active_arena inside it, once it is done with its tensors; not in
\* the middle of a compiled step.
ResetExplicit ==
  /\ Idle("explicit") /\ ~InStep /\ explicit.gen < MaxGeneration
  /\ inExplicit => ~bypass
  /\ explicit' = [off |-> 0, gen |-> explicit.gen + 1]
  /\ freed' = freed \cup {t \in Ids : tensors[t].home[1] = "explicit"}
  /\ outcome' = NoOutcome
  /\ UNCHANGED <<batchVars, arena, issued, inExplicit, bypass, decodeGen,
                 callVars, clientVars, gpuVars, abandoned, unwaited, reported>>

\* try_reset_active_arena outside with_arena: the default arena is reset at
\* once, whatever the open batch and the GPU still have to do with it.
TryReset ==
  /\ Idle("reset") /\ arena.gen < MaxGeneration
  /\ ~bypass /\ ~inExplicit
  /\ arena' = ResetArena
  /\ outcome' = NoOutcome
  /\ UNCHANGED <<batchVars, explicit, issued, inExplicit, bypass, decodeGen,
                 callVars, clientVars, gpuVars, abandoned, freed, unwaited,
                 reported>>

\* pool_reclaim, at the start of a synthesis, once the client is done with the
\* buffers it was issued; the GPU may not be.
ReclaimPool ==
  /\ Idle("reclaim") /\ ~InStep /\ issued # 0
  /\ issued' = 0
  /\ freed' = freed \cup {t \in Ids : tensors[t].home[1] = "pool"}
  /\ outcome' = NoOutcome
  /\ UNCHANGED <<batchVars, arena, explicit, inExplicit, bypass, decodeGen,
                 callVars, clientVars, gpuVars, abandoned, unwaited, reported>>

\* The compiled step is past the last operation that reads a planned range.
GiveUpPlanned ==
  /\ Idle("step") /\ InStep
  /\ \E r \in 1..PlannedRanges \ FreeRanges :
       freed' = freed \cup {t \in Ids : tensors[t].home = <<"planned", 0, r>>}
  /\ outcome' = NoOutcome
  /\ UNCHANGED <<batchVars, arenaVars, callVars, clientVars, gpuVars, abandoned,
                 unwaited, reported>>

\* A compiled step checkpoints the default arena, computes temporaries in it
\* and its output in the planned buffer, and restores the checkpoint.
BeginStep ==
  /\ Idle("step") /\ ~InStep
  /\ saved' = [gen |-> IF arena.exists THEN arena.gen ELSE NoGen,
               off |-> arena.off, first |-> Len(tensors) + 1]
  /\ outcome' = NoOutcome
  /\ UNCHANGED <<batchVars, arenaVars, callVars, tensors, fences, gpuVars,
                 abandoned, freed, unwaited, reported>>

Restorable == saved.gen = arena.gen /\ saved.off <= arena.off

EndStep ==
  /\ Idle("step") /\ InStep
  /\ arena' = IF Restorable THEN [arena EXCEPT !.off = saved.off] ELSE arena
  /\ freed' = freed \cup {t \in Ids : /\ t >= saved.first
                                      /\ tensors[t].home[1] = "slab"}
  /\ saved' = NotSaved
  /\ outcome' = NoOutcome
  /\ UNCHANGED <<batchVars, explicit, issued, inExplicit, bypass, decodeGen,
                 callVars, tensors, fences, gpuVars, abandoned, unwaited, reported>>

\* A step that fails leaves the bump pointer where it is.
AbandonStep ==
  /\ Idle("step") /\ InStep
  /\ saved' = NotSaved
  /\ outcome' = NoOutcome
  /\ UNCHANGED <<batchVars, arenaVars, callVars, tensors, fences, gpuVars,
                 abandoned, freed, unwaited, reported>>

-----------------------------------------------------------------------------
(* The GPU (external): one serial queue.                                   *)

Running == queue[1]

\* An operation overwrites whatever its output's memory held.
GpuExecute ==
  /\ queue # <<>> /\ executed < Len(batches[Running].ops)
  /\ executed' = executed + 1
  /\ LET t == batches[Running].ops[executed + 1] IN
     intact' = {u \in intact : tensors[u].home # tensors[t].home}
               \cup (IF tensors[t].src \in intact \cup {0} THEN {t} ELSE {})
  /\ UNCHANGED <<batchVars, arenaVars, callVars, clientVars, batches, queue,
                 historyVars>>

GpuFinish(state) ==
  /\ queue # <<>>
  /\ batches' = [batches EXCEPT ![Running].state = state]
  /\ queue' = Tail(queue)
  /\ executed' = 0
  /\ UNCHANGED <<batchVars, arenaVars, callVars, clientVars, intact,
                 historyVars>>

GpuComplete ==
  queue # <<>> /\ executed = Len(batches[Running].ops)
  /\ GpuFinish("completed")

GpuFail == "gpuError" \in Failures /\ GpuFinish("error")

Gpu == GpuExecute \/ GpuComplete \/ GpuFail

-----------------------------------------------------------------------------
\* The steps a call takes once it has begun.
Continue ==
  \/ SyncReturns \/ CommitSubmitted \/ CommitFlushed \/ FlushReturns
  \/ WaitFails \/ Read \/ RotateReturns \/ Encode \/ EncodeRejected
  \/ FenceReturns

Begin ==
  \/ BeginSubmit \/ BeginSyncCall \/ BeginFlush \/ BeginReadback
  \/ BeginEncode \/ BeginFenceWait

Immediate ==
  \/ Clone \/ ScopeError \/ SubmitFence \/ DropFence
  \/ ToggleBypass \/ ToggleExplicit \/ ToggleDecode
  \/ ResetExplicit \/ TryReset \/ ReclaimPool \/ GiveUpPlanned
  \/ BeginStep \/ EndStep \/ AbandonStep \/ NormalizeOutput

Next == Begin \/ Immediate \/ Continue \/ Gpu

Spec == Init /\ [][Next]_vars

\* The thread keeps running; nothing is assumed of the GPU.
FairSpec == Spec /\ WF_vars(Continue)

-----------------------------------------------------------------------------
(* What the runtime promises.                                              *)

\* gpu_to_cpu returns what the tensor's operation computed, or an error:
\* never the data of another tensor that was given the same memory, nor
\* memory the GPU has yet to write.
ReadbackReturnsOwnData ==
  outcome.op = "readback" /\ outcome.result = "ok" => outcome.right

\* A tensor of the batch that gpu_to_cpu itself flushes is not stale.
FreshReadNeverStale ==
  outcome.op = "readback" /\ outcome.fresh => outcome.result # "stale"

\* Tensors of an arena given to with_arena are not refused before that arena
\* is reset.
ExplicitNeverStale ==
  outcome.op = "readback" /\ outcome.isExplicit => outcome.result # "stale"

\* clone_buffer refuses to read what the GPU has yet to write.
CloneReturnsOwnData ==
  outcome.op = "clone" /\ outcome.result = "ok" => outcome.right

\* No committed batch is lost track of: the pending handle, the wait in
\* progress or a fence covers it, unless its handle was dropped.
Accounted ==
  Unfinished \subseteq {pending, waiting} \cup fences
                      \cup {a.batch : a \in abandoned}

\* The encoding count, the guard of clone_buffer, is 0 exactly when no batch is
\* open, whatever took the last batch, a refused operation and an error
\* included.
CountMatchesBatch == pc # "rotate" => (encodingCount # 0 <=> lazy.open)

\* After a successful flush the encoding count is 0.
CountResetOnFlush ==
  outcome.op = "flush" /\ outcome.result = "ok" => encodingCount = 0

\* No command buffer holds more than MAX_LAZY_ENCODINGS operations.
BatchBounded ==
  /\ Len(lazy.ops) <= MaxLazy
  /\ \A b \in DOMAIN batches : Len(batches[b].ops) <= MaxLazy

\* The arena is reset when all GPU work encoded so far is complete.
ResetAfterAllWork ==
  [][arena'.gen > arena.gen => lazy.ops = <<>> /\ Unfinished = {}]_vars

\* Discarding the pending batch without waiting is safe for the arena: the
\* arena is reset only after that batch has finished too, whatever is
\* submitted, rotated or timed out in between.
DiscardedFinishFirst ==
  [][arena'.gen > arena.gen =>
       \A a \in abandoned : a.how = "discard" => a.batch \notin Unfinished]_vars

\* After a successful flush every encoded operation has completed.
FlushCompletesAll ==
  outcome.op = "flush" /\ outcome.result = "ok" =>
    lazy.ops = <<>> /\ Unfinished = {}

\* What is allocated inside without_arena is not recycled by an arena, and
\* like every buffer that carries no generation, which gpu_to_cpu therefore
\* never refuses, it keeps its data until its holder gives it up: the pool and
\* the planned buffer hand memory out again while earlier operations that
\* write to it may still be queued.
StandaloneStayValid ==
  [][\A t \in intact \ freed' :
       tensors[t].standalone \/ tensors[t].gen = NoGen => t \in intact']_vars

\* Wrong data is read as good only if a call reported a GPU failure before, or
\* the handle of a batch that did not complete was dropped, or the fence of
\* such a batch is still to be waited for: no failure vanishes in the runtime.
CorruptionWasReported ==
  outcome.op = "readback" /\ outcome.result = "ok" /\ ~outcome.right =>
    reported \/ abandoned # {} \/ fences \cap Incomplete # {}

\* Every call returns, even if the GPU hangs.
CallsReturn == pc # "idle" ~> pc = "idle"
=============================================================================
