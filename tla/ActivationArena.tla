-------------------------- MODULE ActivationArena --------------------------
(***************************************************************************)
(* The bump-pointer arena of nn-metal (arena.rs): one Metal buffer (a      *)
(* "slab") from which activation tensors are sub-allocated at 256-byte     *)
(* aligned offsets, automatic growth into a larger slab, checkpoints that  *)
(* free the temporaries of one compiled step, and reset.                   *)
(*                                                                         *)
(* The calls are those of the thread-local default arena (arena_scope.rs), *)
(* whose checkpoints are guarded by the generation.  Checkpoints are taken *)
(* and restored by scopes (a step of run_steps_inner, the RAII guard of    *)
(* compiled_kokoro_chorus.rs), so they nest.                               *)
(*                                                                         *)
(* Bytes are kept as numbers because the properties are about overlap.     *)
(* The growth and overflow statistics, which no call reads, are left out.  *)
(***************************************************************************)
EXTENDS Naturals, Sequences

CONSTANTS
  Sizes,           \* byte lengths clients request from alloc
  EnsureSizes,     \* byte lengths clients pass to ensure_capacity
  InitCapacity,    \* capacity given to new
  Align,           \* METAL_BUFFER_ALIGNMENT
  MaxViews,        \* bound: allocations in one generation
  MaxSlabs,        \* bound: slabs created in a behaviour
  MaxGeneration,   \* bound: resets
  MaxCheckpoints   \* bound: nesting of checkpoints

ASSUME ArenaAssumption ==
  /\ Sizes \subseteq Nat \ {0}
  /\ EnsureSizes \subseteq Nat
  /\ InitCapacity \in Nat \ {0}
  /\ Align \in Nat \ {0}
  /\ MaxViews \in Nat /\ MaxSlabs \in Nat
  /\ MaxGeneration \in Nat /\ MaxCheckpoints \in Nat

VARIABLES
  slab,            \* number of the current buffer
  capacity,        \* its length in bytes
  offset,          \* the bump pointer
  generation,
  totalAllocated,
  peakBytes,
  autoGrow,
  retired,         \* retired_slabs, as slab numbers
  checkpoints,     \* saved (offset, generation) pairs, innermost last
  live,            \* history: the views a client may still use
  nextId,          \* history: identity of the next view of this generation
  ensured          \* history: bytes promised by an ensure_capacity just made

vars == <<slab, capacity, offset, generation, totalAllocated, peakBytes,
          autoGrow, retired, checkpoints, live, nextId, ensured>>

Maximum(a, b) == IF a >= b THEN a ELSE b

SaturatingSubMutant(a, b) == a - b
SaturatingSub(a, b) == IF a >= b THEN a - b ELSE 0

-----------------------------------------------------------------------------
AlignUpMutant(x) == x - (x % Align)
AlignUp(x) == x + ((Align - (x % Align)) % Align)

Fits(len) == AlignUp(offset) + len <= capacity

GrownCapacityMutant(len) == 2 * capacity
GrownCapacity(len) == Maximum(2 * capacity, len + Align)

Init ==
  /\ slab = 1
  /\ capacity = InitCapacity
  /\ offset = 0
  /\ generation = 0
  /\ totalAllocated = 0
  /\ peakBytes = 0
  /\ autoGrow = FALSE
  /\ retired = {}
  /\ checkpoints = <<>>
  /\ live = {}
  /\ nextId = 0
  /\ ensured = 0

\* What every successful allocation does besides moving the bump pointer.
Served(len, start) ==
  /\ nextId < MaxViews
  /\ totalAllocated' = totalAllocated + len
  /\ peakBytes' = Maximum(peakBytes, totalAllocated')
  /\ live' = live \cup {[id |-> nextId, slab |-> slab', start |-> start,
                         len |-> len, cap |-> capacity',
                         generation |-> generation]}
  /\ nextId' = nextId + 1
  /\ ensured' = 0
  /\ UNCHANGED <<generation, autoGrow, checkpoints>>

AllocInSlab(len) ==
  /\ Fits(len)
  /\ offset' = AlignUp(offset) + len
  /\ UNCHANGED <<slab, capacity, retired>>
  /\ Served(len, AlignUp(offset))

GrowAndAlloc(len) ==
  /\ autoGrow
  /\ ~Fits(len)
  /\ slab < MaxSlabs
  /\ slab' = slab + 1
  /\ capacity' = GrownCapacity(len)
  /\ retired' = retired \cup {slab}
  /\ offset' = len
  /\ Served(len, 0)

\* ArenaOverflow: the caller falls back to a buffer outside the arena.
AllocOverflow(len) ==
  /\ ~autoGrow
  /\ ~Fits(len)
  /\ ensured' = 0
  /\ UNCHANGED <<slab, capacity, offset, generation, totalAllocated,
                 peakBytes, autoGrow, retired, checkpoints, live, nextId>>

Alloc(len) == AllocInSlab(len) \/ GrowAndAlloc(len) \/ AllocOverflow(len)

\* reset reclaims every view; one that is still referenced may be
\* overwritten from now on, so none is left in live.
Reset ==
  /\ generation < MaxGeneration
  /\ offset' = 0
  /\ totalAllocated' = 0
  /\ retired' = {}
  /\ generation' = generation + 1
  /\ live' = {}
  /\ nextId' = 0
  /\ ensured' = 0
  /\ UNCHANGED <<slab, capacity, peakBytes, autoGrow, checkpoints>>

EnoughRemaining(min) == SaturatingSub(capacity, offset) >= min

RetireUsedMutant == retired
RetireUsed == IF offset > 0 THEN retired \cup {slab} ELSE retired

EnsureCapacity(min) ==
  /\ IF EnoughRemaining(min)
     THEN UNCHANGED <<slab, capacity, retired, offset>>
     ELSE /\ slab < MaxSlabs
          /\ slab' = slab + 1
          /\ capacity' = Maximum(min, capacity)
          /\ retired' = RetireUsed
          /\ offset' = 0
  /\ ensured' = min
  /\ UNCHANGED <<generation, totalAllocated, peakBytes, autoGrow, checkpoints,
                 live, nextId>>

-----------------------------------------------------------------------------
\* kept, a history component, is what the client may use after the restore.
Checkpoint ==
  /\ Len(checkpoints) < MaxCheckpoints
  /\ checkpoints' = Append(checkpoints,
       [offset |-> offset, generation |-> generation, slab |-> slab,
        kept |-> live])
  /\ ensured' = 0
  /\ UNCHANGED <<slab, capacity, offset, generation, totalAllocated,
                 peakBytes, autoGrow, retired, live, nextId>>

Innermost == checkpoints[Len(checkpoints)]
Outer == SubSeq(checkpoints, 1, Len(checkpoints) - 1)

\* restore_default_arena acts only if no reset came in between, and ignores
\* the error of restore_checkpoint for an offset above the bump pointer,
\* which growth can bring about.
RestorableMutant(c) == c.offset <= offset
Restorable(c) == c.generation = generation /\ c.offset <= offset

Restore ==
  /\ checkpoints # <<>>
  /\ checkpoints' = Outer
  /\ IF Restorable(Innermost)
     THEN /\ offset' = Innermost.offset
          /\ totalAllocated' =
               SaturatingSub(totalAllocated, offset - Innermost.offset)
     ELSE UNCHANGED <<offset, totalAllocated>>
  /\ live' = IF Innermost.generation = generation
             THEN live \cap Innermost.kept ELSE live
  /\ ensured' = 0
  /\ UNCHANGED <<slab, capacity, generation, peakBytes, autoGrow, retired,
                 nextId>>

\* A step that returns early with an error leaves its checkpoint unrestored.
AbandonCheckpoint ==
  /\ checkpoints # <<>>
  /\ checkpoints' = Outer
  /\ ensured' = 0
  /\ UNCHANGED <<slab, capacity, offset, generation, totalAllocated,
                 peakBytes, autoGrow, retired, live, nextId>>

\* The default arena is created with auto-grow on; the owner of an explicit
\* one may turn it on at any time.
SetAutoGrow ==
  /\ ~autoGrow
  /\ autoGrow' = TRUE
  /\ ensured' = 0
  /\ UNCHANGED <<slab, capacity, offset, generation, totalAllocated,
                 peakBytes, retired, checkpoints, live, nextId>>

Next ==
  \/ SetAutoGrow
  \/ \E len \in Sizes : Alloc(len)
  \/ \E min \in EnsureSizes : EnsureCapacity(min)
  \/ Reset
  \/ Checkpoint
  \/ Restore
  \/ AbandonCheckpoint

Spec == Init /\ [][Next]_vars

-----------------------------------------------------------------------------
View == [id : Nat, slab : Nat, start : Nat, len : Nat \ {0}, cap : Nat,
         generation : Nat]

Saved == [offset : Nat, generation : Nat, slab : Nat, kept : SUBSET View]

\* The arena's fields are naturals and the history variables hold views.
TypeOK ==
  /\ slab \in Nat /\ capacity \in Nat /\ offset \in Nat
  /\ generation \in Nat /\ totalAllocated \in Nat /\ peakBytes \in Nat
  /\ nextId \in Nat /\ ensured \in Nat /\ autoGrow \in BOOLEAN
  /\ retired \subseteq Nat
  /\ live \subseteq View
  /\ checkpoints \in Seq(Saved)

Regions == INSTANCE RegionAllocator

\* Two views a client may use at the same time never share a byte, whatever
\* mixture of growth, pre-sizing, nested checkpoints and resets came before:
\* alloc never returns memory that an earlier live view still covers.
NoOverlap == Regions!Exclusive

\* The buffer under a live view is the current slab or is held in
\* retired_slabs, through any sequence of growth and pre-sizing, and the view
\* lies inside it; in particular the slab a growth creates "is guaranteed to
\* fit" the request that caused it.
LiveSlabsHeld ==
  \A v \in live : /\ v.slab = slab \/ v.slab \in retired
                  /\ v.start + v.len <= v.cap

\* The arena does what RegionAllocator promises: each allocation is disjoint
\* from everything live, and views disappear only by restore and reset.
ImplementsRegions == Regions!Spec

\* ensure_capacity(n), then an allocation of at most n bytes: neither grows
\* nor overflows.
EnsureAvoidsGrowth ==
  [][\A len \in Sizes : ensured >= len /\ Alloc(len) => AllocInSlab(len)]_vars
=============================================================================
