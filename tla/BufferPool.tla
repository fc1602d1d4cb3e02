----------------------------- MODULE BufferPool -----------------------------
(***************************************************************************)
(* The thread's pool of standalone Metal buffers (buffer_pool.rs), which   *)
(* serves what bypasses or overflows the arena: size classes of entries,   *)
(* each available or issued, a limit per class and a byte budget, and the  *)
(* batch reclaim at the start of a synthesis.                              *)
(***************************************************************************)
EXTENDS Naturals, Sequences

CONSTANTS
  Classes,         \* the number of size classes
  ClassSize,       \* SIZE_CLASSES: the bytes of each, increasing
  MaxPerClass,     \* MAX_PER_CLASS
  MaxPooledBytes,  \* MAX_POOLED_BYTES
  Requests,        \* byte lengths asked of acquire
  OwnReclaim,      \* the program reclaims only what it no longer holds
  MaxCalls         \* bound: calls of acquire counted by the statistics

ASSUME PoolAssumption ==
  /\ Classes \in Nat \ {0}
  /\ ClassSize \in [1..Classes -> Nat \ {0}]
  /\ \A i, j \in 1..Classes : i < j => ClassSize[i] < ClassSize[j]
  /\ MaxPerClass \in Nat /\ MaxPooledBytes \in Nat
  /\ Requests \subseteq Nat /\ OwnReclaim \in BOOLEAN /\ MaxCalls \in Nat

VARIABLES
  available,       \* classes: the available flag of every entry of each
  pooledBytes,
  stats,
  held             \* history: pool buffers the program still holds

vars == <<available, pooledBytes, stats, held>>

Class == 1..Classes
NoStats == [acquisitions |-> 0, hits |-> 0, misses |-> 0, discards |-> 0]

Init ==
  /\ available = [k \in Class |-> <<>>]
  /\ pooledBytes = 0
  /\ stats = NoStats
  /\ held = {}

Count(kind) ==
  /\ stats.acquisitions < MaxCalls
  /\ stats' = [stats EXCEPT !.acquisitions = @ + 1, ![kind] = @ + 1]

\* The first class that is large enough.
ClassForMutant(bytes) ==
  CHOOSE k \in Class : /\ k = Classes \/ bytes < ClassSize[k + 1]
                       /\ k = 1 \/ bytes >= ClassSize[k]
ClassFor(bytes) ==
  CHOOSE k \in Class : /\ bytes <= ClassSize[k]
                       /\ \A j \in 1..k - 1 : bytes > ClassSize[j]

Poolable(bytes) == bytes <= ClassSize[Classes]

Free(k) == {i \in DOMAIN available[k] : available[k][i]}

MayGrowMutant(k) == Len(available[k]) < MaxPerClass
MayGrow(k) ==
  /\ Len(available[k]) < MaxPerClass
  /\ pooledBytes + ClassSize[k] <= MaxPooledBytes

Issued(k, i, bytes) ==
  held' = held \cup {[class |-> k, entry |-> i, bytes |-> bytes]}

\* The entry found first is reused.
ReuseMutant(bytes) ==
  LET k == ClassFor(bytes) IN
  /\ Poolable(bytes) /\ Free(k) # {}
  /\ \E i \in Free(k) :
       /\ \A j \in Free(k) : i <= j
       /\ Issued(k, i, bytes)
  /\ Count("hits")
  /\ UNCHANGED <<available, pooledBytes>>
Reuse(bytes) ==
  LET k == ClassFor(bytes) IN
  /\ Poolable(bytes) /\ Free(k) # {}
  /\ \E i \in Free(k) :
       /\ \A j \in Free(k) : i <= j
       /\ available' = [available EXCEPT ![k][i] = FALSE]
       /\ Issued(k, i, bytes)
  /\ Count("hits")
  /\ UNCHANGED pooledBytes

\* The miss is counted before the buffer is created, which may fail.
Grow(bytes) ==
  LET k == ClassFor(bytes) IN
  /\ Poolable(bytes) /\ Free(k) = {} /\ MayGrow(k)
  /\ Count("misses")
  /\ \/ /\ available' = [available EXCEPT ![k] = Append(@, FALSE)]
        /\ pooledBytes' = pooledBytes + ClassSize[k]
        /\ Issued(k, Len(available[k]) + 1, bytes)
     \/ UNCHANGED <<available, pooledBytes, held>>

\* Oversized, or no room in the class or the budget: a buffer of its own.
Discard(bytes) ==
  /\ Poolable(bytes) =>
       LET k == ClassFor(bytes) IN Free(k) = {} /\ ~MayGrow(k)
  /\ Count("discards")
  /\ UNCHANGED <<available, pooledBytes, held>>

Acquire(bytes) == Reuse(bytes) \/ Grow(bytes) \/ Discard(bytes)

\* The program drops its tensor; the entry stays issued.
Drop ==
  /\ \E b \in held : held' = held \ {b}
  /\ UNCHANGED <<available, pooledBytes, stats>>

\* "Caller MUST ensure no outstanding references to previously issued
\* aliases exist"; held buffers are kept in the history otherwise.
ReclaimAll ==
  /\ OwnReclaim => held = {}
  /\ available' = [k \in Class |-> [i \in DOMAIN available[k] |-> TRUE]]
  /\ UNCHANGED <<pooledBytes, stats, held>>

ResetStats ==
  /\ stats' = NoStats
  /\ UNCHANGED <<available, pooledBytes, held>>

Next ==
  \/ \E bytes \in Requests : Acquire(bytes)
  \/ Drop \/ ReclaimAll \/ ResetStats

Spec == Init /\ [][Next]_vars

-----------------------------------------------------------------------------
\* A buffer the program still holds is marked issued and belongs to one
\* tensor only: acquire never hands it out a second time.
HeldOnce ==
  /\ \A b \in held : /\ b.entry \in DOMAIN available[b.class]
                     /\ ~available[b.class][b.entry]
  /\ \A b, c \in held : b.class = c.class /\ b.entry = c.entry => b = c

\* A buffer from the pool is at least as long as what was asked for.
LargeEnough == \A b \in held : b.bytes <= ClassSize[b.class]

SumTo[k \in 0..Classes] ==
  IF k = 0 THEN 0 ELSE SumTo[k - 1] + Len(available[k]) * ClassSize[k]

WithinLimits ==
  /\ pooledBytes <= MaxPooledBytes
  /\ \A k \in Class : Len(available[k]) <= MaxPerClass

\* The byte count is the sum over the entries and never exceeds the budget,
\* nor a class its limit, also when creating a buffer fails.
WithinBudget == pooledBytes = SumTo[Classes] /\ WithinLimits

\* Tensors of without_arena "remain valid until explicitly dropped": no
\* buffer that is held is issued again.
NotRecycledWhileHeld ==
  [][\A b \in held : b \in held' =>
        ~(available[b.class][b.entry] /\ ~available'[b.class][b.entry])]_vars
=============================================================================
