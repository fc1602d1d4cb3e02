------------------------------ MODULE KvCache ------------------------------
(***************************************************************************)
(* The key/value cache of a decoder (kv_cache.rs, kv_cache_multi.rs): one   *)
(* growing pair of buffers per layer.  A buffer is the sequence of tokens   *)
(* whose keys (or values) it holds; None is a buffer that was taken out to  *)
(* be written and was lost when the write failed.                           *)
(***************************************************************************)
EXTENDS Naturals, Sequences

CONSTANTS NumLayers,
          InitialCapacity,   \* INITIAL_CAPACITY
          MaxSeqCapacity,    \* MAX_SEQ_CAPACITY
          None

ASSUME CacheAssumption ==
  /\ NumLayers \in Nat \ {0}
  /\ InitialCapacity \in Nat \ {0}
  /\ MaxSeqCapacity \in Nat \ {0}

Layers == 1..NumLayers

EmptyLayer == [key |-> None, value |-> None, len |-> 0, capacity |-> 0]

\* slice_set_into at the filled length.
Set(buffer, len, new) == SubSeq(buffer, 1, len) \o new

\* The capacity doubled until it fits.
Doubled(capacity, needed) ==
  LET c[n \in Nat] == IF n = 0 THEN capacity ELSE 2 * c[n - 1]
  IN  c[CHOOSE n \in 0..needed : c[n] >= needed /\ \A m \in 0..needed : m < n => c[m] < needed]

Ok(layer) == [result |-> "ok", layer |-> layer]
Failed(layer) == [result |-> "error", layer |-> layer]
Spins(layer) == [result |-> "spins", layer |-> layer]

Lost(layer) == [layer EXCEPT !.key = None, !.value = None]

\* No buffer yet: allocate both, then write key and value.  Nothing is kept
\* of a failed key; a failed value leaves the key, and len and capacity as
\* they were.
FirstAppend(layer, new) ==
  LET n == Len(new)
  IN  { Ok([key |-> new, value |-> new, len |-> n,
            capacity |-> IF n > InitialCapacity THEN n ELSE InitialCapacity]),
        Failed(layer),
        Failed([layer EXCEPT !.key = new]) }

GrowWithoutCopy(layer, new) ==
  LET needed == layer.len + Len(new)
  IN  IF layer.capacity = 0 THEN {Spins(layer)}
      ELSE IF Doubled(layer.capacity, needed) > MaxSeqCapacity THEN {Failed(layer)}
      ELSE { Ok([key |-> Set(layer.key, layer.len, new),
                 value |-> [i \in 1..layer.len |-> None] \o new,
                 len |-> needed, capacity |-> Doubled(layer.capacity, needed)]) }

\* The buffers are full: both are taken out and copied into larger ones.  With
\* a key buffer but capacity 0 the doubling never ends.
GrowAndAppend(layer, new) ==
  LET needed == layer.len + Len(new)
  IN  IF layer.capacity = 0 THEN {Spins(layer)}
      ELSE IF Doubled(layer.capacity, needed) > MaxSeqCapacity THEN {Failed(layer)}
      ELSE IF layer.value = None THEN {Failed(Lost(layer))}
      ELSE { Ok([key |-> Set(layer.key, layer.len, new),
                 value |-> Set(layer.value, layer.len, new),
                 len |-> needed, capacity |-> Doubled(layer.capacity, needed)]),
             Failed(Lost(layer)) }

\* There is room: both buffers are taken out, the key is written and put back,
\* then the value.
AppendInPlace(layer, new) ==
  IF layer.value = None THEN {Failed(Lost(layer))}
  ELSE LET key == Set(layer.key, layer.len, new)
       IN  { Ok([layer EXCEPT !.key = key, !.value = Set(layer.value, layer.len, new),
                              !.len = layer.len + Len(new)]),
             Failed(Lost(layer)),
             Failed([layer EXCEPT !.key = key, !.value = None]) }

\* KvCacheLayer::append.  A pair that is refused (validate_kv_pair,
\* validate_dims_match) fails before anything is touched; so does, for the
\* layer, a model that fails before it appends to it.
AppendOutcomes(layer, new) ==
  {Failed(layer)} \cup
  (IF layer.key = None THEN FirstAppend(layer, new)
   ELSE IF layer.len + Len(new) > layer.capacity THEN GrowAndAppend(layer, new)
   ELSE AppendInPlace(layer, new))

\* clear keeps the buffers, reset drops them.
Clear(layer) == [layer EXCEPT !.len = 0]
Reset(layer) == EmptyLayer

\* What attention sees.
Keys(layer) == IF layer.key = None THEN <<>> ELSE SubSeq(layer.key, 1, layer.len)
Values(layer) == IF layer.value = None THEN <<>> ELSE SubSeq(layer.value, 1, layer.len)

\* KvCache::seq_len: the length of the first layer that is not empty.
SeqLen(cache) ==
  LET filled == {l \in Layers : cache[l].len > 0}
  IN  IF filled = {} THEN 0
      ELSE cache[CHOOSE l \in filled : \A m \in filled : l <= m].len
=============================================================================
