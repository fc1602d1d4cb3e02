--------------------------- MODULE PipelineCache ----------------------------
(***************************************************************************)
(* The two-tier cache of compiled kernels (cache.rs): a cache per thread   *)
(* (L1), least-recently-used entry evicted first, in front of one cache    *)
(* shared by all threads (L2), in front of the precompiled library and the *)
(* compiler.  Threads meet at the read and the write lock of L2.           *)
(*                                                                         *)
(* A pipeline is represented by the source it was built from.  The access  *)
(* generations of L1 are kept as the order they define, oldest key first.  *)
(***************************************************************************)
EXTENDS Naturals, Sequences, FiniteSets

CONSTANTS
  Threads,
  Sources,         \* kernel sources
  Flavours,        \* FALSE for get_or_compile, TRUE for get_or_compile_icb
  Hash,            \* hash_key of each
  Entry,           \* entry_point of each
  Specialized,     \* the sources with function constants
  Precompiled,     \* the sources the metallib was built from
  MaxEntries,      \* max_entries of L1
  SharedMax        \* SHARED_MAX_ENTRIES

ASSUME CacheAssumption ==
  /\ Specialized \subseteq Sources /\ Precompiled \subseteq Sources
  /\ DOMAIN Hash = Sources /\ DOMAIN Entry = Sources
  /\ MaxEntries \in Nat /\ SharedMax \in Nat \ {0}

VARIABLES
  l1,              \* per thread: key -> stored source and pipeline
  recency,         \* per thread: access_gen as keys, oldest first
  l2,              \* SharedPipelineCache: key -> pipeline
  tpc,             \* where each thread's call is
  want,            \* the source and flavour it asks for
  built,           \* the pipeline it has yet to publish
  got,             \* history: what its last call returned
  used,            \* history: per thread, the keys used last, in order
  builds           \* history: builds of each key since L2 last lost it

vars == <<l1, recency, l2, tpc, want, built, got, used, builds>>

\* ICB pipelines live under keys of their own.
Key(w) == <<Hash[w.source], w.icb>>
Wants == [source : Sources, icb : Flavours]
Keys == {Key(w) : w \in Wants}
Empty == [k \in {} |-> 0]
Nothing == [result |-> "none"]
NoWant == CHOOSE w \in Wants : TRUE
NotBuilt == [result |-> "none"]

Without(f, k) == [j \in DOMAIN f \ {k} |-> f[j]]
With(f, k, v) == [j \in DOMAIN f \cup {k} |-> IF j = k THEN v ELSE f[j]]

\* access_gen without a key, which is there at most once, and with it stamped
\* last.
Removed(order, k) ==
  IF \A i \in DOMAIN order : order[i] # k THEN order
  ELSE LET at == CHOOSE i \in DOMAIN order : order[i] = k
       IN [i \in 1..Len(order) - 1 |-> IF i < at THEN order[i] ELSE order[i + 1]]
Stamped(order, k) == Append(Removed(order, k), k)

LocalRoom == IF MaxEntries = 0 THEN 1 ELSE MaxEntries
UsedNow(order, k) ==
  LET q == Stamped(order, k) IN IF Len(q) > LocalRoom THEN Tail(q) ELSE q

Init ==
  /\ l1 = [t \in Threads |-> Empty]
  /\ recency = [t \in Threads |-> <<>>]
  /\ l2 = Empty
  /\ tpc = [t \in Threads |-> "idle"]
  /\ want = [t \in Threads |-> NoWant]
  /\ built = [t \in Threads |-> NotBuilt]
  /\ got = [t \in Threads |-> Nothing]
  /\ used = [t \in Threads |-> <<>>]
  /\ builds = [k \in Keys |-> 0]

-----------------------------------------------------------------------------
Go(t, where) == tpc' = [tpc EXCEPT ![t] = where]

Return(t, outcome) ==
  /\ Go(t, "idle")
  /\ want' = [want EXCEPT ![t] = NoWant]
  /\ got' = [got EXCEPT ![t] = outcome]

Answer(t, pipeline) ==
  [result |-> "ok", want |-> want[t], pipeline |-> pipeline]

\* evict_lru takes the entry used last for the oldest one
VictimMutant(t) == recency[t][Len(recency[t])]
Victim(t) == Head(recency[t])

\* insert_l1: make room when full, then insert and stamp.
InsertL1(t, pipeline) ==
  LET k == Key(want[t])
      full == Cardinality(DOMAIN l1[t]) >= MaxEntries /\ recency[t] # <<>>
      kept == IF full THEN Without(l1[t], Victim(t)) ELSE l1[t]
      order == IF full THEN Removed(recency[t], Victim(t)) ELSE recency[t]
  IN
  /\ l1' = [l1 EXCEPT ![t] = With(kept, k,
              [source |-> want[t].source, pipeline |-> pipeline])]
  /\ recency' = [recency EXCEPT ![t] = Stamped(order, k)]
  /\ used' = [used EXCEPT ![t] = UsedNow(@, k)]

-----------------------------------------------------------------------------
Begin(t, w) ==
  /\ tpc[t] = "idle"
  /\ want' = [want EXCEPT ![t] = w]
  /\ Go(t, "local")
  /\ got' = [got EXCEPT ![t] = Nothing]
  /\ UNCHANGED <<l1, recency, l2, built, used, builds>>

\* A hit counts only if the stored source is the one asked for.
Hit(t) ==
  LET k == Key(want[t]) IN
  k \in DOMAIN l1[t] /\ l1[t][k].source = want[t].source

LookLocal(t) ==
  /\ tpc[t] = "local"
  /\ LET k == Key(want[t]) IN
     IF Hit(t)
     THEN /\ recency' = [recency EXCEPT ![t] = Stamped(@, k)]
          /\ used' = [used EXCEPT ![t] = UsedNow(@, k)]
          /\ Return(t, Answer(t, l1[t][k].pipeline))
     ELSE Go(t, "shared") /\ UNCHANGED <<recency, want, got, used>>
  /\ UNCHANGED <<l1, l2, built, builds>>

LookShared(t) ==
  /\ tpc[t] = "shared"
  /\ LET k == Key(want[t]) IN
     IF k \in DOMAIN l2
     THEN /\ InsertL1(t, l2[k])
          /\ Return(t, Answer(t, l2[k]))
     ELSE Go(t, "build") /\ UNCHANGED <<l1, recency, want, got, used>>
  /\ UNCHANGED <<l2, built, builds>>

\* sources with constants are served from the library too
InLibraryMutant(w) == {s \in Precompiled : Entry[s] = Entry[w.source] /\ ~w.icb}
\* The library is searched by entry point, for sources without constants.
InLibrary(w) ==
  {s \in Precompiled : /\ Entry[s] = Entry[w.source]
                       /\ w.source \notin Specialized /\ ~w.icb}

\* One lock-free stretch: library or compiler, then insert_l1.
Build(t) ==
  /\ tpc[t] = "build"
  /\ LET w == want[t]
         k == Key(w) IN
     \/ \E s \in IF InLibrary(w) # {} THEN InLibrary(w) ELSE {w.source} :
          LET pipeline == [source |-> s, icb |-> w.icb] IN
          /\ InsertL1(t, pipeline)
          /\ built' = [built EXCEPT ![t] = pipeline]
          /\ builds' = [builds EXCEPT ![k] = @ + 1]
          /\ Go(t, "publish") /\ UNCHANGED <<want, got>>
     \/ /\ InLibrary(w) = {}
        /\ Return(t, [result |-> "error"])
        /\ UNCHANGED <<l1, recency, built, used, builds>>
  /\ UNCHANGED l2

\* At the limit an arbitrary entry makes room, even for a key already there.
Room ==
  IF Cardinality(DOMAIN l2) < SharedMax THEN {l2}
  ELSE {Without(l2, old) : old \in DOMAIN l2}

PublishedMutant(t, cache) == cache
Published(t, cache) == With(cache, Key(want[t]), built[t])

Publish(t) ==
  /\ tpc[t] = "publish"
  /\ \E cache \in Room : l2' = Published(t, cache)
  /\ builds' = [k \in Keys |-> IF k \in DOMAIN l2 \ DOMAIN l2' THEN 0
                              ELSE builds[k]]
  /\ Return(t, Answer(t, built[t]))
  /\ built' = [built EXCEPT ![t] = NotBuilt]
  /\ UNCHANGED <<l1, recency, used>>

Next ==
  \E t \in Threads :
    \/ \E w \in Wants : Begin(t, w)
    \/ LookLocal(t) \/ LookShared(t) \/ Build(t) \/ Publish(t)

Spec == Init /\ [][Next]_vars

-----------------------------------------------------------------------------
Elements(q) == {q[i] : i \in DOMAIN q}

\* A call returns the pipeline of the source it was given, in the flavour it
\* asked for, whichever tier it comes from and whatever other threads
\* publish meanwhile.
ReturnsOwnPipeline ==
  \A t \in Threads : got[t].result = "ok" => got[t].pipeline = got[t].want

\* L1 holds the pipelines its thread used last, as many as it has room for,
\* and the stamps tell the order of their use.
HoldsLatestUsed ==
  \A t \in Threads : DOMAIN l1[t] = Elements(used[t]) /\ recency[t] = used[t]

\* L2 stays within its limit, and until it evicts a kernel, that kernel is
\* built at most once per thread: by those that missed it before the first of
\* them published it.
BuiltOncePerThread ==
  /\ Cardinality(DOMAIN l2) <= SharedMax
  /\ \A k \in Keys : builds[k] <= Cardinality(Threads)
=============================================================================
