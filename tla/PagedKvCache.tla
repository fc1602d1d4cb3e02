--------------------------- MODULE PagedKvCache ---------------------------
(***************************************************************************)
(* The paged key/value cache (paged_kv_cache.rs): a pool of pages of        *)
(* PageSize token slots, shared by the layers of all sequences.  Keys and   *)
(* values are written and read together, so one token stands for both.      *)
(***************************************************************************)
EXTENDS Naturals, Sequences

CONSTANTS SeqIds, CacheLayers, Pages, PageSize, Tokens,
          MaxTokens,    \* tokens per layer considered
          Absent

ASSUME PagedAssumption ==
  /\ PageSize \in Nat \ {0}
  /\ MaxTokens \in Nat

ASSUME AbsentAssumption ==
  /\ Absent \notin [CacheLayers -> Seq(Pages)]
  /\ Absent \notin [CacheLayers -> Seq(Tokens)]

VARIABLES layerPages,   \* sequence -> Absent, or layer -> its pages in order
          tokenCounts,  \* sequence -> layer -> tokens appended
          freePages,    \* pages of no sequence; which one is taken is left open
          pagePool      \* page -> slot -> token written last

pagedVars == <<layerPages, tokenCounts, freePages, pagePool>>

PagedInit ==
  /\ layerPages = [s \in SeqIds |-> Absent]
  /\ tokenCounts = [s \in SeqIds |-> [l \in CacheLayers |-> 0]]
  /\ freePages = Pages
  /\ pagePool = [p \in Pages |-> [i \in 0..(PageSize - 1) |-> Absent]]

Active(s) == layerPages[s] # Absent

\* allocate_sequence: a first page for every layer, or an error when the pool
\* has fewer pages than there are layers.
AllocateSequence(s) ==
  /\ ~Active(s)
  /\ \E first \in [CacheLayers -> freePages] :
       /\ \A l, m \in CacheLayers : first[l] = first[m] => l = m
       /\ layerPages' = [layerPages EXCEPT ![s] = [l \in CacheLayers |-> <<first[l]>>]]
       /\ freePages' = freePages \ {first[l] : l \in CacheLayers}
  /\ UNCHANGED <<tokenCounts, pagePool>>

PageFull(s, l) ==
  tokenCounts[s][l] % PageSize = 0 /\ tokenCounts[s][l] > 0

\* append_kv: a new page when the last one is full, an error without effect
\* when there is none.
Written(p, s, l, t) ==
  pagePool' = [pagePool EXCEPT ![p][tokenCounts[s][l] % PageSize] = t]

FirstPage(s, l) == layerPages[s][l][1]
LastPage(s, l) == layerPages[s][l][Len(layerPages[s][l])]

ExpandKeepingFree(s, l, t) ==
  /\ PageFull(s, l)
  /\ \E p \in freePages :
       /\ layerPages' = [layerPages EXCEPT ![s][l] = Append(@, p)]
       /\ UNCHANGED freePages
       /\ Written(p, s, l, t)

Expand(s, l, t) ==
  /\ PageFull(s, l)
  /\ \E p \in freePages :
       /\ layerPages' = [layerPages EXCEPT ![s][l] = Append(@, p)]
       /\ freePages' = freePages \ {p}
       /\ Written(p, s, l, t)

Fill(s, l, t) ==
  /\ ~PageFull(s, l)
  /\ Written(LastPage(s, l), s, l, t)
  /\ UNCHANGED <<layerPages, freePages>>

AppendKv(s, l, t) ==
  /\ Active(s) /\ tokenCounts[s][l] < MaxTokens
  /\ Expand(s, l, t) \/ Fill(s, l, t)
  /\ tokenCounts' = [tokenCounts EXCEPT ![s][l] = @ + 1]

\* free_sequence: every page of every layer goes back.
PagesOfLayer(s, l) == {layerPages[s][l][i] : i \in DOMAIN layerPages[s][l]}

PagesOf(s) == UNION {PagesOfLayer(s, l) : l \in CacheLayers}

FreeSequence(s) ==
  /\ Active(s)
  /\ layerPages' = [layerPages EXCEPT ![s] = Absent]
  /\ tokenCounts' = [tokenCounts EXCEPT ![s] = [l \in CacheLayers |-> 0]]
  /\ freePages' = freePages \union PagesOf(s)
  /\ UNCHANGED pagePool

PagedNext ==
  \E s \in SeqIds :
    \/ AllocateSequence(s)
    \/ FreeSequence(s)
    \/ \E l \in CacheLayers, t \in Tokens : AppendKv(s, l, t)

PagedSpec == PagedInit /\ [][PagedNext]_pagedVars

\* get_kv: the pages in order, each up to PageSize tokens.
SlotOf(k) == (k - 1) % PageSize
PageOf(s, l, k) == layerPages[s][l][(k - 1) \div PageSize + 1]

GetKv(s, l) == [k \in 1..tokenCounts[s][l] |-> pagePool[PageOf(s, l, k)][SlotOf(k)]]
-----------------------------------------------------------------------------
TypeOK ==
  /\ layerPages \in [SeqIds -> [CacheLayers -> Seq(Pages)] \union {Absent}]
  /\ tokenCounts \in [SeqIds -> [CacheLayers -> Nat]]
  /\ freePages \subseteq Pages

InOnePlace ==
  \A s, t \in SeqIds, l, m \in CacheLayers :
    Active(s) /\ Active(t) =>
      \A i \in DOMAIN layerPages[s][l], j \in DOMAIN layerPages[t][m] :
        layerPages[s][l][i] = layerPages[t][m][j] => s = t /\ l = m /\ i = j

FreeInNoPlace == \A s \in SeqIds : Active(s) => PagesOf(s) \cap freePages = {}

NoneLost ==
  \A p \in Pages :
    p \notin freePages => \E s \in SeqIds : Active(s) /\ p \in PagesOf(s)

\* Every page is free or stands in exactly one place: never in two, which
\* would mix two sequences or layers, and never in none, which would be a page
\* lost for good.
EveryPageOnce == InOnePlace /\ FreeInNoPlace /\ NoneLost

Kept(s) == IF Active(s) THEN [l \in CacheLayers |-> GetKv(s, l)] ELSE Absent

Store ==
  INSTANCE TokenStore WITH store <- [s \in SeqIds |-> Kept(s)]

\* get_kv returns exactly what was appended, whatever the other sequences and
\* layers do and however often pages were handed on; a failed call changes
\* nothing that can be read.
ImplementsStore == Store!StoreSpec
=============================================================================
