------------------------- MODULE GenerationProofs --------------------------
(***************************************************************************)
(* Text generation, for any number of layers, tokens, pages and calls.      *)
(*                                                                         *)
(* The paged cache: no page of the pool is ever in two places, and none is  *)
(* lost.  EveryPageOnce is inductive together with the types:               *)
(* allocate_sequence and append_kv move pages from the free list to one     *)
(* place each, and free_sequence moves all pages of a sequence back.  The   *)
(* cache implements TokenStore with the tokens counted and the slots        *)
(* written added to it (RInv).                                              *)
(*                                                                         *)
(* The decode loops: every output token is predicted from the prompt and    *)
(* the output before it.  The invariant (DecodingInv) says what a pass was  *)
(* started with: all layers held the same tokens H, its input continues H,  *)
(* and the layers below the next one hold H and the input.  H is nothing    *)
(* before the prompt and the context of the last token before a guess, as   *)
(* long as no draft was rejected.                                           *)
(***************************************************************************)
EXTENDS PagedKvCache, Decoding, SequenceTheorems, FiniteSetTheorems, TLAPS

PInv == TypeOK /\ EveryPageOnce

LEMMA ActiveType ==
  ASSUME TypeOK, NEW s \in SeqIds
  PROVE  /\ Active(s) => layerPages[s] \in [CacheLayers -> Seq(Pages)]
         /\ layerPages[s] \in [CacheLayers -> Seq(Pages)] => Active(s)
BY AbsentAssumption DEF TypeOK, Active

LEMMA InitPInv == PagedInit => PInv
<1> SUFFICES ASSUME PagedInit PROVE PInv
  OBVIOUS
<1>1. TypeOK
  BY DEF PagedInit, TypeOK
<1>2. \A s \in SeqIds : ~Active(s)
  BY DEF PagedInit, Active
<1> QED
  BY <1>1, <1>2
     DEF PagedInit, PInv, EveryPageOnce, InOnePlace, FreeInNoPlace, NoneLost

-----------------------------------------------------------------------------
\* allocate_sequence puts distinct free pages into the layers of s.
LEMMA AllocatePInv ==
  ASSUME PInv, NEW s \in SeqIds, AllocateSequence(s)
  PROVE  PInv'
<1>1. PICK first \in [CacheLayers -> freePages] :
        /\ \A l, m \in CacheLayers : first[l] = first[m] => l = m
        /\ layerPages' = [layerPages EXCEPT ![s] = [l \in CacheLayers |-> <<first[l]>>]]
        /\ freePages' = freePages \ {first[l] : l \in CacheLayers}
  BY DEF AllocateSequence
<1>2. /\ layerPages \in [SeqIds -> [CacheLayers -> Seq(Pages)] \union {Absent}]
      /\ freePages \subseteq Pages /\ ~Active(s)
      /\ tokenCounts' = tokenCounts
  BY DEF PInv, TypeOK, AllocateSequence
<1>3. [l \in CacheLayers |-> <<first[l]>>] \in [CacheLayers -> Seq(Pages)]
  BY <1>2
<1>4. TypeOK'
  BY <1>1, <1>2, <1>3 DEF PInv, TypeOK
<1>5. \A t \in SeqIds : t # s => layerPages'[t] = layerPages[t] /\ (Active(t)' <=> Active(t))
  BY <1>1, <1>2 DEF Active
<1>6. layerPages'[s] = [l \in CacheLayers |-> <<first[l]>>] /\ Active(s)'
  BY <1>1, <1>2, <1>3, AbsentAssumption DEF Active
<1>7. \A t \in SeqIds : t # s => PagesOf(t)' = PagesOf(t)
  BY <1>5 DEF PagesOf, PagesOfLayer
<1>8. \A u : u = s => PagesOf(u)' = {first[l] : l \in CacheLayers}
  BY <1>6 DEF PagesOf, PagesOfLayer
<1>9. \A l \in CacheLayers : first[l] \in freePages
  OBVIOUS
<1>10. InOnePlace'
  <2> SUFFICES ASSUME NEW t \in SeqIds, NEW u \in SeqIds,
                      NEW l \in CacheLayers, NEW m \in CacheLayers,
                      Active(t)', Active(u)',
                      NEW i \in DOMAIN layerPages'[t][l],
                      NEW j \in DOMAIN layerPages'[u][m],
                      layerPages'[t][l][i] = layerPages'[u][m][j]
               PROVE  t = u /\ l = m /\ i = j
    BY DEF InOnePlace
  <2>1. CASE t # s /\ u # s
    BY <2>1, <1>5 DEF PInv, EveryPageOnce, InOnePlace
  <2>2. CASE t = s /\ u = s
    BY <2>2, <1>1, <1>6
  <2>3. CASE t = s /\ u # s
    <3>1. layerPages'[t][l][i] \in freePages
      BY <2>3, <1>6, <1>9
    <3>2. layerPages'[u][m][j] \in PagesOf(u) /\ Active(u)
      BY <2>3, <1>5 DEF PagesOf, PagesOfLayer
    <3> QED BY <3>1, <3>2 DEF PInv, EveryPageOnce, FreeInNoPlace
  <2>4. CASE t # s /\ u = s
    <3>1. layerPages'[u][m][j] \in freePages
      BY <2>4, <1>6, <1>9
    <3>2. layerPages'[t][l][i] \in PagesOf(t) /\ Active(t)
      BY <2>4, <1>5 DEF PagesOf, PagesOfLayer
    <3> QED BY <3>1, <3>2 DEF PInv, EveryPageOnce, FreeInNoPlace
  <2> QED BY <2>1, <2>2, <2>3, <2>4
<1>11. FreeInNoPlace'
  BY <1>1, <1>5, <1>7, <1>8 DEF PInv, EveryPageOnce, FreeInNoPlace
<1>12. NoneLost'
  <2> SUFFICES ASSUME NEW p \in Pages, p \notin freePages'
               PROVE  \E t \in SeqIds : Active(t)' /\ p \in PagesOf(t)'
    BY DEF NoneLost
  <2>1. CASE p \in freePages
    BY <2>1, <1>1, <1>6, <1>8
  <2>2. CASE p \notin freePages
    <3>1. PICK t \in SeqIds : Active(t) /\ p \in PagesOf(t)
      BY <2>2 DEF PInv, EveryPageOnce, NoneLost
    <3> QED BY <3>1, <1>2, <1>5, <1>7
  <2> QED BY <2>1, <2>2
<1> QED BY <1>4, <1>10, <1>11, <1>12 DEF PInv, EveryPageOnce

\* append_kv on a full page puts one free page behind the pages of the layer.
LEMMA ExpandPInv ==
  ASSUME PInv, NEW s \in SeqIds, NEW l \in CacheLayers, NEW t \in Tokens,
         Active(s), Expand(s, l, t),
         tokenCounts' = [tokenCounts EXCEPT ![s][l] = @ + 1]
  PROVE  PInv'
<1>1. PICK p \in freePages :
        /\ layerPages' = [layerPages EXCEPT ![s][l] = Append(@, p)]
        /\ freePages' = freePages \ {p}
  BY DEF Expand
<1> DEFINE pages == layerPages[s][l]
<1>2. /\ layerPages \in [SeqIds -> [CacheLayers -> Seq(Pages)] \union {Absent}]
      /\ tokenCounts \in [SeqIds -> [CacheLayers -> Nat]]
      /\ freePages \subseteq Pages
      /\ layerPages[s] \in [CacheLayers -> Seq(Pages)]
  BY ActiveType DEF PInv, TypeOK
<1>3. pages \in Seq(Pages) /\ p \in Pages /\ Append(pages, p) \in Seq(Pages)
  BY <1>2
<1>4. layerPages'[s] = [layerPages[s] EXCEPT ![l] = Append(pages, p)]
  BY <1>1, <1>2
<1>5. \A r \in SeqIds : r # s => layerPages'[r] = layerPages[r] /\ (Active(r)' <=> Active(r))
  BY <1>1, <1>2 DEF Active
<1>6. layerPages'[s] \in [CacheLayers -> Seq(Pages)]
  BY <1>2, <1>3, <1>4
<1>7. TypeOK'
  <2>1. layerPages' \in [SeqIds -> [CacheLayers -> Seq(Pages)] \union {Absent}]
    BY <1>1, <1>2, <1>4, <1>6
  <2> QED BY <1>1, <1>2, <2>1 DEF TypeOK
<1>8. /\ layerPages'[s][l] = Append(pages, p)
      /\ \A m \in CacheLayers : m # l => layerPages'[s][m] = layerPages[s][m]
  BY <1>2, <1>4
<1>9. \A u : u = s => PagesOf(u)' = PagesOf(u) \union {p}
  <2>1. {Append(pages, p)[i] : i \in DOMAIN Append(pages, p)}
          = {pages[i] : i \in DOMAIN pages} \union {p}
    <3>1. /\ DOMAIN Append(pages, p) = 1..(Len(pages) + 1)
          /\ DOMAIN pages = 1..Len(pages) /\ Len(pages) \in Nat
          /\ \A i \in 1..Len(pages) : Append(pages, p)[i] = pages[i]
          /\ Append(pages, p)[Len(pages) + 1] = p
      BY <1>3, AppendProperties, LenProperties
    <3>2. \A i \in DOMAIN Append(pages, p) :
            Append(pages, p)[i] \in {pages[j] : j \in DOMAIN pages} \union {p}
      BY <3>1
    <3>3. \A i \in DOMAIN pages :
            i \in DOMAIN Append(pages, p) /\ Append(pages, p)[i] = pages[i]
      BY <3>1
    <3>4. Len(pages) + 1 \in DOMAIN Append(pages, p)
      BY <3>1
    <3> HIDE DEF pages
    <3> QED BY <3>1, <3>2, <3>3, <3>4
  <2>2. \A u, m : u = s /\ m = l =>
          PagesOfLayer(u, m)' = PagesOfLayer(s, l) \union {p}
    BY <1>8, <2>1 DEF PagesOfLayer
  <2>3. \A u : \A m \in CacheLayers : u = s /\ m # l =>
          PagesOfLayer(u, m)' = PagesOfLayer(s, m)
    BY <1>8 DEF PagesOfLayer
  <2> QED BY <2>2, <2>3 DEF PagesOf
<1>10. \A r \in SeqIds : r # s => PagesOf(r)' = PagesOf(r)
  BY <1>5 DEF PagesOf, PagesOfLayer
<1>11. \A r \in SeqIds : Active(r)' <=> Active(r)
  BY <1>5, <1>6, AbsentAssumption DEF Active
\* Every place but the new one is an old place with its old page.
<1>12. \A r \in SeqIds, m \in CacheLayers :
         Active(r) => \A i \in DOMAIN layerPages'[r][m] :
           \/ i \in DOMAIN layerPages[r][m] /\ layerPages'[r][m][i] = layerPages[r][m][i]
           \/ r = s /\ m = l /\ i = Len(pages) + 1 /\ layerPages'[r][m][i] = p
  <2>1. /\ DOMAIN Append(pages, p) = 1..(Len(pages) + 1)
        /\ DOMAIN pages = 1..Len(pages) /\ Len(pages) \in Nat
        /\ \A i \in 1..Len(pages) : Append(pages, p)[i] = pages[i]
        /\ Append(pages, p)[Len(pages) + 1] = p
    BY <1>3, AppendProperties, LenProperties
  <2> QED BY <1>5, <1>8, <2>1
<1>13. \A r \in SeqIds, m \in CacheLayers :
         Active(r) => \A i \in DOMAIN layerPages[r][m] : layerPages[r][m][i] # p
  BY DEF PInv, EveryPageOnce, FreeInNoPlace, PagesOf, PagesOfLayer
<1>14. InOnePlace'
  <2> SUFFICES ASSUME NEW r \in SeqIds, NEW u \in SeqIds,
                      NEW k \in CacheLayers, NEW m \in CacheLayers,
                      Active(r), Active(u),
                      NEW i \in DOMAIN layerPages'[r][k],
                      NEW j \in DOMAIN layerPages'[u][m],
                      layerPages'[r][k][i] = layerPages'[u][m][j]
               PROVE  r = u /\ k = m /\ i = j
    BY <1>11 DEF InOnePlace
  <2> QED BY <1>12, <1>13 DEF PInv, EveryPageOnce, InOnePlace
<1>15. FreeInNoPlace'
  BY <1>1, <1>9, <1>10, <1>11 DEF PInv, EveryPageOnce, FreeInNoPlace
<1>16. NoneLost'
  <2> SUFFICES ASSUME NEW q \in Pages, q \notin freePages'
               PROVE  \E r \in SeqIds : Active(r)' /\ q \in PagesOf(r)'
    BY DEF NoneLost
  <2>1. CASE q = p
    BY <2>1, <1>9, <1>11
  <2>2. CASE q # p
    <3>1. PICK r \in SeqIds : Active(r) /\ q \in PagesOf(r)
      BY <2>2, <1>1 DEF PInv, EveryPageOnce, NoneLost
    <3> QED BY <3>1, <1>9, <1>10, <1>11
  <2> QED BY <2>1, <2>2
<1> QED BY <1>7, <1>14, <1>15, <1>16 DEF PInv, EveryPageOnce

\* Steps that move no page.
LEMMA SamePagesPInv ==
  ASSUME PInv, UNCHANGED <<layerPages, freePages>>,
         tokenCounts' \in [SeqIds -> [CacheLayers -> Nat]]
  PROVE  PInv'
<1>1. \A s \in SeqIds : (Active(s)' <=> Active(s)) /\ PagesOf(s)' = PagesOf(s)
  BY DEF Active, PagesOf, PagesOfLayer
<1> QED
  BY <1>1 DEF PInv, TypeOK, EveryPageOnce, InOnePlace, FreeInNoPlace, NoneLost

\* free_sequence gives all pages of s back.
LEMMA FreePInv ==
  ASSUME PInv, NEW s \in SeqIds, FreeSequence(s)
  PROVE  PInv'
<1>1. /\ Active(s)
      /\ layerPages' = [layerPages EXCEPT ![s] = Absent]
      /\ tokenCounts' = [tokenCounts EXCEPT ![s] = [l \in CacheLayers |-> 0]]
      /\ freePages' = freePages \union PagesOf(s)
  BY DEF FreeSequence
<1>2. /\ layerPages \in [SeqIds -> [CacheLayers -> Seq(Pages)] \union {Absent}]
      /\ layerPages[s] \in [CacheLayers -> Seq(Pages)]
  BY <1>1, ActiveType DEF PInv, TypeOK
<1>3. PagesOf(s) \subseteq Pages
  <2> SUFFICES ASSUME NEW l \in CacheLayers, NEW i \in DOMAIN layerPages[s][l]
               PROVE  layerPages[s][l][i] \in Pages
    BY DEF PagesOf, PagesOfLayer
  <2> QED BY <1>2
<1>4. TypeOK'
  BY <1>1, <1>2, <1>3 DEF PInv, TypeOK
<1>5. \A r \in SeqIds : r # s => layerPages'[r] = layerPages[r] /\ (Active(r)' <=> Active(r))
  BY <1>1, <1>2 DEF Active
<1>6. \A r \in SeqIds : r = s => ~Active(r)'
  BY <1>1, <1>2 DEF Active
<1>7. \A r \in SeqIds : r # s => PagesOf(r)' = PagesOf(r)
  BY <1>5 DEF PagesOf, PagesOfLayer
<1>8. \A r \in SeqIds : r # s /\ Active(r) => PagesOf(r) \cap PagesOf(s) = {}
  BY <1>1 DEF PInv, EveryPageOnce, InOnePlace, PagesOf, PagesOfLayer
<1>9. InOnePlace'
  BY <1>5, <1>6 DEF PInv, EveryPageOnce, InOnePlace
<1>10. FreeInNoPlace'
  BY <1>1, <1>5, <1>6, <1>7, <1>8 DEF PInv, EveryPageOnce, FreeInNoPlace
<1>11. NoneLost'
  BY <1>1, <1>5, <1>7 DEF PInv, EveryPageOnce, NoneLost
<1> QED BY <1>4, <1>9, <1>10, <1>11 DEF PInv, EveryPageOnce

LEMMA StepPInv == PInv /\ [PagedNext]_pagedVars => PInv'
<1> SUFFICES ASSUME PInv, [PagedNext]_pagedVars PROVE PInv'
  OBVIOUS
<1>1. CASE UNCHANGED pagedVars
  <2>1. UNCHANGED <<layerPages, freePages, tokenCounts>>
    BY <1>1 DEF pagedVars
  <2> QED BY <2>1, SamePagesPInv DEF PInv, TypeOK
<1>2. ASSUME NEW s \in SeqIds, AllocateSequence(s) PROVE PInv'
  BY <1>2, AllocatePInv
<1>3. ASSUME NEW s \in SeqIds, FreeSequence(s) PROVE PInv'
  BY <1>3, FreePInv
<1>4. ASSUME NEW s \in SeqIds, NEW l \in CacheLayers, NEW t \in Tokens,
             AppendKv(s, l, t)
      PROVE  PInv'
  <2>1. /\ Active(s)
        /\ tokenCounts' = [tokenCounts EXCEPT ![s][l] = @ + 1]
    BY <1>4 DEF AppendKv
  <2>2. CASE Expand(s, l, t)
    BY <2>1, <2>2, ExpandPInv
  <2>3. CASE Fill(s, l, t)
    <3>1. tokenCounts' \in [SeqIds -> [CacheLayers -> Nat]]
      BY <2>1 DEF PInv, TypeOK
    <3>2. UNCHANGED <<layerPages, freePages>>
      BY <2>3 DEF Fill
    <3> QED BY <3>1, <3>2, SamePagesPInv
  <2> QED BY <1>4, <2>2, <2>3 DEF AppendKv
<1> QED BY <1>1, <1>2, <1>3, <1>4 DEF PagedNext

LEMMA PagedInvariant == PagedSpec => []PInv
BY InitPInv, StepPInv, PTL DEF PagedSpec

\* For any pool, page size, sequences and layers: every page is free or in
\* exactly one place.
THEOREM PagesAccounted == PagedSpec => []EveryPageOnce
<1>1. PInv => EveryPageOnce
  BY DEF PInv
<1> QED BY <1>1, PagedInvariant, PTL

\* The fields of the cache have their types.
THEOREM TypeCorrect == PagedSpec => []TypeOK
<1>1. PInv => TypeOK
  BY DEF PInv
<1> QED BY <1>1, PagedInvariant, PTL
-----------------------------------------------------------------------------
\* Division by the page size: the token after the n-th goes to page
\* n \div PageSize, slot n % PageSize.
LEMMA Division ==
  ASSUME NEW x \in Int, NEW y \in Int, y > 0
  PROVE  x = y * (x \div y) + (x % y)
OBVIOUS

LEMMA DivMod ==
  ASSUME NEW x \in Nat
  PROVE  /\ x \div PageSize \in Nat /\ x % PageSize \in 0..(PageSize - 1)
         /\ x = PageSize * (x \div PageSize) + (x % PageSize)
<1>1. x \div PageSize \in Nat /\ x % PageSize \in 0..(PageSize - 1)
  BY PagedAssumption
<1>2. x = PageSize * (x \div PageSize) + (x % PageSize)
  BY Division, PagedAssumption
<1> QED BY <1>1, <1>2

LEMMA PagesApart ==
  ASSUME NEW a \in Nat, NEW b \in Nat, a < b
  PROVE  PageSize * a + PageSize <= PageSize * b
<1>1. PICK d \in Nat : b = a + 1 + d
  <2>1. b - a - 1 \in Nat /\ b = a + 1 + (b - a - 1)
    OBVIOUS
  <2> QED BY <2>1
<1>2. PageSize * b = PageSize * a + PageSize + PageSize * d
  BY <1>1, PagedAssumption
<1>3. PageSize * d \in Nat /\ PageSize * a \in Nat /\ PageSize * b \in Nat
  BY PagedAssumption
<1> QED BY <1>2, <1>3, PagedAssumption

LEMMA DivUnique ==
  ASSUME NEW q \in Nat, NEW r \in 0..(PageSize - 1), NEW u \in Nat, NEW v \in 0..(PageSize - 1),
         PageSize * q + r = PageSize * u + v
  PROVE  q = u /\ r = v
<1>2. PageSize * q \in Nat /\ PageSize * u \in Nat
  BY PagedAssumption
<1>3. ~(q < u)
  BY <1>2, PagesApart, PagedAssumption
<1>4. ~(u < q)
  BY <1>2, PagesApart, PagedAssumption
<1> QED BY <1>2, <1>3, <1>4, PagedAssumption

LEMMA DivPred ==
  ASSUME NEW n \in Nat \ {0}
  PROVE  /\ n % PageSize = 0 => n \div PageSize = (n - 1) \div PageSize + 1
         /\ n % PageSize # 0 => n \div PageSize = (n - 1) \div PageSize
<1> DEFINE q == (n - 1) \div PageSize
           r == (n - 1) % PageSize
<1>1. q \in Nat /\ r \in 0..(PageSize - 1) /\ n - 1 = PageSize * q + r
  <2>1. n - 1 \in Nat
    OBVIOUS
  <2> QED BY <2>1, DivMod
<1>2. n \div PageSize \in Nat /\ n % PageSize \in 0..(PageSize - 1) /\ n = PageSize * (n \div PageSize) + (n % PageSize)
  BY DivMod
<1> HIDE DEF q, r
<1>3. CASE r = PageSize - 1
  <2>1. n = PageSize * (q + 1) + 0 /\ q + 1 \in Nat /\ 0 \in 0..(PageSize - 1)
    BY <1>1, <1>3, PagedAssumption
  <2>2. n \div PageSize = q + 1 /\ n % PageSize = 0
    BY <2>1, <1>2, DivUnique
  <2> QED BY <2>2 DEF q
<1>4. CASE r # PageSize - 1
  <2>1. n = PageSize * q + (r + 1) /\ r + 1 \in 0..(PageSize - 1) /\ r + 1 # 0
    BY <1>1, <1>4, PagedAssumption
  <2>2. n \div PageSize = q /\ n % PageSize = r + 1
    BY <2>1, <1>1, <1>2, DivUnique
  <2> QED BY <2>1, <2>2 DEF q
<1> QED BY <1>3, <1>4

LEMMA DivMono ==
  ASSUME NEW x \in Nat, NEW y \in Nat, x <= y
  PROVE  x \div PageSize <= y \div PageSize
<1>1. /\ x \div PageSize \in Nat /\ x % PageSize \in 0..(PageSize - 1) /\ x = PageSize * (x \div PageSize) + (x % PageSize)
      /\ y \div PageSize \in Nat /\ y % PageSize \in 0..(PageSize - 1) /\ y = PageSize * (y \div PageSize) + (y % PageSize)
  BY DivMod
<1>3. CASE y \div PageSize < x \div PageSize
  <2>1. PageSize * (y \div PageSize) + PageSize <= PageSize * (x \div PageSize)
    BY <1>1, <1>3, PagesApart
  <2> DEFINE a == PageSize * (y \div PageSize)
             b == PageSize * (x \div PageSize)
  <2>2. a \in Nat /\ b \in Nat
    BY <1>1, PagedAssumption
  <2>3. x = b + (x % PageSize) /\ y = a + (y % PageSize) /\ a + PageSize <= b
    BY <1>1, <2>1
  <2> HIDE DEF a, b
  <2> QED BY <1>1, <2>2, <2>3, PagedAssumption
<1> QED BY <1>1, <1>3

-----------------------------------------------------------------------------
\* The refinement.  A layer with n tokens has just the pages they need, and a
\* sequence that is not active has no tokens; every slot that get_kv reads
\* holds a token.
PoolType == pagePool \in [Pages -> [0..(PageSize - 1) -> Tokens \union {Absent}]]

CountsFit ==
  \A s \in SeqIds : \A l \in CacheLayers :
    IF Active(s)
    THEN Len(layerPages[s][l]) =
           IF tokenCounts[s][l] = 0 THEN 1 ELSE (tokenCounts[s][l] - 1) \div PageSize + 1
    ELSE tokenCounts[s][l] = 0

Stored ==
  \A s \in SeqIds : Active(s) => \A l \in CacheLayers : \A k \in 1..tokenCounts[s][l] :
    pagePool[PageOf(s, l, k)][SlotOf(k)] \in Tokens

RInv == PInv /\ PoolType /\ CountsFit /\ Stored

\* The k-th token of a layer is on one of the pages of the layer.
LEMMA PageInRange ==
  ASSUME RInv, NEW s \in SeqIds, Active(s), NEW l \in CacheLayers,
         NEW k \in 1..tokenCounts[s][l]
  PROVE  /\ (k - 1) \div PageSize + 1 \in DOMAIN layerPages[s][l]
         /\ SlotOf(k) \in 0..(PageSize - 1)
         /\ PageOf(s, l, k) \in PagesOf(s) /\ PageOf(s, l, k) \in Pages
<1> DEFINE n == tokenCounts[s][l]
           pages == layerPages[s][l]
<1>1. n \in Nat /\ pages \in Seq(Pages)
  BY ActiveType DEF RInv, PInv, TypeOK
<1>2. n # 0 /\ k - 1 \in Nat /\ n - 1 \in Nat /\ k - 1 <= n - 1
  BY <1>1
<1>3. (k - 1) \div PageSize <= (n - 1) \div PageSize
  BY <1>2, DivMono
<1>4. (k - 1) \div PageSize \in Nat /\ (n - 1) \div PageSize \in Nat
      /\ (k - 1) % PageSize \in 0..(PageSize - 1)
  BY <1>2, DivMod
<1>5. Len(pages) = (n - 1) \div PageSize + 1
  BY <1>2 DEF RInv, CountsFit
<1>6. DOMAIN pages = 1..Len(pages)
  BY <1>1, LenProperties
<1>7. (k - 1) \div PageSize + 1 \in DOMAIN pages
  BY <1>3, <1>4, <1>5, <1>6
<1>8. pages[(k - 1) \div PageSize + 1] \in Pages
  BY <1>1, <1>7
<1> QED BY <1>4, <1>7, <1>8 DEF SlotOf, PageOf, PagesOf, PagesOfLayer

\* get_kv returns a list of tokens.
LEMMA GetKvType ==
  ASSUME RInv, NEW s \in SeqIds, Active(s)
  PROVE  /\ \A l \in CacheLayers :
              GetKv(s, l) \in Seq(Tokens) /\ Len(GetKv(s, l)) = tokenCounts[s][l]
         /\ [l \in CacheLayers |-> GetKv(s, l)] \in [CacheLayers -> Seq(Tokens)]
         /\ Kept(s) = [l \in CacheLayers |-> GetKv(s, l)] /\ Kept(s) # Absent
<1>1. ASSUME NEW l \in CacheLayers
      PROVE  GetKv(s, l) \in Seq(Tokens) /\ Len(GetKv(s, l)) = tokenCounts[s][l]
  <2>1. tokenCounts[s][l] \in Nat
    BY DEF RInv, PInv, TypeOK
  <2>2. GetKv(s, l) \in [1..tokenCounts[s][l] -> Tokens]
    BY DEF RInv, Stored, GetKv
  <2> QED BY <2>1, <2>2
<1> QED BY <1>1, AbsentAssumption DEF Kept

\* The place append_kv writes to: the page behind the n-th token, in a slot
\* that no stored token, of this layer or another, is read from.
LEMMA AppendEffect ==
  ASSUME RInv, NEW s \in SeqIds, NEW l \in CacheLayers, NEW t \in Tokens,
         AppendKv(s, l, t)
  PROVE  \E p \in Pages :
           /\ Written(p, s, l, t)
           /\ layerPages'[s] \in [CacheLayers -> Seq(Pages)]
           /\ Len(layerPages'[s][l]) = tokenCounts[s][l] \div PageSize + 1
           /\ layerPages'[s][l][tokenCounts[s][l] \div PageSize + 1] = p
           /\ \A i \in DOMAIN layerPages[s][l] : layerPages'[s][l][i] = layerPages[s][l][i]
           /\ \A m \in CacheLayers : m # l => layerPages'[s][m] = layerPages[s][m]
           /\ \A r \in SeqIds : r # s => layerPages'[r] = layerPages[r]
           /\ \A r \in SeqIds, m \in CacheLayers : Active(r) =>
                \A k \in 1..tokenCounts[r][m] :
                  PageOf(r, m, k) # p \/ SlotOf(k) # tokenCounts[s][l] % PageSize
<1> DEFINE n == tokenCounts[s][l]
           pages == layerPages[s][l]
<1>1. /\ Active(s) /\ (Expand(s, l, t) \/ Fill(s, l, t))
      /\ layerPages \in [SeqIds -> [CacheLayers -> Seq(Pages)] \union {Absent}]
      /\ layerPages[s] \in [CacheLayers -> Seq(Pages)]
      /\ n \in Nat /\ freePages \subseteq Pages
  BY ActiveType DEF AppendKv, RInv, PInv, TypeOK
<1>2. /\ pages \in Seq(Pages) /\ Len(pages) \in Nat /\ DOMAIN pages = 1..Len(pages)
      /\ Len(pages) = IF n = 0 THEN 1 ELSE (n - 1) \div PageSize + 1
  <2>1. pages \in Seq(Pages)
    BY <1>1
  <2>2. Len(pages) = IF n = 0 THEN 1 ELSE (n - 1) \div PageSize + 1
    BY <1>1 DEF RInv, CountsFit
  <2> HIDE DEF pages, n
  <2> QED BY <2>1, <2>2, LenProperties
<1>3. n \div PageSize \in Nat /\ n % PageSize \in 0..(PageSize - 1)
  BY <1>1, DivMod
<1>4. CASE Expand(s, l, t)
  <2>1. PICK p \in freePages :
          /\ layerPages' = [layerPages EXCEPT ![s][l] = Append(@, p)]
          /\ Written(p, s, l, t)
    BY <1>4 DEF Expand
  <2>2. n % PageSize = 0 /\ n \in Nat \ {0}
    BY <1>1, <1>4 DEF Expand, PageFull
  <2>3. n \div PageSize = Len(pages)
    BY <1>2, <2>2, DivPred
  <2>4. p \in Pages /\ layerPages'[s] = [layerPages[s] EXCEPT ![l] = Append(pages, p)]
    BY <1>1, <2>1
  <2>5. /\ Append(pages, p) \in Seq(Pages)
        /\ Len(Append(pages, p)) = Len(pages) + 1
        /\ \A i \in 1..Len(pages) : Append(pages, p)[i] = pages[i]
        /\ Append(pages, p)[Len(pages) + 1] = p
    BY <1>2, <2>4, AppendProperties
  <2>6. /\ layerPages'[s][l] = Append(pages, p)
        /\ \A m \in CacheLayers : m # l => layerPages'[s][m] = layerPages[s][m]
        /\ layerPages'[s] \in [CacheLayers -> Seq(Pages)]
        /\ \A r \in SeqIds : r # s => layerPages'[r] = layerPages[r]
    BY <1>1, <2>1, <2>4, <2>5
  <2>7. \A r \in SeqIds, m \in CacheLayers : Active(r) =>
          \A k \in 1..tokenCounts[r][m] : PageOf(r, m, k) # p
    BY PageInRange DEF RInv, PInv, EveryPageOnce, FreeInNoPlace
  <2>8. /\ Len(layerPages'[s][l]) = n \div PageSize + 1
        /\ layerPages'[s][l][n \div PageSize + 1] = p
        /\ \A i \in DOMAIN layerPages[s][l] : layerPages'[s][l][i] = layerPages[s][l][i]
    BY <1>2, <2>3, <2>5, <2>6
  <2> QED BY <2>1, <2>4, <2>6, <2>7, <2>8
<1>5. CASE Fill(s, l, t)
  <2> DEFINE p == LastPage(s, l)
  <2>1. ~(n % PageSize = 0 /\ n > 0) /\ layerPages' = layerPages /\ Written(p, s, l, t)
    BY <1>5 DEF Fill, PageFull
  <2>2. Len(pages) = n \div PageSize + 1
    <3>1. CASE n = 0
      BY <1>2, <3>1, PagedAssumption
    <3>2. CASE n # 0
      <4>1. n \in Nat \ {0} /\ n % PageSize # 0
        BY <1>1, <2>1, <3>2
      <4> QED BY <1>2, <3>2, <4>1, DivPred
    <3> QED BY <3>1, <3>2
  <2>3. p = pages[Len(pages)] /\ p \in Pages /\ Len(pages) \in DOMAIN pages
    BY <1>2, <1>3, <2>2 DEF LastPage
  <2>4. ASSUME NEW r \in SeqIds, NEW m \in CacheLayers, Active(r),
               NEW k \in 1..tokenCounts[r][m], PageOf(r, m, k) = p
        PROVE  SlotOf(k) # n % PageSize
    <3>1. (k - 1) \div PageSize + 1 \in DOMAIN layerPages[r][m]
      BY <2>4, PageInRange
    <3>2. r = s /\ m = l /\ (k - 1) \div PageSize + 1 = Len(pages)
      BY <1>1, <2>3, <2>4, <3>1 DEF RInv, PInv, EveryPageOnce, InOnePlace, PageOf
    <3>3. k - 1 \in Nat /\ k - 1 # n
      <4>1. k \in 1..n
        BY <2>4, <3>2
      <4> QED BY <1>1, <4>1
    <3>4. /\ k - 1 = PageSize * ((k - 1) \div PageSize) + ((k - 1) % PageSize)
          /\ n = PageSize * (n \div PageSize) + (n % PageSize)
          /\ (k - 1) \div PageSize \in Nat
      BY <1>1, <3>3, DivMod
    <3>5. (k - 1) \div PageSize = n \div PageSize
      BY <1>3, <2>2, <3>2, <3>4
    <3> QED BY <3>3, <3>4, <3>5 DEF SlotOf
  <2>5. pages[n \div PageSize + 1] = p
    BY <2>2, <2>3
  <2> HIDE DEF p
  <2> QED BY <1>1, <2>1, <2>2, <2>3, <2>4, <2>5
<1> QED BY <1>1, <1>4, <1>5

\* append_kv leaves every stored token as it is and adds t to its layer.
LEMMA AppendStep ==
  ASSUME RInv, NEW s \in SeqIds, NEW l \in CacheLayers, NEW t \in Tokens,
         AppendKv(s, l, t)
  PROVE  /\ PoolType' /\ CountsFit' /\ Stored'
         /\ \A r \in SeqIds : Active(r)' <=> Active(r)
         /\ \A r \in SeqIds, m \in CacheLayers : Active(r) /\ ~(r = s /\ m = l) =>
              GetKv(r, m)' = GetKv(r, m)
         /\ GetKv(s, l)' = Append(GetKv(s, l), t)
<1> DEFINE n == tokenCounts[s][l]
           slot == n % PageSize
<1>1. /\ Active(s) /\ tokenCounts' = [tokenCounts EXCEPT ![s][l] = @ + 1]
      /\ layerPages \in [SeqIds -> [CacheLayers -> Seq(Pages)] \union {Absent}]
      /\ tokenCounts \in [SeqIds -> [CacheLayers -> Nat]]
      /\ pagePool \in [Pages -> [0..(PageSize - 1) -> Tokens \union {Absent}]]
      /\ n \in Nat
  BY DEF AppendKv, RInv, PInv, TypeOK, PoolType
<1>2. PICK p \in Pages :
        /\ Written(p, s, l, t)
        /\ layerPages'[s] \in [CacheLayers -> Seq(Pages)]
        /\ Len(layerPages'[s][l]) = n \div PageSize + 1
        /\ layerPages'[s][l][n \div PageSize + 1] = p
        /\ \A i \in DOMAIN layerPages[s][l] : layerPages'[s][l][i] = layerPages[s][l][i]
        /\ \A m \in CacheLayers : m # l => layerPages'[s][m] = layerPages[s][m]
        /\ \A r \in SeqIds : r # s => layerPages'[r] = layerPages[r]
        /\ \A r \in SeqIds, m \in CacheLayers : Active(r) =>
             \A k \in 1..tokenCounts[r][m] : PageOf(r, m, k) # p \/ SlotOf(k) # slot
  BY AppendEffect
<1>3. slot \in 0..(PageSize - 1) /\ n \div PageSize \in Nat
  BY <1>1, DivMod
<1>4. pagePool' = [pagePool EXCEPT ![p][slot] = t]
  BY <1>2 DEF Written
<1> HIDE DEF slot
<1>5. /\ pagePool' \in [Pages -> [0..(PageSize - 1) -> Tokens \union {Absent}]]
      /\ \A q \in Pages : \A i \in 0..(PageSize - 1) :
           pagePool'[q][i] = IF q = p /\ i = slot THEN t ELSE pagePool[q][i]
  BY <1>1, <1>3, <1>4
<1>6. \A r \in SeqIds : Active(r)' <=> Active(r)
  BY <1>1, <1>2, AbsentAssumption DEF Active
<1>7. /\ tokenCounts'[s][l] = n + 1
      /\ \A r \in SeqIds, m \in CacheLayers :
           ~(r = s /\ m = l) => tokenCounts'[r][m] = tokenCounts[r][m]
  BY <1>1
\* Stored tokens stay where they are.
<1>8. ASSUME NEW r \in SeqIds, Active(r), NEW m \in CacheLayers,
             NEW k \in 1..tokenCounts[r][m]
      PROVE  pagePool'[PageOf(r, m, k)'][SlotOf(k)] = pagePool[PageOf(r, m, k)][SlotOf(k)]
  <2>1. /\ (k - 1) \div PageSize + 1 \in DOMAIN layerPages[r][m]
        /\ SlotOf(k) \in 0..(PageSize - 1) /\ PageOf(r, m, k) \in Pages
    BY <1>8, PageInRange
  <2>2. PageOf(r, m, k)' = PageOf(r, m, k)
    BY <1>2, <2>1 DEF PageOf
  <2>3. PageOf(r, m, k) # p \/ SlotOf(k) # slot
    BY <1>2, <1>8
  <2> QED BY <1>5, <2>1, <2>2, <2>3
<1>9. ASSUME NEW k \in Nat, k = n + 1
      PROVE  pagePool'[PageOf(s, l, k)'][SlotOf(k)] = t
  <2>1. k - 1 = n
    BY <1>1, <1>9
  <2>2. PageOf(s, l, k)' = p /\ SlotOf(k) = slot
    BY <1>2, <2>1 DEF PageOf, SlotOf, slot
  <2> QED BY <1>3, <1>5, <2>2
<1>10. CountsFit'
  <2> SUFFICES ASSUME NEW r \in SeqIds, NEW m \in CacheLayers
               PROVE  IF Active(r)'
                      THEN Len(layerPages'[r][m]) =
                             IF tokenCounts'[r][m] = 0 THEN 1
                             ELSE (tokenCounts'[r][m] - 1) \div PageSize + 1
                      ELSE tokenCounts'[r][m] = 0
    BY DEF CountsFit
  <2>1. CASE r = s /\ m = l
    <3>1. tokenCounts'[r][m] # 0 /\ tokenCounts'[r][m] - 1 = n
      <4>1. tokenCounts'[r][m] = n + 1
        BY <1>7, <2>1
      <4>2. n \in Nat
        BY <1>1
      <4> HIDE DEF n
      <4> QED BY <4>1, <4>2
    <3> QED BY <1>1, <1>2, <1>6, <2>1, <3>1
  <2>2. CASE ~(r = s /\ m = l)
    <3>1. layerPages'[r][m] = layerPages[r][m] /\ tokenCounts'[r][m] = tokenCounts[r][m]
      BY <1>2, <1>7, <2>2
    <3> QED BY <1>6, <3>1 DEF RInv, CountsFit
  <2> QED BY <2>1, <2>2
<1>11. Stored'
  <2> SUFFICES ASSUME NEW r \in SeqIds, Active(r), NEW m \in CacheLayers,
                      NEW k \in 1..tokenCounts'[r][m]
               PROVE  pagePool'[PageOf(r, m, k)'][SlotOf(k)] \in Tokens
    BY <1>6 DEF Stored, SlotOf
  <2>1. CASE k \in 1..tokenCounts[r][m]
    BY <1>8, <2>1 DEF RInv, Stored
  <2>2. CASE k \notin 1..tokenCounts[r][m]
    <3>1. r = s /\ m = l
      BY <1>7, <2>2
    <3>2. k \in Nat /\ k = n + 1
      <4>1. k \in 1..(n + 1) /\ k \notin 1..n /\ n \in Nat
        BY <1>1, <1>7, <2>2, <3>1
      <4> HIDE DEF n
      <4> QED BY <4>1
    <3>3. pagePool'[PageOf(s, l, k)'][SlotOf(k)] = t
      BY <1>9, <3>2
    <3> QED BY <3>1, <3>3
  <2> QED BY <2>1, <2>2
<1>12. ASSUME NEW r \in SeqIds, NEW m \in CacheLayers, Active(r), ~(r = s /\ m = l)
       PROVE  GetKv(r, m)' = GetKv(r, m)
  BY <1>7, <1>8, <1>12 DEF GetKv, SlotOf
<1>13. GetKv(s, l)' = Append(GetKv(s, l), t)
  <2> DEFINE old == GetKv(s, l)
             new == [k \in 1..(n + 1) |-> pagePool'[PageOf(s, l, k)'][SlotOf(k)]]
  <2>1. old \in Seq(Tokens) /\ Len(old) = n
    BY <1>1, GetKvType
  <2>2. GetKv(s, l)' = new
    BY <1>7 DEF GetKv, SlotOf
  <2>3. \A k \in 1..n : old[k] = pagePool[PageOf(s, l, k)][SlotOf(k)]
    BY DEF GetKv
  <2>4. ASSUME NEW k \in 1..(n + 1)
        PROVE  new[k] = Append(old, t)[k]
    <3> HIDE DEF old
    <3>1. /\ \A i \in 1..n : Append(old, t)[i] = old[i]
          /\ Append(old, t)[n + 1] = t
      BY <2>1, AppendProperties
    <3>2. new[k] = pagePool'[PageOf(s, l, k)'][SlotOf(k)]
      OBVIOUS
    <3>3. CASE k = n + 1
      <4>1. k \in Nat
        BY <1>1
      <4> QED BY <1>9, <3>1, <3>2, <3>3, <4>1
    <3>4. CASE k # n + 1
      <4>1. k \in 1..n
        <5>1. n \in Nat
          BY <1>1
        <5> HIDE DEF n
        <5> QED BY <3>4, <5>1
      <4>2. new[k] = old[k]
        BY <1>1, <1>8, <2>3, <3>2, <4>1
      <4> HIDE DEF new
      <4> QED BY <3>1, <4>1, <4>2
    <3> QED BY <3>3, <3>4
  <2>5. Append(old, t) \in Seq(Tokens) /\ Len(Append(old, t)) = n + 1
    <3> HIDE DEF old
    <3> QED BY <2>1, AppendProperties
  <2>6. new \in Seq(Tokens) /\ Len(new) = n + 1
    <3>1. \A k \in 1..(n + 1) : new[k] \in Tokens
      <4> HIDE DEF new, old
      <4>1. \A k \in 1..(n + 1) : Append(old, t)[k] \in Tokens
        BY <2>5
      <4> QED BY <2>4, <4>1
    <3>2. new \in [1..(n + 1) -> Tokens]
      BY <3>1
    <3>3. n + 1 \in Nat
      BY <1>1
    <3> HIDE DEF new, n
    <3> QED BY <3>2, <3>3
  <2> HIDE DEF old, new
  <2>7. new = Append(old, t)
    BY <2>4, <2>5, <2>6, SeqEqual
  <2> QED BY <2>2, <2>7 DEF old
<1> QED BY <1>5, <1>6, <1>10, <1>11, <1>12, <1>13 DEF PoolType

\* What a step leaves of the places and counts of a sequence, get_kv returns
\* as before.
LEMMA SameKept ==
  ASSUME NEW r \in SeqIds, layerPages'[r] = layerPages[r], tokenCounts'[r] = tokenCounts[r],
         pagePool' = pagePool
  PROVE  /\ Active(r)' <=> Active(r)
         /\ \A l \in CacheLayers : GetKv(r, l)' = GetKv(r, l)
         /\ Kept(r)' = Kept(r)
<1>1. Active(r)' <=> Active(r)
  BY DEF Active
<1>2. \A l \in CacheLayers : GetKv(r, l)' = GetKv(r, l)
  BY DEF GetKv, PageOf, SlotOf
<1> QED BY <1>1, <1>2 DEF Kept

\* The other sequences of a call on s, all of whose parts of RInv are kept.
LEMMA OthersKept ==
  ASSUME RInv, NEW s \in SeqIds, pagePool' = pagePool,
         \A r \in SeqIds : r # s =>
           layerPages'[r] = layerPages[r] /\ tokenCounts'[r] = tokenCounts[r],
         Active(s)' => \A l \in CacheLayers :
           Len(layerPages'[s][l]) = 1 /\ tokenCounts'[s][l] = 0,
         ~Active(s)' => \A l \in CacheLayers : tokenCounts'[s][l] = 0
  PROVE  /\ PoolType' /\ CountsFit' /\ Stored'
         /\ \A r \in SeqIds : r # s => Kept(r)' = Kept(r)
<1>1. PoolType'
  BY DEF RInv, PoolType
<1>2. \A r \in SeqIds : r # s => (Active(r)' <=> Active(r))
  BY SameKept
<1>3. CountsFit'
  <2> SUFFICES ASSUME NEW r \in SeqIds, NEW m \in CacheLayers
               PROVE  IF Active(r)'
                      THEN Len(layerPages'[r][m]) =
                             IF tokenCounts'[r][m] = 0 THEN 1
                             ELSE (tokenCounts'[r][m] - 1) \div PageSize + 1
                      ELSE tokenCounts'[r][m] = 0
    BY DEF CountsFit
  <2>1. CASE r = s
    BY <2>1
  <2>2. CASE r # s
    BY <1>2, <2>2 DEF RInv, CountsFit
  <2> QED BY <2>1, <2>2
<1>4. Stored'
  <2> SUFFICES ASSUME NEW r \in SeqIds, Active(r)', NEW m \in CacheLayers,
                      NEW k \in 1..tokenCounts'[r][m]
               PROVE  pagePool'[PageOf(r, m, k)'][SlotOf(k)] \in Tokens
    BY DEF Stored, SlotOf
  <2>1. r # s
    <3>1. r = s => tokenCounts'[r][m] = 0
      OBVIOUS
    <3>2. 1..0 = {}
      OBVIOUS
    <3> QED BY <3>1, <3>2
  <2> QED BY <1>2, <2>1 DEF RInv, Stored, PageOf
<1> QED BY <1>1, <1>3, <1>4, SameKept

\* allocate_sequence: s is open and empty, all others are as they were.
LEMMA AllocateStep ==
  ASSUME RInv, NEW s \in SeqIds, AllocateSequence(s)
  PROVE  /\ PoolType' /\ CountsFit' /\ Stored'
         /\ \A r \in SeqIds : r # s => Kept(r)' = Kept(r)
         /\ Kept(s) = Absent /\ Kept(s)' = [l \in CacheLayers |-> <<>>]
<1>1. PICK first \in [CacheLayers -> freePages] :
        layerPages' = [layerPages EXCEPT ![s] = [l \in CacheLayers |-> <<first[l]>>]]
  BY DEF AllocateSequence
<1>2. /\ layerPages \in [SeqIds -> [CacheLayers -> Seq(Pages)] \union {Absent}]
      /\ freePages \subseteq Pages /\ ~Active(s)
      /\ tokenCounts' = tokenCounts /\ pagePool' = pagePool
  BY DEF RInv, PInv, TypeOK, AllocateSequence
<1>3. /\ layerPages'[s] = [l \in CacheLayers |-> <<first[l]>>]
      /\ \A r \in SeqIds : r # s => layerPages'[r] = layerPages[r]
  BY <1>1, <1>2
<1>4. [l \in CacheLayers |-> <<first[l]>>] \in [CacheLayers -> Seq(Pages)]
  BY <1>2
<1>5. Active(s)'
  BY <1>3, <1>4, AbsentAssumption DEF Active
<1>6. \A l \in CacheLayers : Len(layerPages'[s][l]) = 1 /\ tokenCounts'[s][l] = 0
  BY <1>2, <1>3 DEF RInv, CountsFit
<1>7. /\ PoolType' /\ CountsFit' /\ Stored'
      /\ \A r \in SeqIds : r # s => Kept(r)' = Kept(r)
  BY <1>2, <1>3, <1>5, <1>6, OthersKept
<1>8. Kept(s)' = [l \in CacheLayers |-> <<>>]
  <2>1. \A l \in CacheLayers : GetKv(s, l)' = <<>>
    BY <1>6 DEF GetKv
  <2> QED BY <1>5, <2>1 DEF Kept
<1> QED BY <1>2, <1>7, <1>8 DEF Kept

\* free_sequence: s is closed, all others are as they were.
LEMMA FreeStep ==
  ASSUME RInv, NEW s \in SeqIds, FreeSequence(s)
  PROVE  /\ PoolType' /\ CountsFit' /\ Stored'
         /\ \A r \in SeqIds : r # s => Kept(r)' = Kept(r)
         /\ Kept(s) # Absent /\ Kept(s)' = Absent
<1>1. /\ Active(s)
      /\ layerPages' = [layerPages EXCEPT ![s] = Absent]
      /\ tokenCounts' = [tokenCounts EXCEPT ![s] = [l \in CacheLayers |-> 0]]
      /\ pagePool' = pagePool
  BY DEF FreeSequence
<1>2. /\ layerPages \in [SeqIds -> [CacheLayers -> Seq(Pages)] \union {Absent}]
      /\ tokenCounts \in [SeqIds -> [CacheLayers -> Nat]]
  BY DEF RInv, PInv, TypeOK
<1>3. /\ layerPages'[s] = Absent /\ tokenCounts'[s] = [l \in CacheLayers |-> 0]
      /\ \A r \in SeqIds : r # s =>
           layerPages'[r] = layerPages[r] /\ tokenCounts'[r] = tokenCounts[r]
  BY <1>1, <1>2
<1>4. ~Active(s)'
  BY <1>3 DEF Active
<1>5. /\ PoolType' /\ CountsFit' /\ Stored'
      /\ \A r \in SeqIds : r # s => Kept(r)' = Kept(r)
  BY <1>1, <1>3, <1>4, OthersKept
<1>6. Kept(s) # Absent
  BY <1>1, GetKvType
<1>7. Kept(s)' = Absent
  BY <1>4 DEF Kept
<1> QED BY <1>5, <1>6, <1>7

LEMMA InitRInv == PagedInit => RInv
<1> SUFFICES ASSUME PagedInit PROVE RInv
  OBVIOUS
<1>1. PInv
  BY InitPInv
<1>2. \A s \in SeqIds : ~Active(s)
  BY DEF PagedInit, Active
<1>3. PoolType
  BY DEF PagedInit, PoolType
<1>4. CountsFit
  BY <1>2 DEF PagedInit, CountsFit
<1> QED BY <1>1, <1>2, <1>3, <1>4 DEF RInv, Stored

LEMMA StepRInv == RInv /\ [PagedNext]_pagedVars => RInv'
<1> SUFFICES ASSUME RInv, [PagedNext]_pagedVars PROVE PoolType' /\ CountsFit' /\ Stored'
  BY StepPInv DEF RInv
<1>1. CASE UNCHANGED pagedVars
  BY <1>1 DEF RInv, PoolType, CountsFit, Stored, pagedVars, Active, PageOf, SlotOf
<1>2. ASSUME NEW s \in SeqIds, AllocateSequence(s)
      PROVE  PoolType' /\ CountsFit' /\ Stored'
  BY <1>2, AllocateStep
<1>3. ASSUME NEW s \in SeqIds, FreeSequence(s)
      PROVE  PoolType' /\ CountsFit' /\ Stored'
  BY <1>3, FreeStep
<1>4. ASSUME NEW s \in SeqIds, NEW l \in CacheLayers, NEW t \in Tokens, AppendKv(s, l, t)
      PROVE  PoolType' /\ CountsFit' /\ Stored'
  BY <1>4, AppendStep
<1> QED BY <1>1, <1>2, <1>3, <1>4 DEF PagedNext

-----------------------------------------------------------------------------
\* Every step of the cache is a step of the store, or leaves it as it is.
LEMMA StoreStep ==
  RInv /\ [PagedNext]_pagedVars => [Store!StoreNext]_([s \in SeqIds |-> Kept(s)])
<1> SUFFICES ASSUME RInv, [PagedNext]_pagedVars
             PROVE  [Store!StoreNext]_([s \in SeqIds |-> Kept(s)])
  OBVIOUS
<1> DEFINE old == [r \in SeqIds |-> Kept(r)]
           new == [r \in SeqIds |-> Kept(r)']
<1>1. CASE UNCHANGED pagedVars
  <2>1. \A r \in SeqIds : Kept(r)' = Kept(r)
    BY <1>1, SameKept DEF pagedVars
  <2> QED BY <2>1
<1>2. ASSUME NEW s \in SeqIds, AllocateSequence(s)
      PROVE  Store!Open(s)
  <2>1. new = [old EXCEPT ![s] = [l \in CacheLayers |-> <<>>]]
    BY <1>2, AllocateStep
  <2>2. old[s] = Absent
    BY <1>2, AllocateStep
  <2> QED BY <2>1, <2>2 DEF Store!Open
<1>3. ASSUME NEW s \in SeqIds, FreeSequence(s)
      PROVE  Store!Close(s)
  <2>1. new = [old EXCEPT ![s] = Absent]
    BY <1>3, FreeStep
  <2>2. old[s] # Absent
    BY <1>3, FreeStep
  <2> QED BY <2>1, <2>2 DEF Store!Close
<1>4. ASSUME NEW s \in SeqIds, NEW l \in CacheLayers, NEW t \in Tokens, AppendKv(s, l, t)
      PROVE  Store!AppendToken(s, l, t)
  <2>1. /\ \A r \in SeqIds : Active(r)' <=> Active(r)
        /\ \A r \in SeqIds, m \in CacheLayers : Active(r) /\ ~(r = s /\ m = l) =>
             GetKv(r, m)' = GetKv(r, m)
        /\ GetKv(s, l)' = Append(GetKv(s, l), t)
    BY <1>4, AppendStep
  <2>2. Active(s)
    BY <1>4 DEF AppendKv
  <2>3. old[s] = [m \in CacheLayers |-> GetKv(s, m)] /\ old[s] # Absent
    BY <2>2, GetKvType
  <2>4. new[s] = [old[s] EXCEPT ![l] = Append(@, t)]
    <3>1. new[s] = [m \in CacheLayers |-> GetKv(s, m)']
      BY <2>1, <2>2 DEF Kept
    <3> QED BY <2>1, <2>2, <2>3, <3>1
  <2>5. \A r \in SeqIds : r # s => new[r] = old[r]
    BY <2>1 DEF Kept
  <2>6. new = [old EXCEPT ![s] = [old[s] EXCEPT ![l] = Append(@, t)]]
    <3> HIDE DEF old
    <3>1. old = [r \in SeqIds |-> old[r]]
      BY DEF old
    <3> QED BY <2>4, <2>5, <3>1
  <2> QED BY <2>3, <2>6 DEF Store!AppendToken
<1> QED BY <1>1, <1>2, <1>3, <1>4 DEF PagedNext, Store!StoreNext

\* For any pool, page size, sequences and layers: what get_kv returns for a
\* layer of a sequence is the list of the tokens appended to it.
THEOREM StoreImplemented == PagedSpec => ImplementsStore
<1>1. PagedInit => Store!StoreInit
  BY DEF PagedInit, Store!StoreInit, Kept, Active
<1> QED
  BY <1>1, InitRInv, StepRInv, StoreStep, PTL
     DEF PagedSpec, ImplementsStore, Store!StoreSpec

-----------------------------------------------------------------------------
\* The decode loops.
Token == Int \X Int

Buffer == Seq(Token) \union {None}

\* A pair of buffers that are both there holds at least len tokens.  (The
\* capacity only decides which way an append goes.)
LayerSound(layer) ==
  /\ layer \in [key : Buffer, value : Buffer, len : Nat, capacity : {layer.capacity}]
  /\ layer.key # None /\ layer.value # None =>
       layer.len <= Len(layer.key) /\ layer.len <= Len(layer.value)
  /\ layer.key = None => layer.value = None

\* Attention sees the tokens s in the layer, as keys and as values.
Holding(layer, s) ==
  /\ LayerSound(layer)
  /\ layer.key = None <=> layer.value = None
  /\ layer.len = Len(s)
  /\ Keys(layer) = s /\ Values(layer) = s

-----------------------------------------------------------------------------
\* Writing new tokens behind the first len of a buffer.
LEMMA SetBuffer ==
  ASSUME NEW buffer \in Seq(Token), NEW n \in Nat, n <= Len(buffer), NEW new \in Seq(Token)
  PROVE  /\ Set(buffer, n, new) \in Seq(Token)
         /\ Len(Set(buffer, n, new)) = n + Len(new)
         /\ SubSeq(Set(buffer, n, new), 1, n + Len(new)) = SubSeq(buffer, 1, n) \o new
<1>1. SubSeq(buffer, 1, n) \in Seq(Token) /\ Len(SubSeq(buffer, 1, n)) = n
  <2>1. \A i \in 1..n : buffer[i] \in Token
    BY ElementOfSeq, LenProperties
  <2>2. /\ SubSeq(buffer, 1, n) \in Seq(Token)
        /\ Len(SubSeq(buffer, 1, n)) = IF 1 <= n THEN n - 1 + 1 ELSE 0
    BY <2>1, SubSeqProperties
  <2> QED BY <2>2
<1>2. /\ Set(buffer, n, new) \in Seq(Token)
      /\ Len(Set(buffer, n, new)) = n + Len(new)
  BY <1>1, ConcatProperties DEF Set
<1>3. SubSeq(Set(buffer, n, new), 1, n + Len(new)) = Set(buffer, n, new)
  BY <1>2, SubSeqFull
<1> QED BY <1>2, <1>3 DEF Set

LEMMA OutcomeFields ==
  \A x : /\ Ok(x).result = "ok" /\ Ok(x).layer = x
         /\ Failed(x).result = "error" /\ Failed(x).layer = x
         /\ Spins(x).result = "spins" /\ Spins(x).layer = x
BY DEF Ok, Failed, Spins

\* What every way an append can end leaves behind.
LEMMA AppendKeepsSound ==
  ASSUME NEW layer, LayerSound(layer), NEW new \in Seq(Token),
         NEW o \in AppendOutcomes(layer, new)
  PROVE  /\ LayerSound(o.layer)
         /\ o.result # "ok" => o.layer.len = layer.len
<1> DEFINE n == Len(new)
           needed == layer.len + n
           key == Set(layer.key, layer.len, new)
           value == Set(layer.value, layer.len, new)
           cap == IF n > InitialCapacity THEN n ELSE InitialCapacity
           first == [key |-> new, value |-> new, len |-> n, capacity |-> cap]
<1>1. n \in Nat /\ new # None /\ new \in Buffer
  BY NoBufferAssumption, LenProperties DEF Buffer, Token
<1>2. /\ layer \in [key : Buffer, value : Buffer, len : Nat, capacity : {layer.capacity}]
      /\ layer.key # None /\ layer.value # None =>
           layer.len <= Len(layer.key) /\ layer.len <= Len(layer.value)
      /\ layer.key = None => layer.value = None
  BY DEF LayerSound
<1>3. needed \in Nat
  BY <1>1, <1>2
<1>4. layer.key # None /\ layer.value # None =>
        /\ key \in Seq(Token) /\ Len(key) = needed
        /\ value \in Seq(Token) /\ Len(value) = needed
  BY <1>2, SetBuffer DEF Buffer
<1>5. LayerSound(layer) /\ LayerSound(Lost(layer)) /\ Lost(layer).len = layer.len
  BY <1>2 DEF LayerSound, Lost, Buffer
<1> HIDE DEF needed, key, value, n
<1>6. ASSUME NEW c, NEW k \in Seq(Token), NEW v \in Seq(Token), NEW m \in Nat,
             m <= Len(k), m <= Len(v)
      PROVE  LayerSound([key |-> k, value |-> v, len |-> m, capacity |-> c])
  BY <1>6, NoBufferAssumption DEF LayerSound, Buffer, Token
<1>7. CASE o # Failed(layer) /\ layer.key = None
  <2>1. o \in FirstAppend(layer, new)
    BY <1>7 DEF AppendOutcomes
  <2>2. CASE o = Ok(first)
    <3>1. n <= Len(new)
      BY <1>1 DEF n
    <3>2. LayerSound(first)
      BY <1>1, <1>6, <3>1
    <3> HIDE DEF first
    <3> QED BY <2>2, <3>2, OutcomeFields
  <2>3. CASE o = Failed(layer)
    BY <1>5, <2>3, OutcomeFields
  <2>4. CASE o = Failed([layer EXCEPT !.key = new])
    <3>1. o.layer = [layer EXCEPT !.key = new]
      BY <2>4, OutcomeFields
    <3>2. layer.value = None \/ layer.value # None
      OBVIOUS
    <3> QED BY <1>1, <1>2, <1>7, <3>1 DEF LayerSound
  <2>5. o = Ok(first) \/ o = Failed(layer) \/ o = Failed([layer EXCEPT !.key = new])
    BY <2>1 DEF FirstAppend, n
  <2> HIDE DEF first, cap
  <2> QED BY <2>2, <2>3, <2>4, <2>5
<1>8. CASE o # Failed(layer) /\ layer.key # None /\ layer.len + Len(new) > layer.capacity
  <2>1. o \in GrowAndAppend(layer, new)
    BY <1>8 DEF AppendOutcomes
  <2>2. CASE o.layer = layer
    BY <1>5, <2>2
  <2>3. CASE o.layer = Lost(layer)
    BY <1>5, <2>3
  <2>4. CASE layer.value # None /\ o.result = "ok" /\
             o.layer = [key |-> key, value |-> value, len |-> needed,
                        capacity |-> Doubled(layer.capacity, needed)]
    <3>1. /\ key \in Seq(Token) /\ Len(key) = needed
          /\ value \in Seq(Token) /\ Len(value) = needed
      BY <1>4, <1>8, <2>4
    <3>2. needed <= needed
      BY <1>3
    <3> QED BY <1>3, <1>6, <2>4, <3>1, <3>2
  <2> DEFINE grown == [key |-> key, value |-> value, len |-> needed,
                       capacity |-> Doubled(layer.capacity, needed)]
  <2>5. \/ o = Spins(layer) \/ o = Failed(layer) \/ o = Failed(Lost(layer))
        \/ layer.value # None /\ o = Ok(grown)
    BY <2>1 DEF GrowAndAppend, key, value, needed, n
  <2>6. CASE layer.value # None /\ o = Ok(grown)
    <3> HIDE DEF grown
    <3>1. o.result = "ok" /\ o.layer = grown
      BY <2>6, OutcomeFields
    <3> QED BY <2>4, <2>6, <3>1 DEF grown
  <2>7. CASE o = Spins(layer) \/ o = Failed(layer) \/ o = Failed(Lost(layer))
    BY <2>2, <2>3, <2>7, OutcomeFields
  <2> HIDE DEF grown
  <2> QED BY <2>5, <2>6, <2>7
<1>9. CASE o # Failed(layer) /\ layer.key # None /\ ~(layer.len + Len(new) > layer.capacity)
  <2>1. o \in AppendInPlace(layer, new)
    BY <1>9 DEF AppendOutcomes
  <2>2. CASE o.layer = Lost(layer)
    BY <1>5, <2>2
  <2>3. CASE layer.value # None /\ o.result = "ok" /\
             o.layer = [layer EXCEPT !.key = key, !.value = value, !.len = needed]
    <3> DEFINE written == [key |-> key, value |-> value, len |-> needed,
                           capacity |-> layer.capacity]
    <3>1. /\ key \in Seq(Token) /\ Len(key) = needed
          /\ value \in Seq(Token) /\ Len(value) = needed
      BY <1>4, <1>9, <2>3
    <3>2. o.layer = written
      BY <1>2, <2>3
    <3>3. needed <= needed
      BY <1>3
    <3>4. LayerSound(written)
      BY <1>3, <1>6, <3>1, <3>3
    <3> HIDE DEF written
    <3> QED BY <2>3, <3>2, <3>4
  <2>4. CASE layer.value # None /\ o.layer = [layer EXCEPT !.key = key, !.value = None]
    <3>1. key \in Buffer /\ None \in Buffer
      BY <1>4, <1>9, <2>4 DEF Buffer
    <3>2. /\ o.layer.key = key /\ o.layer.value = None /\ o.layer.len = layer.len
          /\ o.layer \in [key : Buffer, value : Buffer, len : Nat,
                          capacity : {o.layer.capacity}]
      BY <1>2, <2>4, <3>1
    <3> QED BY <3>2 DEF LayerSound
  <2>5. \/ o = Failed(Lost(layer))
        \/ layer.value # None /\ o = Failed([layer EXCEPT !.key = key, !.value = None])
        \/ layer.value # None
           /\ o = Ok([layer EXCEPT !.key = key, !.value = value, !.len = needed])
    BY <2>1 DEF AppendInPlace, key, value, needed, n
  <2> QED BY <1>2, <2>2, <2>3, <2>4, <2>5, OutcomeFields
<1>10. CASE o = Failed(layer)
  BY <1>5, <1>10, OutcomeFields
<1> QED BY <1>7, <1>8, <1>9, <1>10

\* An append that succeeds puts the new tokens behind those held, in both
\* buffers.
LEMMA AppendHolds ==
  ASSUME NEW layer, NEW s \in Seq(Token), Holding(layer, s),
         NEW new \in Seq(Token), NEW o \in AppendOutcomes(layer, new), o.result = "ok"
  PROVE  Holding(o.layer, s \o new)
<1> DEFINE n == Len(new)
           needed == layer.len + n
           key == Set(layer.key, layer.len, new)
           value == Set(layer.value, layer.len, new)
           cap == IF n > InitialCapacity THEN n ELSE InitialCapacity
           first == [key |-> new, value |-> new, len |-> n, capacity |-> cap]
<1>1. n \in Nat /\ new # None /\ Len(s) \in Nat
  BY NoBufferAssumption, LenProperties DEF Token
<1>2. /\ layer \in [key : Buffer, value : Buffer, len : Nat, capacity : {layer.capacity}]
      /\ layer.key # None /\ layer.value # None =>
           layer.len <= Len(layer.key) /\ layer.len <= Len(layer.value)
      /\ layer.key = None <=> layer.value = None
      /\ layer.len = Len(s) /\ Keys(layer) = s /\ Values(layer) = s
  BY DEF LayerSound, Holding
<1>3. LayerSound(o.layer)
  BY AppendKeepsSound DEF Holding
<1>4. Len(s \o new) = needed /\ o # Failed(layer)
  BY <1>2, ConcatProperties, OutcomeFields
<1>5. CASE layer.key = None
  <2>1. o.layer = first
    <3>1. o = Ok(first) \/ o = Failed(layer) \/ o = Failed([layer EXCEPT !.key = new])
      BY <1>4, <1>5 DEF AppendOutcomes, FirstAppend
    <3> HIDE DEF first
    <3> QED BY <3>1, OutcomeFields
  <2>2. s = <<>>
    BY <1>2, <1>5 DEF Keys
  <2>3. s \o new = new /\ SubSeq(new, 1, n) = new
    BY <2>2, ConcatEmptySeq, SubSeqFull
  <2> QED BY <1>1, <1>3, <2>1, <2>3 DEF Holding, Keys, Values
<1>6. CASE layer.key # None
  <2>1. /\ layer.key \in Seq(Token) /\ layer.value \in Seq(Token)
        /\ layer.len \in Nat /\ layer.len <= Len(layer.key) /\ layer.len <= Len(layer.value)
        /\ SubSeq(layer.key, 1, layer.len) = s /\ SubSeq(layer.value, 1, layer.len) = s
    BY <1>2, <1>6 DEF Keys, Values, Buffer
  <2>2. /\ key \in Seq(Token) /\ SubSeq(key, 1, needed) = s \o new
        /\ value \in Seq(Token) /\ SubSeq(value, 1, needed) = s \o new
    <3>1. /\ key \in Seq(Token)
          /\ SubSeq(key, 1, needed) = SubSeq(layer.key, 1, layer.len) \o new
      BY <2>1, SetBuffer
    <3>2. /\ value \in Seq(Token)
          /\ SubSeq(value, 1, needed) = SubSeq(layer.value, 1, layer.len) \o new
      BY <2>1, SetBuffer
    <3> HIDE DEF key, value, needed
    <3> QED BY <2>1, <3>1, <3>2
  <2>3. key # None /\ value # None
    BY <2>2, NoBufferAssumption DEF Token
  <2>4. o.layer.key = key /\ o.layer.value = value /\ o.layer.len = needed
    <3>1. CASE layer.len + Len(new) > layer.capacity
      <4>1. o = Ok([key |-> key, value |-> value, len |-> needed,
                    capacity |-> Doubled(layer.capacity, needed)])
        <5> HIDE DEF key, value
        <5> QED BY <1>4, <1>6, <3>1
               DEF AppendOutcomes, GrowAndAppend, Ok, Failed, Spins, key, value
      <4> HIDE DEF key, value, needed
      <4> QED BY <4>1 DEF Ok
    <3>2. CASE ~(layer.len + Len(new) > layer.capacity)
      <4>1. o = Ok([layer EXCEPT !.key = key, !.value = value, !.len = needed])
        <5> HIDE DEF key, value
        <5> QED BY <1>4, <1>6, <3>2
               DEF AppendOutcomes, AppendInPlace, Ok, Failed, key, value
      <4> HIDE DEF key, value, needed
      <4> QED BY <1>2, <4>1 DEF Ok
    <3> QED BY <3>1, <3>2
  <2> HIDE DEF key, value, needed
  <2> QED BY <1>3, <1>4, <2>2, <2>3, <2>4 DEF Holding, Keys, Values
<1> QED BY <1>5, <1>6

-----------------------------------------------------------------------------
\* Contexts, and the inputs of the passes that follow the prompt: the last
\* token and d drafts, the first n of which the verifier will agree with.
ContextOf(c, n) == Prompt(c) \o Output(c, n)

GuessAt(c, g, n, i) == <<c, IF i <= n + 1 THEN g + i - 1 ELSE 0>>

Guess(c, g, d, n) == [i \in 1..(d + 1) |-> GuessAt(c, g, n, i)]

LEMMA PromptIs ==
  ASSUME NEW c \in Nat
  PROVE  /\ Prompt(c) \in Seq(Token) /\ Len(Prompt(c)) = PromptLen
         /\ \A j \in 1..PromptLen : Prompt(c)[j] = <<c, -j>>
BY DecodingAssumption DEF Prompt, Token

LEMMA ContextIs ==
  ASSUME NEW c \in Nat, NEW n \in Nat
  PROVE  /\ ContextOf(c, n) \in Seq(Token) /\ Len(ContextOf(c, n)) = PromptLen + n
         /\ \A j \in 1..(PromptLen + n) :
              ContextOf(c, n)[j] = IF j <= PromptLen THEN <<c, -j>> ELSE <<c, j - PromptLen>>
<1>1. /\ Prompt(c) \in Seq(Token) /\ Len(Prompt(c)) = PromptLen
      /\ \A j \in 1..PromptLen : Prompt(c)[j] = <<c, -j>>
  BY PromptIs
<1>2. /\ Output(c, n) \in Seq(Token) /\ Len(Output(c, n)) = n
      /\ \A j \in 1..n : Output(c, n)[j] = <<c, j>>
  BY DEF Output, Token
<1>3. /\ ContextOf(c, n) \in Seq(Token)
      /\ Len(ContextOf(c, n)) = PromptLen + n
      /\ \A j \in 1..(PromptLen + n) :
           ContextOf(c, n)[j] = IF j <= PromptLen THEN Prompt(c)[j]
                                ELSE Output(c, n)[j - PromptLen]
  <2> DEFINE p == Prompt(c)
             o == Output(c, n)
  <2>1. p \in Seq(Token) /\ Len(p) = PromptLen /\ o \in Seq(Token) /\ Len(o) = n
    BY <1>1, <1>2
  <2> HIDE DEF p, o
  <2>2. /\ p \o o \in Seq(Token)
        /\ Len(p \o o) = Len(p) + Len(o)
        /\ \A j \in 1..(Len(p) + Len(o)) :
             (p \o o)[j] = IF j <= Len(p) THEN p[j] ELSE o[j - Len(p)]
    BY <2>1, ConcatProperties
  <2>3. ContextOf(c, n) = p \o o
    BY DEF ContextOf, p, o
  <2>4. /\ ContextOf(c, n) \in Seq(Token)
        /\ Len(ContextOf(c, n)) = PromptLen + n
        /\ \A j \in 1..(PromptLen + n) :
             ContextOf(c, n)[j] = IF j <= PromptLen THEN p[j] ELSE o[j - PromptLen]
    BY <2>1, <2>2, <2>3
  <2> QED BY <2>4 DEF p, o
<1>4. ASSUME NEW j \in 1..(PromptLen + n)
      PROVE  ContextOf(c, n)[j] = IF j <= PromptLen THEN <<c, -j>> ELSE <<c, j - PromptLen>>
  <2>1. PromptLen \in Nat
    BY DecodingAssumption
  <2>2. CASE j <= PromptLen
    <3>1. j \in 1..PromptLen
      BY <2>1, <2>2
    <3> QED BY <1>1, <1>3, <2>2, <3>1
  <2>3. CASE ~(j <= PromptLen)
    <3>1. j - PromptLen \in 1..n
      BY <2>1, <2>3
    <3> QED BY <1>2, <1>3, <2>3, <3>1
  <2> QED BY <2>2, <2>3
<1> QED BY <1>3, <1>4

LEMMA GuessIsSeq ==
  ASSUME NEW c \in Nat, NEW g \in Nat, NEW d \in Nat, NEW n \in Nat
  PROVE  Guess(c, g, d, n) \in Seq(Token) /\ Len(Guess(c, g, d, n)) = d + 1
<1>1. \A i \in 1..(d + 1) : GuessAt(c, g, n, i) \in Token
  BY DEF Token, GuessAt
<1>2. d + 1 \in Nat
  OBVIOUS
<1> QED BY <1>1, <1>2 DEF Guess

LEMMA GuessElements ==
  ASSUME NEW c \in Nat, NEW g \in Nat, NEW d \in Nat, NEW n \in Nat
  PROVE  \A i \in 1..(d + 1) : Guess(c, g, d, n)[i] = GuessAt(c, g, n, i)
BY DEF Guess

LEMMA PromptIsContext ==
  ASSUME NEW c \in Nat
  PROVE  Prompt(c) = ContextOf(c, 0)
<1>1. PromptLen \in Nat
  BY DecodingAssumption
<1>2. /\ ContextOf(c, 0) \in Seq(Token) /\ Len(ContextOf(c, 0)) = PromptLen + 0
      /\ \A j \in 1..(PromptLen + 0) :
           ContextOf(c, 0)[j] = IF j <= PromptLen THEN <<c, -j>> ELSE <<c, j - PromptLen>>
  BY ContextIs
<1>3. \A j \in 1..PromptLen : ContextOf(c, 0)[j] = <<c, -j>>
  BY <1>1, <1>2
<1>4. \A j \in 1..PromptLen : Prompt(c)[j] = ContextOf(c, 0)[j]
  BY <1>3, PromptIs
<1>5. Len(ContextOf(c, 0)) = PromptLen
  BY <1>1, <1>2
<1> QED BY <1>2, <1>4, <1>5, PromptIs, SeqEqual

\* The cache after a pass over the last token and d drafts.
LEMMA ContextThenGuess ==
  ASSUME NEW c \in Nat, NEW g \in Nat, g > 0, NEW d \in Nat, NEW n \in Nat
  PROVE  /\ ContextOf(c, g - 1) \o Guess(c, g, d, n) \in Seq(Token)
         /\ Len(ContextOf(c, g - 1) \o Guess(c, g, d, n)) = PromptLen + g + d
<1> DEFINE C == ContextOf(c, g - 1)
           G == Guess(c, g, d, n)
<1>1. PromptLen \in Nat /\ g - 1 \in Nat
  BY DecodingAssumption
<1>2. C \in Seq(Token) /\ Len(C) = PromptLen + (g - 1)
  BY <1>1, ContextIs
<1>3. G \in Seq(Token) /\ Len(G) = d + 1
  BY GuessIsSeq
<1> HIDE DEF C, G
<1>4. C \o G \in Seq(Token) /\ Len(C \o G) = Len(C) + Len(G)
  BY <1>2, <1>3, ConcatProperties
<1>5. Len(C \o G) = PromptLen + g + d
  BY <1>1, <1>2, <1>3, <1>4
<1> QED BY <1>4, <1>5 DEF C, G

\* What stands before the i-th draft and the one after it, as long as the
\* verifier agrees: the prompt and the output.
Grows(c, g, d, n, i) ==
  SubSeq(ContextOf(c, g - 1) \o Guess(c, g, d, n), 1, PromptLen + g - 1 + i)
    = ContextOf(c, g - 1 + i)

LEMMA ContextGrows ==
  ASSUME NEW c \in Nat, NEW g \in Nat, g > 0, NEW d \in Nat, NEW n \in Nat, n <= d,
         NEW i \in 1..(n + 1)
  PROVE  Grows(c, g, d, n, i)
<1> DEFINE C == ContextOf(c, g - 1)
           G == Guess(c, g, d, n)
           T == C \o G
           m == PromptLen + g - 1 + i
<1>1. /\ PromptLen \in Nat /\ g - 1 \in Nat /\ i \in Nat /\ g - 1 + i \in Nat
      /\ m \in Nat /\ m >= 1
  BY DecodingAssumption
<1>2. /\ C \in Seq(Token) /\ Len(C) = PromptLen + (g - 1)
      /\ \A j \in 1..(PromptLen + (g - 1)) :
           C[j] = IF j <= PromptLen THEN <<c, -j>> ELSE <<c, j - PromptLen>>
  BY <1>1, ContextIs
<1>3. /\ G \in Seq(Token) /\ Len(G) = d + 1
      /\ \A k \in 1..(d + 1) : G[k] = GuessAt(c, g, n, k)
  <2>1. G \in Seq(Token) /\ Len(G) = d + 1
    BY ONLY GuessIsSeq, c \in Nat, g \in Nat, d \in Nat, n \in Nat
  <2>2. \A k \in 1..(d + 1) : G[k] = GuessAt(c, g, n, k)
    BY GuessElements
  <2> QED BY <2>1, <2>2
<1>4. /\ ContextOf(c, g - 1 + i) \in Seq(Token)
      /\ Len(ContextOf(c, g - 1 + i)) = PromptLen + (g - 1 + i)
      /\ \A j \in 1..(PromptLen + (g - 1 + i)) : ContextOf(c, g - 1 + i)[j] =
           IF j <= PromptLen THEN <<c, -j>> ELSE <<c, j - PromptLen>>
  BY <1>1, ContextIs
<1> HIDE DEF C, G
<1>5. /\ T \in Seq(Token) /\ Len(T) = Len(C) + Len(G)
      /\ \A j \in 1..(Len(C) + Len(G)) :
           T[j] = IF j <= Len(C) THEN C[j] ELSE G[j - Len(C)]
  BY <1>2, <1>3, ConcatProperties
<1> HIDE DEF T
<1>6. Len(T) = PromptLen + g - 1 + d + 1 /\ m <= Len(T)
  BY <1>1, <1>2, <1>3, <1>5
<1>7. /\ SubSeq(T, 1, m) \in Seq(Token) /\ Len(SubSeq(T, 1, m)) = m
      /\ \A j \in 1..m : SubSeq(T, 1, m)[j] = T[j]
  <2>1. \A j \in 1..m : T[j] \in Token
    BY <1>1, <1>5, <1>6, ElementOfSeq
  <2>2. /\ SubSeq(T, 1, m) \in Seq(Token)
        /\ Len(SubSeq(T, 1, m)) = IF 1 <= m THEN m - 1 + 1 ELSE 0
        /\ \A j \in 1..(m - 1 + 1) : SubSeq(T, 1, m)[j] = T[1 + j - 1]
    BY <1>1, <2>1, SubSeqProperties
  <2> HIDE DEF m
  <2> QED BY <1>1, <2>2
<1>8. Len(C) = PromptLen + (g - 1) /\ Len(G) = d + 1
  BY <1>2, <1>3
<1>9. ASSUME NEW j \in 1..m PROVE T[j] = ContextOf(c, g - 1 + i)[j]
  <2>1. ContextOf(c, g - 1 + i)[j] = IF j <= PromptLen THEN <<c, -j>> ELSE <<c, j - PromptLen>>
    BY <1>1, <1>4
  <2>2. CASE j <= Len(C)
    <3>1. j \in 1..(PromptLen + (g - 1)) /\ j \in 1..(Len(C) + Len(G))
      BY <1>1, <1>8, <2>2
    <3> QED BY <1>2, <1>5, <2>1, <2>2, <3>1
  <2>3. CASE ~(j <= Len(C))
    <3>1. /\ j \in 1..(Len(C) + Len(G)) /\ ~(j <= PromptLen)
          /\ j - Len(C) \in 1..(d + 1) /\ j - Len(C) <= n + 1
          /\ g + (j - Len(C)) - 1 = j - PromptLen
      BY <1>1, <1>8, <2>3
    <3>2. T[j] = G[j - Len(C)]
      BY <1>5, <2>3, <3>1
    <3>3. G[j - Len(C)] = <<c, g + (j - Len(C)) - 1>>
      BY <1>3, <3>1 DEF GuessAt
    <3> QED BY <2>1, <3>1, <3>2, <3>3
  <2> QED BY <2>2, <2>3
<1>10. SubSeq(T, 1, m) = ContextOf(c, g - 1 + i)
  <2>1. Len(ContextOf(c, g - 1 + i)) = m
    BY <1>1, <1>4
  <2> HIDE DEF m
  <2>2. \A j \in 1..m : SubSeq(T, 1, m)[j] = ContextOf(c, g - 1 + i)[j]
    BY <1>7, <1>9
  <2> QED BY <1>4, <1>7, <2>1, <2>2, SeqEqual
<1> QED BY <1>10 DEF T, C, G, m, Grows

\* The drafts the verifier agrees with are those before the first 0.
LEMMA AcceptedOfGuess ==
  ASSUME NEW g \in Nat, g > 0, NEW d \in Nat, NEW n \in Nat, n <= d, call \in Nat,
         input = Guess(call, g, d, n)
  PROVE  Accepted = n
<1>1. Len(input) = d + 1
  BY GuessIsSeq
<1>4. \A i \in 1..(d + 1) : input[i] = GuessAt(call, g, n, i)
  BY GuessElements
<1>2. {i \in 2..Len(input) : input[i][2] # 0} = 2..(n + 1)
  <2>1. ASSUME NEW i \in 2..(d + 1) PROVE input[i][2] # 0 <=> i <= n + 1
    <3>1. input[i] = GuessAt(call, g, n, i)
      BY <1>4, <2>1
    <3>2. input[i] = <<call, IF i <= n + 1 THEN g + i - 1 ELSE 0>>
      BY <3>1 DEF GuessAt
    <3>3. input[i][2] = IF i <= n + 1 THEN g + i - 1 ELSE 0
      BY <3>2
    <3> QED BY <3>3
  <2> QED BY <1>1, <2>1
<1>3. Cardinality(2..(n + 1)) = n
  <2>1. Cardinality(2..(n + 1)) = IF 2 > n + 1 THEN 0 ELSE (n + 1) - 2 + 1
    BY FS_Interval
  <2> QED BY <2>1
<1> QED BY <1>2, <1>3 DEF Accepted

LEMMA AcceptedOfPrompt ==
  ASSUME call \in Nat, input = Prompt(call)
  PROVE  Accepted + 1 = Len(input)
<1>1. /\ Len(input) = PromptLen /\ PromptLen \in Nat \ {0}
      /\ \A i \in 1..PromptLen : input[i] = <<call, -i>>
  BY PromptIs, DecodingAssumption
<1>2. {i \in 2..Len(input) : input[i][2] # 0} = 2..PromptLen
  <2>1. ASSUME NEW i \in 2..PromptLen PROVE input[i][2] # 0
    <3>1. input[i] = <<call, -i>>
      BY <1>1
    <3>2. input[i][2] = -i
      BY <3>1
    <3> QED BY <3>2
  <2> QED BY <1>1, <2>1
<1>3. Cardinality(2..PromptLen) = PromptLen - 1
  <2>1. Cardinality(2..PromptLen) = IF 2 > PromptLen THEN 0 ELSE PromptLen - 2 + 1
    BY <1>1, FS_Interval
  <2> QED BY <1>1, <2>1
<1>4. Accepted = PromptLen - 1
  BY <1>2, <1>3 DEF Accepted
<1> QED BY <1>1, <1>4

\* When all layers hold the same, that is what a token attends to.
LEMMA AttendedIs ==
  ASSUME NEW T, \A l \in Layers : Holding(cache[l], T), NEW i
  PROVE  Attended(i) = {SubSeq(T, 1, Len(T) - Len(input) + i)}
<1>1. 1 \in Layers
  BY CacheAssumption DEF Layers
<1>2. \A l \in Layers : Keys(cache[l]) = T /\ Values(cache[l]) = T
  BY DEF Holding
<1> QED BY <1>1, <1>2 DEF Attended

LEMMA SeqLenIs ==
  ASSUME NEW T \in Seq(Token), Len(T) > 0, \A l \in Layers : Holding(cache[l], T)
  PROVE  SeqLen(cache) = Len(T)
<1>1. \A l \in Layers : cache[l].len = Len(T)
  BY DEF Holding
<1>2. {l \in Layers : cache[l].len > 0} = Layers
  BY <1>1
<1>3. 1 \in Layers /\ \A m \in Layers : 1 <= m
  BY CacheAssumption DEF Layers
<1>4. (CHOOSE l \in Layers : \A m \in Layers : l <= m) \in Layers
  BY <1>3
<1>5. Layers # {}
  BY <1>3
<1> QED BY <1>1, <1>2, <1>4, <1>5 DEF SeqLen

\* A usable layer holds nothing.
LEMMA UsableHoldsNothing ==
  ASSUME NEW layer, LayerSound(layer), Usable(layer)
  PROVE  Holding(layer, <<>>)
<1>1. layer.key # None => SubSeq(layer.key, 1, 0) = <<>>
  BY SubSeqEmpty
<1>2. layer.value # None => SubSeq(layer.value, 1, 0) = <<>>
  BY SubSeqEmpty
<1>3. Len(<<>>) = 0
  BY EmptySeq
<1> QED BY <1>1, <1>2, <1>3 DEF Usable, Holding, Keys, Values
-----------------------------------------------------------------------------
IsBasis(b, n) == (\E S : b \in Seq(S)) /\ Len(b) = n

DecodingTyped ==
  /\ cache = [l \in Layers |-> cache[l]]
  /\ \A l \in Layers : LayerSound(cache[l])
  /\ call \in Nat /\ generated \in Nat /\ agreed \in Nat /\ next \in Layers
  /\ fresh \in BOOLEAN
  /\ input \in Seq(Token)
  /\ method \in {"decode_generate", "speculative"}
  /\ phase \in {"idle", "forward", "predict", "draft", "spins"}
  /\ IsBasis(basis, generated)

Control ==
  /\ phase # "idle" => outcome = "none"
  /\ phase \in {"forward", "predict", "draft"} => generated < MaxNewTokens
  /\ phase \in {"predict", "draft"} => next = 1
  /\ phase = "draft" => generated > 0 /\ method = "speculative"
  /\ agreed <= MaxNewTokens
  /\ agreed < MaxNewTokens => agreed <= generated
  /\ method = "decode_generate" => fresh /\ agreed = MaxNewTokens

\* What a pass was started with: the tokens H in all layers, and the input
\* that continues them.
Asked(H) ==
  \/ generated = 0 /\ input = Prompt(call) /\ H = <<>>
  \/ /\ generated > 0 /\ H = ContextOf(call, generated - 1)
     /\ \E d, n \in Nat :
          /\ n <= d /\ input = Guess(call, generated, d, n)
          /\ method = "decode_generate" => d = 0

InWindow(H) == method = "decode_generate" => Len(H) + Len(input) <= MaxSeqLen

PassInv(H) ==
  /\ Asked(H) /\ InWindow(H)
  /\ phase = "forward" =>
       \A l \in Layers : Holding(cache[l], IF l < next THEN H \o input ELSE H)
  /\ phase = "predict" => \A l \in Layers : Holding(cache[l], H \o input)

\* As long as no draft was rejected, in a call that began on an empty cache.
FreshInv ==
  fresh /\ agreed = MaxNewTokens =>
    /\ phase \in {"forward", "predict"} => \E H \in Seq(Token) : PassInv(H)
    /\ phase = "draft" =>
         \A l \in Layers : Holding(cache[l], ContextOf(call, generated - 1))

DecodingInv ==
  /\ DecodingTyped /\ Control /\ FreshInv
  /\ PredictedFromOutput /\ CacheInStep /\ FitsContext

-----------------------------------------------------------------------------
\* Output tokens are added with what they were predicted from.
AddedTo(b, g, x, c) ==
  IsBasis(c, g + 1) /\ (\A k \in 1..g : c[k] = b[k]) /\ c[g + 1] = x

LEMMA BasisAppended ==
  ASSUME NEW b, NEW g \in Nat, IsBasis(b, g), NEW x
  PROVE  AddedTo(b, g, x, Append(b, x))
<1>1. PICK S : b \in Seq(S)
  BY DEF IsBasis
<1>2. b \in Seq(S \union {x}) /\ x \in S \union {x} /\ Len(b) = g
  BY <1>1, SeqMonotonic DEF IsBasis
<1>3. Append(b, x) \in Seq(S \union {x}) /\ Len(Append(b, x)) = g + 1
  BY <1>2
<1>4. \A k \in 1..g : Append(b, x)[k] = b[k]
  BY <1>2
<1>5. Append(b, x)[g + 1] = x
  BY <1>2
<1> QED BY <1>3, <1>4, <1>5 DEF IsBasis, AddedTo

ExtendedTo(b, g, n, f, c) ==
  /\ IsBasis(c, g + n)
  /\ \A k \in 1..g : c[k] = b[k]
  /\ \A i \in 1..n : c[g + i] = f[i]

LEMMA BasisExtended ==
  ASSUME NEW b, NEW g \in Nat, IsBasis(b, g), NEW n \in Nat, NEW f, DOMAIN f = 1..n,
         f = [i \in 1..n |-> f[i]]
  PROVE  ExtendedTo(b, g, n, f, b \o f)
<1>1. PICK S : b \in Seq(S)
  BY DEF IsBasis
<1> DEFINE R == S \union {f[i] : i \in 1..n}
<1>2. b \in Seq(R) /\ Len(b) = g
  BY <1>1, SeqMonotonic DEF IsBasis
<1>3. f \in Seq(R) /\ Len(f) = n
  <2>1. \A i \in 1..n : f[i] \in R
    OBVIOUS
  <2> HIDE DEF R
  <2>2. f \in [1..n -> R]
    BY <2>1
  <2> QED BY <2>2
<1> HIDE DEF R
<1>4. /\ b \o f \in Seq(R) /\ Len(b \o f) = g + n
      /\ \A k \in 1..(g + n) : (b \o f)[k] = IF k <= g THEN b[k] ELSE f[k - g]
  BY <1>2, <1>3, ConcatProperties
<1>5. \A k \in 1..g : (b \o f)[k] = b[k]
  BY <1>4
<1>6. ASSUME NEW i \in 1..n PROVE (b \o f)[g + i] = f[i]
  <2>1. g + i \in 1..(g + n) /\ ~(g + i <= g) /\ (g + i) - g = i
    OBVIOUS
  <2> QED BY <1>4, <2>1
<1> QED BY <1>4, <1>5, <1>6 DEF IsBasis, ExtendedTo

\* The passes over the prompt, and over the last token and drafts.
LEMMA PromptPass ==
  ASSUME call \in Nat, input = Prompt(call), NEW H, H = <<>>
  PROVE  /\ H \o input = ContextOf(call, 0)
         /\ H \o input \in Seq(Token)
         /\ Len(H \o input) = PromptLen /\ Len(input) = PromptLen
<1>1. Prompt(call) \in Seq(Token) /\ Len(Prompt(call)) = PromptLen
  BY PromptIs
<1>2. <<>> \o Prompt(call) = Prompt(call)
  BY <1>1, ConcatEmptySeq
<1> QED BY <1>1, <1>2, PromptIsContext

GuessTokens(T, g, d, n) ==
  /\ T \in Seq(Token) /\ Len(T) = PromptLen + g + d /\ Len(input) = d + 1
  /\ \A i \in 1..(n + 1) :
       SubSeq(T, 1, Len(T) - Len(input) + i) = ContextOf(call, g - 1 + i)
  /\ n = d => T = ContextOf(call, g + d)

LEMMA GuessPass ==
  ASSUME call \in Nat, NEW g \in Nat, g > 0, NEW H, H = ContextOf(call, g - 1),
         NEW d \in Nat, NEW n \in Nat, n <= d, input = Guess(call, g, d, n),
         NEW T, T = H \o input
  PROVE  GuessTokens(T, g, d, n)
<1> DEFINE U == ContextOf(call, g - 1) \o Guess(call, g, d, n)
<1>1. PromptLen \in Nat
  BY DecodingAssumption
<1>2. Len(input) = d + 1
  BY GuessIsSeq
<1>3. T = U
  OBVIOUS
<1>4. U \in Seq(Token) /\ Len(U) = PromptLen + g + d
  BY ONLY ContextThenGuess, call \in Nat, g \in Nat, g > 0, d \in Nat, n \in Nat
<1>5. ASSUME NEW i \in 1..(n + 1)
      PROVE  SubSeq(U, 1, PromptLen + g - 1 + i) = ContextOf(call, g - 1 + i)
  <2>1. Grows(call, g, d, n, i)
    BY ONLY ContextGrows, call \in Nat, g \in Nat, g > 0, d \in Nat, n \in Nat, n <= d,
            i \in 1..(n + 1)
  <2> QED BY <2>1 DEF Grows
<1> HIDE DEF U
<1>7. ASSUME NEW i \in 1..(n + 1)
      PROVE  SubSeq(T, 1, Len(T) - Len(input) + i) = ContextOf(call, g - 1 + i)
  <2>1. Len(T) - Len(input) + i = PromptLen + g - 1 + i
    BY <1>1, <1>2, <1>3, <1>4
  <2> QED BY <1>3, <1>5, <2>1
<1>8. ASSUME n = d PROVE T = ContextOf(call, g + d)
  <2>1. n + 1 \in 1..(n + 1)
    OBVIOUS
  <2>2. SubSeq(U, 1, PromptLen + g - 1 + (n + 1)) = ContextOf(call, g - 1 + (n + 1))
    BY <1>5, <2>1
  <2>3. PromptLen + g - 1 + (n + 1) = PromptLen + g + d
    BY <1>1, <1>8
  <2>4. g - 1 + (n + 1) = g + d
    BY <1>8
  <2>5. SubSeq(U, 1, Len(U)) = U
    BY <1>4, SubSeqFull
  <2> QED BY <1>3, <1>4, <2>2, <2>3, <2>4, <2>5
<1> QED BY <1>2, <1>3, <1>4, <1>7, <1>8 DEF GuessTokens

LEMMA AcceptedType ==
  ASSUME input \in Seq(Token)
  PROVE  Accepted \in Nat
<1>1. Len(input) \in Nat
  BY LenProperties
<1>2. IsFiniteSet(2..Len(input))
  BY <1>1, FS_Interval
<1>3. {i \in 2..Len(input) : input[i][2] # 0} \subseteq 2..Len(input)
  OBVIOUS
<1>4. IsFiniteSet({i \in 2..Len(input) : input[i][2] # 0})
  BY <1>2, <1>3, FS_Subset
<1> QED BY <1>4, FS_CardinalityType DEF Accepted

\* The drafts as DraftTokens writes them down.
LEMMA DraftsAreGuess ==
  ASSUME NEW c \in Nat, NEW g \in Nat, NEW d \in Nat, NEW n \in Nat
  PROVE  <<<<c, g>>>> \o [i \in 1..d |-> <<c, IF i <= n THEN g + i ELSE 0>>] = Guess(c, g, d, n)
<1> DEFINE a == <<<<c, g>>>>
           f == [i \in 1..d |-> <<c, IF i <= n THEN g + i ELSE 0>>]
           G == Guess(c, g, d, n)
<1>1. a \in Seq(Token) /\ Len(a) = 1 /\ a[1] = <<c, g>>
  BY DEF Token
<1>2. \A i \in 1..d : <<c, IF i <= n THEN g + i ELSE 0>> \in Token
  BY DEF Token
<1>3. f \in Seq(Token) /\ Len(f) = d
  BY <1>2
<1>4. \A i \in 1..d : f[i] = <<c, IF i <= n THEN g + i ELSE 0>>
  OBVIOUS
<1>5. G \in Seq(Token) /\ Len(G) = d + 1
  BY GuessIsSeq
<1>6. \A i \in 1..(d + 1) : G[i] = GuessAt(c, g, n, i)
  BY GuessElements
<1> HIDE DEF a, f, G
<1>7. /\ a \o f \in Seq(Token) /\ Len(a \o f) = Len(a) + Len(f)
      /\ \A i \in 1..(Len(a) + Len(f)) :
           (a \o f)[i] = IF i <= Len(a) THEN a[i] ELSE f[i - Len(a)]
  BY <1>1, <1>3, ConcatProperties
<1>8. Len(a \o f) = d + 1
  BY <1>1, <1>3, <1>7
<1>9. ASSUME NEW i \in 1..(d + 1) PROVE (a \o f)[i] = G[i]
  <2>1. (a \o f)[i] = IF i <= 1 THEN a[i] ELSE f[i - 1]
    BY <1>1, <1>3, <1>7
  <2>2. G[i] = <<c, IF i <= n + 1 THEN g + i - 1 ELSE 0>>
    BY <1>6 DEF GuessAt
  <2>3. CASE i = 1
    <3>1. G[i] = <<c, g>>
      BY <2>2, <2>3
    <3> QED BY <1>1, <2>1, <2>3, <3>1
  <2>4. CASE i # 1
    <3>1. i - 1 \in 1..d /\ ~(i <= 1)
      BY <2>4
    <3>2. f[i - 1] = <<c, IF i - 1 <= n THEN g + (i - 1) ELSE 0>>
      BY <1>4, <3>1
    <3>3. (IF i - 1 <= n THEN g + (i - 1) ELSE 0) = (IF i <= n + 1 THEN g + i - 1 ELSE 0)
      OBVIOUS
    <3> QED BY <2>1, <2>2, <3>1, <3>2, <3>3
  <2> QED BY <2>3, <2>4
<1>10. a \o f = G
  BY <1>5, <1>7, <1>8, <1>9, SeqEqual
<1> QED BY <1>10 DEF a, f, G

LEMMA TokenIsGuess ==
  ASSUME NEW c \in Nat, NEW g \in Nat
  PROVE  <<<<c, g>>>> = Guess(c, g, 0, 0)
<1>1. <<<<c, g>>>> \in Seq(Token) /\ Len(<<<<c, g>>>>) = 1
  BY DEF Token
<1>7. 0 \in Nat
  OBVIOUS
<1>2. Guess(c, g, 0, 0) \in Seq(Token) /\ Len(Guess(c, g, 0, 0)) = 0 + 1
  BY ONLY <1>7, GuessIsSeq, c \in Nat, g \in Nat
<1>3. \A i \in 1..(0 + 1) : Guess(c, g, 0, 0)[i] = GuessAt(c, g, 0, i)
  BY GuessElements
<1>4. Guess(c, g, 0, 0)[1] = <<c, g>>
  <2>1. GuessAt(c, g, 0, 1) = <<c, g>>
    BY DEF GuessAt
  <2> QED BY <1>3, <2>1
<1>5. \A i \in 1..1 : <<<<c, g>>>>[i] = Guess(c, g, 0, 0)[i]
  BY <1>4
<1>6. Len(Guess(c, g, 0, 0)) = 1
  BY <1>2
<1> QED BY <1>1, <1>2, <1>5, <1>6, SeqEqual

-----------------------------------------------------------------------------
LEMMA LayerFits ==
  ASSUME NEW H \in Seq(Token), InWindow(H), method = "decode_generate",
         input \in Seq(Token), NEW layer, Holding(layer, H \o input)
  PROVE  layer.len <= MaxSeqLen
<1>1. Len(H \o input) = Len(H) + Len(input)
  BY ConcatProperties
<1> QED BY <1>1 DEF Holding, InWindow

\* A pass goes on: the layers below the next one hold the input too.
LEMMA ForwardPass ==
  ASSUME DecodingTyped, phase = "forward", NEW H \in Seq(Token), PassInv(H),
         NEW o \in AppendOutcomes(cache[next], input), o.result = "ok",
         cache' = [cache EXCEPT ![next] = o.layer],
         phase' = IF next = NumLayers THEN "predict" ELSE phase,
         next' = IF next = NumLayers THEN 1 ELSE next + 1,
         UNCHANGED <<call, method, input, generated>>
  PROVE  PassInv(H)' /\ Holding(o.layer, H \o input)
<1>1. /\ next \in 1..NumLayers /\ NumLayers \in Nat \ {0} /\ input \in Seq(Token)
      /\ cache = [l \in Layers |-> cache[l]]
  BY CacheAssumption DEF DecodingTyped, Layers
<1>2. \A l \in Layers : Holding(cache[l], IF l < next THEN H \o input ELSE H)
  BY DEF PassInv
<1>3. Holding(o.layer, H \o input)
  <2>1. next \in Layers /\ ~(next < next)
    BY <1>1 DEF Layers
  <2>2. Holding(cache[next], H)
    BY <1>2, <2>1
  <2> QED BY <1>1, <2>2, AppendHolds
<1>4. \A l \in Layers : cache'[l] = IF l = next THEN o.layer ELSE cache[l]
  BY <1>1
<1>5. Asked(H)' /\ InWindow(H)'
  <2>1. Asked(H) /\ InWindow(H)
    BY DEF PassInv
  <2> QED BY <2>1 DEF Asked, InWindow
<1>6. CASE next = NumLayers
  <2>1. phase' = "predict"
    BY <1>6
  <2>2. ASSUME NEW l \in Layers PROVE Holding(cache'[l], H \o input)
    <3>1. l = next \/ l < next
      BY <1>1, <1>6 DEF Layers
    <3> QED BY <1>2, <1>3, <1>4, <3>1
  <2>3. \A l \in Layers : Holding(cache'[l], H \o input')
    BY <2>2
  <2> QED BY <1>3, <1>5, <2>1, <2>3 DEF PassInv
<1>7. CASE next # NumLayers
  <2>1. phase' = "forward" /\ next' = next + 1
    BY <1>7
  <2>2. ASSUME NEW l \in Layers
        PROVE  Holding(cache'[l], IF l < next' THEN H \o input' ELSE H)
    <3>1. CASE l = next
      <4>1. l < next'
        BY <1>1, <2>1, <3>1
      <4> QED BY <1>3, <1>4, <3>1, <4>1
    <3>2. CASE l # next
      <4>1. l < next' <=> l < next
        BY <1>1, <2>1, <3>2 DEF Layers
      <4>2. cache'[l] = cache[l]
        BY <1>4, <3>2
      <4>3. Holding(cache[l], IF l < next THEN H \o input ELSE H)
        BY <1>2
      <4> QED BY <4>1, <4>2, <4>3
    <3> QED BY <3>1, <3>2
  <2> QED BY <1>3, <1>5, <2>1, <2>2 DEF PassInv
<1> QED BY <1>6, <1>7

LEMMA ForwardLayerInv ==
  ASSUME DecodingInv, ForwardLayer
  PROVE  DecodingInv'
<1>1. PICK o \in AppendOutcomes(cache[next], input) :
        /\ cache' = [cache EXCEPT ![next] = o.layer]
        /\ \/ /\ o.result = "ok"
              /\ phase' = IF next = NumLayers THEN "predict" ELSE phase
              /\ next' = IF next = NumLayers THEN 1 ELSE next + 1
              /\ UNCHANGED <<outcome, failures>>
           \/ /\ o.result = "error" /\ failures < MaxFailures
              /\ phase' = "idle" /\ outcome' = "error"
              /\ next' = 1 /\ failures' = failures + 1
           \/ /\ o.result = "spins"
              /\ phase' = "spins" /\ UNCHANGED <<next, outcome, failures>>
  BY DEF ForwardLayer
<1>2. /\ phase = "forward"
      /\ UNCHANGED <<call, method, input, generated, eosAt, basis, agreed, fresh>>
  BY DEF ForwardLayer
<1>3. /\ next \in Layers /\ 1 \in Layers /\ NumLayers \in Nat \ {0} /\ input \in Seq(Token)
      /\ cache = [l \in Layers |-> cache[l]] /\ \A l \in Layers : LayerSound(cache[l])
  BY CacheAssumption DEF DecodingInv, DecodingTyped, Layers
<1>4. LayerSound(o.layer) /\ (o.result # "ok" => o.layer.len = cache[next].len)
  BY <1>3, AppendKeepsSound
<1>5. /\ cache' = [l \in Layers |-> cache'[l]]
      /\ \A l \in Layers : cache'[l] = IF l = next THEN o.layer ELSE cache[l]
  BY <1>1, <1>3
<1>6. /\ phase' \in {"forward", "predict", "idle", "spins"}
      /\ next' \in Layers /\ (phase' = "predict" => next' = 1)
      /\ (phase' # "idle" => outcome' = "none")
      /\ outcome' \in {"none", "error"}
  <2>1. next + 1 \in Layers \/ next = NumLayers
    BY <1>3 DEF Layers
  <2> QED BY <1>1, <1>2, <1>3, <2>1 DEF DecodingInv, Control
<1>7. DecodingTyped'
  <2>1. \A l \in Layers : LayerSound(cache'[l])
    BY <1>3, <1>4, <1>5
  <2> QED BY <1>2, <1>5, <1>6, <2>1 DEF DecodingInv, DecodingTyped
<1>8. Control'
  BY <1>2, <1>6 DEF DecodingInv, Control
<1>9. PredictedFromOutput'
  BY <1>2 DEF DecodingInv, PredictedFromOutput, Context
<1>10. CacheInStep'
  BY <1>6 DEF CacheInStep
<1>11. CASE o.result = "ok"
  <2>1. /\ phase' = IF next = NumLayers THEN "predict" ELSE phase
        /\ next' = IF next = NumLayers THEN 1 ELSE next + 1
    BY <1>1, <1>11
  <2>2. phase' \in {"forward", "predict"}
    BY <1>2, <2>1
  <2>3. ASSUME fresh, agreed = MaxNewTokens
        PROVE  \E H \in Seq(Token) : PassInv(H) /\ PassInv(H)' /\ Holding(o.layer, H \o input)
    <3>1. PICK H \in Seq(Token) : PassInv(H)
      BY <1>2, <2>3 DEF DecodingInv, FreshInv
    <3>2. PassInv(H)' /\ Holding(o.layer, H \o input)
      BY <1>1, <1>2, <1>11, <2>1, <3>1, ForwardPass DEF DecodingInv
    <3> QED BY <3>1, <3>2
  <2>4. FreshInv'
    BY <1>2, <2>2, <2>3 DEF FreshInv
  <2>5. FitsContext'
    <3> SUFFICES ASSUME method = "decode_generate", NEW l \in Layers, call > 0
                 PROVE  cache'[l].len <= MaxSeqLen
      BY <1>2 DEF FitsContext
    <3>1. cache[l].len <= MaxSeqLen
      BY DEF DecodingInv, FitsContext
    <3>2. PICK H \in Seq(Token) : PassInv(H) /\ Holding(o.layer, H \o input)
      BY <2>3 DEF DecodingInv, Control
    <3>3. o.layer.len <= MaxSeqLen
      BY <1>3, <3>2, LayerFits DEF PassInv
    <3> QED BY <1>5, <3>1, <3>3
  <2> QED BY <1>7, <1>8, <1>9, <1>10, <2>4, <2>5 DEF DecodingInv
<1>12. CASE o.result # "ok"
  <2>1. phase' \in {"idle", "spins"}
    BY <1>1, <1>12
  <2>2. FreshInv'
    BY <2>1 DEF FreshInv
  <2>3. \A l \in Layers : cache'[l].len = cache[l].len
    BY <1>3, <1>4, <1>5, <1>12
  <2>4. FitsContext'
    BY <1>2, <2>3 DEF DecodingInv, FitsContext
  <2> QED BY <1>7, <1>8, <1>9, <1>10, <2>2, <2>4 DEF DecodingInv
<1> QED BY <1>11, <1>12

LEMMA PassFailsInv ==
  ASSUME DecodingInv, PassFails
  PROVE  DecodingInv'
<1>1. /\ phase' = "idle" /\ outcome' = "error"
      /\ UNCHANGED <<cache, call, method, input, next, generated, eosAt, basis,
                     agreed, fresh>>
  BY DEF PassFails
<1>2. DecodingTyped' /\ Control'
  BY <1>1 DEF DecodingInv, DecodingTyped, Control
<1>3. FreshInv' /\ CacheInStep'
  BY <1>1 DEF FreshInv, CacheInStep
<1>4. PredictedFromOutput'
  BY <1>1 DEF DecodingInv, PredictedFromOutput, Context
<1>5. FitsContext'
  BY <1>1 DEF DecodingInv, FitsContext
<1> QED BY <1>2, <1>3, <1>4, <1>5 DEF DecodingInv

-----------------------------------------------------------------------------
\* clear and reset leave no layer longer.
LEMMA EmptiedSound ==
  ASSUME NEW layer, LayerSound(layer)
  PROVE  /\ LayerSound(Clear(layer)) /\ Clear(layer).len = 0
         /\ LayerSound(Reset(layer)) /\ Reset(layer).len = 0 /\ Usable(Reset(layer))
<1>1. LayerSound(Reset(layer)) /\ Reset(layer).len = 0 /\ Usable(Reset(layer))
  BY DEF Reset, EmptyLayer, LayerSound, Usable, Buffer
<1>2. /\ layer \in [key : Buffer, value : Buffer, len : Nat, capacity : {layer.capacity}]
      /\ layer.key = None => layer.value = None
  BY DEF LayerSound
<1>3. /\ Clear(layer) \in [key : Buffer, value : Buffer, len : Nat, capacity : {layer.capacity}]
      /\ Clear(layer).len = 0 /\ Clear(layer).key = layer.key
      /\ Clear(layer).value = layer.value /\ Clear(layer).capacity = layer.capacity
  BY <1>2 DEF Clear
<1>4. ASSUME Clear(layer).key # None, Clear(layer).value # None
      PROVE  0 <= Len(Clear(layer).key) /\ 0 <= Len(Clear(layer).value)
  <2>1. Clear(layer).key \in Seq(Token) /\ Clear(layer).value \in Seq(Token)
    BY <1>3, <1>4 DEF Buffer
  <2> QED BY <2>1, LenProperties
<1> HIDE DEF Clear
<1>5. LayerSound(Clear(layer))
  BY <1>2, <1>3, <1>4 DEF LayerSound
<1> QED BY <1>1, <1>3, <1>5

LEMMA CallerEmptiesInv ==
  ASSUME DecodingInv, NEW e, e = [l \in Layers |-> e[l]],
         \A l \in Layers : LayerSound(e[l]) /\ e[l].len = 0, CallerEmpties(e)
  PROVE  DecodingInv'
<1>1. /\ phase = "idle" /\ cache' = e /\ outcome' = "none"
      /\ UNCHANGED <<call, method, phase, input, next, generated, eosAt, basis,
                     agreed, fresh, failures>>
  BY DEF CallerEmpties
<1>2. DecodingTyped'
  BY <1>1 DEF DecodingInv, DecodingTyped
<1>3. Control'
  BY <1>1 DEF DecodingInv, Control
<1>4. FreshInv' /\ CacheInStep'
  BY <1>1 DEF FreshInv, CacheInStep
<1>5. PredictedFromOutput'
  BY <1>1 DEF DecodingInv, PredictedFromOutput, Context
<1>6. FitsContext'
  BY <1>1, DecodingAssumption DEF FitsContext
<1> QED BY <1>2, <1>3, <1>4, <1>5, <1>6 DEF DecodingInv

\* A call begins: with an empty cache, the prompt follows nothing.
LEMMA StartInv ==
  ASSUME DecodingInv, NEW m \in {"decode_generate", "speculative"},
         NEW e, e = [l \in Layers |-> e[l]], \A l \in Layers : LayerSound(e[l]), Start(m, e),
         m = "decode_generate" => \A l \in Layers : Usable(e[l])
  PROVE  DecodingInv'
<1>1. /\ call' = call + 1 /\ method' = m /\ cache' = e
      /\ fresh' = (\A l \in Layers : Usable(e[l]))
      /\ phase' = "forward" /\ input' = Prompt(call') /\ next' = 1 /\ generated' = 0
      /\ outcome' = "none" /\ basis' = <<>> /\ agreed' = MaxNewTokens
  BY DEF Start
<1>2. call \in Nat /\ call' \in Nat /\ MaxNewTokens \in Nat \ {0} /\ 1 \in Layers
  BY <1>1, CacheAssumption, DecodingAssumption DEF DecodingInv, DecodingTyped, Layers
<1>3. Prompt(call') \in Seq(Token) /\ Len(Prompt(call')) = PromptLen
  BY <1>2, PromptIs
<1>4. IsBasis(basis', generated')
  BY <1>1 DEF IsBasis
<1>5. DecodingTyped'
  BY <1>1, <1>2, <1>3, <1>4 DEF DecodingTyped
<1>6. Control'
  <2>1. m = "decode_generate" => fresh'
    BY <1>1
  <2> QED BY <1>1, <1>2, <2>1 DEF Control
<1>7. FreshInv'
  <2> SUFFICES ASSUME fresh' PROVE \E H \in Seq(Token) : PassInv(H)'
    BY <1>1 DEF FreshInv
  <2>1. \A l \in Layers : Holding(cache'[l], <<>>)
    BY <1>1, UsableHoldsNothing
  <2>3. Asked(<<>>)'
    BY <1>1 DEF Asked
  <2>4. InWindow(<<>>)'
    <3>1. Len(<<>>) = 0 /\ Len(input') = PromptLen
      BY <1>1, <1>3, EmptySeq
    <3> QED BY <3>1, DecodingAssumption DEF InWindow
  <2>5. \A l \in Layers : ~(l < next')
    BY <1>1, CacheAssumption DEF Layers
  <2>6. PassInv(<<>>)'
    BY <1>1, <2>1, <2>3, <2>4, <2>5 DEF PassInv
  <2>7. <<>> \in Seq(Token)
    OBVIOUS
  <2> QED BY <2>6, <2>7
<1>8. PredictedFromOutput' /\ CacheInStep'
  BY <1>1 DEF PredictedFromOutput, CacheInStep
<1>9. FitsContext'
  BY <1>1, DecodingAssumption DEF FitsContext, Usable
<1> QED BY <1>5, <1>6, <1>7, <1>8, <1>9 DEF DecodingInv

-----------------------------------------------------------------------------
\* What a finished pass over H and the input predicts: of the prompt the first
\* token, of the last token and drafts the token after each of them, as far as
\* the verifier agrees.
PromptPredicts(T) ==
  /\ T = ContextOf(call, 0) /\ Len(T) = PromptLen
  /\ Attended(Len(input)) = {ContextOf(call, 0)}
  /\ Accepted + 1 = Len(input)

GuessPredicts(T, d, n) ==
  /\ n <= d /\ (method = "decode_generate" => d = 0)
  /\ Len(input) = d + 1 /\ Accepted = n /\ Len(T) = PromptLen + generated + d
  /\ \A i \in 1..(n + 1) : Attended(i) = {ContextOf(call, generated - 1 + i)}
  /\ n = d => T = ContextOf(call, generated + d)

LEMMA PassPredicts ==
  ASSUME DecodingTyped, phase = "predict", NEW H \in Seq(Token), PassInv(H),
         NEW T, T = H \o input
  PROVE  /\ T \in Seq(Token) /\ \A l \in Layers : Holding(cache[l], T)
         /\ generated = 0 => PromptPredicts(T)
         /\ generated > 0 => \E d, n \in Nat : GuessPredicts(T, d, n)
<1>1. \A l \in Layers : Holding(cache[l], T)
  BY DEF PassInv
<1>2. input \in Seq(Token) /\ call \in Nat /\ generated \in Nat
  BY DEF DecodingTyped
<1>3. T \in Seq(Token) /\ Len(T) \in Nat /\ Len(T) = Len(H) + Len(input)
  BY <1>2, ConcatProperties, LenProperties
<1>4. Asked(H)
  BY DEF PassInv
<1>5. ASSUME generated = 0 PROVE PromptPredicts(T)
  <2>1. input = Prompt(call) /\ H = <<>>
    BY <1>4, <1>5 DEF Asked
  <2>2. T = ContextOf(call, 0) /\ Len(T) = PromptLen /\ Len(input) = PromptLen
    BY <1>2, <2>1, PromptPass
  <2>3. Attended(Len(input)) = {SubSeq(T, 1, Len(T) - Len(input) + Len(input))}
    BY <1>1, AttendedIs
  <2>4. Len(T) - Len(input) + Len(input) = Len(T)
    BY <1>3, <2>2
  <2>5. SubSeq(T, 1, Len(T)) = T
    BY <1>3, SubSeqFull
  <2>6. Accepted + 1 = Len(input)
    BY <1>2, <2>1, AcceptedOfPrompt
  <2> QED BY <2>2, <2>3, <2>4, <2>5, <2>6 DEF PromptPredicts
<1>6. ASSUME generated > 0 PROVE \E d, n \in Nat : GuessPredicts(T, d, n)
  <2>1. PICK d \in Nat, n \in Nat :
          /\ n <= d /\ input = Guess(call, generated, d, n)
          /\ method = "decode_generate" => d = 0
    BY <1>4, <1>6 DEF Asked
  <2>2. H = ContextOf(call, generated - 1)
    BY <1>4, <1>6 DEF Asked
  <2>3. /\ T \in Seq(Token) /\ Len(T) = PromptLen + generated + d /\ Len(input) = d + 1
        /\ \A i \in 1..(n + 1) :
             SubSeq(T, 1, Len(T) - Len(input) + i) = ContextOf(call, generated - 1 + i)
        /\ n = d => T = ContextOf(call, generated + d)
    <3>1. /\ call \in Nat /\ generated \in Nat /\ generated > 0 /\ n <= d
          /\ input = Guess(call, generated, d, n) /\ T = H \o input
      BY <1>2, <1>6, <2>1
    <3>2. GuessTokens(T, generated, d, n)
      BY ONLY <2>2, <3>1, d \in Nat, n \in Nat, GuessPass
    <3> QED BY <3>2 DEF GuessTokens
  <2>4. Accepted = n
    BY <1>2, <1>6, <2>1, AcceptedOfGuess
  <2>5. ASSUME NEW i \in 1..(n + 1) PROVE Attended(i) = {ContextOf(call, generated - 1 + i)}
    <3>1. Attended(i) = {SubSeq(T, 1, Len(T) - Len(input) + i)}
      BY <1>1, AttendedIs
    <3> QED BY <2>3, <3>1
  <2>6. GuessPredicts(T, d, n)
    BY <2>1, <2>3, <2>4, <2>5 DEF GuessPredicts
  <2> QED BY <2>6
<1> QED BY <1>1, <1>3, <1>5, <1>6

LEMMA PredictionsAdded ==
  ASSUME DecodingInv, NEW n \in Nat, generated' = generated + n, UNCHANGED <<call, fresh>>,
         agreed' \in Nat, agreed' <= agreed, \A k \in 1..generated : basis'[k] = basis[k],
         \A k \in (generated + 1)..(generated + n) :
           fresh /\ k <= agreed' => basis'[k] = {ContextOf(call, k - 1)}
  PROVE  PredictedFromOutput'
<1>1. generated \in Nat /\ agreed \in Nat
  BY DEF DecodingInv, DecodingTyped
<1>2. ASSUME fresh, NEW k \in 1..generated', k <= agreed'
      PROVE  basis'[k] = {ContextOf(call, k - 1)}
  <2>1. CASE k <= generated
    <3>1. k \in 1..generated /\ k <= agreed
      BY <1>1, <1>2, <2>1
    <3>2. basis[k] = {ContextOf(call, k - 1)}
      BY <1>2, <3>1 DEF DecodingInv, PredictedFromOutput, Context, ContextOf
    <3> QED BY <3>1, <3>2
  <2>2. CASE ~(k <= generated)
    <3>1. k \in (generated + 1)..(generated + n)
      BY <1>1, <2>2
    <3> QED BY <1>2, <3>1
  <2> QED BY <2>1, <2>2
<1>3. \A k \in 1..generated' : Context(k - 1)' = ContextOf(call, k - 1)
  BY DEF Context, ContextOf
<1> QED BY <1>2, <1>3 DEF PredictedFromOutput

LEMMA SampleTokenInv ==
  ASSUME DecodingInv, SampleToken
  PROVE  DecodingInv'
<1>1. /\ phase = "predict" /\ method = "decode_generate" /\ generated' = generated + 1
      /\ basis' = Append(basis, Attended(Len(input)))
      /\ UNCHANGED <<cache, call, method, next, eosAt, agreed, fresh, failures>>
      /\ IF Ends \/ IsFull THEN Return ELSE ContinueWith(<<<<call, generated'>>>>)
  BY DEF SampleToken
<1>2. /\ call \in Nat /\ generated \in Nat /\ generated' \in Nat \ {0} /\ input \in Seq(Token)
      /\ fresh /\ agreed = MaxNewTokens /\ next = 1 /\ generated < MaxNewTokens
      /\ MaxNewTokens \in Nat \ {0} /\ PromptLen \in Nat \ {0} /\ outcome = "none"
  BY <1>1, DecodingAssumption DEF DecodingInv, DecodingTyped, Control
<1>3. PICK H \in Seq(Token) : PassInv(H)
  BY <1>1, <1>2 DEF DecodingInv, FreshInv
<1>13. PICK T : T = H \o input
  OBVIOUS
<1>4. /\ T \in Seq(Token) /\ \A l \in Layers : Holding(cache[l], T)
      /\ generated = 0 => PromptPredicts(T)
      /\ generated > 0 => \E d, n \in Nat : GuessPredicts(T, d, n)
  BY <1>1, <1>3, <1>13, PassPredicts DEF DecodingInv
<1>5. /\ T = ContextOf(call, generated) /\ Len(T) = PromptLen + generated
      /\ Attended(Len(input)) = {ContextOf(call, generated)}
  <2>1. CASE generated = 0
    BY <1>2, <1>4, <2>1 DEF PromptPredicts
  <2>2. CASE generated > 0
    <3>1. PICK d \in Nat, n \in Nat : GuessPredicts(T, d, n)
      BY <1>4, <2>2
    <3>2. d = 0 /\ n = 0
      BY <1>1, <3>1 DEF GuessPredicts
    <3>3. Len(input) = 1 /\ 1 \in 1..(n + 1) /\ generated - 1 + 1 = generated
      BY <1>2, <3>1, <3>2 DEF GuessPredicts
    <3>4. Attended(1) = {ContextOf(call, generated - 1 + 1)}
      BY <3>1, <3>3 DEF GuessPredicts
    <3>5. T = ContextOf(call, generated + 0) /\ Len(T) = PromptLen + generated + 0
      BY <3>1, <3>2 DEF GuessPredicts
    <3> QED BY <1>2, <3>3, <3>4, <3>5
  <2> QED BY <1>2, <2>1, <2>2
<1>6. /\ IsBasis(basis', generated + 1) /\ \A k \in 1..generated : basis'[k] = basis[k]
      /\ basis'[generated + 1] = {ContextOf(call, generated)}
  <2>1. PICK x : x = Attended(Len(input))
    OBVIOUS
  <2>2. basis' = Append(basis, x) /\ x = {ContextOf(call, generated)}
    BY <1>1, <1>5, <2>1
  <2>3. IsBasis(basis, generated)
    BY DEF DecodingInv, DecodingTyped
  <2>4. AddedTo(basis, generated, x, Append(basis, x))
    BY <1>2, <2>3, BasisAppended
  <2> QED BY <2>2, <2>4 DEF AddedTo
<1>7. PredictedFromOutput'
  <2>1. ASSUME NEW k \in (generated + 1)..(generated + 1)
        PROVE  basis'[k] = {ContextOf(call, k - 1)}
    <3>1. k = generated + 1 /\ k - 1 = generated
      BY <1>2
    <3> QED BY <1>6, <3>1
  <2>2. /\ 1 \in Nat /\ UNCHANGED <<call, fresh>> /\ agreed' \in Nat /\ agreed' <= agreed
        /\ generated' = generated + 1
    BY <1>1, <1>2
  <2> QED BY ONLY DecodingInv, <1>6, <2>1, <2>2, PredictionsAdded
<1>8. FitsContext'
  BY <1>1 DEF DecodingInv, FitsContext
<1>9. CASE Ends \/ IsFull
  <2>1. phase' = "idle" /\ input' = input
    BY <1>1, <1>9 DEF Return
  <2>2. DecodingTyped' /\ Control' /\ FreshInv'
    BY <1>1, <1>2, <1>6, <2>1 DEF DecodingInv, DecodingTyped, Control, FreshInv
  <2>3. CacheInStep'
    <3>1. \A l \in Layers : Keys(cache'[l]) = (Context(generated - 1))'
                            /\ Values(cache'[l]) = (Context(generated - 1))'
      <4>1. generated' - 1 = generated
        BY <1>1, <1>2
      <4>2. (Context(generated - 1))' = ContextOf(call, generated)
        BY <1>1, <4>1 DEF Context, ContextOf
      <4> QED BY <1>1, <1>4, <1>5, <4>2 DEF Holding
    <3> QED BY <3>1 DEF CacheInStep
  <2> QED BY <1>7, <1>8, <2>2, <2>3 DEF DecodingInv
<1>10. CASE ~(Ends \/ IsFull)
  <2>1. phase' = "forward" /\ input' = <<<<call, generated'>>>> /\ outcome' = outcome
    BY <1>1, <1>10 DEF ContinueWith
  <2>2. generated' < MaxNewTokens
    BY <1>2, <1>10 DEF Ends
  <2>3. input' = Guess(call, generated', 0, 0)
    BY <1>2, <2>1, TokenIsGuess
  <2>4. input' \in Seq(Token) /\ Len(input') = 1
    BY <1>2, <2>1 DEF Token
  <2>5. DecodingTyped' /\ Control'
    BY <1>1, <1>2, <1>6, <2>1, <2>2, <2>4 DEF DecodingInv, DecodingTyped, Control
  <2>6. CacheInStep'
    BY <1>2, <2>1 DEF CacheInStep
  <2>7. PassInv(T)'
    <3>1. Asked(T)'
      <4>1. generated' - 1 = generated /\ generated' > 0
        BY <1>1, <1>2
      <4>2. /\ 0 \in Nat /\ 0 <= 0 /\ input' = Guess(call', generated', 0, 0)
        BY <1>1, <2>3
      <4>3. T = ContextOf(call', generated' - 1)
        BY <1>1, <1>5, <4>1
      <4> QED BY <4>1, <4>2, <4>3 DEF Asked
    <3>2. InWindow(T)'
      <4>1. SeqLen(cache) = Len(T)
        <5>1. Len(T) > 0
          BY <1>2, <1>5
        <5> QED BY ONLY <1>4, <5>1, SeqLenIs
      <4>2. Len(T) < MaxSeqLen
        BY <1>2, <1>5, <1>10, <4>1, DecodingAssumption DEF IsFull
      <4>3. Len(T) + Len(input') <= MaxSeqLen
        BY <1>2, <1>5, <2>4, <4>2, DecodingAssumption
      <4> QED BY <4>3 DEF InWindow
    <3>3. \A l \in Layers : ~(l < next')
      BY <1>1, <1>2, CacheAssumption DEF Layers
    <3> QED BY <1>1, <1>4, <2>1, <3>1, <3>2, <3>3 DEF PassInv
  <2>8. FreshInv'
    BY <1>4, <2>1, <2>7 DEF FreshInv
  <2> QED BY <1>7, <1>8, <2>5, <2>6, <2>8 DEF DecodingInv
<1> QED BY <1>9, <1>10

LEMMA FirstTokenInv ==
  ASSUME DecodingInv, FirstToken
  PROVE  DecodingInv'
<1>1. /\ phase = "predict" /\ method = "speculative" /\ generated = 0 /\ generated' = 1
      /\ basis' = <<Attended(Len(input))>>
      /\ UNCHANGED <<cache, call, method, next, eosAt, agreed, fresh, failures>>
      /\ IF Ends THEN Return ELSE phase' = "draft" /\ UNCHANGED <<input, outcome>>
  BY DEF FirstToken
<1>2. /\ call \in Nat /\ agreed \in Nat /\ input \in Seq(Token) /\ next = 1
      /\ MaxNewTokens \in Nat \ {0} /\ outcome = "none"
  BY <1>1, DecodingAssumption DEF DecodingInv, DecodingTyped, Control
<1>3. agreed = MaxNewTokens \/ agreed = 0
  BY <1>1, <1>2 DEF DecodingInv, Control
<1>4. ASSUME fresh, agreed = MaxNewTokens
      PROVE  /\ \A l \in Layers : Holding(cache[l], ContextOf(call, 0))
             /\ Attended(Len(input)) = {ContextOf(call, 0)}
  <2>1. PICK H \in Seq(Token) : PassInv(H)
    BY <1>1, <1>4 DEF DecodingInv, FreshInv
  <2> DEFINE T == H \o input
  <2>2. (\A l \in Layers : Holding(cache[l], T)) /\ PromptPredicts(T)
    BY <1>1, <2>1, PassPredicts DEF DecodingInv
  <2> HIDE DEF T
  <2> QED BY <2>2 DEF PromptPredicts
<1>5. phase' \in {"idle", "draft"} /\ input' = input
  BY <1>1 DEF Return
<1>6. /\ phase' = "draft" => outcome' = "none" /\ 1 < MaxNewTokens
  BY <1>1, <1>2 DEF Return, Ends
<1>7. IsBasis(basis', 1)
  <2>1. basis' \in Seq({Attended(Len(input))}) /\ Len(basis') = 1
    BY <1>1
  <2> QED BY <2>1 DEF IsBasis
<1>8. DecodingTyped' /\ Control'
  BY <1>1, <1>2, <1>3, <1>5, <1>6, <1>7 DEF DecodingInv, DecodingTyped, Control
<1>9. PredictedFromOutput'
  <2>1. ASSUME NEW k \in 1..generated', fresh, k <= agreed
        PROVE  basis'[k] = {Context(k - 1)'}
    <3>1. k = 1 /\ agreed = MaxNewTokens
      BY <1>1, <1>2, <1>3, <2>1
    <3>2. basis'[1] = {ContextOf(call, 0)}
      BY <1>1, <1>4, <2>1, <3>1
    <3>3. Context(k - 1)' = ContextOf(call, 0)
      BY <1>1, <3>1 DEF Context, ContextOf
    <3> QED BY <3>1, <3>2, <3>3
  <2> QED BY <1>1, <2>1 DEF PredictedFromOutput
<1>10. FreshInv'
  <2>1. generated' - 1 = 0
    BY <1>1
  <2> QED BY <1>1, <1>4, <1>5, <2>1 DEF FreshInv
<1>11. CacheInStep'
  <2> SUFFICES ASSUME fresh, agreed = MaxNewTokens
               PROVE  \A l \in Layers : /\ Keys(cache'[l]) = (Context(generated - 1))'
                                        /\ Values(cache'[l]) = (Context(generated - 1))'
    BY <1>1 DEF CacheInStep, NoDraftLeft
  <2>1. (Context(generated - 1))' = ContextOf(call, 0)
    BY <1>1 DEF Context, ContextOf
  <2> QED BY <1>1, <1>4, <2>1 DEF Holding
<1>12. FitsContext'
  BY <1>1 DEF FitsContext
<1> QED BY <1>8, <1>9, <1>10, <1>11, <1>12 DEF DecodingInv

LEMMA DraftTokensInv ==
  ASSUME DecodingInv, DraftTokens
  PROVE  DecodingInv'
<1>1. PICK n \in 0..NumDraft :
        ContinueWith(<<<<call, generated>>>> \o
          [i \in 1..NumDraft |-> <<call, IF i <= n THEN generated + i ELSE 0>>])
  BY DEF DraftTokens
<1>2. /\ phase = "draft"
      /\ UNCHANGED <<cache, call, method, next, generated, eosAt, basis, agreed,
                     fresh, failures>>
  BY DEF DraftTokens
<1>3. /\ method = "speculative" /\ generated \in Nat /\ generated > 0
      /\ generated < MaxNewTokens /\ call \in Nat /\ next = 1 /\ outcome = "none"
      /\ MaxNewTokens \in Nat /\ Heads \in Nat
  BY <1>2, DecodingAssumption DEF DecodingInv, DecodingTyped, Control
<1>4. NumDraft \in Nat
  BY <1>3 DEF NumDraft, Min2
<1>5. n \in Nat /\ n <= NumDraft
  BY <1>4
<1>6. input' = Guess(call, generated, NumDraft, n)
  <2> DEFINE drafts == [i \in 1..NumDraft |-> <<call, IF i <= n THEN generated + i ELSE 0>>]
  <2>1. call \in Nat /\ generated \in Nat
    BY <1>3
  <2>2. <<<<call, generated>>>> \o drafts = Guess(call, generated, NumDraft, n)
    BY <1>4, <1>5, <2>1, DraftsAreGuess
  <2>3. input' = <<<<call, generated>>>> \o drafts
    BY <1>1 DEF ContinueWith
  <2> HIDE DEF drafts
  <2> QED BY <2>2, <2>3
<1>7. input' \in Seq(Token)
  BY <1>3, <1>4, <1>5, <1>6, GuessIsSeq
<1>8. phase' = "forward" /\ outcome' = "none"
  BY <1>1, <1>3 DEF ContinueWith
<1>9. DecodingTyped' /\ Control'
  BY <1>2, <1>3, <1>7, <1>8 DEF DecodingInv, DecodingTyped, Control
<1>10. PredictedFromOutput'
  BY <1>2 DEF DecodingInv, PredictedFromOutput, Context
<1>11. CacheInStep' /\ FitsContext'
  BY <1>2, <1>3, <1>8 DEF CacheInStep, FitsContext
<1>12. FreshInv'
  <2> SUFFICES ASSUME fresh, agreed = MaxNewTokens
               PROVE  \E H \in Seq(Token) : PassInv(H)'
    BY <1>2, <1>8 DEF FreshInv
  <2>1. PICK H : H = ContextOf(call, generated - 1)
    OBVIOUS
  <2>2. H \in Seq(Token)
    <3>1. generated - 1 \in Nat
      BY <1>3
    <3> QED BY <1>3, <2>1, <3>1, ContextIs
  <2>3. \A l \in Layers : Holding(cache[l], H)
    BY <1>2, <2>1 DEF DecodingInv, FreshInv
  <2>4. PICK d : d = NumDraft
    OBVIOUS
  <2>5. Asked(H)'
    <3>1. d \in Nat /\ n <= d /\ input' = Guess(call', generated', d, n)
      BY <1>2, <1>4, <1>5, <1>6, <2>4
    <3>2. generated' > 0 /\ H = ContextOf(call', generated' - 1) /\ method' = "speculative"
      BY <1>2, <1>3, <2>1
    <3> QED BY <1>5, <3>1, <3>2 DEF Asked
  <2>6. InWindow(H)'
    BY <1>2, <1>3 DEF InWindow
  <2>7. \A l \in Layers : ~(l < next')
    BY <1>2, <1>3, CacheAssumption DEF Layers
  <2>8. PassInv(H)'
    BY <1>2, <1>8, <2>3, <2>5, <2>6, <2>7 DEF PassInv
  <2> QED BY <2>2, <2>8
<1> QED BY <1>9, <1>10, <1>11, <1>12 DEF DecodingInv

LEMMA VerifyInv ==
  ASSUME DecodingInv, Verify
  PROVE  DecodingInv'
<1> DEFINE limit == generated + Accepted >= Min2(eosAt, MaxNewTokens)
<1>1. /\ phase = "predict" /\ method = "speculative" /\ generated > 0
      /\ Emit(IF limit THEN Accepted ELSE Accepted + 1)
      /\ agreed' = IF ~limit /\ Accepted + 1 < Len(input) THEN Min2(agreed, generated')
                   ELSE agreed
      /\ IF Ends THEN Return ELSE phase' = "draft" /\ UNCHANGED <<input, outcome>>
      /\ UNCHANGED <<cache, call, method, next, eosAt, fresh, failures>>
  BY DEF Verify
<1>2. limit <=> \/ generated + Accepted >= eosAt /\ eosAt < MaxNewTokens
                \/ generated + Accepted >= MaxNewTokens /\ ~(eosAt < MaxNewTokens)
  BY DEF Min2
<1> HIDE DEF limit
<1>3. /\ call \in Nat /\ generated \in Nat /\ agreed \in Nat /\ input \in Seq(Token)
      /\ next = 1 /\ MaxNewTokens \in Nat \ {0} /\ outcome = "none"
      /\ agreed <= MaxNewTokens /\ (agreed < MaxNewTokens => agreed <= generated)
  BY <1>1, DecodingAssumption DEF DecodingInv, DecodingTyped, Control
<1>4. Accepted \in Nat /\ Len(input) \in Nat
  BY <1>3, AcceptedType, LenProperties
<1>5. PICK a : a = Accepted
  OBVIOUS
<1>6. PICK e : e = IF limit THEN a ELSE a + 1
  OBVIOUS
<1>7. e \in Nat /\ a \in Nat /\ generated' = generated + e /\ generated' \in Nat
  BY <1>1, <1>3, <1>4, <1>5, <1>6 DEF Emit
<1>8. /\ agreed' \in Nat /\ agreed' <= agreed
      /\ agreed' < MaxNewTokens => agreed' <= generated'
  BY <1>1, <1>3, <1>7 DEF Min2
<1>9. ExtendedTo(basis, generated, e, [i \in 1..e |-> Attended(i)], basis')
  <2>1. IsBasis(basis, generated)
    BY DEF DecodingInv, DecodingTyped
  <2>2. PICK f : f = [i \in 1..e |-> Attended(i)]
    OBVIOUS
  <2>3. DOMAIN f = 1..e /\ f = [i \in 1..e |-> f[i]]
    BY <2>2
  <2>4. ExtendedTo(basis, generated, e, f, basis \o f)
    BY <1>3, <1>7, <2>1, <2>3, BasisExtended
  <2>5. basis' = basis \o f
    BY <1>1, <1>5, <1>6, <2>2 DEF Emit
  <2> QED BY <2>2, <2>4, <2>5
<1>10. /\ IsBasis(basis', generated') /\ \A k \in 1..generated : basis'[k] = basis[k]
       /\ \A i \in 1..e : basis'[generated + i] = Attended(i)
  BY <1>7, <1>9 DEF ExtendedTo
<1>11. ASSUME fresh, agreed = MaxNewTokens
       PROVE  \E d \in Nat :
                /\ a <= d /\ Len(input) = d + 1
                /\ \A i \in 1..(a + 1) : Attended(i) = {ContextOf(call, generated - 1 + i)}
                /\ a = d => \A l \in Layers : Holding(cache[l], ContextOf(call, generated + d))
  <2>1. PICK H \in Seq(Token) : PassInv(H)
    BY <1>1, <1>11 DEF DecodingInv, FreshInv
  <2>2. PICK T : T = H \o input
    OBVIOUS
  <2>3. /\ \A l \in Layers : Holding(cache[l], T)
        /\ \E d, n \in Nat : GuessPredicts(T, d, n)
    BY <1>1, <2>1, <2>2, PassPredicts DEF DecodingInv
  <2>4. PICK d \in Nat, n \in Nat : GuessPredicts(T, d, n)
    BY <2>3
  <2>5. n = a /\ a <= d /\ Len(input) = d + 1
    BY <1>5, <2>4 DEF GuessPredicts
  <2>6. \A i \in 1..(a + 1) : Attended(i) = {ContextOf(call, generated - 1 + i)}
    BY <2>4, <2>5 DEF GuessPredicts
  <2>7. a = d => T = ContextOf(call, generated + d)
    BY <2>4, <2>5 DEF GuessPredicts
  <2> QED BY <2>3, <2>5, <2>6, <2>7
<1>12. phase' \in {"idle", "draft"} /\ input' = input /\ Accepted' = Accepted
  BY <1>1 DEF Return, Accepted
<1>13. phase' = "draft" => outcome' = "none" /\ generated' < MaxNewTokens /\ ~limit
  <2> SUFFICES ASSUME phase' = "draft"
               PROVE  outcome' = "none" /\ generated' < MaxNewTokens /\ ~limit
    OBVIOUS
  <2>1. ~Ends
    BY <1>1 DEF Return
  <2>2. outcome' = "none" /\ ~(generated' >= eosAt) /\ generated' < MaxNewTokens
    BY <1>1, <1>3, <1>7, <2>1 DEF Ends
  <2>3. limit => generated' = generated + Accepted
    BY <1>5, <1>6, <1>7
  <2>4. ~limit
    BY <1>1, <1>2, <1>3, <1>7, <2>2, <2>3
  <2> QED BY <2>2, <2>4
<1>14. DecodingTyped'
  BY <1>1, <1>7, <1>8, <1>10, <1>12 DEF DecodingInv, DecodingTyped
<1>15. Control'
  <2>1. generated' > 0 /\ agreed' <= MaxNewTokens
    BY <1>1, <1>3, <1>7, <1>8
  <2> QED BY <1>1, <1>3, <1>8, <1>12, <1>13, <2>1 DEF Control
<1>16. PredictedFromOutput'
  <2>1. ASSUME NEW k \in (generated + 1)..(generated + e), fresh, k <= agreed'
        PROVE  basis'[k] = {ContextOf(call, k - 1)}
    <3>1. agreed = MaxNewTokens
      BY <1>3, <1>7, <1>8, <2>1
    <3>2. PICK i : i = k - generated
      OBVIOUS
    <3>3. i \in 1..e /\ i \in 1..(a + 1) /\ generated + i = k /\ generated - 1 + i = k - 1
      BY <1>3, <1>6, <1>7, <3>2
    <3>4. Attended(i) = {ContextOf(call, generated - 1 + i)}
      BY <1>11, <2>1, <3>1, <3>3
    <3>5. basis'[generated + i] = Attended(i)
      BY <1>10, <3>3
    <3> QED BY <3>3, <3>4, <3>5
  <2>2. UNCHANGED <<call, fresh>>
    BY <1>1
  <2>3. \A k \in (generated + 1)..(generated + e) :
          fresh /\ k <= agreed' => basis'[k] = {ContextOf(call, k - 1)}
    BY <2>1
  <2>4. /\ e \in Nat /\ generated' = generated + e /\ agreed' \in Nat /\ agreed' <= agreed
        /\ \A k \in 1..generated : basis'[k] = basis[k]
    BY <1>7, <1>8, <1>10
  <2> QED BY ONLY DecodingInv, <2>2, <2>3, <2>4, PredictionsAdded
<1>17. FreshInv'
  <2> SUFFICES ASSUME fresh, agreed' = MaxNewTokens, phase' = "draft"
               PROVE  \A l \in Layers : Holding(cache'[l], (ContextOf(call, generated - 1))')
    BY <1>1, <1>12 DEF FreshInv
  <2>1. agreed = MaxNewTokens
    BY <1>3, <1>8
  <2>2. PICK d \in Nat :
          /\ a <= d /\ Len(input) = d + 1
          /\ a = d => \A l \in Layers : Holding(cache[l], ContextOf(call, generated + d))
    BY <1>11, <2>1
  <2>3. ~limit /\ generated' < MaxNewTokens /\ generated' = generated + a + 1
    BY <1>3, <1>6, <1>7, <1>13
  <2>4. a = d
    <3>1. ~(Accepted + 1 < Len(input))
      <4> SUFFICES ASSUME Accepted + 1 < Len(input) PROVE FALSE
        OBVIOUS
      <4>1. agreed' = Min2(agreed, generated')
        BY <1>1, <2>3
      <4> QED BY <1>3, <1>7, <2>1, <2>3, <4>1 DEF Min2
    <3> QED BY <1>4, <1>5, <2>2, <3>1
  <2>5. generated' - 1 = generated + d
    BY <1>3, <1>7, <2>3, <2>4
  <2>6. (ContextOf(call, generated - 1))' = ContextOf(call, generated + d)
    BY <1>1, <2>5 DEF ContextOf
  <2> QED BY <1>1, <2>2, <2>4, <2>6
<1>18. CacheInStep'
  <2> SUFFICES ASSUME fresh, agreed' = MaxNewTokens, Accepted + 1 = Len(input)
               PROVE  \E n \in {generated' - 1} \union {generated'} :
                        \A l \in Layers : Keys(cache'[l]) = Context(n)'
                                          /\ Values(cache'[l]) = Context(n)'
    BY <1>1, <1>12 DEF CacheInStep, NoDraftLeft
  <2>1. agreed = MaxNewTokens
    BY <1>3, <1>8
  <2>2. PICK d \in Nat :
          /\ a <= d /\ Len(input) = d + 1
          /\ a = d => \A l \in Layers : Holding(cache[l], ContextOf(call, generated + d))
    BY <1>11, <2>1
  <2>3. a = d
    BY <1>5, <1>7, <2>2
  <2>4. PICK n : n = generated + d
    OBVIOUS
  <2>5. n = generated' \/ n = generated' - 1
    BY <1>3, <1>6, <1>7, <2>3, <2>4
  <2>6. Context(n)' = ContextOf(call, n)
    BY <1>1 DEF Context, ContextOf
  <2>7. \A l \in Layers : Keys(cache'[l]) = Context(n)' /\ Values(cache'[l]) = Context(n)'
    BY <1>1, <2>2, <2>3, <2>4, <2>6 DEF Holding
  <2> QED BY <2>5, <2>7
<1>19. FitsContext'
  BY <1>1 DEF FitsContext
<1> QED BY <1>14, <1>15, <1>16, <1>17, <1>18, <1>19 DEF DecodingInv

-----------------------------------------------------------------------------
LEMMA DecodingInit == Init => DecodingInv
<1> SUFFICES ASSUME Init PROVE DecodingInv
  OBVIOUS
<1>1. MaxNewTokens \in Nat \ {0} /\ 1 \in Layers
  BY CacheAssumption, DecodingAssumption DEF Layers
<1>2. \A l \in Layers : cache[l] = EmptyLayer
  BY DEF Init
<1>3. LayerSound(EmptyLayer) /\ EmptyLayer.len = 0
  BY DEF EmptyLayer, LayerSound, Buffer
<1>4. IsBasis(basis, generated)
  BY DEF Init, IsBasis
<1>5. DecodingTyped
  BY <1>1, <1>2, <1>3, <1>4 DEF Init, DecodingTyped
<1>6. Control /\ FreshInv
  BY <1>1 DEF Init, Control, FreshInv
<1>7. PredictedFromOutput /\ CacheInStep /\ FitsContext
  BY DEF Init, PredictedFromOutput, CacheInStep, FitsContext
<1> QED BY <1>5, <1>6, <1>7 DEF DecodingInv

LEMMA DecodingStep == DecodingInv /\ [Next]_vars => DecodingInv'
<1> SUFFICES ASSUME DecodingInv, [Next]_vars PROVE DecodingInv'
  OBVIOUS
<1>1. /\ cache = [l \in Layers |-> cache[l]]
      /\ \A l \in Layers : LayerSound(cache[l])
  BY DEF DecodingInv, DecodingTyped
<1>2. CASE StartDecodeGenerate
  <2>1. PICK e : e = [l \in Layers |-> Prefill(cache[l])]
    OBVIOUS
  <2>2. \A l \in Layers : LayerSound(e[l]) /\ Usable(e[l])
    BY <1>1, <2>1, EmptiedSound DEF Prefill
  <2>3. Start("decode_generate", e) /\ e = [l \in Layers |-> e[l]]
    BY <1>2, <2>1 DEF StartDecodeGenerate
  <2> QED BY <2>2, <2>3, StartInv
<1>3. CASE StartSpeculative
  BY <1>1, <1>3, StartInv DEF StartSpeculative
<1>4. CASE CallerClears
  <2>1. PICK e : e = [l \in Layers |-> Clear(cache[l])]
    OBVIOUS
  <2>2. \A l \in Layers : LayerSound(e[l]) /\ e[l].len = 0
    BY <1>1, <2>1, EmptiedSound
  <2>3. CallerEmpties(e) /\ e = [l \in Layers |-> e[l]]
    BY <1>4, <2>1 DEF CallerClears
  <2> QED BY <2>2, <2>3, CallerEmptiesInv
<1>5. CASE CallerResets
  <2>1. PICK e : e = [l \in Layers |-> Reset(cache[l])]
    OBVIOUS
  <2>2. \A l \in Layers : LayerSound(e[l]) /\ e[l].len = 0
    BY <1>1, <2>1, EmptiedSound
  <2>3. CallerEmpties(e) /\ e = [l \in Layers |-> e[l]]
    BY <1>5, <2>1 DEF CallerResets
  <2> QED BY <2>2, <2>3, CallerEmptiesInv
<1>6. CASE ForwardLayer
  BY <1>6, ForwardLayerInv
<1>7. CASE SampleToken
  BY <1>7, SampleTokenInv
<1>8. CASE FirstToken
  BY <1>8, FirstTokenInv
<1>9. CASE DraftTokens
  BY <1>9, DraftTokensInv
<1>10. CASE Verify
  BY <1>10, VerifyInv
<1>11. CASE PassFails
  BY <1>11, PassFailsInv
<1>12. CASE UNCHANGED vars
  <2>1. UNCHANGED <<cache, call, method, phase, input, next, generated, outcome, eosAt,
                    basis, agreed, fresh, failures>>
    BY <1>12 DEF vars
  <2>2. DecodingTyped' /\ Control'
    BY <2>1 DEF DecodingInv, DecodingTyped, Control
  <2>3. FreshInv'
    BY <2>1 DEF DecodingInv, FreshInv, PassInv, Asked, InWindow
  <2>4. PredictedFromOutput'
    BY <2>1 DEF DecodingInv, PredictedFromOutput, Context
  <2>5. CacheInStep'
    BY <2>1 DEF DecodingInv, CacheInStep, NoDraftLeft, Accepted, Context
  <2>6. FitsContext'
    BY <2>1 DEF DecodingInv, FitsContext
  <2> QED BY <2>2, <2>3, <2>4, <2>5, <2>6 DEF DecodingInv
<1> QED BY <1>2, <1>3, <1>4, <1>5, <1>6, <1>7, <1>8, <1>9, <1>10, <1>11, <1>12 DEF Next

LEMMA DecodingInvariant == Spec => []DecodingInv
BY DecodingInit, DecodingStep, PTL DEF Spec

\* Every output token, up to the verifier's answer to the first rejected
\* draft, is predicted in every layer from the prompt and the output before
\* it: whichever appends fail, for both functions, in any sequence of calls.
THEOREM OutputIsPredicted == Spec => []PredictedFromOutput
<1>1. DecodingInv => PredictedFromOutput
  BY DEF DecodingInv
<1> QED BY <1>1, DecodingInvariant, PTL

\* A call that returned without error and left no draft leaves the prompt and
\* the output in every layer of the cache.
THEOREM CacheHoldsOutput == Spec => []CacheInStep
<1>1. DecodingInv => CacheInStep
  BY DEF DecodingInv
<1> QED BY <1>1, DecodingInvariant, PTL

\* decode_generate never fills a layer beyond the context window.
THEOREM WindowKept == Spec => []FitsContext
<1>1. DecodingInv => FitsContext
  BY DEF DecodingInv
<1> QED BY <1>1, DecodingInvariant, PTL
=============================================================================
