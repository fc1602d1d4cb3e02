-------------------------- MODULE BufferPoolProofs --------------------------
(***************************************************************************)
(* For any size classes, limits and requests: as long as the program        *)
(* reclaims only what it no longer holds, every buffer it holds belongs to  *)
(* one tensor; every buffer is long enough; and whatever it reclaims, the   *)
(* byte count is the sum over the entries and the pool stays within its     *)
(* limits.  The sum is defined recursively: its facts are proved by taking  *)
(* the first class for which they would fail.                               *)
(***************************************************************************)
EXTENDS BufferPool, FiniteSetTheorems, WellFoundedInduction, TLAPS

Buffer == [class : Class, entry : Nat, bytes : Requests]

Typed ==
  /\ available \in [Class -> Seq(BOOLEAN)]
  /\ pooledBytes \in Nat
  /\ held \subseteq Buffer

-----------------------------------------------------------------------------
\* A set of class numbers that is not empty has a least one.
LEMMA LeastExists ==
  ASSUME NEW N \in Nat, NEW U \in SUBSET (1..N), U # {}
  PROVE  \E m \in U : \A n \in U : m <= n
<1> DEFINE T == {1..m : m \in U}
<1>1. IsWellFoundedOn(StrictSubsetOrdering(1..N), SUBSET (1..N))
  <2>1. IsFiniteSet(1..N)
    BY FS_Interval
  <2> QED
    BY <2>1, FS_StrictSubsetOrderingWellFounded, FS_FiniteSubsetsOfFinite
<1>2. T \subseteq SUBSET (1..N)
  <2>1. \A m \in U : 1..m \subseteq 1..N
    OBVIOUS
  <2> QED BY <2>1
<1>3. T # {}
  OBVIOUS
<1>4. PICK s \in T : \A t \in T : ~(<<t, s>> \in StrictSubsetOrdering(1..N))
  <2> HIDE DEF T
  <2> QED BY <1>1, <1>2, <1>3, WFMin
<1>5. PICK m \in U : s = 1..m
  OBVIOUS
<1>6. ASSUME NEW n \in U, ~(m <= n) PROVE FALSE
  <2>1. 1..n \in T /\ 1..n \in SUBSET (1..N) /\ s \in SUBSET (1..N)
    BY <1>2
  <2>2. 1..n \subseteq s /\ m \in s /\ m \notin 1..n
    BY <1>5, <1>6
  <2>3. <<1..n, s>> \in StrictSubsetOrdering(1..N)
    BY <2>1, <2>2 DEF StrictSubsetOrdering
  <2> QED BY <1>4, <2>1, <2>3
<1> QED BY <1>6

\* The class for a request that fits the largest is large enough for it.
LEMMA ClassFits ==
  ASSUME NEW bytes \in Requests, Poolable(bytes)
  PROVE  ClassFor(bytes) \in Class /\ bytes <= ClassSize[ClassFor(bytes)]
<1> DEFINE U == {k \in Class : bytes <= ClassSize[k]}
<1>1. Classes \in Nat /\ U \in SUBSET (1..Classes) /\ Classes \in U
  BY PoolAssumption DEF Class, Poolable
<1>2. PICK m \in U : \A k \in U : m <= k
  <2> HIDE DEF U
  <2> QED BY <1>1, LeastExists
<1>3. \A j \in 1..(m - 1) : bytes > ClassSize[j]
  <2> SUFFICES ASSUME NEW j \in 1..(m - 1), ~(bytes > ClassSize[j]) PROVE FALSE
    OBVIOUS
  <2>1. j \in Class /\ ~(m <= j) /\ bytes \in Nat /\ ClassSize[j] \in Nat
    BY PoolAssumption DEF Class
  <2> QED BY <1>2, <2>1
<1>4. m \in Class /\ bytes <= ClassSize[m]
  OBVIOUS
<1> QED BY <1>3, <1>4 DEF ClassFor

-----------------------------------------------------------------------------
\* Marking all entries of a class.
LEMMA AllTrue ==
  ASSUME NEW a \in Seq(BOOLEAN)
  PROVE  /\ [i \in DOMAIN a |-> TRUE] \in Seq(BOOLEAN)
         /\ Len([i \in DOMAIN a |-> TRUE]) = Len(a)
<1> DEFINE b == [i \in 1..Len(a) |-> TRUE]
<1>1. Len(a) \in Nat /\ DOMAIN a = 1..Len(a)
  OBVIOUS
<1>2. b \in [1..Len(a) -> BOOLEAN]
  OBVIOUS
<1>3. b \in Seq(BOOLEAN) /\ Len(b) = Len(a)
  <2> HIDE DEF b
  <2> QED BY <1>1, <1>2
<1> QED BY <1>1, <1>3

IInv == Typed /\ HeldOnce /\ LargeEnough

LEMMA InitIInv == Init => IInv
BY DEF Init, IInv, Typed, HeldOnce, LargeEnough, Class

\* An entry that is available is held by no one: it can be given out.
LEMMA ReuseIInv ==
  ASSUME IInv, NEW bytes \in Requests, Reuse(bytes)
  PROVE  IInv'
<1> DEFINE k == ClassFor(bytes)
<1>1. k \in Class /\ bytes <= ClassSize[k]
  BY ClassFits DEF Reuse
<1>2. PICK i \in Free(k) :
        /\ available' = [available EXCEPT ![k][i] = FALSE]
        /\ held' = held \cup {[class |-> k, entry |-> i, bytes |-> bytes]}
  BY DEF Reuse, Issued
<1> HIDE DEF k
<1>3. /\ available \in [Class -> Seq(BOOLEAN)] /\ held \subseteq Buffer
      /\ available[k] \in Seq(BOOLEAN)
      /\ pooledBytes' = pooledBytes /\ pooledBytes \in Nat
  BY <1>1 DEF IInv, Typed, Reuse
<1>4. i \in DOMAIN available[k] /\ available[k][i] /\ i \in Nat
  BY <1>3 DEF Free
<1>5. /\ [available[k] EXCEPT ![i] = FALSE] \in Seq(BOOLEAN)
      /\ available' = [available EXCEPT ![k] = [available[k] EXCEPT ![i] = FALSE]]
  <2> DEFINE new == [available[k] EXCEPT ![i] = FALSE]
  <2>1. PICK n \in Nat : available[k] \in [1..n -> BOOLEAN]
    BY <1>3
  <2>2. new \in [1..n -> BOOLEAN]
    BY <2>1
  <2>3. new \in Seq(BOOLEAN)
    <3> HIDE DEF new
    <3> QED BY <2>1, <2>2
  <2> QED BY <1>2, <2>3
<1>6. /\ available' \in [Class -> Seq(BOOLEAN)]
      /\ \A c \in Class : DOMAIN available'[c] = DOMAIN available[c]
      /\ \A c \in Class : \A j \in DOMAIN available[c] :
           /\ c = k /\ j = i => ~available'[c][j]
           /\ ~(c = k /\ j = i) => available'[c][j] = available[c][j]
  BY <1>1, <1>3, <1>5
<1>7. [class |-> k, entry |-> i, bytes |-> bytes] \in Buffer
  BY <1>1, <1>4 DEF Buffer
<1>8. \A b \in held : ~(b.class = k /\ b.entry = i)
  BY <1>4 DEF IInv, HeldOnce
<1>9. Typed'
  BY <1>2, <1>3, <1>6, <1>7 DEF Typed
<1>10. HeldOnce'
  <2>1. \A b \in held : /\ b.class \in Class
                        /\ b.entry \in DOMAIN available[b.class]
                        /\ ~available[b.class][b.entry]
    BY <1>3 DEF IInv, HeldOnce, Buffer
  <2>2. \A b \in held : /\ b.entry \in DOMAIN available'[b.class]
                        /\ ~available'[b.class][b.entry]
    BY <1>6, <1>8, <2>1
  <2>3. i \in DOMAIN available'[k] /\ ~available'[k][i]
    BY <1>1, <1>4, <1>6
  <2> QED BY <1>2, <1>8, <2>2, <2>3 DEF IInv, HeldOnce
<1>11. LargeEnough'
  BY <1>1, <1>2 DEF IInv, LargeEnough
<1> QED BY <1>9, <1>10, <1>11 DEF IInv


\* A new entry is behind all entries that are held.
LEMMA GrowIInv ==
  ASSUME IInv, NEW bytes \in Requests, Grow(bytes)
  PROVE  IInv'
<1> DEFINE k == ClassFor(bytes)
<1>1. k \in Class /\ bytes <= ClassSize[k] /\ ClassSize[k] \in Nat
  BY ClassFits, PoolAssumption DEF Grow, Class
<1>2. CASE UNCHANGED <<available, pooledBytes, held>>
  BY <1>2 DEF IInv, Typed, HeldOnce, LargeEnough
<1>3. CASE /\ available' = [available EXCEPT ![k] = Append(@, FALSE)]
           /\ pooledBytes' = pooledBytes + ClassSize[k]
           /\ held' = held \cup {[class |-> k, entry |-> Len(available[k]) + 1,
                                  bytes |-> bytes]}
  <2> DEFINE old == available[k]
             i == Len(old) + 1
             b0 == [class |-> k, entry |-> i, bytes |-> bytes]
  <2> HIDE DEF k
  <2>1. /\ available \in [Class -> Seq(BOOLEAN)] /\ held \subseteq Buffer
        /\ old \in Seq(BOOLEAN) /\ pooledBytes \in Nat
    BY <1>1 DEF IInv, Typed
  <2>2. /\ Append(old, FALSE) \in Seq(BOOLEAN) /\ Len(old) \in Nat
        /\ DOMAIN old = 1..Len(old) /\ DOMAIN Append(old, FALSE) = 1..(Len(old) + 1)
        /\ \A j \in 1..Len(old) : Append(old, FALSE)[j] = old[j]
        /\ Append(old, FALSE)[i] = FALSE
    <3> HIDE DEF old
    <3> QED BY <2>1
  <2>3. i \in Nat /\ i \notin DOMAIN old /\ i \in DOMAIN Append(old, FALSE)
    <3> HIDE DEF old
    <3> QED BY <2>2
  <2>4. /\ available' = [available EXCEPT ![k] = Append(old, FALSE)]
        /\ held' = held \cup {b0}
    BY <1>3
  <2> HIDE DEF i, old
  <2>5. b0 \in Buffer
    BY <1>1, <2>3 DEF Buffer
  <2>6. Typed'
    BY <1>1, <1>3, <2>1, <2>2, <2>4, <2>5 DEF Typed
  <2>7. /\ available'[k] = Append(old, FALSE)
        /\ \A c \in Class : c # k => available'[c] = available[c]
    BY <1>1, <2>1, <2>4
  <2>8. \A b \in held : /\ b.class \in Class
                        /\ b.entry \in DOMAIN available[b.class]
                        /\ ~available[b.class][b.entry]
    BY <2>1 DEF IInv, HeldOnce, Buffer
  <2>9. \A b \in held : /\ b.entry \in DOMAIN available'[b.class]
                        /\ ~available'[b.class][b.entry]
                        /\ ~(b.class = k /\ b.entry = i)
    <3> SUFFICES ASSUME NEW b \in held
                 PROVE  /\ b.entry \in DOMAIN available'[b.class]
                        /\ ~available'[b.class][b.entry]
                        /\ ~(b.class = k /\ b.entry = i)
      OBVIOUS
    <3>1. CASE b.class = k
      <4>1. b.entry \in 1..Len(old) /\ ~old[b.entry]
        BY <2>2, <2>8, <3>1 DEF old
      <4> QED BY <2>2, <2>3, <2>7, <3>1, <4>1
    <3>2. CASE b.class # k
      BY <2>7, <2>8, <3>2
    <3> QED BY <3>1, <3>2
  <2>10. i \in DOMAIN available'[k] /\ ~available'[k][i]
    BY <2>2, <2>3, <2>7
  <2>11. HeldOnce'
    BY <2>4, <2>9, <2>10 DEF IInv, HeldOnce
  <2>12. LargeEnough'
    BY <1>1, <2>4 DEF IInv, LargeEnough
  <2> QED BY <2>6, <2>11, <2>12 DEF IInv
<1> QED BY <1>2, <1>3 DEF Grow, Issued

\* Reclaiming marks entries as available, which is harmless only because none
\* of them is held.
LEMMA StepIInv == ASSUME OwnReclaim PROVE IInv /\ [Next]_vars => IInv'
<1> SUFFICES ASSUME IInv, [Next]_vars PROVE IInv'
  OBVIOUS
<1>1. ASSUME NEW bytes \in Requests, Reuse(bytes)
      PROVE  IInv'
  BY <1>1, ReuseIInv
<1>2. ASSUME NEW bytes \in Requests, Grow(bytes)
      PROVE  IInv'
  BY <1>2, GrowIInv
<1>3. CASE \/ UNCHANGED vars \/ ResetStats
           \/ \E bytes \in Requests : Discard(bytes)
  <2>1. UNCHANGED <<available, pooledBytes, held>>
    BY <1>3 DEF vars, ResetStats, Discard
  <2> QED BY <2>1 DEF IInv, Typed, HeldOnce, LargeEnough
<1>4. CASE Drop
  <2>1. UNCHANGED <<available, pooledBytes>> /\ held' \subseteq held
    BY <1>4 DEF Drop
  <2> QED BY <2>1 DEF IInv, Typed, HeldOnce, LargeEnough
<1>5. CASE ReclaimAll
  <2>1. /\ held = {} /\ held' = {} /\ pooledBytes' = pooledBytes
        /\ available' = [k \in Class |-> [i \in DOMAIN available[k] |-> TRUE]]
    BY <1>5 DEF ReclaimAll
  <2>2. ASSUME NEW k \in Class
        PROVE  [i \in DOMAIN available[k] |-> TRUE] \in Seq(BOOLEAN)
    BY AllTrue DEF IInv, Typed
  <2> QED BY <2>1, <2>2 DEF IInv, Typed, HeldOnce, LargeEnough
<1> QED BY <1>1, <1>2, <1>3, <1>4, <1>5 DEF Next, Acquire

\* If the program reclaims only what it no longer holds: a buffer it holds is
\* marked issued and belongs to one tensor only.
THEOREM BuffersHeldOnce == ASSUME OwnReclaim PROVE Spec => []HeldOnce
<1>1. IInv => HeldOnce
  BY DEF IInv
<1> QED BY <1>1, InitIInv, StepIInv, PTL DEF Spec

\* A buffer is at least as long as what was asked for.
THEOREM BuffersLargeEnough == Spec => []LargeEnough
<1>1. Init => LargeEnough
  BY DEF Init, LargeEnough
<1>2. LargeEnough /\ [Next]_vars => LargeEnough'
  <2> SUFFICES ASSUME LargeEnough, [Next]_vars PROVE LargeEnough'
    OBVIOUS
  <2>1. ASSUME NEW bytes \in Requests, Reuse(bytes) \/ Grow(bytes)
        PROVE  LargeEnough'
    <3>1. bytes <= ClassSize[ClassFor(bytes)]
      BY <2>1, ClassFits DEF Reuse, Grow
    <3>2. \/ held' = held
          \/ \E i : held' = held \cup {[class |-> ClassFor(bytes), entry |-> i, bytes |-> bytes]}
      BY <2>1 DEF Reuse, Grow, Issued
    <3> QED BY <3>1, <3>2 DEF LargeEnough
  <2>2. ASSUME held' \subseteq held PROVE LargeEnough'
    BY <2>2 DEF LargeEnough
  <2>3. CASE \/ UNCHANGED vars \/ Drop \/ ReclaimAll \/ ResetStats
             \/ \E bytes \in Requests : Discard(bytes)
    BY <2>2, <2>3 DEF vars, Drop, ReclaimAll, ResetStats, Discard
  <2> QED BY <2>1, <2>3 DEF Next, Acquire
<1> QED BY <1>1, <1>2, PTL DEF Spec

-----------------------------------------------------------------------------
\* The sum over the classes, which SumTo computes from the entries there are.
Weight(av, k) == Len(av[k]) * ClassSize[k]

SumsTo(f, n, av) ==
  f = [k \in 0..n |-> IF k = 0 THEN 0 ELSE f[k - 1] + Weight(av, k)]

Total(av) == (CHOOSE f : SumsTo(f, Classes, av))[Classes]

LEMMA WeightNat ==
  ASSUME NEW av \in [Class -> Seq(BOOLEAN)], NEW k \in Class
  PROVE  Weight(av, k) \in Nat
<1>1. Len(av[k]) \in Nat /\ ClassSize[k] \in Nat
  BY PoolAssumption DEF Class
<1>2. \A m, n \in Nat : m * n \in Nat
  OBVIOUS
<1> QED BY <1>1, <1>2 DEF Weight

\* There is a function of the partial sums: if there were none up to some
\* class, there would be a first such class, and the sums up to the one before
\* it could be extended.
LEMMA SumsExist ==
  ASSUME NEW av \in [Class -> Seq(BOOLEAN)]
  PROVE  \E f : SumsTo(f, Classes, av)
<1> DEFINE U == {n \in 1..Classes : \A f : ~SumsTo(f, n, av)}
<1>1. Classes \in Nat \ {0}
  BY PoolAssumption
<1>2. \E f : SumsTo(f, 0, av)
  <2> DEFINE g == [k \in 0..0 |-> 0]
  <2>1. g = [k \in 0..0 |-> IF k = 0 THEN 0 ELSE g[k - 1] + Weight(av, k)]
    OBVIOUS
  <2> QED BY <2>1 DEF SumsTo
<1>3. ASSUME NEW m \in U, \A n \in U : m <= n PROVE FALSE
  <2>1. m \in 1..Classes /\ m \in Nat /\ m - 1 \in Nat
    BY <1>1
  <2>2. \E f : SumsTo(f, m - 1, av)
    <3>1. CASE m = 1
      BY <1>2, <3>1
    <3>2. CASE m # 1
      <4>1. m - 1 \in 1..Classes /\ ~(m <= m - 1)
        BY <1>1, <2>1, <3>2
      <4> QED BY <1>3, <4>1
    <3> QED BY <3>1, <3>2
  <2>3. PICK f : SumsTo(f, m - 1, av)
    BY <2>2
  <2> DEFINE g == [k \in 0..m |-> IF k < m THEN f[k] ELSE f[m - 1] + Weight(av, m)]
  <2>4. \A k \in 0..(m - 1) :
          f[k] = IF k = 0 THEN 0 ELSE f[k - 1] + Weight(av, k)
    BY <2>1, <2>3 DEF SumsTo
  <2>5. ASSUME NEW k \in 0..m
        PROVE  g[k] = IF k = 0 THEN 0 ELSE g[k - 1] + Weight(av, k)
    <3>1. CASE k = m
      <4>1. g[m] = f[m - 1] + Weight(av, m) /\ g[m - 1] = f[m - 1]
        BY <2>1
      <4> QED BY <2>1, <3>1, <4>1
    <3>2. CASE k # m
      <4>1. k \in 0..(m - 1) /\ g[k] = f[k]
        BY <2>1, <3>2
      <4>2. k # 0 => k - 1 \in 0..m /\ k - 1 < m
        BY <2>1, <4>1
      <4>3. k # 0 => g[k - 1] = f[k - 1]
        BY <4>2
      <4> QED BY <2>4, <4>1, <4>3
    <3> QED BY <3>1, <3>2
  <2>6. SumsTo(g, m, av)
    <3>1. g = [k \in 0..m |-> g[k]]
      OBVIOUS
    <3> HIDE DEF g
    <3> QED BY <2>5, <3>1 DEF SumsTo
  <2> QED BY <2>6
<1>4. U = {}
  <2> SUFFICES ASSUME U # {} PROVE FALSE
    OBVIOUS
  <2>1. U \in SUBSET (1..Classes) /\ Classes \in Nat
    BY <1>1
  <2> HIDE DEF U
  <2>2. PICK m \in U : \A n \in U : m <= n
    BY <2>1, LeastExists
  <2> QED BY <1>3, <2>2
<1>5. Classes \in 1..Classes
  BY <1>1
<1>6. ~(\A f : ~SumsTo(f, Classes, av))
  BY <1>4, <1>5
<1> QED BY <1>6

\* When only one class changes, the sum changes as much.
LEMMA TotalChanges ==
  ASSUME NEW av \in [Class -> Seq(BOOLEAN)], NEW aw \in [Class -> Seq(BOOLEAN)],
         NEW c \in Class, NEW e \in Nat,
         Weight(aw, c) = Weight(av, c) + e,
         \A k \in Class : k # c => Weight(aw, k) = Weight(av, k)
  PROVE  Total(av) \in Nat /\ Total(aw) = Total(av) + e
<1>1. Classes \in Nat \ {0} /\ Class = 1..Classes
  BY PoolAssumption DEF Class
<1> DEFINE f == CHOOSE f : SumsTo(f, Classes, av)
           g == CHOOSE g : SumsTo(g, Classes, aw)
<1>2. SumsTo(f, Classes, av) /\ SumsTo(g, Classes, aw)
  BY SumsExist
<1>3. Total(av) = f[Classes] /\ Total(aw) = g[Classes]
  BY DEF Total
<1> HIDE DEF f, g
<1>4. /\ f[0] = 0 /\ g[0] = 0
      /\ \A k \in Class : /\ f[k] = f[k - 1] + Weight(av, k)
                          /\ g[k] = g[k - 1] + Weight(aw, k)
  <2>1. \A k \in 0..Classes : /\ f[k] = IF k = 0 THEN 0 ELSE f[k - 1] + Weight(av, k)
                              /\ g[k] = IF k = 0 THEN 0 ELSE g[k - 1] + Weight(aw, k)
    BY <1>2 DEF SumsTo
  <2> QED BY <1>1, <2>1
<1> DEFINE Right(n) == /\ f[n] \in Nat
                       /\ g[n] = f[n] + (IF n >= c THEN e ELSE 0)
           U == {n \in 1..Classes : ~Right(n)}
<1>5. Right(0)
  BY <1>1, <1>4
<1>6. ASSUME NEW m \in U, \A n \in U : m <= n PROVE FALSE
  <2>1. m \in Class /\ m \in Nat /\ m - 1 \in Nat /\ c \in Nat
    BY <1>1
  <2>2. Right(m - 1)
    <3>1. CASE m = 1
      BY <1>5, <3>1
    <3>2. CASE m # 1
      <4>1. m - 1 \in 1..Classes /\ ~(m <= m - 1)
        BY <1>1, <2>1, <3>2
      <4> QED BY <1>6, <4>1
    <3> QED BY <3>1, <3>2
  <2>3. /\ f[m] = f[m - 1] + Weight(av, m) /\ g[m] = g[m - 1] + Weight(aw, m)
        /\ Weight(av, m) \in Nat /\ Weight(aw, m) \in Nat
    BY <1>4, <2>1, WeightNat
  <2>4. Right(m)
    <3>1. CASE m = c
      BY <2>1, <2>2, <2>3, <3>1
    <3>2. CASE m # c
      <4>1. Weight(aw, m) = Weight(av, m)
        BY <2>1, <3>2
      <4>2. m >= c <=> m - 1 >= c
        BY <2>1, <3>2
      <4> QED BY <2>1, <2>2, <2>3, <4>1, <4>2
    <3> QED BY <3>1, <3>2
  <2> QED BY <2>4
<1>7. U = {}
  <2> SUFFICES ASSUME U # {} PROVE FALSE
    OBVIOUS
  <2>1. U \in SUBSET (1..Classes) /\ Classes \in Nat
    BY <1>1
  <2> HIDE DEF U
  <2>2. PICK m \in U : \A n \in U : m <= n
    BY <2>1, LeastExists
  <2> QED BY <1>6, <2>2
<1>8. Right(Classes)
  <2>1. Classes \in 1..Classes
    BY <1>1
  <2> HIDE DEF Right
  <2> QED BY <1>7, <2>1
<1>9. Classes >= c
  BY <1>1
<1> QED BY <1>3, <1>8, <1>9

\* The recursive definition of the sum.
LEMMA SumToIs == SumTo[Classes] = Total(available)
BY DEF SumTo, Total, SumsTo, Weight

\* As many entries of every class have the same sum.
LEMMA SameTotal ==
  ASSUME NEW av \in [Class -> Seq(BOOLEAN)], NEW aw \in [Class -> Seq(BOOLEAN)],
         \A k \in Class : Len(aw[k]) = Len(av[k])
  PROVE  Total(aw) = Total(av)
<1>1. \A k \in Class : Weight(aw, k) = Weight(av, k) /\ Weight(av, k) \in Nat
  BY WeightNat DEF Weight
<1>2. PICK c \in Class : c = 1
  BY PoolAssumption DEF Class
<1>3. PICK e \in Nat : e = 0
  OBVIOUS
<1>4. Weight(aw, c) = Weight(av, c) + e
  BY <1>1, <1>3
<1>5. Total(av) \in Nat /\ Total(aw) = Total(av) + e
  BY <1>1, <1>4, TotalChanges
<1> QED BY <1>3, <1>5

\* No entries, no bytes.
LEMMA NoTotal ==
  ASSUME NEW av \in [Class -> Seq(BOOLEAN)], \A k \in Class : av[k] = <<>>
  PROVE  Total(av) = 0
<1> DEFINE f == CHOOSE f : SumsTo(f, Classes, av)
<1>1. Classes \in Nat /\ Class = 1..Classes
  BY PoolAssumption DEF Class
<1>2. \A k \in Class : Weight(av, k) = 0
  BY PoolAssumption DEF Weight, Class
<1>3. SumsTo(f, Classes, av) /\ Total(av) = f[Classes]
  BY SumsExist DEF Total
<1> HIDE DEF f
<1>4. \A k \in 0..Classes : f[k] = IF k = 0 THEN 0 ELSE f[k - 1] + Weight(av, k)
  BY <1>3 DEF SumsTo
<1> DEFINE U == {n \in 1..Classes : f[n] # 0}
<1>5. ASSUME NEW m \in U, \A n \in U : m <= n PROVE FALSE
  <2>1. m \in 1..Classes /\ f[m] = f[m - 1] + Weight(av, m) /\ Weight(av, m) = 0
    BY <1>1, <1>2, <1>4
  <2>2. f[m - 1] = 0
    <3>1. CASE m = 1
      <4>1. f[0] = 0
        BY <1>1, <1>4
      <4> QED BY <3>1, <4>1
    <3>2. CASE m # 1
      <4>1. m - 1 \in 1..Classes /\ ~(m <= m - 1)
        BY <1>1, <2>1, <3>2
      <4> QED BY <1>5, <4>1
    <3> QED BY <3>1, <3>2
  <2> QED BY <2>1, <2>2
<1>6. U = {}
  <2> SUFFICES ASSUME U # {} PROVE FALSE
    OBVIOUS
  <2>1. U \in SUBSET (1..Classes) /\ Classes \in Nat
    BY <1>1
  <2> HIDE DEF U
  <2>2. PICK m \in U : \A n \in U : m <= n
    BY <2>1, LeastExists
  <2> QED BY <1>5, <2>2
<1>7. f[Classes] = 0
  <2>1. Classes \in 1..Classes
    BY PoolAssumption
  <2> QED BY <1>6, <2>1
<1> QED BY <1>3, <1>7

-----------------------------------------------------------------------------
LimitInv ==
  /\ available \in [Class -> Seq(BOOLEAN)]
  /\ pooledBytes \in Nat
  /\ WithinLimits
  /\ pooledBytes = Total(available)

\* Changes that keep the number of entries of every class.
LEMMA SameLengths ==
  ASSUME LimitInv, pooledBytes' = pooledBytes,
         available' \in [Class -> Seq(BOOLEAN)],
         \A k \in Class : Len(available'[k]) = Len(available[k])
  PROVE  LimitInv'
<1>1. available \in [Class -> Seq(BOOLEAN)]
  BY DEF LimitInv
<1>2. Total(available') = Total(available)
  BY <1>1, SameTotal
<1> QED BY <1>2 DEF LimitInv, WithinLimits

\* Whatever the program reclaims, and whatever creations fail: the byte count
\* is the sum over the entries, the pool keeps its budget and no class exceeds
\* its limit.
THEOREM BudgetKept == Spec => []WithinBudget
<1>1. Init => LimitInv
  <2> SUFFICES ASSUME Init PROVE LimitInv
    OBVIOUS
  <2>1. /\ available \in [Class -> Seq(BOOLEAN)]
        /\ \A k \in Class : available[k] = <<>>
        /\ pooledBytes = 0
    BY DEF Init
  <2>2. Total(available) = 0
    BY <2>1, NoTotal
  <2> QED BY <2>1, <2>2, PoolAssumption DEF LimitInv, WithinLimits
<1>2. LimitInv /\ [Next]_vars => LimitInv'
  <2> SUFFICES ASSUME LimitInv, [Next]_vars PROVE LimitInv'
    OBVIOUS
  <2>1. available \in [Class -> Seq(BOOLEAN)]
    BY DEF LimitInv
  <2>2. ASSUME NEW bytes \in Requests, Reuse(bytes)
        PROVE  LimitInv'
    <3> DEFINE k == ClassFor(bytes)
    <3>1. PICK i \in Free(k) : available' = [available EXCEPT ![k][i] = FALSE]
      BY <2>2 DEF Reuse
    <3>2. k \in Class /\ pooledBytes' = pooledBytes
      BY <2>2, ClassFits DEF Reuse
    <3> HIDE DEF k
    <3> DEFINE new == [available[k] EXCEPT ![i] = FALSE]
    <3>3. PICK n \in Nat : available[k] \in [1..n -> BOOLEAN]
      BY <2>1, <3>2
    <3>4. new \in [1..n -> BOOLEAN] /\ available' = [available EXCEPT ![k] = new]
      BY <2>1, <3>1, <3>3
    <3> HIDE DEF new
    <3>5. new \in Seq(BOOLEAN) /\ Len(new) = Len(available[k])
      BY <3>3, <3>4
    <3>6. /\ available' \in [Class -> Seq(BOOLEAN)]
          /\ \A c \in Class : Len(available'[c]) = Len(available[c])
      BY <2>1, <3>2, <3>4, <3>5
    <3> QED BY <3>2, <3>6, SameLengths
  <2>3. ASSUME NEW bytes \in Requests, Grow(bytes)
        PROVE  LimitInv'
    <3> DEFINE k == ClassFor(bytes)
               old == available[k]
               new == Append(old, FALSE)
    <3>1. /\ k \in Class /\ ClassSize[k] \in Nat
          /\ Len(old) < MaxPerClass /\ pooledBytes + ClassSize[k] <= MaxPooledBytes
      BY <2>3, ClassFits, PoolAssumption DEF Grow, MayGrow, Class
    <3>2. CASE UNCHANGED <<available, pooledBytes>>
      BY <2>1, <3>2, SameLengths
    <3>3. CASE /\ available' = [available EXCEPT ![k] = Append(@, FALSE)]
               /\ pooledBytes' = pooledBytes + ClassSize[k]
      <4> HIDE DEF k
      <4>1. old \in Seq(BOOLEAN)
        BY <2>1, <3>1
      <4>2. new \in Seq(BOOLEAN) /\ Len(new) = Len(old) + 1 /\ Len(old) \in Nat
        <5> HIDE DEF old
        <5> QED BY <4>1
      <4>3. available' = [available EXCEPT ![k] = new]
        BY <3>3
      <4> HIDE DEF new
      <4>4. /\ available' \in [Class -> Seq(BOOLEAN)] /\ available'[k] = new
            /\ \A c \in Class : c # k => available'[c] = available[c]
        BY <2>1, <3>1, <4>2, <4>3
      <4>5. Len(new) <= MaxPerClass
        <5> HIDE DEF old
        <5> QED BY <3>1, <4>2, PoolAssumption
      <4>6. Total(available') = Total(available) + ClassSize[k]
        <5>1. Weight(available', k) = Weight(available, k) + ClassSize[k]
          <6> HIDE DEF old
          <6>1. \A n, s \in Nat : (n + 1) * s = n * s + s
            OBVIOUS
          <6>2. Len(available'[k]) = Len(old) + 1
            BY <4>2, <4>4
          <6> QED BY <3>1, <4>2, <6>1, <6>2 DEF Weight, old
        <5>2. \A c \in Class : c # k => Weight(available', c) = Weight(available, c)
          BY <4>4 DEF Weight
        <5> QED BY <2>1, <3>1, <4>4, <5>1, <5>2, TotalChanges
      <4>7. pooledBytes' = Total(available')
        BY <3>3, <4>6 DEF LimitInv
      <4>8. WithinLimits' /\ pooledBytes' \in Nat
        BY <3>1, <3>3, <4>4, <4>5 DEF LimitInv, WithinLimits
      <4> QED BY <4>4, <4>7, <4>8 DEF LimitInv
    <3> QED BY <2>3, <3>2, <3>3 DEF Grow
  <2>4. CASE ReclaimAll
    <3>1. available' = [k \in Class |-> [i \in DOMAIN available[k] |-> TRUE]]
          /\ pooledBytes' = pooledBytes
      BY <2>4 DEF ReclaimAll
    <3>2. ASSUME NEW k \in Class
          PROVE  available'[k] \in Seq(BOOLEAN) /\ Len(available'[k]) = Len(available[k])
      BY <2>1, <3>1, AllTrue
    <3> QED BY <3>1, <3>2, SameLengths
  <2>5. CASE \/ UNCHANGED vars \/ Drop \/ ResetStats
             \/ \E bytes \in Requests : Discard(bytes)
    <3>1. UNCHANGED <<available, pooledBytes>>
      BY <2>5 DEF vars, Drop, ResetStats, Discard
    <3> QED BY <2>1, <3>1, SameLengths
  <2> QED BY <2>2, <2>3, <2>4, <2>5 DEF Next, Acquire
<1>3. LimitInv => WithinBudget
  BY SumToIs DEF LimitInv, WithinBudget
<1> QED BY <1>1, <1>2, <1>3, PTL DEF Spec
=============================================================================
