----------------------- MODULE ActivationArenaProofs ------------------------
(***************************************************************************)
(* For all sizes, capacities, alignments and plans and behaviours of any   *)
(* length: type correctness, no overlap of live views, every live view's   *)
(* slab held and long enough, each step a step of RegionAllocator, and no  *)
(* growth while a plan runs that the arena was pre-sized for.              *)
(*                                                                         *)
(* The argument: views of the current slab end at or below the bump        *)
(* pointer, so what is cut above it is free; and a checkpoint of this      *)
(* generation remembers enough for the same to hold after its restore,     *)
(* though growth may have replaced the slab it was taken in.  While a plan  *)
(* runs, the bump pointer is where the simulation of the estimate has it;  *)
(* the facts about that recursive function are proved by taking the first  *)
(* step for which they would fail.                                         *)
(***************************************************************************)
EXTENDS ArenaEstimate, SequenceTheorems, FiniteSetTheorems, WellFoundedInduction,
        TLAPS

\* What a checkpoint that can still be restored says of the views kept.
Sound(c) ==
  /\ c.generation <= generation
  /\ c.generation = generation =>
       /\ c.slab <= slab
       /\ \A v \in c.kept : /\ v.slab <= c.slab
                            /\ v.slab = c.slab => v.start + v.len <= c.offset

BelowBump ==
  \A v \in live : /\ v.slab <= slab
                  /\ v.slab = slab => v.start + v.len <= offset
                  /\ v.id < nextId

CheckpointsSound == \A i \in DOMAIN checkpoints : Sound(checkpoints[i])

IInv == TypeOK /\ BelowBump /\ CheckpointsSound /\ NoOverlap /\ LiveSlabsHeld

\* align_up never moves the offset down.
LEMMA AlignUpBound ==
  ASSUME NEW x \in Nat
  PROVE  AlignUp(x) \in Nat /\ AlignUp(x) >= x
<1>1. x % Align \in Nat /\ x % Align < Align
  BY ArenaAssumption
<1>2. (Align - (x % Align)) % Align \in Nat
  BY <1>1, ArenaAssumption
<1> QED BY <1>2 DEF AlignUp

LEMMA InitIInv == Init => IInv
<1> SUFFICES ASSUME Init PROVE IInv
  OBVIOUS
<1>1. TypeOK
  <2>1. checkpoints \in Seq(Saved)
    BY DEF Init
  <2> QED BY <2>1, ArenaAssumption DEF Init, TypeOK
<1> QED
  BY <1>1 DEF Init, IInv, BelowBump, CheckpointsSound, NoOverlap,
     Regions!Exclusive, LiveSlabsHeld

-----------------------------------------------------------------------------
\* What Served adds: one view, where the two kinds of allocation put it.
NewView(len, start) ==
  [id |-> nextId, slab |-> slab', start |-> start, len |-> len,
   cap |-> capacity', generation |-> generation]

\* An allocation that fits keeps the invariant: its view lies between the old
\* bump pointer and the new one.
LEMMA AllocInSlabIInv ==
  ASSUME IInv, NEW len \in Nat \ {0}, AllocInSlab(len)
  PROVE  IInv'
<1> DEFINE w == NewView(len, AlignUp(offset))
<1>1. /\ len \in Nat \ {0} /\ offset \in Nat
      /\ AlignUp(offset) \in Nat /\ AlignUp(offset) >= offset
  BY AlignUpBound, ArenaAssumption DEF IInv, TypeOK
<1>2. /\ offset' = AlignUp(offset) + len /\ live' = live \cup {w}
      /\ nextId' = nextId + 1
      /\ UNCHANGED <<slab, capacity, retired, generation, autoGrow,
                     checkpoints>>
      /\ totalAllocated' = totalAllocated + len
      /\ peakBytes' = Maximum(peakBytes, totalAllocated') /\ ensured' = 0
  BY DEF AllocInSlab, Served, NewView
<1>3. w \in View
  BY <1>1, <1>2 DEF IInv, TypeOK, View, NewView
<1>4. TypeOK'
  BY <1>1, <1>2, <1>3 DEF IInv, TypeOK, Maximum
<1>5. BelowBump'
  BY <1>1, <1>2, <1>3 DEF IInv, TypeOK, BelowBump, NewView, View
<1>6. CheckpointsSound'
  BY <1>2 DEF IInv, CheckpointsSound, Sound
<1>7. NoOverlap'
  <2>1. \A v \in live : Regions!Disjoint(v, w) /\ Regions!Disjoint(w, v)
    BY <1>1, <1>2, <1>3
       DEF IInv, TypeOK, BelowBump, Regions!Disjoint, NewView, View
  <2> QED BY <1>2, <2>1 DEF IInv, NoOverlap, Regions!Exclusive
<1>8. LiveSlabsHeld'
  <2>1. w.start + w.len <= w.cap
    BY <1>2 DEF AllocInSlab, Fits, NewView
  <2> QED BY <1>2, <2>1 DEF IInv, LiveSlabsHeld, NewView
<1> QED BY <1>4, <1>5, <1>6, <1>7, <1>8 DEF IInv

\* Growth keeps the invariant: every earlier view is in an earlier slab.
LEMMA GrowAndAllocIInv ==
  ASSUME IInv, NEW len \in Nat \ {0}, GrowAndAlloc(len)
  PROVE  IInv'
<1> DEFINE w == NewView(len, 0)
<1>1. len \in Nat \ {0}
  OBVIOUS
<1>2. /\ slab' = slab + 1 /\ offset' = len /\ live' = live \cup {w}
      /\ retired' = retired \cup {slab} /\ nextId' = nextId + 1
      /\ capacity' = GrownCapacity(len)
      /\ UNCHANGED <<generation, autoGrow, checkpoints>>
      /\ totalAllocated' = totalAllocated + len
      /\ peakBytes' = Maximum(peakBytes, totalAllocated') /\ ensured' = 0
  BY DEF GrowAndAlloc, Served, NewView
<1>3. capacity' \in Nat
  BY <1>1, <1>2, ArenaAssumption DEF IInv, TypeOK, GrownCapacity, Maximum
<1>4. w \in View
  BY <1>1, <1>2, <1>3 DEF IInv, TypeOK, View, NewView
<1>5. TypeOK'
  BY <1>1, <1>2, <1>3, <1>4 DEF IInv, TypeOK, Maximum
<1>6. BelowBump'
  <2>1. \A v \in live : v.slab \in Nat /\ v.slab < slab' /\ v.id < nextId'
    BY <1>2 DEF IInv, TypeOK, BelowBump, View
  <2>2. /\ w.slab = slab' /\ w.start = 0 /\ w.len = offset' /\ w.id < nextId'
        /\ slab' \in Nat /\ offset' \in Nat
    BY <1>1, <1>2 DEF IInv, TypeOK, NewView
  <2> QED BY <1>2, <2>1, <2>2 DEF BelowBump
<1>7. CheckpointsSound'
  <2>1. \A i \in DOMAIN checkpoints : checkpoints[i] \in Saved
    BY DEF IInv, TypeOK
  <2> QED BY <1>2, <2>1 DEF IInv, TypeOK, CheckpointsSound, Sound, Saved
<1>8. NoOverlap'
  <2>1. \A v \in live : v.slab # w.slab
    BY <1>2 DEF IInv, TypeOK, BelowBump, NewView, View
  <2>2. \A v \in live : Regions!Disjoint(v, w) /\ Regions!Disjoint(w, v)
    BY <2>1 DEF Regions!Disjoint
  <2> QED BY <1>2, <2>2 DEF IInv, NoOverlap, Regions!Exclusive
<1>9. LiveSlabsHeld'
  <2>1. w.start + w.len <= w.cap
    BY <1>1, <1>2, <1>3, ArenaAssumption
       DEF IInv, TypeOK, GrownCapacity, Maximum, NewView
  <2> QED BY <1>2, <2>1 DEF IInv, LiveSlabsHeld, NewView
<1> QED BY <1>5, <1>6, <1>7, <1>8, <1>9 DEF IInv

-----------------------------------------------------------------------------
\* Pre-sizing replaces the slab without allocating; a slab that is not
\* retired has no live view.
LEMMA EnsureCapacityIInv ==
  ASSUME IInv, NEW min \in Nat, EnsureCapacity(min)
  PROVE  IInv'
<1>1. min \in Nat
  OBVIOUS
<1>2. /\ UNCHANGED <<generation, totalAllocated, peakBytes, autoGrow,
                     checkpoints, live, nextId>>
      /\ ensured' = min
  BY DEF EnsureCapacity
<1>3. NoOverlap'
  BY <1>2 DEF IInv, NoOverlap, Regions!Exclusive
<1>4. CASE EnoughRemaining(min)
  <2>1. UNCHANGED <<slab, capacity, retired, offset>>
    BY <1>4 DEF EnsureCapacity
  <2> QED
    BY <1>1, <1>2, <1>3, <2>1
       DEF IInv, TypeOK, BelowBump, CheckpointsSound, Sound, LiveSlabsHeld
<1>5. CASE ~EnoughRemaining(min)
  <2>1. /\ slab' = slab + 1 /\ capacity' = Maximum(min, capacity)
        /\ retired' = RetireUsed /\ offset' = 0
    BY <1>5 DEF EnsureCapacity
  <2>2. TypeOK'
    BY <1>1, <1>2, <2>1 DEF IInv, TypeOK, Maximum, RetireUsed
  <2>3. BelowBump'
    BY <1>2, <2>1 DEF IInv, TypeOK, BelowBump, View
  <2>4. CheckpointsSound'
    <3>1. \A i \in DOMAIN checkpoints : checkpoints[i] \in Saved
      BY DEF IInv, TypeOK
    <3> QED BY <1>2, <2>1, <3>1 DEF IInv, TypeOK, CheckpointsSound, Sound, Saved
  <2>5. LiveSlabsHeld'
    <3>1. ASSUME NEW v \in live, v.slab = slab
          PROVE  offset > 0
      BY <3>1 DEF IInv, TypeOK, BelowBump, View
    <3> QED BY <1>2, <2>1, <3>1 DEF IInv, LiveSlabsHeld, RetireUsed
  <2> QED BY <1>3, <2>2, <2>3, <2>4, <2>5 DEF IInv
<1> QED BY <1>4, <1>5

\* No view survives a reset, and no checkpoint can be restored after it.
LEMMA ResetIInv ==
  ASSUME IInv, Reset
  PROVE  IInv'
<1>1. \A i \in DOMAIN checkpoints : checkpoints[i] \in Saved
  BY DEF IInv, TypeOK
<1>2. CheckpointsSound'
  BY <1>1 DEF IInv, TypeOK, CheckpointsSound, Sound, Saved, Reset
<1> QED
  BY <1>2 DEF IInv, TypeOK, BelowBump, NoOverlap, Regions!Exclusive,
     LiveSlabsHeld, Reset

\* A new checkpoint remembers the views at or below the bump pointer.
LEMMA CheckpointIInv ==
  ASSUME IInv, Checkpoint
  PROVE  IInv'
<1> DEFINE c == [offset |-> offset, generation |-> generation, slab |-> slab,
                 kept |-> live]
<1>1. /\ checkpoints' = Append(checkpoints, c)
      /\ ensured' = 0
      /\ UNCHANGED <<slab, capacity, offset, generation, totalAllocated,
                     peakBytes, autoGrow, retired, live, nextId>>
  BY DEF Checkpoint
<1>2. c \in Saved /\ checkpoints \in Seq(Saved)
  BY DEF IInv, TypeOK, Saved
<1>3. TypeOK'
  BY <1>1, <1>2, AppendProperties DEF IInv, TypeOK
<1>4. CheckpointsSound'
  <2>1. Sound(c)'
    BY <1>1, <1>2 DEF IInv, TypeOK, BelowBump, Sound
  <2>2. ASSUME NEW i \in DOMAIN checkpoints'
        PROVE  checkpoints'[i] = c \/ /\ i \in DOMAIN checkpoints
                                      /\ checkpoints'[i] = checkpoints[i]
    BY <1>1, <1>2
  <2>3. c' = c
    BY <1>1
  <2>4. ASSUME NEW i \in DOMAIN checkpoints'
        PROVE  Sound(checkpoints[i])'
    <3>1. CASE checkpoints'[i] = c
      BY <2>1, <2>3, <3>1 DEF Sound
    <3>2. CASE i \in DOMAIN checkpoints /\ checkpoints'[i] = checkpoints[i]
      BY <1>1, <3>2 DEF IInv, CheckpointsSound, Sound
    <3> QED BY <2>2, <3>1, <3>2
  <2> QED BY <2>4 DEF CheckpointsSound
<1> QED
  BY <1>1, <1>3, <1>4
     DEF IInv, BelowBump, NoOverlap, Regions!Exclusive, LiveSlabsHeld

\* Leaving the innermost checkpoint leaves the others as they are.
LEMMA OuterSound ==
  ASSUME IInv, checkpoints # <<>>
  PROVE  /\ Outer \in Seq(Saved)
         /\ \A i \in DOMAIN Outer : Sound(Outer[i])
         /\ Innermost \in Saved /\ Sound(Innermost)
<1>1. checkpoints \in Seq(Saved) /\ Len(checkpoints) \in Nat \ {0}
  BY DEF IInv, TypeOK
<1>2. Len(checkpoints) \in DOMAIN checkpoints
  BY <1>1
<1>3. /\ Outer \in Seq(Saved)
      /\ DOMAIN Outer = 1..(Len(checkpoints) - 1)
      /\ \A i \in DOMAIN Outer : Outer[i] = checkpoints[i]
  BY <1>1 DEF Outer
<1> QED BY <1>1, <1>2, <1>3 DEF IInv, CheckpointsSound, Innermost

\* After a restore the kept views of the current slab end at or below the
\* restored bump pointer, also when the slab was replaced meanwhile.
LEMMA RestoreIInv ==
  ASSUME IInv, Restore
  PROVE  IInv'
<1> DEFINE c == Innermost
<1>1. /\ checkpoints # <<>> /\ checkpoints' = Outer
      /\ live' \subseteq live /\ ensured' = 0
      /\ UNCHANGED <<slab, capacity, generation, peakBytes, autoGrow, retired,
                     nextId>>
  BY DEF Restore
<1>2. c \in Saved /\ Sound(c) /\ Outer \in Seq(Saved)
  BY <1>1, OuterSound
<1>3. TypeOK'
  <2>1. CASE Restorable(c)
    <3>1. offset' = c.offset /\ c.offset \in Nat /\ c.offset <= offset
      BY <1>2, <2>1 DEF Restore, Restorable, Saved
    <3>2. totalAllocated' \in Nat
      BY <2>1, <3>1 DEF Restore, SaturatingSub, IInv, TypeOK
    <3> QED BY <1>1, <1>2, <3>1, <3>2 DEF IInv, TypeOK
  <2>2. CASE ~Restorable(c)
    BY <1>1, <1>2, <2>2 DEF Restore, IInv, TypeOK
  <2> QED BY <2>1, <2>2
<1>4. CheckpointsSound'
  BY <1>1, OuterSound DEF CheckpointsSound, Sound
<1>5. BelowBump'
  <2>1. CASE Restorable(c)
    <3>1. offset' = c.offset /\ live' = live \cap c.kept
      BY <2>1 DEF Restore, Restorable
    <3>2. ASSUME NEW v \in live', v.slab = slab
          PROVE  v.start + v.len <= c.offset
      BY <1>2, <2>1, <3>1, <3>2 DEF Sound, Restorable, IInv, TypeOK, View, Saved
    <3> QED BY <1>1, <3>1, <3>2 DEF IInv, BelowBump
  <2>2. CASE ~Restorable(c)
    BY <1>1, <2>2 DEF Restore, IInv, BelowBump
  <2> QED BY <2>1, <2>2
<1> QED
  BY <1>1, <1>3, <1>4, <1>5
     DEF IInv, NoOverlap, Regions!Exclusive, LiveSlabsHeld

\* What is left changes none of the arena's memory.
LEMMA QuietIInv ==
  ASSUME IInv,
         \/ AbandonCheckpoint \/ SetAutoGrow \/ UNCHANGED vars
         \/ \E len \in Nat \ {0} : AllocOverflow(len)
  PROVE  IInv'
<1>1. CASE AbandonCheckpoint
  <2>1. /\ checkpoints # <<>> /\ checkpoints' = Outer /\ ensured' = 0
        /\ UNCHANGED <<slab, capacity, offset, generation, totalAllocated,
                       peakBytes, autoGrow, retired, live, nextId>>
    BY <1>1 DEF AbandonCheckpoint
  <2>2. CheckpointsSound'
    BY <2>1, OuterSound DEF CheckpointsSound, Sound
  <2>3. TypeOK'
    BY <2>1, OuterSound DEF IInv, TypeOK
  <2> QED BY <2>1, <2>2, <2>3
       DEF IInv, BelowBump, NoOverlap, Regions!Exclusive, LiveSlabsHeld
<1>2. CASE \/ SetAutoGrow \/ UNCHANGED vars
           \/ \E len \in Nat \ {0} : AllocOverflow(len)
  <2>1. /\ UNCHANGED <<slab, capacity, offset, generation, totalAllocated,
                       peakBytes, retired, checkpoints, live, nextId>>
        /\ ensured' \in {ensured, 0} /\ autoGrow' \in {autoGrow, TRUE}
    BY <1>2 DEF SetAutoGrow, vars, AllocOverflow
  <2>2. TypeOK'
    <3>1. ensured' \in Nat
      BY <2>1 DEF IInv, TypeOK
    <3>2. autoGrow' \in BOOLEAN
      BY <2>1, Zenon DEF IInv, TypeOK
    <3> QED BY <2>1, <3>1, <3>2, Zenon DEF IInv, TypeOK, View, Saved
  <2>3. CheckpointsSound'
    BY <2>1 DEF IInv, CheckpointsSound, Sound
  <2> QED BY <2>1, <2>2, <2>3
       DEF IInv, BelowBump, NoOverlap, Regions!Exclusive, LiveSlabsHeld
<1> QED BY <1>1, <1>2

LEMMA AllocIInv ==
  ASSUME IInv, NEW len \in Nat \ {0}, Alloc(len)
  PROVE  IInv'
BY AllocInSlabIInv, GrowAndAllocIInv, QuietIInv DEF Alloc

LEMMA StepIInv == IInv /\ [Next]_vars => IInv'
<1> SUFFICES ASSUME IInv, [Next]_vars PROVE IInv'
  OBVIOUS
<1>1. Sizes \subseteq Nat \ {0} /\ EnsureSizes \subseteq Nat
  BY ArenaAssumption
<1> QED
  BY <1>1, AllocIInv, EnsureCapacityIInv, ResetIInv, CheckpointIInv, RestoreIInv,
     QuietIInv DEF Next

-----------------------------------------------------------------------------
\* A set of step numbers that is not empty has a least one.
LEMMA LeastExists ==
  ASSUME NEW N \in Nat, NEW U \in SUBSET (1..N), U # {}
  PROVE  \E m \in U : \A n \in U : m <= n
<1> DEFINE T == {1..m : m \in U}
<1>1. IsWellFoundedOn(StrictSubsetOrdering(1..N), SUBSET (1..N))
  <2>1. IsFiniteSet(1..N)
    BY FS_Interval
  <2> QED
    BY <2>1, FS_StrictSubsetOrderingWellFounded, FS_FiniteSubsetsOfFinite
<1>2. T \subseteq SUBSET (1..N)
  <2>1. \A m \in U : 1..m \subseteq 1..N
    OBVIOUS
  <2> QED BY <2>1
<1>3. T # {}
  OBVIOUS
<1>4. PICK s \in T : \A t \in T : ~(<<t, s>> \in StrictSubsetOrdering(1..N))
  <2> HIDE DEF T
  <2> QED BY <1>1, <1>2, <1>3, WFMin
<1>5. PICK m \in U : s = 1..m
  OBVIOUS
<1>6. ASSUME NEW n \in U, ~(m <= n) PROVE FALSE
  <2>1. 1..n \in T /\ 1..n \in SUBSET (1..N) /\ s \in SUBSET (1..N)
    BY <1>2
  <2>2. 1..n \subseteq s /\ m \in s /\ m \notin 1..n
    BY <1>5, <1>6
  <2>3. <<1..n, s>> \in StrictSubsetOrdering(1..N)
    BY <2>1, <2>2 DEF StrictSubsetOrdering
  <2> QED BY <1>4, <2>1, <2>3
<1> QED BY <1>6

\* f is the simulated bump offset after each of the first n steps of p.
Bumped(p, i, before) == IF p[i] = 0 THEN before ELSE AlignUp(before) + p[i]

Simulates(f, p, n) ==
  f = [i \in 0..n |-> IF i = 0 THEN 0 ELSE Bumped(p, i, f[i - 1])]

\* There is such a function: if there were none up to some step, there would be
\* a first such step, and the offsets before it could be extended.
LEMMA SimulationExists ==
  ASSUME NEW p \in Seq(Nat)
  PROVE  \E f : Simulates(f, p, Len(p))
<1> DEFINE U == {n \in 1..Len(p) : \A f : ~Simulates(f, p, n)}
<1>1. Len(p) \in Nat
  OBVIOUS
<1>2. \E f : Simulates(f, p, 0)
  <2> DEFINE g == [i \in 0..0 |-> 0]
  <2>1. g = [i \in 0..0 |-> IF i = 0 THEN 0 ELSE Bumped(p, i, g[i - 1])]
    OBVIOUS
  <2> QED BY <2>1 DEF Simulates
<1>3. ASSUME NEW m \in U, \A n \in U : m <= n PROVE FALSE
  <2>1. m \in 1..Len(p) /\ m \in Nat /\ m - 1 \in Nat
    BY <1>1
  <2>2. \E f : Simulates(f, p, m - 1)
    <3>1. CASE m = 1
      BY <1>2, <3>1
    <3>2. CASE m # 1
      <4>1. m - 1 \in 1..Len(p) /\ ~(m <= m - 1)
        BY <1>1, <2>1, <3>2
      <4> QED BY <1>3, <4>1
    <3> QED BY <3>1, <3>2
  <2>3. PICK f : Simulates(f, p, m - 1)
    BY <2>2
  <2> DEFINE g == [i \in 0..m |-> IF i < m THEN f[i] ELSE Bumped(p, m, f[m - 1])]
  <2>4. \A i \in 0..(m - 1) :
          f[i] = IF i = 0 THEN 0 ELSE Bumped(p, i, f[i - 1])
    BY <2>1, <2>3 DEF Simulates
  <2>5. ASSUME NEW i \in 0..m
        PROVE  g[i] = IF i = 0 THEN 0 ELSE Bumped(p, i, g[i - 1])
    <3>1. CASE i = m
      <4>1. g[m] = Bumped(p, m, f[m - 1]) /\ g[m - 1] = f[m - 1]
        BY <2>1
      <4> QED BY <2>1, <3>1, <4>1
    <3>2. CASE i # m
      <4>1. i \in 0..(m - 1) /\ g[i] = f[i]
        BY <2>1, <3>2
      <4>2. i # 0 => i - 1 \in 0..m /\ i - 1 < m
        BY <2>1, <4>1
      <4>3. i # 0 => g[i - 1] = f[i - 1]
        BY <4>2
      <4> QED BY <2>4, <4>1, <4>3
    <3> QED BY <3>1, <3>2
  <2>6. Simulates(g, p, m)
    <3>1. g = [i \in 0..m |-> g[i]]
      OBVIOUS
    <3> HIDE DEF g
    <3> QED BY <2>5, <3>1 DEF Simulates
  <2> QED BY <2>6
<1>4. U = {}
  <2> SUFFICES ASSUME U # {} PROVE FALSE
    OBVIOUS
  <2>1. U \in SUBSET (1..Len(p))
    OBVIOUS
  <2> HIDE DEF U
  <2>2. PICK m \in U : \A n \in U : m <= n
    BY <1>1, <2>1, LeastExists
  <2> QED BY <1>3, <2>2
<1>5. CASE Len(p) = 0
  BY <1>2, <1>5
<1>6. CASE Len(p) # 0
  <2>1. Len(p) \in 1..Len(p)
    BY <1>1, <1>6
  <2> QED BY <1>4, <2>1
<1> QED BY <1>5, <1>6

\* The simulated offsets are naturals that never decrease, so the estimate is
\* the largest.
LEMMA SimulatedFacts ==
  ASSUME NEW p \in Seq(Nat)
  PROVE  /\ SimulatedOffset(p)[0] = 0
         /\ \A i \in 1..Len(p) :
              SimulatedOffset(p)[i] = Bumped(p, i, SimulatedOffset(p)[i - 1])
         /\ \A i \in 0..Len(p) :
              /\ SimulatedOffset(p)[i] \in Nat
              /\ SimulatedOffset(p)[i] <= EstimatePeak(p)
         /\ EstimatePeak(p) \in Nat
<1> DEFINE f == CHOOSE f : Simulates(f, p, Len(p))
<1>1. SimulatedOffset(p) = f
  BY DEF SimulatedOffset, Simulates, Bumped
<1>2. Simulates(f, p, Len(p))
  BY SimulationExists
<1>3. Len(p) \in Nat /\ \A i \in 1..Len(p) : p[i] \in Nat
  OBVIOUS
<1> HIDE DEF f
<1>4. f[0] = 0 /\ \A i \in 1..Len(p) : f[i] = Bumped(p, i, f[i - 1])
  <2>1. \A i \in 0..Len(p) : f[i] = IF i = 0 THEN 0 ELSE Bumped(p, i, f[i - 1])
    BY <1>2 DEF Simulates
  <2> QED BY <1>3, <2>1
<1> DEFINE Right(n) == f[n] \in Nat /\ \A i \in 0..n : f[i] <= f[n]
           U == {n \in 1..Len(p) : ~Right(n)}
<1>5. Right(0)
  BY <1>4
<1>6. ASSUME NEW m \in U, \A n \in U : m <= n PROVE FALSE
  <2>1. m \in 1..Len(p) /\ m \in Nat /\ m - 1 \in Nat
    BY <1>3
  <2>2. Right(m - 1)
    <3>1. CASE m = 1
      BY <1>5, <3>1
    <3>2. CASE m # 1
      <4>1. m - 1 \in 1..Len(p) /\ ~(m <= m - 1)
        BY <1>3, <2>1, <3>2
      <4> QED BY <1>6, <4>1
    <3> QED BY <3>1, <3>2
  <2>3. f[m] \in Nat /\ f[m - 1] <= f[m]
    <3>1. f[m] = Bumped(p, m, f[m - 1]) /\ p[m] \in Nat
      BY <1>3, <1>4, <2>1
    <3>2. AlignUp(f[m - 1]) \in Nat /\ AlignUp(f[m - 1]) >= f[m - 1]
      BY <2>2, AlignUpBound
    <3> QED BY <2>2, <3>1, <3>2 DEF Bumped
  <2>4. ASSUME NEW i \in 0..m PROVE f[i] <= f[m]
    <3>1. CASE i = m
      BY <2>3, <3>1
    <3>2. CASE i # m
      <4>1. i \in 0..(m - 1) /\ i \in 0..Len(p)
        BY <1>3, <2>1, <3>2
      <4>2. f[i] <= f[m - 1] /\ f[i] \in Nat
        <5>1. f[i] <= f[m - 1]
          BY <2>2, <4>1
        <5>2. CASE i = 0
          BY <1>4, <5>1, <5>2
        <5>3. CASE i # 0
          <6>1. i \in 1..Len(p) /\ ~(m <= i)
            BY <2>1, <4>1, <5>3
          <6>2. Right(i)
            BY <1>6, <6>1
          <6> QED BY <5>1, <6>2
        <5> QED BY <5>2, <5>3
      <4> QED BY <2>2, <2>3, <4>2
    <3> QED BY <3>1, <3>2
  <2>5. Right(m)
    BY <2>3, <2>4
  <2> QED BY <2>5
<1>7. U = {}
  <2> SUFFICES ASSUME U # {} PROVE FALSE
    OBVIOUS
  <2>1. U \in SUBSET (1..Len(p))
    OBVIOUS
  <2> HIDE DEF U
  <2>2. PICK m \in U : \A n \in U : m <= n
    BY <1>3, <2>1, LeastExists
  <2> QED BY <1>6, <2>2
<1>8. \A n \in 0..Len(p) : Right(n)
  <2> SUFFICES ASSUME NEW n \in 0..Len(p) PROVE Right(n)
    OBVIOUS
  <2>1. n = 0 \/ n \in 1..Len(p)
    BY <1>3
  <2> HIDE DEF Right
  <2> QED BY <1>5, <1>7, <2>1
<1>9. EstimatePeak(p) = f[Len(p)] /\ Len(p) \in 0..Len(p)
  BY <1>1, <1>3 DEF EstimatePeak
<1> QED BY <1>1, <1>4, <1>8, <1>9

-----------------------------------------------------------------------------
\* Nothing has been cut from an arena that made no view yet.
NothingCut == nextId = 0 => offset = 0

\* While a plan runs, the bump pointer is where the simulation has it before
\* the next step, in a slab that is long enough for the estimate.
InPlan ==
  /\ plan \in Seq(Nat) /\ step \in 0..(Len(plan) + 1)
  /\ step > 0 => /\ offset = SimulatedOffset(plan)[step - 1]
                 /\ EstimatePeak(plan) <= capacity

PInv == IInv /\ NothingCut /\ InPlan

LEMMA InitPInv == PlannedInit => PInv
<1> SUFFICES ASSUME PlannedInit PROVE PInv
  OBVIOUS
<1>1. IInv
  BY InitIInv DEF PlannedInit
<1>2. NothingCut /\ InPlan
  BY DEF PlannedInit, Init, NothingCut, InPlan
<1> QED BY <1>1, <1>2 DEF PInv

\* No call of the arena moves the bump pointer of an empty one without making
\* a view.
LEMMA StepNothingCut ==
  ASSUME IInv, NothingCut,
         \/ Next \/ \E len \in Nat : Alloc(len)
         \/ \E min \in Nat : EnsureCapacity(min)
  PROVE  NothingCut'
<1>1. ASSUME NEW len, Alloc(len) PROVE NothingCut'
  <2>1. CASE AllocInSlab(len) \/ GrowAndAlloc(len)
    BY <2>1 DEF AllocInSlab, GrowAndAlloc, Served, NothingCut, IInv, TypeOK
  <2>2. CASE AllocOverflow(len)
    BY <2>2 DEF AllocOverflow, NothingCut
  <2> QED BY <1>1, <2>1, <2>2 DEF Alloc
<1>2. ASSUME NEW min, EnsureCapacity(min) PROVE NothingCut'
  BY <1>2 DEF EnsureCapacity, NothingCut
<1>3. CASE Restore
  <2>1. nextId' = nextId /\ checkpoints # <<>>
    BY <1>3 DEF Restore
  <2>2. Innermost \in Saved
    BY <2>1, OuterSound
  <2>3. offset' = offset \/ (offset' = Innermost.offset /\ Innermost.offset <= offset)
    BY <1>3 DEF Restore, Restorable
  <2> QED BY <2>1, <2>2, <2>3 DEF NothingCut, Saved, IInv, TypeOK
<1>4. CASE SetAutoGrow \/ Reset \/ Checkpoint \/ AbandonCheckpoint
  BY <1>4 DEF SetAutoGrow, Reset, Checkpoint, AbandonCheckpoint, NothingCut
<1> QED BY <1>1, <1>2, <1>3, <1>4 DEF Next

\* Either way of pre-sizing leaves an empty arena as long as the estimate.
LEMMA PresizePInv ==
  ASSUME PInv, Presize
  PROVE  PInv'
<1>1. PICK p \in Plans : /\ CreatePresized(p) \/ GrowPresized(p)
                         /\ plan' = p
  BY DEF Presize
<1>2. step' = 1
  BY DEF Presize
<1>3. p \in Seq(Nat) /\ Len(p) \in Nat
  BY PlansAssumption
<1>4. EstimatePeak(p) \in Nat /\ SimulatedOffset(p)[0] = 0
  BY <1>3, SimulatedFacts
<1>5. /\ IInv' /\ NothingCut' /\ offset' = 0 /\ EstimatePeak(p) <= capacity'
  <2>1. CASE CreatePresized(p)
    <3>1. /\ capacity' = Maximum(InitCapacity, EstimatePeak(p))
          /\ ensured' = EstimatePeak(p) /\ autoGrow' = TRUE
          /\ UNCHANGED <<slab, offset, generation, totalAllocated, peakBytes,
                         retired, checkpoints, live, nextId>>
          /\ nextId = 0
      BY <2>1 DEF CreatePresized, NoArenaYet
    <3>2. offset = 0 /\ NothingCut'
      BY <3>1 DEF PInv, NothingCut
    <3>3. capacity' \in Nat /\ EstimatePeak(p) <= capacity'
      BY <1>4, <3>1, ArenaAssumption DEF Maximum
    <3>4. TypeOK'
      <4>1. /\ slab' \in Nat /\ capacity' \in Nat /\ offset' \in Nat
            /\ generation' \in Nat /\ totalAllocated' \in Nat
            /\ peakBytes' \in Nat /\ nextId' \in Nat /\ ensured' \in Nat
            /\ retired' \subseteq Nat
        BY <1>4, <3>1, <3>3 DEF PInv, IInv, TypeOK
      <4>2. autoGrow' \in BOOLEAN
        BY <3>1
      <4>3. live' \subseteq View /\ checkpoints' \in Seq(Saved)
        BY <3>1 DEF PInv, IInv, TypeOK
      <4> QED BY <4>1, <4>2, <4>3, Zenon DEF TypeOK, View, Saved
    <3>5. BelowBump' /\ CheckpointsSound' /\ NoOverlap' /\ LiveSlabsHeld'
      BY <3>1 DEF PInv, IInv, BelowBump, CheckpointsSound, Sound, NoOverlap,
         Regions!Exclusive, LiveSlabsHeld
    <3> QED BY <3>1, <3>2, <3>3, <3>4, <3>5 DEF IInv
  <2>2. CASE GrowPresized(p)
    <3>1. EnsureCapacity(EstimatePeak(p)) /\ offset = 0
      BY <2>2 DEF GrowPresized
    <3>2. IInv' /\ NothingCut'
      BY <1>4, <3>1, EnsureCapacityIInv, StepNothingCut DEF PInv
    <3>3. offset' = 0 /\ EstimatePeak(p) <= capacity'
      <4>1. CASE EnoughRemaining(EstimatePeak(p))
        BY <1>4, <3>1, <4>1 DEF EnsureCapacity, EnoughRemaining, SaturatingSub,
           PInv, IInv, TypeOK
      <4>2. CASE ~EnoughRemaining(EstimatePeak(p))
        BY <1>4, <3>1, <4>2 DEF EnsureCapacity, Maximum, PInv, IInv, TypeOK
      <4> QED BY <4>1, <4>2
    <3> QED BY <3>2, <3>3
  <2> QED BY <1>1, <2>1, <2>2
<1>6. InPlan'
  <2>1. plan' = p /\ step' - 1 = 0
    BY <1>1, <1>2
  <2>2. SimulatedOffset(p)' = SimulatedOffset(p) /\ EstimatePeak(p)' = EstimatePeak(p)
    OBVIOUS
  <2> QED BY <1>2, <1>3, <1>4, <1>5, <2>1 DEF InPlan
<1> QED BY <1>5, <1>6 DEF PInv

\* A planned allocation fits in the slab there is.
LEMMA PlannedFits ==
  ASSUME PInv, step \in DOMAIN plan, plan[step] # 0, Alloc(plan[step])
  PROVE  /\ plan[step] \in Nat \ {0}
         /\ AllocInSlab(plan[step])
         /\ offset' = SimulatedOffset(plan)[step]
<1>1. plan \in Seq(Nat) /\ step \in 1..Len(plan) /\ step > 0
  BY DEF PInv, InPlan
<1>2. plan[step] \in Nat \ {0}
  BY <1>1
<1>3. /\ SimulatedOffset(plan)[step] = AlignUp(offset) + plan[step]
      /\ SimulatedOffset(plan)[step] <= EstimatePeak(plan)
      /\ EstimatePeak(plan) \in Nat /\ SimulatedOffset(plan)[step] \in Nat
  <2>1. step \in 0..Len(plan)
    BY <1>1
  <2> QED BY <1>1, <2>1, SimulatedFacts DEF Bumped, PInv, InPlan
<1>4. Fits(plan[step])
  BY <1>1, <1>3 DEF Fits, PInv, InPlan, IInv, TypeOK
<1>5. AllocInSlab(plan[step])
  BY <1>4 DEF Alloc, GrowAndAlloc, AllocOverflow
<1> QED BY <1>2, <1>3, <1>5 DEF AllocInSlab

LEMMA RunStepPInv ==
  ASSUME PInv, RunStep
  PROVE  PInv'
<1>1. /\ step \in DOMAIN plan /\ step' = step + 1 /\ plan' = plan
      /\ plan \in Seq(Nat) /\ Len(plan) \in Nat /\ step \in 1..Len(plan)
  BY DEF RunStep, PInv, InPlan
<1>2. /\ IInv' /\ NothingCut' /\ offset' = SimulatedOffset(plan)[step]
      /\ capacity' = capacity
  <2>1. CASE plan[step] = 0
    <3>1. UNCHANGED vars
      BY <2>1 DEF RunStep
    <3>2. SimulatedOffset(plan)[step] = SimulatedOffset(plan)[step - 1]
      BY <1>1, <2>1, SimulatedFacts DEF Bumped
    <3>3. offset = SimulatedOffset(plan)[step - 1]
      BY <1>1 DEF PInv, InPlan
    <3>4. IInv'
      BY <3>1, QuietIInv DEF PInv
    <3> QED BY <3>1, <3>2, <3>3, <3>4 DEF vars, PInv, NothingCut
  <2>2. CASE plan[step] # 0
    <3>1. Alloc(plan[step])
      BY <2>2 DEF RunStep
    <3>2. /\ plan[step] \in Nat \ {0} /\ AllocInSlab(plan[step])
          /\ offset' = SimulatedOffset(plan)[step]
      BY <1>1, <2>2, <3>1, PlannedFits
    <3>3. IInv' /\ NothingCut'
      BY <3>1, <3>2, AllocIInv, StepNothingCut DEF PInv
    <3> QED BY <3>2, <3>3 DEF AllocInSlab
  <2> QED BY <2>1, <2>2
<1>3. InPlan'
  <2>1. step' - 1 = step /\ step' \in 0..(Len(plan) + 1)
    BY <1>1
  <2>2. EstimatePeak(plan) <= capacity
    BY <1>1 DEF PInv, InPlan
  <2> QED BY <1>1, <1>2, <2>1, <2>2 DEF InPlan
<1> QED BY <1>2, <1>3 DEF PInv

LEMMA StepPInv == PInv /\ [PlannedNext]_planVars => PInv'
<1> SUFFICES ASSUME PInv, [PlannedNext]_planVars PROVE PInv'
  OBVIOUS
<1>1. CASE UNCHANGED planVars
  <2>1. UNCHANGED vars /\ plan' = plan /\ step' = step
    BY <1>1 DEF planVars
  <2>2. IInv'
    BY <2>1, QuietIInv DEF PInv
  <2> QED BY <2>1, <2>2 DEF PInv, NothingCut, InPlan, vars
<1>2. CASE EndPlan
  <2>1. UNCHANGED vars /\ plan' = <<>> /\ step' = 0
    BY <1>2 DEF EndPlan
  <2>2. IInv'
    BY <2>1, QuietIInv DEF PInv
  <2> QED BY <2>1, <2>2 DEF PInv, NothingCut, InPlan, vars
<1>3. CASE OtherUse
  <2>1. Next /\ step' = 0 /\ plan' = plan /\ step = 0
    BY <1>3 DEF OtherUse
  <2>2. IInv' /\ NothingCut'
    BY <2>1, StepIInv, StepNothingCut DEF PInv
  <2>3. InPlan'
    BY <2>1 DEF PInv, InPlan
  <2> QED BY <2>2, <2>3 DEF PInv
<1> QED BY <1>1, <1>2, <1>3, PresizePInv, RunStepPInv DEF PlannedNext

-----------------------------------------------------------------------------
\* The fields of the arena, its byte counts among them, are naturals, with and
\* without pre-sizing for plans (so for the theorems that follow).
THEOREM TypeCorrect == (Spec => []TypeOK) /\ (PlannedSpec => []TypeOK)
<1>1. (IInv => TypeOK) /\ (PInv => TypeOK)
  BY DEF IInv, PInv
<1> QED
  BY <1>1, InitIInv, StepIInv, InitPInv, StepPInv, PTL DEF Spec, PlannedSpec

\* Two views a client may use at the same time never share a byte.
THEOREM LiveViewsDisjoint == (Spec => []NoOverlap) /\ (PlannedSpec => []NoOverlap)
<1>1. (IInv => NoOverlap) /\ (PInv => NoOverlap)
  BY DEF IInv, PInv
<1> QED
  BY <1>1, InitIInv, StepIInv, InitPInv, StepPInv, PTL DEF Spec, PlannedSpec

\* The buffer under a live view is the current slab or a retired one that is
\* still held, and the view lies inside it.
THEOREM SlabsHeld == (Spec => []LiveSlabsHeld) /\ (PlannedSpec => []LiveSlabsHeld)
<1>1. (IInv => LiveSlabsHeld) /\ (PInv => LiveSlabsHeld)
  BY DEF IInv, PInv
<1> QED
  BY <1>1, InitIInv, StepIInv, InitPInv, StepPInv, PTL DEF Spec, PlannedSpec

\* A plan the arena was pre-sized for with estimate_arena_peak_bytes never
\* makes it grow, whatever was done with it before.
THEOREM PresizedIsEnough == PlannedSpec => NoGrowthInHotPath
<1>1. PInv /\ [PlannedNext]_planVars => [step > 0 => slab' = slab]_planVars
  <2> SUFFICES ASSUME PInv, PlannedNext, step > 0 PROVE slab' = slab
    OBVIOUS
  <2>1. CASE RunStep
    <3>1. step \in DOMAIN plan
      BY <2>1 DEF RunStep
    <3>2. CASE plan[step] = 0
      BY <2>1, <3>2 DEF RunStep, vars
    <3>3. CASE plan[step] # 0
      <4>1. AllocInSlab(plan[step])
        BY <2>1, <3>1, <3>3, PlannedFits DEF RunStep
      <4> QED BY <4>1 DEF AllocInSlab
    <3> QED BY <3>2, <3>3
  <2>2. CASE EndPlan
    BY <2>2 DEF EndPlan, vars
  <2>3. ~Presize /\ ~OtherUse
    BY DEF Presize, OtherUse
  <2> QED BY <2>1, <2>2, <2>3 DEF PlannedNext
<1> QED
  BY <1>1, InitPInv, StepPInv, PTL DEF PlannedSpec, NoGrowthInHotPath

-----------------------------------------------------------------------------
\* An allocation adds one region, disjoint from all others.
LEMMA RegionsAlloc ==
  ASSUME IInv, NEW len \in Nat \ {0}, Alloc(len)
  PROVE  [Regions!Next]_live
<1>1. ASSUME NEW start, Served(len, start), NoOverlap',
             live' = live \cup {NewView(len, start)}
      PROVE  Regions!Allocate
  <2> DEFINE w == NewView(len, start)
  <2>1. w \notin live
    <3>1. w.id = nextId /\ nextId \in Nat
      BY DEF NewView, IInv, TypeOK
    <3>2. \A v \in live : v.id < nextId /\ v.id \in Nat
      BY DEF IInv, TypeOK, BelowBump, View
    <3> QED BY <3>1, <3>2
  <2>2. \A u \in live : Regions!Disjoint(u, w)
    BY <1>1, <2>1 DEF NoOverlap, Regions!Exclusive
  <2>3. w \in live' \ live
    BY <1>1, <2>1
  <2> QED BY <1>1, <2>2, <2>3 DEF Regions!Allocate
<1>2. CASE AllocInSlab(len)
  <2>1. NoOverlap'
    BY <1>2, AllocInSlabIInv DEF IInv
  <2>2. /\ Served(len, AlignUp(offset))
        /\ live' = live \cup {NewView(len, AlignUp(offset))}
    BY <1>2 DEF AllocInSlab, Served, NewView
  <2> QED BY <1>1, <2>1, <2>2 DEF Regions!Next
<1>3. CASE GrowAndAlloc(len)
  <2>1. NoOverlap'
    BY <1>3, GrowAndAllocIInv DEF IInv
  <2>2. Served(len, 0) /\ live' = live \cup {NewView(len, 0)}
    BY <1>3 DEF GrowAndAlloc, Served, NewView
  <2> QED BY <1>1, <2>1, <2>2 DEF Regions!Next
<1>4. CASE AllocOverflow(len)
  BY <1>4 DEF AllocOverflow
<1> QED BY <1>2, <1>3, <1>4 DEF Alloc

\* Every other call leaves the regions alone or gives some up.
LEMMA RegionsStep == IInv /\ [Next]_vars => [Regions!Next]_live
<1> SUFFICES ASSUME IInv, [Next]_vars PROVE [Regions!Next]_live
  OBVIOUS
<1>1. CASE Reset \/ Restore \/ Checkpoint \/ AbandonCheckpoint \/ SetAutoGrow
           \/ UNCHANGED vars
  BY <1>1 DEF Reset, Restore, Checkpoint, AbandonCheckpoint, SetAutoGrow, vars,
     Regions!Next, Regions!Release
<1>2. CASE \E min \in EnsureSizes : EnsureCapacity(min)
  BY <1>2 DEF EnsureCapacity
<1>3. Sizes \subseteq Nat \ {0}
  BY ArenaAssumption
<1> QED BY <1>1, <1>2, <1>3, RegionsAlloc DEF Next

LEMMA RegionsPlannedStep ==
  PInv /\ [PlannedNext]_planVars => [Regions!Next]_live
<1> SUFFICES ASSUME PInv, [PlannedNext]_planVars PROVE [Regions!Next]_live
  OBVIOUS
<1>1. CASE OtherUse
  BY <1>1, RegionsStep DEF OtherUse, PInv
<1>2. CASE Presize \/ EndPlan \/ UNCHANGED planVars
  BY <1>2 DEF Presize, CreatePresized, GrowPresized, EnsureCapacity, EndPlan,
     planVars, vars
<1>3. CASE RunStep
  <2>1. step \in DOMAIN plan
    BY <1>3 DEF RunStep
  <2>2. CASE plan[step] = 0
    BY <1>3, <2>2 DEF RunStep, vars
  <2>3. CASE plan[step] # 0
    <3>1. Alloc(plan[step]) /\ plan[step] \in Nat \ {0}
      BY <1>3, <2>1, <2>3, PlannedFits DEF RunStep
    <3> QED BY <3>1, RegionsAlloc DEF PInv
  <2> QED BY <2>2, <2>3
<1> QED BY <1>1, <1>2, <1>3 DEF PlannedNext

\* The arena implements RegionAllocator, with and without plans.
THEOREM RegionsImplemented ==
  (Spec => ImplementsRegions) /\ (PlannedSpec => ImplementsRegions)
<1>1. (Init => Regions!Init) /\ (PlannedInit => Regions!Init)
  BY DEF Init, PlannedInit, Regions!Init
<1> QED
  BY <1>1, InitIInv, StepIInv, RegionsStep, InitPInv, StepPInv,
     RegionsPlannedStep, PTL
     DEF Spec, PlannedSpec, ImplementsRegions, Regions!Spec
=============================================================================
