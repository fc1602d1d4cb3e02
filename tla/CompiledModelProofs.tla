------------------------ MODULE CompiledModelProofs ------------------------
(***************************************************************************)
(* For every plan: two steps never share planned bytes while the output of  *)
(* the earlier one has a reader that is not scanned before the later one;   *)
(* and in every execution the steps, and the callers in the end, find what  *)
(* was produced for them.                                                   *)
(*                                                                         *)
(* The argument for the planner: the ranges that are still held and the     *)
(* free slots never overlap and end at or below the high-water mark.  A new *)
(* range is cut out of a free slot or taken above the mark, so it avoids    *)
(* every held range; and a range with a reader to come is held, because     *)
(* compute_last_use is at least that reader.                                *)
(*                                                                         *)
(* The argument for the executions: a step's range holds what the step      *)
(* wrote until the planner has given it away (MemoryInv), since a later     *)
(* step writes into a range apart from it; what a step left behind is a     *)
(* slice of this execution (SlicesInv), which stays as long as it has a     *)
(* reader or is an output (KeptInv).                                        *)
(***************************************************************************)
EXTENDS CompiledModel, FiniteSetTheorems, TLAPS

Region(i) == Slot(stepOffsets[i], StepSize(i))

Apart(s, t) == s.offset + s.size <= t.offset \/ t.offset + t.size <= s.offset

SlotType == [offset : Nat, size : Nat \ {0}]

\* Ranges that the scan has not given back.
GivenBack(i) == LastUse(i) < step /\ StepSize(LastUse(i)) > 0 /\ i # LastUse(i)

Held == {i \in Allocated : ~GivenBack(i)}

PlannerTypeOK ==
  /\ plan \in Plans
  /\ step \in 1..(Len(plan.kind) + 1)
  /\ stepOffsets \in [Steps -> Nat \union {None}]
  /\ freeSlots \subseteq SlotType
  /\ highWaterMark \in Nat

\* Exactly the scanned steps with an output have a range.
ScannedAllocated ==
  \A i \in Steps : i \in Allocated <=> i < step /\ StepSize(i) > 0

InBounds ==
  /\ \A i \in Allocated : stepOffsets[i] + StepSize(i) <= highWaterMark
  /\ \A s \in freeSlots : s.offset + s.size <= highWaterMark

SlotsApart ==
  /\ \A s, t \in freeSlots : s # t => Apart(s, t)
  /\ \A i \in Held : \A s \in freeSlots : Apart(Region(i), s)
  /\ \A i, j \in Held : i # j => Apart(Region(i), Region(j))

\* A range is apart from those of later steps, up to the step that gives it
\* away.
ApartTillGiven ==
  \A i, j \in Allocated :
    i < j /\ ~GivenAway(i, j) => Bytes(i) \cap Bytes(j) = {}

PInv ==
  PlannerTypeOK /\ ScannedAllocated /\ InBounds /\ SlotsApart /\ ApartTillGiven

-----------------------------------------------------------------------------
\* A bounded set of naturals that is not empty has a greatest element.
LEMMA MaximumExists ==
  ASSUME NEW N \in Nat, NEW U \in SUBSET (1..N), U # {}
  PROVE  \E m \in U : \A n \in U : n <= m
<1> DEFINE T == {m..N : m \in U}
<1>1. IsWellFoundedOn(StrictSubsetOrdering(1..N), SUBSET (1..N))
  <2>1. IsFiniteSet(1..N)
    BY FS_Interval
  <2> QED
    BY <2>1, FS_StrictSubsetOrderingWellFounded, FS_FiniteSubsetsOfFinite
<1>2. T \subseteq SUBSET (1..N)
  <2>1. \A m \in U : m..N \subseteq 1..N
    OBVIOUS
  <2> QED BY <2>1
<1>3. T # {}
  OBVIOUS
<1>4. PICK s \in T : \A t \in T : ~(<<t, s>> \in StrictSubsetOrdering(1..N))
  <2> HIDE DEF T
  <2> QED BY <1>1, <1>2, <1>3, WFMin
<1>5. PICK m \in U : s = m..N
  OBVIOUS
<1>6. ASSUME NEW n \in U, ~(n <= m) PROVE FALSE
  <2>1. n..N \in T /\ n..N \in SUBSET (1..N) /\ s \in SUBSET (1..N)
    BY <1>2
  <2>2. n..N \subseteq s /\ m \in s /\ m \notin n..N
    BY <1>5, <1>6
  <2>3. <<n..N, s>> \in StrictSubsetOrdering(1..N)
    BY <2>1, <2>2 DEF StrictSubsetOrdering
  <2> QED BY <1>4, <2>1, <2>3
<1> QED BY <1>6

LEMMA PlanShape ==
  ASSUME plan \in Plans
  PROVE  /\ Len(plan.kind) \in Nat /\ Steps = 1..Len(plan.kind)
         /\ \A i \in Steps : StepSize(i) \in Nat
         /\ \A i, j \in Steps : j \in Readers(i) => i < j
         /\ \A i \in Steps : Readers(i) \subseteq Steps
<1>1. /\ plan.kind \in Seq(Planned \union Unplanned)
      /\ plan.bytes \in [DOMAIN plan.kind -> Nat]
      /\ plan.inputs \in [DOMAIN plan.kind -> SUBSET Nat]
      /\ \A i \in DOMAIN plan.kind : plan.inputs[i] \subseteq 1..(i - 1)
  BY PlansAssumption
<1>2. Len(plan.kind) \in Nat /\ Steps = 1..Len(plan.kind)
  BY <1>1 DEF Steps
<1>3. \A i \in Steps : StepSize(i) \in Nat
  BY <1>1 DEF Steps, StepSize
<1>4. \A i, j \in Steps : j \in Readers(i) => i < j
  <2> SUFFICES ASSUME NEW i \in Steps, NEW j \in Steps, j \in Readers(i)
               PROVE  i < j
    OBVIOUS
  <2>1. i \in 1..(j - 1)
    BY <1>1 DEF Readers, Steps
  <2> QED BY <1>2, <2>1
<1> QED BY <1>2, <1>3, <1>4 DEF Readers

\* compute_last_use returns the last reader.
LEMMA LastUseIsLast ==
  ASSUME plan \in Plans, NEW i \in Steps
  PROVE  /\ LastUse(i) \in Readers(i) \union {i}
         /\ LastUse(i) \in Steps
         /\ \A n \in Readers(i) \union {i} : n <= LastUse(i)
<1> DEFINE U == Readers(i) \union {i}
<1>1. Len(plan.kind) \in Nat /\ U \in SUBSET (1..Len(plan.kind)) /\ U # {}
  BY PlanShape
<1>2. \E m \in U : \A n \in U : n <= m
  BY <1>1, MaximumExists
<1>3. LastUse(i) \in U /\ \A n \in U : n <= LastUse(i)
  BY <1>2 DEF LastUse
<1> QED BY <1>1, <1>3, PlanShape

\* The quantities of the plan do not change.
LEMMA PlanFixed ==
  ASSUME UNCHANGED plan
  PROVE  /\ Steps' = Steps
         /\ \A i : StepSize(i)' = StepSize(i)
         /\ \A i : Readers(i)' = Readers(i)
         /\ \A i : LastUse(i)' = LastUse(i)
<1>1. Steps' = Steps
  BY DEF Steps
<1>2. \A i : StepSize(i)' = StepSize(i)
  BY DEF StepSize
<1>3. \A i : Readers(i)' = Readers(i)
  BY DEF Readers, Steps
<1>4. \A i : LastUse(i)' = LastUse(i)
  BY <1>3 DEF LastUse
<1> QED BY <1>1, <1>2, <1>3, <1>4

LEMMA InitPInv == PlannerInit => PInv
<1> SUFFICES ASSUME PlannerInit PROVE PInv
  OBVIOUS
<1>1. Steps = 1..Len(plan.kind) /\ Len(plan.kind) \in Nat
  BY PlanShape DEF PlannerInit
<1>2. Allocated = {}
  BY DEF PlannerInit, Allocated
<1>3. PlannerTypeOK
  BY <1>1 DEF PlannerInit, PlannerTypeOK
<1>4. ScannedAllocated
  BY <1>1, <1>2 DEF PlannerInit, ScannedAllocated
<1> QED
  BY <1>2, <1>3, <1>4
     DEF PInv, PlannerInit, InBounds, SlotsApart, Held, ApartTillGiven

-----------------------------------------------------------------------------
\* A step without a planned output: nothing is handed out, and nothing is
\* given back, for it releases nothing.
LEMMA SkipPInv ==
  ASSUME PInv, step \in Steps, Skip, step' = step + 1, UNCHANGED plan
  PROVE  PInv'
<1>1. /\ Steps' = Steps /\ \A i : StepSize(i)' = StepSize(i)
      /\ (\A i : Readers(i)' = Readers(i)) /\ (\A i : LastUse(i)' = LastUse(i))
  BY PlanFixed
<1>2. /\ UNCHANGED <<plan, stepOffsets, freeSlots, highWaterMark>>
      /\ StepSize(step) = 0
  BY DEF Skip
<1>3. Len(plan.kind) \in Nat /\ Steps = 1..Len(plan.kind)
  BY PlanShape DEF PInv, PlannerTypeOK
<1>4. step \in Nat /\ step' \in 1..(Len(plan.kind) + 1)
  BY <1>3
<1>5. Allocated' = Allocated
  BY <1>1, <1>2 DEF Allocated
<1>6. Held' \subseteq Held
  <2> SUFFICES ASSUME NEW i \in Held', i \notin Held PROVE FALSE
    OBVIOUS
  <2>1. i \in Steps /\ i \in Allocated
    BY <1>5 DEF Held, Allocated
  <2>2. LastUse(i) \in Steps
    BY <2>1, LastUseIsLast DEF PInv, PlannerTypeOK
  <2> QED BY <1>1, <1>3, <1>4, <1>5, <2>1, <2>2 DEF Held, GivenBack
<1>7. \A i : Region(i)' = Region(i)
  BY <1>1, <1>2 DEF Region, Slot
<1>8. PlannerTypeOK'
  BY <1>1, <1>2, <1>4 DEF PInv, PlannerTypeOK
<1>9. ScannedAllocated'
  <2> SUFFICES ASSUME NEW i \in Steps
               PROVE  i \in Allocated <=> i < step + 1 /\ StepSize(i) > 0
    BY <1>1, <1>5 DEF ScannedAllocated
  <2>1. StepSize(i) \in Nat
    BY PlanShape DEF PInv, PlannerTypeOK
  <2> QED BY <1>2, <1>3, <1>4, <2>1 DEF PInv, ScannedAllocated
<1>10. InBounds'
  BY <1>1, <1>2, <1>5 DEF PInv, InBounds
<1>11. SlotsApart'
  BY <1>2, <1>6, <1>7 DEF PInv, SlotsApart, Apart
<1>12. ApartTillGiven'
  BY <1>1, <1>2, <1>5 DEF PInv, ApartTillGiven, Bytes, GivenAway
<1> QED BY <1>8, <1>9, <1>10, <1>11, <1>12 DEF PInv

\* A new range at a place apart from everything that is held, with the slots
\* F left over and the ranges that fall free added to them.
LEMMA NewRangePInv ==
  ASSUME PInv, step \in Steps, StepSize(step) > 0, step' = step + 1,
         UNCHANGED plan,
         NEW at \in Nat, stepOffsets' = [stepOffsets EXCEPT ![step] = at],
         NEW F \in SUBSET SlotType, freeSlots' = F \union Released,
         highWaterMark' \in Nat, highWaterMark' >= highWaterMark,
         at + StepSize(step) <= highWaterMark',
         \A s \in F : s.offset + s.size <= highWaterMark,
         \A s, t \in F : s # t => Apart(s, t),
         \A i \in Held : \A s \in F : Apart(Region(i), s),
         \A i \in Held : Apart(Region(i), Slot(at, StepSize(step))),
         \A s \in F : Apart(Slot(at, StepSize(step)), s)
  PROVE  PInv'
<1> DEFINE new == Slot(at, StepSize(step))
<1>1. /\ Steps' = Steps /\ \A i : StepSize(i)' = StepSize(i)
      /\ (\A i : Readers(i)' = Readers(i)) /\ (\A i : LastUse(i)' = LastUse(i))
  BY PlanFixed
<1>2. /\ Len(plan.kind) \in Nat /\ Steps = 1..Len(plan.kind)
      /\ \A i \in Steps : StepSize(i) \in Nat
      /\ step \in Nat /\ step' \in 1..(Len(plan.kind) + 1)
  <2>1. /\ Len(plan.kind) \in Nat /\ Steps = 1..Len(plan.kind)
        /\ \A i \in Steps : StepSize(i) \in Nat
    BY PlanShape DEF PInv, PlannerTypeOK
  <2> QED BY <2>1
<1>3. /\ \A i \in Steps : stepOffsets[i] \in Nat \union {None}
      /\ \A i \in Steps : stepOffsets'[i] = IF i = step THEN at ELSE stepOffsets[i]
      /\ None \notin Nat
  BY NoneAssumption DEF PInv, PlannerTypeOK
<1>4. Allocated' = Allocated \union {step} /\ step \notin Allocated
  <2>1. Allocated' = Allocated \union {step}
    BY <1>1, <1>3 DEF Allocated
  <2> QED BY <1>2, <2>1 DEF PInv, ScannedAllocated
<1>5. \A i \in Allocated : /\ i \in Steps /\ i < step /\ stepOffsets[i] \in Nat
                           /\ StepSize(i) \in Nat \ {0}
                           /\ Region(i) \in SlotType
                           /\ Region(i)' = Region(i)
  <2> SUFFICES ASSUME NEW i \in Allocated
               PROVE  /\ i \in Steps /\ i < step /\ stepOffsets[i] \in Nat
                      /\ StepSize(i) \in Nat \ {0}
                      /\ Region(i) \in SlotType
                      /\ Region(i)' = Region(i)
    OBVIOUS
  <2>1. i \in Steps /\ i < step /\ stepOffsets[i] \in Nat /\ StepSize(i) \in Nat \ {0}
    BY <1>2, <1>3 DEF Allocated, PInv, ScannedAllocated
  <2>2. stepOffsets'[i] = stepOffsets[i]
    BY <1>2, <1>3, <2>1
  <2> QED BY <1>1, <2>1, <2>2 DEF Region, Slot, SlotType
<1>6. new \in SlotType /\ \A i \in Steps : i = step => Region(i)' = new
  BY <1>1, <1>2, <1>3 DEF Region, Slot, SlotType
<1>7. ReleaseAt(step) \subseteq Held
  BY <1>2 DEF ReleaseAt, Held, GivenBack, PInv, ScannedAllocated
<1>8. Held' \subseteq (Held \ ReleaseAt(step)) \union {step}
  <2> SUFFICES ASSUME NEW i \in Held', i # step
               PROVE  i \in Held /\ i \notin ReleaseAt(step)
    OBVIOUS
  <2>1. i \in Allocated /\ i \in Steps /\ i < step /\ LastUse(i) \in Steps
    BY <1>4, <1>5, LastUseIsLast DEF Held, PInv, PlannerTypeOK
  <2>2. ~(LastUse(i) < step + 1 /\ StepSize(LastUse(i)) > 0 /\ i # LastUse(i))
    BY <1>1 DEF Held, GivenBack
  <2> QED BY <1>2, <2>1, <2>2 DEF Held, GivenBack, ReleaseAt
<1>9. \A s \in Released : \E i \in ReleaseAt(step) : s = Region(i)
  BY DEF Released, Region
<1>10. PlannerTypeOK'
  <2>1. Released \subseteq SlotType
    BY <1>5, <1>7, <1>9 DEF Held
  <2>2. stepOffsets' \in [Steps' -> Nat \union {None}]
    BY <1>1 DEF PInv, PlannerTypeOK
  <2> QED BY <1>2, <2>1, <2>2 DEF PInv, PlannerTypeOK
<1>11. ScannedAllocated'
  <2> SUFFICES ASSUME NEW i \in Steps
               PROVE  i \in Allocated' <=> i < step + 1 /\ StepSize(i) > 0
    BY <1>1 DEF ScannedAllocated
  <2> QED BY <1>2, <1>4 DEF PInv, ScannedAllocated
<1>12. InBounds'
  <2>1. \A i \in Allocated : stepOffsets[i] + StepSize(i) <= highWaterMark
    BY DEF PInv, InBounds
  <2>2. highWaterMark \in Nat
    BY DEF PInv, PlannerTypeOK
  <2>3. ASSUME NEW i \in Allocated'
        PROVE  stepOffsets'[i] + StepSize(i)' <= highWaterMark'
    BY <1>1, <1>2, <1>3, <1>4, <1>5, <2>1, <2>2
  <2>4. ASSUME NEW s \in freeSlots' PROVE s.offset + s.size <= highWaterMark'
    <3>1. CASE s \in F
      <4>1. s.offset \in Nat /\ s.size \in Nat
        BY <3>1 DEF SlotType
      <4> QED BY <3>1, <4>1, <2>2
    <3>2. CASE s \in Released
      <4>1. PICK i \in ReleaseAt(step) : s = Region(i)
        BY <3>2, <1>9
      <4>2. i \in Allocated
        BY <1>7 DEF Held
      <4>3. s.offset = stepOffsets[i] /\ s.size = StepSize(i)
        BY <4>1 DEF Region, Slot
      <4>4. stepOffsets[i] \in Nat /\ StepSize(i) \in Nat
        BY <4>2, <1>5
      <4> QED BY <4>2, <4>3, <4>4, <2>1, <2>2
    <3> QED BY <3>1, <3>2
  <2> QED BY <2>3, <2>4 DEF InBounds
<1>13. SlotsApart'
  <2>1. \A i, j \in Held : i # j => Apart(Region(i), Region(j))
    BY DEF PInv, SlotsApart
  <2>2. \A s, t \in SlotType : Apart(s, t) <=> Apart(t, s)
    BY DEF Apart
  <2>3. Held \subseteq Allocated
    BY DEF Held
  <2>4. ASSUME NEW s \in freeSlots', NEW t \in freeSlots', s # t PROVE Apart(s, t)
    <3>1. CASE s \in F /\ t \in F
      BY <2>4, <3>1
    <3>2. CASE s \in Released /\ t \in F
      BY <3>2, <1>7, <1>9
    <3>3. CASE s \in F /\ t \in Released
      <4>1. Apart(t, s) /\ t \in SlotType
        BY <3>3, <1>5, <1>7, <1>9, <2>3
      <4> QED BY <3>3, <4>1, <2>2
    <3>4. CASE s \in Released /\ t \in Released
      BY <2>4, <3>4, <1>7, <1>9, <2>1
    <3> QED BY <3>1, <3>2, <3>3, <3>4
  <2>5. ASSUME NEW i \in Held', NEW s \in freeSlots' PROVE Apart(Region(i)', s)
    <3>1. CASE i = step /\ s \in F
      BY <3>1, <1>6
    <3>2. CASE i = step /\ s \in Released
      <4>1. Apart(s, new) /\ s \in SlotType
        BY <3>2, <1>5, <1>7, <1>9, <2>3
      <4> QED BY <3>2, <4>1, <1>6, <2>2
    <3>3. CASE i # step /\ s \in F
      BY <3>3, <1>5, <1>8, <2>3
    <3>4. CASE i # step /\ s \in Released
      BY <3>4, <1>5, <1>7, <1>8, <1>9, <2>1, <2>3
    <3> QED BY <3>1, <3>2, <3>3, <3>4
  <2>6. ASSUME NEW i \in Held', NEW j \in Held', i # j
        PROVE  Apart(Region(i)', Region(j)')
    <3>1. CASE i = step
      <4>1. j \in Held /\ Apart(Region(j), new)
        BY <3>1, <2>6, <1>8
      <4> QED BY <3>1, <4>1, <1>5, <1>6, <2>2, <2>3
    <3>2. CASE j = step
      BY <3>2, <2>6, <1>5, <1>6, <1>8, <2>3
    <3>3. CASE i # step /\ j # step
      BY <3>3, <2>6, <1>5, <1>8, <2>1, <2>3
    <3> QED BY <3>1, <3>2, <3>3
  <2> QED BY <2>4, <2>5, <2>6 DEF SlotsApart, Apart
<1>14. ApartTillGiven'
  <2> SUFFICES ASSUME NEW i \in Allocated', NEW j \in Allocated', i < j,
                      ~GivenAway(i, j)
               PROVE  Bytes(i)' \cap Bytes(j)' = {}
    BY <1>1 DEF ApartTillGiven, GivenAway
  <2>1. CASE j = step
    <3>1. i \in Allocated /\ i \in Steps /\ i < step
      BY <2>1, <1>2, <1>4, <1>5
    <3>3. i \in Held
      BY <2>1, <3>1 DEF Held, GivenBack, GivenAway
    <3>4. Apart(Region(i), new)
      BY <3>3
    <3>5. Bytes(i)' = stepOffsets[i] .. (stepOffsets[i] + StepSize(i) - 1)
      BY <3>1, <1>1, <1>2, <1>3 DEF Bytes
    <3>6. Bytes(j)' = at .. (at + StepSize(step) - 1)
      BY <2>1, <1>1, <1>3 DEF Bytes
    <3>7. \/ stepOffsets[i] + StepSize(i) <= at
          \/ at + StepSize(step) <= stepOffsets[i]
      BY <3>4 DEF Apart, Region, Slot
    <3>8. /\ stepOffsets[i] \in Nat /\ StepSize(i) \in Nat /\ StepSize(step) \in Nat
      BY <3>1, <1>2, <1>5
    <3> QED BY <3>5, <3>6, <3>7, <3>8
  <2>2. CASE j # step
    <3>1. i \in Allocated /\ j \in Allocated
      BY <2>2, <1>2, <1>4, <1>5
    <3>2. Bytes(i) \cap Bytes(j) = {}
      BY <3>1 DEF PInv, ApartTillGiven
    <3>3. Bytes(i)' = Bytes(i) /\ Bytes(j)' = Bytes(j)
      BY <3>1, <1>1, <1>3, <1>4, <1>5 DEF Bytes
    <3> QED BY <3>2, <3>3
  <2> QED BY <2>1, <2>2
<1> QED BY <1>10, <1>11, <1>12, <1>13, <1>14 DEF PInv

\* The smallest slot that fits: the new range is its beginning.
LEMMA ReusePInv ==
  ASSUME PInv, step \in Steps, StepSize(step) > 0, step' = step + 1,
         UNCHANGED plan, ReuseSlot(StepSize(step))
  PROVE  PInv'
<1> DEFINE n == StepSize(step)
<1>1. n \in Nat /\ n > 0 /\ highWaterMark \in Nat
  BY PlanShape DEF PInv, PlannerTypeOK
<1>2. PICK s \in BestFits(n) :
        /\ stepOffsets' = [stepOffsets EXCEPT ![step] = s.offset]
        /\ freeSlots' = (freeSlots \ {s}) \union Remainder(s, n) \union Released
        /\ UNCHANGED highWaterMark
  BY DEF ReuseSlot
<1> DEFINE F == (freeSlots \ {s}) \union Remainder(s, n)
           new == Slot(s.offset, n)
<1>3. s \in freeSlots /\ s \in SlotType /\ s.size >= n
  BY DEF BestFits, PInv, PlannerTypeOK
<1>4. /\ freeSlots \subseteq SlotType
      /\ \A t \in freeSlots : t.offset + t.size <= highWaterMark
      /\ \A t, u \in freeSlots : t # u => Apart(t, u)
      /\ \A i \in Held : \A t \in freeSlots : Apart(Region(i), t)
  BY DEF PInv, PlannerTypeOK, InBounds, SlotsApart
<1>5. \A i \in Held : Region(i).offset \in Nat /\ Region(i).size \in Nat
  <2> SUFFICES ASSUME NEW i \in Held
               PROVE  stepOffsets[i] \in Nat /\ StepSize(i) \in Nat
    BY DEF Region, Slot
  <2> QED BY PlanShape, NoneAssumption DEF PInv, PlannerTypeOK, Held, Allocated
<1>6. \A r \in Remainder(s, n) :
        r \in SlotType /\ r.offset = s.offset + n /\ r.size = s.size - n
  BY <1>1, <1>3 DEF Remainder, Slot, SlotType
<1>7. F \in SUBSET SlotType
  BY <1>4, <1>6
<1>8. \A t \in F : t.offset + t.size <= highWaterMark
  <2>1. \A r \in Remainder(s, n) : r.offset + r.size <= highWaterMark
    BY <1>1, <1>3, <1>4, <1>6 DEF SlotType
  <2> QED BY <1>4, <2>1
<1>9. ASSUME NEW t \in F, NEW u \in F, t # u PROVE Apart(t, u)
  <2>1. CASE t \in freeSlots \ {s} /\ u \in freeSlots \ {s}
    BY <1>4, <1>9, <2>1
  <2>2. CASE t \in freeSlots \ {s} /\ u \in Remainder(s, n)
    <3>1. Apart(t, s) /\ t \in SlotType
      BY <1>3, <1>4, <2>2
    <3> QED BY <1>1, <1>3, <1>6, <2>2, <3>1 DEF Apart, SlotType
  <2>3. CASE u \in freeSlots \ {s} /\ t \in Remainder(s, n)
    <3>1. Apart(u, s) /\ u \in SlotType
      BY <1>3, <1>4, <2>3
    <3> QED BY <1>1, <1>3, <1>6, <2>3, <3>1 DEF Apart, SlotType
  <2>4. CASE t \in Remainder(s, n) /\ u \in Remainder(s, n)
    BY <1>9, <2>4 DEF Remainder
  <2> QED BY <2>1, <2>2, <2>3, <2>4
<1>10. ASSUME NEW i \in Held, NEW t \in F PROVE Apart(Region(i), t)
  <2>1. CASE t \in freeSlots
    BY <1>4, <2>1
  <2>2. CASE t \in Remainder(s, n)
    <3>1. Apart(Region(i), s)
      BY <1>3, <1>4
    <3> QED BY <1>1, <1>3, <1>5, <1>6, <2>2, <3>1 DEF Apart, SlotType
  <2> QED BY <2>1, <2>2
<1>11. ASSUME NEW i \in Held PROVE Apart(Region(i), new)
  <2>1. Apart(Region(i), s)
    BY <1>3, <1>4
  <2> QED BY <1>1, <1>3, <1>5, <2>1 DEF Apart, SlotType, Slot
<1>12. ASSUME NEW t \in F PROVE Apart(new, t)
  <2>1. CASE t \in freeSlots \ {s}
    <3>1. Apart(s, t) /\ t \in SlotType
      BY <1>3, <1>4, <2>1
    <3> QED BY <1>1, <1>3, <3>1 DEF Apart, SlotType, Slot
  <2>2. CASE t \in Remainder(s, n)
    BY <1>1, <1>3, <1>6, <2>2 DEF Apart, SlotType, Slot
  <2> QED BY <2>1, <2>2
<1>13. s.offset \in Nat /\ s.offset + n <= highWaterMark
  BY <1>1, <1>3, <1>4 DEF SlotType
<1> HIDE DEF F
<1>14. freeSlots' = F \union Released
  BY <1>2 DEF F
<1>15. /\ highWaterMark' \in Nat /\ highWaterMark' >= highWaterMark
       /\ s.offset + n <= highWaterMark'
  BY <1>1, <1>2, <1>13
<1>16. stepOffsets' = [stepOffsets EXCEPT ![step] = s.offset]
  BY <1>2
<1> QED
  BY <1>7, <1>8, <1>9, <1>10, <1>11, <1>12, <1>13, <1>14, <1>15, <1>16, NewRangePInv

\* No slot fits: the new range lies above everything handed out so far.
LEMMA ExtendPInv ==
  ASSUME PInv, step \in Steps, StepSize(step) > 0, step' = step + 1,
         UNCHANGED plan, Extend(StepSize(step))
  PROVE  PInv'
<1> DEFINE n == StepSize(step)
<1>1. n \in Nat /\ n > 0 /\ highWaterMark \in Nat
  BY PlanShape DEF PInv, PlannerTypeOK
<1>2. /\ stepOffsets' = [stepOffsets EXCEPT ![step] = highWaterMark]
      /\ freeSlots' = freeSlots \union Released
      /\ highWaterMark' = highWaterMark + n
  BY DEF Extend
<1>3. /\ freeSlots \in SUBSET SlotType
      /\ \A t \in freeSlots : t.offset + t.size <= highWaterMark
      /\ \A t, u \in freeSlots : t # u => Apart(t, u)
      /\ \A i \in Held : \A t \in freeSlots : Apart(Region(i), t)
  BY DEF PInv, PlannerTypeOK, InBounds, SlotsApart
<1>4. \A i \in Held : Apart(Region(i), Slot(highWaterMark, n))
  <2>1. \A i \in Held : stepOffsets[i] + StepSize(i) <= highWaterMark
    BY DEF PInv, InBounds, Held
  <2> QED BY <2>1 DEF Apart, Region, Slot
<1>5. \A t \in freeSlots : Apart(Slot(highWaterMark, n), t)
  BY <1>3 DEF Apart, Slot
<1>6. highWaterMark' \in Nat /\ highWaterMark' >= highWaterMark
      /\ highWaterMark + n <= highWaterMark'
  BY <1>1, <1>2
<1> QED BY <1>1, <1>2, <1>3, <1>4, <1>5, <1>6, NewRangePInv

LEMMA ScanPInv == PInv /\ [Scan]_planner => PInv'
<1> SUFFICES ASSUME PInv, [Scan]_planner PROVE PInv'
  OBVIOUS
<1>1. CASE Scan /\ Skip
  BY <1>1, SkipPInv DEF Scan
<1>2. CASE Scan /\ StepSize(step) > 0 /\ ReuseSlot(StepSize(step))
  BY <1>2, ReusePInv DEF Scan
<1>3. CASE Scan /\ StepSize(step) > 0 /\ Extend(StepSize(step))
  BY <1>3, ExtendPInv DEF Scan
<1>4. CASE UNCHANGED planner
  <2>1. UNCHANGED <<plan, step, stepOffsets, freeSlots, highWaterMark>>
    BY <1>4 DEF planner
  <2>2. /\ Steps' = Steps /\ \A i : StepSize(i)' = StepSize(i)
        /\ (\A i : Readers(i)' = Readers(i)) /\ (\A i : LastUse(i)' = LastUse(i))
    BY <2>1, PlanFixed
  <2>3. Allocated' = Allocated
    BY <2>1, <2>2 DEF Allocated
  <2>4. Held' = Held
    BY <2>1, <2>2, <2>3 DEF Held, GivenBack
  <2>5. /\ \A i : Region(i)' = Region(i)
        /\ \A i : Bytes(i)' = Bytes(i)
    BY <2>1, <2>2 DEF Region, Slot, Bytes
  <2>6. PlannerTypeOK' /\ ScannedAllocated' /\ InBounds'
    BY <2>1, <2>2, <2>3 DEF PInv, PlannerTypeOK, ScannedAllocated, InBounds
  <2>7. SlotsApart' /\ ApartTillGiven'
    BY <2>1, <2>2, <2>3, <2>4, <2>5
       DEF PInv, SlotsApart, Apart, ApartTillGiven, GivenAway
  <2> QED BY <2>6, <2>7 DEF PInv
<1> QED BY <1>1, <1>2, <1>3, <1>4 DEF Scan, AllocOrReuse

\* A range with a reader to come is not given away yet.
LEMMA ApartWhileLive == PInv => NoLiveOverlap
<1> SUFFICES ASSUME PInv, NEW i \in Allocated, NEW j \in Allocated, i < j,
                    NEW k \in Readers(i), k >= j
             PROVE  Bytes(i) \cap Bytes(j) = {}
  BY DEF NoLiveOverlap
<1>1. /\ i \in Steps /\ j \in Steps /\ k \in Steps /\ LastUse(i) \in Steps
      /\ k <= LastUse(i)
  BY LastUseIsLast DEF PInv, PlannerTypeOK, Allocated, Readers
<1>2. Len(plan.kind) \in Nat /\ Steps = 1..Len(plan.kind)
  BY PlanShape DEF PInv, PlannerTypeOK
<1>3. ~(LastUse(i) < j)
  BY <1>1, <1>2
<1> QED BY <1>3 DEF PInv, ApartTillGiven, GivenAway

\* linear_scan_alloc, for any plan: no step's output is laid over an earlier
\* one that is still to be read.
THEOREM LiveRangesDisjoint == PlannerSpec => []NoLiveOverlap
<1> QED BY InitPInv, ScanPInv, ApartWhileLive, PTL DEF PlannerSpec

-----------------------------------------------------------------------------
\* The slices a step may leave behind: a buffer of its own, or the planned
\* range of a step b.
OwnSlice(b) == OwnBuffer(<<run, b>>, {<<run, b>>})

RangeSlice(b) == PlannedSlice(b, <<run, b>>)

IsSliceOf(slice, b) ==
  slice = OwnSlice(b) \/ (b \in Allocated /\ slice = RangeSlice(b))

ExecTyped ==
  /\ outputs \subseteq Steps
  /\ run \in Nat
  /\ pc \in 0..(Len(plan.kind) + 1)
  /\ pc > 0 => run > 0
  /\ run > 0 => Compiled /\ DOMAIN mem = 0..(highWaterMark - 1)
  /\ run = 0 => results = {}

\* What a step left behind in this execution, its own output or, as a view,
\* that of an earlier step.
SlicesInv ==
  \A i \in Steps : buffers[i] # None =>
    /\ i < pc
    /\ \E b \in Steps : /\ b <= i
                        /\ plan.kind[i] # "view" => b = i
                        /\ IsSliceOf(buffers[i], b)

\* It is there as long as it has readers, and to the end if it is an output.
KeptInv ==
  \A i \in Steps :
    i < pc /\ (i \in outputs \/ LastUse(i) = i \/ LastUse(i) >= pc) => buffers[i] # None

\* The range of a step holds what the step wrote until it is given away.
MemoryInv ==
  \A b \in Allocated :
    b < pc /\ ~GivenAway(b, pc) => \A x \in Bytes(b) : mem[x] = <<run, b>>

ResultsInv ==
  \A r \in results :
    \/ r.own /\ (r.content = {r.holds} \/ UsedLate(r, Len(plan.kind) + 1))
    \/ ~r.own /\ WholeBuffer(r)

CInv == PInv /\ ExecTyped /\ SlicesInv /\ KeptInv /\ MemoryInv /\ ResultsInv

\* What the facts of the plan and of the finished scan come to.
LEMMA CompiledFacts ==
  ASSUME CInv
  PROVE  /\ Len(plan.kind) \in Nat /\ Steps = 1..Len(plan.kind)
         /\ pc \in Nat
         /\ \A i \in Steps : i \in Nat /\ StepSize(i) \in Nat /\ LastUse(i) \in Steps
         /\ \A i \in Steps : \A k \in Readers(i) : k <= LastUse(i)
         /\ Allocated \subseteq Steps
         /\ highWaterMark \in Nat
<1>1. plan \in Plans /\ highWaterMark \in Nat
  BY DEF CInv, PInv, PlannerTypeOK
<1>2. /\ Len(plan.kind) \in Nat /\ Steps = 1..Len(plan.kind)
      /\ \A i \in Steps : StepSize(i) \in Nat
  BY <1>1, PlanShape
<1>3. \A i \in Steps : LastUse(i) \in Steps /\ \A k \in Readers(i) : k <= LastUse(i)
  BY <1>1, LastUseIsLast
<1>4. pc \in Nat
  BY <1>2 DEF CInv, ExecTyped
<1> QED BY <1>1, <1>2, <1>3, <1>4 DEF Allocated

\* The range of a step with one is not empty and lies in the planned buffer.
LEMMA RangeInBuffer ==
  ASSUME CInv, NEW b \in Allocated
  PROVE  /\ stepOffsets[b] \in Nat /\ StepSize(b) \in Nat /\ StepSize(b) > 0
         /\ stepOffsets[b] \in Bytes(b)
         /\ Bytes(b) \subseteq 0..(highWaterMark - 1)
<1>1. b \in Steps /\ stepOffsets[b] # None
  BY DEF Allocated
<1>2. stepOffsets[b] \in Nat
  BY <1>1 DEF CInv, PInv, PlannerTypeOK
<1>3. StepSize(b) \in Nat /\ StepSize(b) > 0
  BY <1>1, CompiledFacts DEF CInv, PInv, ScannedAllocated
<1>4. stepOffsets[b] + StepSize(b) <= highWaterMark /\ highWaterMark \in Nat
  BY CompiledFacts DEF CInv, PInv, InBounds
<1> QED BY <1>2, <1>3, <1>4 DEF Bytes

\* Once compiled, exactly the steps with an output of known size have a range.
LEMMA PlannedSteps ==
  ASSUME CInv, Compiled, NEW i \in Steps
  PROVE  i \in Allocated <=> StepSize(i) > 0
<1>1. step \in 1..(Len(plan.kind) + 1) /\ step > Len(plan.kind)
  BY DEF Compiled, CInv, PInv, PlannerTypeOK
<1>2. i < step
  BY <1>1, CompiledFacts
<1> QED BY <1>2 DEF CInv, PInv, ScannedAllocated

\* What a slice holds: the output of its step, unless the range was given away.
LEMMA SliceContent ==
  ASSUME CInv, NEW b \in Steps, b < pc, NEW slice, IsSliceOf(slice, b)
  PROVE  /\ slice.holds = <<run, b>>
         /\ slice.own \in BOOLEAN
         /\ Intact(slice) \/ (~slice.own /\ UsedLate(slice, pc))
<1>1. CASE slice = OwnSlice(b)
  BY <1>1 DEF OwnSlice, OwnBuffer, Intact, Content
<1>2. CASE b \in Allocated /\ slice = RangeSlice(b)
  <2>1. ~slice.own /\ slice.step = b /\ slice.holds = <<run, b>> /\ slice.own \in BOOLEAN
    BY <1>2 DEF RangeSlice, PlannedSlice
  <2>2. ASSUME ~GivenAway(b, pc) PROVE Intact(slice)
    <3>1. \A x \in Bytes(b) : mem[x] = <<run, b>>
      BY <1>2, <2>2 DEF CInv, MemoryInv
    <3>2. \E x : x \in Bytes(b)
      BY <1>2, RangeInBuffer
    <3>3. {mem[x] : x \in Bytes(b)} = {<<run, b>>}
      BY <3>1, <3>2
    <3> QED BY <2>1, <3>3 DEF Intact, Content
  <2>3. slice.holds[2] = b
    BY <2>1
  <2> QED BY <2>1, <2>2, <2>3 DEF UsedLate
<1> QED BY <1>1, <1>2 DEF IsSliceOf

LEMMA SliceThere ==
  ASSUME CInv, NEW b \in Steps, NEW slice, IsSliceOf(slice, b)
  PROVE  slice # None
<1>1. run \in Nat /\ b \in Nat
  BY CompiledFacts DEF CInv, ExecTyped
<1>2. slice \in [own : BOOLEAN, step : Nat, content : SUBSET (Nat \X Nat), holds : Nat \X Nat]
  <2>1. CASE slice = OwnSlice(b)
    BY <1>1, <2>1 DEF OwnSlice, OwnBuffer
  <2>2. CASE slice = RangeSlice(b)
    BY <1>1, <2>2 DEF RangeSlice, PlannedSlice
  <2> QED BY <2>1, <2>2 DEF IsSliceOf
<1> QED BY <1>2, NoSliceAssumption

-----------------------------------------------------------------------------
\* The operators over the plan and its layout, in a step that keeps these.
LEMMA LayoutFixed ==
  ASSUME UNCHANGED planner
  PROVE  /\ UNCHANGED <<plan, step, stepOffsets, freeSlots, highWaterMark>>
         /\ Steps' = Steps /\ Allocated' = Allocated /\ Compiled' = Compiled
         /\ \A i : StepSize(i)' = StepSize(i)
         /\ \A i : LastUse(i)' = LastUse(i)
         /\ \A i : Bytes(i)' = Bytes(i)
         /\ \A r : WholeBuffer(r)' = WholeBuffer(r)
<1>1. UNCHANGED <<plan, step, stepOffsets, freeSlots, highWaterMark>>
  BY DEF planner
<1>2. /\ Steps' = Steps /\ \A i : StepSize(i)' = StepSize(i)
      /\ (\A i : Readers(i)' = Readers(i)) /\ (\A i : LastUse(i)' = LastUse(i))
  BY <1>1, PlanFixed
<1>3. Allocated' = Allocated /\ Compiled' = Compiled
  BY <1>1, <1>2 DEF Allocated, Compiled
<1>4. \A i : Bytes(i)' = Bytes(i)
  BY <1>1, <1>2 DEF Bytes
<1>5. \A r : WholeBuffer(r)' = WholeBuffer(r)
  BY <1>1, <1>2 DEF WholeBuffer
<1> QED BY <1>1, <1>2, <1>3, <1>4, <1>5

\* The results stay right as long as the layout stays, and no new ones come.
LEMMA ResultsFixed ==
  ASSUME CInv, UNCHANGED planner, UNCHANGED results
  PROVE  PInv' /\ ResultsInv'
<1>1. PInv'
  BY ScanPInv DEF CInv
<1>2. UNCHANGED plan /\ \A i : StepSize(i)' = StepSize(i) /\ LastUse(i)' = LastUse(i)
  BY LayoutFixed
<1>3. \A r : UsedLate(r, Len(plan.kind) + 1)' = UsedLate(r, Len(plan.kind) + 1)
  BY <1>2 DEF UsedLate, GivenAway
<1>4. \A r : WholeBuffer(r)' = WholeBuffer(r)
  BY LayoutFixed
<1> QED BY <1>1, <1>3, <1>4 DEF CInv, ResultsInv

\* Between executions there are no step buffers, and nothing to say of memory.
LEMMA IdleCInv ==
  ASSUME CInv, PInv', ResultsInv', UNCHANGED <<planner, outputs>>,
         pc' \in {0, 1}, buffers' = [i \in Steps |-> None],
         run' \in Nat, pc' > 0 => run' > 0, run' = 0 => results' = {},
         run' > 0 => Compiled /\ DOMAIN mem' = 0..(highWaterMark - 1)
  PROVE  CInv'
<1>1. /\ UNCHANGED <<plan, highWaterMark, outputs>> /\ Steps' = Steps
      /\ Compiled' = Compiled /\ Allocated' = Allocated
  BY LayoutFixed
<1>2. Len(plan.kind) \in Nat /\ Steps = 1..Len(plan.kind)
  BY CompiledFacts
<1>3. \A i \in Steps : ~(i < pc')
  BY <1>2
<1>4. ExecTyped'
  BY <1>1, <1>2 DEF CInv, ExecTyped
<1>5. SlicesInv'
  BY <1>1 DEF SlicesInv
<1>6. KeptInv'
  BY <1>1, <1>3 DEF KeptInv
<1>7. MemoryInv'
  BY <1>1, <1>3 DEF MemoryInv, Allocated
<1> QED BY <1>4, <1>5, <1>6, <1>7 DEF CInv

\* A step done leaves a slice of itself, or of what it views, behind, and
\* keeps the ranges that are still to be read.
LEMMA StepDoneCInv ==
  ASSUME CInv, pc \in Steps, NEW slice, StepDone(slice),
         NEW b \in Steps, b <= pc, plan.kind[pc] # "view" => b = pc,
         IsSliceOf(slice, b),
         DOMAIN mem' = DOMAIN mem,
         \A c \in Allocated : c < pc /\ ~GivenAway(c, pc + 1) =>
           \A x \in Bytes(c) : mem'[x] = mem[x],
         pc \in Allocated => \A x \in Bytes(pc) : mem'[x] = <<run, pc>>
  PROVE  CInv'
<1>1. /\ buffers' = [i \in Steps |->
                      IF i \in EagerRelease(pc) THEN None
                      ELSE IF i = pc THEN slice ELSE buffers[i]]
      /\ pc' = pc + 1
      /\ UNCHANGED <<planner, outputs, run, results>>
  BY DEF StepDone
<1>2. /\ UNCHANGED <<plan, highWaterMark>> /\ Steps' = Steps
      /\ Allocated' = Allocated /\ Compiled' = Compiled
      /\ \A i : LastUse(i)' = LastUse(i)
      /\ \A i : Bytes(i)' = Bytes(i)
      /\ \A i : StepSize(i)' = StepSize(i)
  BY <1>1, LayoutFixed
<1>3. /\ Len(plan.kind) \in Nat /\ Steps = 1..Len(plan.kind) /\ pc \in Nat
      /\ Allocated \subseteq Steps
      /\ \A i \in Steps : i \in Nat /\ LastUse(i) \in Steps
  BY CompiledFacts
<1>4. PInv' /\ ResultsInv'
  BY <1>1, ResultsFixed
<1>5. ExecTyped'
  <2>1. run > 0 /\ run \in Nat /\ outputs \subseteq Steps
    BY <1>3 DEF CInv, ExecTyped
  <2>2. Compiled /\ DOMAIN mem' = 0..(highWaterMark - 1)
    BY <2>1 DEF CInv, ExecTyped
  <2>3. pc' \in 0..(Len(plan.kind) + 1) /\ ~(run = 0)
    BY <1>1, <1>3, <2>1
  <2> QED BY <1>1, <1>2, <2>1, <2>2, <2>3 DEF ExecTyped
<1>6. \A s, c : IsSliceOf(s, c)' = IsSliceOf(s, c)
  BY <1>1, <1>2 DEF IsSliceOf, OwnSlice, RangeSlice
<1>7. SlicesInv'
  <2> SUFFICES ASSUME NEW i \in Steps, buffers'[i] # None
               PROVE  /\ i < pc + 1
                      /\ \E c \in Steps : /\ c <= i
                                          /\ plan.kind[i] # "view" => c = i
                                          /\ IsSliceOf(buffers'[i], c)
    BY <1>1, <1>2, <1>6 DEF SlicesInv
  <2>1. CASE i = pc
    <3>1. buffers'[i] = slice
      BY <1>1, <2>1
    <3> QED BY <1>3, <2>1, <3>1
  <2>2. CASE i # pc
    <3>1. buffers'[i] = buffers[i]
      BY <1>1, <2>2
    <3> QED BY <1>3, <3>1 DEF CInv, SlicesInv
  <2> QED BY <2>1, <2>2
<1>8. KeptInv'
  <2> SUFFICES ASSUME NEW i \in Steps, i < pc + 1,
                      i \in outputs \/ LastUse(i) = i \/ LastUse(i) >= pc + 1
               PROVE  buffers'[i] # None
    BY <1>1, <1>2 DEF KeptInv
  <2>1. i \notin EagerRelease(pc)
    BY <1>3 DEF EagerRelease
  <2>2. CASE i = pc
    BY <1>1, <2>1, <2>2, SliceThere
  <2>3. CASE i # pc
    <3>1. buffers'[i] = buffers[i]
      BY <1>1, <2>1, <2>3
    <3>2. i < pc /\ (i \in outputs \/ LastUse(i) = i \/ LastUse(i) >= pc)
      BY <1>3, <2>3
    <3> QED BY <3>1, <3>2 DEF CInv, KeptInv
  <2> QED BY <2>2, <2>3
<1>9. MemoryInv'
  <2> SUFFICES ASSUME NEW c \in Allocated, c < pc + 1, ~GivenAway(c, pc + 1),
                      NEW x \in Bytes(c)
               PROVE  mem'[x] = <<run, c>>
    BY <1>1, <1>2 DEF MemoryInv, GivenAway
  <2>1. CASE c = pc
    BY <2>1
  <2>2. CASE c # pc
    <3>1. c < pc /\ LastUse(c) \in Nat
      BY <1>3, <2>2
    <3>2. ~GivenAway(c, pc)
      BY <1>3, <3>1 DEF GivenAway
    <3>3. mem[x] = <<run, c>>
      BY <3>1, <3>2 DEF CInv, MemoryInv
    <3> QED BY <3>1, <3>3
  <2> QED BY <2>1, <2>2
<1> QED BY <1>4, <1>5, <1>7, <1>8, <1>9 DEF CInv

\* A step with a buffer of its own, whose output size was not planned.
LEMMA OwnStepCInv ==
  ASSUME CInv, pc \in Steps, StepDone(OwnSlice(pc)), UNCHANGED mem,
         pc \notin Allocated, plan.kind[pc] # "view"
  PROVE  CInv'
<1>1. IsSliceOf(OwnSlice(pc), pc) /\ pc <= pc
  BY CompiledFacts DEF IsSliceOf
<1> QED BY <1>1, StepDoneCInv

LEMMA TakeViewCInv ==
  ASSUME CInv, pc \in Steps, TakeView
  PROVE  CInv'
<1>1. PICK i \in plan.inputs[pc] : StepDone(buffers[i])
  BY DEF TakeView
<1>2. plan.kind[pc] = "view" /\ UNCHANGED mem /\ buffers[i] # None
  BY DEF TakeView, Present
<1>3. i \in Steps /\ i < pc /\ pc \in Nat /\ i \in Nat
  <2>1. plan \in Plans /\ plan.inputs[pc] \subseteq 1..(pc - 1)
    BY PlansAssumption DEF CInv, PInv, PlannerTypeOK, Steps
  <2> QED BY <2>1, CompiledFacts
<1>4. PICK b \in Steps : b <= i /\ IsSliceOf(buffers[i], b)
  BY <1>2, <1>3 DEF CInv, SlicesInv
<1>5. b <= pc
  BY <1>3, <1>4, CompiledFacts
<1>6. pc \notin Allocated
  <2>1. StepSize(pc) = 0
    BY <1>2 DEF StepSize, Planned
  <2> QED BY <2>1 DEF CInv, PInv, ScannedAllocated
<1> QED BY <1>1, <1>2, <1>4, <1>5, <1>6, StepDoneCInv

\* A dispatch writes its range, which is apart from those not given away.
LEMMA WriteCInv ==
  ASSUME CInv, pc \in Steps, pc \in Allocated, plan.kind[pc] # "view",
         mem' = Written(pc), StepDone(PlannedSlice(pc, <<run, pc>>))
  PROVE  CInv'
<1>1. Bytes(pc) \subseteq DOMAIN mem
  <2>1. run > 0
    BY CompiledFacts DEF CInv, ExecTyped
  <2> QED BY <2>1, RangeInBuffer DEF CInv, ExecTyped
<1>2. mem' = [x \in DOMAIN mem |-> IF x \in Bytes(pc) THEN <<run, pc>> ELSE mem[x]]
  BY DEF Written
<1>3. DOMAIN mem' = DOMAIN mem /\ \A x \in Bytes(pc) : mem'[x] = <<run, pc>>
  BY <1>1, <1>2
<1>4. ASSUME NEW c \in Allocated, c < pc, ~GivenAway(c, pc + 1), NEW x \in Bytes(c)
      PROVE  mem'[x] = mem[x]
  <2>1. c \in Steps /\ LastUse(c) \in Nat /\ pc \in Nat
    BY CompiledFacts
  <2>2. ~GivenAway(c, pc)
    BY <1>4, <2>1 DEF GivenAway
  <2>3. x \notin Bytes(pc)
    BY <1>4, <2>2 DEF CInv, PInv, ApartTillGiven
  <2>4. x \in DOMAIN mem
    <3>1. run > 0
      BY CompiledFacts DEF CInv, ExecTyped
    <3> QED BY <3>1, RangeInBuffer DEF CInv, ExecTyped
  <2> QED BY <1>2, <2>3, <2>4
<1>5. IsSliceOf(PlannedSlice(pc, <<run, pc>>), pc) /\ pc <= pc
  BY CompiledFacts DEF IsSliceOf, RangeSlice
<1> QED BY <1>3, <1>4, <1>5, StepDoneCInv

LEMMA RunStepCInv ==
  ASSUME CInv, RunStep
  PROVE  CInv'
<1>1. pc \in Steps /\ pc \in Nat /\ run \in Nat
  BY CompiledFacts DEF RunStep, CInv, ExecTyped
<1>2. CASE ForwardInput
  <2>1. pc \notin Allocated /\ plan.kind[pc] # "view"
    BY <1>1, <1>2 DEF ForwardInput, StepSize, Planned, CInv, PInv, ScannedAllocated
  <2> QED BY <1>1, <1>2, <2>1, OwnStepCInv DEF ForwardInput, OwnSlice
<1>3. CASE RunRuntimeOp
  <2>1. pc \notin Allocated /\ plan.kind[pc] # "view"
    BY <1>1, <1>3 DEF RunRuntimeOp, StepSize, Planned, CInv, PInv, ScannedAllocated
  <2> QED BY <1>1, <1>3, <2>1, OwnStepCInv DEF RunRuntimeOp, OwnSlice
<1>4. CASE TakeView
  BY <1>1, <1>4, TakeViewCInv
<1>5. CASE RunDispatch /\ stepOffsets[pc] = None
  <2>1. pc \notin Allocated /\ plan.kind[pc] # "view"
    BY <1>1, <1>5 DEF RunDispatch, Allocated
  <2> QED BY <1>1, <1>5, <2>1, OwnStepCInv DEF RunDispatch, OwnSlice
<1>6. CASE RunDispatch /\ stepOffsets[pc] # None
  <2>1. pc \in Allocated /\ plan.kind[pc] # "view"
    BY <1>1, <1>6 DEF RunDispatch, Allocated
  <2> QED BY <1>1, <1>6, <2>1, WriteCInv DEF RunDispatch
<1>7. CASE StepFails
  <2>1. /\ pc' = 0 /\ buffers' = [i \in Steps |-> None]
        /\ UNCHANGED <<planner, outputs, run, mem, results>>
    BY <1>7 DEF StepFails
  <2>2. PInv' /\ ResultsInv'
    BY <2>1, ResultsFixed
  <2> QED BY <2>1, <2>2, IdleCInv DEF CInv, ExecTyped
<1> QED BY <1>2, <1>3, <1>4, <1>5, <1>6, <1>7 DEF RunStep

\* The outputs are there; what is not a whole buffer is copied while its bytes
\* are still right, and a copy no execution touches again.
LEMMA ReturnOutputsCInv ==
  ASSUME CInv, ReturnOutputs
  PROVE  CInv'
<1>1. /\ pc > Len(plan.kind)
      /\ results' = results \union {NormalizeOutput(buffers[o]) : o \in outputs}
      /\ pc' = 0 /\ buffers' = [i \in Steps |-> None]
      /\ UNCHANGED <<planner, outputs, run, mem>>
  BY DEF ReturnOutputs
<1>2. /\ Len(plan.kind) \in Nat /\ Steps = 1..Len(plan.kind)
      /\ pc = Len(plan.kind) + 1 /\ run > 0
  <2>1. Len(plan.kind) \in Nat /\ Steps = 1..Len(plan.kind) /\ pc \in Nat
    BY CompiledFacts
  <2>2. pc \in 0..(Len(plan.kind) + 1) /\ (pc > 0 => run > 0)
    BY DEF CInv, ExecTyped
  <2> QED BY <1>1, <2>1, <2>2
<1>3. ASSUME NEW o \in outputs
      PROVE  LET r == NormalizeOutput(buffers[o])
             IN  \/ r.own /\ (r.content = {r.holds} \/ UsedLate(r, Len(plan.kind) + 1))
                 \/ ~r.own /\ WholeBuffer(r)
  <2>1. o \in Steps /\ o < pc
    BY <1>2 DEF CInv, ExecTyped
  <2>2. buffers[o] # None
    BY <2>1 DEF CInv, KeptInv
  <2>3. PICK b \in Steps : b <= o /\ IsSliceOf(buffers[o], b)
    BY <2>1, <2>2 DEF CInv, SlicesInv
  <2>4. b < pc
    BY <1>2, <2>1, <2>3
  <2> DEFINE s == buffers[o]
  <2>5. /\ s.own \in BOOLEAN /\ s.holds = <<run, b>>
        /\ Intact(s) \/ (~s.own /\ UsedLate(s, pc))
    BY <2>3, <2>4, SliceContent
  <2> HIDE DEF s
  <2>6. CASE WholeBuffer(s)
    <3>1. NormalizeOutput(s) = s
      BY <2>6 DEF NormalizeOutput
    <3>2. s.own => s.content = {s.holds}
      BY <2>5 DEF Intact, Content
    <3> QED BY <2>5, <2>6, <3>1, <3>2 DEF s
  <2>7. CASE ~WholeBuffer(s)
    <3> DEFINE r == OwnBuffer(s.holds, Content(s))
    <3>1. NormalizeOutput(s) = r
      BY <2>7 DEF NormalizeOutput
    <3>2. r.own /\ r.content = Content(s) /\ r.holds = s.holds
      BY DEF OwnBuffer
    <3>3. r.content = {r.holds} \/ UsedLate(r, Len(plan.kind) + 1)
      BY <1>2, <2>5, <3>2 DEF Intact, UsedLate
    <3> HIDE DEF r
    <3> QED BY <3>1, <3>2, <3>3 DEF s
  <2> QED BY <2>6, <2>7
<1>4. UNCHANGED plan /\ \A i : StepSize(i)' = StepSize(i) /\ LastUse(i)' = LastUse(i)
  BY <1>1, LayoutFixed
<1>5. \A r : UsedLate(r, Len(plan.kind) + 1)' = UsedLate(r, Len(plan.kind) + 1)
  BY <1>4 DEF UsedLate, GivenAway
<1>6. \A r : WholeBuffer(r)' = WholeBuffer(r)
  BY <1>1, LayoutFixed
<1>7. ResultsInv'
  <2> SUFFICES ASSUME NEW r \in results'
               PROVE  \/ r.own /\ (r.content = {r.holds} \/ UsedLate(r, Len(plan.kind) + 1))
                      \/ ~r.own /\ WholeBuffer(r)
    BY <1>5, <1>6 DEF ResultsInv
  <2>1. CASE r \in results
    BY <2>1 DEF CInv, ResultsInv
  <2>2. CASE r \notin results
    <3>1. PICK o \in outputs : r = NormalizeOutput(buffers[o])
      BY <1>1, <2>2
    <3> QED BY <1>3, <3>1
  <2> QED BY <2>1, <2>2
<1>8. PInv'
  BY <1>1, ScanPInv DEF CInv
<1> QED BY <1>1, <1>2, <1>7, <1>8, IdleCInv DEF CInv, ExecTyped

LEMMA StartRunCInv ==
  ASSUME CInv, StartRun
  PROVE  CInv'
<1>1. /\ Compiled /\ pc' = 1 /\ run' = run + 1
      /\ buffers' = [i \in Steps |-> None]
      /\ mem' = IF run = 0 THEN [b \in 0..(highWaterMark - 1) |-> None] ELSE mem
      /\ UNCHANGED <<planner, outputs, results>>
  BY DEF StartRun
<1>2. run \in Nat /\ run' \in Nat /\ run' > 0
  BY <1>1 DEF CInv, ExecTyped
<1>3. DOMAIN mem' = 0..(highWaterMark - 1)
  BY <1>1, <1>2 DEF CInv, ExecTyped
<1>4. PInv' /\ ResultsInv'
  BY <1>1, ResultsFixed
<1> QED BY <1>1, <1>2, <1>3, <1>4, IdleCInv

\* The plan is laid out before the first execution.
LEMMA BuildPlanCInv ==
  ASSUME CInv, BuildPlan
  PROVE  CInv'
<1>1. Scan /\ UNCHANGED <<outputs, run, pc, buffers, mem, results>>
  BY DEF BuildPlan, exec
<1>2. UNCHANGED plan /\ step \in Steps
  BY <1>1 DEF Scan
<1>3. Len(plan.kind) \in Nat /\ Steps = 1..Len(plan.kind) /\ Steps' = Steps
  BY <1>2, CompiledFacts, PlanFixed
<1>4. run = 0 /\ pc = 0 /\ results = {}
  <2>1. ~Compiled
    BY <1>2, <1>3 DEF Compiled
  <2> QED BY <2>1, <1>3 DEF CInv, ExecTyped
<1>5. PInv'
  BY <1>1, ScanPInv DEF CInv
<1>6. \A i \in Steps : ~(i < 0)
  BY <1>3
<1>7. \A i \in Steps : buffers[i] = None
  BY <1>4, <1>6 DEF CInv, SlicesInv
<1>8. ExecTyped'
  <2>1. outputs' \subseteq Steps' /\ run' = 0 /\ pc' = 0 /\ results' = {}
    BY <1>1, <1>3, <1>4 DEF CInv, ExecTyped
  <2> QED BY <1>2, <1>3, <2>1 DEF ExecTyped
<1>9. SlicesInv' /\ KeptInv'
  BY <1>1, <1>2, <1>3, <1>4, <1>6, <1>7 DEF SlicesInv, KeptInv
<1>10. MemoryInv'
  BY <1>1, <1>3, <1>4, <1>6 DEF MemoryInv, Allocated
<1>11. ResultsInv'
  BY <1>1, <1>4 DEF ResultsInv
<1> QED BY <1>5, <1>8, <1>9, <1>10, <1>11 DEF CInv

LEMMA InitCInv == Init => CInv
<1> SUFFICES ASSUME Init PROVE CInv
  OBVIOUS
<1>1. PInv
  BY InitPInv DEF Init
<1>2. plan \in Plans /\ Len(plan.kind) \in Nat /\ Steps = 1..Len(plan.kind)
  BY PlanShape DEF Init, PlannerInit
<1>3. outputs \subseteq Steps
  BY <1>2, OutputsAssumption DEF Init, Steps
<1>4. ExecTyped
  <2>1. run = 0 /\ pc = 0 /\ results = {}
    BY DEF Init
  <2> QED BY <1>2, <1>3, <2>1 DEF ExecTyped
<1>5. \A i \in Steps : ~(i < pc)
  BY <1>2 DEF Init
<1>6. SlicesInv /\ KeptInv /\ ResultsInv
  BY <1>5 DEF Init, SlicesInv, KeptInv, ResultsInv
<1>7. MemoryInv
  BY <1>5 DEF MemoryInv, Allocated
<1> QED BY <1>1, <1>4, <1>6, <1>7 DEF CInv

LEMMA StepCInv == CInv /\ [Next]_vars => CInv'
<1> SUFFICES ASSUME CInv, [Next]_vars PROVE CInv'
  OBVIOUS
<1>1. CASE BuildPlan
  BY <1>1, BuildPlanCInv
<1>2. CASE StartRun
  BY <1>2, StartRunCInv
<1>3. CASE RunStep
  BY <1>3, RunStepCInv
<1>4. CASE ReturnOutputs
  BY <1>4, ReturnOutputsCInv
<1>5. CASE UNCHANGED vars
  <2>1. UNCHANGED planner /\ UNCHANGED <<outputs, run, pc, buffers, mem, results>>
    BY <1>5 DEF vars, exec
  <2>2. PInv' /\ ResultsInv'
    BY <2>1, ResultsFixed
  <2>3. /\ UNCHANGED <<plan, step, stepOffsets, freeSlots, highWaterMark>>
        /\ Steps' = Steps /\ Allocated' = Allocated /\ Compiled' = Compiled
        /\ \A i : StepSize(i)' = StepSize(i)
        /\ \A i : LastUse(i)' = LastUse(i)
        /\ \A i : Bytes(i)' = Bytes(i)
    BY <2>1, LayoutFixed
  <2>4. ExecTyped'
    BY <2>1, <2>3 DEF CInv, ExecTyped
  <2>5. \A s, c : IsSliceOf(s, c)' = IsSliceOf(s, c)
    BY <2>1, <2>3 DEF IsSliceOf, OwnSlice, RangeSlice
  <2>6. SlicesInv' /\ KeptInv'
    BY <2>1, <2>3, <2>5 DEF CInv, SlicesInv, KeptInv
  <2>7. MemoryInv'
    BY <2>1, <2>3 DEF CInv, MemoryInv, GivenAway
  <2> QED BY <2>2, <2>4, <2>6, <2>7 DEF CInv
<1> QED BY <1>1, <1>2, <1>3, <1>4, <1>5 DEF Next

LEMMA ExecutionInvariant == Spec => []CInv
<1> QED BY InitCInv, StepCInv, PTL DEF Spec

\* The step loop, for any plan and any number of executions that may fail
\* anywhere: a step finds its inputs, of this execution and intact, except for
\* a view that is read after the last direct reader of what it views.
THEOREM InputsAreRight == Spec => []ReadsOwnData
<1>1. CInv => ReadsOwnData
  <2> SUFFICES ASSUME CInv, pc \in Steps, NEW i \in plan.inputs[pc]
               PROVE  /\ buffers[i] # None
                      /\ Holds(i)
                      /\ Intact(buffers[i]) \/ UsedLate(buffers[i], pc)
    BY DEF ReadsOwnData
  <2>1. i \in Steps /\ i < pc /\ pc \in Nat /\ pc <= LastUse(i) /\ LastUse(i) \in Nat
    <3>1. plan \in Plans /\ plan.inputs[pc] \subseteq 1..(pc - 1)
      BY PlansAssumption DEF CInv, PInv, PlannerTypeOK, Steps
    <3>2. i \in Steps /\ i < pc /\ pc \in Nat
      BY <3>1, CompiledFacts
    <3>3. pc \in Readers(i)
      BY DEF Readers
    <3> QED BY <3>2, <3>3, CompiledFacts
  <2>2. buffers[i] # None
    BY <2>1 DEF CInv, KeptInv
  <2>3. PICK b \in Steps : /\ b <= i
                           /\ plan.kind[i] # "view" => b = i
                           /\ IsSliceOf(buffers[i], b)
    BY <2>1, <2>2 DEF CInv, SlicesInv
  <2>4. b < pc
    BY <2>1, <2>3, CompiledFacts
  <2>5. /\ buffers[i].holds = <<run, b>>
        /\ Intact(buffers[i]) \/ UsedLate(buffers[i], pc)
    BY <2>3, <2>4, SliceContent
  <2>6. Holds(i)
    BY <2>3, <2>5 DEF Holds
  <2> QED BY <2>2, <2>5, <2>6
<1> QED BY <1>1, ExecutionInvariant, PTL

\* execute_all_outputs: what an execution returned stays what its steps
\* produced, whatever is executed later, except for an output that is read by
\* a later step and one that is the whole planned buffer.
THEOREM ResultsStayRight == Spec => []ResultsIntact
<1>1. CInv => ResultsIntact
  BY DEF CInv, ResultsInv, ResultsIntact, Intact, Content, Excused
<1> QED BY <1>1, ExecutionInvariant, PTL
=============================================================================
