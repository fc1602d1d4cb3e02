--------------------------- MODULE BufferPlanner ---------------------------
(***************************************************************************)
(* The static buffer planner of compiled models (buffer_planner.rs): a      *)
(* linear scan over the steps of a plan that gives each step with an output *)
(* of its own a byte range of one shared buffer, and hands the range out    *)
(* again once the last step that reads it has been scanned.  One action is  *)
(* one iteration of the loop of linear_scan_alloc.                          *)
(*                                                                         *)
(* A plan is a record of sequences over its steps: kind, bytes (the size of *)
(* the output, where it is known beforehand) and inputs (the steps read).   *)
(***************************************************************************)
EXTENDS Naturals, Sequences, FiniteSets

CONSTANT Plans     \* the plans considered

\* Kinds whose output size the planner knows; a dispatch without inputs is a
\* constant.
Planned == {"dispatch"}
\* Kinds without a planned output: a model input, a view of another step's
\* buffer, an operation whose output shape depends on its data.
Unplanned == {"input", "view", "runtime"}

ASSUME PlansAssumption ==
  \A p \in Plans :
    /\ p.kind \in Seq(Planned \union Unplanned)
    /\ p.bytes \in [DOMAIN p.kind -> Nat]
    /\ p.inputs \in [DOMAIN p.kind -> SUBSET Nat]
    /\ \A i \in DOMAIN p.kind : p.inputs[i] \subseteq 1..(i - 1)

VARIABLES plan,           \* the plan being laid out
          step,           \* the next step of the scan
          stepOffsets,    \* step -> offset in the shared buffer, or None
          freeSlots,      \* byte ranges that may be handed out again
          highWaterMark   \* bytes of the shared buffer

planner == <<plan, step, stepOffsets, freeSlots, highWaterMark>>

CONSTANT None

ASSUME NoneAssumption == None \notin Nat

Steps == DOMAIN plan.kind

StepSize(i) == IF plan.kind[i] \in Planned THEN plan.bytes[i] ELSE 0

\* compute_last_use: the last step that reads the output of step i, or i.
Readers(i) == {j \in Steps : i \in plan.inputs[j]}

LastUse(i) ==
  CHOOSE m \in Readers(i) \union {i} : \A n \in Readers(i) \union {i} : n <= m

\* release_at: the steps whose range is given back after step s.
ReleaseAtFirstReader(s) == {i \in Steps : i < s /\ s \in Readers(i) /\ StepSize(i) > 0}

ReleaseAt(s) == {i \in Steps : i < s /\ LastUse(i) = s /\ StepSize(i) > 0}

Slot(at, n) == [offset |-> at, size |-> n]

BestFits(n) ==
  {s \in freeSlots : /\ s.size >= n
                     /\ \A t \in freeSlots : t.size >= n => s.size <= t.size}

RemainderNotAdvanced(s, n) ==
  IF s.size > n THEN {Slot(s.offset, s.size - n)} ELSE {}

Remainder(s, n) ==
  IF s.size > n THEN {Slot(s.offset + n, s.size - n)} ELSE {}
-----------------------------------------------------------------------------
PlannerInit ==
  /\ plan \in Plans
  /\ step = 1
  /\ stepOffsets = [i \in Steps |-> None]
  /\ freeSlots = {}
  /\ highWaterMark = 0

\* A step without a planned output is passed over, with the releases that
\* fall on it.
Skip ==
  /\ StepSize(step) = 0
  /\ UNCHANGED <<stepOffsets, freeSlots, highWaterMark>>

Released == {Slot(stepOffsets[i], StepSize(i)) : i \in ReleaseAt(step)}

\* The smallest slot that is large enough; the rest of it stays free.
ReuseSlot(n) ==
  \E s \in BestFits(n) :
    /\ stepOffsets' = [stepOffsets EXCEPT ![step] = s.offset]
    /\ freeSlots' = (freeSlots \ {s}) \union Remainder(s, n) \union Released
    /\ UNCHANGED highWaterMark

\* No slot is large enough: take new bytes at the end.
Extend(n) ==
  /\ \A s \in freeSlots : s.size < n
  /\ stepOffsets' = [stepOffsets EXCEPT ![step] = highWaterMark]
  /\ freeSlots' = freeSlots \union Released
  /\ highWaterMark' = highWaterMark + n

AllocOrReuse ==
  /\ StepSize(step) > 0
  /\ ReuseSlot(StepSize(step)) \/ Extend(StepSize(step))

Scan ==
  /\ step \in Steps
  /\ Skip \/ AllocOrReuse
  /\ step' = step + 1
  /\ UNCHANGED plan

PlannerSpec == PlannerInit /\ [][Scan]_planner
-----------------------------------------------------------------------------
Allocated == {i \in Steps : stepOffsets[i] # None}

Bytes(i) == stepOffsets[i] .. (stepOffsets[i] + StepSize(i) - 1)

\* Two steps never share bytes of the plan while the output of the earlier
\* one is still to be read by a step that runs after the later one, or is
\* read by the later one itself.
NoLiveOverlap ==
  \A i, j \in Allocated :
    i < j /\ (\E k \in Readers(i) : k >= j) => Bytes(i) \cap Bytes(j) = {}
=============================================================================
