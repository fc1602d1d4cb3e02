--------------------------- MODULE ArenaEstimate ---------------------------
(***************************************************************************)
(* Pre-sizing of the default arena (ensure_default_arena_capacity) with     *)
(* estimate_arena_peak_bytes (arena.rs), against the allocator it           *)
(* simulates: whenever the arena is empty, before or after any other use of *)
(* it, it can be pre-sized for a plan, whose allocations then follow in     *)
(* order.                                                                   *)
(***************************************************************************)
EXTENDS ActivationArena

CONSTANT Plans     \* sequences of step byte sizes, zero-sized steps included

ASSUME PlansAssumption == Plans \subseteq Seq(Nat)

VARIABLES plan, step

planVars == <<vars, plan, step>>

\* The bump offset after the first i steps of p; zero-sized steps are skipped.
SimulatedOffsetMutant(p) ==
  LET after[i \in 0..Len(p)] ==
        IF i = 0 THEN 0
        ELSE IF p[i] = 0 THEN after[i - 1]
        ELSE after[i - 1] + p[i]
  IN  after

SimulatedOffset(p) ==
  LET after[i \in 0..Len(p)] ==
        IF i = 0 THEN 0
        ELSE IF p[i] = 0 THEN after[i - 1]
        ELSE AlignUp(after[i - 1]) + p[i]
  IN  after

\* The bump pointer of the simulation never moves back, so its high-water
\* mark is its last value.
EstimatePeak(p) == SimulatedOffset(p)[Len(p)]

PlannedInit == Init /\ plan = <<>> /\ step = 0

\* A thread without a default arena: it is created large enough, with
\* auto-grow on.
NoArenaYet ==
  ~autoGrow /\ slab = 1 /\ generation = 0 /\ nextId = 0 /\ checkpoints = <<>>

CreatePresized(p) ==
  /\ NoArenaYet
  /\ capacity' = Maximum(InitCapacity, EstimatePeak(p))
  /\ autoGrow' = TRUE
  /\ ensured' = EstimatePeak(p)
  /\ UNCHANGED <<slab, offset, generation, totalAllocated, peakBytes, retired,
                 checkpoints, live, nextId>>

\* A thread with one, at a moment when nothing is allocated from it.
GrowPresized(p) == autoGrow /\ offset = 0 /\ EnsureCapacity(EstimatePeak(p))

Presize ==
  /\ step = 0
  /\ \E p \in Plans :
       /\ EstimatePeak(p) > 0
       /\ CreatePresized(p) \/ GrowPresized(p)
       /\ plan' = p
  /\ step' = 1

RunStep ==
  /\ step \in DOMAIN plan
  /\ IF plan[step] = 0 THEN UNCHANGED vars ELSE Alloc(plan[step])
  /\ step' = step + 1
  /\ UNCHANGED plan

EndPlan ==
  /\ step > Len(plan) /\ step' = 0 /\ plan' = <<>>
  /\ UNCHANGED vars

OtherUse == step = 0 /\ Next /\ UNCHANGED <<plan, step>>

PlannedNext == Presize \/ RunStep \/ EndPlan \/ OtherUse

PlannedSpec == PlannedInit /\ [][PlannedNext]_planVars

\* Pre-sizing with the estimate avoids growth in the hot path: however the
\* arena was used before, no planned allocation moves to another slab.
NoGrowthInHotPath == [][step > 0 => slab' = slab]_planVars
=============================================================================
