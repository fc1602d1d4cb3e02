--------------------------- MODULE CompiledModel ---------------------------
(***************************************************************************)
(* Execution of a compiled model (compiled_model_execute_steps.rs, _helpers,*)
(* _outputs): the step loop over one planned buffer that is kept between    *)
(* runs, the eager release of step buffers, and the extraction of outputs.  *)
(* The layout of the planned buffer is computed by BufferPlanner first.     *)
(*                                                                         *)
(* Bytes of the planned buffer hold a tag, the run and the step that wrote  *)
(* them.  A slice knows the tag it should hold.  Operations are encoded on  *)
(* one serial queue, so the order of encoding is the order of execution.    *)
(***************************************************************************)
EXTENDS BufferPlanner

CONSTANTS MaxRuns,          \* executions considered
          OutputChoices(_)  \* plan -> sets of steps that may be marked outputs

ASSUME MaxRunsAssumption == MaxRuns \in Nat

ASSUME OutputsAssumption ==
  \A p \in Plans : \A o \in OutputChoices(p) : o \subseteq DOMAIN p.kind

\* A missing buffer is told from a slice.
ASSUME NoSliceAssumption ==
  None \notin [own : BOOLEAN, step : Nat, content : SUBSET (Nat \X Nat), holds : Nat \X Nat]

VARIABLES outputs,   \* output_step_indices
          run,       \* number of the current or last execution
          pc,        \* step about to execute, 0 between executions
          buffers,   \* step -> slice, or None
          mem,       \* cached_planned_buf: byte -> tag
          results    \* output buffers held by the callers

exec == <<outputs, run, pc, buffers, mem, results>>
vars == <<planner, exec>>

Compiled == step > Len(plan.kind)

\* A slice of the planned buffer, and a buffer of its own with what is in it.
PlannedSlice(i, tag) == [own |-> FALSE, step |-> i, content |-> {}, holds |-> tag]
OwnBuffer(tag, content) == [own |-> TRUE, step |-> 0, content |-> content, holds |-> tag]

Content(slice) ==
  IF slice.own THEN slice.content ELSE {mem[b] : b \in Bytes(slice.step)}

Intact(slice) == Content(slice) = {slice.holds}

Init ==
  /\ PlannerInit
  /\ outputs \in OutputChoices(plan)
  /\ run = 0
  /\ pc = 0
  /\ buffers = [i \in Steps |-> None]
  /\ mem = <<>>
  /\ results = {}

\* plan_buffers, when the model is built.
BuildPlan == Scan /\ UNCHANGED exec

\* run_steps_inner: the planned buffer is created by the first execution.
StartRun ==
  /\ Compiled /\ pc = 0 /\ run < MaxRuns
  /\ run' = run + 1
  /\ pc' = 1
  /\ buffers' = [i \in Steps |-> None]
  /\ mem' = IF run = 0 THEN [b \in 0..(highWaterMark - 1) |-> None] ELSE mem
  /\ UNCHANGED <<planner, outputs, results>>

\* Eager release: outputs are kept, and so is what no later step reads.
EagerRelease(s) == {i \in Steps : i < s /\ LastUse(i) = s} \ outputs

StepDone(slice) ==
  /\ buffers' = [i \in Steps |->
                   IF i \in EagerRelease(pc) THEN None
                   ELSE IF i = pc THEN slice ELSE buffers[i]]
  /\ pc' = pc + 1
  /\ UNCHANGED <<planner, outputs, run, results>>

\* An InputForward aliases the caller's buffer; a RuntimeOp, computed on the
\* CPU, has a buffer of its own.
ForwardInput ==
  /\ plan.kind[pc] = "input"
  /\ StepDone(OwnBuffer(<<run, pc>>, {<<run, pc>>}))
  /\ UNCHANGED mem

Present == \A i \in plan.inputs[pc] : buffers[i] # None

RunRuntimeOp ==
  /\ plan.kind[pc] = "runtime" /\ Present
  /\ StepDone(OwnBuffer(<<run, pc>>, {<<run, pc>>}))
  /\ UNCHANGED mem

\* Passthrough, IdentityPassthrough and NarrowView alias their input.
TakeView ==
  /\ plan.kind[pc] = "view" /\ Present
  /\ \E i \in plan.inputs[pc] : StepDone(buffers[i])
  /\ UNCHANGED mem

\* Dispatch, NativeOp and ConstantValue: the output lands in the planned
\* range, through the redirect or by the relocation copy.
Written(i) == [b \in DOMAIN mem |-> IF b \in Bytes(i) THEN <<run, i>> ELSE mem[b]]

RunDispatch ==
  /\ plan.kind[pc] = "dispatch" /\ Present
  /\ IF stepOffsets[pc] = None
     THEN /\ StepDone(OwnBuffer(<<run, pc>>, {<<run, pc>>}))
          /\ UNCHANGED mem
     ELSE /\ mem' = Written(pc)
          /\ StepDone(PlannedSlice(pc, <<run, pc>>))

\* A missing input or any other error ends the execution; the planned buffer
\* stays as it is.
StepFails ==
  /\ pc' = 0
  /\ buffers' = [i \in Steps |-> None]
  /\ UNCHANGED <<planner, outputs, run, mem, results>>

RunStep ==
  /\ pc \in Steps
  /\ ForwardInput \/ RunRuntimeOp \/ TakeView \/ RunDispatch \/ StepFails

\* normalize_output_to_offset_zero: a slice that is a whole buffer is handed
\* out as it is, any other is copied.
WholeBuffer(slice) ==
  \/ slice.own
  \/ stepOffsets[slice.step] = 0 /\ StepSize(slice.step) = highWaterMark

NormalizeByOffset(slice) ==
  IF slice.own \/ stepOffsets[slice.step] = 0 THEN slice
  ELSE OwnBuffer(slice.holds, Content(slice))

NormalizeOutput(slice) ==
  IF WholeBuffer(slice) THEN slice ELSE OwnBuffer(slice.holds, Content(slice))

\* execute_all_outputs, after the last step.
ReturnOutputs ==
  /\ pc > Len(plan.kind)
  /\ results' = results \union {NormalizeOutput(buffers[o]) : o \in outputs}
  /\ pc' = 0
  /\ buffers' = [i \in Steps |-> None]
  /\ UNCHANGED <<planner, outputs, run, mem>>

Next == BuildPlan \/ StartRun \/ RunStep \/ ReturnOutputs

Spec == Init /\ [][Next]_vars
-----------------------------------------------------------------------------
\* Step k still needs the bytes of i: the planner gave them away before k if
\* the last direct reader of i was scanned by then.
GivenAway(i, k) == i # LastUse(i) /\ LastUse(i) < k /\ StepSize(LastUse(i)) > 0

\* What step i is to hold: its own output, or, for a view, that of another
\* step of this execution.
Holds(i) ==
  /\ buffers[i].holds[1] = run
  /\ plan.kind[i] # "view" => buffers[i].holds[2] = i

\* A slice is used after the planner gave its bytes away.  LastUse counts
\* direct readers only, and does not know of outputs.
UsedLate(slice, k) == GivenAway(slice.holds[2], k)

\* Every step reads what its inputs produced in this execution, and finds
\* them there, unless a view is read after the last direct reader of the
\* buffer it views.
ReadsOwnData ==
  pc \in Steps =>
    \A i \in plan.inputs[pc] :
      /\ buffers[i] # None
      /\ Holds(i)
      /\ Intact(buffers[i]) \/ UsedLate(buffers[i], pc)

\* What an execution returns is what its output steps produced, and stays so
\* whatever is executed later.
ResultsKept == \A r \in results : Intact(r)

\* The same, except for outputs that another step reads as well, and for an
\* output that is the whole planned buffer and is handed out uncopied.
Excused(r) ==
  UsedLate(r, Len(plan.kind) + 1) \/ (~r.own /\ WholeBuffer(r))

ResultsIntact == \A r \in results : Intact(r) \/ Excused(r)
=============================================================================
