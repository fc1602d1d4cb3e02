-------------------------- MODULE GpuRuntimeProofs --------------------------
(***************************************************************************)
(* Proofs about GpuRuntime, in three layers.                               *)
(*                                                                         *)
(* The batches: none is lost track of (Accounted); the encoding count      *)
(* tells whether one is open; the GPU finishes them in order, so that the  *)
(* arena is reset only after the work that may still write into it.        *)
(*                                                                         *)
(* The data: operations keep the order they were encoded in (OrderInv);    *)
(* two tensors share memory only when the first was given up or is of an   *)
(* earlier generation (PlaceInv); so what an operation reads is undisturbed*)
(* until it is executed (SourceInv), and what was executed holds its data  *)
(* until a later tensor takes its memory (RunsInv).                        *)
(*                                                                         *)
(* The calls: a read is preceded by the flush it needs (CallInv), nothing  *)
(* unfinished can be read (TrackInv), and the generation of the arena      *)
(* tells when the memory was taken (RestInv).                              *)
(***************************************************************************)
EXTENDS GpuRuntime, TLAPS

\* Where a call is while it waits.
Waits == {"sync", "flush", "rotate", "fence"}

Batch == [state : {"committed", "completed", "error"}, ops : Seq(Nat)]

\* What the steps of a call rely on: a batch is waited for only in a wait, and
\* the pending handle has been taken by the calls that commit.
CallShape ==
  /\ waiting # 0 => pc \in Waits
  /\ pc \in {"sync", "commit"} => pending = 0

Typed ==
  /\ lazy \in [open : BOOLEAN, ops : Seq(Nat)]
  /\ batches \in Seq(Batch)
  /\ tensors \in Seq(Elements(tensors))
  /\ pending \in Nat /\ waiting \in Nat
  /\ fences \subseteq Nat

IInv == Typed /\ CallShape /\ Accounted

-----------------------------------------------------------------------------
\* Whatever is appended to a sequence, the result is a sequence of its own
\* elements.
LEMMA AppendIsSeq ==
  ASSUME NEW s, NEW e, s \in Seq(Elements(s))
  PROVE  /\ Append(s, e) \in Seq(Elements(Append(s, e)))
         /\ Len(Append(s, e)) = Len(s) + 1
         /\ Len(s) \in Nat
<1> DEFINE T == Elements(s) \cup {e}
           a == Append(s, e)
<1>1. s \in Seq(T) /\ e \in T
  BY DEF Elements
<1>2. a \in Seq(T) /\ Len(a) = Len(s) + 1 /\ Len(s) \in Nat
  BY <1>1
<1>3. a \in [1..Len(a) -> Elements(a)] /\ Len(a) \in Nat
  <2>1. DOMAIN a = 1..Len(a) /\ Len(a) \in Nat
    BY <1>2
  <2>2. \A i \in DOMAIN a : a[i] \in Elements(a)
    BY DEF Elements
  <2> HIDE DEF a
  <2>3. a \in [1..Len(a) -> T]
    BY <1>2, <2>1
  <2> QED BY <2>1, <2>2, <2>3
<1> HIDE DEF a
<1>4. a \in Seq(Elements(a))
  BY <1>3
<1> QED BY <1>2, <1>4 DEF a

\* Committing the open batch adds one unfinished batch, the last.
LEMMA CommitFacts ==
  ASSUME Typed, Commit
  PROVE  /\ lazy' \in [open : BOOLEAN, ops : Seq(Nat)] /\ ~lazy'.open
         /\ batches' \in Seq(Batch)
         /\ Committed \in Nat \ {0}
         /\ Unfinished' = Unfinished \cup {Committed}
<1> DEFINE new == [state |-> "committed", ops |-> lazy.ops]
<1>1. new \in Batch
  BY DEF Typed, Batch
<1>2. batches' = Append(batches, new) /\ batches \in Seq(Batch)
  BY DEF Commit, Typed
<1> HIDE DEF new
<1>3. /\ Len(batches) \in Nat /\ DOMAIN batches = 1..Len(batches)
      /\ batches' \in Seq(Batch) /\ DOMAIN batches' = 1..Len(batches) + 1
      /\ batches'[Len(batches) + 1] = new
      /\ \A i \in 1..Len(batches) : batches'[i] = batches[i]
  BY <1>1, <1>2
<1>4. new.state = "committed"
  BY DEF new
<1>5. Unfinished' = Unfinished \cup {Committed}
  BY <1>3, <1>4 DEF Unfinished, Committed
<1>6. lazy' \in [open : BOOLEAN, ops : Seq(Nat)] /\ ~lazy'.open
  BY DEF Commit, NoBatch
<1> QED BY <1>3, <1>5, <1>6 DEF Committed

LEMMA InitIInv == Init => IInv
<1> SUFFICES ASSUME Init PROVE IInv
  OBVIOUS
<1>1. Typed
  BY DEF Init, Typed, NoBatch, Elements
<1>2. Unfinished = {}
  BY DEF Init, Unfinished
<1> QED BY <1>1, <1>2 DEF Init, IInv, CallShape, Accounted

-----------------------------------------------------------------------------
\* Steps that leave the batches and their handles alone.
LEMMA QuietIInv ==
  ASSUME IInv,
         \/ Clone \/ ToggleBypass \/ ToggleExplicit \/ ToggleDecode
         \/ ResetExplicit \/ TryReset \/ ReclaimPool \/ GiveUpPlanned
         \/ BeginStep \/ EndStep \/ AbandonStep \/ GpuExecute \/ UNCHANGED vars \/ Read
  PROVE  IInv'
<1>1. /\ UNCHANGED <<lazy, pending, waiting, batches, tensors, fences,
                     abandoned>>
      /\ pc' = pc \/ (pc = "read" /\ pc' = "idle")
  BY DEF Clone, ToggleBypass, ToggleExplicit, ToggleDecode, ResetExplicit,
         TryReset, ReclaimPool, GiveUpPlanned, BeginStep, EndStep, AbandonStep,
         GpuExecute, Read, vars,
         batchVars, callVars, clientVars, gpuVars, historyVars
<1>2. Typed' /\ Accounted'
  BY <1>1 DEF IInv, Typed, Accounted, Unfinished
<1>3. CallShape'
  BY <1>1 DEF IInv, CallShape, Waits
<1> QED BY <1>2, <1>3 DEF IInv

\* The calls that take the pending handle wait for it next.
LEMMA BeginIInv ==
  ASSUME IInv,
         BeginSubmit \/ BeginSyncCall \/ BeginFlush \/ BeginReadback
  PROVE  IInv'
<1>1. /\ pc = "idle" /\ pc' = "sync"
      /\ waiting' = pending /\ pending' = 0
      /\ UNCHANGED <<lazy, batches, tensors, fences, abandoned>>
  BY DEF BeginSubmit, BeginSyncCall, BeginFlush, BeginReadback, BeginSync,
         Idle, clientVars, gpuVars
<1>2. waiting = 0
  BY <1>1 DEF IInv, CallShape, Waits
<1>3. Typed' /\ CallShape'
  BY <1>1 DEF IInv, Typed, CallShape, Waits
<1>4. 0 \notin Unfinished
  BY DEF IInv, Typed, Unfinished
<1>5. Accounted'
  BY <1>1, <1>2, <1>4 DEF IInv, Accounted, Unfinished
<1> QED BY <1>3, <1>5 DEF IInv

\* A batch whose wait succeeds is finished.
LEMMA ReturnsIInv ==
  ASSUME IInv, SyncReturns \/ FlushReturns \/ RotateReturns \/ FenceReturns
  PROVE  IInv'
<1>1. /\ waiting = 0 \/ Done(waiting)
      /\ waiting' = 0
      /\ UNCHANGED <<lazy, batches, tensors, pending, fences, abandoned>>
      /\ pc' = "commit" => pc = "sync"
      /\ pc' # "sync"
  BY DEF SyncReturns, FlushReturns, RotateReturns, FenceReturns, Return,
         clientVars, gpuVars, batchVars, historyVars
<1>2. waiting \notin Unfinished
  BY <1>1 DEF IInv, Typed, Unfinished, Done
<1>3. Typed' /\ CallShape'
  BY <1>1 DEF IInv, Typed, CallShape
<1>4. Accounted'
  BY <1>1, <1>2 DEF IInv, Accounted, Unfinished
<1> QED BY <1>3, <1>4 DEF IInv

\* A wait that fails leaves a finished batch, or one that is recorded.
LEMMA WaitFailsIInv ==
  ASSUME IInv, WaitFails
  PROVE  IInv'
<1>1. /\ waiting' = 0 /\ pc' = "idle"
      /\ UNCHANGED <<lazy, batches, tensors, pending, fences>>
      /\ \/ waiting \notin Unfinished /\ UNCHANGED abandoned
         \/ abandoned' = abandoned \cup {Dropped(waiting, "timeout")}
  BY DEF WaitFails, Return, Unfinished, clientVars, gpuVars, batchVars
<1>2. Typed' /\ CallShape'
  BY <1>1 DEF IInv, Typed, CallShape, Waits
<1>3. Unfinished' = Unfinished
  BY <1>1 DEF Unfinished
<1>4. Accounted'
  <2>1. CASE waiting \notin Unfinished /\ UNCHANGED abandoned
    BY <1>1, <1>3, <2>1 DEF IInv, Accounted
  <2>2. CASE abandoned' = abandoned \cup {Dropped(waiting, "timeout")}
    <3>1. Dropped(waiting, "timeout").batch = waiting
      BY DEF Dropped
    <3>2. {a.batch : a \in abandoned'} =
            {a.batch : a \in abandoned} \cup {waiting}
      BY <2>2, <3>1
    <3> QED BY <1>1, <1>3, <3>2 DEF IInv, Accounted
  <2> QED BY <1>1, <2>1, <2>2
<1> QED BY <1>2, <1>4 DEF IInv

\* submit, flush and readback commit when no other batch is being waited for.
LEMMA CommitIInv ==
  ASSUME IInv, CommitSubmitted \/ CommitFlushed
  PROVE  IInv'
<1>1. /\ pc = "commit" /\ pc' \in {"idle", "flush", "read"}
      /\ UNCHANGED <<tensors, fences, abandoned>>
      /\ \/ Commit /\ pending' = Committed /\ waiting' = waiting
         \/ Commit /\ waiting' = Committed /\ pending' = pending /\ pc' = "flush"
         \/ UNCHANGED <<lazy, batches, pending, waiting>>
  BY DEF CommitSubmitted, CommitFlushed, Return, clientVars, gpuVars, batchVars
<1>2. waiting = 0 /\ pending = 0 /\ 0 \notin Unfinished
  BY <1>1 DEF IInv, Typed, CallShape, Waits, Unfinished
<1>3. Unfinished \subseteq fences \cup {a.batch : a \in abandoned}
  BY <1>2 DEF IInv, Accounted
<1>4. CASE Commit
  <2>1. Typed'
    BY <1>1, <1>4, CommitFacts DEF IInv, Typed
  <2>2. CallShape'
    BY <1>1, <1>2 DEF CallShape, Waits
  <2>3. Accounted'
    <3>1. Unfinished' = Unfinished \cup {Committed}
      BY <1>4, CommitFacts DEF IInv
    <3>2. Committed \in {pending', waiting'}
      BY <1>1, <1>2, <1>4, CommitFacts DEF IInv, Commit, Typed, Committed
    <3> QED BY <1>1, <1>3, <3>1, <3>2 DEF Accounted
  <2> QED BY <2>1, <2>2, <2>3 DEF IInv
<1>5. CASE UNCHANGED <<lazy, batches, pending, waiting>>
  <2>1. Typed' /\ CallShape'
    BY <1>1, <1>2, <1>5 DEF IInv, Typed, CallShape
  <2>2. Accounted'
    BY <1>1, <1>5 DEF IInv, Accounted, Unfinished
  <2> QED BY <2>1, <2>2 DEF IInv
<1> QED BY <1>1, <1>4, <1>5

\* Encoding keeps the handles; a rotation waits for the batch it commits.
LEMMA EncodeIInv ==
  ASSUME IInv, BeginEncode \/ Encode \/ EncodeRejected \/ NormalizeOutput
  PROVE  IInv'
<1>1. CASE BeginEncode
  <2>1. /\ pc = "idle" /\ pc' \in {"rotate", "encode"}
        /\ UNCHANGED <<tensors, pending, fences, abandoned>>
        /\ \/ Commit /\ waiting' = Committed /\ pc' = "rotate"
           \/ UNCHANGED <<lazy, batches, waiting>>
    BY <1>1 DEF BeginEncode, clientVars, gpuVars
  <2>2. waiting = 0 /\ 0 \notin Unfinished
    BY <2>1 DEF IInv, Typed, CallShape, Waits, Unfinished
  <2>3. CallShape'
    BY <2>1, <2>2 DEF CallShape, Waits
  <2>4. CASE Commit /\ waiting' = Committed
    <3>1. Typed'
      BY <2>1, <2>4, CommitFacts DEF IInv, Typed
    <3>2. Accounted'
      BY <2>1, <2>2, <2>4, CommitFacts DEF IInv, Accounted
    <3> QED BY <2>3, <3>1, <3>2 DEF IInv
  <2>5. CASE UNCHANGED <<lazy, batches, waiting>>
    <3>1. Typed' /\ Accounted'
      BY <2>1, <2>5 DEF IInv, Typed, Accounted, Unfinished
    <3> QED BY <2>3, <3>1 DEF IInv
  <2> QED BY <2>1, <2>4, <2>5
<1>2. CASE Encode \/ EncodeRejected \/ NormalizeOutput
  <2>1. /\ pc \in {"encode", "idle"} /\ pc' = "idle"
        /\ UNCHANGED <<batches, pending, waiting, fences, abandoned>>
        /\ \/ tensors' = tensors
           \/ \E d : tensors' = Append(tensors, d)
        /\ \/ lazy' = lazy
           \/ lazy' = [lazy EXCEPT !.open = TRUE]
           \/ lazy' = [lazy EXCEPT !.ops = Append(@, Len(tensors) + 1)]
           \/ lazy' = [open |-> TRUE, ops |-> Append(lazy.ops, Len(tensors) + 1)]
    <3>1. CASE Encode
      BY <3>1 DEF Encode, Return, gpuVars
    <3>2. CASE EncodeRejected
      BY <3>2 DEF EncodeRejected, Return, gpuVars, clientVars
    <3>3. CASE NormalizeOutput
      BY <3>3 DEF NormalizeOutput, Return, gpuVars, Idle
    <3> QED BY <1>2, <3>1, <3>2, <3>3
  <2>2. tensors' \in Seq(Elements(tensors')) /\ Len(tensors) + 1 \in Nat
    <3>1. tensors \in Seq(Elements(tensors))
      BY DEF IInv, Typed
    <3>2. Len(tensors) \in Nat
      BY <3>1
    <3>3. CASE tensors' = tensors
      <4>1. Elements(tensors') = Elements(tensors)
        BY <3>3 DEF Elements
      <4> QED BY <3>1, <3>2, <3>3, <4>1
    <3>4. CASE \E d : tensors' = Append(tensors, d)
      BY <3>1, <3>2, <3>4, AppendIsSeq
    <3> QED BY <2>1, <3>3, <3>4
  <2>3. lazy' \in [open : BOOLEAN, ops : Seq(Nat)]
    <3>1. Append(lazy.ops, Len(tensors) + 1) \in Seq(Nat)
      BY <2>2 DEF IInv, Typed
    <3>2. lazy \in [open : BOOLEAN, ops : Seq(Nat)]
      BY DEF IInv, Typed
    <3>3. CASE lazy' = [lazy EXCEPT !.open = TRUE]
      BY <3>2, <3>3, Zenon
    <3>4. CASE lazy' = [lazy EXCEPT !.ops = Append(@, Len(tensors) + 1)]
      BY <3>1, <3>2, <3>4
    <3>5. CASE lazy' = [open |-> TRUE,
                        ops |-> Append(lazy.ops, Len(tensors) + 1)]
      BY <3>1, <3>5
    <3> QED BY <2>1, <3>2, <3>3, <3>4, <3>5
  <2>4. Typed'
    BY <2>1, <2>2, <2>3 DEF IInv, Typed
  <2>5. CallShape' /\ Accounted'
    BY <2>1 DEF IInv, CallShape, Waits, Accounted, Unfinished
  <2> QED BY <2>4, <2>5 DEF IInv
<1> QED BY <1>1, <1>2

\* Discarding, fencing and dropping move a handle, or record its loss.
LEMMA HandlesIInv ==
  ASSUME IInv, ScopeError \/ SubmitFence \/ BeginFenceWait \/ DropFence
  PROVE  IInv'
<1>0. 0 \notin Unfinished /\ Unfinished \subseteq Incomplete
  BY DEF IInv, Typed, Unfinished, Incomplete
<1>1. CASE ScopeError
  <2>1. /\ lazy' = NoBatch /\ pending' = 0
        /\ UNCHANGED <<batches, tensors, waiting, pc, fences>>
        /\ abandoned' = IF pending \in Incomplete
                        THEN abandoned \cup {Dropped(pending, "discard")}
                        ELSE abandoned
    BY <1>1 DEF ScopeError, clientVars, gpuVars, callVars
  <2>2. Typed' /\ CallShape'
    BY <2>1 DEF IInv, Typed, CallShape, NoBatch
  <2>3. Unfinished' = Unfinished
    BY <2>1 DEF Unfinished
  <2>4. CASE pending \in Incomplete
    <3>1. Dropped(pending, "discard").batch = pending
      BY DEF Dropped
    <3>2. {a.batch : a \in abandoned'} =
            {a.batch : a \in abandoned} \cup {pending}
      BY <2>1, <2>4, <3>1
    <3> QED BY <2>1, <2>2, <2>3, <3>2 DEF IInv, Accounted
  <2>5. CASE pending \notin Incomplete
    BY <1>0, <2>1, <2>2, <2>3, <2>5 DEF IInv, Accounted
  <2> QED BY <2>4, <2>5
<1>2. CASE SubmitFence
  <2>1. /\ Commit /\ fences' = fences \cup {Committed}
        /\ UNCHANGED <<tensors, pending, waiting, pc, abandoned>>
    BY <1>2 DEF SubmitFence, callVars
  <2>2. Typed' /\ CallShape'
    BY <2>1, CommitFacts DEF IInv, Typed, CallShape
  <2>3. Accounted'
    BY <2>1, CommitFacts DEF IInv, Accounted
  <2> QED BY <2>2, <2>3 DEF IInv
<1>3. CASE BeginFenceWait
  <2>1. PICK b \in fences : waiting' = b /\ fences' = fences \ {b}
    BY <1>3 DEF BeginFenceWait
  <2>2. /\ pc = "idle" /\ pc' = "fence"
        /\ UNCHANGED <<lazy, batches, tensors, pending, abandoned>>
    BY <1>3 DEF BeginFenceWait, Idle, gpuVars, batchVars
  <2>3. waiting = 0
    BY <2>2 DEF IInv, CallShape, Waits
  <2>4. Unfinished' = Unfinished
    BY <2>2 DEF Unfinished
  <2>5. Accounted'
    BY <1>0, <2>1, <2>2, <2>3, <2>4 DEF IInv, Accounted
  <2>6. CallShape'
    BY <2>1, <2>2 DEF CallShape, Waits
  <2>7. Typed'
    BY <2>1, <2>2 DEF IInv, Typed
  <2> QED BY <2>5, <2>6, <2>7 DEF IInv
<1>4. CASE DropFence
  <2>1. PICK b \in fences :
          /\ fences' = fences \ {b}
          /\ abandoned' = IF b \in Incomplete
                          THEN abandoned \cup {Dropped(b, "fence")}
                          ELSE abandoned
    BY <1>4 DEF DropFence
  <2>2. UNCHANGED <<lazy, batches, tensors, pending, waiting, pc>>
    BY <1>4 DEF DropFence, gpuVars, batchVars, callVars
  <2>3. Typed' /\ CallShape' /\ Unfinished' = Unfinished
    BY <2>1, <2>2 DEF IInv, Typed, CallShape, Unfinished
  <2>4. CASE b \in Incomplete
    <3>1. Dropped(b, "fence").batch = b
      BY DEF Dropped
    <3>2. {a.batch : a \in abandoned'} = {a.batch : a \in abandoned} \cup {b}
      BY <2>1, <2>4, <3>1
    <3> QED BY <2>1, <2>2, <2>3, <3>2 DEF IInv, Accounted
  <2>5. CASE b \notin Incomplete
    BY <1>0, <2>1, <2>2, <2>3, <2>5 DEF IInv, Accounted
  <2> QED BY <2>4, <2>5
<1> QED BY <1>1, <1>2, <1>3, <1>4

\* The GPU finishes batches and starts none.
LEMMA FinishIInv ==
  ASSUME IInv, GpuComplete \/ GpuFail
  PROVE  IInv'
<1>1. PICK state \in {"completed", "error"} : GpuFinish(state)
  BY DEF GpuComplete, GpuFail
<1>2. /\ batches' = [batches EXCEPT ![Running].state = state]
      /\ UNCHANGED <<lazy, tensors, pending, waiting, pc, fences, abandoned>>
  BY <1>1 DEF GpuFinish, batchVars, callVars, clientVars, historyVars
<1>3. /\ batches \in Seq(Batch) /\ DOMAIN batches' = DOMAIN batches
      /\ \A b \in DOMAIN batches :
           \/ batches'[b] = batches[b]
           \/ batches'[b] = [batches[b] EXCEPT !.state = state]
  BY <1>2 DEF IInv, Typed
<1>4. batches' \in Seq(Batch) /\ Unfinished' \subseteq Unfinished
  <2>1. ASSUME NEW b \in DOMAIN batches
        PROVE  /\ batches'[b] \in Batch
               /\ batches'[b].state = "committed" =>
                    batches[b].state = "committed"
    <3>1. batches[b] \in Batch
      BY <1>3
    <3>2. CASE batches'[b] = batches[b]
      BY <3>1, <3>2
    <3>3. CASE batches'[b] = [batches[b] EXCEPT !.state = state]
      BY <3>1, <3>3 DEF Batch
    <3> QED BY <1>3, <3>2, <3>3
  <2>2. batches' \in Seq(Batch)
    <3>1. DOMAIN batches = 1..Len(batches) /\ Len(batches) \in Nat
      BY <1>3
    <3>2. batches' = [i \in 1..Len(batches) |-> batches'[i]]
      BY <1>2, <3>1
    <3>3. batches' \in [1..Len(batches) -> Batch]
      BY <2>1, <3>1, <3>2
    <3> QED BY <3>1, <3>3
  <2>3. Unfinished' \subseteq Unfinished
    BY <1>3, <2>1 DEF Unfinished
  <2> QED BY <2>2, <2>3
<1> QED BY <1>2, <1>4 DEF IInv, Typed, CallShape, Accounted

LEMMA StepIInv == IInv /\ [Next]_vars => IInv'
BY QuietIInv, BeginIInv, ReturnsIInv, WaitFailsIInv, CommitIInv, EncodeIInv,
   HandlesIInv, FinishIInv DEF Next, Begin, Immediate, Continue, Gpu

-----------------------------------------------------------------------------
\* No committed command buffer is lost track of: the pending handle, the wait
\* in progress or a fence covers it, unless its handle was dropped.
THEOREM WorkAccounted == Spec => []Accounted
<1>1. IInv => Accounted
  BY DEF IInv
<1> QED BY <1>1, InitIInv, StepIInv, PTL DEF Spec

-----------------------------------------------------------------------------
(* The encoding count.  A wait that fails in the middle of a rotation would *)
(* leave the count of a batch that is gone, so failures are excluded.      *)

NoFailingWait == Failures \cap {"gpuError", "timeout"} = {}

CountInv ==
  /\ Typed
  /\ encodingCount \in Nat
  /\ CountMatchesBatch
  /\ pc = "rotate" => ~lazy.open /\ waiting \in DOMAIN batches
  /\ \A b \in DOMAIN batches : batches[b].state # "error"

LEMMA TypedStep == IInv /\ [Next]_vars => Typed'
BY StepIInv DEF IInv

\* A batch that is committed has not failed.
LEMMA CommitKeepsGood ==
  ASSUME Typed, Commit, \A b \in DOMAIN batches : batches[b].state # "error"
  PROVE  /\ \A b \in DOMAIN batches' : batches'[b].state # "error"
         /\ Committed \in DOMAIN batches'
<1> DEFINE new == [state |-> "committed", ops |-> lazy.ops]
<1>1. new \in Batch /\ new.state # "error"
  BY DEF Typed, Batch
<1>2. batches' = Append(batches, new) /\ batches \in Seq(Batch)
  BY DEF Commit, Typed
<1> HIDE DEF new
<1>3. /\ Len(batches) \in Nat /\ DOMAIN batches = 1..Len(batches)
      /\ DOMAIN batches' = 1..Len(batches) + 1
      /\ batches'[Len(batches) + 1] = new
      /\ \A i \in 1..Len(batches) : batches'[i] = batches[i]
  BY <1>1, <1>2
<1> QED BY <1>1, <1>3 DEF Committed

LEMMA CountStep ==
  ASSUME NoFailingWait, CountInv, [Next]_vars, Typed'
  PROVE  CountInv'
<1> USE DEF CountInv, CountMatchesBatch
<1>1. CASE \/ Clone \/ ToggleBypass \/ ToggleExplicit \/ ToggleDecode
           \/ ResetExplicit \/ TryReset \/ ReclaimPool \/ GiveUpPlanned \/ BeginStep \/ EndStep \/ AbandonStep
           \/ GpuExecute \/ UNCHANGED vars \/ Read \/ DropFence
           \/ BeginSubmit \/ BeginSyncCall \/ BeginFlush \/ BeginReadback
           \/ BeginFenceWait \/ SyncReturns \/ FlushReturns \/ FenceReturns
           \/ NormalizeOutput
  <2>1. /\ UNCHANGED <<encodingCount, batches>> /\ lazy'.open = lazy.open
        /\ \/ UNCHANGED <<pc, waiting>>
           \/ pc # "rotate" /\ pc' # "rotate"
    <3>1. CASE NormalizeOutput
      BY <3>1 DEF NormalizeOutput, Idle, Return, gpuVars, Typed
    <3>2. CASE ~NormalizeOutput
      BY <1>1, <3>2
         DEF Clone, ToggleBypass, ToggleExplicit, ToggleDecode, ResetExplicit,
             TryReset, ReclaimPool, GiveUpPlanned, BeginStep, EndStep, AbandonStep,
             GpuExecute, Read, vars,
             DropFence, BeginSubmit, BeginSyncCall, BeginFlush, BeginReadback,
             BeginSync, BeginFenceWait, SyncReturns, FlushReturns, FenceReturns,
             Return, Idle, batchVars, callVars, clientVars, gpuVars, historyVars
    <3> QED BY <3>1, <3>2
  <2> QED BY <2>1
<1>2. CASE RotateReturns
  BY <1>2 DEF RotateReturns, gpuVars
<1>3. CASE WaitFails
  <2>1. pc # "rotate"
    BY <1>3 DEF WaitFails, NoFailingWait
  <2>2. UNCHANGED <<encodingCount, lazy, batches>> /\ pc' = "idle"
    BY <1>3 DEF WaitFails, Return, batchVars, gpuVars
  <2> QED BY <2>1, <2>2
<1>4. CASE Encode \/ EncodeRejected
  <2>1. /\ pc = "encode" /\ pc' = "idle" /\ UNCHANGED batches
        /\ encodingCount' = CountAfterEncode
        /\ \/ lazy' = [lazy EXCEPT !.open = TRUE]
           \/ lazy' = [open |-> TRUE, ops |-> Append(lazy.ops, Len(tensors) + 1)]
    BY <1>4 DEF Encode, EncodeRejected, Return, gpuVars
  <2>2. lazy'.open
    BY <2>1 DEF Typed
  <2>3. encodingCount' \in Nat /\ encodingCount' # 0
    BY <2>1 DEF CountAfterEncode
  <2> QED BY <2>1, <2>2, <2>3
<1>5. CASE CommitSubmitted \/ CommitFlushed \/ SubmitFence
  <2>1. /\ pc # "rotate" /\ pc' # "rotate"
        /\ \/ Commit /\ encodingCount' = 0
           \/ UNCHANGED <<lazy, batches, encodingCount>>
    BY <1>5 DEF CommitSubmitted, CommitFlushed, SubmitFence, Return, Idle,
                batchVars, gpuVars, callVars
  <2>2. CASE Commit /\ encodingCount' = 0
    BY <2>1, <2>2, CommitFacts, CommitKeepsGood
  <2>3. CASE UNCHANGED <<lazy, batches, encodingCount>>
    BY <2>1, <2>3
  <2> QED BY <2>1, <2>2, <2>3
<1>6. CASE BeginEncode
  <2>1. /\ pc = "idle" /\ encodingCount' = encodingCount
        /\ \/ Commit /\ waiting' = Committed /\ pc' = "rotate"
           \/ UNCHANGED <<lazy, batches>> /\ pc' = "encode"
    BY <1>6 DEF BeginEncode, gpuVars
  <2>2. CASE Commit /\ waiting' = Committed /\ pc' = "rotate"
    BY <2>1, <2>2, CommitFacts, CommitKeepsGood
  <2>3. CASE UNCHANGED <<lazy, batches>> /\ pc' = "encode"
    BY <2>1, <2>3
  <2> QED BY <2>1, <2>2, <2>3
<1>7. CASE ScopeError
  BY <1>7 DEF ScopeError, NoBatch, gpuVars, callVars, Idle
<1>8. CASE GpuComplete \/ GpuFail
  <2>1. GpuFinish("completed")
    BY <1>8 DEF GpuComplete, GpuFail, NoFailingWait
  <2>2. /\ batches' = [batches EXCEPT ![Running].state = "completed"]
        /\ UNCHANGED <<lazy, encodingCount, pc, waiting>>
    BY <2>1 DEF GpuFinish, batchVars, callVars
  <2>3. /\ DOMAIN batches' = DOMAIN batches
        /\ \A b \in DOMAIN batches :
             \/ batches'[b] = batches[b]
             \/ batches'[b] = [batches[b] EXCEPT !.state = "completed"]
    BY <2>2 DEF Typed
  <2>4. \A b \in DOMAIN batches : batches[b] \in Batch
    BY DEF Typed
  <2>5. \A b \in DOMAIN batches' : batches'[b].state # "error"
    BY <2>3, <2>4 DEF Batch
  <2> QED BY <2>2, <2>3, <2>5
<1> QED BY <1>1, <1>2, <1>3, <1>4, <1>5, <1>6, <1>7, <1>8
        DEF Next, Begin, Immediate, Continue, Gpu

\* As long as no wait fails, the count that guards clone_buffer is 0 exactly
\* when no batch is open.
THEOREM CountGuardsBatch ==
  ASSUME NoFailingWait
  PROVE  Spec => []CountMatchesBatch
<1>1. Init => CountInv
  <2> SUFFICES ASSUME Init PROVE CountInv
    OBVIOUS
  <2>1. Typed /\ DOMAIN batches = {}
    BY InitIInv DEF Init, IInv
  <2> QED BY <2>1 DEF Init, CountInv, CountMatchesBatch, NoBatch
<1>2. IInv /\ CountInv /\ [Next]_vars => CountInv'
  BY NoFailingWait, TypedStep, CountStep
<1>3. CountInv => CountMatchesBatch
  BY DEF CountInv
<1> QED BY <1>1, <1>2, <1>3, InitIInv, StepIInv, PTL DEF Spec

-----------------------------------------------------------------------------
(* The GPU finishes batches in the order they were committed: a batch that   *)
(* is complete leaves no earlier one unfinished.                             *)

QueueInv ==
  /\ queue \in Seq(Nat) /\ Len(queue) <= Len(batches)
  /\ \A i \in 1..Len(queue) : queue[i] = Len(batches) - Len(queue) + i
  /\ Unfinished = {b \in 1..Len(batches) : b > Len(batches) - Len(queue)}

LEMMA BatchMoves ==
  ASSUME [Next]_vars
  PROVE  \/ UNCHANGED <<batches, queue>>
         \/ Commit
         \/ \E state \in {"completed", "error"} : GpuFinish(state)
<1>1. CASE UNCHANGED vars
  BY <1>1 DEF vars, gpuVars
<1>2. CASE Begin
  BY <1>2 DEF Begin, BeginSubmit, BeginSyncCall, BeginFlush, BeginReadback,
     BeginSync, BeginEncode, BeginFenceWait, gpuVars
<1>3. CASE Immediate
  BY <1>3 DEF Immediate, Clone, ScopeError, SubmitFence, DropFence, ToggleBypass,
     ToggleExplicit, ToggleDecode, ResetExplicit, TryReset, ReclaimPool, GiveUpPlanned,
     BeginStep, EndStep,
     AbandonStep, NormalizeOutput, gpuVars
<1>4. CASE Continue
  BY <1>4 DEF Continue, SyncReturns, CommitSubmitted, CommitFlushed, FlushReturns,
     WaitFails, Read, RotateReturns, Encode, EncodeRejected, FenceReturns, gpuVars
<1>5. CASE Gpu
  BY <1>5 DEF Gpu, GpuExecute, GpuComplete, GpuFail
<1> QED BY <1>1, <1>2, <1>3, <1>4, <1>5 DEF Next

LEMMA QueueStep == ASSUME Typed, QueueInv, [Next]_vars PROVE QueueInv'
<1> DEFINE n == Len(batches)
           q == Len(queue)
<1>1. /\ n \in Nat /\ q \in Nat /\ q <= n /\ queue \in Seq(Nat)
      /\ batches \in Seq(Batch) /\ DOMAIN batches = 1..n /\ DOMAIN queue = 1..q
  BY DEF Typed, QueueInv
<1>2. CASE UNCHANGED <<batches, queue>>
  BY <1>2 DEF QueueInv, Unfinished
<1>3. CASE Commit
  <2>1. /\ batches' = Append(batches, [state |-> "committed", ops |-> lazy.ops])
        /\ queue' = Append(queue, n + 1)
    BY <1>3 DEF Commit
  <2>2. Unfinished' = Unfinished \cup {n + 1}
    BY <1>3, CommitFacts DEF Committed
  <2>3. [state |-> "committed", ops |-> lazy.ops] \in Batch
    BY DEF Typed, Batch
  <2> HIDE DEF n, q
  <2>4. /\ Len(batches') = n + 1 /\ Len(queue') = q + 1 /\ queue' \in Seq(Nat)
        /\ \A i \in 1..q : queue'[i] = queue[i]
        /\ queue'[q + 1] = n + 1
    BY <1>1, <2>1, <2>3 DEF n, q
  <2>5. \A i \in 1..q : queue[i] = n - q + i
    BY DEF QueueInv, n, q
  <2>6. \A i \in 1..(q + 1) : queue'[i] = (n + 1) - (q + 1) + i
    BY <1>1, <2>4, <2>5
  <2>7. Unfinished' = {b \in 1..(n + 1) : b > (n + 1) - (q + 1)}
    <3>1. Unfinished = {b \in 1..n : b > n - q}
      BY DEF QueueInv, n, q
    <3> QED BY <1>1, <2>2, <3>1
  <2> QED BY <1>1, <2>4, <2>6, <2>7 DEF QueueInv
<1>4. ASSUME NEW state \in {"completed", "error"}, GpuFinish(state)
      PROVE  QueueInv'
  <2>1. /\ queue # <<>> /\ queue' = Tail(queue)
        /\ batches' = [batches EXCEPT ![queue[1]].state = state]
    BY <1>4 DEF GpuFinish, Running
  <2> HIDE DEF n, q
  <2>2. /\ q > 0 /\ Len(queue') = q - 1 /\ queue' \in Seq(Nat)
        /\ \A i \in 1..(q - 1) : queue'[i] = queue[i + 1]
    BY <1>1, <2>1 DEF q
  <2>3. \A i \in 1..q : queue[i] = n - q + i
    BY DEF QueueInv, n, q
  <2>4. queue[1] = n - q + 1 /\ queue[1] \in 1..n
    BY <1>1, <2>2, <2>3
  <2>5. /\ Len(batches') = n /\ DOMAIN batches' = 1..n
        /\ \A b \in 1..n : b # queue[1] => batches'[b] = batches[b]
        /\ batches'[queue[1]] = [batches[queue[1]] EXCEPT !.state = state]
    BY <1>1, <2>1, <2>4 DEF n
  <2>6. batches'[queue[1]].state # "committed"
    <3>1. batches[queue[1]] \in Batch
      BY <1>1, <2>4
    <3> QED BY <2>5, <3>1 DEF Batch
  <2>7. \A i \in 1..(q - 1) : queue'[i] = n - (q - 1) + i
    BY <1>1, <2>2, <2>3
  <2>8. Unfinished' = {b \in 1..n : b > n - (q - 1)}
    <3>1. Unfinished = {b \in 1..n : b > n - q}
      BY DEF QueueInv, n, q
    <3>2. Unfinished' = Unfinished \ {queue[1]}
      BY <1>1, <2>5, <2>6 DEF Unfinished
    <3>3. \A b \in 1..n : b > n - q /\ b # n - q + 1 <=> b > n - (q - 1)
      BY <1>1, <2>2
    <3> QED BY <2>4, <3>1, <3>2, <3>3
  <2> QED BY <1>1, <2>2, <2>5, <2>7, <2>8 DEF QueueInv
<1> QED BY <1>2, <1>3, <1>4, BatchMoves

\* So what was committed before a batch that is complete is finished.
LEMMA FinishedBefore ==
  ASSUME Typed, QueueInv, NEW b, Done(b), b \in DOMAIN batches,
         NEW c \in Nat, c <= b
  PROVE  c \notin Unfinished
<1>1. b \notin Unfinished /\ b \in 1..Len(batches) /\ Len(batches) \in Nat /\ Len(queue) \in Nat
  BY DEF Done, Unfinished, Typed, QueueInv
<1> QED BY <1>1 DEF QueueInv

-----------------------------------------------------------------------------
(* When the generation of the default arena moves.                          *)

ArenaShape ==
  arena = [exists |-> arena.exists, slab |-> arena.slab, cap |-> arena.cap,
           off |-> arena.off, gen |-> arena.gen] /\ arena.gen \in Nat

\* Only a wait in sync or flush that succeeds moves it, and try_reset.
LEMMA ResetPlaces ==
  ASSUME ArenaShape, [Next]_vars
  PROVE  /\ ArenaShape'
         /\ \/ arena'.gen = arena.gen
            \/ SyncReturns /\ Done(waiting)
            \/ FlushReturns \/ TryReset
<1>1. CASE UNCHANGED arena
  BY <1>1 DEF ArenaShape
<1>2. CASE /\ arena' = ResetArena
           /\ (SyncReturns /\ Done(waiting)) \/ FlushReturns \/ TryReset
  <2>1. CASE arena' = arena
    BY <2>1 DEF ArenaShape
  <2>2. CASE arena' = [arena EXCEPT !.off = 0, !.gen = @ + 1]
    <3>1. arena' = [exists |-> arena.exists, slab |-> arena.slab, cap |-> arena.cap,
                    off |-> 0, gen |-> arena.gen + 1]
      BY <2>2 DEF ArenaShape
    <3>2. ArenaShape'
      BY <3>1 DEF ArenaShape
    <3> QED BY <1>2, <3>2
  <2> QED BY <1>2, <2>1, <2>2 DEF ResetArena
<1>3. CASE BeginEncode
  <2>1. arena' \in {arena, ArenaAfterAlloc}
    BY <1>3 DEF BeginEncode
  <2> QED BY <2>1 DEF ArenaShape, ArenaAfterAlloc, GrownArena
<1>4. CASE EndStep
  BY <1>4 DEF EndStep, ArenaShape
<1>5. CASE UNCHANGED vars
  BY <1>1, <1>5 DEF vars, arenaVars
<1>6. CASE Begin
  BY <1>1, <1>3, <1>6 DEF Begin, BeginSubmit, BeginSyncCall, BeginFlush,
     BeginReadback, BeginSync, BeginFenceWait, arenaVars
<1>7. CASE Immediate
  BY <1>1, <1>2, <1>4, <1>7 DEF Immediate, Clone, ScopeError, SubmitFence, DropFence,
     ToggleBypass, ToggleExplicit, ToggleDecode, ResetExplicit, TryReset, ReclaimPool,
     GiveUpPlanned, BeginStep,
     AbandonStep, NormalizeOutput, arenaVars
<1>8. CASE Continue
  BY <1>1, <1>2, <1>8 DEF Continue, SyncReturns, CommitSubmitted, CommitFlushed,
     FlushReturns, WaitFails, Read, RotateReturns, RotatedArena, Encode, EncodeRejected,
     FenceReturns, arenaVars
<1>9. CASE Gpu
  BY <1>1, <1>9 DEF Gpu, GpuExecute, GpuComplete, GpuFail, GpuFinish, arenaVars
<1> QED BY <1>5, <1>6, <1>7, <1>8, <1>9 DEF Next

\* A batch that was discarded was committed before the one whose wait may
\* reset the arena.
DiscardInv ==
  /\ pending \in 0..Len(batches)
  /\ pc \in {"sync", "flush"} => waiting \in 0..Len(batches)
  /\ \A a \in abandoned : a.how = "discard" =>
       /\ a.batch \in 1..Len(batches)
       /\ pending # 0 => a.batch < pending
       /\ pc \in {"sync", "flush"} /\ waiting # 0 => a.batch < waiting

LEMMA DiscardStep ==
  ASSUME IInv, DiscardInv, [Next]_vars
  PROVE  DiscardInv'
<1>1. Len(batches) \in Nat
  BY DEF IInv, Typed
<1>2. Commit => Len(batches') = Len(batches) + 1 /\ Committed = Len(batches) + 1
  <2>1. [state |-> "committed", ops |-> lazy.ops] \in Batch /\ batches \in Seq(Batch)
    BY DEF IInv, Typed, Batch
  <2> QED BY <2>1 DEF Commit, Committed
\* Calls that take no handle.
<1>3. CASE /\ UNCHANGED <<batches, pending>>
           /\ \A a \in abandoned' : a.how = "discard" => a \in abandoned
           /\ \/ UNCHANGED <<pc, waiting>>
              \/ pc' \notin {"sync", "flush"}
  BY <1>3 DEF DiscardInv
<1>4. CASE UNCHANGED vars
  BY <1>3, <1>4 DEF vars, batchVars, callVars, gpuVars, historyVars
<1>5. CASE BeginSubmit \/ BeginSyncCall \/ BeginFlush \/ BeginReadback
  <2>1. waiting' = pending /\ pending' = 0 /\ UNCHANGED <<batches, abandoned>>
    BY <1>5 DEF BeginSubmit, BeginSyncCall, BeginFlush, BeginReadback, BeginSync, gpuVars
  <2> QED BY <1>1, <2>1 DEF DiscardInv
<1>6. CASE CommitSubmitted \/ CommitFlushed \/ BeginEncode \/ SubmitFence
  <2>1. /\ pc \in {"idle", "commit"} /\ UNCHANGED abandoned
        /\ \/ UNCHANGED <<batches, pending>> /\ pc' \notin {"sync", "flush"}
           \/ Commit /\ pending' = Committed /\ pc' \notin {"sync", "flush"}
           \/ Commit /\ pending' = pending /\ pc' = "flush" /\ waiting' = Committed
           \/ Commit /\ pending' = pending /\ pc' \notin {"sync", "flush"}
    <3>1. CASE CommitSubmitted
      BY <3>1 DEF CommitSubmitted, Return, batchVars, gpuVars
    <3>2. CASE CommitFlushed
      BY <3>2 DEF CommitFlushed, Return, batchVars, gpuVars
    <3>3. CASE BeginEncode
      BY <3>3 DEF BeginEncode, gpuVars
    <3>4. CASE SubmitFence
      BY <3>4 DEF SubmitFence, callVars, Idle
    <3> QED BY <1>6, <3>1, <3>2, <3>3, <3>4
  <2>2. CASE UNCHANGED <<batches, pending>> /\ pc' \notin {"sync", "flush"}
    BY <1>3, <2>1, <2>2
  <2>3. CASE Commit /\ pending' = Committed /\ pc' \notin {"sync", "flush"}
    BY <1>1, <1>2, <2>1, <2>3 DEF DiscardInv
  <2>4. CASE Commit /\ pending' = pending /\ pc' = "flush" /\ waiting' = Committed
    BY <1>1, <1>2, <2>1, <2>4 DEF DiscardInv
  <2>5. CASE Commit /\ pending' = pending /\ pc' \notin {"sync", "flush"}
    BY <1>1, <1>2, <2>1, <2>5 DEF DiscardInv
  <2> QED BY <2>1, <2>2, <2>3, <2>4, <2>5
<1>7. CASE ScopeError
  <2>1. /\ pc' = "idle" /\ pending' = 0 /\ UNCHANGED batches
        /\ abandoned' = IF pending \in Incomplete
                        THEN abandoned \cup {Dropped(pending, "discard")}
                        ELSE abandoned
    BY <1>7 DEF ScopeError, Idle, callVars, gpuVars
  <2>2. pending \in Incomplete => pending \in 1..Len(batches)
    BY DEF Incomplete, IInv, Typed
  <2>3. Dropped(pending, "discard").batch = pending
    BY DEF Dropped
  <2> QED BY <1>1, <2>1, <2>2, <2>3 DEF DiscardInv
<1>8. CASE BeginFenceWait \/ DropFence
  <2>1. /\ UNCHANGED <<batches, pending>> /\ pc' \notin {"sync", "flush"}
        /\ \A a \in abandoned' : a.how = "discard" => a \in abandoned
    BY <1>8 DEF BeginFenceWait, DropFence, Dropped, Idle, callVars, batchVars, gpuVars
  <2> QED BY <1>3, <2>1
<1>9. CASE \/ Clone \/ ToggleBypass \/ ToggleExplicit \/ ToggleDecode \/ ResetExplicit
           \/ TryReset \/ ReclaimPool \/ GiveUpPlanned \/ BeginStep \/ EndStep \/ AbandonStep \/ NormalizeOutput
  <2>1. UNCHANGED <<batches, pending, abandoned>> /\ pc' \notin {"sync", "flush"}
    BY <1>9 DEF Clone, ToggleBypass, ToggleExplicit, ToggleDecode, ResetExplicit,
       TryReset, ReclaimPool, GiveUpPlanned, BeginStep, EndStep, AbandonStep,
       NormalizeOutput, Idle, Return,
       batchVars, callVars, gpuVars
  <2> QED BY <1>3, <2>1
<1>10. CASE \/ SyncReturns \/ FlushReturns \/ Read \/ RotateReturns \/ Encode
            \/ EncodeRejected \/ FenceReturns
  <2>1. UNCHANGED <<batches, pending, abandoned>> /\ pc' \notin {"sync", "flush"}
    BY <1>10 DEF SyncReturns, FlushReturns, Read, RotateReturns, Encode, EncodeRejected,
       FenceReturns, Return, batchVars, gpuVars, historyVars
  <2> QED BY <1>3, <2>1
<1>11. CASE WaitFails
  <2>1. /\ UNCHANGED <<batches, pending>> /\ pc' \notin {"sync", "flush"}
        /\ \A a \in abandoned' : a.how = "discard" => a \in abandoned
    BY <1>11 DEF WaitFails, Dropped, Return, batchVars, gpuVars
  <2> QED BY <1>3, <2>1
<1>12. CASE GpuExecute
  BY <1>3, <1>12 DEF GpuExecute, batchVars, callVars, historyVars
<1>13. CASE GpuComplete \/ GpuFail
  <2>1. /\ UNCHANGED <<pending, waiting, pc, abandoned>>
        /\ \E b, state : batches' = [batches EXCEPT ![b].state = state]
    BY <1>13 DEF GpuComplete, GpuFail, GpuFinish, batchVars, callVars, historyVars
  <2>2. Len(batches') = Len(batches)
    BY <2>1 DEF IInv, Typed
  <2> QED BY <2>1, <2>2 DEF DiscardInv
<1> QED
  BY <1>4, <1>5, <1>6, <1>7, <1>8, <1>9, <1>10, <1>11, <1>12, <1>13
  DEF Next, Begin, Immediate, Continue, Gpu

\* Unless the client resets the arena by hand: whatever is submitted, rotated,
\* dropped or fails in between, the arena is reset only after a discarded batch
\* has finished.
THEOREM DiscardIsSafe ==
  ASSUME "reset" \notin Calls
  PROVE  Spec => DiscardedFinishFirst
<1> DEFINE DInv == IInv /\ QueueInv /\ ArenaShape /\ DiscardInv
<1>1. Init => DInv
  <2> SUFFICES ASSUME Init PROVE DInv
    OBVIOUS
  <2>1. IInv
    BY InitIInv
  <2>2. ArenaShape
    BY DEF Init, ArenaShape
  <2>3. Len(batches) = 0 /\ Len(queue) = 0 /\ queue \in Seq(Nat) /\ Unfinished = {}
    BY DEF Init, Unfinished
  <2>4. QueueInv
    BY <2>3 DEF QueueInv
  <2>5. DiscardInv
    BY <2>3 DEF Init, DiscardInv
  <2> QED BY <2>1, <2>2, <2>4, <2>5
<1>2. DInv /\ [Next]_vars => DInv'
  BY StepIInv, QueueStep, ResetPlaces, DiscardStep DEF IInv
<1>3. DInv /\ [Next]_vars =>
        (arena'.gen > arena.gen =>
           \A a \in abandoned : a.how = "discard" => a.batch \notin Unfinished)
  <2> SUFFICES ASSUME DInv, [Next]_vars, arena'.gen > arena.gen,
                      NEW a \in abandoned, a.how = "discard"
               PROVE  a.batch \notin Unfinished
    OBVIOUS
  <2>1. arena'.gen # arena.gen
    BY DEF ArenaShape
  <2>2. ~TryReset
    BY DEF TryReset, Idle
  <2>3. /\ pc \in {"sync", "flush"} /\ Done(waiting) /\ waiting # 0
    BY <2>1, <2>2, ResetPlaces DEF SyncReturns, FlushReturns, Done
  <2>4. /\ waiting \in DOMAIN batches /\ a.batch \in Nat /\ a.batch <= waiting
    BY <2>3 DEF DiscardInv, IInv, Typed
  <2> QED BY <2>3, <2>4, FinishedBefore DEF IInv
<1> QED BY <1>1, <1>2, <1>3, PTL DEF Spec, DiscardedFinishFirst

-----------------------------------------------------------------------------
(* Without submit nothing is pending, and the only wait that resets the      *)
(* arena is the one for the batch committed last.                            *)

NoSubmit == Calls \cap {"submit", "reset"} = {}

FlushInv ==
  /\ pending = 0 /\ call.op # "submit"
  /\ pc = "sync" => waiting = 0
  /\ pc = "flush" => waiting = Len(batches) /\ lazy.ops = <<>>

LEMMA FlushStep ==
  ASSUME "submit" \notin Calls, IInv, FlushInv, [Next]_vars
  PROVE  FlushInv'
<1>1. Commit => /\ Committed = Len(batches') /\ lazy'.ops = <<>>
  <2>1. [state |-> "committed", ops |-> lazy.ops] \in Batch /\ batches \in Seq(Batch)
    BY DEF IInv, Typed, Batch
  <2> QED BY <2>1 DEF Commit, Committed, NoBatch
<1>2. CASE UNCHANGED vars
  BY <1>2 DEF FlushInv, vars, batchVars, callVars, gpuVars
<1>3. CASE Begin
  <2>1. ~BeginSubmit
    BY DEF BeginSubmit, Idle
  <2>2. CASE BeginSyncCall \/ BeginFlush \/ BeginReadback
    <3>1. /\ waiting' = 0 /\ pending' = 0 /\ pc' = "sync" /\ call'.op # "submit"
      BY <2>2 DEF FlushInv, BeginSyncCall, BeginFlush, BeginReadback, BeginSync
    <3> QED BY <3>1 DEF FlushInv
  <2>3. CASE BeginEncode \/ BeginFenceWait
    <3>1. pending' = pending /\ pc' \notin {"sync", "flush"} /\ call'.op # "submit"
      BY <2>3 DEF BeginEncode, BeginFenceWait, NoCall, batchVars
    <3> QED BY <3>1 DEF FlushInv
  <2> QED BY <1>3, <2>1, <2>2, <2>3 DEF Begin
<1>4. CASE Immediate
  <2>1. /\ pc = "idle" /\ pc' = "idle" /\ pending' \in {0, pending}
        /\ call' \in {call, NoCall}
    BY <1>4 DEF Immediate, Clone, ScopeError, SubmitFence, DropFence, ToggleBypass,
       ToggleExplicit, ToggleDecode, ResetExplicit, TryReset, ReclaimPool, GiveUpPlanned,
       BeginStep, EndStep,
       AbandonStep, NormalizeOutput, Idle, Return, batchVars, callVars
  <2> QED BY <2>1 DEF FlushInv, NoCall
<1>5. CASE CommitSubmitted \/ CommitFlushed
  <2>1. /\ pc = "commit" /\ pending' = pending /\ call' \in {call, NoCall}
        /\ \/ pc' \notin {"sync", "flush"}
           \/ Commit /\ pc' = "flush" /\ waiting' = Committed
    <3>1. ~CommitSubmitted
      BY DEF CommitSubmitted, FlushInv
    <3> QED BY <1>5, <3>1 DEF CommitFlushed, Return, batchVars
  <2> QED BY <1>1, <2>1 DEF FlushInv, NoCall
<1>6. CASE Continue /\ ~(CommitSubmitted \/ CommitFlushed)
  <2>1. /\ pending' = pending /\ call' \in {call, NoCall}
        /\ pc' \notin {"sync", "flush"}
    BY <1>6 DEF Continue, SyncReturns, FlushReturns, WaitFails, Read, RotateReturns,
       Encode, EncodeRejected, FenceReturns, Return, batchVars
  <2> QED BY <2>1 DEF FlushInv, NoCall
<1>7. CASE Gpu
  <2>1. /\ UNCHANGED <<lazy, pending, pc, call, waiting>>
        /\ \/ batches' = batches
           \/ \E b, state : batches' = [batches EXCEPT ![b].state = state]
    BY <1>7 DEF Gpu, GpuExecute, GpuComplete, GpuFail, GpuFinish, batchVars, callVars
  <2>2. Len(batches') = Len(batches)
    BY <2>1 DEF IInv, Typed
  <2> QED BY <2>1, <2>2 DEF FlushInv
<1> QED BY <1>2, <1>3, <1>4, <1>5, <1>6, <1>7 DEF Next

LEMMA MovesAfterAllWork ==
  ASSUME NoSubmit, IInv, QueueInv, ArenaShape, FlushInv, [Next]_vars,
         arena'.gen # arena.gen
  PROVE  FlushReturns /\ lazy.ops = <<>> /\ Unfinished = {}
<1>1. ~TryReset
  BY DEF TryReset, Idle, NoSubmit
<1>2. ~(SyncReturns /\ Done(waiting))
  BY DEF SyncReturns, Done, FlushInv
<1>3. FlushReturns
  BY <1>1, <1>2, ResetPlaces
<1>4. Done(waiting) /\ waiting = Len(batches) /\ lazy.ops = <<>>
  BY <1>3 DEF FlushReturns, FlushInv
<1>5. Len(batches) \in Nat /\ DOMAIN batches = 1..Len(batches) /\ waiting # 0
  BY <1>4 DEF IInv, Typed, Done
<1>6. \A c \in DOMAIN batches : c \notin Unfinished
  BY <1>4, <1>5, FinishedBefore DEF IInv
<1> QED BY <1>3, <1>4, <1>6 DEF Unfinished

\* For programs that do not submit, whatever else they do and whatever fails:
\* when the arena is reset, all GPU work encoded so far is complete.
THEOREM ResetWaitsForAll ==
  ASSUME NoSubmit
  PROVE  Spec => ResetAfterAllWork
<1> DEFINE RInv == IInv /\ QueueInv /\ ArenaShape /\ FlushInv
<1>1. Init => RInv
  <2> SUFFICES ASSUME Init PROVE RInv
    OBVIOUS
  <2>1. IInv /\ ArenaShape
    BY InitIInv DEF Init, ArenaShape
  <2>2. Len(batches) = 0 /\ Len(queue) = 0 /\ queue \in Seq(Nat) /\ Unfinished = {}
    BY DEF Init, Unfinished
  <2>3. QueueInv
    BY <2>2 DEF QueueInv
  <2>4. FlushInv
    BY DEF Init, FlushInv, NoCall
  <2> QED BY <2>1, <2>3, <2>4
<1>2. RInv /\ [Next]_vars => RInv'
  BY StepIInv, QueueStep, ResetPlaces, FlushStep DEF IInv, NoSubmit
<1>3. RInv /\ [Next]_vars =>
        (arena'.gen > arena.gen => lazy.ops = <<>> /\ Unfinished = {})
  <2> SUFFICES ASSUME RInv, [Next]_vars, arena'.gen > arena.gen
               PROVE  lazy.ops = <<>> /\ Unfinished = {}
    OBVIOUS
  <2>1. arena'.gen # arena.gen
    BY DEF ArenaShape
  <2> QED BY <2>1, MovesAfterAllWork
<1> QED BY <1>1, <1>2, <1>3, PTL DEF Spec, ResetAfterAllWork

-----------------------------------------------------------------------------
(* The order of the operations.  The open batch is the last place, behind   *)
(* those committed; what is encoded keeps its place when it is committed.   *)

Places == 1..(Len(batches) + 1)
Ops == [b \in Places |-> IF b \in DOMAIN batches THEN batches[b].ops ELSE lazy.ops]

Before(b, i, c, j) == b < c \/ (b = c /\ i < j)

Encoded == {t \in Ids : \E b \in Places : \E i \in DOMAIN Ops[b] : Ops[b][i] = t}

OrderInv ==
  /\ \A b \in Places : \A i \in DOMAIN Ops[b] : Ops[b][i] \in Ids
  /\ \A b, c \in Places : \A i \in DOMAIN Ops[b], j \in DOMAIN Ops[c] :
       Before(b, i, c, j) => Ops[b][i] < Ops[c][j]
  /\ \A t \in Ids : t \in freed \/ t \in Encoded
  /\ ~lazy.open \/ pc = "rotate" => lazy.ops = <<>>

\* A step keeps the places, opens a place behind them, adds the operation of a
\* new tensor at the last place, or discards the last place.
KeepsOps ==
  /\ Len(batches') = Len(batches) /\ lazy'.ops = lazy.ops
  /\ \A b \in Places : Ops'[b] = Ops[b]
  /\ tensors' = tensors /\ freed \subseteq freed'
  /\ lazy'.open \/ ~lazy.open
  /\ pc' = "rotate" => pc = "rotate"

CommitsOps ==
  /\ Commit
  /\ Len(batches') = Len(batches) + 1 /\ lazy'.ops = <<>>
  /\ \A b \in Places : Ops'[b] = Ops[b]
  /\ Ops'[Len(batches) + 2] = <<>>
  /\ UNCHANGED <<tensors, freed>>

AddsOp(d) ==
  /\ UNCHANGED <<batches, freed>> /\ lazy'.open /\ pc' = "idle"
  /\ tensors' = Append(tensors, d)
  /\ lazy'.ops = Append(lazy.ops, Len(tensors) + 1)

DiscardsOps ==
  /\ UNCHANGED <<batches, tensors>> /\ pc' = "idle"
  /\ lazy'.ops = <<>> /\ freed' = freed \cup Elements(lazy.ops)

LEMMA SameBatches ==
  ASSUME UNCHANGED <<batches>>, lazy'.ops = lazy.ops
  PROVE  /\ Len(batches') = Len(batches)
         /\ \A b \in Places : Ops'[b] = Ops[b]
BY DEF Ops, Places

LEMMA CommitOps ==
  ASSUME Typed, Commit, UNCHANGED <<tensors, freed>>
  PROVE  CommitsOps
<1> DEFINE new == [state |-> "committed", ops |-> lazy.ops]
<1>1. new \in Batch /\ new.ops = lazy.ops
  BY DEF Typed, Batch
<1>2. batches' = Append(batches, new) /\ batches \in Seq(Batch) /\ lazy' = NoBatch
  BY DEF Commit, Typed
<1> HIDE DEF new
<1>3. /\ Len(batches) \in Nat /\ DOMAIN batches = 1..Len(batches)
      /\ Len(batches') = Len(batches) + 1 /\ DOMAIN batches' = 1..(Len(batches) + 1)
      /\ batches'[Len(batches) + 1] = new
      /\ \A i \in 1..Len(batches) : batches'[i] = batches[i]
  BY <1>1, <1>2
<1>4. lazy'.ops = <<>>
  BY <1>2 DEF NoBatch
<1>5. \A b \in Places : Ops'[b] = Ops[b]
  BY <1>1, <1>3 DEF Ops, Places
<1>6. Ops'[Len(batches) + 2] = <<>>
  <2>1. Len(batches) + 2 \in Places' /\ Len(batches) + 2 \notin DOMAIN batches'
    BY <1>3 DEF Places
  <2> QED BY <1>4, <2>1 DEF Ops
<1> QED BY <1>3, <1>4, <1>5, <1>6 DEF CommitsOps

LEMMA FinishOps ==
  ASSUME Typed, NEW state, GpuFinish(state)
  PROVE  /\ Len(batches') = Len(batches) /\ DOMAIN batches' = DOMAIN batches
         /\ \A b \in DOMAIN batches : batches'[b].ops = batches[b].ops
         /\ \A b \in Places : Ops'[b] = Ops[b]
<1>1. batches' = [batches EXCEPT ![Running].state = state] /\ lazy' = lazy
  BY DEF GpuFinish, batchVars
<1>2. DOMAIN batches' = DOMAIN batches /\ Len(batches') = Len(batches)
  <2>1. batches \in Seq(Batch)
    BY DEF Typed
  <2> QED BY <1>1, <2>1
<1>5. \A b \in DOMAIN batches :
        \/ batches'[b] = batches[b]
        \/ batches'[b] = [batches[b] EXCEPT !.state = state]
  BY <1>1 DEF Typed
<1>3. \A b \in DOMAIN batches : batches[b] \in Batch
  BY DEF Typed
<1>4. \A b \in DOMAIN batches : batches'[b].ops = batches[b].ops
  BY <1>5, <1>3 DEF Batch
<1> QED BY <1>1, <1>2, <1>4 DEF Ops, Places

LEMMA OpsMoves ==
  ASSUME Typed, [Next]_vars
  PROVE  KeepsOps \/ CommitsOps \/ (\E d : AddsOp(d)) \/ DiscardsOps
<1>1. CASE UNCHANGED vars
  BY <1>1, SameBatches DEF KeepsOps, vars, batchVars, clientVars, gpuVars, historyVars, callVars
<1>2. CASE BeginSubmit \/ BeginSyncCall \/ BeginFlush \/ BeginReadback \/ BeginFenceWait
  <2>1. UNCHANGED <<lazy, batches, tensors, freed>> /\ pc' # "rotate"
    BY <1>2 DEF BeginSubmit, BeginSyncCall, BeginFlush, BeginReadback, BeginSync,
       BeginFenceWait, batchVars, clientVars, gpuVars
  <2> QED BY <2>1, SameBatches DEF KeepsOps
<1>3. CASE BeginEncode \/ SubmitFence \/ CommitSubmitted \/ CommitFlushed
  <2>1. /\ UNCHANGED <<tensors, freed>>
        /\ Commit \/ (UNCHANGED <<lazy, batches>> /\ pc' # "rotate")
    BY <1>3 DEF BeginEncode, SubmitFence, CommitSubmitted, CommitFlushed, Return,
       clientVars, gpuVars, batchVars
  <2>2. CASE Commit
    BY <2>1, <2>2, CommitOps
  <2>3. CASE UNCHANGED <<lazy, batches>> /\ pc' # "rotate"
    BY <2>1, <2>3, SameBatches DEF KeepsOps
  <2> QED BY <2>1, <2>2, <2>3
<1>4. CASE \/ Clone \/ DropFence \/ ToggleBypass \/ ToggleExplicit \/ ToggleDecode
           \/ ResetExplicit \/ TryReset \/ ReclaimPool \/ GiveUpPlanned \/ BeginStep \/ EndStep \/ AbandonStep
  <2>1. UNCHANGED <<lazy, batches, tensors, pc>> /\ freed \subseteq freed'
    BY <1>4 DEF Clone, DropFence, ToggleBypass, ToggleExplicit, ToggleDecode,
       ResetExplicit, TryReset, ReclaimPool, GiveUpPlanned, BeginStep, EndStep, AbandonStep,
       batchVars, callVars, clientVars, gpuVars
  <2> QED BY <2>1, SameBatches DEF KeepsOps
<1>5. CASE ScopeError
  BY <1>5 DEF ScopeError, DiscardsOps, NoBatch, clientVars, gpuVars, callVars, Idle
<1>6. CASE NormalizeOutput
  <2>1. UNCHANGED <<batches, freed>> /\ pc' = "idle"
    BY <1>6 DEF NormalizeOutput, gpuVars, Return
  <2>2. PICK src : IF lazy.open
       THEN /\ tensors' = Append(tensors, Allocated("own", 0, src))
            /\ lazy' = [lazy EXCEPT !.ops = Append(@, Len(tensors) + 1)]
       ELSE UNCHANGED <<tensors, lazy>>
    BY <1>6 DEF NormalizeOutput
  <2>3. CASE lazy.open
    <3>1. lazy'.open /\ lazy'.ops = Append(lazy.ops, Len(tensors) + 1)
      BY <2>2, <2>3 DEF Typed
    <3>2. AddsOp(Allocated("own", 0, src))
      BY <2>1, <2>2, <2>3, <3>1 DEF AddsOp
    <3> QED BY <3>2
  <2>4. CASE ~lazy.open
    BY <2>1, <2>2, <2>4, SameBatches DEF KeepsOps
  <2> QED BY <2>3, <2>4
<1>7. CASE Encode
  <2>1. AddsOp(draft)
    BY <1>7 DEF Encode, AddsOp, gpuVars, Return
  <2> QED BY <2>1
<1>8. CASE EncodeRejected
  <2>1. UNCHANGED <<batches, tensors, freed>> /\ pc' = "idle" /\ lazy' = [lazy EXCEPT !.open = TRUE]
    BY <1>8 DEF EncodeRejected, Return, gpuVars, clientVars
  <2>2. lazy'.open /\ lazy'.ops = lazy.ops
    BY <2>1 DEF Typed
  <2> QED BY <2>1, <2>2, SameBatches DEF KeepsOps
<1>9. CASE \/ SyncReturns \/ FlushReturns \/ WaitFails \/ Read \/ RotateReturns \/ FenceReturns
  <2>1. UNCHANGED <<lazy, batches, tensors, freed>> /\ pc' # "rotate"
    BY <1>9 DEF SyncReturns, FlushReturns, WaitFails, Read, RotateReturns, FenceReturns,
       Return, batchVars, clientVars, gpuVars, historyVars
  <2> QED BY <2>1, SameBatches DEF KeepsOps
<1>10. CASE GpuExecute
  BY <1>10, SameBatches DEF GpuExecute, KeepsOps, batchVars, clientVars, historyVars, callVars
<1>11. CASE GpuComplete \/ GpuFail
  <2>1. PICK state : GpuFinish(state)
    BY <1>11 DEF GpuComplete, GpuFail
  <2>2. UNCHANGED <<lazy, tensors, freed, pc>>
    BY <2>1 DEF GpuFinish, batchVars, clientVars, historyVars, callVars
  <2> QED BY <2>1, <2>2, FinishOps DEF KeepsOps
<1> QED
  BY <1>1, <1>2, <1>3, <1>4, <1>5, <1>6, <1>7, <1>8, <1>9, <1>10, <1>11
  DEF Next, Begin, Immediate, Continue, Gpu

\* What AddsOp does to the places.
LEMMA AddedOp ==
  ASSUME Typed, NEW d, AddsOp(d)
  PROVE  /\ Len(batches) \in Nat /\ Len(tensors) \in Nat
         /\ Len(batches') = Len(batches) /\ Len(tensors') = Len(tensors) + 1
         /\ Ids = 1..Len(tensors) /\ Ids' = 1..(Len(tensors) + 1)
         /\ tensors'[Len(tensors) + 1] = d
         /\ \A t \in Ids : tensors'[t] = tensors[t]
         /\ \A b \in Places : b <= Len(batches) => Ops'[b] = Ops[b]
         /\ LET ops == Ops[Len(batches) + 1]
                new == Ops'[Len(batches) + 1] IN
            /\ Len(ops) \in Nat /\ DOMAIN ops = 1..Len(ops)
            /\ DOMAIN new = 1..(Len(ops) + 1)
            /\ new[Len(ops) + 1] = Len(tensors) + 1
            /\ \A i \in 1..Len(ops) : new[i] = ops[i]
<1>1. /\ UNCHANGED batches /\ tensors' = Append(tensors, d)
      /\ lazy'.ops = Append(lazy.ops, Len(tensors) + 1)
  BY DEF AddsOp
<1>2. /\ Len(batches) \in Nat /\ DOMAIN batches = 1..Len(batches)
      /\ lazy.ops \in Seq(Nat)
  BY DEF Typed
<1>3. tensors \in Seq(Elements(tensors))
  BY DEF Typed
<1>4. Len(tensors) \in Nat /\ DOMAIN tensors = 1..Len(tensors)
  BY <1>3
<1>5. /\ Len(tensors') = Len(tensors) + 1 /\ DOMAIN tensors' = 1..(Len(tensors) + 1)
      /\ tensors'[Len(tensors) + 1] = d
      /\ \A t \in 1..Len(tensors) : tensors'[t] = tensors[t]
  <2>1. tensors \in Seq(Elements(tensors) \cup {d}) /\ d \in Elements(tensors) \cup {d}
    BY <1>3
  <2> HIDE DEF Elements
  <2> QED BY <1>1, <1>4, <2>1
<1>6. Ops[Len(batches) + 1] = lazy.ops /\ Ops'[Len(batches) + 1] = lazy'.ops
  <2>1. /\ Len(batches) + 1 \in Places /\ Places' = Places
        /\ Len(batches) + 1 \notin DOMAIN batches
    BY <1>1, <1>2 DEF Places
  <2> QED BY <1>1, <2>1 DEF Ops
<1>7. \A b \in Places : b <= Len(batches) => Ops'[b] = Ops[b]
  BY <1>1, <1>2 DEF Ops, Places
<1>8. Len(tensors) + 1 \in Nat
  BY <1>4
<1> QED BY <1>1, <1>2, <1>4, <1>5, <1>6, <1>7, <1>8 DEF Ids

LEMMA OpsAreSeqs ==
  ASSUME Typed, NEW b \in Places
  PROVE  Ops[b] \in Seq(Nat) /\ Len(Ops[b]) \in Nat /\ DOMAIN Ops[b] = 1..Len(Ops[b])
<1>1. Ops[b] \in Seq(Nat)
  <2>1. \A c \in DOMAIN batches : batches[c] \in Batch
    BY DEF Typed
  <2> QED BY <2>1 DEF Ops, Typed, Batch
<1> QED BY <1>1

LEMMA OrderStep == ASSUME IInv, OrderInv, [Next]_vars PROVE OrderInv'
<1> USE DEF IInv
<1>0. /\ Len(batches) \in Nat /\ Places = 1..(Len(batches) + 1)
      /\ \A b \in Places : DOMAIN Ops[b] = 1..Len(Ops[b]) /\ Len(Ops[b]) \in Nat
  BY OpsAreSeqs DEF Typed, Places
<1>1. CASE KeepsOps
  <2>1. /\ Places' = Places /\ Ids' = Ids
    BY <1>1 DEF KeepsOps, Places, Ids
  <2>2. \A t \in Ids : t \in Encoded' <=> t \in Encoded
    BY <1>1, <2>1 DEF KeepsOps, Encoded
  <2> QED BY <1>1, <2>1, <2>2 DEF KeepsOps, OrderInv
<1>2. CASE CommitsOps
  <2>1. Places' = Places \cup {Len(batches) + 2} /\ Ids' = Ids
    BY <1>0, <1>2 DEF CommitsOps, Places, Ids
  <2>2. \A b \in Places' : \A i \in DOMAIN Ops'[b] : b \in Places /\ Ops'[b] = Ops[b]
    BY <1>2, <2>1 DEF CommitsOps
  <2>3. \A t \in Ids : t \in Encoded => t \in Encoded'
    BY <1>2, <2>1, <2>2 DEF CommitsOps, Encoded
  <2> QED BY <1>2, <2>1, <2>2, <2>3 DEF CommitsOps, OrderInv
<1>3. ASSUME NEW d, AddsOp(d) PROVE OrderInv'
  <2> DEFINE n == Len(batches) + 1
             m == Len(tensors) + 1
             k == Len(Ops[n])
  <2>1. /\ Places' = Places /\ n \in Places /\ m \in Nat \ {0} /\ Ids = 1..(m - 1) /\ Ids' = 1..m
        /\ k \in Nat /\ DOMAIN Ops[n] = 1..k /\ DOMAIN Ops'[n] = 1..(k + 1)
        /\ Ops'[n][k + 1] = m
        /\ \A i \in 1..k : Ops'[n][i] = Ops[n][i]
        /\ \A b \in Places : b # n => b < n /\ Ops'[b] = Ops[b]
    BY <1>0, <1>3, AddedOp DEF Places
  <2> HIDE DEF n, m, k
  <2>2. \A b \in Places : \A i \in DOMAIN Ops'[b] :
          \/ b = n /\ i = k + 1 /\ Ops'[b][i] = m
          \/ i \in DOMAIN Ops[b] /\ Ops'[b][i] = Ops[b][i]
    BY <2>1
  <2>3. \A b \in Places : \A i \in DOMAIN Ops'[b] : Ops'[b][i] \in Ids'
    <3>1. \A b \in Places : \A i \in DOMAIN Ops[b] : Ops[b][i] \in 1..(m - 1)
      BY <2>1 DEF OrderInv
    <3> SUFFICES ASSUME NEW b \in Places, NEW i \in DOMAIN Ops'[b]
                 PROVE  Ops'[b][i] \in Ids'
      OBVIOUS
    <3>2. CASE Ops'[b][i] = m
      BY <2>1, <3>2
    <3>3. CASE i \in DOMAIN Ops[b] /\ Ops'[b][i] = Ops[b][i]
      <4>1. Ops[b][i] \in 1..(m - 1)
        BY <3>1, <3>3
      <4> QED BY <2>1, <3>3, <4>1
    <3> QED BY <2>2, <3>2, <3>3
  <2>4. \A b, c \in Places : \A i \in DOMAIN Ops'[b], j \in DOMAIN Ops'[c] :
          Before(b, i, c, j) => Ops'[b][i] < Ops'[c][j]
    <3> SUFFICES ASSUME NEW b \in Places, NEW c \in Places, NEW i \in DOMAIN Ops'[b],
                        NEW j \in DOMAIN Ops'[c], Before(b, i, c, j)
                 PROVE  Ops'[b][i] < Ops'[c][j]
      OBVIOUS
    <3>1. ~(b = n /\ i = k + 1)
      BY <1>0, <2>1 DEF Before
    <3>2. i \in DOMAIN Ops[b] /\ Ops'[b][i] = Ops[b][i] /\ Ops[b][i] \in 1..(m - 1)
      BY <2>1, <2>2, <3>1 DEF OrderInv
    <3>3. CASE Ops'[c][j] = m
      BY <2>1, <3>2, <3>3
    <3>4. CASE Ops'[c][j] # m
      BY <2>2, <3>2, <3>4 DEF OrderInv
    <3> QED BY <3>3, <3>4
  <2>5. \A t \in Ids' : t \in freed' \/ t \in Encoded'
    <3> SUFFICES ASSUME NEW t \in Ids' PROVE t \in freed' \/ t \in Encoded'
      OBVIOUS
    <3>1. CASE t = m
      BY <2>1, <3>1 DEF Encoded
    <3>2. CASE t # m
      <4>1. t \in Ids
        BY <2>1, <3>2
      <4>2. t \in Encoded => t \in Encoded'
        BY <2>1 DEF Encoded
      <4> QED BY <1>3, <4>1, <4>2 DEF OrderInv, AddsOp
    <3> QED BY <3>1, <3>2
  <2>6. lazy'.open /\ pc' # "rotate"
    BY <1>3 DEF AddsOp
  <2> QED BY <2>1, <2>3, <2>4, <2>5, <2>6 DEF OrderInv
<1>4. CASE DiscardsOps
  <2>1. Places' = Places /\ Ids' = Ids /\ Len(batches) + 1 \notin DOMAIN batches
    BY <1>0, <1>4 DEF DiscardsOps, Places, Ids, Typed
  <2>2. /\ Ops'[Len(batches) + 1] = <<>> /\ Ops[Len(batches) + 1] = lazy.ops
        /\ \A b \in Places : b # Len(batches) + 1 => b \in DOMAIN batches /\ Ops'[b] = Ops[b]
    BY <1>0, <1>4, <2>1 DEF DiscardsOps, Ops, Typed
  <2>3. \A b \in Places : \A i \in DOMAIN Ops'[b] :
          b # Len(batches) + 1 /\ i \in DOMAIN Ops[b] /\ Ops'[b][i] = Ops[b][i]
    BY <2>2
  <2>4. \A t \in Ids : t \in Encoded => t \in Encoded' \/ t \in Elements(lazy.ops)
    BY <2>1, <2>2 DEF Encoded, Elements
  <2> QED BY <1>4, <2>1, <2>3, <2>4 DEF OrderInv, DiscardsOps
<1> QED BY <1>1, <1>2, <1>3, <1>4, OpsMoves

-----------------------------------------------------------------------------
(* Where tensors live.  Two tensors are given the same memory only if the   *)
(* earlier one was given up, or belongs to an earlier generation.           *)

Encoding == pc \in {"rotate", "encode"}

\* A tensor, the t-th, in a buffer of its own, in an entry of the pool or a range
\* of the planned buffer, in a slab of the default arena or in the explicit arena.
OwnPlace(d, t) == d.home = <<"own", t, 0>> /\ d.gen = NoGen
SlabPlace(d) ==
  /\ d.home = <<"slab", d.home[2], d.home[3]>>
  /\ d.home[2] \in 1..arena.slab /\ d.home[3] \in Nat \ {0}
  /\ d.gen \in 0..arena.gen /\ arena.exists
ExplicitPlace(d) ==
  d.home = <<"explicit", 0, d.home[3]>> /\ d.home[3] \in Nat /\ d.gen \in Nat
SharedPlace(d) ==
  /\ d.home[1] \in {"pool", "planned"} /\ d.home = <<d.home[1], 0, d.home[3]>>
  /\ d.home[3] \in Nat /\ d.gen = NoGen
Placed(d, t) ==
  /\ OwnPlace(d, t) \/ SharedPlace(d) \/ SlabPlace(d) \/ ExplicitPlace(d)
  /\ d.standalone => d.gen = NoGen

\* What is not given up lies below the bump pointer of its arena.
Below(d, off) ==
  d.home[1] = "slab" /\ d.gen = arena.gen /\ d.home[2] = arena.slab => d.home[3] <= off
Within(d) ==
  /\ Below(d, arena.off)
  /\ d.home[1] = "explicit" => d.home[3] <= explicit.off
  /\ d.home[1] = "pool" => d.home[3] <= issued

GaveWay(s, d) ==
  tensors[s].home = d.home =>
    s \in freed \/ (d.home[1] = "slab" /\ tensors[s].gen < d.gen)

ArenasTyped ==
  /\ ArenaShape
  /\ arena.off \in Nat /\ arena.cap \in Nat /\ arena.slab \in Nat \ {0}
  /\ explicit = [off |-> explicit.off, gen |-> explicit.gen]
  /\ explicit.off \in Nat /\ explicit.gen \in Nat /\ issued \in Nat

HomesInv ==
  /\ \A t \in Ids : Placed(tensors[t], t)
  /\ \A t \in Ids : t \notin freed => Within(tensors[t])
  /\ \A s, t \in Ids : s < t => GaveWay(s, tensors[t])

\* What was there when the step began lies below the saved bump pointer.
SavedInv ==
  /\ saved.gen \in Int /\ saved.gen <= arena.gen /\ saved.off \in Nat
  /\ saved.first \in 0..(Len(tensors) + 1)
  /\ saved.gen = arena.gen =>
       \A t \in Ids : t < saved.first /\ t \notin freed => Below(tensors[t], saved.off)

DraftPlaced ==
  Encoding =>
    /\ Placed(draft, Len(tensors) + 1) /\ Within(draft)
    /\ draft.home[1] = "slab" => draft.gen = arena.gen /\ arena.off # 0
    /\ \A s \in Ids : GaveWay(s, draft)

PlaceInv == ArenasTyped /\ HomesInv /\ SavedInv /\ DraftPlaced

-----------------------------------------------------------------------------
KeepsPlaces ==
  /\ UNCHANGED <<arena, explicit, issued, tensors, saved>> /\ freed \subseteq freed'
  /\ Encoding' => Encoding /\ UNCHANGED draft

MovesGeneration ==
  /\ arena' = [arena EXCEPT !.off = 0, !.gen = @ + 1] /\ arena.exists
  /\ UNCHANGED <<explicit, issued, tensors, saved, freed>> /\ ~Encoding'

AddsTensor(d) ==
  /\ AddsOp(d) /\ UNCHANGED <<arena, explicit, issued, saved>>
  /\ \/ Encoding /\ d = draft
     \/ \E src \in Ids : MayUse(src) /\ d = Allocated("own", 0, src)

LEMMA PlaceMoves ==
  ASSUME Typed, [Next]_vars
  PROVE  \/ KeepsPlaces \/ MovesGeneration \/ BeginEncode
         \/ \E d : AddsTensor(d)
         \/ ResetExplicit \/ ReclaimPool \/ BeginStep \/ EndStep \/ AbandonStep
<1>1. CASE UNCHANGED vars
  BY <1>1 DEF KeepsPlaces, Encoding, vars, arenaVars, callVars, clientVars, historyVars
<1>2. CASE Begin
  <2>1. BeginEncode \/ KeepsPlaces
    BY <1>2 DEF Begin, BeginSubmit, BeginSyncCall, BeginFlush, BeginReadback, BeginSync,
       BeginFenceWait, KeepsPlaces, Encoding, arenaVars, clientVars
  <2> QED BY <2>1
<1>3. CASE NormalizeOutput
  <2>1. /\ UNCHANGED <<arena, explicit, issued, bypass, saved, freed, batches>> /\ pc' = "idle"
    BY <1>3 DEF NormalizeOutput, Return, arenaVars, gpuVars
  <2>2. PICK src \in Ids : /\ MayUse(src)
       /\ IF lazy.open
       THEN /\ tensors' = Append(tensors, Allocated("own", 0, src))
            /\ lazy' = [lazy EXCEPT !.ops = Append(@, Len(tensors) + 1)]
       ELSE UNCHANGED <<tensors, lazy>>
    BY <1>3 DEF NormalizeOutput
  <2>3. CASE lazy.open
    <3>1. lazy'.open /\ lazy'.ops = Append(lazy.ops, Len(tensors) + 1)
      BY <2>2, <2>3 DEF Typed
    <3>2. AddsTensor(Allocated("own", 0, src))
      BY <2>1, <2>2, <2>3, <3>1 DEF AddsTensor, AddsOp
    <3> QED BY <3>2
  <2>4. CASE ~lazy.open
    BY <2>1, <2>2, <2>4 DEF KeepsPlaces, Encoding
  <2> QED BY <2>3, <2>4
<1>4. CASE TryReset
  <2>1. UNCHANGED <<explicit, issued, tensors, saved, freed>> /\ arena' = ResetArena /\ pc' = "idle"
    BY <1>4 DEF TryReset, Idle, callVars, clientVars
  <2> QED BY <2>1 DEF ResetArena, MovesGeneration, KeepsPlaces, Encoding
<1>5. CASE Immediate /\ ~NormalizeOutput /\ ~TryReset
  <2>1. \/ KeepsPlaces \/ ResetExplicit \/ ReclaimPool \/ BeginStep \/ EndStep \/ AbandonStep
    BY <1>5 DEF Immediate, Clone, ScopeError, SubmitFence, DropFence, ToggleBypass,
       ToggleExplicit, ToggleDecode, GiveUpPlanned, KeepsPlaces, Encoding, Idle,
       arenaVars, callVars, clientVars
  <2> QED BY <2>1
<1>6. CASE Encode
  <2>1. /\ pc = "encode" /\ tensors' = Append(tensors, draft) /\ pc' = "idle"
        /\ lazy' = [open |-> TRUE, ops |-> Append(lazy.ops, Len(tensors) + 1)]
        /\ UNCHANGED <<arena, explicit, issued, saved, batches, freed>>
    BY <1>6 DEF Encode, Return, arenaVars, gpuVars
  <2>2. AddsTensor(draft)
    BY <2>1 DEF AddsTensor, AddsOp, Encoding
  <2> QED BY <2>2
<1>7. CASE SyncReturns \/ FlushReturns
  <2>1. /\ UNCHANGED <<explicit, issued, tensors, saved, freed>>
        /\ pc' \notin {"rotate", "encode"}
        /\ arena' \in {arena, ResetArena}
    BY <1>7 DEF SyncReturns, FlushReturns, Return, clientVars
  <2> QED BY <2>1 DEF ResetArena, MovesGeneration, KeepsPlaces, Encoding
<1>8. CASE Continue /\ ~Encode /\ ~SyncReturns /\ ~FlushReturns
  <2>1. KeepsPlaces
    BY <1>8 DEF Continue, CommitSubmitted, CommitFlushed, WaitFails, Read, RotateReturns,
       RotatedArena, EncodeRejected, FenceReturns, Return, KeepsPlaces, Encoding,
       arenaVars, clientVars, historyVars
  <2> QED BY <2>1
<1>9. CASE Gpu
  BY <1>9 DEF Gpu, GpuExecute, GpuComplete, GpuFail, GpuFinish, KeepsPlaces, Encoding,
     arenaVars, callVars, clientVars, historyVars
<1> QED BY <1>1, <1>2, <1>3, <1>4, <1>5, <1>6, <1>7, <1>8, <1>9 DEF Next

-----------------------------------------------------------------------------
LEMMA TensorsSeq ==
  ASSUME Typed PROVE Len(tensors) \in Nat /\ Ids = 1..Len(tensors)
<1>1. tensors \in Seq(Elements(tensors))
  BY DEF Typed
<1> QED BY <1>1 DEF Ids

LEMMA KeepsPlaceInv == ASSUME PlaceInv, KeepsPlaces PROVE PlaceInv'
<1>1. Ids' = Ids
  BY DEF KeepsPlaces, Ids
<1>2. ArenasTyped'
  BY DEF PlaceInv, ArenasTyped, ArenaShape, KeepsPlaces
<1>3. HomesInv'
  BY <1>1 DEF PlaceInv, HomesInv, KeepsPlaces, Placed, OwnPlace, SharedPlace, SlabPlace, ExplicitPlace,
     Within, Below, GaveWay
<1>4. SavedInv'
  BY <1>1 DEF PlaceInv, SavedInv, KeepsPlaces, Below
<1>5. DraftPlaced'
  BY <1>1 DEF PlaceInv, DraftPlaced, KeepsPlaces, Placed, OwnPlace, SharedPlace, SlabPlace, ExplicitPlace,
     Within, Below, GaveWay
<1> QED BY <1>2, <1>3, <1>4, <1>5 DEF PlaceInv

LEMMA GenerationPlaceInv == ASSUME PlaceInv, MovesGeneration PROVE PlaceInv'
<1>1. Ids' = Ids /\ UNCHANGED <<explicit, issued, tensors, saved, freed>> /\ ~Encoding'
  BY DEF MovesGeneration, Ids
<1>2. /\ arena' = [exists |-> arena.exists, slab |-> arena.slab, cap |-> arena.cap,
                   off |-> 0, gen |-> arena.gen + 1]
      /\ arena.gen \in Nat
  BY DEF MovesGeneration, PlaceInv, ArenasTyped, ArenaShape
<1>3. /\ arena'.exists = arena.exists /\ arena'.slab = arena.slab /\ arena'.cap = arena.cap
      /\ arena'.off = 0 /\ arena'.gen = arena.gen + 1
  BY <1>2
<1>4. ArenasTyped'
  BY <1>1, <1>2, <1>3 DEF PlaceInv, ArenasTyped, ArenaShape
<1>5. \A t \in Ids : Placed(tensors[t], t)'
  <2> SUFFICES ASSUME NEW t \in Ids PROVE Placed(tensors[t], t)'
    OBVIOUS
  <2>1. Placed(tensors[t], t)
    BY DEF PlaceInv, HomesInv
  <2> QED BY <1>1, <1>2, <1>3, <2>1 DEF Placed, OwnPlace, SharedPlace, SlabPlace, ExplicitPlace
<1>6. \A t \in Ids : Below(tensors[t], 0)'
  BY <1>1, <1>2, <1>3 DEF PlaceInv, HomesInv, Placed, OwnPlace, SharedPlace, SlabPlace, ExplicitPlace, Below
<1>7. HomesInv'
  BY <1>1, <1>3, <1>5, <1>6 DEF PlaceInv, HomesInv, Within, GaveWay, Below
<1>8. SavedInv'
  BY <1>1, <1>2, <1>3 DEF PlaceInv, SavedInv
<1> QED BY <1>1, <1>4, <1>7, <1>8 DEF PlaceInv, DraftPlaced

\* The place an operation takes: nothing that is not given up is there.
LEMMA OwnIsNew ==
  ASSUME Typed, PlaceInv, NEW planned, NEW src
  PROVE  LET d == Allocated("own", planned, src) IN
         /\ OwnPlace(d, Len(tensors) + 1) /\ d.home[1] = "own" /\ d.src = src
         /\ d.gen = NoGen
         /\ \A s \in Ids : tensors[s].home # d.home
<1> DEFINE n == Len(tensors)
           d == Allocated("own", planned, src)
<1>1. d.home = <<"own", n + 1, 0>> /\ d.gen = NoGen /\ d.src = src
  BY DEF Allocated, Home
<1> HIDE DEF d
<1>2. n \in Nat /\ Ids = 1..n
  BY TensorsSeq
<1>3. \A s \in Ids : Placed(tensors[s], s)
  BY DEF PlaceInv, HomesInv
<1>4. \A s \in Ids : tensors[s].home # d.home
  BY <1>1, <1>2, <1>3 DEF Placed, OwnPlace, SharedPlace, SlabPlace, ExplicitPlace
<1>5. OwnPlace(d, n + 1) /\ d.home[1] = "own"
  BY <1>1 DEF OwnPlace
<1> QED BY <1>1, <1>4, <1>5 DEF d

\* As long as the default arena stays as it is.
LEMMA HomesKept ==
  ASSUME HomesInv, UNCHANGED <<arena, tensors, freed>>, Ids' = Ids,
         \A t \in Ids : t \notin freed => Within(tensors[t])'
  PROVE  HomesInv'
<1>1. \A t \in Ids : Placed(tensors[t], t)'
  <2> SUFFICES ASSUME NEW t \in Ids PROVE Placed(tensors[t], t)'
    OBVIOUS
  <2>1. Placed(tensors[t], t)
    BY DEF HomesInv
  <2> QED BY <2>1 DEF Placed, OwnPlace, SharedPlace, SlabPlace, ExplicitPlace
<1>2. \A s, t \in Ids : s < t => GaveWay(s, tensors[t])'
  <2> SUFFICES ASSUME NEW s \in Ids, NEW t \in Ids, s < t PROVE GaveWay(s, tensors[t])'
    OBVIOUS
  <2>1. GaveWay(s, tensors[t])
    BY DEF HomesInv
  <2> QED BY <2>1 DEF GaveWay
<1>3. \A t \in Ids : t \notin freed' => Within(tensors[t])'
  OBVIOUS
<1> QED BY <1>1, <1>2, <1>3 DEF HomesInv

LEMMA EncodePlaceInv == ASSUME Typed, PlaceInv, BeginEncode PROVE PlaceInv'
<1> DEFINE n == Len(tensors)
<1>1. /\ UNCHANGED <<tensors, saved, freed, bypass>> /\ Ids' = Ids /\ ~Encoding
      /\ n \in Nat /\ Ids = 1..n
  BY TensorsSeq DEF BeginEncode, clientVars, Encoding, Ids
<1>2. PICK src, planned :
        /\ planned \in {0} \cup IF InStep THEN FreeRanges ELSE {}
        /\ LET route == Route(planned) IN
           /\ draft' = Allocated(route, planned, src)
           /\ arena' = IF route = "slab" THEN ArenaAfterAlloc ELSE arena
           /\ explicit' = IF route = "explicit"
                          THEN [explicit EXCEPT !.off = @ + 1] ELSE explicit
           /\ issued' = IssuedAfter(route)
  BY DEF BeginEncode
<1>3. /\ Route(planned) \in {"own", "pool", "planned", "explicit", "slab"}
      /\ bypass => Route(planned) \in {"own", "pool"}
      /\ Route(planned) = "planned" => planned \in FreeRanges
  BY <1>2 DEF Route, PoolRoute
<1>4. /\ arena = [exists |-> arena.exists, slab |-> arena.slab, cap |-> arena.cap,
                  off |-> arena.off, gen |-> arena.gen]
      /\ arena.gen \in Nat /\ arena.off \in Nat /\ arena.cap \in Nat /\ arena.slab \in Nat \ {0}
      /\ explicit = [off |-> explicit.off, gen |-> explicit.gen]
      /\ explicit.off \in Nat /\ explicit.gen \in Nat /\ issued \in Nat
  BY DEF PlaceInv, ArenasTyped, ArenaShape
<1>5. \A t \in Ids : /\ Placed(tensors[t], t)
                     /\ t \notin freed => Within(tensors[t])
  BY DEF PlaceInv, HomesInv
<1>6. CASE Route(planned) \in {"own", "pool", "planned"}
  <2>1. draft' = Allocated(Route(planned), planned, src) /\ UNCHANGED <<arena, explicit>>
    BY <1>2, <1>6
  <2>2. issued' \in {issued, issued + 1} /\ (Route(planned) = "pool" => issued' = issued + 1)
    BY <1>2 DEF IssuedAfter
  <2>3. ArenasTyped'
    BY <1>4, <2>1, <2>2 DEF PlaceInv, ArenasTyped, ArenaShape
  <2>4. \A t \in Ids : t \notin freed => Within(tensors[t])'
    <3> SUFFICES ASSUME NEW t \in Ids, t \notin freed PROVE Within(tensors[t])'
      OBVIOUS
    <3>1. Within(tensors[t]) /\ Placed(tensors[t], t)
      BY <1>5
    <3>2. tensors[t].home[1] = "pool" => tensors[t].home[3] \in Nat
      BY <3>1 DEF Placed, OwnPlace, SharedPlace, SlabPlace, ExplicitPlace
    <3> QED BY <1>1, <1>4, <2>1, <2>2, <3>1, <3>2 DEF Within, Below
  <2>5. HomesInv'
    BY <1>1, <2>1, <2>4, HomesKept DEF PlaceInv
  <2>6. SavedInv'
    BY <1>1, <2>1 DEF PlaceInv, SavedInv, Below
  <2>7. draft'.gen = NoGen
    BY <1>6, <2>1 DEF Allocated
  <2>8. /\ OwnPlace(draft', n + 1) \/ SharedPlace(draft')
        /\ draft'.home[1] # "slab" /\ draft'.home[1] # "explicit"
        /\ draft'.home[1] = "pool" => draft'.home[3] <= issued'
        /\ \A s \in Ids : tensors[s].home = draft'.home => s \in freed
    <3>1. CASE Route(planned) = "own"
      BY <2>1, <3>1, OwnIsNew DEF OwnPlace
    <3>2. CASE Route(planned) = "pool"
      <4>1. draft'.home = <<"pool", 0, issued + 1>> /\ issued' = issued + 1
        BY <2>1, <2>2, <3>2 DEF Allocated, Home
      <4>2. SharedPlace(draft')
        BY <1>4, <2>7, <4>1 DEF SharedPlace
      <4>3. \A s \in Ids : tensors[s].home = draft'.home => s \in freed
        BY <1>4, <1>5, <4>1 DEF Within
      <4> QED BY <1>4, <4>1, <4>2, <4>3
    <3>3. CASE Route(planned) = "planned"
      <4>1. draft'.home = <<"planned", 0, planned>> /\ planned \in FreeRanges
        BY <1>3, <2>1, <3>3 DEF Allocated, Home
      <4>2. planned \in Nat /\ \A s \in Ids : tensors[s].home = <<"planned", 0, planned>> => s \in freed
        BY <4>1, RuntimeAssumption DEF FreeRanges
      <4>3. SharedPlace(draft')
        BY <2>7, <4>1, <4>2 DEF SharedPlace
      <4> QED BY <4>1, <4>2, <4>3
    <3> QED BY <1>6, <3>1, <3>2, <3>3
  <2>9. DraftPlaced'
    <3>1. Placed(draft, Len(tensors) + 1)' /\ Within(draft)'
      BY <1>1, <2>7, <2>8 DEF Placed, OwnPlace, SharedPlace, Within, Below
    <3> QED BY <1>1, <2>8, <3>1 DEF DraftPlaced, GaveWay
  <2> QED BY <2>3, <2>5, <2>6, <2>9 DEF PlaceInv
<1>7. CASE Route(planned) = "explicit"
  <2>1. /\ draft'.home = <<"explicit", 0, explicit.off + 1>>
        /\ draft'.gen = explicit.gen /\ draft'.standalone = bypass
        /\ arena' = arena /\ issued' = issued
        /\ explicit' = [off |-> explicit.off + 1, gen |-> explicit.gen]
    BY <1>2, <1>4, <1>7 DEF Allocated, Home, IssuedAfter
  <2>2. /\ draft'.home[1] = "explicit" /\ draft'.home[3] = explicit.off + 1
        /\ explicit'.off = explicit.off + 1 /\ explicit'.gen = explicit.gen
    BY <2>1
  <2>3. ArenasTyped'
    BY <1>4, <2>1, <2>2 DEF PlaceInv, ArenasTyped, ArenaShape
  <2>4. \A t \in Ids : t \notin freed => Within(tensors[t])'
    <3> SUFFICES ASSUME NEW t \in Ids, t \notin freed PROVE Within(tensors[t])'
      OBVIOUS
    <3>1. Within(tensors[t]) /\ Placed(tensors[t], t)
      BY <1>5
    <3>2. tensors[t].home[1] = "explicit" => tensors[t].home[3] \in Nat
      BY <3>1 DEF Placed, OwnPlace, SharedPlace, SlabPlace, ExplicitPlace
    <3> QED BY <1>1, <1>4, <2>1, <2>2, <3>1, <3>2 DEF Within, Below
  <2>5. HomesInv'
    BY <1>1, <2>1, <2>4, HomesKept DEF PlaceInv
  <2>6. SavedInv'
    BY <1>1, <2>1 DEF PlaceInv, SavedInv, Below
  <2>7. \A s \in Ids : GaveWay(s, draft)'
    <3> SUFFICES ASSUME NEW s \in Ids, tensors[s].home = draft'.home PROVE s \in freed
      BY <1>1 DEF GaveWay
    <3>1. tensors[s].home[1] = "explicit" /\ tensors[s].home[3] = explicit.off + 1
      BY <2>2
    <3> QED BY <1>4, <1>5, <3>1 DEF Within
  <2>8. DraftPlaced'
    <3>1. ExplicitPlace(draft') /\ ~draft'.standalone
      BY <1>3, <1>4, <1>7, <2>1, <2>2 DEF ExplicitPlace
    <3> QED BY <1>1, <1>4, <2>2, <2>7, <3>1 DEF DraftPlaced, Placed, ExplicitPlace, Within, Below
  <2> QED BY <2>3, <2>5, <2>6, <2>8 DEF PlaceInv
<1>8. CASE Route(planned) = "slab"
  <2>1. /\ draft'.home = <<"slab", ArenaAfterAlloc.slab, ArenaAfterAlloc.off>>
        /\ draft'.gen = arena.gen /\ draft'.standalone = bypass
        /\ arena' = ArenaAfterAlloc /\ UNCHANGED <<explicit, issued>>
    BY <1>2, <1>8 DEF Allocated, Home, IssuedAfter
  <2>2. \/ arena' = [exists |-> TRUE, slab |-> arena.slab, cap |-> arena.cap,
                     off |-> arena.off + 1, gen |-> arena.gen]
        \/ arena' = [exists |-> TRUE, slab |-> arena.slab + 1, cap |-> 2 * arena.cap,
                     off |-> 1, gen |-> arena.gen]
    BY <1>4, <2>1 DEF ArenaAfterAlloc, GrownArena
  <2>3. /\ arena'.gen = arena.gen /\ arena'.exists
        /\ arena'.off \in Nat \ {0} /\ arena'.slab \in Nat \ {0}
        /\ \/ arena'.slab = arena.slab /\ arena'.off = arena.off + 1
           \/ arena'.slab = arena.slab + 1 /\ arena'.off = 1
    BY <1>4, <2>2
  <2>4. /\ draft'.home = <<"slab", arena'.slab, arena'.off>> /\ draft'.gen = arena.gen
        /\ draft'.home[1] = "slab" /\ draft'.home[2] = arena'.slab
        /\ draft'.home[3] = arena'.off
    BY <2>1
  <2>5. ArenasTyped'
    BY <1>4, <2>1, <2>2 DEF PlaceInv, ArenasTyped, ArenaShape
  <2>6. \A t \in Ids : /\ Placed(tensors[t], t)'
                       /\ t \notin freed => Within(tensors[t])'
                       /\ \A o \in Nat : Below(tensors[t], o) => Below(tensors[t], o)'
    <3> SUFFICES ASSUME NEW t \in Ids
                 PROVE /\ Placed(tensors[t], t)'
                       /\ t \notin freed => Within(tensors[t])'
                       /\ \A o \in Nat : Below(tensors[t], o) => Below(tensors[t], o)'
      OBVIOUS
    <3>1. Placed(tensors[t], t) /\ (t \notin freed => Within(tensors[t]))
      BY <1>5
    <3>2. tensors'[t] = tensors[t] /\ UNCHANGED <<explicit, issued>>
      BY <1>1, <2>1
    <3>3. CASE SlabPlace(tensors[t])
      <4>1. /\ tensors[t].home[2] \in 1..arena.slab /\ tensors[t].home[3] \in Nat
            /\ tensors[t].home[1] = "slab"
        BY <3>3 DEF SlabPlace
      <4>2. SlabPlace(tensors[t])'
        BY <1>4, <2>3, <3>2, <3>3 DEF SlabPlace
      <4>3. t \notin freed => Within(tensors[t])'
        BY <1>4, <2>3, <3>1, <3>2, <4>1 DEF Within, Below
      <4>5. tensors'[t].standalone => tensors'[t].gen = NoGen
        BY <3>1, <3>2 DEF Placed
      <4>4. \A o \in Nat : Below(tensors[t], o) => Below(tensors[t], o)'
        BY <1>4, <2>3, <3>2, <4>1 DEF Below
      <4> QED BY <4>2, <4>3, <4>4, <4>5 DEF Placed
    <3>4. CASE OwnPlace(tensors[t], t) \/ SharedPlace(tensors[t]) \/ ExplicitPlace(tensors[t])
      <4>1. tensors[t].home[1] # "slab"
        BY <3>4 DEF OwnPlace, SharedPlace, ExplicitPlace
      <4>2. Placed(tensors[t], t)'
        BY <3>1, <3>2, <3>4 DEF Placed, OwnPlace, SharedPlace, ExplicitPlace
      <4> QED BY <3>1, <3>2, <4>1, <4>2 DEF Within, Below
    <3> QED BY <3>1, <3>3, <3>4 DEF Placed
  <2>7. HomesInv'
    BY <1>1, <2>6 DEF PlaceInv, HomesInv, GaveWay
  <2>8. SavedInv'
    BY <1>1, <2>3, <2>6 DEF PlaceInv, SavedInv
  <2>9. \A s \in Ids : GaveWay(s, draft)'
    <3> SUFFICES ASSUME NEW s \in Ids, tensors[s].home = draft'.home, s \notin freed
                 PROVE tensors[s].gen < arena.gen
      BY <1>1, <2>4 DEF GaveWay
    <3>1. /\ tensors[s].home[1] = "slab" /\ tensors[s].home[2] = arena'.slab
          /\ tensors[s].home[3] = arena'.off
      BY <2>4
    <3>2. SlabPlace(tensors[s])
      BY <1>5, <3>1 DEF Placed, OwnPlace, SharedPlace, ExplicitPlace
    <3>3. arena'.slab = arena.slab /\ arena'.off = arena.off + 1
      BY <1>4, <2>3, <3>1, <3>2 DEF SlabPlace
    <3> QED BY <1>4, <1>5, <3>1, <3>2, <3>3 DEF SlabPlace, Within, Below
  <2>10. DraftPlaced'
    <3>1. SlabPlace(draft)' /\ ~draft'.standalone
      BY <1>1, <1>3, <1>4, <1>8, <2>1, <2>3, <2>4 DEF SlabPlace
    <3> QED BY <1>1, <2>3, <2>4, <2>9, <3>1 DEF DraftPlaced, Placed, Within, Below
  <2> QED BY <2>5, <2>7, <2>8, <2>10 DEF PlaceInv
<1> QED BY <1>3, <1>6, <1>7, <1>8

LEMMA AddPlaceInv ==
  ASSUME Typed, PlaceInv, NEW d, AddsTensor(d)
  PROVE  PlaceInv'
<1> DEFINE n == Len(tensors)
<1>1. /\ UNCHANGED <<arena, explicit, issued, saved, freed>> /\ ~Encoding'
      /\ n \in Nat /\ Ids = 1..n /\ Ids' = 1..(n + 1) /\ Len(tensors') = n + 1
      /\ tensors'[n + 1] = d /\ \A t \in Ids : tensors'[t] = tensors[t]
  BY AddedOp DEF AddsTensor, AddsOp, Encoding
<1>2. Placed(d, n + 1) /\ Within(d) /\ \A s \in Ids : GaveWay(s, d)
  <2>1. CASE Encoding /\ d = draft
    BY <2>1 DEF PlaceInv, DraftPlaced
  <2>2. CASE \E src \in Ids : MayUse(src) /\ d = Allocated("own", 0, src)
    BY <2>2, OwnIsNew DEF Placed, Within, Below, GaveWay
  <2> QED BY <2>1, <2>2 DEF AddsTensor
<1> HIDE DEF n
<1>3. \A t \in Ids' : t \in Ids \/ t = n + 1
  BY <1>1
<1>4. \A t \in Ids' : Placed(tensors[t], t)'
  BY <1>1, <1>2, <1>3 DEF PlaceInv, HomesInv, Placed, OwnPlace, SharedPlace, SlabPlace, ExplicitPlace
<1>5. \A t \in Ids' : t \notin freed' => Within(tensors[t])'
  BY <1>1, <1>2, <1>3 DEF PlaceInv, HomesInv, Within, Below
<1>6. \A s, t \in Ids' : s < t => GaveWay(s, tensors[t])'
  <2> SUFFICES ASSUME NEW s \in Ids', NEW t \in Ids', s < t PROVE GaveWay(s, tensors[t])'
    OBVIOUS
  <2>1. s \in Ids
    BY <1>1
  <2>2. CASE t = n + 1
    BY <1>1, <1>2, <2>1, <2>2 DEF GaveWay
  <2>3. CASE t \in Ids
    <3>1. GaveWay(s, tensors[t])
      BY <2>1, <2>3 DEF PlaceInv, HomesInv
    <3> QED BY <1>1, <2>1, <2>3, <3>1 DEF GaveWay
  <2> QED BY <1>3, <2>2, <2>3
<1>7. SavedInv'
  <2>1. saved.first \in 0..(n + 1)
    BY DEF PlaceInv, SavedInv, n
  <2>2. \A t \in Ids' : t < saved.first => t \in Ids
    BY <1>1, <2>1
  <2>3. \A t \in Ids : Below(tensors[t], saved.off)' <=> Below(tensors[t], saved.off)
    BY <1>1 DEF Below
  <2> QED BY <1>1, <2>1, <2>2, <2>3 DEF PlaceInv, SavedInv
<1> QED BY <1>1, <1>4, <1>5, <1>6, <1>7 DEF PlaceInv, HomesInv, DraftPlaced, ArenasTyped, ArenaShape

LEMMA StepPlaceInv ==
  ASSUME Typed, PlaceInv,
         ResetExplicit \/ ReclaimPool \/ BeginStep \/ EndStep \/ AbandonStep
  PROVE  PlaceInv'
<1>1. /\ pc' = "idle" /\ UNCHANGED tensors /\ Ids' = Ids /\ ~Encoding' /\ freed \subseteq freed'
      /\ Len(tensors) \in Nat /\ Ids = 1..Len(tensors)
  BY TensorsSeq DEF ResetExplicit, ReclaimPool, BeginStep, EndStep, AbandonStep, Idle, callVars, clientVars, Encoding, Ids
<1>2. DraftPlaced'
  BY <1>1 DEF DraftPlaced
<1>3. /\ ArenaShape /\ arena.gen \in Nat /\ arena.off \in Nat
      /\ \A t \in Ids : Placed(tensors[t], t) /\ (t \notin freed => Within(tensors[t]))
  BY DEF PlaceInv, ArenasTyped, ArenaShape, HomesInv
<1>4. CASE ResetExplicit
  <2>1. /\ explicit' = [off |-> 0, gen |-> explicit.gen + 1]
        /\ UNCHANGED <<arena, issued, saved>>
        /\ freed' = freed \cup {t \in Ids : tensors[t].home[1] = "explicit"}
    BY <1>4 DEF ResetExplicit, clientVars
  <2>2. ArenasTyped'
    BY <2>1 DEF PlaceInv, ArenasTyped, ArenaShape
  <2>3. HomesInv'
    BY <1>1, <2>1 DEF PlaceInv, HomesInv, Placed, OwnPlace, SharedPlace, SlabPlace, ExplicitPlace,
       Within, Below, GaveWay
  <2>4. SavedInv'
    BY <1>1, <2>1 DEF PlaceInv, SavedInv, Below
  <2> QED BY <1>2, <2>2, <2>3, <2>4 DEF PlaceInv
<1>5. CASE BeginStep
  <2>1. /\ UNCHANGED <<arena, explicit, issued, freed>>
        /\ saved' = [gen |-> IF arena.exists THEN arena.gen ELSE NoGen,
                     off |-> arena.off, first |-> Len(tensors) + 1]
    BY <1>5 DEF BeginStep, arenaVars
  <2>2. /\ saved'.gen \in {arena.gen, NoGen} /\ saved'.off = arena.off
        /\ saved'.first = Len(tensors) + 1
    BY <2>1
  <2>3. SavedInv'
    BY <1>1, <1>3, <2>1, <2>2 DEF SavedInv, Within, Below, NoGen
  <2>4. ArenasTyped' /\ HomesInv'
    BY <1>1, <2>1 DEF PlaceInv, ArenasTyped, ArenaShape, HomesInv, Placed, OwnPlace, SharedPlace, SlabPlace,
       ExplicitPlace, Within, Below, GaveWay
  <2> QED BY <1>2, <2>3, <2>4 DEF PlaceInv
<1>6. CASE EndStep
  <2>1. /\ arena' = IF Restorable THEN [arena EXCEPT !.off = saved.off] ELSE arena
        /\ freed' = freed \cup {t \in Ids : t >= saved.first /\ tensors[t].home[1] = "slab"}
        /\ saved' = NotSaved /\ UNCHANGED <<explicit, issued>>
    BY <1>6 DEF EndStep
  <2>2. /\ saved.off \in Nat /\ saved.first \in Nat
        /\ saved.gen = arena.gen =>
             \A t \in Ids : t < saved.first /\ t \notin freed => Below(tensors[t], saved.off)
    BY <1>1 DEF PlaceInv, SavedInv
  <2>3. /\ arena' = [exists |-> arena.exists, slab |-> arena.slab, cap |-> arena.cap,
                     off |-> arena'.off, gen |-> arena.gen]
        /\ arena'.off \in Nat
        /\ arena'.off = arena.off \/ (saved.gen = arena.gen /\ arena'.off = saved.off)
    BY <1>3, <2>1, <2>2 DEF ArenaShape, Restorable
  <2>4. /\ arena'.exists = arena.exists /\ arena'.slab = arena.slab /\ arena'.cap = arena.cap
        /\ arena'.gen = arena.gen
    BY <2>3
  <2>5. ArenasTyped'
    BY <2>1, <2>3, <2>4 DEF PlaceInv, ArenasTyped, ArenaShape
  <2>6. \A t \in Ids : Placed(tensors[t], t)'
    BY <1>1, <1>3, <2>4 DEF Placed, OwnPlace, SharedPlace, SlabPlace, ExplicitPlace
  <2>7. \A t \in Ids : t \notin freed' => Within(tensors[t])'
    <3> SUFFICES ASSUME NEW t \in Ids, t \notin freed' PROVE Within(tensors[t])'
      OBVIOUS
    <3>1. Within(tensors[t]) /\ t \notin freed
      BY <1>3, <2>1
    <3>2. tensors[t].home[1] = "slab" => t < saved.first
      BY <1>1, <2>1, <2>2
    <3> QED BY <1>1, <2>1, <2>2, <2>3, <2>4, <3>1, <3>2 DEF Within, Below
  <2>8. HomesInv'
    BY <1>1, <2>6, <2>7 DEF PlaceInv, HomesInv, GaveWay
  <2>9. SavedInv'
    BY <1>1, <1>3, <2>1, <2>4 DEF SavedInv, NotSaved, NoGen
  <2> QED BY <1>2, <2>5, <2>8, <2>9 DEF PlaceInv
<1>7. CASE AbandonStep
  <2>1. UNCHANGED <<arena, explicit, issued, freed>> /\ saved' = NotSaved
    BY <1>7 DEF AbandonStep, arenaVars
  <2>2. SavedInv'
    BY <1>1, <1>3, <2>1 DEF SavedInv, NotSaved, NoGen
  <2>3. ArenasTyped' /\ HomesInv'
    BY <1>1, <2>1 DEF PlaceInv, ArenasTyped, ArenaShape, HomesInv, Placed, OwnPlace, SharedPlace, SlabPlace,
       ExplicitPlace, Within, Below, GaveWay
  <2> QED BY <1>2, <2>2, <2>3 DEF PlaceInv
<1>8. CASE ReclaimPool
  <2>1. /\ issued' = 0 /\ UNCHANGED <<arena, explicit, saved>>
        /\ freed' = freed \cup {t \in Ids : tensors[t].home[1] = "pool"}
    BY <1>8 DEF ReclaimPool, clientVars
  <2>2. ArenasTyped'
    BY <2>1 DEF PlaceInv, ArenasTyped, ArenaShape
  <2>3. HomesInv'
    BY <1>1, <2>1 DEF PlaceInv, HomesInv, Placed, OwnPlace, SharedPlace, SlabPlace, ExplicitPlace,
       Within, Below, GaveWay
  <2>4. SavedInv'
    BY <1>1, <2>1 DEF PlaceInv, SavedInv, Below
  <2> QED BY <1>2, <2>2, <2>3, <2>4 DEF PlaceInv
<1> QED BY <1>4, <1>5, <1>6, <1>7, <1>8

LEMMA PlaceStep == ASSUME Typed, PlaceInv, [Next]_vars PROVE PlaceInv'
BY PlaceMoves, KeepsPlaceInv, GenerationPlaceInv, EncodePlaceInv, AddPlaceInv, StepPlaceInv

LEMMA InitPlaces == Init => OrderInv /\ PlaceInv
<1> SUFFICES ASSUME Init PROVE OrderInv /\ PlaceInv
  OBVIOUS
<1>1. tensors = <<>> /\ Ids = {} /\ Len(tensors) = 0 /\ ~Encoding
  BY DEF Init, Ids, Encoding
<1>2. Places = {1} /\ Ops[1] = <<>> /\ lazy.ops = <<>>
  BY DEF Init, Places, Ops, NoBatch
<1>3. OrderInv
  BY <1>1, <1>2 DEF OrderInv
<1>4. /\ arena = [exists |-> FALSE, slab |-> 1, cap |-> ArenaSlots, off |-> 0, gen |-> 0]
      /\ explicit = [off |-> 0, gen |-> 0] /\ issued = 0
      /\ saved = NotSaved /\ ArenaSlots \in Nat
  BY RuntimeAssumption DEF Init
<1>5. ArenasTyped /\ SavedInv
  BY <1>1, <1>4 DEF ArenasTyped, ArenaShape, SavedInv, NotSaved, NoGen
<1> QED BY <1>1, <1>3, <1>5 DEF PlaceInv, HomesInv, DraftPlaced

-----------------------------------------------------------------------------
(* The inputs of the operations.  What an operation reads was encoded before *)
(* it, and nothing encoded in between was given its memory.                 *)

Undisturbed(d, t) ==
  d.src # 0 =>
    /\ d.src \in Ids /\ d.src < t /\ d.src \in Encoded
    /\ \A u \in Ids : d.src < u /\ u < t => tensors[u].home # tensors[d.src].home

SourceInv ==
  /\ \A t \in Encoded : Undisturbed(tensors[t], t)
  /\ Encoding => Undisturbed(draft, Len(tensors) + 1)

\* What stays encoded keeps what was encoded before it.
LEMMA EncodedMoves ==
  ASSUME Typed, OrderInv, [Next]_vars
  PROVE  \/ Encoded' = Encoded /\ UNCHANGED tensors
         \/ \E d : AddsOp(d) /\ Encoded' = Encoded \cup {Len(tensors) + 1}
         \/ /\ UNCHANGED tensors /\ pc' = "idle" /\ Encoded' \subseteq Encoded
            /\ \A t \in Encoded', s \in Encoded : s < t => s \in Encoded'
<1>0. /\ Len(batches) \in Nat /\ Places = 1..(Len(batches) + 1)
      /\ \A b \in Places : DOMAIN Ops[b] = 1..Len(Ops[b]) /\ Len(Ops[b]) \in Nat
      /\ \A b \in Places : \A i \in DOMAIN Ops[b] : Ops[b][i] \in Ids /\ Ops[b][i] \in Nat
      /\ Len(tensors) \in Nat /\ Ids = 1..Len(tensors)
  BY OpsAreSeqs, TensorsSeq DEF Typed, Places, OrderInv
<1>1. CASE KeepsOps
  <2>1. Places' = Places /\ Ids' = Ids /\ UNCHANGED tensors
    BY <1>1 DEF KeepsOps, Places, Ids
  <2> QED BY <1>1, <2>1 DEF KeepsOps, Encoded
<1>2. CASE CommitsOps
  <2>1. Places' = Places \cup {Len(batches) + 2} /\ Ids' = Ids /\ UNCHANGED tensors
    BY <1>0, <1>2 DEF CommitsOps, Places, Ids
  <2>2. \A b \in Places' : \A i \in DOMAIN Ops'[b] : b \in Places /\ Ops'[b] = Ops[b]
    BY <1>2, <2>1 DEF CommitsOps
  <2>3. \A b \in Places : b \in Places' /\ Ops'[b] = Ops[b]
    BY <1>2, <2>1 DEF CommitsOps
  <2> QED BY <2>1, <2>2, <2>3 DEF Encoded
<1>3. ASSUME NEW d, AddsOp(d) PROVE Encoded' = Encoded \cup {Len(tensors) + 1}
  <2> DEFINE n == Len(batches) + 1
             m == Len(tensors) + 1
             k == Len(Ops[n])
  <2>1. /\ Places' = Places /\ n \in Places /\ m \in Nat \ {0} /\ Ids = 1..(m - 1) /\ Ids' = 1..m
        /\ k \in Nat /\ DOMAIN Ops[n] = 1..k /\ DOMAIN Ops'[n] = 1..(k + 1)
        /\ Ops'[n][k + 1] = m
        /\ \A i \in 1..k : Ops'[n][i] = Ops[n][i]
        /\ \A b \in Places : b # n => b < n /\ Ops'[b] = Ops[b]
    BY <1>0, <1>3, AddedOp DEF Places
  <2> HIDE DEF n, m, k
  <2>2. \A b \in Places : \A i \in DOMAIN Ops'[b] :
          Ops'[b][i] = m \/ (i \in DOMAIN Ops[b] /\ Ops'[b][i] = Ops[b][i])
    BY <2>1
  <2>3. \A b \in Places : \A i \in DOMAIN Ops[b] :
          i \in DOMAIN Ops'[b] /\ Ops'[b][i] = Ops[b][i]
    BY <2>1
  <2>4. m \in Encoded'
    BY <2>1 DEF Encoded
  <2>5. Encoded \subseteq Encoded'
    BY <2>1, <2>3 DEF Encoded
  <2>6. Encoded' \subseteq Encoded \cup {m}
    BY <1>0, <2>1, <2>2 DEF Encoded
  <2> QED BY <2>4, <2>5, <2>6 DEF m
<1>4. CASE DiscardsOps
  <2> DEFINE n == Len(batches) + 1
  <2>1. /\ Places' = Places /\ Ids' = Ids /\ n \notin DOMAIN batches /\ n \in Places
        /\ UNCHANGED tensors /\ pc' = "idle"
    BY <1>0, <1>4 DEF DiscardsOps, Places, Ids, Typed
  <2>2. /\ Ops'[n] = <<>>
        /\ \A b \in Places : b # n => b < n /\ Ops'[b] = Ops[b]
    BY <1>0, <1>4, <2>1 DEF DiscardsOps, Ops, Typed
  <2>3. \A t \in Encoded', s \in Encoded : s < t => s \in Encoded'
    <3> SUFFICES ASSUME NEW t \in Encoded', NEW s \in Encoded, s < t
                 PROVE  s \in Encoded'
      OBVIOUS
    <3>1. PICK b \in Places : \E i \in DOMAIN Ops'[b] : Ops'[b][i] = t
      BY <2>1 DEF Encoded
    <3>2. PICK i \in DOMAIN Ops[b] : b < n /\ Ops[b][i] = t
      BY <2>2, <3>1
    <3>3. PICK c \in Places : \E j \in DOMAIN Ops[c] : Ops[c][j] = s
      BY DEF Encoded
    <3>4. PICK j \in DOMAIN Ops[c] : Ops[c][j] = s
      BY <3>3
    <3>5. c # n
      <4>1. Before(b, i, c, j) => t < s
        BY <3>2, <3>4 DEF OrderInv
      <4> QED BY <1>0, <3>2, <3>4, <4>1 DEF Before
    <3> QED BY <2>1, <2>2, <3>4, <3>5 DEF Encoded
  <2>4. Encoded' \subseteq Encoded
    BY <2>1, <2>2 DEF Encoded
  <2> QED BY <2>1, <2>3, <2>4
<1> QED BY <1>1, <1>2, <1>3, <1>4, OpsMoves DEF KeepsOps, CommitsOps

\* An operation that reads a tensor the client may use.
LEMMA MayUseUndisturbed ==
  ASSUME Typed, OrderInv, PlaceInv, NEW s \in Ids, MayUse(s)
  PROVE  /\ s \in Encoded
         /\ \A u \in Ids : s < u => tensors[u].home # tensors[s].home
<1>1. s \in Encoded
  BY DEF OrderInv, MayUse
<1>2. SUFFICES ASSUME NEW u \in Ids, s < u, tensors[u].home = tensors[s].home
               PROVE  FALSE
  BY <1>1
<1>3. /\ GaveWay(s, tensors[u]) /\ s \notin freed
      /\ Placed(tensors[s], s) /\ Placed(tensors[u], u)
  BY <1>2 DEF PlaceInv, HomesInv, MayUse
<1>4. tensors[u].home[1] = "slab" /\ tensors[s].gen < tensors[u].gen
  BY <1>2, <1>3 DEF GaveWay
<1>5. SlabPlace(tensors[u]) /\ SlabPlace(tensors[s])
  BY <1>2, <1>3, <1>4 DEF Placed, OwnPlace, SharedPlace, ExplicitPlace
<1>6. tensors[s].gen \in Nat /\ tensors[s].gen # arena.gen
  BY <1>4, <1>5 DEF SlabPlace, PlaceInv, ArenasTyped, ArenaShape
<1> QED BY <1>2, <1>4, <1>6 DEF MayUse, NoGen

LEMMA SourceStep ==
  ASSUME IInv, OrderInv, PlaceInv, SourceInv, [Next]_vars
  PROVE  SourceInv'
<1> DEFINE n == Len(tensors)
<1>0. Typed /\ n \in Nat /\ Ids = 1..n
  BY TensorsSeq DEF IInv
<1>1. ASSUME Encoding' PROVE BeginEncode \/ (Encoding /\ UNCHANGED <<draft, tensors>>)
  BY <1>0, <1>1, PlaceMoves DEF KeepsPlaces, MovesGeneration, AddsTensor, AddsOp, Encoding,
     ResetExplicit, ReclaimPool, BeginStep, EndStep, AbandonStep, Idle, callVars
<1>2. ASSUME NEW d, AddsTensor(d) PROVE Undisturbed(d, n + 1)
  <2>1. CASE Encoding /\ d = draft
    BY <2>1 DEF SourceInv
  <2>2. ASSUME NEW src \in Ids, MayUse(src), d = Allocated("own", 0, src)
        PROVE  Undisturbed(d, n + 1)
    BY <1>0, <2>2, MayUseUndisturbed, OwnIsNew DEF Undisturbed
  <2> QED BY <1>2, <2>1, <2>2 DEF AddsTensor
<1>3. ASSUME NEW d, AddsOp(d) PROVE \E e : AddsTensor(e)
  <2>1. Len(tensors') # Len(tensors)
    BY <1>0, <1>3, AddedOp
  <2>2. tensors' # tensors
    BY <2>1
  <2> QED BY <1>0, <2>2, PlaceMoves DEF KeepsPlaces, MovesGeneration, BeginEncode,
          ResetExplicit, ReclaimPool, BeginStep, EndStep, AbandonStep, clientVars
<1>4. CASE /\ UNCHANGED tensors /\ Encoded' \subseteq Encoded
           /\ \A t \in Encoded', s \in Encoded : s < t => s \in Encoded'
           /\ Encoding' => Encoded' = Encoded
  <2>1. Ids' = Ids /\ n' = n
    BY <1>4 DEF Ids
  <2>2. \A t \in Encoded' : Undisturbed(tensors[t], t)'
    BY <1>4, <2>1 DEF SourceInv, Undisturbed
  <2>3. ASSUME Encoding' PROVE Undisturbed(draft, n + 1)'
    <3>1. CASE Encoding /\ UNCHANGED <<draft, tensors>>
      BY <1>4, <2>1, <2>3, <3>1 DEF SourceInv, Undisturbed
    <3>2. CASE BeginEncode
      <4>1. PICK src \in {0} \cup {t \in Ids : MayUse(t)} :
              \E planned : draft' = Allocated(Route(planned), planned, src)
        BY <3>2 DEF BeginEncode
      <4>2. draft'.src = src
        BY <4>1 DEF Allocated
      <4>3. src # 0 => src \in Ids /\ MayUse(src)
        BY <4>1
      <4> QED BY <1>0, <1>4, <2>1, <2>3, <4>2, <4>3, MayUseUndisturbed DEF Undisturbed
    <3> QED BY <1>1, <2>3, <3>1, <3>2
  <2> QED BY <2>2, <2>3 DEF SourceInv
<1>5. ASSUME NEW e, AddsOp(e), Encoded' = Encoded \cup {n + 1}
      PROVE SourceInv'
  <2>1. PICK d : AddsTensor(d)
    BY <1>3, <1>5
  <2>2. /\ Ids' = 1..(n + 1) /\ tensors'[n + 1] = d
        /\ \A t \in Ids : tensors'[t] = tensors[t]
        /\ ~Encoding'
    BY <1>0, <2>1, AddedOp DEF AddsTensor, AddsOp, Encoding
  <2>3. Undisturbed(d, n + 1)
    BY <1>2, <2>1
  <2> HIDE DEF n
  <2>4. \A t \in Encoded' : Undisturbed(tensors[t], t)'
    <3> SUFFICES ASSUME NEW t \in Encoded', tensors'[t].src # 0
                 PROVE  /\ tensors'[t].src \in Ids' /\ tensors'[t].src < t
                        /\ tensors'[t].src \in Encoded'
                        /\ \A u \in Ids' : tensors'[t].src < u /\ u < t =>
                             tensors'[u].home # tensors'[tensors'[t].src].home
      BY DEF Undisturbed
    <3>1. CASE t = n + 1
      BY <1>0, <1>5, <2>2, <2>3, <3>1 DEF Undisturbed
    <3>2. CASE t \in Encoded
      <4>1. t \in Ids /\ tensors'[t] = tensors[t]
        BY <2>2, <3>2 DEF Encoded
      <4>2. Undisturbed(tensors[t], t)
        BY <3>2 DEF SourceInv
      <4>3. \A u \in Ids' : u < t => u \in Ids
        BY <1>0, <2>2, <4>1
      <4> QED BY <1>0, <1>5, <2>2, <4>1, <4>2, <4>3 DEF Undisturbed
    <3> QED BY <1>5, <3>1, <3>2
  <2> QED BY <2>2, <2>4 DEF SourceInv
<1> QED BY <1>0, <1>4, <1>5, EncodedMoves DEF Encoding

-----------------------------------------------------------------------------
(* What the GPU has done.  The operations of a batch that is finished, and  *)
(* the first ones of the batch that runs, have been executed, in order.     *)

Ran ==
  [b \in DOMAIN batches |->
     {i \in DOMAIN batches[b].ops : b \in Unfinished => b = queue[1] /\ i <= executed}]
Executed == {t \in Nat : \E b \in DOMAIN batches : \E i \in Ran[b] : batches[b].ops[i] = t}

NoneFailed == \A b \in DOMAIN batches : batches[b].state # "error"

ExecInv ==
  /\ executed \in Nat
  /\ queue = <<>> => executed = 0
  /\ queue # <<>> => executed <= Len(batches[queue[1]].ops)

\* Unless a batch failed, what was executed holds its data until a later
\* operation that was given its memory is executed.
DataInv ==
  /\ intact \subseteq Executed
  /\ NoneFailed =>
       \A t \in Executed :
         \/ t \in intact
         \/ \E u \in Executed : t < u /\ tensors[u].home = tensors[t].home

RunsInv == ExecInv /\ DataInv

LEMMA BatchOps ==
  ASSUME Typed
  PROVE  /\ Len(batches) \in Nat /\ DOMAIN batches = 1..Len(batches)
         /\ \A b \in DOMAIN batches :
              /\ batches[b] \in Batch /\ b \in Places /\ Ops[b] = batches[b].ops
              /\ Len(batches[b].ops) \in Nat
              /\ DOMAIN batches[b].ops = 1..Len(batches[b].ops)
              /\ \A i \in DOMAIN batches[b].ops : batches[b].ops[i] \in Nat
<1>1. \A b \in DOMAIN batches : batches[b] \in Batch /\ batches[b].ops \in Seq(Nat)
  <2>1. \A b \in DOMAIN batches : batches[b] \in Batch
    BY DEF Typed
  <2> QED BY <2>1 DEF Batch
<1>2. Len(batches) \in Nat /\ DOMAIN batches = 1..Len(batches)
  BY DEF Typed
<1> QED BY <1>1, <1>2 DEF Places, Ops

LEMMA QueueHead ==
  ASSUME Typed, QueueInv
  PROVE  /\ queue = <<>> => Unfinished = {}
         /\ queue # <<>> =>
              /\ queue[1] \in Unfinished
              /\ \A b \in Unfinished : queue[1] <= b
              /\ \A b \in DOMAIN batches : b < queue[1] => b \notin Unfinished
<1>1. /\ Len(batches) \in Nat /\ Len(queue) \in Nat /\ Len(queue) <= Len(batches)
      /\ DOMAIN batches = 1..Len(batches)
      /\ \A i \in 1..Len(queue) : queue[i] = Len(batches) - Len(queue) + i
      /\ Unfinished = {b \in 1..Len(batches) : b > Len(batches) - Len(queue)}
      /\ queue = <<>> <=> Len(queue) = 0
  BY DEF Typed, QueueInv
<1> QED BY <1>1

\* The operation the GPU executes next comes after all it has executed, and
\* what was encoded before it has been executed.
LEMMA NextOp ==
  ASSUME Typed, OrderInv, QueueInv, ExecInv,
         queue # <<>>, executed < Len(batches[queue[1]].ops)
  PROVE  LET t == batches[queue[1]].ops[executed + 1] IN
         /\ executed + 1 \in DOMAIN batches[queue[1]].ops
         /\ t \in Encoded
         /\ \A s \in Executed : s < t /\ s \in Encoded
         /\ \A s \in Encoded : s < t => s \in Executed
<1> DEFINE q == queue[1]
           e == executed + 1
           t == batches[q].ops[e]
<1>1. q \in DOMAIN batches /\ q \in Unfinished
  BY QueueHead DEF Unfinished
<1>2. e \in DOMAIN batches[q].ops /\ e \in Nat
  BY <1>1, BatchOps DEF ExecInv
<1>3. q \in Places /\ Ops[q] = batches[q].ops /\ Places = 1..(Len(batches) + 1)
  BY <1>1, BatchOps DEF Places
<1>4. t \in Encoded
  BY <1>2, <1>3 DEF Encoded, OrderInv
<1>5. ASSUME NEW s \in Executed PROVE s < t /\ s \in Encoded
  <2>1. PICK b \in DOMAIN batches : \E i \in Ran[b] : batches[b].ops[i] = s
    BY DEF Executed
  <2>2. PICK i \in DOMAIN batches[b].ops :
          batches[b].ops[i] = s /\ (b \in Unfinished => b = q /\ i <= executed)
    BY <2>1 DEF Ran
  <2>3. b \in Places /\ Ops[b] = batches[b].ops /\ b \in Nat /\ i \in Nat /\ q \in Nat
    BY <1>1, BatchOps
  <2>4. b \notin Unfinished => b < q
    BY <1>1, <2>3, QueueHead, BatchOps DEF QueueInv
  <2>5. Before(b, i, q, e)
    BY <1>2, <2>2, <2>3, <2>4 DEF Before, ExecInv
  <2>6. s < t
    BY <1>2, <1>3, <2>2, <2>3, <2>5 DEF OrderInv
  <2> QED BY <2>2, <2>3, <2>6 DEF Encoded, OrderInv
<1>6. ASSUME NEW s \in Encoded, s < t PROVE s \in Executed
  <2>1. PICK c \in Places : \E j \in DOMAIN Ops[c] : Ops[c][j] = s
    BY DEF Encoded
  <2>2. PICK j \in DOMAIN Ops[c] : Ops[c][j] = s
    BY <2>1
  <2>3. c \in Nat /\ j \in Nat /\ q \in Nat /\ s \in Nat /\ t \in Nat
    <3>1. c \in Nat /\ q \in Nat /\ t \in Nat
      BY <1>1, <1>2, BatchOps DEF Places
    <3>2. j \in Nat
      BY <2>2, OpsAreSeqs
    <3>3. s \in Nat
      BY TensorsSeq DEF Encoded
    <3> QED BY <3>1, <3>2, <3>3
  <2>4. ~(Before(q, e, c, j) \/ (c = q /\ j = e))
    <3>1. Before(q, e, c, j) => t < s
      BY <1>2, <1>3, <2>2 DEF OrderInv
    <3>2. c = q /\ j = e => t = s
      BY <1>3, <2>2
    <3> QED BY <1>6, <2>3, <3>1, <3>2
  <2>5. c < q \/ (c = q /\ j <= executed)
    BY <1>2, <2>3, <2>4 DEF Before, ExecInv
  <2>6. c \in DOMAIN batches
    <3>1. Len(batches) \in Nat /\ DOMAIN batches = 1..Len(batches)
      BY BatchOps
    <3>2. c \in 1..(Len(batches) + 1)
      BY DEF Places
    <3> QED BY <1>1, <2>3, <2>5, <3>1, <3>2
  <2>7. j \in Ran[c]
    BY <2>2, <2>5, <2>6, QueueHead, BatchOps DEF Ran
  <2> QED BY <2>2, <2>3, <2>6, <2>7, BatchOps DEF Executed
<1> QED BY <1>2, <1>4, <1>5, <1>6

\* Committing a batch executes nothing.
LEMMA CommitRuns ==
  ASSUME Typed, QueueInv, ExecInv, Commit
  PROVE  ExecInv' /\ Executed' = Executed /\ (NoneFailed' => NoneFailed) /\ intact' = intact
<1> DEFINE n == Len(batches)
           new == [state |-> "committed", ops |-> lazy.ops]
<1>1. new \in Batch /\ new.ops = lazy.ops /\ n \in Nat /\ DOMAIN batches = 1..n
  BY DEF Typed, Batch
<1>2. /\ batches' = Append(batches, new) /\ batches \in Seq(Batch)
      /\ queue' = Append(queue, n + 1) /\ queue \in Seq(Nat)
      /\ UNCHANGED <<executed, intact>>
  BY DEF Commit, Typed, QueueInv
<1> HIDE DEF new, n
<1>3. /\ DOMAIN batches' = 1..(n + 1) /\ batches'[n + 1] = new
      /\ \A b \in 1..n : batches'[b] = batches[b]
  BY <1>1, <1>2 DEF n
<1>4. /\ queue # <<>> => queue'[1] = queue[1]
      /\ queue = <<>> => queue'[1] = n + 1
      /\ queue' # <<>>
  BY <1>1, <1>2
<1>5. Unfinished' = Unfinished \cup {n + 1}
  BY CommitFacts DEF Committed, n
<1>6. Unfinished \subseteq 1..n
  BY <1>1 DEF Unfinished
<1>7. Ran'[n + 1] = {}
  <2>1. DOMAIN new.ops \subseteq Nat \ {0}
    BY <1>1 DEF Batch
  <2>2. queue # <<>> => queue'[1] # n + 1
    BY <1>1, <1>4, <1>6, QueueHead
  <2>3. queue = <<>> => executed' = 0
    BY <1>2 DEF ExecInv
  <2>4. \A i \in DOMAIN new.ops : ~(n + 1 = queue'[1] /\ i <= executed')
    BY <2>1, <2>2, <2>3
  <2> QED BY <1>1, <1>3, <1>5, <2>4 DEF Ran
<1>8. \A b \in 1..n : Ran'[b] = Ran[b]
  <2> SUFFICES ASSUME NEW b \in 1..n PROVE Ran'[b] = Ran[b]
    OBVIOUS
  <2>1. b \in Unfinished' <=> b \in Unfinished
    BY <1>1, <1>5
  <2>2. b \in Unfinished => queue'[1] = queue[1]
    BY <1>4, QueueHead
  <2> QED BY <1>1, <1>2, <1>3, <2>1, <2>2 DEF Ran
<1>9. Executed' = Executed
  <2>1. \A b \in DOMAIN batches' : b = n + 1 \/ b \in 1..n
    BY <1>1, <1>3
  <2> QED BY <1>1, <1>3, <1>7, <1>8, <2>1 DEF Executed
<1>10. ExecInv'
  <2>1. CASE queue = <<>>
    <3>1. executed' = 0 /\ queue'[1] = n + 1 /\ batches'[queue'[1]].ops \in Seq(Nat)
      BY <1>1, <1>2, <1>3, <1>4, <2>1 DEF ExecInv, Typed
    <3> QED BY <1>4, <3>1 DEF ExecInv
  <2>2. CASE queue # <<>>
    <3>1. queue[1] \in 1..n /\ batches'[queue'[1]] = batches[queue[1]]
      BY <1>3, <1>4, <1>6, <2>2, QueueHead
    <3> QED BY <1>2, <1>4, <2>2, <3>1 DEF ExecInv
  <2> QED BY <2>1, <2>2
<1>11. NoneFailed' => NoneFailed
  <2>1. DOMAIN batches \subseteq DOMAIN batches' /\ \A b \in DOMAIN batches : batches'[b] = batches[b]
    BY <1>1, <1>3
  <2> QED BY <2>1 DEF NoneFailed
<1> QED BY <1>2, <1>9, <1>10, <1>11

\* A batch that finishes was executed to its end, unless it failed.
LEMMA FinishRuns ==
  ASSUME Typed, QueueInv, QueueInv', ExecInv, NEW state \in {"completed", "error"},
         GpuFinish(state), state = "error" \/ executed = Len(batches[Running].ops)
  PROVE  /\ ExecInv' /\ Executed \subseteq Executed' /\ intact' = intact
         /\ NoneFailed' => NoneFailed /\ Executed' = Executed
<1> DEFINE q == queue[1]
<1>1. /\ queue # <<>> /\ executed' = 0 /\ intact' = intact /\ queue' = Tail(queue)
      /\ batches' = [batches EXCEPT ![q].state = state]
  BY DEF GpuFinish, Running
<1>2. /\ DOMAIN batches' = DOMAIN batches
      /\ \A b \in DOMAIN batches : batches'[b].ops = batches[b].ops
  BY FinishOps
<1>3. q \in DOMAIN batches /\ q \in Unfinished /\ batches[q] \in Batch
  BY <1>1, QueueHead, BatchOps DEF Unfinished
<1>4. /\ \A b \in DOMAIN batches : b # q => batches'[b] = batches[b]
      /\ batches'[q].state = state
  BY <1>1, <1>3, BatchOps DEF Batch
<1> HIDE DEF q
<1>5. Unfinished' = Unfinished \ {q}
  BY <1>2, <1>3, <1>4 DEF Unfinished
<1>6. ExecInv'
  <2>1. CASE queue' = <<>>
    BY <1>1, <2>1 DEF ExecInv
  <2>2. CASE queue' # <<>>
    <3>1. queue'[1] \in Unfinished'
      <4>1. /\ Len(queue') \in Nat /\ Len(queue') # 0 /\ 1 \in 1..Len(queue')
        BY <2>2 DEF QueueInv
      <4>2. /\ queue'[1] = Len(batches') - Len(queue') + 1 /\ Len(queue') <= Len(batches')
            /\ Unfinished' = {b \in 1..Len(batches') : b > Len(batches') - Len(queue')}
        BY <4>1 DEF QueueInv
      <4>3. Len(batches') \in Nat
        BY FinishOps, BatchOps
      <4> QED BY <4>1, <4>2, <4>3
    <3>2. queue'[1] \in DOMAIN batches
      BY <1>2, <3>1 DEF Unfinished
    <3>3. Len(batches'[queue'[1]].ops) \in Nat
      BY <1>2, <3>2, BatchOps
    <3> QED BY <1>1, <2>2, <3>3 DEF ExecInv
  <2> QED BY <2>1, <2>2
<1>7. \A b \in DOMAIN batches : b # q => Ran'[b] = Ran[b]
  <2> SUFFICES ASSUME NEW b \in DOMAIN batches, b # q PROVE Ran'[b] = Ran[b]
    OBVIOUS
  <2>1. b \in Unfinished' <=> b \in Unfinished
    BY <1>5
  <2>2. DOMAIN batches[b].ops \subseteq Nat \ {0}
    BY BatchOps
  <2>3. b \in Unfinished => Ran[b] = {}
    BY DEF Ran, q
  <2>4. b \in Unfinished => Ran'[b] = {}
    BY <1>1, <1>2, <2>1, <2>2 DEF Ran
  <2>5. b \notin Unfinished => Ran'[b] = Ran[b]
    BY <1>2, <2>1 DEF Ran
  <2> QED BY <2>3, <2>4, <2>5
<1>8. Ran'[q] = DOMAIN batches[q].ops /\ Ran[q] \subseteq DOMAIN batches[q].ops
  BY <1>2, <1>3, <1>5 DEF Ran
<1>9. Executed \subseteq Executed'
  BY <1>2, <1>7, <1>8 DEF Executed
<1>10. ASSUME NoneFailed' PROVE NoneFailed /\ Executed' = Executed
  <2>1. state # "error"
    BY <1>2, <1>3, <1>4, <1>10 DEF NoneFailed
  <2>2. NoneFailed
    BY <1>2, <1>3, <1>4, <1>10 DEF NoneFailed, Unfinished
  <2>3. Ran[q] = DOMAIN batches[q].ops
    BY <1>3, <2>1, BatchOps DEF Ran, Running, q
  <2>4. \A b \in DOMAIN batches : Ran'[b] = Ran[b]
    BY <1>7, <1>8, <2>3
  <2>5. Executed' = Executed
    BY <1>2, <2>4 DEF Executed
  <2> QED BY <2>2, <2>5
<1> QED BY <1>1, <1>6, <1>9, <1>10

\* Executing the next operation.
LEMMA ExecuteRuns ==
  ASSUME Typed, OrderInv, QueueInv, SourceInv, RunsInv, GpuExecute
  PROVE  RunsInv'
<1> DEFINE q == queue[1]
           t == batches[q].ops[executed + 1]
<1>1. /\ queue # <<>> /\ executed < Len(batches[q].ops)
      /\ executed' = executed + 1
      /\ intact' = {u \in intact : tensors[u].home # tensors[t].home}
               \cup (IF tensors[t].src \in intact \cup {0} THEN {t} ELSE {})
      /\ UNCHANGED <<tensors, batches, queue>>
  BY DEF GpuExecute, Running, clientVars
<1>2. /\ executed + 1 \in DOMAIN batches[q].ops /\ t \in Encoded /\ q \in DOMAIN batches
      /\ q \in Unfinished /\ Unfinished' = Unfinished
      /\ \A s \in Executed : s < t /\ s \in Encoded
      /\ \A s \in Encoded : s < t => s \in Executed
  BY <1>1, NextOp, QueueHead DEF RunsInv, Unfinished
<1>3. executed \in Nat /\ t \in Nat /\ Len(batches[q].ops) \in Nat
  BY <1>2, BatchOps DEF RunsInv, ExecInv
<1>4. ExecInv'
  BY <1>1, <1>3 DEF ExecInv
<1>5. Executed' = Executed \cup {t}
  <2>1. \A b \in DOMAIN batches : b # q => Ran'[b] = Ran[b]
    BY <1>1, <1>2 DEF Ran
  <2>2. Ran'[q] = Ran[q] \cup {executed + 1}
    <3>1. Ran[q] = {i \in DOMAIN batches[q].ops : i <= executed}
      BY <1>2 DEF Ran
    <3>2. Ran'[q] = {i \in DOMAIN batches[q].ops : i <= executed + 1}
      BY <1>1, <1>2 DEF Ran
    <3>3. DOMAIN batches[q].ops \subseteq Nat
      BY <1>2, BatchOps
    <3> QED BY <1>2, <1>3, <3>1, <3>2, <3>3
  <2> HIDE DEF q
  <2> QED BY <1>1, <1>2, <1>3, <2>1, <2>2 DEF Executed
<1> HIDE DEF q, t
<1>6. intact' \subseteq Executed'
  BY <1>1, <1>5 DEF RunsInv, DataInv
<1>7. NoneFailed' => NoneFailed
  BY <1>1 DEF NoneFailed
<1>8. ASSUME NoneFailed PROVE t \in intact'
  <2>1. Undisturbed(tensors[t], t)
    BY <1>2 DEF SourceInv
  <2>2. CASE tensors[t].src = 0
    BY <1>1, <2>2
  <2>3. CASE tensors[t].src # 0
    <3>1. tensors[t].src \in Executed
      BY <1>2, <2>1, <2>3 DEF Undisturbed
    <3>2. \A u \in Executed : tensors[t].src < u => tensors[u].home # tensors[tensors[t].src].home
      BY <1>2, <2>1, <2>3 DEF Undisturbed, Encoded
    <3>3. tensors[t].src \in intact
      BY <1>8, <3>1, <3>2 DEF RunsInv, DataInv
    <3> QED BY <1>1, <3>3
  <2> QED BY <2>2, <2>3
<1>9. ASSUME NoneFailed, NEW s \in Executed'
      PROVE  \/ s \in intact'
             \/ \E u \in Executed' : s < u /\ tensors'[u].home = tensors'[s].home
  <2>1. CASE s = t
    BY <1>8, <1>9, <2>1
  <2>2. CASE s \in Executed
    <3>1. \/ s \in intact
          \/ \E u \in Executed : s < u /\ tensors[u].home = tensors[s].home
      BY <1>9, <2>2 DEF RunsInv, DataInv
    <3> QED BY <1>1, <1>2, <1>5, <2>2, <3>1
  <2> QED BY <1>5, <2>1, <2>2
<1> QED BY <1>4, <1>6, <1>7, <1>9 DEF RunsInv, DataInv

\* What a step does to the GPU.
LEMMA GpuMoves ==
  ASSUME [Next]_vars
  PROVE  \/ UNCHANGED <<batches, queue, executed, intact>>
         \/ Commit
         \/ GpuExecute
         \/ \E state \in {"completed", "error"} :
              GpuFinish(state) /\ (state = "error" \/ executed = Len(batches[Running].ops))
<1>1. CASE UNCHANGED vars
  BY <1>1 DEF vars, gpuVars
<1>2. CASE Begin
  BY <1>2 DEF Begin, BeginSubmit, BeginSyncCall, BeginFlush, BeginReadback,
     BeginSync, BeginEncode, BeginFenceWait, gpuVars
<1>3. CASE Immediate
  BY <1>3 DEF Immediate, Clone, ScopeError, SubmitFence, DropFence, ToggleBypass,
     ToggleExplicit, ToggleDecode, ResetExplicit, TryReset, ReclaimPool, GiveUpPlanned,
     BeginStep, EndStep,
     AbandonStep, NormalizeOutput, gpuVars
<1>4. CASE Continue
  BY <1>4 DEF Continue, SyncReturns, CommitSubmitted, CommitFlushed, FlushReturns,
     WaitFails, Read, RotateReturns, Encode, EncodeRejected, FenceReturns, gpuVars
<1>5. CASE Gpu
  BY <1>5 DEF Gpu, GpuComplete, GpuFail
<1> QED BY <1>1, <1>2, <1>3, <1>4, <1>5 DEF Next

LEMMA IntactMoves == ASSUME [Next]_vars, ~GpuExecute PROVE intact' = intact
BY GpuMoves DEF Commit, GpuFinish

\* Every other step leaves what was executed alone.
LEMMA RunsStep ==
  ASSUME IInv, OrderInv, QueueInv, QueueInv', SourceInv, RunsInv, [Next]_vars
  PROVE  RunsInv'
<1>0. Typed /\ Executed \subseteq Ids
  <2>1. Typed
    BY DEF IInv
  <2>2. \A b \in DOMAIN batches : \A i \in Ran[b] : i \in DOMAIN batches[b].ops
    BY DEF Ran
  <2> QED BY <2>1, <2>2, BatchOps DEF Executed, OrderInv
<1>2. CASE GpuExecute
  BY <1>0, <1>2, ExecuteRuns
\* The tensors that were executed stay what they are.
<1>3. ~GpuExecute => \A t \in Executed : tensors'[t] = tensors[t]
  BY <1>0, EncodedMoves, AddedOp
<1>4. CASE UNCHANGED <<batches, queue, executed, intact>> /\ ~GpuExecute
  <2>1. ExecInv' /\ Executed' = Executed /\ NoneFailed' = NoneFailed
    BY <1>4 DEF RunsInv, ExecInv, Executed, Ran, Unfinished, NoneFailed
  <2> QED BY <1>3, <1>4, <2>1 DEF RunsInv, DataInv
<1>5. CASE Commit /\ ~GpuExecute
  BY <1>0, <1>3, <1>5, CommitRuns DEF RunsInv, DataInv
<1>6. CASE /\ ~GpuExecute
           /\ \E state \in {"completed", "error"} :
                GpuFinish(state) /\ (state = "error" \/ executed = Len(batches[Running].ops))
  BY <1>0, <1>3, <1>6, FinishRuns DEF RunsInv, DataInv
<1> QED BY <1>2, <1>4, <1>5, <1>6, GpuMoves

LEMMA InitRuns == Init => SourceInv /\ RunsInv
<1> SUFFICES ASSUME Init PROVE SourceInv /\ RunsInv
  OBVIOUS
<1>1. Encoded = {} /\ ~Encoding
  BY DEF Init, Encoded, Ids, Encoding
<1>2. Executed = {} /\ intact = {} /\ executed = 0 /\ queue = <<>>
  BY DEF Init, Executed
<1> QED BY <1>1, <1>2 DEF SourceInv, RunsInv, ExecInv, DataInv

-----------------------------------------------------------------------------
DataState == IInv /\ QueueInv /\ OrderInv /\ PlaceInv /\ SourceInv /\ RunsInv

LEMMA InitDataState == Init => DataState
<1> SUFFICES ASSUME Init PROVE DataState
  OBVIOUS
<1>1. Len(batches) = 0 /\ Len(queue) = 0 /\ queue \in Seq(Nat) /\ Unfinished = {}
  BY DEF Init, Unfinished
<1>2. QueueInv
  BY <1>1 DEF QueueInv
<1> QED BY <1>2, InitIInv, InitPlaces, InitRuns DEF DataState

LEMMA StepDataState == DataState /\ [Next]_vars => DataState'
<1> SUFFICES ASSUME DataState, [Next]_vars PROVE DataState'
  OBVIOUS
<1>1. Typed /\ IInv' /\ QueueInv'
  BY StepIInv, QueueStep DEF DataState, IInv
<1>2. OrderInv' /\ PlaceInv' /\ SourceInv'
  BY <1>1, OrderStep, PlaceStep, SourceStep DEF DataState
<1> QED BY <1>1, <1>2, RunsStep DEF DataState

\* A tensor without a generation, and so every one allocated inside
\* without_arena, keeps its data until it is given up: what is encoded after it
\* is given its memory only then, and what was encoded before it with that
\* memory has been executed before it.
THEOREM StandaloneKeepsData == Spec => StandaloneStayValid
<1>1. ASSUME DataState, [Next]_vars, NEW t \in intact \ freed',
             tensors[t].standalone \/ tensors[t].gen = NoGen
      PROVE  t \in intact'
  <2>1. CASE GpuExecute
    <3> DEFINE u == batches[queue[1]].ops[executed + 1]
    <3>1. /\ queue # <<>> /\ executed < Len(batches[queue[1]].ops)
          /\ {s \in intact : tensors[s].home # tensors[u].home} \subseteq intact'
          /\ freed' = freed
      BY <2>1 DEF GpuExecute, Running, historyVars
    <3>2. t \in Executed
      BY <1>1 DEF DataState, RunsInv, DataInv
    <3>3. u \in Encoded /\ t < u /\ t \in Encoded
      BY <1>1, <3>1, <3>2, NextOp DEF DataState, IInv, RunsInv
    <3> HIDE DEF u
    <3>4. /\ t \in Ids /\ u \in Ids
          /\ Placed(tensors[t], t) /\ GaveWay(t, tensors[u])
      BY <1>1, <3>3 DEF Encoded, DataState, PlaceInv, HomesInv
    <3>5. tensors[t].gen = NoGen /\ tensors[t].home[1] # "slab"
      <4>1. tensors[t].gen = NoGen
        BY <1>1, <3>4 DEF Placed
      <4> QED BY <3>4, <4>1 DEF Placed, OwnPlace, SharedPlace, SlabPlace, ExplicitPlace, NoGen
    <3>6. tensors[u].home # tensors[t].home
      BY <1>1, <3>1, <3>4, <3>5 DEF GaveWay
    <3> QED BY <1>1, <3>1, <3>6
  <2>2. CASE ~GpuExecute
    <3>1. intact' = intact
      BY <1>1, <2>2, IntactMoves
    <3> QED BY <1>1, <3>1
  <2> QED BY <2>1, <2>2
<1>2. DataState /\ [Next]_vars =>
        \A t \in intact \ freed' :
          tensors[t].standalone \/ tensors[t].gen = NoGen => t \in intact'
  BY <1>1
<1> QED BY <1>2, InitDataState, StepDataState, PTL DEF Spec, StandaloneStayValid

-----------------------------------------------------------------------------
(* What a call in progress has established.                                 *)

CallInv ==
  /\ pc = "flush" => /\ call.op \in {"flush", "readback"}
                     /\ waiting = Len(batches) /\ pending = 0 /\ ~lazy.open
  /\ pc = "read" => call.op = "readback" /\ pending = 0 /\ ~lazy.open
  /\ call.op = "readback" =>
       /\ pc \in {"sync", "commit", "flush", "read"}
       /\ call.target \in Ids \ (freed \cup unwaited)

\* What Commit appends.
LEMMA AppendedLen ==
  ASSUME Typed, Commit
  PROVE  /\ Len(batches') = Len(batches) + 1 /\ DOMAIN batches = 1..Len(batches)
         /\ DOMAIN batches' = 1..(Len(batches) + 1) /\ Len(batches) \in Nat
         /\ batches'[Len(batches) + 1].ops = lazy.ops
         /\ batches'[Len(batches) + 1].state = "committed"
         /\ \A b \in DOMAIN batches : batches'[b] = batches[b]
<1> DEFINE new == [state |-> "committed", ops |-> lazy.ops]
<1>1. new \in Batch /\ new.ops = lazy.ops /\ new.state = "committed"
  BY DEF Typed, Batch
<1>2. batches' = Append(batches, new) /\ batches \in Seq(Batch)
  BY DEF Commit, Typed
<1> HIDE DEF new
<1> QED BY <1>1, <1>2

\* The only batch GpuFinish touches is finished before.
LEMMA FinishStates ==
  ASSUME Typed, QueueInv, NEW state \in {"completed", "error"}, GpuFinish(state)
  PROVE  /\ Unfinished' = Unfinished \ {queue[1]} /\ Incomplete' \subseteq Incomplete
         /\ \A b \in DOMAIN batches : b # queue[1] => batches'[b] = batches[b]
         /\ batches'[queue[1]].state = state
<1> DEFINE q == queue[1]
<1>1. /\ queue # <<>> /\ batches' = [batches EXCEPT ![q].state = state]
  BY DEF GpuFinish, Running
<1>2. DOMAIN batches' = DOMAIN batches
  BY FinishOps
<1>3. q \in DOMAIN batches /\ q \in Unfinished /\ batches[q] \in Batch
  BY <1>1, QueueHead, BatchOps DEF Unfinished
<1>4. /\ \A b \in DOMAIN batches : b # q => batches'[b] = batches[b]
      /\ batches'[q].state = state
  BY <1>1, <1>3, BatchOps DEF Batch
<1> HIDE DEF q
<1> QED BY <1>2, <1>3, <1>4 DEF Unfinished, Incomplete, q

\* An unfinished batch was committed after every batch that is complete.
LEMMA UnfinishedAfter ==
  ASSUME Typed, QueueInv, NEW c, Done(c), c \in DOMAIN batches, NEW b \in Unfinished
  PROVE  c < b
BY FinishedBefore, BatchOps DEF Unfinished

LEMMA CallStep == ASSUME IInv, CallInv, [Next]_vars PROVE CallInv'
<1>0. Typed /\ CallShape
  BY DEF IInv
<1>1. CASE UNCHANGED vars
  BY <1>1 DEF CallInv, vars, batchVars, callVars, clientVars, gpuVars, historyVars, Ids
<1>2. CASE BeginSubmit \/ BeginSyncCall \/ BeginFlush \/ BeginReadback
  <2>1. /\ pc' = "sync" /\ UNCHANGED <<tensors, freed, unwaited>>
        /\ \/ call'.op \in {"submit", "sync", "flush"}
           \/ call'.target \in {t \in Ids : MayRead(t)}
    BY <1>2 DEF BeginSubmit, BeginSyncCall, BeginFlush, BeginReadback, BeginSync, clientVars
  <2> QED BY <2>1 DEF CallInv, MayRead, Ids
<1>3. CASE BeginEncode \/ BeginFenceWait
  <2>1. pc' \in {"rotate", "encode", "fence"} /\ call'.op \in {"encode", "fence"}
    BY <1>3 DEF BeginEncode, BeginFenceWait, NoCall
  <2> QED BY <2>1 DEF CallInv
<1>4. CASE Immediate
  <2>1. /\ pc = "idle" /\ pc' = "idle" /\ call' \in {call, NoCall}
    BY <1>4 DEF Immediate, Clone, ScopeError, SubmitFence, DropFence, ToggleBypass,
       ToggleExplicit, ToggleDecode, ResetExplicit, TryReset, ReclaimPool, GiveUpPlanned,
       BeginStep, EndStep,
       AbandonStep, NormalizeOutput, Idle, Return, callVars
  <2> QED BY <2>1 DEF CallInv, NoCall
<1>5. CASE CommitFlushed
  <2>1. /\ pc = "commit" /\ call.op \in {"flush", "readback"}
        /\ UNCHANGED <<pending, tensors, freed, unwaited>>
        /\ \/ /\ Commit /\ waiting' = Committed
              /\ pc' = "flush" /\ call' = call
           \/ UNCHANGED lazy /\ ~lazy.open /\ pc' = "read" /\ call.op = "readback" /\ call' = call
           \/ pc' = "idle" /\ call' = NoCall
    BY <1>5 DEF CommitFlushed, Return, batchVars, clientVars
  <2>2. pending = 0
    BY <1>0, <2>1 DEF CallShape
  <2>3. Commit => ~lazy'.open /\ Committed = Len(batches')
    BY <1>0, CommitFacts, AppendedLen DEF Committed
  <2> QED BY <2>1, <2>2, <2>3 DEF CallInv, NoCall, Ids
<1>6. CASE SyncReturns \/ FlushReturns
  <2>1. /\ pc \in {"sync", "flush"} /\ UNCHANGED <<tensors, freed, lazy, pending>>
        /\ unwaited' \subseteq unwaited
        /\ \/ pc' = "idle" /\ call' = NoCall
           \/ pc' = "commit" /\ call' = call
           \/ pc = "flush" /\ call.op # "flush" /\ pc' = "read" /\ call' = call
    BY <1>6 DEF SyncReturns, FlushReturns, Return, batchVars, clientVars
  <2> QED BY <2>1 DEF CallInv, NoCall, Ids
<1>7. CASE RotateReturns
  BY <1>7 DEF RotateReturns, CallInv
<1>8. CASE \/ CommitSubmitted \/ WaitFails \/ Read \/ Encode \/ EncodeRejected \/ FenceReturns
  <2>1. pc' = "idle" /\ call' = NoCall
    BY <1>8 DEF CommitSubmitted, WaitFails, Read, Encode, EncodeRejected, FenceReturns, Return
  <2> QED BY <2>1 DEF CallInv, NoCall
<1>9. CASE Gpu
  <2>1. /\ UNCHANGED <<lazy, pending, pc, call, waiting, tensors, freed, unwaited>>
        /\ batches' = batches \/ \E state : GpuFinish(state)
    BY <1>9 DEF Gpu, GpuExecute, GpuComplete, GpuFail, GpuFinish, batchVars, callVars,
       clientVars, historyVars
  <2>2. Len(batches') = Len(batches)
    BY <1>0, <2>1, FinishOps
  <2> QED BY <2>1, <2>2 DEF CallInv, Ids
<1> QED BY <1>1, <1>2, <1>3, <1>4, <1>5, <1>6, <1>7, <1>8, <1>9 DEF Next, Begin, Continue

\* Handles are handles of batches that were committed.
HandlesInv == {pending, waiting} \cup fences \subseteq 0..Len(batches)

LEMMA HandlesStep == ASSUME IInv, HandlesInv, [Next]_vars PROVE HandlesInv'
<1> DEFINE handles == {pending, waiting} \cup fences
<1>1. Typed /\ Len(batches) \in Nat
  BY BatchOps DEF IInv
<1>2. \/ handles' \subseteq handles \cup {0}
      \/ Commit /\ handles' \subseteq handles \cup {0, Committed}
  <2>1. CASE UNCHANGED vars
    BY <2>1 DEF vars, batchVars, callVars, clientVars
  <2>2. CASE Begin
    BY <2>2 DEF Begin, BeginSubmit, BeginSyncCall, BeginFlush, BeginReadback, BeginSync,
       BeginEncode, BeginFenceWait, batchVars, callVars, clientVars, gpuVars
  <2>3. CASE Immediate
    BY <2>3 DEF Immediate, Clone, ScopeError, SubmitFence, DropFence, ToggleBypass,
       ToggleExplicit, ToggleDecode, ResetExplicit, TryReset, ReclaimPool, GiveUpPlanned,
       BeginStep, EndStep,
       AbandonStep, NormalizeOutput, batchVars, callVars, clientVars
  <2>4. CASE Continue
    BY <2>4 DEF Continue, SyncReturns, CommitSubmitted, CommitFlushed, FlushReturns,
       WaitFails, Read, RotateReturns, Encode, EncodeRejected, FenceReturns,
       batchVars, callVars, clientVars
  <2>5. CASE Gpu
    BY <2>5 DEF Gpu, GpuExecute, GpuComplete, GpuFail, GpuFinish, batchVars, callVars, clientVars
  <2> QED BY <2>1, <2>2, <2>3, <2>4, <2>5 DEF Next
<1>3. /\ Len(batches') \in Nat /\ Len(batches') >= Len(batches)
      /\ Commit => Committed = Len(batches')
  <2>1. CASE UNCHANGED <<batches, queue>>
    BY <1>1, <2>1, AppendedLen DEF Committed
  <2>2. CASE Commit
    BY <1>1, <2>2, AppendedLen DEF Committed
  <2>3. CASE \E state \in {"completed", "error"} : GpuFinish(state)
    BY <1>1, <2>3, FinishOps, AppendedLen DEF Committed
  <2> QED BY <2>1, <2>2, <2>3, BatchMoves
<1>4. handles \subseteq 0..Len(batches)
  BY DEF HandlesInv
<1> QED BY <1>1, <1>2, <1>3, <1>4 DEF HandlesInv

-----------------------------------------------------------------------------
(* What the client may read the GPU has executed, and no failure is unseen: *)
(* the exceptions are the failures reported and the handles dropped.        *)

Discarded == \E a \in abandoned : a.how = "discard"

UnfinishedHidden ==
  \A b \in Unfinished :
    \/ b \in {pending, waiting}
    \/ \A i \in DOMAIN batches[b].ops : batches[b].ops[i] \in unwaited

HiddenInv == reported \/ Discarded \/ UnfinishedHidden
ErrorInv ==
  reported \/ abandoned # {} \/ Incomplete \subseteq {pending, waiting} \cup fences

TrackInv == HiddenInv /\ ErrorInv

LEMMA TrackStep ==
  ASSUME IInv, OrderInv, QueueInv, CallInv, HandlesInv, TrackInv, [Next]_vars
  PROVE  TrackInv'
<1> USE DEF TrackInv, HiddenInv, ErrorInv
<1>0. /\ Typed /\ CallShape
      /\ 0 \notin Unfinished /\ Unfinished \subseteq Incomplete /\ 0 \notin Incomplete
      /\ Incomplete \subseteq DOMAIN batches
  BY BatchOps DEF IInv, Unfinished, Incomplete
<1>1. CASE /\ UNCHANGED <<batches, pending, waiting, fences, unwaited, reported>>
           /\ abandoned \subseteq abandoned'
  BY <1>1 DEF Discarded, UnfinishedHidden, Unfinished, Incomplete
<1>2. CASE UNCHANGED vars \/ Clone \/ ToggleBypass \/ ToggleExplicit \/ ToggleDecode
           \/ ResetExplicit \/ TryReset \/ ReclaimPool \/ GiveUpPlanned \/ BeginStep \/ EndStep \/ AbandonStep
           \/ NormalizeOutput \/ Encode \/ EncodeRejected \/ Read \/ GpuExecute
  BY <1>1, <1>2 DEF vars, Clone, ToggleBypass, ToggleExplicit, ToggleDecode, ResetExplicit,
     TryReset, ReclaimPool, GiveUpPlanned, BeginStep, EndStep, AbandonStep,
     NormalizeOutput, Encode, EncodeRejected, Read,
     GpuExecute, Return, batchVars, callVars, clientVars, gpuVars, historyVars
<1>3. CASE BeginSubmit \/ BeginSyncCall \/ BeginFlush \/ BeginReadback
  <2>1. /\ pc = "idle" /\ waiting' = pending /\ pending' = 0
        /\ UNCHANGED <<batches, fences, unwaited, reported, abandoned>>
    BY <1>3 DEF BeginSubmit, BeginSyncCall, BeginFlush, BeginReadback, BeginSync, Idle,
       clientVars, gpuVars
  <2>2. waiting = 0
    BY <1>0, <2>1 DEF CallShape, Waits
  <2> QED BY <1>0, <2>1, <2>2 DEF Discarded, UnfinishedHidden, Unfinished, Incomplete
<1>4. CASE SyncReturns \/ RotateReturns \/ FlushReturns \/ FenceReturns
  <2>1. /\ waiting = 0 \/ Done(waiting)
        /\ waiting' = 0 /\ UNCHANGED <<batches, pending, fences, reported, abandoned>>
    BY <1>4 DEF SyncReturns, RotateReturns, FlushReturns, FenceReturns, Return,
       batchVars, clientVars, gpuVars, historyVars
  <2>2. waiting \notin Incomplete /\ waiting \notin Unfinished
    BY <1>0, <2>1 DEF Done, Incomplete, Unfinished
  <2>3. ErrorInv'
    BY <1>0, <2>1, <2>2 DEF Incomplete
  <2>4. Discarded' = Discarded /\ Unfinished' = Unfinished
    BY <2>1 DEF Discarded, Unfinished
  <2>5. CASE FlushReturns
    <3>1. pc = "flush" /\ Done(waiting)
      BY <2>5 DEF FlushReturns
    <3>2. waiting = Len(batches) /\ waiting \in DOMAIN batches
      BY <1>0, <3>1, BatchOps DEF CallInv, Done
    <3>3. \A b \in DOMAIN batches : b \notin Unfinished
      BY <1>0, <3>1, <3>2, FinishedBefore, BatchOps
    <3>4. Unfinished = {}
      BY <3>3 DEF Unfinished
    <3> QED BY <2>3, <2>4, <3>4 DEF UnfinishedHidden
  <2>6. CASE SyncReturns \/ RotateReturns
    <3>1. unwaited' = unwaited
      BY <2>6 DEF SyncReturns, RotateReturns, historyVars
    <3> QED BY <1>0, <2>1, <2>2, <2>3, <2>4, <3>1 DEF UnfinishedHidden
  <2>7. CASE FenceReturns
    <3>1. Done(waiting) /\ unwaited' = unwaited \ Elements(batches[waiting].ops)
      BY <2>7 DEF FenceReturns
    <3>2. ASSUME NEW b \in Unfinished, NEW i \in DOMAIN batches[b].ops
          PROVE  batches[b].ops[i] \notin Elements(batches[waiting].ops)
      <4> SUFFICES ASSUME NEW j \in DOMAIN batches[waiting].ops,
                          batches[b].ops[i] = batches[waiting].ops[j]
                   PROVE  FALSE
        BY DEF Elements
      <4>1. b # waiting /\ b \in DOMAIN batches
        BY <2>2 DEF Unfinished
      <4>2. waiting \in DOMAIN batches
        <5>1. waiting \in 0..Len(batches) /\ waiting # 0
          BY <3>1 DEF HandlesInv, Done
        <5> QED BY <1>0, <5>1, BatchOps
      <4>3. /\ b \in Places /\ waiting \in Places /\ b \in Nat /\ waiting \in Nat
            /\ Ops[b] = batches[b].ops /\ Ops[waiting] = batches[waiting].ops
            /\ batches[b].ops[i] \in Nat
        BY <1>0, <4>1, <4>2, BatchOps
      <4>4. Before(b, i, waiting, j) \/ Before(waiting, j, b, i)
        BY <4>1, <4>3 DEF Before
      <4>5. batches[b].ops[i] < batches[waiting].ops[j] \/ batches[waiting].ops[j] < batches[b].ops[i]
        BY <4>3, <4>4 DEF OrderInv
      <4> QED BY <4>3, <4>5
    <3>3. UnfinishedHidden => UnfinishedHidden'
      BY <1>0, <2>1, <2>2, <2>4, <3>1, <3>2 DEF UnfinishedHidden
    <3> QED BY <2>1, <2>3, <2>4, <3>3
  <2> QED BY <1>4, <2>5, <2>6, <2>7
<1>5. CASE WaitFails
  BY <1>5 DEF WaitFails
<1>6. CASE CommitSubmitted \/ CommitFlushed \/ BeginEncode \/ SubmitFence
  <2> DEFINE n == Len(batches) + 1
  <2>1. /\ pc \in {"idle", "commit"} /\ UNCHANGED <<abandoned, reported>>
        /\ \/ UNCHANGED <<batches, pending, waiting, fences, unwaited>>
           \/ /\ Commit /\ UNCHANGED <<pending, fences, unwaited>> /\ waiting' = n
           \/ /\ Commit /\ UNCHANGED <<waiting, fences, unwaited>> /\ pending' = n /\ pc = "commit"
           \/ /\ Commit /\ UNCHANGED <<pending, waiting>> /\ fences' = fences \cup {n}
              /\ unwaited' = unwaited \cup Elements(lazy.ops)
    <3>1. CASE CommitSubmitted
      BY <3>1 DEF CommitSubmitted, Committed, batchVars, gpuVars, clientVars
    <3>2. CASE CommitFlushed
      BY <3>2 DEF CommitFlushed, Committed, batchVars, gpuVars, clientVars
    <3>3. CASE BeginEncode
      BY <3>3 DEF BeginEncode, Committed, gpuVars, clientVars
    <3>4. CASE SubmitFence
      BY <3>4 DEF SubmitFence, Committed, Idle, callVars
    <3> QED BY <1>6, <3>1, <3>2, <3>3, <3>4
  <2>2. waiting = 0 /\ (pc = "commit" => pending = 0)
    BY <1>0, <2>1 DEF CallShape, Waits
  <2>3. ASSUME Commit
        PROVE  /\ Unfinished' = Unfinished \cup {n} /\ Incomplete' = Incomplete \cup {n}
               /\ \A b \in Unfinished : batches'[b] = batches[b]
               /\ batches'[n].ops = lazy.ops
    BY <1>0, <2>3, CommitFacts, AppendedLen DEF Committed, Unfinished, Incomplete
  <2>4. CASE UNCHANGED <<batches, pending, waiting, fences, unwaited>>
    BY <1>1, <2>1, <2>4
  <2>5. CASE Commit /\ UNCHANGED <<pending, fences, unwaited>> /\ waiting' = n
    BY <1>0, <2>1, <2>2, <2>3, <2>5 DEF Discarded, UnfinishedHidden
  <2>6. CASE Commit /\ UNCHANGED <<waiting, fences, unwaited>> /\ pending' = n /\ pc = "commit"
    BY <1>0, <2>1, <2>2, <2>3, <2>6 DEF Discarded, UnfinishedHidden
  <2>7. CASE /\ Commit /\ UNCHANGED <<pending, waiting>> /\ fences' = fences \cup {n}
             /\ unwaited' = unwaited \cup Elements(lazy.ops)
    BY <1>0, <2>1, <2>3, <2>7 DEF Discarded, UnfinishedHidden, Elements
  <2> QED BY <2>1, <2>4, <2>5, <2>6, <2>7
<1>7. CASE ScopeError
  <2>1. /\ pending' = 0 /\ UNCHANGED <<batches, waiting, fences, unwaited, reported>>
        /\ abandoned' = IF pending \in Incomplete
                        THEN abandoned \cup {Dropped(pending, "discard")} ELSE abandoned
    BY <1>7 DEF ScopeError, callVars, clientVars, gpuVars
  <2>2. CASE pending \in Incomplete
    <3>1. /\ Dropped(pending, "discard") \in abandoned'
          /\ Dropped(pending, "discard").how = "discard"
      BY <2>1, <2>2 DEF Dropped
    <3> QED BY <3>1 DEF Discarded
  <2>3. CASE pending \notin Incomplete
    BY <1>0, <2>1, <2>3 DEF Discarded, UnfinishedHidden, Unfinished, Incomplete
  <2> QED BY <2>2, <2>3
<1>8. CASE BeginFenceWait
  <2>1. PICK b \in fences : waiting' = b /\ fences' = fences \ {b}
    BY <1>8 DEF BeginFenceWait
  <2>2. /\ pc = "idle" /\ UNCHANGED <<batches, pending, unwaited, abandoned, reported>>
    BY <1>8 DEF BeginFenceWait, Idle, batchVars, gpuVars
  <2>3. waiting = 0
    BY <1>0, <2>2 DEF CallShape, Waits
  <2> QED BY <1>0, <2>1, <2>2, <2>3 DEF Discarded, UnfinishedHidden, Unfinished, Incomplete
<1>9. CASE DropFence
  <2>1. PICK b \in fences :
          /\ fences' = fences \ {b}
          /\ abandoned' = IF b \in Incomplete
                          THEN abandoned \cup {Dropped(b, "fence")} ELSE abandoned
    BY <1>9 DEF DropFence
  <2>2. UNCHANGED <<batches, pending, waiting, unwaited, reported>>
    BY <1>9 DEF DropFence, batchVars, callVars, gpuVars
  <2>3. Discarded => Discarded'
    BY <2>1 DEF Discarded
  <2>4. HiddenInv'
    BY <2>2, <2>3 DEF UnfinishedHidden, Unfinished
  <2>5. ErrorInv'
    BY <2>1, <2>2 DEF Incomplete
  <2> QED BY <2>4, <2>5
<1>10. CASE GpuComplete \/ GpuFail
  <2>1. PICK state \in {"completed", "error"} : GpuFinish(state)
    BY <1>10 DEF GpuComplete, GpuFail
  <2>2. UNCHANGED <<pending, waiting, fences, unwaited, abandoned, reported>>
    BY <2>1 DEF GpuFinish, batchVars, callVars, clientVars, historyVars
  <2>3. /\ Unfinished' \subseteq Unfinished /\ Incomplete' \subseteq Incomplete
        /\ \A b \in DOMAIN batches : batches'[b].ops = batches[b].ops
    <3>1. Unfinished' \subseteq Unfinished /\ Incomplete' \subseteq Incomplete
      BY <1>0, <2>1, FinishStates
    <3> QED BY <1>0, <2>1, <3>1, FinishOps
  <2> QED BY <1>0, <2>2, <2>3 DEF Discarded, UnfinishedHidden
<1> QED BY <1>2, <1>3, <1>4, <1>5, <1>6, <1>7, <1>8, <1>9, <1>10
        DEF Next, Begin, Immediate, Continue, Gpu

-----------------------------------------------------------------------------
(* A tensor of the current generation of the default arena is not behind an *)
(* arena that looks empty.  In a compiled step the bump pointer may be      *)
(* restored to 0 while such a tensor exists; then work is outstanding whose *)
(* end moves the generation, as long as no batch leaves the thread's hands: *)
(* a scope that fails and a fence both do that.                             *)

Restores == "step" \in Calls => Calls \cap {"scopeError", "fence"} = {}

Outstanding ==
  \/ lazy.open \/ pending # 0
  \/ pc = "sync" /\ waiting # 0
  \/ pc \in {"flush", "rotate", "encode"}

RestInv ==
  \A t \in Ids : tensors[t].home[1] = "slab" /\ tensors[t].gen = arena.gen =>
    IF "step" \in Calls THEN Outstanding \/ reported ELSE arena.off # 0

LEMMA ReportedStays == [Next]_vars /\ reported => reported'
<1> SUFFICES ASSUME [Next]_vars, reported PROVE reported'
  OBVIOUS
<1>1. CASE UNCHANGED vars
  BY <1>1 DEF vars, historyVars
<1>2. CASE Begin
  BY <1>2 DEF Begin, BeginSubmit, BeginSyncCall, BeginFlush, BeginReadback, BeginSync,
     BeginEncode, BeginFenceWait
<1>3. CASE Immediate
  BY <1>3 DEF Immediate, Clone, ScopeError, SubmitFence, DropFence, ToggleBypass,
     ToggleExplicit, ToggleDecode, ResetExplicit, TryReset, ReclaimPool, GiveUpPlanned,
     BeginStep, EndStep,
     AbandonStep, NormalizeOutput
<1>4. CASE Continue
  BY <1>4 DEF Continue, SyncReturns, CommitSubmitted, CommitFlushed, FlushReturns,
     WaitFails, Read, RotateReturns, Encode, EncodeRejected, FenceReturns, historyVars
<1>5. CASE Gpu
  BY <1>5 DEF Gpu, GpuExecute, GpuComplete, GpuFail, GpuFinish, historyVars
<1> QED BY <1>1, <1>2, <1>3, <1>4, <1>5 DEF Next

\* Outstanding work stays outstanding until the arena is reset behind it or a
\* call fails.
LEMMA OutstandingStep ==
  ASSUME Calls \cap {"scopeError", "fence"} = {}, Typed, ArenaShape, arena.exists,
         Outstanding, [Next]_vars
  PROVE  Outstanding' \/ reported' \/ arena'.gen # arena.gen
<1>0. arena' = ResetArena => arena'.gen # arena.gen
  BY DEF ArenaShape, ResetArena
<1>1. CASE UNCHANGED vars
  BY <1>1 DEF Outstanding, vars, batchVars, callVars
<1>2. CASE BeginSubmit \/ BeginSyncCall \/ BeginFlush \/ BeginReadback
  <2>1. pc = "idle" /\ pc' = "sync" /\ waiting' = pending /\ lazy' = lazy
    BY <1>2 DEF BeginSubmit, BeginSyncCall, BeginFlush, BeginReadback, BeginSync, Idle
  <2> QED BY <2>1 DEF Outstanding
<1>3. CASE BeginEncode
  BY <1>3 DEF BeginEncode, Outstanding
<1>4. ~BeginFenceWait /\ ~ScopeError /\ ~SubmitFence /\ ~DropFence
  BY DEF BeginFenceWait, ScopeError, SubmitFence, DropFence, Idle
<1>5. CASE /\ Immediate /\ ~NormalizeOutput
  <2>1. UNCHANGED <<lazy, pending, pc, waiting>>
    BY <1>4, <1>5 DEF Immediate, Clone, ToggleBypass, ToggleExplicit, ToggleDecode,
       ResetExplicit, TryReset, ReclaimPool, GiveUpPlanned, BeginStep, EndStep,
       AbandonStep, batchVars, callVars
  <2> QED BY <2>1 DEF Outstanding
<1>6. CASE NormalizeOutput
  <2>1. pc = "idle" /\ pending' = pending
    BY <1>6 DEF NormalizeOutput, Idle
  <2>2. lazy' = lazy \/ lazy' = [lazy EXCEPT !.ops = Append(@, Len(tensors) + 1)]
    BY <1>6 DEF NormalizeOutput
  <2>3. lazy'.open = lazy.open
    BY <2>2 DEF Typed
  <2> QED BY <2>1, <2>3 DEF Outstanding
<1>7. CASE SyncReturns
  <2>1. /\ pc = "sync" /\ UNCHANGED <<lazy, pending>>
        /\ waiting # 0 => arena' = ResetArena
    BY <1>7 DEF SyncReturns, batchVars
  <2> QED BY <1>0, <2>1 DEF Outstanding
<1>8. CASE FlushReturns
  BY <1>0, <1>8 DEF FlushReturns
<1>9. CASE WaitFails
  BY <1>9 DEF WaitFails
<1>10. CASE CommitSubmitted
  <2>1. /\ pc = "commit"
        /\ \/ pending' = Len(batches) + 1
           \/ ~lazy.open /\ pending' = pending
    BY <1>10 DEF CommitSubmitted, Committed, batchVars
  <2>2. Len(batches) + 1 # 0
    BY BatchOps
  <2> QED BY <2>1, <2>2 DEF Outstanding
<1>11. CASE CommitFlushed
  <2>1. pc = "commit" /\ (pc' = "flush" \/ (~lazy.open /\ pending' = pending))
    BY <1>11 DEF CommitFlushed, batchVars
  <2> QED BY <2>1 DEF Outstanding
<1>12. CASE RotateReturns
  BY <1>12 DEF RotateReturns, Outstanding
<1>13. CASE Encode \/ EncodeRejected
  <2>1. lazy' \in {[lazy EXCEPT !.open = TRUE],
                   [open |-> TRUE, ops |-> Append(lazy.ops, Len(tensors) + 1)]}
    BY <1>13 DEF Encode, EncodeRejected
  <2>2. lazy'.open
    BY <2>1 DEF Typed
  <2> QED BY <2>2 DEF Outstanding
<1>14. CASE Read \/ FenceReturns
  <2>1. pc \in {"read", "fence"} /\ UNCHANGED <<lazy, pending>>
    BY <1>14 DEF Read, FenceReturns, batchVars
  <2> QED BY <2>1 DEF Outstanding
<1>15. CASE Gpu
  BY <1>15 DEF Gpu, GpuExecute, GpuComplete, GpuFail, GpuFinish, Outstanding, batchVars, callVars
<1> QED BY <1>1, <1>2, <1>3, <1>4, <1>5, <1>6, <1>7, <1>8, <1>9, <1>10, <1>11, <1>12, <1>13,
           <1>14, <1>15 DEF Next, Begin, Immediate, Continue

LEMMA RestStep ==
  ASSUME Restores, IInv, OrderInv, PlaceInv, RestInv, [Next]_vars
  PROVE  RestInv'
<1>0. /\ Typed /\ Ids = 1..Len(tensors) /\ Len(tensors) \in Nat /\ ArenaShape
      /\ \A t \in Ids : Placed(tensors[t], t)
      /\ arena.off \in Nat
  BY TensorsSeq DEF IInv, PlaceInv, ArenasTyped, HomesInv
<1> SUFFICES ASSUME NEW t \in Ids', tensors'[t].home[1] = "slab", tensors'[t].gen = arena'.gen
             PROVE  IF "step" \in Calls THEN Outstanding' \/ reported' ELSE arena'.off # 0
  BY DEF RestInv
<1>1. CASE \E d : AddsTensor(d)
  <2>1. PICK d : AddsTensor(d)
    BY <1>1
  <2>2. /\ arena' = arena /\ lazy'.open /\ Ids' = 1..(Len(tensors) + 1)
        /\ tensors'[Len(tensors) + 1] = d
        /\ \A u \in Ids : tensors'[u] = tensors[u]
    BY <1>0, <2>1, AddedOp DEF AddsTensor, AddsOp
  <2>3. CASE "step" \in Calls
    BY <2>2, <2>3 DEF Outstanding
  <2>4. CASE "step" \notin Calls
    <3>1. CASE t \in Ids
      BY <2>2, <2>4, <3>1 DEF RestInv
    <3>2. CASE t = Len(tensors) + 1
      <4>1. d.home[1] = "slab"
        BY <2>2, <3>2
      <4>2. Encoding /\ d = draft
        BY <1>0, <2>1, <4>1, OwnIsNew DEF AddsTensor
      <4> QED BY <2>2, <2>4, <4>1, <4>2 DEF PlaceInv, DraftPlaced
    <3> QED BY <1>0, <2>2, <3>1, <3>2
  <2> QED BY <2>3, <2>4
<1>2. CASE ~\E d : AddsTensor(d)
  <2>1. tensors' = tensors /\ t \in Ids
    BY <1>0, <1>2, PlaceMoves DEF KeepsPlaces, MovesGeneration, BeginEncode,
       ResetExplicit, ReclaimPool, BeginStep, EndStep, AbandonStep, clientVars, Ids
  <2>2. SlabPlace(tensors[t])
    BY <1>0, <2>1 DEF Placed, OwnPlace, SharedPlace, ExplicitPlace
  <2>3. arena'.gen = arena.gen
    <3>1. CASE MovesGeneration
      <4>1. arena'.gen = arena.gen + 1 /\ arena.gen \in Nat
        BY <1>0, <3>1 DEF MovesGeneration, ArenaShape
      <4> QED BY <2>1, <2>2, <4>1 DEF SlabPlace
    <3>2. CASE ~MovesGeneration
      <4>1. CASE BeginEncode
        <5>1. arena' \in {arena, ArenaAfterAlloc}
          BY <4>1 DEF BeginEncode
        <5> QED BY <1>0, <5>1 DEF ArenaShape, ArenaAfterAlloc, GrownArena
      <4>2. CASE ~BeginEncode
        BY <1>0, <1>2, <3>2, <4>2, PlaceMoves DEF KeepsPlaces, ResetExplicit, ReclaimPool, BeginStep,
           EndStep, AbandonStep, arenaVars, ArenaShape
      <4> QED BY <4>1, <4>2
    <3> QED BY <3>1, <3>2
  <2>4. IF "step" \in Calls THEN Outstanding \/ reported ELSE arena.off # 0
    BY <2>1, <2>3 DEF RestInv
  <2>5. CASE "step" \in Calls
    <3>1. arena.exists /\ Calls \cap {"scopeError", "fence"} = {}
      BY <2>2, <2>5 DEF SlabPlace, Restores
    <3> QED BY <1>0, <2>3, <2>4, <2>5, <3>1, OutstandingStep, ReportedStays
  <2>6. CASE "step" \notin Calls
    <3>1. ~BeginStep /\ ~EndStep /\ ~AbandonStep
      BY <2>6 DEF BeginStep, EndStep, AbandonStep, Idle
    <3>2. CASE MovesGeneration
      BY <1>0, <2>3, <3>2 DEF MovesGeneration, ArenaShape
    <3>3. CASE BeginEncode
      <4>1. arena' \in {arena, ArenaAfterAlloc}
        BY <3>3 DEF BeginEncode
      <4>2. ArenaAfterAlloc.off # 0
        BY <1>0 DEF ArenaShape, ArenaAfterAlloc, GrownArena
      <4> QED BY <2>4, <2>6, <4>1, <4>2
    <3>4. CASE KeepsPlaces \/ ResetExplicit \/ ReclaimPool
      <4>1. arena' = arena
        BY <3>4 DEF KeepsPlaces, ResetExplicit, ReclaimPool
      <4> QED BY <2>4, <2>6, <4>1
    <3> QED BY <1>0, <1>2, <3>1, <3>2, <3>3, <3>4, PlaceMoves
  <2> QED BY <2>5, <2>6
<1> QED BY <1>1, <1>2

-----------------------------------------------------------------------------
ReadState == DataState /\ CallInv /\ HandlesInv /\ TrackInv /\ RestInv

LEMMA InitReadState == Init => ReadState
<1> SUFFICES ASSUME Init PROVE ReadState
  OBVIOUS
<1>1. DataState /\ Unfinished = {} /\ Incomplete = {} /\ Len(batches) = 0 /\ Ids = {}
  BY InitDataState DEF Init, Unfinished, Incomplete, Ids
<1>2. CallInv /\ HandlesInv
  BY <1>1 DEF Init, CallInv, HandlesInv, NoCall
<1>3. TrackInv /\ RestInv
  BY <1>1 DEF TrackInv, HiddenInv, ErrorInv, UnfinishedHidden, RestInv
<1> QED BY <1>1, <1>2, <1>3 DEF ReadState

LEMMA StepReadState == Restores /\ ReadState /\ [Next]_vars => ReadState'
<1> SUFFICES ASSUME Restores, ReadState, [Next]_vars PROVE ReadState'
  OBVIOUS
<1>1. DataState /\ DataState' /\ IInv /\ OrderInv /\ QueueInv /\ PlaceInv
  BY StepDataState DEF ReadState, DataState
<1>2. CallInv' /\ HandlesInv'
  BY <1>1, CallStep, HandlesStep DEF ReadState
<1>3. TrackInv'
  BY <1>1, TrackStep DEF ReadState
<1>4. RestInv'
  BY <1>1, RestStep DEF ReadState
<1> QED BY <1>1, <1>2, <1>3, <1>4 DEF ReadState

\* With no call waiting and no batch open or pending, and unless something
\* failed or was discarded, a tensor the client may read holds its data, or
\* the generation of the arena tells that it may not.
LEMMA ReadableData ==
  ASSUME ReadState, NoneFailed, ~reported, ~Discarded,
         pc \in {"idle", "read"}, pending = 0, ~lazy.open,
         NEW t \in Ids, t \notin freed, t \notin unwaited
  PROVE  t \in intact \/ OutOfDate(t)
<1>1. /\ Typed /\ OrderInv /\ RunsInv /\ HomesInv /\ ArenasTyped
      /\ waiting = 0 /\ UnfinishedHidden
  BY DEF ReadState, DataState, IInv, CallShape, Waits, PlaceInv, TrackInv, HiddenInv
<1>2. t \in Executed
  <2>1. PICK b \in Places : \E i \in DOMAIN Ops[b] : Ops[b][i] = t
    BY <1>1 DEF OrderInv, Encoded
  <2>2. PICK i \in DOMAIN Ops[b] : Ops[b][i] = t
    BY <2>1
  <2>3. lazy.ops = <<>>
    BY <1>1 DEF OrderInv
  <2>4. b \in DOMAIN batches /\ Ops[b] = batches[b].ops
    BY <2>2, <2>3 DEF Ops
  <2>5. b \notin Unfinished
    <3>1. b # 0
      BY <1>1, <2>4, BatchOps
    <3> QED BY <1>1, <2>2, <2>4, <3>1 DEF UnfinishedHidden
  <2> QED BY <1>1, <2>2, <2>4, <2>5, BatchOps DEF Executed, Ran
<1>3. CASE t \in intact
  BY <1>3
<1>4. ASSUME NEW u \in Executed, t < u, tensors[u].home = tensors[t].home
      PROVE  OutOfDate(t)
  <2>1. u \in Ids
    <3>1. \A b \in DOMAIN batches : \A i \in Ran[b] : i \in DOMAIN batches[b].ops
      BY DEF Ran
    <3> QED BY <1>1, <3>1, BatchOps DEF Executed, OrderInv
  <2>2. GaveWay(t, tensors[u]) /\ Placed(tensors[u], u) /\ Placed(tensors[t], t)
    BY <1>1, <1>4, <2>1 DEF HomesInv
  <2>3. tensors[u].home[1] = "slab" /\ tensors[t].gen < tensors[u].gen
    BY <1>4, <2>2 DEF GaveWay
  <2>4. SlabPlace(tensors[u]) /\ SlabPlace(tensors[t])
    BY <1>4, <2>2, <2>3 DEF Placed, OwnPlace, SharedPlace, ExplicitPlace
  <2>5. /\ arena.exists /\ tensors[t].gen \in Nat /\ tensors[u].gen \in Nat
        /\ tensors[u].gen <= arena.gen /\ arena.gen \in Nat /\ arena.off \in Nat
    BY <1>1, <2>4 DEF SlabPlace, ArenasTyped, ArenaShape
  <2>6. tensors[u].gen = arena.gen => arena.off > 0
    <3> SUFFICES ASSUME tensors[u].gen = arena.gen PROVE arena.off # 0
      BY <2>5
    <3>1. ~Outstanding
      BY DEF Outstanding
    <3> QED BY <2>1, <2>3, <3>1 DEF ReadState, RestInv
  <2> QED BY <2>3, <2>5, <2>6 DEF OutOfDate, NoGen
<1> QED BY <1>1, <1>2, <1>3, <1>4 DEF RunsInv, DataInv

\* What gpu_to_cpu returns outside a decode scope.
LEMMA ReadIsRight ==
  ASSUME ReadState, NoneFailed, ~reported, ~Discarded, decodeGen = NoGen, Read,
         outcome'.result = "ok"
  PROVE  outcome'.right
<1>1. /\ pc = "read"
      /\ outcome'.result = IF Stale(call.target) THEN "stale" ELSE "ok"
      /\ outcome'.right = (call.target \in intact)
  BY DEF Read
<1>2. /\ call.target \in Ids /\ call.target \notin freed /\ call.target \notin unwaited
      /\ pending = 0 /\ ~lazy.open
  BY <1>1 DEF ReadState, CallInv
<1>3. ~OutOfDate(call.target)
  BY <1>1 DEF Stale
<1> QED BY <1>1, <1>2, <1>3, ReadableData

-----------------------------------------------------------------------------
(* What calls return.                                                       *)

LEMMA OutcomeMoves ==
  ASSUME [Next]_vars
  PROVE  \/ Read \/ Clone \/ CommitFlushed \/ FlushReturns
         \/ /\ pc' = "idle"
            /\ outcome'.op \in {"readback", "flush", "clone"} => outcome'.result = "error"
         \/ outcome'.op \notin {"readback", "flush", "clone"}
         \/ UNCHANGED outcome /\ pc # "idle"
         \/ /\ UNCHANGED <<outcome, pc, reported, abandoned, fences, lazy>>
            /\ UNCHANGED batches \/ GpuComplete \/ GpuFail
<1>1. CASE UNCHANGED vars
  BY <1>1 DEF vars, batchVars, callVars, clientVars, gpuVars, historyVars
<1>2. CASE Begin
  <2>1. outcome' = NoOutcome
    BY <1>2 DEF Begin, BeginSubmit, BeginSyncCall, BeginFlush, BeginReadback, BeginSync,
       BeginEncode, BeginFenceWait
  <2> QED BY <2>1 DEF NoOutcome
<1>3. CASE Immediate /\ ~Clone /\ ~NormalizeOutput
  <2>1. outcome' = NoOutcome
    BY <1>3 DEF Immediate, ScopeError, SubmitFence, DropFence, ToggleBypass, ToggleExplicit,
       ToggleDecode, ResetExplicit, TryReset, ReclaimPool, GiveUpPlanned, BeginStep, EndStep, AbandonStep
  <2> QED BY <2>1 DEF NoOutcome
<1>4. CASE NormalizeOutput \/ CommitSubmitted \/ Encode \/ EncodeRejected \/ FenceReturns
  <2>1. \E op \in {"normalize", "submit", "encode", "fence"} : \E r : Return(op, r)
    BY <1>4 DEF NormalizeOutput, CommitSubmitted, Encode, EncodeRejected, FenceReturns
  <2>2. outcome'.op \in {"normalize", "submit", "encode", "fence"}
    BY <2>1 DEF Return, NoOutcome
  <2> QED BY <2>2
<1>5. CASE SyncReturns
  <2>1. Return("sync", "ok") \/ (UNCHANGED outcome /\ pc # "idle")
    BY <1>5 DEF SyncReturns
  <2>2. Return("sync", "ok") => outcome'.op = "sync"
    BY DEF Return, NoOutcome
  <2> QED BY <2>1, <2>2
<1>6. CASE WaitFails
  <2>1. Return(call.op, "error")
    BY <1>6 DEF WaitFails
  <2>2. pc' = "idle" /\ outcome'.result = "error"
    BY <2>1 DEF Return, NoOutcome
  <2> QED BY <2>2
<1>7. CASE RotateReturns
  BY <1>7 DEF RotateReturns, historyVars
<1>8. CASE Gpu
  BY <1>8 DEF Gpu, GpuExecute, GpuComplete, GpuFail, GpuFinish, batchVars, callVars,
     clientVars, historyVars
<1> QED BY <1>1, <1>2, <1>3, <1>4, <1>5, <1>6, <1>7, <1>8 DEF Next, Immediate, Continue

LEMMA DecodeStep ==
  ASSUME "decode" \notin Calls, decodeGen = NoGen, [Next]_vars
  PROVE  decodeGen' = NoGen
<1>1. CASE UNCHANGED vars
  BY <1>1 DEF vars, arenaVars
<1>2. CASE Begin
  BY <1>2 DEF Begin, BeginSubmit, BeginSyncCall, BeginFlush, BeginReadback, BeginSync,
     BeginEncode, BeginFenceWait, arenaVars
<1>3. CASE Immediate
  BY <1>3 DEF Immediate, Clone, ScopeError, SubmitFence, DropFence, ToggleBypass,
     ToggleExplicit, ToggleDecode, ResetExplicit, TryReset, ReclaimPool, GiveUpPlanned,
     BeginStep, EndStep,
     AbandonStep, NormalizeOutput, Idle, arenaVars
<1>4. CASE Continue
  BY <1>4 DEF Continue, SyncReturns, CommitSubmitted, CommitFlushed, FlushReturns,
     WaitFails, Read, RotateReturns, Encode, EncodeRejected, FenceReturns, arenaVars
<1>5. CASE Gpu
  BY <1>5 DEF Gpu, GpuExecute, GpuComplete, GpuFail, GpuFinish, arenaVars
<1> QED BY <1>1, <1>2, <1>3, <1>4, <1>5 DEF Next

\* A failure is reported, or its batch was dropped, or its fence is held.
FailureKnown ==
  reported \/ abandoned # {} \/ \E b \in fences \cap DOMAIN batches : batches[b].state = "error"

WrongInv ==
  outcome.op = "readback" =>
    /\ pc = "idle"
    /\ outcome.result = "ok" /\ ~outcome.right => FailureKnown

LEMMA WrongStep ==
  ASSUME ReadState, WrongInv, decodeGen = NoGen, [Next]_vars
  PROVE  WrongInv'
<1>1. Typed /\ QueueInv
  BY DEF ReadState, DataState, IInv
<1>2. CASE Read
  <2>1. /\ pc = "read" /\ pc' = "idle"
        /\ UNCHANGED <<batches, pending, waiting, fences, abandoned, reported>>
    BY <1>2 DEF Read, batchVars, clientVars, gpuVars
  <2>2. SUFFICES ASSUME outcome'.result = "ok", ~outcome'.right, ~FailureKnown PROVE FALSE
    BY <2>1 DEF WrongInv, FailureKnown
  <2>3. pending = 0 /\ waiting = 0
    BY <2>1 DEF ReadState, CallInv, DataState, IInv, CallShape, Waits
  <2>4. NoneFailed
    <3>1. 0 \notin DOMAIN batches
      BY <1>1, BatchOps
    <3>2. Incomplete \subseteq {0} \cup fences
      BY <2>2, <2>3 DEF FailureKnown, ReadState, TrackInv, ErrorInv
    <3>3. \A b \in DOMAIN batches : batches[b].state = "error" => b \in Incomplete
      BY DEF Incomplete
    <3> QED BY <2>2, <3>1, <3>2, <3>3 DEF NoneFailed, FailureKnown
  <2>5. ~Discarded
    BY <2>2 DEF Discarded, FailureKnown
  <2> QED BY <1>2, <2>2, <2>4, <2>5, ReadIsRight DEF FailureKnown
<1>3. CASE Clone
  <2>1. outcome'.op = "clone"
    BY <1>3 DEF Clone, NoOutcome
  <2> QED BY <2>1 DEF WrongInv
<1>4. CASE CommitFlushed \/ FlushReturns
  <2>1. pc # "idle" /\ (Return("flush", "ok") \/ UNCHANGED outcome)
    BY <1>4 DEF CommitFlushed, FlushReturns
  <2>2. Return("flush", "ok") => outcome'.op = "flush"
    BY DEF Return, NoOutcome
  <2> QED BY <2>1, <2>2 DEF WrongInv
<1>5. CASE /\ UNCHANGED <<outcome, pc, reported, abandoned, fences, lazy>>
           /\ UNCHANGED batches \/ GpuComplete \/ GpuFail
  <2>1. FailureKnown => FailureKnown'
    <3>1. CASE UNCHANGED batches
      BY <1>5, <3>1 DEF FailureKnown
    <3>2. CASE GpuComplete \/ GpuFail
      <4>1. PICK state \in {"completed", "error"} : GpuFinish(state)
        BY <3>2 DEF GpuComplete, GpuFail
      <4>2. /\ DOMAIN batches' = DOMAIN batches
            /\ \A b \in DOMAIN batches : b # queue[1] => batches'[b] = batches[b]
            /\ batches[queue[1]].state = "committed"
        BY <1>1, <4>1, FinishOps, FinishStates, QueueHead DEF GpuFinish, Unfinished
      <4> QED BY <1>5, <4>2 DEF FailureKnown
    <3> QED BY <1>5, <3>1, <3>2
  <2> QED BY <1>5, <2>1 DEF WrongInv
<1> QED BY <1>2, <1>3, <1>4, <1>5, OutcomeMoves DEF WrongInv

\* Outside a decode scope, whatever else the client does and whatever fails,
\* as long as a step leaves no batch to a failing scope or a fence: wrong data
\* is read as good only if a call reported a failure before, or the handle of
\* an incomplete batch was dropped, or its fence is still to be waited for.
THEOREM CorruptionIsReported ==
  ASSUME "decode" \notin Calls, Restores
  PROVE  Spec => []CorruptionWasReported
<1> DEFINE CInv == ReadState /\ decodeGen = NoGen /\ WrongInv
<1>1. Init => CInv
  BY InitReadState DEF Init, WrongInv, NoOutcome
<1>2. CInv /\ [Next]_vars => CInv'
  BY StepReadState, DecodeStep, WrongStep
<1>3. CInv => CorruptionWasReported
  BY DEF CorruptionWasReported, WrongInv, FailureKnown, Incomplete
<1> QED BY <1>1, <1>2, <1>3, PTL DEF Spec

-----------------------------------------------------------------------------
(* When no wait fails and no pending batch is discarded.                    *)

NoDiscard == ~({"submit", "scopeError"} \subseteq Calls)

QuietInv ==
  /\ CountInv /\ ~reported /\ ~Discarded
  /\ "submit" \notin Calls => FlushInv

LEMMA QuietStep ==
  ASSUME NoFailingWait, NoDiscard, ReadState, QuietInv, [Next]_vars
  PROVE  QuietInv'
<1>1. IInv /\ Typed' /\ Typed
  BY StepIInv DEF ReadState, DataState, IInv
<1>2. CountInv' /\ ("submit" \notin Calls => FlushInv')
  BY <1>1, CountStep, FlushStep DEF QuietInv
<1>3. ~WaitFails
  <2> SUFFICES ASSUME WaitFails PROVE FALSE
    OBVIOUS
  <2>1. waiting \in 0..Len(batches) /\ waiting # 0 /\ batches[waiting].state = "error"
    BY DEF WaitFails, NoFailingWait, ReadState, HandlesInv
  <2>2. waiting \in DOMAIN batches
    BY <1>1, <2>1, BatchOps
  <2> QED BY <2>1, <2>2 DEF QuietInv, CountInv
<1>4. reported' = reported
  <2>1. CASE UNCHANGED vars
    BY <2>1 DEF vars, historyVars
  <2>2. CASE Begin
    BY <2>2 DEF Begin, BeginSubmit, BeginSyncCall, BeginFlush, BeginReadback, BeginSync,
       BeginEncode, BeginFenceWait
  <2>3. CASE Immediate
    BY <2>3 DEF Immediate, Clone, ScopeError, SubmitFence, DropFence, ToggleBypass,
       ToggleExplicit, ToggleDecode, ResetExplicit, TryReset, ReclaimPool, GiveUpPlanned,
       BeginStep, EndStep,
       AbandonStep, NormalizeOutput
  <2>4. CASE Continue
    BY <1>3, <2>4 DEF Continue, SyncReturns, CommitSubmitted, CommitFlushed, FlushReturns,
       Read, RotateReturns, Encode, EncodeRejected, FenceReturns, historyVars
  <2>5. CASE Gpu
    BY <2>5 DEF Gpu, GpuExecute, GpuComplete, GpuFail, GpuFinish, historyVars
  <2> QED BY <2>1, <2>2, <2>3, <2>4, <2>5 DEF Next
<1>5. \A a \in abandoned' : a \in abandoned \/ a.how # "discard"
  <2>1. CASE UNCHANGED vars
    BY <2>1 DEF vars, historyVars
  <2>2. CASE Begin
    BY <2>2 DEF Begin, BeginSubmit, BeginSyncCall, BeginFlush, BeginReadback, BeginSync,
       BeginEncode, BeginFenceWait
  <2>3. CASE ScopeError
    <3>1. "submit" \notin Calls
      BY <2>3 DEF ScopeError, Idle, NoDiscard
    <3>2. pending = 0
      BY <3>1 DEF QuietInv, FlushInv
    <3>3. 0 \notin Incomplete
      BY <1>1, BatchOps DEF Incomplete
    <3> QED BY <2>3, <3>2, <3>3 DEF ScopeError
  <2>4. CASE DropFence
    BY <2>4 DEF DropFence, Dropped
  <2>5. CASE Immediate /\ ~ScopeError /\ ~DropFence
    BY <2>5 DEF Immediate, Clone, SubmitFence, ToggleBypass,
       ToggleExplicit, ToggleDecode, ResetExplicit, TryReset, ReclaimPool, GiveUpPlanned,
       BeginStep, EndStep,
       AbandonStep, NormalizeOutput
  <2>6. CASE Continue
    BY <1>3, <2>6 DEF Continue, SyncReturns, CommitSubmitted, CommitFlushed, FlushReturns,
       Read, RotateReturns, Encode, EncodeRejected, FenceReturns, historyVars
  <2>7. CASE Gpu
    BY <2>7 DEF Gpu, GpuExecute, GpuComplete, GpuFail, GpuFinish, historyVars
  <2> QED BY <2>1, <2>2, <2>3, <2>4, <2>5, <2>6, <2>7 DEF Next
<1> QED BY <1>2, <1>4, <1>5 DEF QuietInv, Discarded

LEMMA InitQuiet == Init => QuietInv
<1> SUFFICES ASSUME Init PROVE QuietInv
  OBVIOUS
<1>1. Typed /\ DOMAIN batches = {}
  BY InitIInv DEF Init, IInv
<1>2. CountInv
  BY <1>1 DEF Init, CountInv, CountMatchesBatch, NoBatch
<1>3. FlushInv
  BY DEF Init, FlushInv, NoCall
<1> QED BY <1>2, <1>3 DEF Init, QuietInv, Discarded

\* Outside a decode scope, when no wait fails, no batch submitted before a
\* failing scope is discarded, and a step leaves none to a fence: gpu_to_cpu
\* returns what the tensor's operation computed, or an error.
THEOREM ReadbackIsRight ==
  ASSUME NoFailingWait, NoDiscard, "decode" \notin Calls, Restores
  PROVE  Spec => []ReadbackReturnsOwnData
<1> DEFINE DInv == ReadState /\ QuietInv /\ decodeGen = NoGen
<1>1. Init => DInv /\ ReadbackReturnsOwnData
  BY InitReadState, InitQuiet DEF Init, ReadbackReturnsOwnData, NoOutcome
<1>2. DInv /\ [Next]_vars => DInv'
  BY StepReadState, QuietStep, DecodeStep
<1>3. DInv /\ ReadbackReturnsOwnData /\ [Next]_vars => ReadbackReturnsOwnData'
  <2> SUFFICES ASSUME DInv, ReadbackReturnsOwnData, [Next]_vars
               PROVE  ReadbackReturnsOwnData'
    OBVIOUS
  <2>1. CASE Read
    <3>1. NoneFailed /\ ~reported /\ ~Discarded
      BY DEF QuietInv, CountInv, NoneFailed
    <3>2. outcome'.result = "ok" => outcome'.right
      BY <2>1, <3>1, ReadIsRight
    <3> QED BY <3>2 DEF ReadbackReturnsOwnData
  <2>2. CASE Clone
    <3>1. outcome'.op = "clone"
      BY <2>2 DEF Clone, NoOutcome
    <3> QED BY <3>1 DEF ReadbackReturnsOwnData
  <2>3. CASE CommitFlushed \/ FlushReturns
    <3>1. Return("flush", "ok") \/ UNCHANGED outcome
      BY <2>3 DEF CommitFlushed, FlushReturns
    <3>2. Return("flush", "ok") => outcome'.op = "flush"
      BY DEF Return, NoOutcome
    <3> QED BY <3>1, <3>2 DEF ReadbackReturnsOwnData
  <2> QED BY <2>1, <2>2, <2>3, OutcomeMoves DEF ReadbackReturnsOwnData
<1> QED BY <1>1, <1>2, <1>3, PTL DEF Spec

\* Without submit, when no wait fails and a step leaves no batch to a failing
\* scope or a fence: clone_buffer, which does not flush, returns what the
\* tensor's operation computed, or refuses.  The count that guards it tells
\* whether a batch is open, and nothing else is unfinished.
THEOREM CloneIsRight ==
  ASSUME NoFailingWait, "submit" \notin Calls, Restores
  PROVE  Spec => []CloneReturnsOwnData
<1> DEFINE DInv == ReadState /\ QuietInv
<1>1. Init => DInv /\ CloneReturnsOwnData
  BY InitReadState, InitQuiet DEF Init, CloneReturnsOwnData, NoOutcome
<1>2. DInv /\ [Next]_vars => DInv'
  BY StepReadState, QuietStep DEF NoDiscard
<1>3. DInv /\ CloneReturnsOwnData /\ [Next]_vars => CloneReturnsOwnData'
  <2> SUFFICES ASSUME DInv, CloneReturnsOwnData, [Next]_vars
               PROVE  CloneReturnsOwnData'
    OBVIOUS
  <2>1. CASE Clone
    <3>1. PICK t \in Ids :
            /\ MayRead(t) /\ ~OutOfDate(t)
            /\ outcome' = [NoOutcome EXCEPT !.op = "clone",
                 !.result = IF encodingCount # 0 THEN "flushRequired" ELSE "ok",
                 !.right = t \in intact]
      BY <2>1 DEF Clone
    <3>2. /\ outcome'.result = IF encodingCount # 0 THEN "flushRequired" ELSE "ok"
          /\ outcome'.right = (t \in intact)
      BY <3>1, Zenon DEF NoOutcome
    <3>3. pc = "idle"
      BY <2>1 DEF Clone, Idle
    <3>4. ASSUME encodingCount = 0 PROVE t \in intact
      <4>1. ~lazy.open
        BY <3>3, <3>4 DEF QuietInv, CountInv, CountMatchesBatch
      <4>2. NoneFailed /\ ~reported /\ ~Discarded /\ pending = 0
        BY DEF QuietInv, CountInv, NoneFailed, FlushInv
      <4> QED BY <3>1, <3>3, <4>1, <4>2, ReadableData DEF MayRead
    <3> QED BY <3>2, <3>4 DEF CloneReturnsOwnData
  <2>2. CASE Read
    <3>1. outcome'.op = "readback"
      BY <2>2 DEF Read
    <3> QED BY <3>1 DEF CloneReturnsOwnData
  <2>3. CASE CommitFlushed \/ FlushReturns
    <3>1. Return("flush", "ok") \/ UNCHANGED outcome
      BY <2>3 DEF CommitFlushed, FlushReturns
    <3>2. Return("flush", "ok") => outcome'.op = "flush"
      BY DEF Return, NoOutcome
    <3> QED BY <3>1, <3>2 DEF CloneReturnsOwnData
  <2> QED BY <2>1, <2>2, <2>3, OutcomeMoves DEF CloneReturnsOwnData
<1> QED BY <1>1, <1>2, <1>3, PTL DEF Spec

-----------------------------------------------------------------------------
(* What a flush promises.                                                   *)

NoneHeld == fences = {} /\ abandoned = {}

LEMMA NoneHeldStep ==
  ASSUME "timeout" \notin Failures, "fence" \notin Calls, NoDiscard,
         IInv, NoneHeld, "submit" \notin Calls => FlushInv, [Next]_vars
  PROVE  NoneHeld'
<1>1. CASE UNCHANGED vars
  BY <1>1 DEF NoneHeld, vars, clientVars, historyVars
<1>2. CASE Begin
  BY <1>2 DEF NoneHeld, Begin, BeginSubmit, BeginSyncCall, BeginFlush, BeginReadback, BeginSync,
     BeginEncode, BeginFenceWait, clientVars, Idle
<1>3. CASE ScopeError
  <2>1. "submit" \notin Calls
    BY <1>3 DEF ScopeError, Idle, NoDiscard
  <2>2. pending = 0 /\ 0 \notin Incomplete
    BY <2>1, BatchOps DEF FlushInv, IInv, Incomplete
  <2> QED BY <1>3, <2>2 DEF ScopeError, NoneHeld, clientVars
<1>4. CASE Immediate /\ ~ScopeError
  BY <1>4 DEF NoneHeld, Immediate, Clone, SubmitFence, DropFence, ToggleBypass,
     ToggleExplicit, ToggleDecode, ResetExplicit, TryReset, ReclaimPool, GiveUpPlanned,
     BeginStep, EndStep,
     AbandonStep, NormalizeOutput, Idle, clientVars
<1>5. CASE Continue
  BY <1>5 DEF NoneHeld, Continue, SyncReturns, CommitSubmitted, CommitFlushed, FlushReturns,
     WaitFails, Read, RotateReturns, Encode, EncodeRejected, FenceReturns, clientVars, historyVars
<1>6. CASE Gpu
  BY <1>6 DEF NoneHeld, Gpu, GpuExecute, GpuComplete, GpuFail, GpuFinish, clientVars, historyVars
<1> QED BY <1>1, <1>2, <1>3, <1>4, <1>5, <1>6 DEF Next

FlushedInv ==
  outcome.op = "flush" /\ outcome.result = "ok" =>
    pc = "idle" /\ lazy.ops = <<>> /\ Unfinished = {}

LEMMA FlushedStep ==
  ASSUME DataState, CallInv, NoneHeld, FlushedInv, [Next]_vars
  PROVE  FlushedInv'
<1>1. Typed /\ QueueInv /\ Accounted /\ CallShape /\ OrderInv
  BY DEF DataState, IInv
<1>2. CASE Read
  <2>1. outcome'.op = "readback"
    BY <1>2 DEF Read
  <2> QED BY <2>1 DEF FlushedInv
<1>3. CASE Clone
  <2>1. outcome'.op = "clone"
    BY <1>3 DEF Clone, NoOutcome
  <2> QED BY <2>1 DEF FlushedInv
<1>4. CASE CommitFlushed
  <2>1. /\ pc = "commit"
        /\ \/ UNCHANGED outcome
           \/ ~lazy.open /\ UNCHANGED <<lazy, batches>> /\ pc' = "idle"
    BY <1>4 DEF CommitFlushed, Return, batchVars, gpuVars
  <2>2. CASE UNCHANGED outcome
    BY <2>1, <2>2 DEF FlushedInv
  <2>3. CASE ~lazy.open /\ UNCHANGED <<lazy, batches>> /\ pc' = "idle"
    <3>1. pending = 0 /\ waiting = 0 /\ 0 \notin Unfinished
      BY <1>1, <2>1, BatchOps DEF CallShape, Waits, Unfinished
    <3>2. Unfinished = {} /\ lazy.ops = <<>>
      BY <1>1, <2>3, <3>1 DEF Accounted, NoneHeld, OrderInv
    <3> QED BY <2>3, <3>2 DEF FlushedInv, Unfinished
  <2> QED BY <2>1, <2>2, <2>3
<1>5. CASE FlushReturns
  <2>1. /\ pc = "flush" /\ Done(waiting) /\ UNCHANGED <<lazy, batches>>
        /\ UNCHANGED outcome \/ pc' = "idle"
    BY <1>5 DEF FlushReturns, Return, batchVars, gpuVars
  <2>2. CASE UNCHANGED outcome
    BY <2>1, <2>2 DEF FlushedInv
  <2>3. CASE pc' = "idle"
    <3>1. waiting = Len(batches) /\ lazy.ops = <<>> /\ waiting \in DOMAIN batches
      BY <1>1, <2>1, BatchOps DEF CallInv, OrderInv, Done
    <3>2. \A b \in DOMAIN batches : b \notin Unfinished
      BY <1>1, <2>1, <3>1, FinishedBefore, BatchOps
    <3>3. Unfinished = {}
      BY <3>2 DEF Unfinished
    <3> QED BY <2>1, <2>3, <3>1, <3>3 DEF FlushedInv, Unfinished
  <2> QED BY <2>1, <2>2, <2>3
<1>6. CASE /\ UNCHANGED <<outcome, pc, reported, abandoned, fences, lazy>>
           /\ UNCHANGED batches \/ GpuComplete \/ GpuFail
  <2>1. Unfinished' \subseteq Unfinished
    <3>1. CASE UNCHANGED batches
      BY <3>1 DEF Unfinished
    <3>2. CASE GpuComplete \/ GpuFail
      <4>1. PICK state \in {"completed", "error"} : GpuFinish(state)
        BY <3>2 DEF GpuComplete, GpuFail
      <4> QED BY <1>1, <4>1, FinishStates
    <3> QED BY <1>6, <3>1, <3>2
  <2> QED BY <1>6, <2>1 DEF FlushedInv
<1> QED BY <1>2, <1>3, <1>4, <1>5, <1>6, OutcomeMoves DEF FlushedInv

\* When no wait times out and no batch leaves the thread to a fence or to a
\* failing scope: a flush that succeeds leaves nothing encoded or committed
\* that has not finished.
THEOREM FlushIsComplete ==
  ASSUME "timeout" \notin Failures, "fence" \notin Calls, NoDiscard
  PROVE  Spec => []FlushCompletesAll
<1> DEFINE FInv == /\ DataState /\ CallInv /\ NoneHeld /\ FlushedInv
                   /\ "submit" \notin Calls => FlushInv
<1>1. Init => FInv
  <2> SUFFICES ASSUME Init PROVE FInv
    OBVIOUS
  <2>1. DataState /\ CallInv
    BY InitReadState DEF ReadState
  <2>2. NoneHeld /\ FlushedInv /\ FlushInv
    BY DEF Init, NoneHeld, FlushedInv, FlushInv, NoOutcome, NoCall
  <2> QED BY <2>1, <2>2
<1>2. FInv /\ [Next]_vars => FInv'
  <2> SUFFICES ASSUME FInv, [Next]_vars PROVE FInv'
    OBVIOUS
  <2>1. IInv
    BY DEF DataState
  <2>2. DataState' /\ CallInv' /\ FlushedInv'
    BY <2>1, StepDataState, CallStep, FlushedStep
  <2>3. NoneHeld' /\ ("submit" \notin Calls => FlushInv')
    BY <2>1, NoneHeldStep, FlushStep
  <2> QED BY <2>2, <2>3
<1>3. FInv => FlushCompletesAll
  BY DEF FlushedInv, FlushCompletesAll
<1> QED BY <1>1, <1>2, <1>3, PTL DEF Spec

-----------------------------------------------------------------------------
(* Reading a tensor of the open batch.  The flush that gpu_to_cpu makes     *)
(* moves the generation by one, and the arena is empty after it.            *)

NoExplicit ==
  /\ ~inExplicit
  /\ \A t \in Ids : tensors[t].home[1] # "explicit"
  /\ Encoding => draft.home[1] # "explicit"

LEMMA NoExplicitStep ==
  ASSUME "explicit" \notin Calls, Typed, PlaceInv, NoExplicit, [Next]_vars
  PROVE  NoExplicit'
<1>1. ~inExplicit'
  <2>1. CASE UNCHANGED vars
    BY <2>1 DEF NoExplicit, vars, arenaVars
  <2>2. CASE Begin
    BY <2>2 DEF NoExplicit, Begin, BeginSubmit, BeginSyncCall, BeginFlush, BeginReadback,
       BeginSync, BeginEncode, BeginFenceWait, arenaVars
  <2>3. CASE Immediate
    BY <2>3 DEF NoExplicit, Immediate, Clone, ScopeError, SubmitFence, DropFence, ToggleBypass,
       ToggleExplicit, ToggleDecode, ResetExplicit, TryReset, ReclaimPool, GiveUpPlanned,
       BeginStep, EndStep,
       AbandonStep, NormalizeOutput, Idle, arenaVars
  <2>4. CASE Continue
    BY <2>4 DEF NoExplicit, Continue, SyncReturns, CommitSubmitted, CommitFlushed, FlushReturns,
       WaitFails, Read, RotateReturns, Encode, EncodeRejected, FenceReturns, arenaVars
  <2>5. CASE Gpu
    BY <2>5 DEF NoExplicit, Gpu, GpuExecute, GpuComplete, GpuFail, GpuFinish, arenaVars
  <2> QED BY <2>1, <2>2, <2>3, <2>4, <2>5 DEF Next
<1>2. CASE BeginEncode
  <2>1. PICK src, planned : draft' = Allocated(Route(planned), planned, src)
    BY <1>2 DEF BeginEncode
  <2>2. Route(planned) \in {"own", "pool", "planned", "slab"}
    BY DEF Route, PoolRoute, NoExplicit
  <2>3. draft'.home[1] # "explicit"
    BY <2>1, <2>2 DEF Allocated, Home
  <2> QED BY <1>1, <1>2, <2>3 DEF NoExplicit, BeginEncode, clientVars, Ids
<1>3. ASSUME NEW d, AddsTensor(d) PROVE NoExplicit'
  <2>1. /\ Ids = 1..Len(tensors) /\ Ids' = 1..(Len(tensors) + 1) /\ Len(tensors) \in Nat
        /\ tensors'[Len(tensors) + 1] = d
        /\ \A t \in Ids : tensors'[t] = tensors[t]
        /\ ~Encoding'
    BY <1>3, AddedOp DEF AddsTensor, AddsOp, Encoding
  <2>2. d.home[1] # "explicit"
    BY <1>3, OwnIsNew DEF AddsTensor, NoExplicit
  <2>3. \A t \in Ids' : t \in Ids \/ t = Len(tensors) + 1
    BY <2>1
  <2> QED BY <1>1, <2>1, <2>2, <2>3 DEF NoExplicit
<1>4. CASE \/ KeepsPlaces \/ MovesGeneration \/ ReclaimPool
           \/ BeginStep \/ EndStep \/ AbandonStep
  <2>1. UNCHANGED tensors /\ (Encoding' => Encoding /\ UNCHANGED draft)
    BY <1>4 DEF KeepsPlaces, MovesGeneration, ReclaimPool, clientVars, BeginStep, EndStep, AbandonStep, Idle,
       callVars, Encoding
  <2> QED BY <1>1, <2>1 DEF NoExplicit, Ids
<1>5. ~ResetExplicit
  BY DEF ResetExplicit, Idle
<1> QED BY <1>2, <1>3, <1>4, <1>5, PlaceMoves

\* What the open batch writes is of the current generation.
LazyGenInv ==
  \A i \in DOMAIN lazy.ops :
    lazy.ops[i] \in Ids /\ tensors[lazy.ops[i]].gen \in {NoGen, arena.gen}

LEMMA LazyGenStep ==
  ASSUME NoSubmit, IInv, QueueInv, OrderInv, PlaceInv, FlushInv, NoExplicit, LazyGenInv,
         [Next]_vars
  PROVE  LazyGenInv'
<1>0. Typed /\ ArenaShape
  BY DEF IInv, PlaceInv, ArenasTyped
<1>1. CASE arena'.gen # arena.gen
  <2>1. FlushReturns /\ lazy.ops = <<>>
    BY <1>0, <1>1, MovesAfterAllWork
  <2>2. lazy'.ops = <<>>
    BY <2>1 DEF FlushReturns, batchVars
  <2> QED BY <2>2 DEF LazyGenInv
<1>2. CASE arena'.gen = arena.gen
  <2>1. CASE KeepsOps
    BY <1>2, <2>1 DEF KeepsOps, LazyGenInv, Ids
  <2>2. CASE CommitsOps \/ DiscardsOps
    BY <2>2 DEF CommitsOps, DiscardsOps, LazyGenInv
  <2>3. ASSUME NEW e, AddsOp(e) PROVE LazyGenInv'
    <3>1. tensors' # tensors
      <4>1. Len(tensors') # Len(tensors)
        BY <1>0, <2>3, AddedOp
      <4> QED BY <4>1
    <3>2. PICK d : AddsTensor(d)
      BY <1>0, <3>1, PlaceMoves DEF KeepsPlaces, MovesGeneration, BeginEncode,
         ResetExplicit, ReclaimPool, BeginStep, EndStep, AbandonStep, clientVars
    <3>3. d.gen \in {NoGen, arena.gen}
      <4>1. CASE Encoding /\ d = draft
        <5>1. Placed(d, Len(tensors) + 1) /\ d.home[1] # "explicit"
          BY <4>1 DEF PlaceInv, DraftPlaced, NoExplicit
        <5>2. d.home[1] = "slab" => d.gen = arena.gen
          BY <4>1 DEF PlaceInv, DraftPlaced
        <5> QED BY <5>1, <5>2 DEF Placed, OwnPlace, SharedPlace, SlabPlace, ExplicitPlace
      <4>2. CASE \E src \in Ids : MayUse(src) /\ d = Allocated("own", 0, src)
        BY <1>0, <4>2, OwnIsNew DEF OwnPlace
      <4> QED BY <3>2, <4>1, <4>2 DEF AddsTensor
    <3>4. /\ Ids' = 1..(Len(tensors) + 1) /\ Ids = 1..Len(tensors) /\ Len(tensors) \in Nat
          /\ tensors'[Len(tensors) + 1] = d
          /\ \A t \in Ids : tensors'[t] = tensors[t]
          /\ lazy'.ops = Append(lazy.ops, Len(tensors) + 1)
      BY <1>0, <3>2, AddedOp DEF AddsTensor, AddsOp
    <3>5. \A i \in DOMAIN lazy'.ops :
            lazy'.ops[i] = Len(tensors) + 1 \/ (i \in DOMAIN lazy.ops /\ lazy'.ops[i] = lazy.ops[i])
      <4>1. lazy.ops \in Seq(Nat) /\ Len(tensors) + 1 \in Nat
        BY <1>0, <3>4 DEF Typed
      <4> QED BY <3>4, <4>1
    <3> QED BY <1>2, <3>3, <3>4, <3>5 DEF LazyGenInv
  <2> QED BY <1>0, <2>1, <2>2, <2>3, OpsMoves
<1> QED BY <1>1, <1>2

FreshInv ==
  call.op = "readback" /\ call.fresh =>
    /\ pc \in {"sync", "commit"} => \E i \in DOMAIN lazy.ops : lazy.ops[i] = call.target
    /\ pc = "flush" => tensors[call.target].gen \in {NoGen, arena.gen}
    /\ pc = "read" => ~OutOfDate(call.target)

LEMMA FreshStep ==
  ASSUME NoSubmit, IInv, OrderInv, PlaceInv, CallInv, FlushInv, LazyGenInv, FreshInv,
         [Next]_vars
  PROVE  FreshInv'
<1>0. Typed /\ ArenaShape
  BY DEF IInv, PlaceInv, ArenasTyped
<1>1. CASE UNCHANGED vars
  BY <1>1 DEF FreshInv, OutOfDate, vars, batchVars, arenaVars, callVars, clientVars
<1>2. CASE BeginSubmit \/ BeginSyncCall \/ BeginFlush
  <2>1. call'.op # "readback"
    BY <1>2 DEF BeginSubmit, BeginSyncCall, BeginFlush, BeginSync
  <2> QED BY <2>1 DEF FreshInv
<1>3. CASE BeginReadback
  <2>1. PICK t \in Ids : /\ pc' = "sync" /\ UNCHANGED lazy
                         /\ call' = [op |-> "readback", target |-> t, fresh |-> t \in Elements(lazy.ops)]
    BY <1>3 DEF BeginReadback, BeginSync
  <2>2. call'.target = t /\ (call'.fresh <=> t \in Elements(lazy.ops))
    BY <2>1
  <2> QED BY <2>1, <2>2 DEF FreshInv, Elements
<1>4. CASE BeginEncode \/ BeginFenceWait
  <2>1. call'.op \in {"encode", "fence"}
    BY <1>4 DEF BeginEncode, BeginFenceWait, NoCall
  <2> QED BY <2>1 DEF FreshInv
<1>5. CASE Immediate
  <2>1. /\ pc = "idle" /\ call' \in {call, NoCall}
    BY <1>5 DEF Immediate, Clone, ScopeError, SubmitFence, DropFence, ToggleBypass,
       ToggleExplicit, ToggleDecode, ResetExplicit, TryReset, ReclaimPool, GiveUpPlanned,
       BeginStep, EndStep,
       AbandonStep, NormalizeOutput, Idle, Return, callVars
  <2> QED BY <2>1 DEF FreshInv, CallInv, NoCall
<1>6. CASE SyncReturns
  <2>1. pc = "sync" /\ UNCHANGED lazy /\ (call' = NoCall \/ (call' = call /\ pc' = "commit"))
    BY <1>6 DEF SyncReturns, Return, batchVars
  <2> QED BY <2>1 DEF FreshInv, NoCall
<1>7. CASE CommitFlushed
  <2>1. /\ pc = "commit" /\ UNCHANGED <<arena, tensors>>
        /\ \/ lazy.open /\ pc' = "flush" /\ call' = call
           \/ ~lazy.open /\ call' \in {call, NoCall}
    BY <1>7 DEF CommitFlushed, Return, arenaVars, clientVars
  <2>2. CASE lazy.open /\ pc' = "flush" /\ call' = call
    BY <2>1, <2>2 DEF FreshInv, LazyGenInv
  <2>3. CASE ~lazy.open /\ call' \in {call, NoCall}
    BY <2>1, <2>3 DEF FreshInv, OrderInv, NoCall
  <2> QED BY <2>1, <2>2, <2>3
<1>8. CASE FlushReturns
  <2>1. /\ pc = "flush" /\ UNCHANGED tensors /\ arena' = ResetArena
        /\ call' = NoCall \/ (call' = call /\ pc' = "read")
    BY <1>8 DEF FlushReturns, Return, clientVars
  <2>2. CASE call' = NoCall
    BY <2>2 DEF FreshInv, NoCall
  <2>3. CASE call' = call /\ pc' = "read"
    <3> SUFFICES ASSUME call.op = "readback", call.fresh PROVE ~OutOfDate(call.target)'
      BY <2>3 DEF FreshInv
    <3>1. tensors[call.target].gen \in {NoGen, arena.gen} /\ arena.gen \in Nat
      BY <1>0, <2>1 DEF FreshInv, ArenaShape
    <3>2. CASE arena.exists
      <4>1. arena'.off = 0 /\ arena'.gen = arena.gen + 1
        BY <1>0, <2>1, <3>2 DEF ArenaShape, ResetArena
      <4> QED BY <2>1, <2>3, <3>1, <4>1 DEF OutOfDate
    <3>3. CASE ~arena.exists
      BY <2>1, <2>3, <3>3 DEF OutOfDate, ResetArena
    <3> QED BY <3>2, <3>3
  <2> QED BY <2>1, <2>2, <2>3
<1>9. CASE RotateReturns
  BY <1>9 DEF RotateReturns, FreshInv
<1>10. CASE \/ CommitSubmitted \/ WaitFails \/ Read \/ Encode \/ EncodeRejected \/ FenceReturns
  <2>1. call' = NoCall
    BY <1>10 DEF CommitSubmitted, WaitFails, Read, Encode, EncodeRejected, FenceReturns, Return
  <2> QED BY <2>1 DEF FreshInv, NoCall
<1>11. CASE Gpu
  BY <1>11 DEF Gpu, GpuExecute, GpuComplete, GpuFail, GpuFinish, FreshInv, OutOfDate,
     batchVars, arenaVars, callVars, clientVars
<1> QED BY <1>1, <1>2, <1>3, <1>4, <1>5, <1>6, <1>7, <1>8, <1>9, <1>10, <1>11
        DEF Next, Begin, Continue

\* Without submit, a reset by hand, and explicit arenas: gpu_to_cpu does not
\* refuse a tensor of the batch that it flushes itself.
THEOREM FreshReadIsServed ==
  ASSUME NoSubmit, "explicit" \notin Calls
  PROVE  Spec => []FreshReadNeverStale
<1> DEFINE FInv == /\ DataState /\ CallInv /\ FlushInv /\ NoExplicit
                   /\ LazyGenInv /\ FreshInv
<1>1. Init => FInv /\ FreshReadNeverStale
  <2> SUFFICES ASSUME Init PROVE FInv /\ FreshReadNeverStale
    OBVIOUS
  <2>1. DataState /\ CallInv
    BY InitReadState DEF ReadState
  <2>2. FlushInv /\ FreshInv /\ FreshReadNeverStale
    BY DEF Init, FlushInv, FreshInv, NoCall, FreshReadNeverStale, NoOutcome
  <2>3. NoExplicit /\ LazyGenInv
    BY DEF Init, NoExplicit, LazyGenInv, Ids, Encoding, NoBatch
  <2> QED BY <2>1, <2>2, <2>3
<1>2. FInv /\ [Next]_vars => FInv'
  <2> SUFFICES ASSUME FInv, [Next]_vars PROVE FInv'
    OBVIOUS
  <2>1. IInv /\ QueueInv /\ OrderInv /\ PlaceInv /\ Typed /\ "submit" \notin Calls
    BY DEF DataState, IInv, NoSubmit
  <2>2. DataState' /\ CallInv' /\ FlushInv'
    BY <2>1, StepDataState, CallStep, FlushStep
  <2>3. NoExplicit' /\ LazyGenInv' /\ FreshInv'
    BY <2>1, NoExplicitStep, LazyGenStep, FreshStep
  <2> QED BY <2>2, <2>3
<1>3. FInv /\ FreshReadNeverStale /\ [Next]_vars => FreshReadNeverStale'
  <2> SUFFICES ASSUME FInv, FreshReadNeverStale, [Next]_vars PROVE FreshReadNeverStale'
    OBVIOUS
  <2>1. CASE Read
    <3>1. /\ pc = "read" /\ outcome'.fresh = call.fresh
          /\ outcome'.result = IF Stale(call.target) THEN "stale" ELSE "ok"
      BY <2>1 DEF Read
    <3>2. call.fresh => ~Stale(call.target)
      BY <3>1 DEF CallInv, FreshInv, Stale
    <3> QED BY <3>1, <3>2 DEF FreshReadNeverStale
  <2>2. CASE Clone
    <3>1. outcome'.op = "clone"
      BY <2>2 DEF Clone, NoOutcome
    <3> QED BY <3>1 DEF FreshReadNeverStale
  <2>3. CASE CommitFlushed \/ FlushReturns
    <3>1. Return("flush", "ok") \/ UNCHANGED outcome
      BY <2>3 DEF CommitFlushed, FlushReturns
    <3>2. Return("flush", "ok") => outcome'.op = "flush"
      BY DEF Return, NoOutcome
    <3> QED BY <3>1, <3>2 DEF FreshReadNeverStale
  <2> QED BY <2>1, <2>2, <2>3, OutcomeMoves DEF FreshReadNeverStale
<1> QED BY <1>1, <1>2, <1>3, PTL DEF Spec
=============================================================================
