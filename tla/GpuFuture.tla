----------------------------- MODULE GpuFuture ------------------------------
(***************************************************************************)
(* gpu_future.rs: the completion state that client threads share with the  *)
(* handler Metal calls on a thread of its own when the command buffer      *)
(* ends.  Each member of Callbacks is one call of on_complete, made at any *)
(* time from any thread; the steps between two accesses to shared memory   *)
(* are atomic.  The accesses are release stores and acquire loads under    *)
(* one mutex, so interleaving them in program order is faithful.           *)
(***************************************************************************)
EXTENDS Naturals

CONSTANTS
  Callbacks,       \* the calls of on_complete
  None             \* the empty callback slot

ASSUME NoneAssumption ==
  /\ None \notin Callbacks \cup {"handler"}
  /\ "handler" \notin Callbacks

VARIABLES
  status,          \* of the command buffer, as Metal reports it
  completed,       \* CompletionState.completed
  success,         \* CompletionState.success
  slot,            \* CompletionState.user_callback
  holder,          \* who holds its mutex: a callback, "handler" or None
  hpc,             \* where the handler is
  handed,          \* the callback the handler took from the slot
  cpc,             \* where each on_complete call is
  loaded,          \* the success flag each loaded
  runs,            \* history: how often each callback ran
  told,            \* history: what it was told
  polled           \* history: is_complete returned true

vars == <<status, completed, success, slot, holder, hpc, handed, cpc, loaded,
          runs, told, polled>>

Init ==
  /\ status = "committed"
  /\ completed = FALSE /\ success = FALSE
  /\ slot = None /\ holder = None
  /\ hpc = "armed" /\ handed = None
  /\ cpc = [c \in Callbacks |-> "lock"]
  /\ loaded = [c \in Callbacks |-> FALSE]
  /\ runs = [c \in Callbacks |-> 0]
  /\ told = [c \in Callbacks |-> "nothing"]
  /\ polled = FALSE

Run(c, value) ==
  /\ runs' = [runs EXCEPT ![c] = @ + 1]
  /\ told' = [told EXCEPT ![c] = IF value THEN "success" ELSE "failure"]

handlerVars == <<hpc, handed>>
historyVars == <<runs, told, polled>>

-----------------------------------------------------------------------------
(* The GPU (external) and the handler.                                     *)

GpuFinish ==
  /\ status = "committed"
  /\ status' \in {"completed", "error"}
  /\ UNCHANGED <<completed, success, slot, holder, handlerVars, cpc, loaded,
                 historyVars>>

\* the two stores in the other order
StoreSuccessMutant ==
  /\ hpc = "armed" /\ status # "committed"
  /\ completed' = TRUE
  /\ hpc' = "completed"
  /\ UNCHANGED <<status, success, slot, holder, handed, cpc, loaded,
                 historyVars>>
StoreSuccess ==
  /\ hpc = "armed" /\ status # "committed"
  /\ success' = (status = "completed")
  /\ hpc' = "completed"
  /\ UNCHANGED <<status, completed, slot, holder, handed, cpc, loaded,
                 historyVars>>

StoreCompleted ==
  /\ hpc = "completed"
  /\ completed' = TRUE
  /\ hpc' = "lock"
  /\ UNCHANGED <<status, success, slot, holder, handed, cpc, loaded,
                 historyVars>>

HandlerLock ==
  /\ hpc = "lock" /\ holder = None
  /\ holder' = "handler"
  /\ hpc' = "take"
  /\ UNCHANGED <<status, completed, success, slot, handed, cpc, loaded,
                 historyVars>>

\* the slot is read but not emptied
TakeMutant ==
  /\ hpc = "take"
  /\ handed' = slot
  /\ hpc' = "run"
  /\ UNCHANGED <<status, completed, success, slot, holder, cpc, loaded,
                 historyVars>>
Take ==
  /\ hpc = "take"
  /\ handed' = slot
  /\ slot' = None
  /\ hpc' = "run"
  /\ UNCHANGED <<status, completed, success, holder, cpc, loaded, historyVars>>

\* The callback runs on the handler's thread while the mutex is held.
HandlerRun ==
  /\ hpc = "run"
  /\ IF handed = None
     THEN UNCHANGED <<runs, told>>
     ELSE Run(handed, status = "completed")
  /\ holder' = None
  /\ hpc' = "done"
  /\ UNCHANGED <<status, completed, success, slot, handed, cpc, loaded,
                 polled>>

Handler == StoreSuccess \/ StoreCompleted \/ HandlerLock \/ Take \/ HandlerRun

-----------------------------------------------------------------------------
(* on_complete and is_complete.                                            *)

Lock(c) ==
  /\ cpc[c] = "lock" /\ holder = None
  /\ holder' = c
  /\ cpc' = [cpc EXCEPT ![c] = "check"]
  /\ UNCHANGED <<status, completed, success, slot, handlerVars, loaded,
                 historyVars>>

\* the early return keeps the mutex
RejectMutant(c) ==
  /\ cpc[c] = "check" /\ slot # None
  /\ cpc' = [cpc EXCEPT ![c] = "rejected"]
  /\ UNCHANGED <<status, completed, success, slot, holder, handlerVars, loaded,
                 historyVars>>
Reject(c) ==
  /\ cpc[c] = "check" /\ slot # None
  /\ holder' = None
  /\ cpc' = [cpc EXCEPT ![c] = "rejected"]
  /\ UNCHANGED <<status, completed, success, slot, handlerVars, loaded,
                 historyVars>>

\* the flag was loaded before the mutex was taken
StoreMutant(c) ==
  /\ cpc[c] = "check" /\ slot = None
  /\ slot' = c
  /\ holder' = None
  /\ cpc' = [cpc EXCEPT ![c] = "stored"]
  /\ UNCHANGED <<status, completed, success, handlerVars, loaded, historyVars>>
\* Not done: the callback is left for the handler.
Store(c) ==
  /\ cpc[c] = "check" /\ slot = None /\ ~completed
  /\ slot' = c
  /\ holder' = None
  /\ cpc' = [cpc EXCEPT ![c] = "stored"]
  /\ UNCHANGED <<status, completed, success, handlerVars, loaded, historyVars>>

SeeCompleted(c) ==
  /\ cpc[c] = "check" /\ slot = None /\ completed
  /\ cpc' = [cpc EXCEPT ![c] = "load"]
  /\ UNCHANGED <<status, completed, success, slot, holder, handlerVars, loaded,
                 historyVars>>

\* success is loaded and the mutex dropped before user code runs.
LoadSuccess(c) ==
  /\ cpc[c] = "load"
  /\ loaded' = [loaded EXCEPT ![c] = success]
  /\ holder' = None
  /\ cpc' = [cpc EXCEPT ![c] = "run"]
  /\ UNCHANGED <<status, completed, success, slot, handlerVars, historyVars>>

RunNow(c) ==
  /\ cpc[c] = "run"
  /\ Run(c, loaded[c])
  /\ cpc' = [cpc EXCEPT ![c] = "ran"]
  /\ UNCHANGED <<status, completed, success, slot, holder, handlerVars, loaded,
                 polled>>

OnComplete(c) ==
  \/ Lock(c) \/ Reject(c) \/ Store(c) \/ SeeCompleted(c) \/ LoadSuccess(c)
  \/ RunNow(c)

Poll ==
  /\ completed /\ ~polled
  /\ polled' = TRUE
  /\ UNCHANGED <<status, completed, success, slot, holder, handlerVars, cpc,
                 loaded, runs, told>>

Next == GpuFinish \/ Handler \/ Poll \/ \E c \in Callbacks : OnComplete(c)

Spec == Init /\ [][Next]_vars

\* A call, and the handler once the GPU is done, keep running; the mutex is
\* released by every holder, so weak fairness lets each obtain it.
FairSpec ==
  /\ Spec
  /\ WF_vars(Handler)
  /\ \A c \in Callbacks : WF_vars(OnComplete(c))

-----------------------------------------------------------------------------
\* Every variable has its type, and whoever holds the mutex is in its
\* critical section.
TypeOK ==
  /\ status \in {"committed", "completed", "error"}
  /\ completed \in BOOLEAN /\ success \in BOOLEAN /\ polled \in BOOLEAN
  /\ slot \in Callbacks \cup {None}
  /\ holder \in Callbacks \cup {"handler", None}
  /\ hpc \in {"armed", "completed", "lock", "take", "run", "done"}
  /\ handed \in Callbacks \cup {None}
  /\ cpc \in [Callbacks -> {"lock", "check", "rejected", "stored", "load",
                            "run", "ran"}]
  /\ loaded \in [Callbacks -> BOOLEAN]
  /\ runs \in [Callbacks -> Nat]
  /\ told \in [Callbacks -> {"nothing", "success", "failure"}]
  /\ \A c \in Callbacks : holder = c <=> cpc[c] \in {"check", "load"}
  /\ holder = "handler" <=> hpc \in {"take", "run"}

\* A callback runs at most once, and is told how the work really ended,
\* whichever of the handler and on_complete runs it; a rejected one never runs.
ToldOnceRightly ==
  \A c \in Callbacks :
    /\ runs[c] <= 1
    /\ told[c] = "success" => status = "completed"
    /\ told[c] = "failure" => status = "error"
    /\ cpc[c] = "rejected" => runs[c] = 0

\* No callback is left in the slot after the handler has been there, where
\* nothing would ever run it.
NoneLeftBehind == hpc = "done" => slot = None

\* The callbacks accepted so far: left in the slot, run, or about to be.
Accepted == {c \in Callbacks : cpc[c] \in {"stored", "load", "run", "ran"}}

Notice == INSTANCE CompletionNotice WITH accepted <- Accepted

\* The future does what CompletionNotice promises, eventual notification
\* included.
ImplementsNotice == Notice!Spec

\* Every call of on_complete obtains the mutex and returns, whatever the order
\* of registrations and completion.
CallReturns ==
  \A c \in Callbacks : <>(cpc[c] \in {"rejected", "stored", "ran"})

\* is_complete returns true when the command buffer has reached Completed.
PolledMeansCompleted == polled => status = "completed"
=============================================================================
