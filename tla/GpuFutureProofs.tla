-------------------------- MODULE GpuFutureProofs ---------------------------
(***************************************************************************)
(* For any number of on_complete calls: the mutex discipline, one callback *)
(* run at most once with the true result, and none left behind.            *)
(***************************************************************************)
EXTENDS GpuFuture, TLAPS

\* The two flags follow the handler, and follow the status.
FlagsFollow ==
  /\ hpc # "armed" => status # "committed" /\ success = (status = "completed")
  /\ completed <=> hpc \in {"lock", "take", "run", "done"}

\* Who may still run each callback: its own call, the slot or the handler.
OneRunner ==
  /\ \A c \in Callbacks :
       /\ slot = c => cpc[c] = "stored" /\ runs[c] = 0
       /\ hpc = "run" /\ handed = c => cpc[c] = "stored" /\ runs[c] = 0
       /\ cpc[c] \in {"lock", "check", "rejected", "load", "run"} => runs[c] = 0
       /\ cpc[c] \in {"load", "run"} => completed
       /\ cpc[c] = "run" => loaded[c] = (status = "completed")
       /\ runs[c] \in {0, 1}
       /\ runs[c] = 0 => told[c] = "nothing"
       /\ runs[c] # 0 => hpc # "armed" /\ told[c] =
            IF status = "completed" THEN "success" ELSE "failure"
  /\ hpc \in {"run", "done"} => slot = None
  /\ hpc \in {"armed", "completed", "lock", "take"} => handed = None

IInv == TypeOK /\ FlagsFollow /\ OneRunner

LEMMA InitIInv == Init => IInv
<1> SUFFICES ASSUME Init PROVE IInv
  OBVIOUS
<1>1. TypeOK
  <2>1. /\ cpc \in [Callbacks -> {"lock", "check", "rejected", "stored", "load",
                                  "run", "ran"}]
        /\ loaded \in [Callbacks -> BOOLEAN] /\ runs \in [Callbacks -> Nat]
        /\ told \in [Callbacks -> {"nothing", "success", "failure"}]
    BY DEF Init
  <2>2. \A c \in Callbacks : holder = c <=> cpc[c] \in {"check", "load"}
    BY NoneAssumption DEF Init
  <2>3. holder = "handler" <=> hpc \in {"take", "run"}
    BY NoneAssumption DEF Init
  <2> QED BY <2>1, <2>2, <2>3 DEF Init, TypeOK
<1>2. FlagsFollow
  BY DEF Init, FlagsFollow
<1>3. OneRunner
  BY NoneAssumption DEF Init, OneRunner
<1> QED BY <1>1, <1>2, <1>3 DEF IInv

LEMMA StepIInv == IInv /\ [Next]_vars => IInv'
<1> SUFFICES ASSUME IInv, [Next]_vars PROVE IInv'
  OBVIOUS
<1> USE NoneAssumption DEF IInv, Run, handlerVars, historyVars
<1>1. CASE GpuFinish
  <2>1. TypeOK' BY <1>1 DEF GpuFinish, TypeOK
  <2>2. FlagsFollow' BY <1>1 DEF GpuFinish, TypeOK, FlagsFollow
  <2>3. OneRunner' BY <1>1 DEF GpuFinish, TypeOK, FlagsFollow, OneRunner
  <2> QED BY <2>1, <2>2, <2>3
<1>2. CASE StoreSuccess
  <2>1. TypeOK' BY <1>2 DEF StoreSuccess, TypeOK
  <2>2. FlagsFollow' BY <1>2 DEF StoreSuccess, TypeOK, FlagsFollow
  <2>3. OneRunner' BY <1>2 DEF StoreSuccess, TypeOK, FlagsFollow, OneRunner
  <2> QED BY <2>1, <2>2, <2>3
<1>3. CASE StoreCompleted
  <2>1. TypeOK' BY <1>3 DEF StoreCompleted, TypeOK
  <2>2. FlagsFollow' BY <1>3 DEF StoreCompleted, TypeOK, FlagsFollow
  <2>3. OneRunner' BY <1>3 DEF StoreCompleted, TypeOK, FlagsFollow, OneRunner
  <2> QED BY <2>1, <2>2, <2>3
<1>4. CASE HandlerLock
  <2>1. TypeOK' BY <1>4 DEF HandlerLock, TypeOK
  <2>2. FlagsFollow' BY <1>4 DEF HandlerLock, TypeOK, FlagsFollow
  <2>3. OneRunner' BY <1>4 DEF HandlerLock, TypeOK, FlagsFollow, OneRunner
  <2> QED BY <2>1, <2>2, <2>3
<1>5. CASE Take
  <2>1. TypeOK' BY <1>5 DEF Take, TypeOK
  <2>2. FlagsFollow' BY <1>5 DEF Take, TypeOK, FlagsFollow
  <2>3. OneRunner' BY <1>5 DEF Take, TypeOK, FlagsFollow, OneRunner
  <2> QED BY <2>1, <2>2, <2>3
<1>6. CASE HandlerRun
  <2>1. TypeOK' BY <1>6 DEF HandlerRun, TypeOK
  <2>2. FlagsFollow' BY <1>6 DEF HandlerRun, TypeOK, FlagsFollow
  <2>3. OneRunner' BY <1>6 DEF HandlerRun, TypeOK, FlagsFollow, OneRunner
  <2> QED BY <2>1, <2>2, <2>3
<1>7. CASE Poll
  BY <1>7 DEF Poll, TypeOK, FlagsFollow, OneRunner
<1>8. ASSUME NEW c \in Callbacks, Lock(c) PROVE IInv'
  <2>1. TypeOK' BY <1>8 DEF Lock, TypeOK
  <2>2. FlagsFollow' BY <1>8 DEF Lock, TypeOK, FlagsFollow
  <2>3. OneRunner' BY <1>8 DEF Lock, TypeOK, FlagsFollow, OneRunner
  <2> QED BY <2>1, <2>2, <2>3
<1>9. ASSUME NEW c \in Callbacks, Reject(c) PROVE IInv'
  <2>1. TypeOK' BY <1>9 DEF Reject, TypeOK
  <2>2. FlagsFollow' BY <1>9 DEF Reject, TypeOK, FlagsFollow
  <2>3. OneRunner' BY <1>9 DEF Reject, TypeOK, FlagsFollow, OneRunner
  <2> QED BY <2>1, <2>2, <2>3
<1>10. ASSUME NEW c \in Callbacks, Store(c) PROVE IInv'
  <2>1. TypeOK' BY <1>10 DEF Store, TypeOK
  <2>2. FlagsFollow' BY <1>10 DEF Store, TypeOK, FlagsFollow
  <2>3. OneRunner' BY <1>10 DEF Store, TypeOK, FlagsFollow, OneRunner
  <2> QED BY <2>1, <2>2, <2>3
<1>11. ASSUME NEW c \in Callbacks, SeeCompleted(c) PROVE IInv'
  <2>1. TypeOK' BY <1>11 DEF SeeCompleted, TypeOK
  <2>2. FlagsFollow' BY <1>11 DEF SeeCompleted, TypeOK, FlagsFollow
  <2>3. OneRunner' BY <1>11 DEF SeeCompleted, TypeOK, FlagsFollow, OneRunner
  <2> QED BY <2>1, <2>2, <2>3
<1>12. ASSUME NEW c \in Callbacks, LoadSuccess(c) PROVE IInv'
  <2>1. TypeOK' BY <1>12 DEF LoadSuccess, TypeOK
  <2>2. FlagsFollow' BY <1>12 DEF LoadSuccess, TypeOK, FlagsFollow
  <2>3. OneRunner' BY <1>12 DEF LoadSuccess, TypeOK, FlagsFollow, OneRunner
  <2> QED BY <2>1, <2>2, <2>3
<1>13. ASSUME NEW c \in Callbacks, RunNow(c) PROVE IInv'
  <2>1. TypeOK' BY <1>13 DEF RunNow, TypeOK
  <2>2. FlagsFollow' BY <1>13 DEF RunNow, TypeOK, FlagsFollow
  <2>3. OneRunner' BY <1>13 DEF RunNow, TypeOK, FlagsFollow, OneRunner
  <2> QED BY <2>1, <2>2, <2>3
<1>14. CASE UNCHANGED vars
  BY <1>14 DEF vars, TypeOK, FlagsFollow, OneRunner
<1> QED
  BY <1>1, <1>2, <1>3, <1>4, <1>5, <1>6, <1>7, <1>8, <1>9, <1>10, <1>11, <1>12, <1>13, <1>14 DEF Next, Handler, OnComplete

\* The mutex is held exactly by whoever is in its critical section, and every
\* variable has its type.
THEOREM TypeCorrect == Spec => []TypeOK
<1>1. IInv => TypeOK
  BY DEF IInv
<1> QED BY <1>1, InitIInv, StepIInv, PTL DEF Spec

\* However registration and completion interleave, a callback runs at most
\* once, is told how the work really ended, and a rejected one never runs.
THEOREM NotifiedOnce == Spec => []ToldOnceRightly
<1>1. ASSUME IInv, NEW c \in Callbacks
      PROVE  /\ runs[c] <= 1
             /\ told[c] = "success" => status = "completed"
             /\ told[c] = "failure" => status = "error"
             /\ cpc[c] = "rejected" => runs[c] = 0
  <2>1. /\ runs[c] \in {0, 1}
        /\ cpc[c] = "rejected" => runs[c] = 0
        /\ runs[c] = 0 => told[c] = "nothing"
        /\ runs[c] # 0 => status # "committed" /\ told[c] =
             IF status = "completed" THEN "success" ELSE "failure"
        /\ status \in {"committed", "completed", "error"}
    BY <1>1 DEF IInv, TypeOK, FlagsFollow, OneRunner
  <2> QED BY <2>1
<1>2. IInv => ToldOnceRightly
  BY <1>1 DEF ToldOnceRightly
<1> QED BY <1>2, InitIInv, StepIInv, PTL DEF Spec

\* The handler never leaves behind a callback that nothing else would run.
THEOREM NoLostCallback == Spec => []NoneLeftBehind
<1>1. IInv => NoneLeftBehind
  BY DEF IInv, OneRunner, NoneLeftBehind
<1> QED BY <1>1, InitIInv, StepIInv, PTL DEF Spec

-----------------------------------------------------------------------------
LEMMA NoticeInit == Init => Notice!Init
BY DEF Init, Notice!Init, Accepted

\* Only Store and SeeCompleted accept, only HandlerRun and RunNow tell.
LEMMA NoticeStep == IInv /\ [Next]_vars => [Notice!Next]_Notice!vars
<1> SUFFICES ASSUME IInv, [Next]_vars PROVE [Notice!Next]_Notice!vars
  OBVIOUS
<1> USE NoneAssumption DEF IInv, handlerVars, historyVars
<1>1. CASE GpuFinish
  BY <1>1 DEF GpuFinish, Notice!Next, Notice!Finish, Accepted
<1>2. CASE StoreSuccess \/ StoreCompleted \/ HandlerLock \/ Take \/ Poll
  BY <1>2 DEF StoreSuccess, StoreCompleted, HandlerLock, Take, Poll,
              Notice!vars, Accepted
<1>3. CASE HandlerRun
  <2>1. CASE handed = None
    BY <1>3, <2>1 DEF HandlerRun, Notice!vars, Accepted
  <2>2. CASE handed # None
    <3>1. /\ handed \in Callbacks /\ cpc[handed] = "stored"
          /\ told[handed] = "nothing" /\ status # "committed"
      BY <1>3, <2>2 DEF HandlerRun, TypeOK, FlagsFollow, OneRunner
    <3>2. Notice!Tell(handed)
      BY <1>3, <2>2, <3>1 DEF HandlerRun, Run, Notice!Tell, Accepted
    <3> QED BY <3>1, <3>2 DEF Notice!Next
  <2> QED BY <2>1, <2>2
<1>4. ASSUME NEW c \in Callbacks, Lock(c) \/ Reject(c) \/ LoadSuccess(c)
      PROVE  UNCHANGED Notice!vars
  <2>1. Accepted' = Accepted
    BY <1>4 DEF Lock, Reject, LoadSuccess, Accepted, TypeOK
  <2> QED BY <1>4, <2>1 DEF Lock, Reject, LoadSuccess, Notice!vars
<1>5. ASSUME NEW c \in Callbacks, Store(c) \/ SeeCompleted(c)
      PROVE  Notice!Accept(c)
  <2>1. Accepted' = Accepted \cup {c}
    BY <1>5 DEF Store, SeeCompleted, Accepted, TypeOK
  <2> QED BY <1>5, <2>1 DEF Store, SeeCompleted, Notice!Accept
<1>6. ASSUME NEW c \in Callbacks, RunNow(c)
      PROVE  Notice!Tell(c)
  <2>1. Accepted' = Accepted /\ c \in Accepted
    BY <1>6 DEF RunNow, Accepted, TypeOK
  <2>2. /\ told[c] = "nothing" /\ status # "committed"
        /\ loaded[c] = (status = "completed")
    BY <1>6 DEF RunNow, TypeOK, FlagsFollow, OneRunner
  <2>3. told' = [told EXCEPT ![c] =
                   IF status = "completed" THEN "success" ELSE "failure"]
    BY <1>6, <2>2 DEF RunNow, Run
  <2> QED BY <1>6, <2>1, <2>2, <2>3 DEF RunNow, Notice!Tell
<1>7. CASE UNCHANGED vars
  BY <1>7 DEF vars, Notice!vars, Accepted
<1> QED
  BY <1>1, <1>2, <1>3, <1>4, <1>5, <1>6, <1>7
     DEF Next, Handler, OnComplete, Notice!Next

\* A future implements the safety part of its abstract specification: every
\* accepted callback, and no other, is told once, after the GPU is done.
THEOREM ImplementsNoticeSafety == Spec => Notice!Safety
BY InitIInv, StepIInv, NoticeInit, NoticeStep, PTL DEF Spec, Notice!Safety
=============================================================================
