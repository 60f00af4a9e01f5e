------------------------- MODULE MutexWorkersProofs -------------------------
(***************************************************************************)
(* Proofs about MutexWorkers, for any set of threads, any number of        *)
(* workers and any spin limit: when main is past its joins the mutex of    *)
(* test_mutex is free and nobody is inside a call of it.                   *)
(*                                                                         *)
(* The proof is put together from the components' own: the steps of the    *)
(* mutex and of the threads are steps of Mutex and of Pthread, so what     *)
(* MutexProofs and PthreadProofs prove inductive is cited here, not proved *)
(* again.  What is added says how the two go together: which thread holds  *)
(* the mutex at which place of mutex_worker, and that every handle main    *)
(* has not joined yet is still ahead of it in threads[].                   *)
(***************************************************************************)
EXTENDS MutexWorkers, TLAPS

MP == INSTANCE MutexProofs WITH Threads <- Tids \cup {Main}, pc <- call

PP == INSTANCE PthreadProofs WITH pc <- tpc, Values <- Statuses

-----------------------------------------------------------------------------
(* The inductive invariant *)

\* The loop over threads[] is behind main.
Past == step \in {"misuse", "misusing", "done"}

TestTypeOK ==
    /\ step \in {"lock", "locking", "relock", "relocking", "unlock", "unlocking",
                 "create", "join", "stuck", "misuse", "misusing", "done"}
    /\ threads \in Seq(Blocks \cup {None}) /\ Len(threads) <= Workers
    /\ joined \in 0..Workers
    /\ place \in [Tids -> {"lock", "locking", "work", "unlocking"} \cup Statuses]

\* Where t can be with respect to the mutex: outside, in lock(), holding it, in unlock().
Outside(t) == call[t] = "idle" /\ t \notin held

Locking(t) ==
    /\ call[t] \in {"idle"} \cup MP!LockSteps
    /\ t \in held <=> call[t] = "idle" /\ ret[t] = "ok"

Inside(t) == call[t] = "idle" /\ t \in held

Unlocking(t) ==
    /\ call[t] \in {"idle"} \cup MP!UnlockSteps
    /\ t \in held <=> call[t] \in {"unlock_check", "clear_owner", "store"}

\* A worker that is past its own unlock, or whose lock was refused, is outside, and
\* only a thread inside its start routine is anywhere else.
WorkersOK ==
    mpc # "dead" => \A t \in Tids :
        /\ place[t] \in {"lock"} \cup Statuses => Outside(t)
        /\ place[t] = "locking" => Locking(t)
        /\ place[t] = "work" => Inside(t)
        /\ place[t] = "unlocking" => Unlocking(t)
        /\ place[t] \in {"locking", "work", "unlocking"} => tpc[t] = "start"

MainOK ==
    /\ step \in {"lock", "create", "join", "stuck", "misuse", "done"} => Outside(Main)
    /\ step = "locking" => Locking(Main)
    /\ step \in {"relock", "unlock"} => Inside(Main)
    /\ step = "relocking" => call[Main] \in {"idle", "lock_check"} /\ Main \in held
    /\ step = "unlocking" => Unlocking(Main)
    /\ step = "misusing" => call[Main] \in {"idle", "unlock_check"} /\ Main \notin held

\* The first of threads[] whose join is not over, or not as far as the free.
Ahead == IF mpc = "unmap" THEN joined + 2 ELSE joined + 1

\* Main is in its loop over threads[], or asleep in it for good.
Joining == step \in {"join", "stuck"}

\* Main has the handles of the threads ahead of it in its loop and no others.
LoopOK ==
    mpc # "dead" =>
        /\ mpc \in PP!CreateSteps => step = "create" /\ Len(threads) < Workers
        /\ mpc \in PP!JoinSteps => step = "join" /\ joined < Workers
        /\ mpc \in PP!JoinSteps \ {"unmap"} => mblock = threads[joined + 1]
        /\ step # "create" /\ ~Joining /\ ~Past => handles = {} /\ threads = <<>>
        /\ ~Joining /\ ~Past => joined = 0
        /\ Joining \/ Past => Len(threads) = Workers
        /\ Past => joined = Workers
        /\ \A b \in handles : \E i \in Ahead..Len(threads) : threads[i] = b

\* Nobody is inside a call of a mutex whose owner is the stranger but main, and
\* main's is refused.
Quiet ==
    /\ lock = 0 /\ sleepers = {} /\ held = {} /\ owner = Stranger
    /\ call \in [Tids \cup {Main} -> {"idle", "unlock_check"}]
    /\ \A t \in Tids : call[t] = "idle"

\* The mutex's own invariant holds until main writes its owner field.
IInv ==
    /\ TestTypeOK
    /\ PP!IInv
    /\ WorkersOK /\ MainOK /\ LoopOK
    /\ ~Past => MP!IInv
    /\ Past => Quiet

-----------------------------------------------------------------------------
(* The components' proofs, cited *)

\* The assumptions of the two components follow from this module's.
LEMMA Assumptions == MP!MutexAssumption /\ PP!PthreadAssumption
  BY WorkersAssumption DEF MP!MutexAssumption, PP!PthreadAssumption

\* Every mutex step that the test takes preserves the mutex's invariant.
LEMMA MutexStep ==
  ASSUME MP!IInv, NEW t \in Tids \cup {Main},
         \/ M!CallLock(t) \/ M!CallUnlock(t)
         \/ M!WaitInterrupted(t) \/ M!WaitFails(t)
         \/ M!Run(t)
  PROVE  MP!IInv'
<1> USE DEF M!Step, M!Return, M!Goto, MP!Step, MP!Return, MP!Goto
<1>1. CASE M!CallLock(t) \/ M!CallUnlock(t)
  <2>1. MP!CallLock(t) \/ MP!CallUnlock(t)
    BY <1>1 DEF M!CallLock, M!CallUnlock, MP!CallLock, MP!CallUnlock
  <2>2. MP!Next
    BY <2>1 DEF MP!Next
  <2> QED
    BY <2>2, Assumptions, MP!NextInv
<1>2. CASE M!WaitInterrupted(t) \/ M!WaitFails(t)
  <2>1. MP!WaitInterrupted(t) \/ MP!WaitFails(t)
    BY <1>2 DEF M!WaitInterrupted, M!WaitFails, MP!WaitInterrupted, MP!WaitFails
  <2>2. MP!Next
    BY <2>1 DEF MP!Next
  <2> QED
    BY <2>2, Assumptions, MP!NextInv
<1>3. CASE M!Run(t)
  <2>1. MP!Run(t)
    BY <1>3 DEF M!Run, M!LockCheck, M!Cas, M!SetOwner, M!Spin, M!WaitSleeps, M!WaitAgain,
       M!UnlockCheck, M!ClearOwner, M!Store, M!Wake,
       MP!Run, MP!LockCheck, MP!Cas, MP!SetOwner, MP!Spin, MP!WaitSleeps, MP!WaitAgain,
       MP!UnlockCheck, MP!ClearOwner, MP!Store, MP!Wake
  <2>2. MP!Next
    BY <2>1 DEF MP!Next
  <2> QED
    BY <2>2, Assumptions, MP!NextInv
<1> QED
  BY <1>1, <1>2, <1>3

\* A step of pthread_create, pthread_join or a thread preserves their invariant.
LEMMA ThreadStep == PP!IInv /\ [PP!Next]_(PP!vars) => PP!IInv'
<1>1. PP!IInv /\ [PP!Next]_(PP!vars) => PP!Rest'
  BY Assumptions, PP!NextInv
<1>2. PP!IInv /\ [PP!Next]_(PP!vars) => PP!TypeOK'
  BY Assumptions, PP!NextTypeOK DEF PP!IInv, PP!Rest
<1> QED
  BY <1>1, <1>2 DEF PP!IInv

\* So do the end of the process and a step that touches no thread.
LEMMA ThreadRest ==
  ASSUME PP!IInv, (P!Die /\ UNCHANGED madeFor) \/ UNCHANGED threadVars
  PROVE  PP!IInv'
<1>1. CASE P!Die /\ UNCHANGED madeFor
  <2>1. PP!Die
    BY <1>1 DEF P!Die, PP!Die, P!memory, PP!memory
  <2>2. PP!Rest'
    BY <1>1, <2>1, Assumptions, PP!DieInv
  <2>3. PP!TypeOK'
    BY <1>1, <2>1, Assumptions, PP!DieTypeOK DEF PP!IInv
  <2> QED
    BY <2>2, <2>3 DEF PP!IInv
<1>2. CASE UNCHANGED threadVars
  BY <1>2, ThreadStep DEF threadVars, PP!vars, PP!mainVars, PP!memory, PP!threadVars
<1> QED
  BY <1>1, <1>2

-----------------------------------------------------------------------------
(* How the steps of the mutex move the threads between its places *)

\* What a step of another thread may do to u: take it off the queue, nothing else.
Unmoved(u) ==
    /\ call'[u] = call[u] \/ (call[u] = "asleep" /\ call'[u] = "cas")
    /\ ret'[u] = ret[u]
    /\ u \in held' <=> u \in held

\* That changes nothing about where u is.
LEMMA UnmovedStays ==
  ASSUME NEW u, Unmoved(u)
  PROVE  /\ Outside(u) => Outside(u)'
         /\ Locking(u) => Locking(u)'
         /\ Inside(u) => Inside(u)'
         /\ Unlocking(u) => Unlocking(u)'
  BY DEF Unmoved, Outside, Locking, Inside, Unlocking, MP!LockSteps, MP!UnlockSteps

\* A call of pthread_mutex_lock takes the caller to its first step.
LEMMA CallLockMoves ==
  ASSUME MP!IInv, NEW t \in Tids \cup {Main}, M!CallLock(t)
  PROVE  /\ \A u \in (Tids \cup {Main}) \ {t} : Unmoved(u)
         /\ Outside(t) => Locking(t)'
         /\ call'[t] = "lock_check" /\ held' = held
  BY DEF M!CallLock, M!Step, M!Goto, MP!IInv, MP!TypeOK, Unmoved, Outside, Locking, MP!LockSteps

\* So does a call of pthread_mutex_unlock.
LEMMA CallUnlockMoves ==
  ASSUME MP!IInv, NEW t \in Tids \cup {Main}, M!CallUnlock(t)
  PROVE  /\ \A u \in (Tids \cup {Main}) \ {t} : Unmoved(u)
         /\ Inside(t) => Unlocking(t)'
  BY DEF M!CallUnlock, M!Step, M!Goto, MP!IInv, MP!TypeOK, Unmoved, Inside, Unlocking, MP!UnlockSteps

\* A step inside a call stays in the call or ends it with what it returns: a
\* holder's unlock is never refused, and its second lock always is.
LEMMA CallMoves ==
  ASSUME MP!IInv, NEW t \in Tids \cup {Main},
         M!WaitInterrupted(t) \/ M!WaitFails(t) \/ M!Run(t)
  PROVE  /\ \A u \in (Tids \cup {Main}) \ {t} : Unmoved(u)
         /\ call[t] # "idle"
         /\ Locking(t) => Locking(t)'
         /\ Unlocking(t) => Unlocking(t)'
         /\ call[t] = "lock_check" /\ t \in held => call'[t] = "idle" /\ t \in held'
<1> USE DEF MP!IInv, MP!TypeOK, MP!OwnerIsHolder, MP!QueueOK, MP!PlaceOK, MP!Contending,
        Unmoved, Locking, Unlocking, MP!LockSteps, MP!UnlockSteps, M!Step, M!Return, M!Goto
<1>1. CASE M!WaitInterrupted(t) \/ M!WaitFails(t)
  BY <1>1 DEF M!WaitInterrupted, M!WaitFails
<1>2. CASE M!LockCheck(t)
  BY <1>2 DEF M!LockCheck
<1>3. CASE M!Cas(t) \/ M!SetOwner(t)
  BY <1>3 DEF M!Cas, M!SetOwner
<1>4. CASE M!Spin(t) \/ M!WaitSleeps(t) \/ M!WaitAgain(t)
  BY <1>4 DEF M!Spin, M!WaitSleeps, M!WaitAgain
<1>5. CASE M!UnlockCheck(t)
  BY <1>5 DEF M!UnlockCheck
<1>6. CASE M!ClearOwner(t) \/ M!Store(t)
  BY <1>6 DEF M!ClearOwner, M!Store
<1>7. CASE M!Wake(t)
  BY <1>7 DEF M!Wake
<1> QED
  BY <1>1, <1>2, <1>3, <1>4, <1>5, <1>6, <1>7 DEF M!Run

-----------------------------------------------------------------------------
(* The steps of the test *)

\* test_mutex with its mutex initialised and no thread made satisfies the invariant.
LEMMA InitInv == Init => IInv
<1> SUFFICES ASSUME Init PROVE IInv
  OBVIOUS
<1> USE WorkersAssumption DEF Init
<1>1. TestTypeOK /\ ~Past
  BY DEF TestTypeOK, Past
<1>2. PP!IInv
  <2>1. PP!Init
    BY DEF P!Init, PP!Init
  <2> QED
    BY <2>1, Assumptions, PP!InitInv
<1>3. MP!IInv
  <2>1. MP!Init
    BY DEF M!Init, MP!Init
  <2> QED
    BY <2>1, Assumptions, MP!InitInv
<1>4. WorkersOK /\ MainOK
  BY DEF WorkersOK, MainOK, Outside, M!Init
<1>5. LoopOK
  BY <1>1 DEF LoopOK, Joining, P!Init, PP!CreateSteps, PP!JoinSteps
<1> QED
  BY <1>1, <1>2, <1>3, <1>4, <1>5 DEF IInv

\* Once every thread is joined, none is in its start routine.
LEMMA NobodyStarts ==
  ASSUME TestTypeOK, PP!IInv, LoopOK, mpc # "dead",
         Past \/ (step = "join" /\ mpc = "idle" /\ joined = Workers)
  PROVE  /\ mpc = "idle" /\ handles = {}
         /\ \A t \in Tids : tpc[t] # "start"
<1>1. mpc = "idle"
  BY DEF LoopOK, Joining, PP!IInv, PP!TypeOK, PP!CreateSteps, PP!JoinSteps, Past
<1>2. joined = Workers /\ Len(threads) = Workers
  BY DEF LoopOK, Joining
<1>3. handles = {}
  BY <1>1, <1>2, WorkersAssumption DEF LoopOK, Joining, Ahead
<1> QED
  BY <1>1, <1>3 DEF PP!IInv, PP!Rest, PP!Owned, PP!Unannounced

\* A thread in its start routine finds the test before the end of main's loop.
LEMMA StartedEarly ==
  ASSUME IInv, NEW t \in Tids, tpc[t] = "start"
  PROVE  mpc # "dead" /\ ~Past /\ MP!IInv
  BY NobodyStarts DEF IInv, PP!IInv, PP!Rest, PP!Places

\* The steps of mutex_worker, the last one excepted, keep the invariant.
LEMMA WorkerInv ==
  ASSUME IInv, NEW t \in Tids,
         WorkerLocks(t) \/ WorkerLocked(t) \/ WorkerUnlocks(t) \/ WorkerUnlocked(t)
  PROVE  IInv'
<1> USE WorkersAssumption
<1>1. /\ tpc[t] = "start" /\ UNCHANGED <<threadVars, step, threads, joined>>
      /\ \E from, to \in {"lock", "locking", "work", "unlocking"} \cup Statuses :
            place[t] = from /\ place' = [place EXCEPT ![t] = to]
  BY DEF WorkerLocks, WorkerLocked, WorkerUnlocks, WorkerUnlocked, WorkerGoes, Statuses
<1>2. mpc # "dead" /\ ~Past /\ MP!IInv
  BY <1>1, StartedEarly
<1>3. TestTypeOK' /\ ~Past'
  BY <1>1, <1>2 DEF IInv, TestTypeOK, Past
<1>4. PP!IInv'
  BY <1>1, ThreadRest DEF IInv
<1>5. LoopOK'
  BY <1>1, <1>3 DEF IInv, LoopOK, Joining, Ahead, threadVars, Past
<1>6. CASE WorkerLocks(t)
  <2>1. M!CallLock(t) /\ Outside(t)
    BY <1>2, <1>6 DEF WorkerLocks, WorkerGoes, IInv, WorkersOK
  <2>2. MP!IInv' /\ Locking(t)' /\ \A u \in (Tids \cup {Main}) \ {t} : Unmoved(u)
    BY <1>2, <2>1, MutexStep, CallLockMoves
  <2>3. WorkersOK'
    <3>1. ASSUME NEW u \in Tids, u # t
          PROVE  /\ place'[u] = place[u] /\ tpc'[u] = tpc[u]
                 /\ Outside(u) => Outside(u)'
                 /\ Locking(u) => Locking(u)'
                 /\ Inside(u) => Inside(u)'
                 /\ Unlocking(u) => Unlocking(u)'
      BY <1>1, <2>2, <3>1, UnmovedStays DEF IInv, TestTypeOK, threadVars
    <3>2. place'[t] = "locking" /\ tpc'[t] = "start"
      BY <1>1, <1>6 DEF WorkerLocks, WorkerGoes, IInv, TestTypeOK, threadVars
    <3> QED
      BY <1>2, <2>2, <3>1, <3>2 DEF IInv, WorkersOK, Statuses
  <2>4. MainOK'
    BY <1>1, <2>2 DEF IInv, MainOK, Unmoved, Outside, Locking, Inside, Unlocking, MP!LockSteps, MP!UnlockSteps
  <2> QED
    BY <1>3, <1>4, <1>5, <2>2, <2>3, <2>4 DEF IInv
<1>7. CASE WorkerUnlocks(t)
  <2>1. M!CallUnlock(t) /\ Inside(t)
    BY <1>2, <1>7 DEF WorkerUnlocks, WorkerGoes, IInv, WorkersOK
  <2>2. MP!IInv' /\ Unlocking(t)' /\ \A u \in (Tids \cup {Main}) \ {t} : Unmoved(u)
    BY <1>2, <2>1, MutexStep, CallUnlockMoves
  <2>3. WorkersOK'
    <3>1. ASSUME NEW u \in Tids, u # t
          PROVE  /\ place'[u] = place[u] /\ tpc'[u] = tpc[u]
                 /\ Outside(u) => Outside(u)'
                 /\ Locking(u) => Locking(u)'
                 /\ Inside(u) => Inside(u)'
                 /\ Unlocking(u) => Unlocking(u)'
      BY <1>1, <2>2, <3>1, UnmovedStays DEF IInv, TestTypeOK, threadVars
    <3>2. place'[t] = "unlocking" /\ tpc'[t] = "start"
      BY <1>1, <1>7 DEF WorkerUnlocks, WorkerGoes, IInv, TestTypeOK, threadVars
    <3> QED
      BY <1>2, <2>2, <3>1, <3>2 DEF IInv, WorkersOK, Statuses
  <2>4. MainOK'
    BY <1>1, <2>2 DEF IInv, MainOK, Unmoved, Outside, Locking, Inside, Unlocking, MP!LockSteps, MP!UnlockSteps
  <2> QED
    BY <1>3, <1>4, <1>5, <2>2, <2>3, <2>4 DEF IInv
<1>8. CASE WorkerLocked(t) \/ WorkerUnlocked(t)
  <2>1. UNCHANGED mutexVars
    BY <1>8 DEF WorkerLocked, WorkerUnlocked
  <2>2. MP!IInv' /\ MainOK'
    <3>1. UNCHANGED MP!vars
      BY <2>1 DEF mutexVars, MP!vars
    <3> QED
      BY <1>1, <1>2, <2>1, <3>1, Assumptions, MP!NextInv DEF IInv, MainOK, mutexVars, Outside, Locking, Inside, Unlocking
  <2>3. WorkersOK'
    BY <1>1, <1>2, <1>8, <2>1 DEF IInv, TestTypeOK, WorkersOK, WorkerLocked, WorkerUnlocked, WorkerGoes, Statuses,
       mutexVars, threadVars, Outside, Locking, Inside, Unlocking
  <2> QED
    BY <1>3, <1>4, <1>5, <2>2, <2>3 DEF IInv
<1> QED
  BY <1>6, <1>7, <1>8

\* Steps that leave the mutex alone keep what is said about it.
LEMMA MutexKept ==
  ASSUME IInv, UNCHANGED mutexVars
  PROVE  /\ MP!IInv => MP!IInv'
         /\ Quiet => Quiet'
         /\ \A t \in Tids \cup {Main} :
                /\ Outside(t) => Outside(t)'
                /\ Locking(t) => Locking(t)'
                /\ Inside(t) => Inside(t)'
                /\ Unlocking(t) => Unlocking(t)'
<1>1. UNCHANGED MP!vars
  BY DEF mutexVars, MP!vars
<1>2. MP!IInv => MP!IInv'
  BY <1>1, Assumptions, MP!NextInv
<1> QED
  BY <1>2 DEF mutexVars, Quiet, Outside, Locking, Inside, Unlocking

\* A thread goes on in pthread_start only from outside the mutex, and no step of
\* it but the return of its routine takes it from "start", or the end of a process
\* that made it without a stack.
LEMMA ReturnInv ==
  ASSUME IInv, NEW t \in Tids, WorkerReturns(t) \/ WorkerDies(t)
  PROVE  IInv'
<1>1. /\ P!Routine(t) /\ tpc[t] = "start"
      /\ UNCHANGED <<mutexVars, step, threads, joined>>
      /\ \/ stack[t] = None /\ UNCHANGED place
         \/ stack[t] # None /\ place[t] \in Statuses /\ place' = [place EXCEPT ![t] = "lock"]
  BY DEF WorkerReturns, WorkerDies, WorkerGoes, testVars
<1>2. mpc # "dead" /\ ~Past /\ MP!IInv
  BY <1>1, StartedEarly
<1>3. TestTypeOK' /\ ~Past'
  BY <1>1, <1>2 DEF IInv, TestTypeOK, Past
<1>4. PP!IInv'
  <2>1. PP!Routine(t)
    BY <1>1 DEF P!Routine, P!OnStack, P!Goto, P!Die, P!mainVars, P!memory,
       PP!Routine, PP!OnStack, PP!Goto, PP!Die, PP!mainVars, PP!memory
  <2>2. PP!Next
    BY <2>1 DEF PP!Next, PP!ThreadRun
  <2> QED
    BY <2>2, ThreadStep DEF IInv
<1>5. MP!IInv' /\ MainOK'
  BY <1>1, <1>2, MutexKept DEF IInv, MainOK, mutexVars
<1>6. CASE P!Die
  BY <1>3, <1>4, <1>5, <1>6 DEF IInv, WorkersOK, LoopOK, Joining, P!Die
<1>7. CASE ~P!Die
  <2>1. /\ UNCHANGED <<mpc, mblock, handles>>
        /\ tpc' = [tpc EXCEPT ![t] = "set_value"]
        /\ place[t] \in Statuses /\ place' = [place EXCEPT ![t] = "lock"]
    BY <1>1, <1>7 DEF P!Routine, P!OnStack, P!Goto, P!mainVars
  <2>2. LoopOK'
    BY <1>1, <1>3, <2>1 DEF IInv, LoopOK, Joining, Ahead, Past
  <2>3. WorkersOK'
    <3>1. tpc \in [Tids -> {"none", "dead"} \cup PP!ThreadSteps]
      BY DEF IInv, PP!IInv, PP!TypeOK
    <3> QED
      BY <1>1, <1>2, <2>1, <3>1, MutexKept DEF IInv, TestTypeOK, WorkersOK, Statuses
  <2> QED
    BY <1>3, <1>4, <1>5, <2>2, <2>3 DEF IInv
<1> QED
  BY <1>6, <1>7

\* pthread_start after the routine does not meet the mutex.
LEMMA AfterRoutineInv ==
  ASSUME IInv, NEW t \in Tids, AfterRoutine(t)
  PROVE  IInv'
<1>1. UNCHANGED <<mutexVars, testVars>>
  BY DEF AfterRoutine
<1>2. TestTypeOK' /\ (Past' <=> Past)
  BY <1>1 DEF IInv, TestTypeOK, Past, testVars
<1>3. PP!IInv'
  <2>1. PP!ThreadRun(t)
    BY DEF AfterRoutine, P!SetValue, P!SetExited, P!StoreSeen, P!WakeJoiner, P!Leave, P!Exit,
       P!OnStack, P!Goto, P!Die, P!mainVars, P!memory, PP!ThreadRun,
       PP!SetValue, PP!SetExited, PP!StoreSeen, PP!WakeJoiner, PP!Leave, PP!Exit,
       PP!OnStack, PP!Goto, PP!Die, PP!mainVars, PP!memory
  <2>2. PP!Next
    BY <2>1 DEF PP!Next
  <2> QED
    BY <2>2, ThreadStep DEF IInv
<1>4. MainOK' /\ (~Past' => MP!IInv') /\ (Past' => Quiet')
  BY <1>1, <1>2, MutexKept DEF IInv, MainOK, mutexVars, testVars
<1>5. CASE P!Die
  BY <1>2, <1>3, <1>4, <1>5 DEF IInv, WorkersOK, LoopOK, Joining, P!Die
<1>6. CASE ~P!Die
  <2>1. /\ UNCHANGED <<mblock, handles>>
        /\ mpc' = mpc \/ (mpc = "asleep" /\ mpc' = "test")
        /\ \A u \in Tids : tpc[u] = "start" => tpc'[u] = "start"
    BY <1>6 DEF AfterRoutine, P!SetValue, P!SetExited, P!StoreSeen, P!WakeJoiner, P!Leave, P!Exit,
       P!OnStack, P!Goto, P!mainVars, P!memory, IInv, PP!IInv, PP!TypeOK
  <2>2. LoopOK'
    BY <1>1, <1>2, <2>1 DEF IInv, LoopOK, Joining, Ahead, Past, testVars, PP!JoinSteps, PP!CreateSteps
  <2>3. WorkersOK'
    BY <1>1, <2>1, MutexKept DEF IInv, WorkersOK, testVars
  <2> QED
    BY <1>2, <1>3, <1>4, <2>2, <2>3 DEF IInv
<1> QED
  BY <1>5, <1>6

\* A step inside a call keeps the invariant, whoever makes it: past the joins it is
\* main's unlock, which the stranger in owner makes fail.
LEMMA InCallInv ==
  ASSUME IInv, NEW t \in Tids \cup {Main}, InCall(t) \/ Disturbed(t)
  PROVE  IInv'
<1>1. /\ mpc # "dead" /\ UNCHANGED <<threadVars, testVars>>
      /\ M!WaitInterrupted(t) \/ M!WaitFails(t) \/ M!Run(t)
  BY DEF InCall, Disturbed
<1>2. TestTypeOK' /\ (Past' <=> Past)
  BY <1>1 DEF IInv, TestTypeOK, Past, testVars
<1>3. PP!IInv'
  BY <1>1, ThreadRest DEF IInv
<1>4. LoopOK'
  BY <1>1, <1>2 DEF IInv, LoopOK, Joining, Ahead, Past, testVars, threadVars
<1>5. CASE ~Past
  <2>1. MP!IInv /\ MP!IInv'
    BY <1>1, <1>5, MutexStep DEF IInv
  <2>2. /\ \A u \in (Tids \cup {Main}) \ {t} : Unmoved(u)
        /\ call[t] # "idle"
        /\ Locking(t) => Locking(t)'
        /\ Unlocking(t) => Unlocking(t)'
        /\ call[t] = "lock_check" /\ t \in held => call'[t] = "idle" /\ t \in held'
    BY <1>1, <2>1, CallMoves
  <2>3. /\ Locking(t) => Locking(t)'
        /\ Unlocking(t) => Unlocking(t)'
        /\ ~Outside(t) /\ ~Inside(t)
    BY <2>2 DEF Outside, Inside
  <2>4. ASSUME NEW u \in Tids \cup {Main}, u # t
        PROVE  /\ Outside(u) => Outside(u)'
               /\ Locking(u) => Locking(u)'
               /\ Inside(u) => Inside(u)'
               /\ Unlocking(u) => Unlocking(u)'
    BY <2>2, <2>4, UnmovedStays
  <2>5. WorkersOK'
    BY <1>1, <2>3, <2>4 DEF IInv, WorkersOK, testVars, threadVars
  <2>6. MainOK'
    <3>1. step = "relocking" => call'[Main] \in {"idle", "lock_check"} /\ Main \in held'
      BY <2>2 DEF IInv, MainOK, Unmoved
    <3> QED
      BY <1>1, <1>2, <1>5, <2>3, <2>4, <3>1 DEF IInv, MainOK, Past, testVars
  <2> QED
    BY <1>2, <1>3, <1>4, <1>5, <2>1, <2>5, <2>6 DEF IInv
<1>6. CASE Past
  <2>1. /\ lock = 0 /\ sleepers = {} /\ held = {} /\ owner = Stranger
        /\ call \in [Tids \cup {Main} -> {"idle", "unlock_check"}]
        /\ \A u \in Tids : call[u] = "idle"
    BY <1>6 DEF IInv, Quiet
  <2>2. /\ t = Main /\ step = "misusing"
        /\ call' = [call EXCEPT ![Main] = "idle"]
        /\ UNCHANGED <<lock, owner, sleepers, held>>
    <3>1. call[t] = "unlock_check" /\ M!UnlockCheck(t)
      BY <1>1, <2>1 DEF M!WaitInterrupted, M!WaitFails, M!Run, M!LockCheck, M!Cas, M!SetOwner, M!Spin,
         M!WaitSleeps, M!WaitAgain, M!UnlockCheck, M!ClearOwner, M!Store, M!Wake, M!Step, M!Return
    <3>2. t = Main
      BY <2>1, <3>1
    <3>3. step = "misusing"
      BY <1>6, <3>1, <3>2 DEF IInv, MainOK, Outside, Past
    <3> QED
      BY <2>1, <3>1, <3>2, <3>3, WorkersAssumption DEF M!UnlockCheck, M!Step, M!Return, M!Goto
  <2>3. Quiet'
    BY <2>1, <2>2, WorkersAssumption DEF Quiet
  <2>4. WorkersOK'
    <3>1. \A u \in Tids : tpc[u] # "start" /\ Outside(u)'
      BY <1>1, <1>6, <2>1, <2>2, WorkersAssumption, NobodyStarts DEF IInv, Outside
    <3> QED
      BY <1>1, <3>1 DEF IInv, WorkersOK, testVars, threadVars
  <2>5. MainOK'
    BY <1>1, <2>1, <2>2 DEF MainOK, testVars
  <2> QED
    BY <1>2, <1>3, <1>4, <1>6, <2>3, <2>4, <2>5 DEF IInv
<1> QED
  BY <1>5, <1>6

\* Main's steps on its own keep it: it locks, locks again and unlocks before the
\* threads are made, and once more when they are gone.
LEMMA MainAloneInv ==
  ASSUME IInv, MainLocks \/ MainLocked \/ MainUnlocks \/ MainUnlocked \/ MainCreated \/ MainJoined
  PROVE  IInv'
<1> USE WorkersAssumption
<1>1. /\ mpc = "idle" /\ UNCHANGED <<threadVars, threads, joined, place>>
  BY DEF MainLocks, MainLocked, MainUnlocks, MainUnlocked, MainCreated, MainJoined, MainGoes
<1>2. PP!IInv'
  BY <1>1, ThreadRest DEF IInv
<1>3. TestTypeOK'
  BY <1>1 DEF IInv, TestTypeOK, MainLocks, MainLocked, MainUnlocks, MainUnlocked, MainCreated, MainJoined, MainGoes
<1>4. LoopOK'
  <2> USE <1>1 DEF IInv, LoopOK, Joining, Ahead, threadVars, Past, MainGoes, PP!CreateSteps, PP!JoinSteps, TestTypeOK
  <2>1. CASE MainLocks \/ MainLocked
    BY <2>1 DEF MainLocks, MainLocked
  <2>2. CASE MainUnlocks \/ MainUnlocked
    BY <2>2 DEF MainUnlocks, MainUnlocked
  <2>3. CASE MainCreated \/ MainJoined
    BY <2>3 DEF MainCreated, MainJoined
  <2> QED
    BY <2>1, <2>2, <2>3
<1>5. CASE MainLocks
  <2>1. M!CallLock(Main) /\ ~Past /\ ~Past' /\ MP!IInv
    BY <1>5 DEF MainLocks, MainGoes, Past, IInv
  <2>2. MP!IInv' /\ \A u \in Tids : Unmoved(u)
    BY <2>1, MutexStep, CallLockMoves
  <2>3. WorkersOK'
    BY <1>1, <2>2, UnmovedStays DEF IInv, WorkersOK, threadVars
  <2>4. MainOK'
    BY <1>5, <2>1, CallLockMoves DEF MainLocks, MainGoes, IInv, MainOK, Inside
  <2> QED
    BY <1>2, <1>3, <1>4, <2>1, <2>2, <2>3, <2>4 DEF IInv
<1>6. CASE MainUnlocks /\ ~Past
  <2>1. M!CallUnlock(Main) /\ step = "unlock" /\ step' = "unlocking" /\ MP!IInv
    BY <1>6 DEF MainUnlocks, MainGoes, Past, IInv
  <2>2. MP!IInv' /\ Unlocking(Main)' /\ \A u \in Tids : Unmoved(u)
    BY <2>1, MutexStep, CallUnlockMoves DEF IInv, MainOK
  <2>3. WorkersOK'
    BY <1>1, <2>2, UnmovedStays DEF IInv, WorkersOK, threadVars
  <2>4. MainOK'
    BY <2>1, <2>2 DEF MainOK
  <2> QED
    BY <1>2, <1>3, <1>4, <2>1, <2>2, <2>3, <2>4 DEF IInv, Past
<1>7. CASE MainUnlocks /\ Past
  <2>1. M!CallUnlock(Main) /\ step = "misuse" /\ step' = "misusing" /\ Quiet
    BY <1>7 DEF MainUnlocks, MainGoes, Past, IInv
  <2>2. Quiet' /\ held' = {} /\ call'[Main] = "unlock_check" /\ \A u \in Tids : call'[u] = "idle"
    BY <2>1 DEF Quiet, M!CallUnlock, M!Step, M!Goto
  <2>3. WorkersOK'
    <3>1. \A u \in Tids : tpc[u] # "start" /\ Outside(u)'
      BY <1>1, <1>7, <2>2, NobodyStarts DEF IInv, Outside
    <3> QED
      BY <1>1, <3>1 DEF IInv, WorkersOK, threadVars
  <2>4. MainOK'
    BY <2>1, <2>2 DEF MainOK
  <2> QED
    BY <1>2, <1>3, <1>4, <2>1, <2>2, <2>3, <2>4 DEF IInv, Past
<1>8. CASE MainLocked \/ MainUnlocked \/ MainCreated
  <2>1. UNCHANGED mutexVars /\ (Past' <=> Past)
    BY <1>8 DEF MainLocked, MainUnlocked, MainCreated, MainGoes, Past
  <2>2. (~Past' => MP!IInv') /\ (Past' => Quiet') /\ WorkersOK'
    BY <1>1, <2>1, MutexKept DEF IInv, WorkersOK, threadVars
  <2>3. MainOK'
    BY <1>8, <2>1 DEF IInv, MainOK, MainLocked, MainUnlocked, MainCreated, MainGoes, mutexVars,
       Outside, Locking, Inside, Unlocking
  <2> QED
    BY <1>2, <1>3, <1>4, <2>2, <2>3 DEF IInv
\* Nobody is in its start routine, so nobody is inside the mutex: it is free.
<1>9. CASE MainJoined
  <2>1. /\ joined = Workers /\ step = "join" /\ step' = "misuse" /\ owner' = Stranger
        /\ UNCHANGED <<lock, call, spin, ret, sleepers, held>>
    BY <1>9 DEF MainJoined, MainGoes
  <2>2. MP!IInv /\ \A u \in Tids : tpc[u] # "start"
    BY <1>1, <2>1, NobodyStarts DEF IInv, Past
  <2>3. \A u \in Tids \cup {Main} : call[u] = "idle" /\ u \notin held
    <3>1. Outside(Main)
      BY <2>1 DEF IInv, MainOK
    <3>2. ASSUME NEW u \in Tids PROVE Outside(u)
      BY <1>1, <2>2 DEF IInv, WorkersOK, TestTypeOK
    <3> QED
      BY <3>1, <3>2 DEF Outside
  <2>4. Quiet'
    BY <2>1, <2>2, <2>3 DEF Quiet, MP!IInv, MP!TypeOK, MP!OneWinner, MP!Holding, MP!QueueOK
  <2>5. WorkersOK' /\ MainOK'
    BY <1>1, <2>1, <2>3 DEF IInv, WorkersOK, MainOK, threadVars, Outside, Locking, Inside, Unlocking
  <2> QED
    BY <1>2, <1>3, <1>4, <2>1, <2>4, <2>5 DEF IInv, Past
<1> QED
  BY <1>5, <1>6, <1>7, <1>8, <1>9

\* Making and joining threads keeps it: a handle leaves threads[] as main passes it.
LEMMA MainThreadsInv ==
  ASSUME IInv, MainCreates \/ MainJoins \/ MainDisturbed
  PROVE  IInv'
<1> USE WorkersAssumption
<1>1. /\ step \in {"create", "join"} /\ UNCHANGED <<mutexVars, step, place>>
      /\ ~Past /\ ~Past'
  BY DEF MainCreates, MainJoins, MainDisturbed, testVars, Past
<1>2. PP!IInv'
  <2>1. PP!Create \/ PP!Join \/ PP!JoinInterrupted \/ PP!JoinRun
    BY DEF MainCreates, MainJoins, MainDisturbed,
       P!MapStack, P!MapStackFails, P!AllocArgs, P!InitArgs, P!Clone, P!AllocArgsFails, P!CloneFails,
       P!Join, P!JoinTest, P!JoinWait, P!JoinRead, P!JoinFree, P!JoinUnmap, P!JoinInterrupted,
       P!mainVars, P!memory, P!threadVars,
       PP!MapStack, PP!MapStackFails, PP!AllocArgs, PP!InitArgs, PP!Clone, PP!AllocArgsFails, PP!CloneFails,
       PP!Join, PP!JoinTest, PP!JoinWait, PP!JoinRead, PP!JoinFree, PP!JoinUnmap, PP!JoinInterrupted,
       PP!mainVars, PP!memory, PP!threadVars, PP!Create, PP!JoinRun
  <2>2. PP!Next
    BY <2>1 DEF PP!Next
  <2> QED
    BY <2>2, ThreadStep DEF IInv
<1>3. MP!IInv' /\ MainOK'
  BY <1>1, MutexKept DEF IInv, MainOK
<1> USE DEF P!mainVars, P!memory, P!threadVars
<1>4. mpc # "dead" /\ mpc' # "dead" /\ \A t \in Tids : tpc[t] = "start" => tpc'[t] = "start"
  BY DEF MainCreates, MainJoins, MainDisturbed,
     P!MapStack, P!MapStackFails, P!AllocArgs, P!InitArgs, P!Clone, P!AllocArgsFails, P!CloneFails,
     P!Join, P!JoinTest, P!JoinWait, P!JoinRead, P!JoinFree, P!JoinUnmap, P!JoinInterrupted,
     IInv, PP!IInv, PP!TypeOK
<1>5. WorkersOK'
  BY <1>1, <1>4, MutexKept DEF IInv, WorkersOK
<1>6. TestTypeOK' /\ LoopOK'
  <2> USE <1>1 DEF IInv, TestTypeOK, LoopOK, Joining, Ahead, PP!CreateSteps, PP!JoinSteps, Past
  <2>1. CASE MainCreates /\ (P!MapStack \/ P!MapStackFails \/ P!AllocArgs \/ P!InitArgs) /\ UNCHANGED threads
    BY <2>1 DEF MainCreates, P!MapStack, P!MapStackFails, P!AllocArgs, P!InitArgs
  <2>2. CASE MainCreates /\ P!Clone /\ threads' = Append(threads, mblock)
    <3>1. mblock \in Blocks /\ mpc = "clone" /\ mpc' = "idle" /\ handles' = handles \cup {mblock}
      BY <2>2 DEF P!Clone, PP!IInv, PP!Rest, PP!Places
    <3>2. /\ step = "create" /\ Len(threads) < Workers /\ joined = 0 /\ joined' = 0
          /\ threads' \in Seq(Blocks \cup {None}) /\ Len(threads') = Len(threads) + 1
          /\ \A i \in 1..Len(threads) : threads'[i] = threads[i]
          /\ threads'[Len(threads) + 1] = mblock
      BY <2>2, <3>1 DEF MainCreates
    <3>3. \A b \in handles' : \E i \in 1..Len(threads') : threads'[i] = b
      BY <3>1, <3>2
    <3> QED
      BY <3>1, <3>2, <3>3
  <2>3. CASE MainCreates /\ (P!AllocArgsFails \/ P!CloneFails) /\ threads' = Append(threads, None)
    <3>1. mpc \in PP!CreateSteps /\ mpc' = "idle" /\ handles' = handles
      BY <2>3 DEF P!AllocArgsFails, P!CloneFails
    <3>2. /\ step = "create" /\ Len(threads) < Workers /\ joined = 0 /\ joined' = 0
          /\ threads' \in Seq(Blocks \cup {None}) /\ Len(threads') = Len(threads) + 1
          /\ \A i \in 1..Len(threads) : threads'[i] = threads[i]
      BY <2>3, <3>1 DEF MainCreates
    <3>3. \A b \in handles' : \E i \in 1..Len(threads') : threads'[i] = b
      BY <3>1, <3>2
    <3> QED
      BY <3>1, <3>2, <3>3
  <2>4. CASE MainJoins /\ P!Join /\ mblock' = threads[joined + 1] /\ UNCHANGED joined
    BY <2>4 DEF MainJoins, P!Join
  <2>5. CASE MainJoins /\ (P!JoinTest \/ P!JoinWait \/ P!JoinRead) /\ UNCHANGED joined
    BY <2>5 DEF MainJoins, P!JoinTest, P!JoinWait, P!JoinRead
  <2>6. CASE MainJoins /\ P!JoinFree /\ UNCHANGED joined
    <3>1. /\ mpc = "free" /\ mpc' = "unmap" /\ step = "join" /\ joined < Workers
          /\ mblock = threads[joined + 1] /\ handles' = handles \ {mblock}
          /\ UNCHANGED <<threads, joined, step>>
      BY <2>6 DEF MainJoins, P!JoinFree
    <3>2. \A b \in handles' : \E i \in (joined + 2)..Len(threads) : threads[i] = b
      BY <3>1
    <3> QED
      BY <3>1, <3>2
  <2>7. CASE MainJoins /\ P!JoinUnmap /\ joined' = joined + 1
    BY <2>7 DEF MainJoins, P!JoinUnmap
  <2>8. CASE MainDisturbed
    BY <2>8 DEF MainDisturbed, P!JoinInterrupted, testVars
  <2> QED
    BY <2>1, <2>2, <2>3, <2>4, <2>5, <2>6, <2>7, <2>8 DEF MainCreates, MainJoins
<1> QED
  BY <1>1, <1>2, <1>3, <1>5, <1>6 DEF IInv

\* An index beyond j other than j + 1 is beyond k too, which is at most one further.
LEMMA NextIndex ==
  ASSUME NEW j \in Nat, NEW k \in Nat, j <= k, k <= j + 1,
         NEW w \in Nat, NEW i \in (j + 1)..w, i # j + 1
  PROVE  i \in (k + 1)..w
  OBVIOUS

\* So does joining what pthread_create never wrote: it returns, sleeps for ever or
\* ends the process.
LEMMA MainJoinsGarbageInv ==
  ASSUME IInv, MainJoinsGarbage
  PROVE  IInv'
<1> USE WorkersAssumption
<1>1. /\ step = "join" /\ mpc = "idle" /\ joined < Workers /\ threads[joined + 1] = None
      /\ step' \in {"join", "stuck"} /\ UNCHANGED <<mutexVars, threads, place>> /\ ~Past /\ ~Past'
  BY DEF MainJoinsGarbage, Past
<1>2. MP!IInv' /\ MainOK'
  BY <1>1, MutexKept DEF IInv, MainOK
<1>3. CASE UNCHANGED threadVars /\ joined' \in {joined, joined + 1}
  <2>1. PP!IInv'
    BY <1>3, ThreadRest DEF IInv
  <2>2. TestTypeOK' /\ WorkersOK'
    BY <1>1, <1>3, MutexKept DEF IInv, TestTypeOK, WorkersOK, threadVars
  <2>3. LoopOK'
    <3>1. /\ mpc' = "idle" /\ UNCHANGED <<handles, threads>> /\ Len(threads) = Workers
          /\ joined \in Nat /\ joined' \in Nat /\ joined <= joined' /\ joined' <= joined + 1
      BY <1>1, <1>3 DEF IInv, TestTypeOK, LoopOK, Joining, threadVars
    <3>2. \A b \in handles : \E i \in (joined + 1)..Workers : threads[i] = b
      BY <1>1, <3>1 DEF IInv, LoopOK, Ahead
    <3>3. \A b \in handles : \E i \in (joined' + 1)..Workers : threads[i] = b
      <4>1. None \notin handles
        BY DEF IInv, PP!IInv, PP!TypeOK
      <4>2. ASSUME NEW b \in handles
            PROVE  \E i \in (joined' + 1)..Workers : threads[i] = b
        <5>1. PICK i \in (joined + 1)..Workers : threads[i] = b
          BY <3>2
        <5>2. i # joined + 1
          BY <1>1, <4>1, <5>1
        <5>3. i \in (joined' + 1)..Workers
          BY <3>1, <5>2, NextIndex
        <5> QED
          BY <5>1, <5>3
      <4> QED
        BY <4>2
    <3>4. joined' <= Workers /\ step' # "create" /\ (Joining)'
      BY <1>1, <1>3, <3>1 DEF Joining, IInv, TestTypeOK
    <3> QED
      BY <1>1, <3>1, <3>3, <3>4 DEF LoopOK, Ahead, PP!CreateSteps, PP!JoinSteps
  <2> QED
    BY <1>1, <1>2, <2>1, <2>2, <2>3 DEF IInv
<1>4. CASE P!Die /\ UNCHANGED <<step, joined, madeFor>>
  <2>1. PP!IInv'
    BY <1>4, ThreadRest DEF IInv
  <2> QED
    BY <1>1, <1>2, <1>4, <2>1 DEF IInv, TestTypeOK, WorkersOK, LoopOK, Joining, P!Die
<1> QED
  BY <1>3, <1>4 DEF MainJoinsGarbage

\* Every step of the test, of the mutex and of the threads preserves the invariant.
LEMMA NextInv == IInv /\ [Next]_vars => IInv'
<1> SUFFICES ASSUME IInv, [Next]_vars PROVE IInv'
  OBVIOUS
<1>1. CASE UNCHANGED vars
  <2>1. UNCHANGED <<mutexVars, threadVars, testVars>>
    BY <1>1 DEF vars
  <2>2. PP!IInv'
    BY <2>1, ThreadRest DEF IInv
  <2> QED
    BY <2>1, <2>2, MutexKept DEF IInv, TestTypeOK, WorkersOK, MainOK, LoopOK, Joining, Ahead, Past, testVars, threadVars,
       mutexVars
<1>2. ASSUME NEW t \in Tids, Worker(t) PROVE IInv'
  BY <1>2, WorkerInv, ReturnInv, InCallInv, AfterRoutineInv DEF Worker
<1>3. ASSUME NEW t \in Tids \cup {Main}, Disturbed(t) PROVE IInv'
  BY <1>3, InCallInv
<1>4. CASE MainRun \/ MainDisturbed
  BY <1>4, MainAloneInv, MainThreadsInv, MainJoinsGarbageInv, InCallInv DEF MainRun
<1> QED
  BY <1>1, <1>2, <1>3, <1>4 DEF Next

-----------------------------------------------------------------------------
\* When test_mutex is past its joins its mutex is free, with nobody inside a call of
\* it or asleep on it and no worker still in its routine, however many workers there
\* are, whichever of their creations failed and whatever interrupted their waits:
\* the mutex may go with main's frame.
THEOREM MutexMayGo == Spec => []QuietAfterJoins
<1>1. IInv => QuietAfterJoins
  BY NobodyStarts DEF IInv, Quiet, QuietAfterJoins, Past
<1>2. Init /\ [][Next]_vars => []IInv
  BY InitInv, NextInv, PTL
<1> QED
  BY <1>1, <1>2, PTL DEF Spec
=============================================================================
