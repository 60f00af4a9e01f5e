---------------------------- MODULE MutexWorkers -----------------------------
(***************************************************************************)
(* test_mutex of mini_libc/test/test_mini_lib.c: the main thread tries the *)
(* mutex alone, starts workers that lock, work and unlock, joins them in   *)
(* the order it made them, and at last unlocks a mutex it does not hold.   *)
(*                                                                         *)
(* The mutex is Mutex and the threads are Pthread, every step of both: a   *)
(* worker is a thread whose start routine makes calls of the mutex.  The   *)
(* mutex is a local of test_mutex, so it must not be touched once main has *)
(* joined everybody, which neither component can say on its own.           *)
(***************************************************************************)
EXTENDS Naturals, Sequences

CONSTANTS
    Tids, Blocks, Stacks, None,     \* see Pthread
    MmapMayFail,                    \* whether the kernel may refuse the mmap of a stack
    NoThread, SpinLimit,            \* see Mutex
    Main,                           \* main's own thread id
    Stranger,                       \* the 999 of test_mini_lib.c:402
    Workers                         \* MUTEX_THREAD_NUM

\* The components' own assumptions, and that main is none of the threads it makes.
ASSUME WorkersAssumption ==
    /\ None \notin Tids \cup Blocks \cup Stacks
    /\ NoThread \notin Tids \cup {Main}
    /\ MmapMayFail \in BOOLEAN
    /\ Main \notin Tids
    /\ Stranger \notin Tids \cup {Main, NoThread}
    /\ SpinLimit \in Nat
    /\ Workers \in Nat

VARIABLES
    lock, owner, call, spin, ret, sleepers, held,           \* Mutex; call is its pc
    mpc, mblock, mstack, retval, handles, args, mallocked,  \* Pthread
    mapped, tpc, block, stack, unseen, result, madeFor,     \*   tpc is its pc
    step,           \* where main is in test_mutex
    threads,        \* main's threads[]: the handles, None where create failed
    joined,         \* how many of them main has joined
    place           \* place[t]: where t is in mutex_worker

mutexVars == <<lock, owner, call, spin, ret, sleepers, held>>
threadVars == <<mpc, mblock, mstack, retval, handles, args, mallocked,
                mapped, tpc, block, stack, unseen, result, madeFor>>
testVars == <<step, threads, joined, place>>
vars == <<mutexVars, threadVars, testVars>>

\* What a worker returns: (void*)0 or (void*)-1
Statuses == {"ok", "failed"}

M == INSTANCE Mutex WITH Threads <- Tids \cup {Main}, pc <- call

P == INSTANCE Pthread WITH pc <- tpc, Values <- Statuses

\* threads[] is not initialised, pthread_mutex_init has been called.
Init ==
    /\ M!Init
    /\ P!Init
    /\ step = "lock" /\ threads = <<>> /\ joined = 0
    /\ place = [t \in Tids |-> "lock"]

-----------------------------------------------------------------------------
(* The worker *)

\* A step of mutex_worker, whose frame needs a stack.
WorkerGoes(t, from, to) ==
    /\ tpc[t] = "start" /\ place[t] = from /\ stack[t] # None
    /\ place' = [place EXCEPT ![t] = to]
    /\ UNCHANGED <<step, threads, joined>>

\* pthread_mutex_lock(mutex)
WorkerLocks(t) == WorkerGoes(t, "lock", "locking") /\ M!CallLock(t) /\ UNCHANGED threadVars

\* ... != 0: return -1, otherwise the critical section
WorkerLocked(t) ==
    /\ call[t] = "idle"
    /\ WorkerGoes(t, "locking", IF ret[t] = "ok" THEN "work" ELSE "failed")
    /\ UNCHANGED <<mutexVars, threadVars>>

\* The bug of a worker that returns from its critical section.
WorkerLeaves(t) == WorkerGoes(t, "work", "ok") /\ UNCHANGED <<mutexVars, threadVars>>

\* pthread_mutex_unlock(mutex)
WorkerUnlocks(t) == WorkerGoes(t, "work", "unlocking") /\ M!CallUnlock(t) /\ UNCHANGED threadVars

WorkerUnlocked(t) ==
    /\ call[t] = "idle"
    /\ WorkerGoes(t, "unlocking", IF ret[t] = "ok" THEN "ok" ELSE "failed")
    /\ UNCHANGED <<mutexVars, threadVars>>

\* return (void*)0 or (void*)-1, into pthread_start
WorkerReturns(t) ==
    /\ place[t] \in Statuses
    /\ WorkerGoes(t, place[t], "lock")
    /\ P!Routine(t) /\ result'[t] = place[t]
    /\ UNCHANGED mutexVars

\* A thread that was made without a stack dies of the first frame it stores.
WorkerDies(t) ==
    /\ tpc[t] = "start" /\ stack[t] = None
    /\ P!Routine(t)
    /\ UNCHANGED <<mutexVars, testVars>>

\* A step of t inside a call of the mutex; FUTEX_WAIT may end early or fail.
InCall(t) == mpc # "dead" /\ M!Run(t) /\ UNCHANGED <<threadVars, testVars>>

Disturbed(t) ==
    /\ mpc # "dead"
    /\ M!WaitInterrupted(t) \/ M!WaitFails(t)
    /\ UNCHANGED <<threadVars, testVars>>

\* pthread_start after the routine
AfterRoutine(t) ==
    /\ P!SetValue(t) \/ P!SetExited(t) \/ P!StoreSeen(t) \/ P!WakeJoiner(t) \/ P!Leave(t) \/ P!Exit(t)
    /\ UNCHANGED <<mutexVars, testVars>>

Worker(t) ==
    \/ WorkerLocks(t) \/ WorkerLocked(t) \/ WorkerUnlocks(t) \/ WorkerUnlocked(t) \/ WorkerReturns(t)
    \/ WorkerDies(t)
    \/ InCall(t)
    \/ AfterRoutine(t)

-----------------------------------------------------------------------------
(* main *)

MainGoes(from, to) ==
    /\ mpc = "idle" /\ step = from
    /\ step' = to
    /\ UNCHANGED <<threads, joined, place>>

\* lock, lock again, unlock, by main alone
MainLocks ==
    /\ MainGoes("lock", "locking") \/ MainGoes("relock", "relocking")
    /\ M!CallLock(Main)
    /\ UNCHANGED threadVars

MainLocked ==
    /\ call[Main] = "idle"
    /\ \/ MainGoes("locking", IF ret[Main] = "ok" THEN "relock" ELSE "create")
       \/ MainGoes("relocking", "unlock")
    /\ UNCHANGED <<mutexVars, threadVars>>

MainUnlocks ==
    /\ MainGoes("unlock", "unlocking") \/ MainGoes("misuse", "misusing")
    /\ M!CallUnlock(Main)
    /\ UNCHANGED threadVars

MainUnlocked ==
    /\ call[Main] = "idle"
    /\ MainGoes("unlocking", "create") \/ MainGoes("misusing", "done")
    /\ UNCHANGED <<mutexVars, threadVars>>

\* pthread_create(&threads[i], NULL, mutex_worker, &mutex), result ignored
MainCreates ==
    /\ step = "create" /\ Len(threads) < Workers
    /\ \/ (P!MapStack \/ P!MapStackFails \/ P!AllocArgs \/ P!InitArgs) /\ UNCHANGED threads
       \/ P!Clone /\ threads' = Append(threads, mblock)
       \/ (P!AllocArgsFails \/ P!CloneFails) /\ threads' = Append(threads, None)
    /\ UNCHANGED <<mutexVars, step, joined, place>>

MainCreated ==
    /\ Len(threads) = Workers
    /\ MainGoes("create", "join")
    /\ UNCHANGED <<mutexVars, threadVars>>

\* pthread_join(threads[i], &retval), result ignored
MainJoins ==
    /\ step = "join" /\ joined < Workers
    /\ \/ P!Join /\ mblock' = threads[joined + 1] /\ UNCHANGED joined
       \/ (P!JoinTest \/ P!JoinWait \/ P!JoinRead \/ P!JoinFree) /\ UNCHANGED joined
       \/ P!JoinUnmap /\ joined' = joined + 1
    /\ UNCHANGED <<mutexVars, step, threads, place>>

MainDisturbed ==
    /\ step = "join" /\ P!JoinInterrupted
    /\ UNCHANGED <<mutexVars, testVars>>

\* threads[i] was never written.  NULL makes join return -1.  Anything else is
\* followed into memory that is no thread's: a has_exited of 0 there is one that
\* nobody sets, and main sleeps for ever; any other is taken for an exit, and what
\* lies around it is freed and unmapped.  A process that goes on after that has lost
\* memory it may be using and counts as dead, like one that found nothing mapped.
MainJoinsGarbage ==
    /\ step = "join" /\ mpc = "idle" /\ joined < Workers /\ threads[joined + 1] = None
    /\ \/ joined' = joined + 1 /\ UNCHANGED <<step, threadVars>>
       \/ step' = "stuck" /\ UNCHANGED <<joined, threadVars>>
       \/ P!Die /\ UNCHANGED <<step, joined, madeFor>>
    /\ UNCHANGED <<mutexVars, threads, place>>

\* The bug of a loop that leaves out the last thread.
JoinedButOne ==
    /\ joined + 1 >= Workers
    /\ MainGoes("join", "misuse")
    /\ owner' = Stranger
    /\ UNCHANGED <<lock, call, spin, ret, sleepers, held, threadVars>>

\* The loop is over: mutex.owner = fake_tid
MainJoined ==
    /\ joined = Workers
    /\ MainGoes("join", "misuse")
    /\ owner' = Stranger
    /\ UNCHANGED <<lock, call, spin, ret, sleepers, held, threadVars>>

MainRun ==
    \/ MainLocks \/ MainLocked \/ MainUnlocks \/ MainUnlocked
    \/ InCall(Main)
    \/ MainCreates \/ MainCreated \/ MainJoins \/ MainJoinsGarbage \/ MainJoined

-----------------------------------------------------------------------------
\* test_mutex has returned, or the process has died.
Over == step = "done" \/ mpc = "dead"

\* Main sleeps in a pthread_join that nobody can end: its handle is none.
Stuck == step = "stuck" /\ threads[joined + 1] = None

Next ==
    \/ MainRun
    \/ MainDisturbed
    \/ \E t \in Tids : Worker(t)
    \/ \E t \in Tids \cup {Main} : Disturbed(t)
    \/ (Over \/ Stuck) /\ UNCHANGED vars

\* The scheduler runs main and every thread.
Fairness == WF_vars(MainRun) /\ \A t \in Tids : WF_vars(Worker(t))

Spec == Init /\ [][Next]_vars /\ Fairness

-----------------------------------------------------------------------------
(* Properties *)

\* Once main is past its joins nobody is inside a call of the mutex, nobody sleeps
\* on it and it is free: test_mutex may return and take the mutex with its frame.
QuietAfterJoins ==
    step \in {"misuse", "misusing", "done"} /\ mpc # "dead" =>
        /\ lock = 0 /\ sleepers = {} /\ held = {}
        /\ \A t \in Tids : call[t] = "idle" /\ tpc[t] # "start"

\* The test comes to its end, whatever the scheduler and signals do: every worker
\* gets the lock and every join of a worker returns, unless the process dies.  A
\* create that failed takes that away only by the handle it leaves unwritten, when
\* main joins it and sleeps there.
TestFinishes == <>(Over \/ Stuck)
=============================================================================
