------------------------------- MODULE Mutex --------------------------------
(***************************************************************************)
(* pthread_mutex_lock and pthread_mutex_unlock of mini_libc/src/lock.c:    *)
(* a compare-and-swap on the lock word, a bounded spin, and a futex the    *)
(* thread sleeps on.  An action is one access to memory that another       *)
(* thread can see, or one system call.                                     *)
(*                                                                         *)
(* The lock word is written under dmb / stlr, so its steps are             *)
(* sequentially consistent.  owner is read and written with plain          *)
(* accesses, but a thread only compares it with its own tid, which only    *)
(* that thread ever writes there: coherence of the one location makes a    *)
(* stale read compare like a current one.                                  *)
(***************************************************************************)
EXTENDS Naturals

CONSTANTS
    Threads,        \* the kernel's thread ids
    NoThread,       \* owner's 0: no thread id (mini_lib.h:156)
    SpinLimit       \* the 100 of lock.c:163

ASSUME MutexAssumption ==
    /\ NoThread \notin Threads
    /\ SpinLimit \in Nat

VARIABLES
    lock,           \* the lock word, 0 or 1
    owner,          \* the thread id of the owner, or NoThread
    pc,             \* pc[t]: the next step of t
    spin,           \* spin[t]: lock()'s local spin_count
    ret,            \* ret[t]: the result of t's last call
    sleepers,       \* the kernel's queue of threads in FUTEX_WAIT on the word
    held            \* history: the threads whose lock() returned 0 and which
                    \* have not given the lock word back since

vars == <<lock, owner, pc, spin, ret, sleepers, held>>

LockSteps == {"lock_check", "cas", "set_owner", "spin", "wait", "asleep"}
UnlockSteps == {"unlock_check", "clear_owner", "store", "wake"}

\* In lock()'s loop: past the reentrancy check and without the lock.
Contending == {"cas", "spin", "wait", "asleep"}

TypeOK ==
    /\ lock \in {0, 1}
    /\ owner \in Threads \cup {NoThread}
    /\ pc \in [Threads -> {"idle"} \cup LockSteps \cup UnlockSteps]
    /\ spin \in [Threads -> 0..SpinLimit]
    /\ ret \in [Threads -> {"pending", "ok", "refused", "invalid"}]
    /\ sleepers \subseteq Threads
    /\ held \subseteq Threads

\* pthread_mutex_init, before any thread uses the mutex
Init ==
    /\ lock = 0
    /\ owner = NoThread
    /\ pc = [t \in Threads |-> "idle"]
    /\ spin = [t \in Threads |-> SpinLimit]
    /\ ret = [t \in Threads |-> "ok"]
    /\ sleepers = {}
    /\ held = {}

-----------------------------------------------------------------------------
Goto(t, to) == pc' = [pc EXCEPT ![t] = to]

\* pc[t] = from, and t goes on to `to`
Step(t, from, to) == pc[t] = from /\ Goto(t, to)

\* t returns r to its caller
Return(t, from, r) ==
    /\ Step(t, from, "idle")
    /\ ret' = [ret EXCEPT ![t] = r]

\* Any thread may call any operation, a holder lock() and a thread that holds
\* nothing unlock() included.
CallLock(t) ==
    /\ Step(t, "idle", "lock_check")
    /\ spin' = [spin EXCEPT ![t] = SpinLimit]
    /\ ret' = [ret EXCEPT ![t] = "pending"]
    /\ UNCHANGED <<lock, owner, sleepers, held>>

CallUnlock(t) ==
    /\ Step(t, "idle", "unlock_check")
    /\ ret' = [ret EXCEPT ![t] = "pending"]
    /\ UNCHANGED <<lock, owner, spin, sleepers, held>>

\* lock(NULL) and unlock(NULL)
CallNull(t) ==
    /\ Return(t, "idle", "refused")
    /\ UNCHANGED <<lock, owner, spin, sleepers, held>>

-----------------------------------------------------------------------------
(* pthread_mutex_lock *)

\* The bug of a lock() without the reentrancy test.
LockUnchecked(t) ==
    /\ Step(t, "lock_check", "cas")
    /\ UNCHANGED <<lock, owner, spin, ret, sleepers, held>>

\* if (mutex->owner == tid) return -1
LockCheck(t) ==
    /\ \/ owner = t /\ Return(t, "lock_check", "refused")
       \/ owner # t /\ Step(t, "lock_check", "cas") /\ UNCHANGED ret
    /\ UNCHANGED <<lock, owner, spin, sleepers, held>>

\* atomic_cas(&mutex->lock, 0, 1)
Cas(t) ==
    /\ Step(t, "cas", IF lock = 0 THEN "set_owner" ELSE "spin")
    /\ lock' = 1
    /\ UNCHANGED <<owner, spin, ret, sleepers, held>>

\* mutex->owner = tid; return 0
SetOwner(t) ==
    /\ Return(t, "set_owner", "ok")
    /\ owner' = t
    /\ held' = held \cup {t}
    /\ UNCHANGED <<lock, spin, sleepers>>

\* The bug of a count that is taken down without being compared with 0.
SpinUnbounded(t) ==
    /\ Step(t, "spin", IF spin[t] = 0 THEN "wait" ELSE "cas")
    /\ spin' = [spin EXCEPT ![t] = @ - 1]
    /\ UNCHANGED <<lock, owner, ret, sleepers, held>>

\* if (spin_count-- > 0) continue.  Every count below 1 fails the test alike,
\* so the ones below 0 are left out.
Spin(t) ==
    /\ \/ spin[t] > 0 /\ Step(t, "spin", "cas") /\ spin' = [spin EXCEPT ![t] = @ - 1]
       \/ spin[t] = 0 /\ Step(t, "spin", "wait") /\ UNCHANGED spin
    /\ UNCHANGED <<lock, owner, ret, sleepers, held>>

\* The bug of passing FUTEX_WAIT the value of a free lock.
WaitExpectsFree(t) ==
    /\ lock = 0
    /\ Step(t, "wait", "asleep")
    /\ sleepers' = sleepers \cup {t}
    /\ UNCHANGED <<lock, owner, spin, ret, held>>

\* FUTEX_WAIT with expected value 1: the kernel compares and queues in one step.
WaitSleeps(t) ==
    /\ lock = 1
    /\ Step(t, "wait", "asleep")
    /\ sleepers' = sleepers \cup {t}
    /\ UNCHANGED <<lock, owner, spin, ret, held>>

\* The bug of taking -EAGAIN, "the word is not 1", for the lock.
AgainAsAcquired(t) ==
    /\ lock # 1
    /\ Step(t, "wait", "set_owner")
    /\ UNCHANGED <<lock, owner, spin, ret, sleepers, held>>

\* -EAGAIN: the word had changed; spin_count = 100; continue
WaitAgain(t) ==
    /\ lock # 1
    /\ Step(t, "wait", "cas")
    /\ spin' = [spin EXCEPT ![t] = SpinLimit]
    /\ UNCHANGED <<lock, owner, ret, sleepers, held>>

\* -EINTR: a signal takes a sleeper off the queue; continue, spin_count as it was
WaitInterrupted(t) ==
    /\ Step(t, "asleep", "cas")
    /\ sleepers' = sleepers \ {t}
    /\ UNCHANGED <<lock, owner, spin, ret, held>>

\* any other error: return -MINI_EINVAL
WaitFails(t) ==
    /\ Return(t, "wait", "invalid")
    /\ UNCHANGED <<lock, owner, spin, sleepers, held>>

-----------------------------------------------------------------------------
(* pthread_mutex_unlock *)

\* The bug of an unlock() that does not ask who holds the lock.
UnlockUnchecked(t) ==
    /\ Step(t, "unlock_check", "clear_owner")
    /\ UNCHANGED <<lock, owner, spin, ret, sleepers, held>>

\* if (mutex->owner != tid) return -1
UnlockCheck(t) ==
    /\ \/ owner # t /\ Return(t, "unlock_check", "refused")
       \/ owner = t /\ Step(t, "unlock_check", "clear_owner") /\ UNCHANGED ret
    /\ UNCHANGED <<lock, owner, spin, sleepers, held>>

\* The bug of giving the lock word back before owner is cleared.
ClearAfterRelease(t) ==
    /\ Step(t, "clear_owner", "store")
    /\ lock' = 0
    /\ held' = held \ {t}
    /\ UNCHANGED <<owner, spin, ret, sleepers>>

\* The bug of not clearing owner at all.
ClearForgotten(t) ==
    /\ Step(t, "clear_owner", "store")
    /\ UNCHANGED <<lock, owner, spin, ret, sleepers, held>>

\* mutex->owner = 0
ClearOwner(t) ==
    /\ Step(t, "clear_owner", "store")
    /\ owner' = NoThread
    /\ UNCHANGED <<lock, spin, ret, sleepers, held>>

\* atomic_store(&mutex->lock, 0)
Store(t) ==
    /\ Step(t, "store", "wake")
    /\ lock' = 0
    /\ held' = held \ {t}
    /\ UNCHANGED <<owner, spin, ret, sleepers>>

\* The bug of an unlock() that returns without the FUTEX_WAKE.
WakeForgotten(t) ==
    /\ Return(t, "wake", "ok")
    /\ UNCHANGED <<lock, owner, spin, sleepers, held>>

\* FUTEX_WAKE 1: the kernel takes one sleeper off the queue, if there is one;
\* its FUTEX_WAIT returns 0 and its spin_count is reset.  return 0
Wake(t) ==
    /\ ret' = [ret EXCEPT ![t] = "ok"]
    /\ pc[t] = "wake"
    /\ \/ /\ sleepers = {}
          /\ Goto(t, "idle")
          /\ UNCHANGED <<spin, sleepers>>
       \/ \E u \in sleepers :
            /\ pc' = [pc EXCEPT ![t] = "idle", ![u] = "cas"]
            /\ spin' = [spin EXCEPT ![u] = SpinLimit]
            /\ sleepers' = sleepers \ {u}
    /\ UNCHANGED <<lock, owner, held>>

-----------------------------------------------------------------------------
\* The steps of a thread that is inside a call and not asleep.
Run(t) ==
    \/ LockCheck(t) \/ Cas(t) \/ SetOwner(t) \/ Spin(t)
    \/ WaitSleeps(t) \/ WaitAgain(t)
    \/ UnlockCheck(t) \/ ClearOwner(t) \/ Store(t) \/ Wake(t)

Next ==
    \E t \in Threads :
        \/ CallLock(t) \/ CallUnlock(t) \/ CallNull(t)
        \/ WaitInterrupted(t) \/ WaitFails(t)
        \/ Run(t)

SafeSpec == Init /\ [][Next]_vars

\* The scheduler lets every runnable thread run.  Nothing is assumed of
\* callers, of signals, of the choice of the sleeper a FUTEX_WAKE takes, or of
\* who wins a compare-and-swap.
Fairness == \A t \in Threads : WF_vars(Run(t))

Spec == SafeSpec /\ Fairness

-----------------------------------------------------------------------------
(* Safety *)

\* At most one thread is between its lock() having returned 0 and its unlock()
\* having given the word back.
MutualExclusion == \A t, u \in held : t = u

\* A thread that holds the lock is the recorded owner until it clears the
\* record itself, so its unlock() is never refused and its second lock() always is;
\* and nobody else ever passes for the owner.
OwnerIsHolder ==
    \A t \in Threads :
        /\ t \in held /\ pc[t] # "store" => owner = t
        /\ owner = t => t \in held

\* The lock word is 1 exactly while one thread has won the compare-and-swap
\* and not yet stored 0: no acquisition is ever lost under a late release.
WordMatchesHolder ==
    lock = 1 <=> \E t \in Threads : t \in held \/ pc[t] = "set_owner"

\* A thread that holds the lock is never in lock()'s loop, where it would wait
\* for itself: the reentrancy test of lock.c:172 reads owner outside the lock,
\* and must still never miss.
NoSelfDeadlock == \A t \in held : pc[t] \notin Contending

\* A free lock with sleepers is always about to be noticed: some thread has a
\* FUTEX_WAKE or a compare-and-swap as its very next step.
NoLostWakeup ==
    lock = 0 /\ sleepers # {} => \E t \in Threads : pc[t] \in {"wake", "cas"}

-----------------------------------------------------------------------------
(* Refinement: this lock implements AbstractLock *)

Holding(t) == t \in held \/ pc[t] = "set_owner"

absHolder ==
    IF \E t \in Threads : Holding(t) THEN CHOOSE t \in Threads : Holding(t) ELSE NoThread

\* The call a place in the code belongs to, and on which side of the step at
\* which the lock changes hands.
CallAt(place) ==
    IF place = "idle" THEN "none"
    ELSE IF place = "set_owner" THEN "locked"
    ELSE IF place = "wake" THEN "unlocked"
    ELSE IF place \in UnlockSteps THEN "unlock"
    ELSE "lock"

absCall == [t \in Threads |-> CallAt(pc[t])]

Abstract == INSTANCE AbstractLock WITH holder <- absHolder, call <- absCall

\* Every step of lock.c is a step of the abstract lock or none of its business.
ImplementsLock == Abstract!SafeSpec

\* Under the fairness of the scheduler the abstract lock's own fairness holds: a
\* free lock that is wanted is taken, and a decided call returns.
ImplementsFairLock == Abstract!Fairness
=============================================================================
