---------------------------- MODULE AbstractLock ----------------------------
(***************************************************************************)
(* What mini_libc's mutex promises its callers, with no word about spins,  *)
(* futexes or the lock word: at most one thread holds the lock, a thread   *)
(* that holds it is refused a second lock() and a thread that does not is  *)
(* refused an unlock() (test_mini_lib.c:367-410 exercises both), a         *)
(* refused call changes nothing, and a lock that is free and wanted is     *)
(* eventually taken.                                                       *)
(***************************************************************************)

CONSTANTS
    Threads,        \* the callers
    NoThread        \* the value of holder while the lock is free: not a caller

VARIABLES
    holder,         \* the thread that holds the lock, or NoThread
    call,           \* call[t]: how far t is in the call it has made
    ret             \* ret[t]: the result of t's last call

vars == <<holder, call, ret>>

Calls == {"none", "lock", "locked", "unlock", "unlocked"}

Results == {"pending", "ok", "refused", "invalid"}

Init ==
    /\ holder = NoThread
    /\ call = [t \in Threads |-> "none"]
    /\ ret = [t \in Threads |-> "ok"]

-----------------------------------------------------------------------------
Begin(t, c) ==
    /\ call[t] = "none"
    /\ call' = [call EXCEPT ![t] = c]
    /\ ret' = [ret EXCEPT ![t] = "pending"]
    /\ UNCHANGED holder

End(t, c, r) ==
    /\ call[t] = c
    /\ call' = [call EXCEPT ![t] = "none"]
    /\ ret' = [ret EXCEPT ![t] = r]
    /\ UNCHANGED holder

\* The instant at which a lock() takes the lock.
Acquire(t) ==
    /\ call[t] = "lock"
    /\ holder = NoThread
    /\ holder' = t
    /\ call' = [call EXCEPT ![t] = "locked"]
    /\ UNCHANGED ret

LockSucceeds(t) == End(t, "locked", "ok")

\* Only the holder is refused, and it is never left waiting for itself.
LockRefused(t) == holder = t /\ End(t, "lock", "refused")

\* A caller the kernel will not put to sleep gets an error and no lock.
LockFails(t) == holder # t /\ End(t, "lock", "invalid")

\* The instant at which an unlock() gives the lock back.
Release(t) ==
    /\ call[t] = "unlock"
    /\ holder = t
    /\ holder' = NoThread
    /\ call' = [call EXCEPT ![t] = "unlocked"]
    /\ UNCHANGED ret

UnlockSucceeds(t) == End(t, "unlocked", "ok")

UnlockRefused(t) == holder # t /\ End(t, "unlock", "refused")

\* A call without a mutex is refused at once.
NullCall(t) ==
    /\ call[t] = "none"
    /\ ret' = [ret EXCEPT ![t] = "refused"]
    /\ UNCHANGED <<holder, call>>

-----------------------------------------------------------------------------
Next ==
    \E t \in Threads :
        \/ Begin(t, "lock") \/ Begin(t, "unlock") \/ NullCall(t)
        \/ Acquire(t) \/ LockSucceeds(t) \/ LockRefused(t) \/ LockFails(t)
        \/ Release(t) \/ UnlockSucceeds(t) \/ UnlockRefused(t)

SafeSpec == Init /\ [][Next]_vars

\* Somebody could take the lock.
Wanted == holder = NoThread /\ \E t \in Threads : call[t] = "lock"

\* t is in a call that needs nothing of any other thread to return.
Decided(t) ==
    \/ call[t] \in {"locked", "unlock", "unlocked"}
    \/ call[t] = "lock" /\ holder = t

\* Some thread takes a free lock that is wanted (which one is not promised),
\* and every decided call returns.  This is weak fairness of Acquire by some
\* thread and of each thread's other steps, said without ENABLED, because TLC does
\* not evaluate ENABLED through a refinement mapping.
Fairness ==
    /\ []<>~Wanted
    /\ \A t \in Threads : []<>~Decided(t)

Spec == SafeSpec /\ Fairness
=============================================================================
