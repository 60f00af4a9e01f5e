----------------------------- MODULE MutexProofs ----------------------------
(***************************************************************************)
(* Proofs about Mutex, for any set of threads and any spin limit: type     *)
(* correctness, the safety invariants and the refinement of AbstractLock.  *)
(***************************************************************************)
EXTENDS Mutex, TLAPS

-----------------------------------------------------------------------------
(* Type correctness *)

\* An initialised mutex has its types.
LEMMA InitTypeOK == Init => TypeOK
  BY MutexAssumption DEF Init, TypeOK

\* No step of pthread_mutex_lock, pthread_mutex_unlock or futex breaks a type.
LEMMA NextTypeOK == TypeOK /\ [Next]_vars => TypeOK'
<1> SUFFICES ASSUME TypeOK, [Next]_vars PROVE TypeOK'
  OBVIOUS
<1> USE MutexAssumption DEF TypeOK, LockSteps, UnlockSteps, Step, Return, Goto
<1>1. CASE UNCHANGED vars
  BY <1>1 DEF vars
<1>2. ASSUME NEW t \in Threads,
             CallLock(t) \/ CallUnlock(t) \/ CallNull(t)
      PROVE  TypeOK'
  BY <1>2 DEF CallLock, CallUnlock, CallNull
<1>3. ASSUME NEW t \in Threads, WaitInterrupted(t) \/ WaitFails(t)
      PROVE  TypeOK'
  BY <1>3 DEF WaitInterrupted, WaitFails
<1>4. ASSUME NEW t \in Threads, LockCheck(t) \/ Cas(t) \/ SetOwner(t) \/ Spin(t)
      PROVE  TypeOK'
  BY <1>4 DEF LockCheck, Cas, SetOwner, Spin
<1>5. ASSUME NEW t \in Threads, WaitSleeps(t) \/ WaitAgain(t)
      PROVE  TypeOK'
  BY <1>5 DEF WaitSleeps, WaitAgain
<1>6. ASSUME NEW t \in Threads, UnlockCheck(t) \/ ClearOwner(t) \/ Store(t)
      PROVE  TypeOK'
  BY <1>6 DEF UnlockCheck, ClearOwner, Store
<1>7. ASSUME NEW t \in Threads, Wake(t)
      PROVE  TypeOK'
  BY <1>7 DEF Wake
<1> QED
  BY <1>1, <1>2, <1>3, <1>4, <1>5, <1>6, <1>7 DEF Next, Run

\* Every variable keeps its type: type correctness of lock.c's mutex.
THEOREM TypeCorrect == SafeSpec => []TypeOK
<1> QED
  BY InitTypeOK, NextTypeOK, PTL DEF SafeSpec

-----------------------------------------------------------------------------
(* The inductive invariant *)

\* At most one thread has won the compare-and-swap and not stored 0 since, and
\* the lock word is 1 exactly while there is one.
OneWinner ==
    /\ \A t, u \in Threads : Holding(t) /\ Holding(u) => t = u
    /\ lock = 1 <=> \E t \in Threads : Holding(t)

\* What a thread's place in the code says of held and owner.
PlaceOK ==
    \A t \in Threads :
        /\ pc[t] \in Contending \cup {"set_owner"} => t \notin held
        /\ pc[t] \in {"clear_owner", "store"} => t \in held
        /\ pc[t] = "store" => owner # t

\* The kernel's queue holds the threads that are asleep.
QueueOK == \A t \in Threads : t \in sleepers <=> pc[t] = "asleep"

IInv ==
    /\ TypeOK
    /\ OneWinner
    /\ OwnerIsHolder
    /\ PlaceOK
    /\ QueueOK
    /\ NoLostWakeup

\* An initialised mutex, with nobody in a call, satisfies the invariant.
LEMMA InitInv == Init => IInv
<1> SUFFICES ASSUME Init PROVE IInv
  OBVIOUS
<1>1. TypeOK
  BY InitTypeOK
<1>2. OneWinner /\ OwnerIsHolder /\ PlaceOK /\ QueueOK /\ NoLostWakeup
  BY MutexAssumption DEF Init, OneWinner, OwnerIsHolder, PlaceOK, QueueOK, NoLostWakeup,
     Holding, Contending
<1> QED
  BY <1>1, <1>2 DEF IInv

\* Every step of every thread preserves the invariant.
LEMMA NextInv == IInv /\ [Next]_vars => IInv'
<1> SUFFICES ASSUME IInv, [Next]_vars PROVE IInv'
  OBVIOUS
<1>t. TypeOK /\ TypeOK'
  BY NextTypeOK DEF IInv
<1> USE MutexAssumption, <1>t
<1> USE DEF IInv, TypeOK, OneWinner, OwnerIsHolder, PlaceOK, QueueOK, NoLostWakeup, Holding,
            Contending, LockSteps, UnlockSteps, Step, Return, Goto
<1>1. CASE UNCHANGED vars
  BY <1>1 DEF vars
<1>2. ASSUME NEW t \in Threads,
             CallLock(t) \/ CallUnlock(t) \/ CallNull(t)
      PROVE  IInv'
  BY <1>2 DEF CallLock, CallUnlock, CallNull
<1>3. ASSUME NEW t \in Threads, WaitInterrupted(t) \/ WaitFails(t)
      PROVE  IInv'
  BY <1>3 DEF WaitInterrupted, WaitFails
<1>4. ASSUME NEW t \in Threads, LockCheck(t)
      PROVE  IInv'
  BY <1>4 DEF LockCheck
<1>5. ASSUME NEW t \in Threads, Cas(t)
      PROVE  IInv'
  BY <1>5 DEF Cas
<1>6. ASSUME NEW t \in Threads, SetOwner(t)
      PROVE  IInv'
  BY <1>6 DEF SetOwner
<1>7. ASSUME NEW t \in Threads, Spin(t)
      PROVE  IInv'
  BY <1>7 DEF Spin
<1>8. ASSUME NEW t \in Threads, WaitSleeps(t) \/ WaitAgain(t)
      PROVE  IInv'
  BY <1>8 DEF WaitSleeps, WaitAgain
<1>9. ASSUME NEW t \in Threads, UnlockCheck(t)
      PROVE  IInv'
  BY <1>9 DEF UnlockCheck
<1>10. ASSUME NEW t \in Threads, ClearOwner(t)
      PROVE  IInv'
  BY <1>10 DEF ClearOwner
<1>11. ASSUME NEW t \in Threads, Store(t)
      PROVE  IInv'
  BY <1>11 DEF Store
<1>12. ASSUME NEW t \in Threads, Wake(t)
      PROVE  IInv'
  BY <1>12 DEF Wake
<1> QED
  BY <1>1, <1>2, <1>3, <1>4, <1>5, <1>6, <1>7, <1>8, <1>9, <1>10, <1>11, <1>12 DEF Next, Run

\* The invariant holds in every state the mutex gets to.
LEMMA InvHolds == SafeSpec => []IInv
<1> QED
  BY InitInv, NextInv, PTL DEF SafeSpec

-----------------------------------------------------------------------------
(* The safety invariants of Mutex *)

\* Two threads are never both inside the section that pthread_mutex_lock and
\* pthread_mutex_unlock enclose, however many threads there are and however long
\* they spin.
THEOREM MutexExcludes == SafeSpec => []MutualExclusion
<1>1. IInv => MutualExclusion
  BY DEF IInv, TypeOK, OneWinner, Holding, MutualExclusion
<1> QED
  BY <1>1, InvHolds, PTL

\* The owner field names the holder whenever it names a thread: the unlocked
\* comparisons of lock.c:172 and lock.c:231 decide right.
THEOREM OwnerCorrect == SafeSpec => []OwnerIsHolder
<1>1. IInv => OwnerIsHolder
  BY DEF IInv
<1> QED
  BY <1>1, InvHolds, PTL

\* The lock word is 1 exactly while a thread has won it and not stored 0 since.
THEOREM WordCorrect == SafeSpec => []WordMatchesHolder
<1>1. IInv => WordMatchesHolder
  BY DEF IInv, OneWinner, Holding, WordMatchesHolder
<1> QED
  BY <1>1, InvHolds, PTL

\* A holder never waits for itself: lock() always refuses it.
THEOREM HolderNeverContends == SafeSpec => []NoSelfDeadlock
<1>1. IInv => NoSelfDeadlock
  BY DEF IInv, TypeOK, PlaceOK, NoSelfDeadlock, Contending
<1> QED
  BY <1>1, InvHolds, PTL

\* The futex never leaves a sleeper behind a free lock with nobody about to act.
THEOREM WakeupNeverLost == SafeSpec => []NoLostWakeup
<1>1. IInv => NoLostWakeup
  BY DEF IInv
<1> QED
  BY <1>1, InvHolds, PTL

-----------------------------------------------------------------------------
(* Refinement of AbstractLock *)

\* The refinement mapping's CHOOSE has one thread to choose from, before a step
\* and after it.
LEMMA HolderIs ==
  ASSUME IInv
  PROVE  /\ \A t \in Threads : Holding(t) <=> absHolder = t
         /\ lock = 0 <=> absHolder = NoThread
<1> USE MutexAssumption DEF IInv, TypeOK, OneWinner
<1>1. ASSUME NEW t \in Threads, Holding(t)
      PROVE  absHolder = t
  BY <1>1 DEF absHolder
<1>2. ASSUME \A t \in Threads : ~Holding(t)
      PROVE  absHolder = NoThread
  BY <1>2 DEF absHolder
<1> QED
  BY <1>1, <1>2

\* HolderIs of the state after a step, whose CHOOSE is another one.
LEMMA HolderIsNext ==
  ASSUME IInv'
  PROVE  /\ \A t \in Threads : Holding(t)' <=> absHolder' = t
         /\ lock' = 0 <=> absHolder' = NoThread
<1> USE MutexAssumption DEF IInv, TypeOK, OneWinner
<1>1. ASSUME NEW t \in Threads, Holding(t)'
      PROVE  absHolder' = t
  BY <1>1 DEF absHolder
<1>2. ASSUME \A t \in Threads : ~Holding(t)'
      PROVE  absHolder' = NoThread
  BY <1>2 DEF absHolder
<1> QED
  BY <1>1, <1>2

\* An initialised mutex is an abstract lock that is free and uncalled.
LEMMA InitRefines == Init => Abstract!Init
<1> SUFFICES ASSUME Init PROVE Abstract!Init
  OBVIOUS
<1>1. absHolder = NoThread
  BY InitInv, HolderIs DEF Init
<1>2. absCall = [t \in Threads |-> "none"]
  BY DEF Init, absCall, CallAt
<1> QED
  BY <1>1, <1>2 DEF Init, Abstract!Init

\* The abstract holder changes only when the set of threads that hold does.
LEMMA SameHolder ==
  ASSUME IInv, IInv', \A u \in Threads : Holding(u)' <=> Holding(u)
  PROVE  absHolder' = absHolder
<1>1. CASE \E u \in Threads : Holding(u)
  BY <1>1, HolderIs, HolderIsNext
<1>2. CASE \A u \in Threads : ~Holding(u)
  <2>1. lock = 0 /\ lock' = 0
    BY <1>2 DEF IInv, TypeOK, OneWinner
  <2> QED
    BY <2>1, HolderIs, HolderIsNext
<1> QED
  BY <1>1, <1>2

\* Every step of lock.c is a step of the abstract lock or changes nothing in it.
LEMMA StepRefines == IInv /\ IInv' /\ [Next]_vars => [Abstract!Next]_(Abstract!vars)
<1> SUFFICES ASSUME IInv, IInv', [Next]_vars
             PROVE  Abstract!Next \/ UNCHANGED Abstract!vars
  OBVIOUS
<1>h. /\ \A t \in Threads : Holding(t) <=> absHolder = t
      /\ lock = 0 <=> absHolder = NoThread
      /\ \A t \in Threads : Holding(t)' <=> absHolder' = t
      /\ lock' = 0 <=> absHolder' = NoThread
  BY HolderIs, HolderIsNext
<1>t. TypeOK
  BY DEF IInv
<1> USE <1>t DEF TypeOK, absCall, CallAt, LockSteps, UnlockSteps, Step, Return, Goto
<1>1. CASE UNCHANGED vars
  BY <1>1 DEF vars, absHolder, Holding, Abstract!vars
<1>2. ASSUME NEW t \in Threads, CallLock(t)
      PROVE  Abstract!Begin(t, "lock")
  <2>1. absHolder' = absHolder
    BY <1>2, SameHolder DEF CallLock, Holding
  <2> QED
    BY <1>2, <2>1 DEF CallLock, Abstract!Begin
<1>3. ASSUME NEW t \in Threads, CallUnlock(t)
      PROVE  Abstract!Begin(t, "unlock")
  <2>1. absHolder' = absHolder
    BY <1>3, SameHolder DEF CallUnlock, Holding
  <2> QED
    BY <1>3, <2>1 DEF CallUnlock, Abstract!Begin
<1>4. ASSUME NEW t \in Threads, CallNull(t)
      PROVE  Abstract!NullCall(t)
  <2>1. absHolder' = absHolder
    BY <1>4, SameHolder DEF CallNull, Holding
  <2> QED
    BY <1>4, <2>1 DEF CallNull, Abstract!NullCall
<1>5. ASSUME NEW t \in Threads, WaitInterrupted(t)
      PROVE  UNCHANGED Abstract!vars
  <2>1. absHolder' = absHolder
    BY <1>5, SameHolder DEF WaitInterrupted, Holding
  <2> QED
    BY <1>5, <2>1 DEF WaitInterrupted, Abstract!vars
<1>6. ASSUME NEW t \in Threads, WaitFails(t)
      PROVE  Abstract!LockFails(t)
  <2>1. absHolder' = absHolder
    BY <1>6, SameHolder DEF WaitFails, Holding
  <2>2. absHolder # t
    BY <1>6, <1>h DEF WaitFails, IInv, PlaceOK, Contending, Holding
  <2> QED
    BY <1>6, <2>1, <2>2 DEF WaitFails, Abstract!LockFails, Abstract!End
<1>7. ASSUME NEW t \in Threads, LockCheck(t)
      PROVE  Abstract!LockRefused(t) \/ UNCHANGED Abstract!vars
  <2>1. absHolder' = absHolder
    BY <1>7, SameHolder DEF LockCheck, Holding
  <2>2. CASE owner = t
    <3>1. absHolder = t
      BY <2>2, <1>h DEF IInv, OwnerIsHolder, Holding
    <3> QED
      BY <1>7, <2>1, <2>2, <3>1 DEF LockCheck, Abstract!LockRefused, Abstract!End
  <2>3. CASE owner # t
    BY <1>7, <2>1, <2>3 DEF LockCheck, Abstract!vars
  <2> QED
    BY <2>2, <2>3
<1>8. ASSUME NEW t \in Threads, Cas(t)
      PROVE  Abstract!Acquire(t) \/ UNCHANGED Abstract!vars
  <2>1. CASE lock = 0
    <3>1. Holding(t)'
      BY <1>8, <2>1 DEF Cas, Holding
    <3>2. absHolder = NoThread /\ absHolder' = t
      BY <2>1, <3>1, <1>h
    <3> QED
      BY <1>8, <2>1, <3>2 DEF Cas, Abstract!Acquire
  <2>2. CASE lock = 1
    <3>1. absHolder' = absHolder
      BY <1>8, <2>2, SameHolder DEF Cas, Holding
    <3> QED
      BY <1>8, <2>2, <3>1 DEF Cas, Abstract!vars
  <2> QED
    BY <2>1, <2>2
<1>9. ASSUME NEW t \in Threads, SetOwner(t)
      PROVE  Abstract!LockSucceeds(t)
  <2>1. absHolder' = absHolder
    BY <1>9, SameHolder DEF SetOwner, Holding
  <2> QED
    BY <1>9, <2>1 DEF SetOwner, Abstract!LockSucceeds, Abstract!End
<1>10. ASSUME NEW t \in Threads, Spin(t) \/ WaitSleeps(t) \/ WaitAgain(t)
       PROVE  UNCHANGED Abstract!vars
  <2>1. absHolder' = absHolder
    BY <1>10, SameHolder DEF Spin, WaitSleeps, WaitAgain, Holding
  <2> QED
    BY <1>10, <2>1 DEF Spin, WaitSleeps, WaitAgain, Abstract!vars
<1>11. ASSUME NEW t \in Threads, UnlockCheck(t)
       PROVE  Abstract!UnlockRefused(t) \/ UNCHANGED Abstract!vars
  <2>1. absHolder' = absHolder
    BY <1>11, SameHolder DEF UnlockCheck, Holding
  <2>2. CASE owner # t
    <3>1. absHolder # t
      BY <1>11, <2>2, <1>h DEF UnlockCheck, IInv, OwnerIsHolder, Holding
    <3> QED
      BY <1>11, <2>1, <2>2, <3>1 DEF UnlockCheck, Abstract!UnlockRefused, Abstract!End
  <2>3. CASE owner = t
    BY <1>11, <2>1, <2>3 DEF UnlockCheck, Abstract!vars
  <2> QED
    BY <2>2, <2>3
<1>12. ASSUME NEW t \in Threads, ClearOwner(t)
       PROVE  UNCHANGED Abstract!vars
  <2>1. absHolder' = absHolder
    BY <1>12, SameHolder DEF ClearOwner, Holding
  <2> QED
    BY <1>12, <2>1 DEF ClearOwner, Abstract!vars
<1>13. ASSUME NEW t \in Threads, Store(t)
       PROVE  Abstract!Release(t)
  <2>1. absHolder = t
    BY <1>13, <1>h DEF Store, IInv, PlaceOK, Holding
  <2>2. absHolder' = NoThread
    BY <1>13, <1>h DEF Store
  <2> QED
    BY <1>13, <2>1, <2>2 DEF Store, Abstract!Release
<1>14. ASSUME NEW t \in Threads, Wake(t)
       PROVE  Abstract!UnlockSucceeds(t)
  <2>1. absHolder' = absHolder
    BY <1>14, SameHolder DEF Wake, Holding, IInv, QueueOK
  <2>2. CASE sleepers = {} /\ Goto(t, "idle")
    BY <1>14, <2>1, <2>2 DEF Wake, Abstract!UnlockSucceeds, Abstract!End
  <2>3. ASSUME NEW u \in sleepers, pc' = [pc EXCEPT ![t] = "idle", ![u] = "cas"]
        PROVE  Abstract!UnlockSucceeds(t)
    <3>1. u \in Threads /\ pc[u] = "asleep" /\ u # t
      BY <1>14 DEF Wake, IInv, QueueOK
    <3>2. absCall' = [absCall EXCEPT ![t] = "none"]
      BY <1>14, <2>3, <3>1 DEF Wake
    <3> QED
      BY <1>14, <2>1, <3>2 DEF Wake, Abstract!UnlockSucceeds, Abstract!End
  <2> QED
    BY <1>14, <2>2, <2>3 DEF Wake
<1> QED
  BY <1>1, <1>2, <1>3, <1>4, <1>5, <1>6, <1>7, <1>8, <1>9, <1>10, <1>11, <1>12, <1>13, <1>14
  DEF Next, Run, Abstract!Next

\* mini_libc's mutex is an implementation of AbstractLock: whatever its threads
\* see of it, a lock that changes hands in one step could have shown them.
THEOREM MutexImplementsLock == SafeSpec => ImplementsLock
<1> QED
  BY InitRefines, StepRefines, InvHolds, PTL DEF SafeSpec, ImplementsLock, Abstract!SafeSpec
=============================================================================
