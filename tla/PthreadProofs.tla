--------------------------- MODULE PthreadProofs ----------------------------
(***************************************************************************)
(* Proofs about Pthread, for any sets of thread ids, blocks, stacks and    *)
(* return values.                                                          *)
(*                                                                         *)
(* The safety properties follow from one inductive invariant, IInv.  Its   *)
(* core is the handshake over has_exited: the flag of a created block is 0 *)
(* exactly as long as the thread the block was made for has not announced  *)
(* its exit (Owned and Awaited are the two directions), and join frees a   *)
(* block only after it has seen the flag.  So a block and its stack are    *)
(* never used again while their thread may write the flag.                 *)
(***************************************************************************)
EXTENDS Pthread, TLAPS

\* Nobody can see yet that thread t is done.
Unannounced(t) ==
    pc[t] \in {"start", "set_value", "set_exited"} \/ "has_exited" \in unseen[t]

\* Where main and the threads can be, and what their locals then hold
Places ==
    /\ \A t \in Tids :
        /\ pc[t] \in ThreadSteps => block[t] \in Blocks
        /\ unseen[t] # {} => pc[t] \in {"set_exited", "wake"}
        /\ "has_exited" \in unseen[t] => pc[t] = "wake"
        /\ mpc = "dead" <=> pc[t] = "dead"
    /\ mpc \in {"init", "clone"} => mblock \in Blocks \ handles
    /\ mpc \in JoinSteps \ {"unmap"} => mblock \in handles
    /\ mpc = "clone" => args[mblock].stack = mstack /\ args[mblock].has_exited = 0
    /\ mpc \in {"read", "free"} => args[mblock].has_exited = 1
    /\ mpc = "free" => mstack = args[mblock].stack

\* Before a thread's exit can be seen its block is a handle, made for it, with the
\* flag 0 and its stack.
Owned ==
    \A t \in Tids : Unannounced(t) =>
        /\ block[t] \in handles /\ madeFor[block[t]] = t
        /\ args[block[t]].has_exited = 0
        /\ stack[t] = args[block[t]].stack

\* The flag of a handle that is 0 is still to be set, by the thread it was made for.
Awaited ==
    mpc # "dead" => \A b \in handles :
        /\ madeFor[b] \in Tids
        /\ args[b].has_exited = 0 => block[madeFor[b]] = b /\ Unannounced(madeFor[b])

\* What is allocated and mapped belongs to the handles and to the call under way;
\* no two of them share a stack.
Accounted ==
    mpc # "dead" =>
        /\ mallocked = handles \cup (IF mpc \in {"init", "clone"} THEN {mblock} ELSE {})
        /\ mapped = ({args[b].stack : b \in handles}
                        \cup (IF mpc \in CreateSteps \cup {"unmap"} THEN {mstack} ELSE {})) \ {None}
        /\ \A b, c \in handles : args[b].stack = args[c].stack /\ args[b].stack # None => b = c
        /\ mpc \in CreateSteps \cup {"unmap"} /\ mstack # None =>
            \A b \in handles : args[b].stack # mstack

Rest == Places /\ Owned /\ Awaited /\ Accounted /\ WakeStillToCome

IInv == TypeOK /\ Rest

-----------------------------------------------------------------------------
(* Type correctness *)

\* A process that has made no call yet has its types.
LEMMA InitTypeOK == Init => TypeOK
  BY PthreadAssumption DEF Init, TypeOK, Args

\* The end of the process keeps the types.
LEMMA DieTypeOK == ASSUME TypeOK, Die, UNCHANGED madeFor PROVE TypeOK'
  BY DEF TypeOK, Die, memory

\* No step of create, of a thread or of join breaks a type.
LEMMA NextTypeOK == TypeOK /\ Places /\ [Next]_vars => TypeOK'
<1> SUFFICES ASSUME TypeOK, Places, [Next]_vars PROVE TypeOK'
  OBVIOUS
<1> USE PthreadAssumption DEF TypeOK, mainVars, memory, threadVars, CreateSteps, JoinSteps, ThreadSteps
<1>1. CASE UNCHANGED vars
  BY <1>1 DEF vars
<1>2. CASE MapStack \/ MapStackFails \/ AllocArgs \/ AllocArgsFails
  BY <1>2 DEF MapStack, MapStackFails, AllocArgs, AllocArgsFails
<1>3. CASE InitArgs
  <2>1. mblock \in Blocks /\ args[mblock] \in Args
    BY <1>3 DEF InitArgs, Places
  <2> QED
    BY <1>3, <2>1 DEF InitArgs, Args
<1>4. CASE Clone \/ CloneFails
  BY <1>4 DEF Clone, CloneFails, Places
<1>5. CASE Join \/ JoinTest \/ JoinWait \/ JoinInterrupted
  BY <1>5 DEF Join, JoinTest, JoinWait, JoinInterrupted
<1>6. CASE JoinRead
  BY <1>6 DEF JoinRead, Places, Args
<1>7. CASE JoinFree \/ JoinUnmap
  BY <1>7 DEF JoinFree, JoinUnmap
<1>8. ASSUME NEW t \in Tids, ThreadRun(t) PROVE TypeOK'
  <2>1. CASE Die /\ UNCHANGED madeFor
    BY <2>1, DieTypeOK
  <2>2. CASE Routine(t) \/ SetValue(t) \/ SetExited(t)
    BY <2>1, <2>2 DEF Routine, SetValue, SetExited, OnStack, Goto
  <2>3. CASE StoreSeen(t)
    BY <2>3 DEF StoreSeen, Args, Places
  <2>4. CASE WakeJoiner(t) \/ Leave(t) \/ Exit(t)
    BY <2>1, <2>4 DEF WakeJoiner, Leave, Exit, OnStack, Goto
  <2> QED
    BY <1>8, <2>2, <2>3, <2>4 DEF ThreadRun
<1>9. CASE Dead
  BY <1>9 DEF Dead, vars
<1> QED
  BY <1>1, <1>2, <1>3, <1>4, <1>5, <1>6, <1>7, <1>8, <1>9 DEF Next, Create, JoinRun

-----------------------------------------------------------------------------
(* The inductive invariant *)

\* A process that has made no call yet satisfies the invariant.
LEMMA InitInv == Init => IInv
<1> SUFFICES ASSUME Init PROVE IInv
  OBVIOUS
<1>1. TypeOK
  BY InitTypeOK
<1>2. Places /\ Owned /\ Awaited /\ WakeStillToCome
  BY DEF Init, Places, Owned, Awaited, WakeStillToCome, Unannounced, ThreadSteps, JoinSteps
<1>3. Accounted
  BY DEF Init, Accounted, CreateSteps
<1> QED
  BY <1>1, <1>2, <1>3 DEF IInv, Rest

\* The end of the process leaves nothing to be accounted for.
LEMMA DieInv == ASSUME IInv, Die, UNCHANGED madeFor PROVE Rest'
<1> USE DEF IInv, Rest, Die, memory
<1>1. Places'
  BY DEF Places, ThreadSteps, JoinSteps, TypeOK
<1>2. Owned'
  BY DEF Owned, Unannounced, TypeOK
<1>3. Awaited' /\ Accounted' /\ WakeStillToCome'
  BY DEF Awaited, Accounted, WakeStillToCome
<1> QED
  BY <1>1, <1>2, <1>3

\* Every step of create, of a thread and of join keeps it.
LEMMA NextInv == IInv /\ [Next]_vars => Rest'
<1> SUFFICES ASSUME IInv, [Next]_vars PROVE Rest'
  OBVIOUS
<1> USE PthreadAssumption DEF IInv, Rest, TypeOK, Args, Unannounced, Places, Owned, Awaited,
        mainVars, memory, threadVars, CreateSteps, JoinSteps, ThreadSteps
<1>1. CASE MapStack
  BY <1>1 DEF MapStack, Accounted, WakeStillToCome
<1>2. CASE MapStackFails
  BY <1>2 DEF MapStackFails, Accounted, WakeStillToCome
<1>3. CASE AllocArgs
  BY <1>3 DEF AllocArgs, Accounted, WakeStillToCome
<1>4. CASE AllocArgsFails
  BY <1>4 DEF AllocArgsFails, Accounted, WakeStillToCome
<1>5. CASE InitArgs
  BY <1>5 DEF InitArgs, Accounted, WakeStillToCome
\* The new thread is the one its block is made for; the tid may have been used before,
\* but its last thread has left no store unseen.
<1>6. CASE Clone
  <2>1. Places'
    BY <1>6 DEF Clone
  <2>2. Owned'
    BY <1>6 DEF Clone, Accounted
  <2>3. Awaited'
    BY <1>6 DEF Clone
  <2>4. Accounted'
    BY <1>6 DEF Clone, Accounted
  <2>5. WakeStillToCome'
    BY <1>6 DEF Clone, WakeStillToCome
  <2> QED
    BY <2>1, <2>2, <2>3, <2>4, <2>5
<1>7. CASE CloneFails
  BY <1>7 DEF CloneFails, Accounted, WakeStillToCome
<1>8. CASE Join
  BY <1>8 DEF Join, Accounted, WakeStillToCome
<1>9. CASE JoinTest
  BY <1>9 DEF JoinTest, Accounted, WakeStillToCome
<1>10. CASE JoinWait
  BY <1>10 DEF JoinWait, Accounted, WakeStillToCome
<1>11. CASE JoinInterrupted
  BY <1>11 DEF JoinInterrupted, Accounted, WakeStillToCome
<1>12. CASE JoinRead
  BY <1>12 DEF JoinRead, Accounted, WakeStillToCome
\* The flag of the block is 1, so no thread that may still set it has this block.
<1>13. CASE JoinFree
  <2>1. Places'
    BY <1>13 DEF JoinFree
  <2>2. Owned'
    BY <1>13 DEF JoinFree, Accounted
  <2>3. Awaited'
    BY <1>13 DEF JoinFree
  <2>4. Accounted'
    BY <1>13 DEF JoinFree, Accounted
  <2>5. WakeStillToCome'
    BY <1>13 DEF JoinFree, WakeStillToCome
  <2> QED
    BY <2>1, <2>2, <2>3, <2>4, <2>5
\* No other handle has this stack, so no thread that is not done runs on it.
<1>14. CASE JoinUnmap
  <2>1. Places'
    BY <1>14 DEF JoinUnmap
  <2>2. Owned'
    BY <1>14 DEF JoinUnmap, Accounted
  <2>3. Awaited'
    BY <1>14 DEF JoinUnmap
  <2>4. Accounted'
    BY <1>14 DEF JoinUnmap, Accounted
  <2>5. WakeStillToCome'
    BY <1>14 DEF JoinUnmap, WakeStillToCome
  <2> QED
    BY <2>1, <2>2, <2>3, <2>4, <2>5
<1>15. ASSUME NEW t \in Tids, Routine(t), ~Die PROVE Rest'
  BY <1>15 DEF Routine, OnStack, Goto, Accounted, WakeStillToCome
<1>16. ASSUME NEW t \in Tids, SetValue(t), ~Die PROVE Rest'
  <2>1. Places'
    BY <1>16 DEF SetValue, OnStack, Goto
  <2>2. Owned' /\ Awaited'
    BY <1>16 DEF SetValue, OnStack, Goto
  <2>3. Accounted' /\ WakeStillToCome'
    BY <1>16 DEF SetValue, OnStack, Goto, Accounted, WakeStillToCome
  <2> QED
    BY <2>1, <2>2, <2>3
<1>17. ASSUME NEW t \in Tids, SetExited(t), ~Die PROVE Rest'
  <2>1. Places'
    BY <1>17 DEF SetExited, OnStack, Goto
  <2>2. Owned' /\ Awaited'
    BY <1>17 DEF SetExited, OnStack, Goto
  <2>3. Accounted' /\ WakeStillToCome'
    BY <1>17 DEF SetExited, OnStack, Goto, Accounted, WakeStillToCome
  <2> QED
    BY <2>1, <2>2, <2>3
<1>18. ASSUME NEW t \in Tids, WakeJoiner(t), ~Die PROVE Rest'
  BY <1>18 DEF WakeJoiner, OnStack, Goto, Accounted, WakeStillToCome
<1>19. ASSUME NEW t \in Tids, Leave(t), ~Die PROVE Rest'
  BY <1>19 DEF Leave, OnStack, Goto, Accounted, WakeStillToCome
\* A thread whose flag is not seen yet is the only one of its block: what becomes
\* visible is its own block's flag.
<1>20. ASSUME NEW t \in Tids, StoreSeen(t), ~Die PROVE Rest'
  <2>1. Places'
    BY <1>20 DEF StoreSeen
  <2>2. Owned'
    BY <1>20 DEF StoreSeen, Accounted
  <2>3. Awaited'
    BY <1>20 DEF StoreSeen
  <2>4. Accounted'
    BY <1>20 DEF StoreSeen, Accounted
  <2>5. WakeStillToCome'
    BY <1>20 DEF StoreSeen, WakeStillToCome
  <2> QED
    BY <2>1, <2>2, <2>3, <2>4, <2>5
<1>21. ASSUME NEW t \in Tids, Exit(t), ~Die PROVE Rest'
  BY <1>21 DEF Exit, OnStack, Goto, Accounted, WakeStillToCome
<1>22. CASE Die /\ UNCHANGED madeFor
  BY <1>22, DieInv
<1>23. CASE UNCHANGED vars
  BY <1>23 DEF vars, Accounted, WakeStillToCome
<1>24. ASSUME NEW t \in Tids, ThreadRun(t) PROVE Rest'
  <2>1. Die => UNCHANGED madeFor
    BY <1>24 DEF ThreadRun, Routine, SetValue, SetExited, WakeJoiner, Leave, StoreSeen, Exit
  <2> QED
    BY <1>15, <1>16, <1>17, <1>18, <1>19, <1>20, <1>21, <1>22, <1>24, <2>1 DEF ThreadRun
<1> QED
  BY <1>1, <1>2, <1>3, <1>4, <1>5, <1>6, <1>7, <1>8, <1>9, <1>10, <1>11, <1>12, <1>13, <1>14,
     <1>23, <1>24 DEF Next, Create, JoinRun, Dead

\* The invariant holds in every state that is reached.
THEOREM InvHolds == SafeSpec => []IInv
<1>1. IInv /\ [Next]_vars => IInv'
  BY NextInv, NextTypeOK DEF IInv, Rest
<1> QED
  BY <1>1, InitInv, PTL DEF SafeSpec

-----------------------------------------------------------------------------
(* What it implies *)

\* Every variable of pthread_create and pthread_join keeps its type.
THEOREM TypeCorrect == SafeSpec => []TypeOK
<1> QED
  BY InvHolds, PTL DEF IInv

\* pthread_join reads and frees only what a thread that has left its routine has
\* finished with, for any number of threads, blocks and stacks.
THEOREM JoinWaits == SafeSpec => []JoinWaitsForRoutine
<1>1. IInv => JoinWaitsForRoutine
  BY PthreadAssumption DEF IInv, Rest, TypeOK, Places, Owned, Awaited, Unannounced, JoinWaitsForRoutine, JoinSteps
<1> QED
  BY <1>1, InvHolds, PTL

\* pthread_create and pthread_join leave nothing allocated or mapped but what the
\* threads created and not joined use, on every path.
THEOREM NoLeaks == SafeSpec => []NothingLeaks
<1>1. IInv => NothingLeaks
  BY DEF IInv, Rest, Accounted, NothingLeaks, CreateSteps
<1> QED
  BY <1>1, InvHolds, PTL

\* A thread's block and stack are its own until it has stored its exit flag.
THEOREM MemoryKept == SafeSpec => []RunningThreadKeepsMemory
<1>1. IInv => RunningThreadKeepsMemory
  <2> SUFFICES ASSUME IInv, NEW t \in Tids, pc[t] \in {"start", "set_value", "set_exited"}
               PROVE  /\ block[t] \in mallocked /\ madeFor[block[t]] = t
                      /\ stack[t] = args[block[t]].stack
                      /\ stack[t] # None => stack[t] \in mapped
    BY DEF RunningThreadKeepsMemory
  <2>1. block[t] \in handles /\ madeFor[block[t]] = t /\ stack[t] = args[block[t]].stack
    BY DEF IInv, Rest, Owned, Unannounced
  <2>2. mpc # "dead"
    BY DEF IInv, Rest, Places
  <2> QED
    BY <2>1, <2>2 DEF IInv, Rest, Accounted
<1> QED
  BY <1>1, InvHolds, PTL

\* Whenever main sleeps in pthread_join, the thread it waits for has its FUTEX_WAKE
\* still to come.
THEOREM NoLostWakeup == SafeSpec => []WakeStillToCome
<1> QED
  BY InvHolds, PTL DEF IInv, Rest
=============================================================================
