------------------------------ MODULE Pthread -------------------------------
(***************************************************************************)
(* pthread_create and pthread_join of mini_libc/src/pthread.c over clone.c *)
(* and a futex: the creating thread ("main") makes threads and joins them  *)
(* in any order, any number of times, over memory that is used again.      *)
(*                                                                         *)
(* A thread's return value and its has_exited flag are written with plain  *)
(* stores (pthread.c:69, 72).  AArch64 orders neither them nor the two     *)
(* loads of the joiner, so a store is first in unseen[t] and becomes       *)
(* visible at any later time, in any order; a system call is entered with  *)
(* nothing unseen, because the futex code of the kernel starts with a      *)
(* full barrier.                                                           *)
(***************************************************************************)
EXTENDS Naturals

CONSTANTS
    Tids,           \* the kernel's ids for the threads alive at one time
    Blocks,         \* addresses malloc returns for a struct thread_start_args
    Stacks,         \* addresses mmap returns for a thread's stack
    Values,         \* what a start routine returns
    None,           \* no thread, no block, no mapped stack
    MmapMayFail     \* whether the kernel may refuse the mmap of a stack

ASSUME PthreadAssumption ==
    /\ None \notin Tids \cup Blocks \cup Stacks
    /\ MmapMayFail \in BOOLEAN

VARIABLES
    mpc,            \* main's next step
    mblock,         \* main's local start_args
    mstack,         \* main's local stack
    retval,         \* what main's last join has stored through retval
    handles,        \* the pthread_t values created and not joined yet
    args,           \* the memory of each block
    mallocked,      \* the blocks that are allocated
    mapped,         \* the stacks that are mapped
    pc,             \* pc[t]: thread t's next step
    block,          \* block[t]: the start_args t was started with
    stack,          \* stack[t]: the stack t runs on; None: not mapped, or not any more
    unseen,         \* unseen[t]: stores of t that no other thread can see yet
    result,         \* history: result[t] is what t's routine has returned
    madeFor         \* history: madeFor[b] is the thread b was last initialised for

mainVars == <<mpc, mblock, mstack, retval, handles>>
memory == <<args, mallocked, mapped>>
threadVars == <<pc, block, stack, unseen, result>>
vars == <<mainVars, memory, threadVars, madeFor>>

CreateSteps == {"malloc", "init", "clone"}
JoinSteps == {"test", "wait", "asleep", "read", "free", "unmap"}
ThreadSteps == {"start", "set_value", "set_exited", "wake", "leave", "exit"}

Args == [stack : Stacks \cup {None}, has_exited : {0, 1}, return_value : Values]

TypeOK ==
    /\ mpc \in {"idle", "dead"} \cup CreateSteps \cup JoinSteps
    /\ mblock \in Blocks \cup {None}
    /\ mstack \in Stacks \cup {None}
    /\ retval \in Values
    /\ handles \subseteq Blocks
    /\ args \in [Blocks -> Args]
    /\ mallocked \subseteq Blocks
    /\ mapped \subseteq Stacks
    /\ pc \in [Tids -> {"none", "dead"} \cup ThreadSteps]
    /\ block \in [Tids -> Blocks \cup {None}]
    /\ stack \in [Tids -> Stacks \cup {None}]
    /\ unseen \in [Tids -> SUBSET {"return_value", "has_exited"}]
    /\ result \in [Tids -> Values]
    /\ madeFor \in [Blocks -> Tids \cup {None}]

\* What malloc returns is not cleared: a block starts with any content.
Init ==
    /\ mpc = "idle" /\ mblock = None /\ mstack = None /\ retval \in Values
    /\ handles = {}
    /\ args \in [Blocks -> [stack : {None}, has_exited : {0, 1}, return_value : Values]]
    /\ mallocked = {} /\ mapped = {}
    /\ pc = [t \in Tids |-> "none"]
    /\ block = [t \in Tids |-> None]
    /\ stack = [t \in Tids |-> None]
    /\ unseen = [t \in Tids |-> {}]
    /\ result = [t \in Tids |-> retval]
    /\ madeFor = [b \in Blocks |-> None]

-----------------------------------------------------------------------------
(* pthread_create, by main *)

\* mmap(NULL, STACK_SIZE, ...)
MapStack ==
    /\ mpc = "idle"
    /\ mpc' = "malloc"
    /\ \E s \in Stacks \ mapped : mstack' = s /\ mapped' = mapped \cup {s}
    /\ UNCHANGED <<mblock, retval, handles, args, mallocked, threadVars, madeFor>>

\* The kernel's -ENOMEM is not the -1 of MAP_FAILED (mini_lib.h:66), so the test
\* of pthread.c:95 passes it and create goes on with it as the stack.
MapStackFails ==
    /\ MmapMayFail
    /\ mpc = "idle"
    /\ mpc' = "malloc"
    /\ mstack' = None
    /\ UNCHANGED <<mblock, retval, handles, memory, threadVars, madeFor>>

\* malloc(sizeof(struct thread_start_args))
AllocArgs ==
    /\ mpc = "malloc"
    /\ mpc' = "init"
    /\ \E b \in Blocks \ mallocked : mblock' = b /\ mallocked' = mallocked \cup {b}
    /\ UNCHANGED <<mstack, retval, handles, args, mapped, threadVars, madeFor>>

\* The bug of not testing what malloc returned.
AllocArgsUntested ==
    /\ mpc = "malloc"
    /\ mpc' = "clone"
    /\ mblock' = None
    /\ UNCHANGED <<mstack, retval, handles, memory, threadVars, madeFor>>

\* malloc returns NULL: munmap(stack); return -1
AllocArgsFails ==
    /\ mpc = "malloc"
    /\ mpc' = "idle"
    /\ mapped' = mapped \ {mstack}
    /\ mstack' = None
    /\ UNCHANGED <<mblock, retval, handles, args, mallocked, threadVars, madeFor>>

\* The bug of trusting malloc to have cleared has_exited.
InitArgsPartly ==
    /\ mpc = "init"
    /\ mpc' = "clone"
    /\ args' = [args EXCEPT ![mblock].stack = mstack]
    /\ UNCHANGED <<mblock, mstack, retval, handles, mallocked, mapped, threadVars, madeFor>>

\* start_args->stack = stack; start_args->has_exited = 0.  return_value is not set.
InitArgs ==
    /\ mpc = "init"
    /\ mpc' = "clone"
    /\ args' = [args EXCEPT ![mblock].stack = mstack, ![mblock].has_exited = 0]
    /\ UNCHANGED <<mblock, mstack, retval, handles, mallocked, mapped, threadVars, madeFor>>

\* clone(pthread_start, stack_top, ...); *thread = start_args; return 0
Clone ==
    /\ mpc = "clone"
    /\ mpc' = "idle"
    /\ \E t \in Tids :
        /\ pc[t] = "none"
        /\ pc' = [pc EXCEPT ![t] = "start"]
        /\ block' = [block EXCEPT ![t] = mblock]
        /\ stack' = [stack EXCEPT ![t] = mstack]
        /\ madeFor' = [madeFor EXCEPT ![mblock] = t]
    /\ handles' = handles \cup {mblock}
    /\ mblock' = None /\ mstack' = None
    /\ UNCHANGED <<retval, memory, unseen, result>>

\* The bug of an error path that gives back one of two resources.
CloneFailsLeaking ==
    /\ mpc = "clone"
    /\ mpc' = "idle"
    /\ mallocked' = mallocked \ {mblock}
    /\ mblock' = None /\ mstack' = None
    /\ UNCHANGED <<retval, handles, args, mapped, threadVars, madeFor>>

\* clone returns an error: free(start_args); munmap(stack); return -1
CloneFails ==
    /\ mpc = "clone"
    /\ mpc' = "idle"
    /\ mallocked' = mallocked \ {mblock}
    /\ mapped' = mapped \ {mstack}
    /\ mblock' = None /\ mstack' = None
    /\ UNCHANGED <<retval, handles, args, threadVars, madeFor>>

-----------------------------------------------------------------------------
(* The thread: pthread_start, and the clone() it returns into *)

\* The process dies of an access to unmapped memory.
Die ==
    /\ mpc' = "dead"
    /\ pc' = [t \in Tids |-> "dead"]
    /\ unseen' = [t \in Tids |-> {}]
    /\ UNCHANGED <<mblock, mstack, retval, handles, memory, block, stack, result>>

\* pthread_start and the functions it calls keep their frames on the stack: a
\* step of a thread whose stack is not mapped is the end of the process.
OnStack(t, step) ==
    \/ stack[t] # None /\ step
    \/ stack[t] = None /\ Die

Goto(t, from, to) == pc[t] = from /\ pc' = [pc EXCEPT ![t] = to]

\* start_routine(arg) returns v
Routine(t) ==
    /\ pc[t] = "start"
    /\ OnStack(t,
        /\ Goto(t, "start", "set_value")
        /\ \E v \in Values : result' = [result EXCEPT ![t] = v]
        /\ UNCHANGED <<mainVars, memory, block, stack, unseen>>)
    /\ UNCHANGED madeFor

\* start_args->return_value = ...
SetValue(t) ==
    /\ pc[t] = "set_value"
    /\ OnStack(t,
        /\ Goto(t, "set_value", "set_exited")
        /\ unseen' = [unseen EXCEPT ![t] = @ \cup {"return_value"}]
        /\ UNCHANGED <<mainVars, memory, block, stack, result>>)
    /\ UNCHANGED madeFor

\* start_args->has_exited = 1
SetExited(t) ==
    /\ pc[t] = "set_exited"
    /\ OnStack(t,
        /\ Goto(t, "set_exited", "wake")
        /\ unseen' = [unseen EXCEPT ![t] = @ \cup {"has_exited"}]
        /\ UNCHANGED <<mainVars, memory, block, stack, result>>)
    /\ UNCHANGED madeFor

\* One of the thread's stores becomes visible.
StoreSeen(t) ==
    /\ \E field \in unseen[t] :
        /\ unseen' = [unseen EXCEPT ![t] = @ \ {field}]
        /\ args' = IF field = "has_exited"
                   THEN [args EXCEPT ![block[t]].has_exited = 1]
                   ELSE [args EXCEPT ![block[t]].return_value = result[t]]
    /\ UNCHANGED <<mainVars, mallocked, mapped, pc, block, stack, result, madeFor>>

\* The bug of a thread that does not wake its joiner.
WakeForgotten(t) ==
    /\ pc[t] = "wake" /\ unseen[t] = {}
    /\ OnStack(t,
        /\ Goto(t, "wake", "leave")
        /\ UNCHANGED <<mainVars, memory, block, stack, unseen, result>>)
    /\ UNCHANGED madeFor

\* futex(&start_args->has_exited, FUTEX_WAKE, 1): main wakes if it sleeps on
\* that address, whichever thread it waits for there.
WakeJoiner(t) ==
    /\ pc[t] = "wake" /\ unseen[t] = {}
    /\ OnStack(t,
        /\ Goto(t, "wake", "leave")
        /\ mpc' = IF mpc = "asleep" /\ mblock = block[t] THEN "test" ELSE mpc
        /\ UNCHANGED <<mblock, mstack, retval, handles, memory, block, stack, unseen, result>>)
    /\ UNCHANGED madeFor

\* pthread_start returns into clone(), off frames on the stack
Leave(t) ==
    /\ pc[t] = "leave"
    /\ OnStack(t,
        /\ Goto(t, "leave", "exit")
        /\ UNCHANGED <<mainVars, memory, block, stack, unseen, result>>)
    /\ UNCHANGED madeFor

\* svc exit, which touches no stack.  The kernel then clears start_args->tid
\* (CLONE_CHILD_CLEARTID), a field nothing reads, and the tid is free again.
Exit(t) ==
    /\ Goto(t, "exit", "none")
    /\ block' = [block EXCEPT ![t] = None]
    /\ stack' = [stack EXCEPT ![t] = None]
    /\ UNCHANGED <<mainVars, memory, unseen, result, madeFor>>

-----------------------------------------------------------------------------
(* pthread_join, by main *)

\* pthread_join(thread, &retval) of a thread created and not joined
Join ==
    /\ mpc = "idle"
    /\ mpc' = "test"
    /\ mblock' \in handles
    /\ UNCHANGED <<mstack, retval, handles, memory, threadVars, madeFor>>

\* while (!start_args->has_exited)
JoinTest ==
    /\ mpc = "test"
    /\ mpc' = IF args[mblock].has_exited = 0 THEN "wait" ELSE "read"
    /\ UNCHANGED <<mblock, mstack, retval, handles, memory, threadVars, madeFor>>

\* The bug of a FUTEX_WAIT whose expected value is whatever the flag holds by then.
JoinWaitBlind ==
    /\ mpc = "wait"
    /\ mpc' = "asleep"
    /\ UNCHANGED <<mblock, mstack, retval, handles, memory, threadVars, madeFor>>

\* FUTEX_WAIT with expected value 0; any return goes back to the test
JoinWait ==
    /\ mpc = "wait"
    /\ mpc' = IF args[mblock].has_exited = 0 THEN "asleep" ELSE "test"
    /\ UNCHANGED <<mblock, mstack, retval, handles, memory, threadVars, madeFor>>

\* The bug of an `if` in place of the `while`.
JoinTrustsWake ==
    /\ mpc = "asleep"
    /\ mpc' = "read"
    /\ UNCHANGED <<mblock, mstack, retval, handles, memory, threadVars, madeFor>>

\* A signal ends the FUTEX_WAIT with -EINTR.
JoinInterrupted ==
    /\ mpc = "asleep"
    /\ mpc' = "test"
    /\ UNCHANGED <<mblock, mstack, retval, handles, memory, threadVars, madeFor>>

\* *retval = start_args->return_value; stack = start_args->stack
JoinRead ==
    /\ mpc = "read"
    /\ mpc' = "free"
    /\ retval' = args[mblock].return_value
    /\ mstack' = args[mblock].stack
    /\ UNCHANGED <<mblock, handles, memory, threadVars, madeFor>>

\* free(start_args)
JoinFree ==
    /\ mpc = "free"
    /\ mpc' = "unmap"
    /\ mallocked' = mallocked \ {mblock}
    /\ handles' = handles \ {mblock}
    /\ mblock' = None
    /\ UNCHANGED <<mstack, retval, args, mapped, threadVars, madeFor>>

\* munmap(stack, STACK_SIZE); return 0.  Whoever runs on that stack loses it, for
\* good: a later mapping at the same address is another thread's.
JoinUnmap ==
    /\ mpc = "unmap"
    /\ mpc' = "idle"
    /\ mapped' = mapped \ {mstack}
    /\ stack' = [t \in Tids |-> IF stack[t] = mstack THEN None ELSE stack[t]]
    /\ mstack' = None
    /\ UNCHANGED <<mblock, retval, handles, args, mallocked, pc, block, unseen, result, madeFor>>

-----------------------------------------------------------------------------
Create == MapStack \/ MapStackFails \/ AllocArgs \/ AllocArgsFails \/ InitArgs \/ Clone \/ CloneFails

JoinRun == JoinTest \/ JoinWait \/ JoinRead \/ JoinFree \/ JoinUnmap

ThreadRun(t) ==
    \/ Routine(t) \/ SetValue(t) \/ SetExited(t) \/ StoreSeen(t)
    \/ WakeJoiner(t) \/ Leave(t) \/ Exit(t)

\* A process that has died takes no step.
Dead == mpc = "dead" /\ UNCHANGED vars

Next ==
    \/ Create \/ Join \/ JoinInterrupted \/ JoinRun
    \/ \E t \in Tids : ThreadRun(t)
    \/ Dead

SafeSpec == Init /\ [][Next]_vars

\* The scheduler lets main and the threads run, start routines return, and
\* stores become visible.
Fairness ==
    /\ WF_vars(JoinRun)
    /\ \A t \in Tids : WF_vars(ThreadRun(t))

Spec == SafeSpec /\ Fairness

-----------------------------------------------------------------------------
(* Properties *)

\* pthread_join gets past its loop only when the routine of the very thread it
\* joins has returned, however often blocks and thread ids were used before.
JoinWaitsForRoutine ==
    mpc \in {"read", "free"} =>
        /\ madeFor[mblock] # None
        /\ block[madeFor[mblock]] = mblock => pc[madeFor[mblock]] \notin {"start", "set_value", "set_exited"}

\* Between calls exactly the memory of the threads created and not joined is
\* allocated: every error path of create gives back both resources, and join both.
NothingLeaks ==
    mpc = "idle" =>
        /\ mallocked = handles
        /\ mapped = {args[b].stack : b \in handles} \ {None}

\* Until a thread has stored its exit flag, its block is its own, and its stack
\* too if there ever was one.
RunningThreadKeepsMemory ==
    \A t \in Tids : pc[t] \in {"start", "set_value", "set_exited"} =>
        /\ block[t] \in mallocked /\ madeFor[block[t]] = t
        /\ stack[t] = args[block[t]].stack
        /\ stack[t] # None => stack[t] \in mapped

\* Main sleeps in join only while the FUTEX_WAKE that ends its sleep is still to come.
WakeStillToCome ==
    mpc = "asleep" =>
        LET t == madeFor[mblock] IN
        block[t] = mblock /\ pc[t] \in {"start", "set_value", "set_exited", "wake"}

\* Every join returns, unless the process dies.
JoinReturns == (mpc \in JoinSteps) ~> mpc \in {"idle", "dead"}

\* The stack is not unmapped under a thread that still runs ("wait for the
\* thread to exit", pthread.c:155).
StackOutlivesThread == \A t \in Tids : pc[t] \in ThreadSteps => stack[t] # None

\* retval is what the thread's routine returned (pthread.c:142).
JoinReturnsValue ==
    mpc = "free" =>
        LET t == madeFor[mblock] IN block[t] = mblock => retval = result[t]
=============================================================================
