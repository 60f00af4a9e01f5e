# Verification of multi_experiments

The repository is a set of systems-programming experiments for AArch64 Linux. Its parts with logic
that tests hardly reach are a futex mutex, threads over `clone`, a buddy allocator, string functions
and a logger (all in `src/mini_libc`), a dynamic linker with a runtime of its own
(`src/dynamic_linker`) and a bare-metal kernel that turns its MMU on (`src/mmu`). Each has a TLA+
module here, checked with TLC; the mutex and the threads are also composed, in the repository's own
test of them. With TLAPS it is proved for every value of the constants that the mutex is a lock, that the
threads and the test of both are safe, that the allocator is a heap for callers that free newest first,
what the linker holds, writes, binds, calls and starts, what the conversions, copies, lookups and bounded
prints of both runtimes give, and that the kernel's mapping is exact.

Run a check with `tlc -config <cfg> <module>` and the proofs with `tlapm <X>Proofs.tla`.
`PROJECT.json` lists the runs, the source lines of every definition, the findings, the hazards and
the theorems.

## 1. The system

### Components

| component | state | operations | interacts with | what is hard |
|---|---|---|---|---|
| mutex (`lock.c`) | `lock` word, `owner`, kernel futex queue | `pthread_mutex_init/lock/unlock` | shared by threads; futex | interleavings, a wakeup lost between test and sleep, `owner` read outside the lock, signals |
| threads (`pthread.c`, `clone.c`) | `thread_start_args` blocks, stacks | `pthread_create/join`, `pthread_start` | malloc/free, mmap/munmap, clone, futex | memory given back while used, plain stores seen out of order, reused blocks and ids, error paths |
| allocator (`malloc.c`, its copy in `dl_runtime.c`) | block headers, `free_lists`, pool bounds | `malloc`, `free`, `expand_memory_pool` | mmap; used by the threads and by the linker | stale headers, address order in merges, list membership, pool edges |
| dynamic linker (`dynamic_linker.c`) | `g_auxv_*`, `g_loaded_libraries`, mapped images, their words | `parse_stack`, `bootstrap_self`, `load_shared_library`, `process_relocation`, the executable's slots, initialisers, start | the kernel's stack, open/mmap/close, the allocator | ten error exits, two passes over the GOT, address translation of three kinds of images, symbol search order |
| MMU kernel (`boot.S`, `main.c`, `link.ld`) | five page tables, MAIR/TTBR0/VBAR/SCTLR, TLB, exception frame | `_start`, `build_page_table`, `enable_mmu`, `sync_exception_el1h`, `main` | the processor | uncleared memory, stale TLB, literals that have to agree, an exception inside the handler |
| mutex test (`test_mutex` of `test_mini_lib.c`) | a mutex in its stack frame, handles | `mutex_worker`, create, join | mutex and threads at once | when the last worker is done with the mutex; joins against sleeps |
| strings and formatting (`string.c`, `printf.c`, the same in `dl_runtime.c`) | none | `itoa`, `memcpy`, `strncmp`, `vsnprintf`, `printf`, `get_env` ... | everything | numeric edges, overlap, buffer ends |
| logger (`logger.c`) | `current_log_level` | `log_output`, `set_log_level` | `vsnprintf`, write | room behind the header, refusals |
| system call wrappers (`brk.c`, `mmap.c`, `fork.c`, files, `socket.c`), entries | a break pointer, `mini_errno` | one system call each | kernel | the kernel's error codes against -1 |
| ELF analyser, object patterns, section and assembly samples | an intrusive list in `observe_mode.c` | printing, dispatch, `list_add`/`list_del` | nothing | list surgery |

### What makes them correct

* Mutex: one holder; the owner record matches it whenever it decides something; no wakeup is lost;
  a free lock that is wanted is taken. In one sentence: it behaves as `AbstractLock`.
* Threads: join returns only after the routine has, with its value; it returns at all; a thread's
  block and stack live as long as the thread; nothing leaks on any path.
* Both together: once the last join has returned nobody touches the mutex; the test ends.
* Allocator: no unit of memory has two holders; the lists hold free blocks, each once; blocks tile
  the pools; everything merges back, so that a request is refused only when nothing fits. In one
  sentence: it behaves as `AbstractHeap`.
* Linker: the library list only holds live libraries; a failed load undoes exactly what was done;
  relocation writes only to its own image; a bound slot holds a definition of its symbol;
  initialisers run once, in their library; a loaded executable is started.
* Strings: what is printed reads back; copies are exact; a lookup finds that name and no other; a
  text, a log line or a piece of one comes out whole or not at all, inside its buffer.
* Kernel: kernel and UART map to themselves with the right attributes, nothing else is mapped; the
  one exception is survived with every register intact.

## 2. The modules

| module | models | instance |
|---|---|---|
| `AbstractLock` | what the mutex promises, without spins, futexes or the word | refined by `Mutex` |
| `Mutex` | `lock.c`, one action per atomic step, with `futex` | `MCMutex.cfg` |
| `MutexProofs` | the proofs about `Mutex` | |
| `Pthread` | `pthread.c` over `clone.c`, malloc and mmap being atomic calls that may fail | `MCPthread`, three cfgs |
| `PthreadProofs` | the proofs about `Pthread` | |
| `MutexWorkers` | `test_mutex`: `Mutex` and `Pthread` composed | `MCMutexWorkers.cfg` |
| `MutexWorkersProofs` | the proofs about the composition | |
| `AbstractHeap` | what the allocator promises: disjoint blocks | refined by `BuddyMalloc` |
| `BuddyMalloc` | `malloc.c` | three cfgs |
| `BuddyMallocProofs` | the proofs about `BuddyMalloc` and the abstract heap | |
| `Strings` | `string.c`, and those of `dl_runtime.c`, as operators | through `Formatting` |
| `Formatting` | `printf.c`, `logger.c`, and the printing of `dl_runtime.c` | `MCFormatting` |
| `FormattingProofs` | the proofs about `Strings` and `Formatting` | |
| `DynLinker` | `dynamic_linker.c` | `MCDynLinker`, two cfgs |
| `DynLinkerProofs` | the proofs about `DynLinker` | |
| `Mmu` | `boot.S`, `main.c` and `link.ld` | `MCMmu` |
| `MmuProofs` | the proofs about `Mmu` | |
| `Iteration` | lemmas about loops, folds, recursive functions and induction, for the proofs | |

**Mutex.** `lock`, `owner` and `spin` are the code's; `sleepers` is the kernel's queue; `held` is a
history variable: the threads between a `lock()` that returned 0 and the store of 0. Every shared
access is a step of its own: `LockCheck` (the reentrancy test), `Cas`, `SetOwner`, `Spin`,
`WaitSleeps`/`WaitAgain`/`WaitInterrupted`/`WaitFails` (the outcomes of `FUTEX_WAIT`), `UnlockCheck`,
`ClearOwner`, `Store`, `Wake`. Callers make any call at any time, wrong ones too.

**Pthread.** `main` creates and joins in any order over a few blocks, stacks and thread ids, all of
which are used again. Left out are a NULL handle, which
join refuses (`MutexWorkers` has it), and a NULL `retval`. A thread's two plain stores go through `unseen` and become visible in any
order, as AArch64 allows; a system call drains them. `mmap` may fail, which the code does not notice
(below); a thread without a stack then ends the process (`mpc = "dead"`).

**MutexWorkers.** The mutex is `M == INSTANCE Mutex`, the threads `P == INSTANCE Pthread`, and the
variables are those of both; a step of the test is a step of one of them or of its own. A worker is a
thread of `Pthread` whose start routine makes calls of `Mutex`, so it is in the place `"start"` of
`Pthread` while `place` says where in `mutex_worker` it is. `main` ignores the results of create and
join, as the test does: a failed create leaves an unset handle. Joining that returns if it happens to be
NULL, sleeps for ever if it leads to a 0 (`step = "stuck"`), and otherwise reads, frees and unmaps what
is no thread's, which counts as the death of the process (`mpc = "dead"`). A worker whose stack could not
be mapped dies as it starts (`WorkerDies`). `WorkersAssumption` keeps the ids apart.

**BuddyMalloc.** The linked structure of the code, stale `next` and `buddy` fields included, because
`merge_blocks` reads them. Addresses count minimal blocks; the block of an order is twice that of the
order before (`BlockSize`), as `get_order` doubles it. A call is one action: the allocator takes
no lock, and the repository's programs allocate from one thread. `mmap` of a pool does not fail and
sizes do not overflow. `Spec` are callers within the first pool, `GrowingSpec` others. `live` is what
callers hold, and at once the variable of `AbstractHeap`, which `ImplementsHeap` refines.

**Strings, Formatting.** A C string is the sequence of its bytes, an integer has `LongBits` or
`IntBits` bits, and truncation, negation and two's complement are what they are at that width. Loops
over bytes are recursive functions or folds. A format is given as pieces, literal text or a directive
with its argument; the modelled `vsprintf` reads the bytes those pieces make, round by round (`Round` is
one turn of its loop), and the property compares with the pieces. `FormattingAssumption` and
`PiecesAssumption` say what the inputs are: strings hold no NUL, memory is a range of addresses, literal
text holds no `%` and ends on a whole UTF-8 character, since a turn of the loop takes one. Two versions exist of most functions: `itoa` and `dl_itoa`, `memcpy` and `dl_memcpy`,
`vsnprintf` and `dl_vsnprintf`. A run makes one call after the other, and the only state between calls
is the logger's level. Left out: `%c` and unknown directives of the linker's printf, which nothing uses;
NULL for the format of `log_output` (`logger.c:43`) or an argument of `get_env` (`dl_runtime.c:251`); the
branch of `logger.c:82-86`, which no length reaches; and stores past a
buffer, which end a case (`Overflow`, `Smashed`).

**DynLinker.** A file is what the linker reads of it: its PT_LOAD segments, its symbol table, its two
relocation tables, its initialisers, and its words that are not zero. Addresses count words. The
module follows `main`: `Parse`, `Bootstrap`, then for each DT_NEEDED entry the steps of
`load_shared_library`, each with its error exit, then `RelocateExec`, `CallInit`, `Start`. `mem` is
what has been written. The size of a table entry comes from `DT_RELAENT`, which a file has only with a
`.rela.dyn`: without one both passes over the GOT are skipped (`HasRelaEnt`), whatever `.rela.plt` holds.
A reservation that fails is not noticed, since the kernel's `-ENOMEM` is not `MAP_FAILED`; the first
mapping at that address is (`MapNowhereFails`). `LinkerAssumption` says where images may lie (mmap and the kernel put them
apart), `FileAssumption` what a well-formed file is: segments ascend, and what the file defines,
relocates or names as `DT_INIT` lies in them. Left out: malformed files, and with them the error exits of `dynamic_linker.c:1269-1276`, `1292-1296` and
`1457-1461` and the tests that leave a loop at an entry outside the image; page rounding of `total_size`; the 1000 (2000, 5000)
entries a symbol table is taken to have: a table of the model ends where it ends.

**Mmu.** The literal addresses and descriptors of the code; an address is a page number. The tables
are built by stores into memory that holds garbage, and the processor's walk decodes them, so
a wrong literal, index or count shows. Instruction fetches are not modelled as steps: they need the
kernel's pages mapped, which `MappingIsExact` says of every state with the MMU on. Caches are left out,
as are `disable_mmu`, which nothing calls, and interrupts, which nothing enables.

## 3. The runs

| run | question | bounds | states |
|---|---|---|---|
| `mutex` | is the mutex a lock, and does it make progress? | 3 threads, spin limit 1 | 13 453 |
| `pthread` | does join wait, return and give back what it should? | 2 thread ids, 2 blocks, 2 stacks | 247 140 |
| `pthread_unmap` | is the stack kept until the thread is done with it? **no** | the same, 2 values | |
| `pthread_value` | is `retval` what the routine returned? **no** | the same | |
| `workers` | does the mutex test end, with nobody left in the mutex? | main and 2 workers, spin limit 0, any call failing | 436 584 |
| `malloc_lifo` | is the allocator a heap for callers that free newest first? | 8 units, sizes 1, 2, 3 and 5 | 2 609 |
| `malloc_any_order` | and for others? **no** | the same | |
| `malloc_expand` | and with a second pool? **no** | 8 + 16 units | |
| `formatting` | do conversions, copies, lookups and bounded printing do what they stand for? | 6-bit longs, 5-bit ints, buffers of 24 and 8 bytes, formats of up to 4 pieces | 45 003 |
| `dynlink` | do loading, relocation and the start hold together, whatever fails? | 2 libraries of 41 and 6 kinds, 16 executables, 6 linkers, 2 stacks | 2 286 864 |
| `dynlink_imports` | is a slot bound to a definition? **no** | the same, without the last kinds | |
| `mmu` | is the mapping right from any memory and TLB contents? | the real sizes; 3 garbage words, 3 TLBs | 4 755 |

Why the bounds are enough. *Mutex*: with three threads there is a holder, a sleeper and a third that
overtakes; the spin limit only says how often the loop is repeated before it sleeps; the proofs cover
the rest. *Pthread*: two blocks and stacks give reuse by another thread while the first still runs,
and thread ids return to the pool. *BuddyMalloc*: 8 units give four orders and merges of three
levels. *DynLinker*: two libraries give both search orders, a later library that imports what an
earlier defines, and a failure with something on the list; the libraries reach beyond the window in
which `process_relocation` writes, and executables and linkers start at link-time address 0 or
elsewhere; executables need no, one or both libraries; a library of either kind and a linker come without a
`.rela.dyn`, and a library with its table of slots beyond the window. *MutexWorkers*: two workers and main are a holder, a sleeper and a joiner; the spin limit 0
sends whoever loses to sleep, which is where a lost wakeup would show; failing creates, threads without
a stack and joins of unset handles are among the steps. *Formatting*: every number of the width is tried with every radix at
and beyond both bounds, every pair of areas in six addresses is copied, and buffers are small enough for
texts to end one byte before, at and behind every end. *Mmu*: sizes are those of the code, one boot is all there is.

No run uses symmetry with a liveness property; the two violation runs of `Pthread` use it, which is
sound there because nothing tells the permuted values apart.

### Fairness

* Mutex: `WF` of each thread's own steps: the scheduler runs every runnable thread. Nothing is assumed
  of callers, signals or the winner of a compare-and-swap, so a single thread may starve, and the
  promise is that *some* thread takes a free lock (`AbstractLock!Fairness`).
* Pthread: `WF` of join's steps and of each thread's: runnable threads run, routines return, stores
  become visible in the end. Signals and failures need not happen.
* MutexWorkers: `WF` of main's own steps and of each worker's, in a call of the mutex or out of it:
  the scheduler again. Which sleeper is woken, who wins the word, signals and failures are free. That
  every worker gets its turn follows because each locks once: whoever overtakes is done afterwards. A
  main that sleeps in a join of an unset handle sleeps for ever, which no scheduler can change, and
  `TestFinishes` excuses it.
* Mmu: `WF` of `Next`: the processor goes on.
* The others have no liveness: they are sequential, and what they promise is checked as invariants.

### Findings

Each is shown by the run named, or, without one, by reading.

* `pthread_unmap`: join unmaps the stack of a thread that still returns over it (`pthread.c:169`).
* `pthread_value`: no barrier between `return_value` and `has_exited` (`pthread.c:72`).
* `malloc_any_order`: a merge with the left buddy takes the wrong block off the list (`malloc.c:235`).
* `malloc_expand`: a new pool's block is listed twice (`malloc.c:141`).
* `dynlink_imports`: an undefined symbol entry passes for a definition at the base address (`dynamic_linker.c:198`).
* A library whose only relocations are those of `.rela.plt` is left unbound (`dynamic_linker.c:1170`),
  and the linker itself would be (line 771); `HasRelaEnt` is where the model says so.
* Entries of `.init_array` are relocated twice, so a call through one goes outside every image
  (`dynamic_linker.c:1576`); `AT_ENTRY` is absolute but translated as a link-time address, so a
  position independent executable that does not export `main` is not started
  (`dynamic_linker.c:1674`). `InitsRunOnce` and `StartsExecutable` name these two cases as exceptions.
* `find_loaded_library` never finds a library (`dynamic_linker.c:833`); the result of `snprintf` for
  the library's path is ignored (`dynamic_linker.c:876`).
* `itoa` of a negative number prints its two's complement behind the sign (`string.c:42`);
  `vsnprintf` overflows its temporary buffer before it looks at the size (`printf.c:160`); `%lx` prints
  an `x` (`printf.c:73`); `%p` of the linker's printf stores two bytes after testing for one
  (`dl_runtime.c:161`); error messages of the logger lack their newlines (`logger.c:45`), and its level
  starts at DEBUG where the comment has INFO (`logger.c:12`).
* A NULL or reentrant `lock()` returns -1 and not the documented codes (`lock.c:174`); the image is
  linked at another address than the comments require (`link.ld:8`).

The properties of the passing runs are worded around these: `malloc_lifo` states what holds for
callers that free newest first; `ExecSlotsBound` speaks of symbols no library imports, and
`LibrarySlotsBound` of those a library defines itself, in files that have a `.rela.dyn`;
`TestFinishes` excuses a main that joins an unset handle; `LogLineWholeOrRefused` takes the level the
logger starts at for what it is; the passing run of `Pthread` states that a
thread keeps its memory until it has announced its exit (`RunningThreadKeepsMemory`);
`NumbersReadBack` leaves signed negative numbers to the linker's `itoa`, and
`TextWholeOrRefused` speaks of texts shorter than the temporary buffer.

## 4. The proofs

`MutexProofs` proves, for every set of threads and every spin limit (`MutexAssumption`: `NoThread` is
no thread, the limit is a natural number):

* `TypeCorrect`, `MutexExcludes`, `OwnerCorrect`, `WordCorrect`, `HolderNeverContends`,
  `WakeupNeverLost`: the six invariants of the run `mutex`;
* `MutexImplementsLock`: every behaviour of `Mutex` is one of `AbstractLock`, with
  `holder <- absHolder` (the thread that has won the compare-and-swap and not stored 0, which is
  before `owner` says so) and `call <- absCall` (the side of that instant a call is on).

`MutualExclusion` is not inductive: it speaks of threads that have returned from `lock()`, and
says nothing of one that has won the word and not yet returned, of whether the word is 1 while
somebody holds, or of an unlocker whose `owner` test would let it store 0 over another's lock. The
invariant `IInv` adds just that: `OneWinner` (at most one thread between winning and storing 0, and
the word is 1 exactly then), `OwnerIsHolder` (so that `unlock`'s test decides right), `PlaceOK` (what
a place in the code says of `held` and `owner`), `QueueOK` (the kernel's queue is the sleeping
threads) and `NoLostWakeup`, which is inductive with the others: a thread sleeps only while the word
is 1, and the holder that stores 0 has `Wake` as its next step. `InitInv` and `NextInv` are the two
facts, with one step per action; the refinement goes action by action from `IInv` before and after.

`PthreadProofs` proves the five invariants of the run `pthread` for any sets of thread ids, blocks,
stacks and values, whether or not mmap fails: `TypeCorrect`, `JoinWaits`, `NoLeaks`, `MemoryKept` and
`NoLostWakeup`, all from `InvHolds`. None of them is inductive alone, since blocks and stacks are used
again: that join waits for the right routine needs that no other thread can set the flag of its block.
`IInv` adds `Places` (what locals hold where), `Owned` (until its exit is visible, a thread's block is a
handle made for it, with the flag 0 and its stack), `Awaited` (the other direction: a handle whose flag
is 0 has such a thread) and `Accounted` (what is allocated and mapped is what handles and the call under
way own, and no two share a stack). `PthreadAssumption` says that `None` is none of these values.

`MutexWorkersProofs` proves `MutexMayGo`: for any set of threads, number of workers and spin limit, once
main is past its joins the mutex in its stack frame is free and nobody is in a call of it, so the frame
may go. A step of the composition is a step of `Mutex` or of `Pthread`, or leaves their variables alone,
so both inductive invariants carry over by their instances and are cited, not proved again. What is added
ties them together: `WorkersOK` (which thread is outside the mutex, in `lock()`, holding it or in
`unlock()` at which place of `mutex_worker`) and that every handle not joined yet is still ahead of main
in `threads[]`.

`BuddyMallocProofs` is about callers that free newest first, within the first pool: its theorems about the allocator assume
`~AnyOrder`, because `malloc_any_order` shows them false otherwise, and `Spec` stays in one pool, because
`malloc_expand` shows the same of a second. The pool's order and place, the sizes and the number of blocks
are any (`BuddyAssumption`).

* `FreeListsSound`, `BlocksTilePool`, `BuddyPointsToBlock`, `NothingLeftUnmerged`: the invariants of the
  run `malloc_lifo`;
* `BuddyImplementsHeap`: every behaviour is one of `AbstractHeap`. There no unit of memory belongs to two
  blocks that callers hold (a lemma: it is what `Alloc` of that module asks for), so none does in the
  allocator either: `NoUnitTwice`.

None of the first four is inductive, since a free merges what an earlier malloc has split, by means of fields that
may be stale by then. Such callers see a stack, so the invariant `IInv` speaks of the past: there are the
free lists as they were before each block that is still held was taken (`History`), and the headers match
the last of them (`Matches`). `History` alone implies that at each of those times the blocks tiled the
pool, each aligned to its size (`Tiling`), and that every free block is the right half of a split; a free
then merges just what was split and is back at the lists of before. `BuddyOK` accounts for the stale
fields: a `buddy` is nothing, the block behind, or the older block this one was split from, so no merge
goes the wrong way. That everything merges back (`FindsRoom`) follows from right halves lying at odd
multiples of their size: a free aligned extent that fits must start on a list.

`DynLinkerProofs` is about any executables, libraries, numbers of DT_NEEDED entries and addresses
(`LinkerAssumption`, and from its second part on `FileAssumption`).

* `NoDanglingLibrary`: no library on the list has lost its node, headers or image.
  `FailedLoadsLeakNothing`: a load that fails at any of its exits leaves nothing open, allocated or
  mapped. Both come from `InvHolds`, which says what is held at each step: `FileOK`, `HeapOK` and
  `MappedOK` are equations for the descriptors, the blocks and the mappings, and `ListOK` says that the
  libraries on the list differ in their entry and their base, which an exit needs in order to free and
  unmap nothing of another.
* `EveryWriteStaysHome`: no relocation or mapping writes a word of another image.
  `SlotsOfLibrariesBound`, `SlotsOfExecutableBound`: the slots hold definitions, under the conditions
  that the findings impose: of files with a `.rela.dyn`, and of symbols no library imports. `ExecutableStarts`: whatever the stack holds, the linker finds what the kernel
  has left on it and starts the executable at its `main`, or at its entry. `TypeCorrect` goes with them.
* `InitialisersRunOnce`: `InitsRunOnce` holds as long as no loaded library has an array of initialisers.

All but the first group comes from `RunInvHolds`. `RunInv` adds to `IInv` where images are and of which files
(`WorldOK`, `PlaceOK`), what was read from the stack (`AuxvOK`), how many libraries there can be by now
(`CountOK`, so that a failure has a reason), which slots are bound by now (`BoundOK`, `ExecOK`), and what
has been called (`CallsOK`: without arrays, the `DT_INIT` functions of the libraries whose turn is over,
each once, which needs that images lie apart). That bound slots stay bound is the point: a library has its slots written twice, and every later library runs
the same loops. Entries have slots of their own and images lie apart, so a loop over a table writes each
of its slots once and nothing else. Loops are recursive functions over the table; that such a function
exists, and induction along it, is proved once, in `Iteration`, for sets instead of predicates.

`MmuProofs` proves, wherever the link script puts the tables and whatever memory and TLB hold at power-on
(`MmuAssumption`), `TypeCorrect`; `MapsExactly`: in every state with the MMU on, kernel and UART are mapped
to themselves with their attributes and no other page is mapped; `TestWordReadsBack`; and
`ExceptionKeepsRegisters`. `MappingIsExact` says nothing before the MMU is on; the invariant follows the
loops of `build_page_table` instead, word by word (`Built`: the content of all five tables after so many
stores). That finished tables map just two regions is arithmetic about the walk (`WalkExact`).

`FormattingProofs` proves the six invariants of the run `formatting` for every width of integers, every
size of the buffers and any inputs (`StringsAssumption`, `FormattingAssumption`, `PiecesAssumption`), so
for formats of any length too: `ItoaIsReadBack`, `MemcpyIsExact`, `LookupIsExact`, `VsnprintfIsWhole`,
`LogLineIsWhole`, `PrintfIsWhole`.
A call is one step and leaves no state but the logger's level, so the invariant (`Inv`: the level is one
of the three, and the six) is preserved because of what the functions return, which are lemmas about
their loops:

* what `itoa` has printed of a number reads back as it, by induction over its digits (`ItoaReads`);
* a copy has moved the bytes its loop has reached and no other, so one that starts at the right end
  reads each before it is overwritten (`MemcpyIs`);
* `strncmp` stops at the first difference or at the count (`StrncmpIs`), and with the `=` in the name
  `get_env` compares whole names (`GetEnvIs`);
* `vsprintf` renders the pieces its format was made of (`FormattedIs`). The induction runs downwards:
  at the byte where piece `k` begins, with the arguments of the pieces from `k` on, what the loop still
  adds is what these pieces render to. One piece is one turn if it is a directive (`PieceIsRendered`), and
  as many as it has characters if it is text (`TextIsCopied`). With that the promises of `vsnprintf` and
  the logger are arithmetic about lengths (`StoreIs`, `LogLineIs`);
* the buffer of the linker's `printf` is the rendering of those pieces that fitted when their turn came
  (`dl_printfIs`), which are all if the whole fits (`AllAreShown`), and leaves room for the NUL (`NulFits`).

Folds and recursive functions over all naturals are brought to loops in `Iteration` (`FoldExists`,
`RecursionExists`), which has the two inductions as well (`InductionDown`, `InductionStrong`).

Only model-checked:

* all liveness (`ImplementsFairLock`, `JoinReturns`, `TestFinishes`, `Finishes`), which is out of the
  prover's reach;
* `InitsRunOnce` of libraries with an array of initialisers: its entries are relocated twice
  (`dynamic_linker.c:1576`) and may then be any address, that of another initialiser too, so that it
  holds only as long as files are as in the run.

## 5. Not modelled

* Wrappers of one system call (files, sockets, fork, `brk`): no logic but the error code. `sbrk` keeps
  the break pointer the kernel returned last; nothing but one test calls it.
* `strlen`, `memset`, `print_all_env`, `sprintf`: a loop or a call with nothing to get wrong beyond
  what `vsprintf` and the copies show.
* The linker's own copy of `malloc`, which is `BuddyMalloc`'s code again.
* The ELF analyser, the injection sample, the section and assembly samples: they print and stop.
* The observer, factory and polymorphism samples: each a `main` with one fixed sequence of calls.
* `dynamic_linker_new.c` and the backup of `dynamic_linker.c`: not built.
* Threads inside `malloc` (`malloc.c:384`) and failing mmaps of a pool (`malloc.c:121`), whose outcome
  in the code is undefined; the kernel's store to `start_args->tid` after the block may be somebody
  else's (`pthread.c:124`); the 1000 symbols a table is taken to have (`dynamic_linker.c:1073`). These
  are the hazards without a property.

## 6. Plan

Done, in this order: `AbstractLock`, `Mutex`, `MutexProofs`, `Pthread`, `BuddyMalloc`, `DynLinker`,
`Mmu`; then `MutexWorkers`, `AbstractHeap`, `Strings`, `Formatting`, `PthreadProofs`, the first part of
`DynLinkerProofs`, the theorem about it; then `MmuProofs`, `MutexWorkersProofs`, `Iteration`, the second
part of `DynLinkerProofs`, `BuddyMallocProofs`; then `FormattingProofs` and `InitialisersRunOnce`.

What is left: that `NoUnitTwice` holds of a second pool would be worth having once `malloc.c:141` is
repaired, and `InitsRunOnce` and `LibrarySlotsBound` without their exceptions once `dynamic_linker.c:1576`
and `1170` are. A module `Break` for `brk.c` and one for the ring of `my_list.h` would complete the samples.
