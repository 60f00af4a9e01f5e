----------------------------- MODULE DynLinker ------------------------------
(***************************************************************************)
(* The dynamic linker of dynamic_linker/src/dynamic_linker.c: it reads     *)
(* what the kernel has put on the stack, relocates itself, loads the       *)
(* libraries the executable needs, relocates each of them and the          *)
(* executable, calls the libraries' initialisers and starts the            *)
(* executable.                                                             *)
(*                                                                         *)
(* Addresses and ELF virtual addresses are counted in words, every table   *)
(* entry and every slot being one.  A file is what the linker reads of it: *)
(* the PT_LOAD segments, the dynamic symbol table, two relocation tables,  *)
(* the initialisers, and the words that are not zero.  Files are well      *)
(* formed (FileAssumption); where one may lack something the code tests    *)
(* for, it may here.                                                       *)
(***************************************************************************)
EXTENDS Integers, SequencesExt

CONSTANTS
    Executables,    \* the executables, loaded by the kernel
    Linkers,        \* the images of the linker itself, loaded by the kernel
    Environments,   \* the argument and environment counts
    FileSystems,    \* the possible contents of the library files, by name
    Bases,          \* where mmap may place a library
    Span,           \* no library is longer
    Window,         \* the 0x200000 of dynamic_linker.c:363 and 419
    SlotLimit,      \* the 28 of dynamic_linker.c:1477
    None

\* How many words an image takes, from its first segment to the end of its last
Size(elf) == Max({l.vaddr + l.memsz : l \in Range(elf.loads)}) - elf.loads[1].vaddr

\* mmap returns addresses other than 0 and never memory that is in use.  The kernel
\* has loaded the executable and the linker apart, and the executable where it is
\* linked or, if it is position independent, behind all its link-time addresses.
ASSUME LinkerAssumption ==
    /\ None # "lib"
    /\ Window \in Nat /\ SlotLimit \in Nat /\ Span \in Nat
    /\ Bases \subseteq Nat \ {0}
    /\ \A f \in FileSystems : \A name \in DOMAIN f : Size(f[name]) <= Span
    /\ \A b, c \in Bases : b + Span <= c \/ c + Span <= b \/ b = c
    /\ \A x \in Executables \cup Linkers, b \in Bases :
        b + Span <= x.base \/ x.base + Size(x.elf) <= b
    /\ \A x \in Executables, l \in Linkers :
        x.base + Size(x.elf) <= l.base \/ l.base + Size(l.elf) <= x.base
    /\ \A x \in Executables :
        /\ x.base \in Nat \ {0}
        /\ x.base = x.elf.loads[1].vaddr \/ x.base >= x.elf.loads[1].vaddr + Size(x.elf)
    /\ \A l \in Linkers : l.base \in Nat
    /\ \A e \in Environments : e.argc \in Nat /\ e.envc \in Nat

VARIABLES
    exec,           \* the executable: its file, base address and DT_NEEDED
    linker,         \* the linker: its file and base address
    files,          \* the library files
    stack,          \* the initial stack, a sequence of words
    auxv,           \* g_auxv_base, g_auxv_phdr, g_auxv_entry
    pc,             \* the next step
    next,           \* which DT_NEEDED entry is being loaded
    base,           \* load_shared_library's local base_addr
    fds,            \* the number of open file descriptors
    heap,           \* the allocated blocks: what for, and for which DT_NEEDED entry
    mapped,         \* the bases of the mapped libraries
    loaded,         \* g_loaded_libraries, first element first
    mem,            \* the words that have been written; the others are zero
    calls           \* history: the addresses called

world == <<exec, linker, files, stack>>
vars == <<world, auxv, pc, next, base, fds, heap, mapped, loaded, mem, calls>>

LoadSteps == {"open", "header", "phdr", "read", "reserve", "nowhere", "map", "dynamic",
              "node", "rela", "plt", "refill"}

-----------------------------------------------------------------------------
(* Addresses and symbols of an ELF image at base b *)

InLoad(v, elf) ==
    \E i \in DOMAIN elf.loads :
        v >= elf.loads[i].vaddr /\ v < elf.loads[i].vaddr + elf.loads[i].memsz

first_load_vaddr(elf) == elf.loads[1].vaddr

\* The bug of forgetting that the first segment need not be at 0.
address_from_zero(v, b, elf) == IF InLoad(v, elf) THEN b + v ELSE 0

\* Where the link-time address v is in memory, 0 if in no segment
calculate_address_from_vaddr(v, b, elf) ==
    IF InLoad(v, elf) THEN b + (v - first_load_vaddr(elf)) ELSE 0

\* The same of a symbol's value, the same formula spelled out again
calculate_symbol_address(s, b, elf) == calculate_address_from_vaddr(s.value, b, elf)

\* What every user of the two falls back to
Or(address, fallback) == IF address # 0 THEN address ELSE fallback

SymbolAddress(s, b, elf) == Or(calculate_symbol_address(s, b, elf), b + s.value)

\* The entry find_symbol finds: the first of that name, defined or not
Named(name, elf) == {i \in DOMAIN elf.symtab : elf.symtab[i].name = name}
find_symbol(name, elf) == elf.symtab[Min(Named(name, elf))]

\* The bug of a search that ends with the first library.
resolve_symbol_first(name, libs) ==
    IF libs = <<>> \/ Named(name, Head(libs).elf) = {} THEN 0
    ELSE SymbolAddress(find_symbol(name, Head(libs).elf), Head(libs).base, Head(libs).elf)

\* The symbol of the first library of libs that has an entry of that name, or 0
resolve_symbol_global(name, libs) ==
    LET with == {i \in DOMAIN libs : Named(name, libs[i].elf) # {}} IN
    IF with = {} THEN 0
    ELSE LET lib == libs[Min(with)] IN SymbolAddress(find_symbol(name, lib.elf), lib.base, lib.elf)

-----------------------------------------------------------------------------
(* Well-formed files *)

Relocations(elf) == [type : STRING, offset : Nat, sym : DOMAIN elf.symtab, addend : Int]

\* The segments ascend, and what is in the file, its defined symbols and the slots
\* of its tables are in them; no two entries of .rela.plt share a slot.
WellFormed(elf) ==
    /\ elf.loads \in Seq([vaddr : Nat, memsz : Nat]) /\ elf.loads # <<>>
    /\ \A i, j \in DOMAIN elf.loads :
        i < j => elf.loads[i].vaddr + elf.loads[i].memsz <= elf.loads[j].vaddr
    /\ \A v \in DOMAIN elf.words : v \in Nat /\ InLoad(v, elf) /\ elf.words[v] \in Int
    /\ \A i \in DOMAIN elf.symtab :
        LET value == elf.symtab[i].value IN
        i \in Nat /\ value \in Nat /\ (value # 0 => InLoad(value, elf))
    /\ elf.plt \in Seq(Relocations(elf))
    /\ \A i \in DOMAIN elf.plt : InLoad(elf.plt[i].offset, elf)
    /\ \A i, j \in DOMAIN elf.plt : elf.plt[i].offset = elf.plt[j].offset => i = j

\* The words of a table of n entries that begins at v
TableWords(v, n) == v..(v + n - 1)

\* The same of a file whose .rela.dyn is processed too: a table that begins in a
\* segment ends there, which .rela.plt does.
WellFormedLibrary(elf) ==
    /\ WellFormed(elf)
    /\ elf.rela \in Seq(Relocations(elf))
    /\ \A i \in DOMAIN elf.rela : InLoad(elf.rela[i].offset, elf)
    /\ elf.relaAt \in Nat /\ elf.pltAt \in Nat
    /\ InLoad(elf.relaAt, elf) => \A v \in TableWords(elf.relaAt, Len(elf.rela)) : InLoad(v, elf)
    /\ \A v \in TableWords(elf.pltAt, Len(elf.plt)) : InLoad(v, elf)

\* The entry is a JUMP_SLOT that names its symbol.
NamedSlot(r, elf) == r.type = "JUMP_SLOT" /\ elf.symtab[r.sym].name # None

\* The linker is small enough for the window; an executable that exports main
\* defines it; the initialisers of libraries are at addresses, DT_INIT in its library.
ASSUME FileAssumption ==
    /\ \A l \in Linkers :
        /\ WellFormedLibrary(l.elf) /\ InLoad(l.elf.relaAt, l.elf)
        /\ \A i \in DOMAIN l.elf.plt :
            /\ NamedSlot(l.elf.plt[i], l.elf)
            /\ l.elf.plt[i].offset - first_load_vaddr(l.elf) <= Window
            /\ l.elf.pltAt + i - 1 - first_load_vaddr(l.elf) <= Window
    /\ \A x \in Executables :
        /\ WellFormed(x.elf)
        /\ \A i \in DOMAIN x.elf.plt : NamedSlot(x.elf.plt[i], x.elf)
        /\ x.elf.entry \in Nat /\ InLoad(x.elf.entry, x.elf)
        /\ \A i \in DOMAIN x.elf.symtab : x.elf.symtab[i].name = "main" => x.elf.symtab[i].value # 0
    /\ \A x \in Executables, f \in FileSystems : x.needed \in Seq(DOMAIN f)
    /\ \A f \in FileSystems : \A name \in DOMAIN f :
        /\ WellFormedLibrary(f[name])
        /\ f[name].init \in Nat /\ (f[name].init # 0 => InLoad(f[name].init, f[name]))
        /\ f[name].init_array \in Nat /\ f[name].init_array_count \in Nat

-----------------------------------------------------------------------------
(* Relocation *)

Read(m, a) == IF a \in DOMAIN m THEN m[a] ELSE 0
Write(m, a, v) == [x \in DOMAIN m \cup {a} |-> IF x = a THEN v ELSE m[x]]

\* S + A of a JUMP_SLOT: the symbol of this ELF file if it has a value, then
\* that of a loaded library, then the base address
JumpSlot(r, b, elf, libs) ==
    LET s == elf.symtab[r.sym]
        own == IF s.name # None /\ s.value # 0 THEN SymbolAddress(s, b, elf) ELSE 0
        global == IF s.name # None THEN resolve_symbol_global(s.name, libs) ELSE 0
    IN Or(Or(own, global), b) + r.addend

\* What a relocation entry is for; NONE writes nothing
RelocationValue(r, b, elf, libs) ==
    IF r.type \in {"ABS64", "GLOB_DAT"} THEN SymbolAddress(elf.symtab[r.sym], b, elf) + r.addend
    ELSE IF r.type = "JUMP_SLOT" THEN JumpSlot(r, b, elf, libs)
    ELSE b + r.addend

RelocationTarget(r, b, elf) ==
    Or(calculate_address_from_vaddr(r.offset, b, elf), b + r.offset - first_load_vaddr(elf))

InWindow(address, b) == address >= b /\ address <= b + Window

\* at is where the entry itself is.
process_relocation(m, at, r, b, elf, libs) ==
    LET target == RelocationTarget(r, b, elf) IN
    IF InWindow(at, b) /\ r.type # "NONE" /\ InWindow(target, b)
    THEN Write(m, target, RelocationValue(r, b, elf, libs))
    ELSE m

\* A table that begins at address `at`, entry by entry.  The loops that leave off at
\* an entry outside the image find none in a well-formed file; the linker's, which
\* leaves off outside the window, would go on to entries that are refused.
ProcessAll(m, at, table, b, elf, libs) ==
    LET after[i \in 0..Len(table)] ==
            IF i = 0 THEN m
            ELSE process_relocation(after[i - 1], at + i - 1, table[i], b, elf, libs)
    IN after[Len(table)]

\* Where the table at link-time address v is in memory
TableAddress(v, b, elf) ==
    Or(calculate_address_from_vaddr(v, b, elf), b + v - first_load_vaddr(elf))

\* DT_RELAENT, the size of an entry of either table, comes only with a .rela.dyn.
HasRelaEnt(elf) == elf.rela # <<>>

\* The .rela.dyn entries
ProcessRela(m, b, elf, libs) ==
    ProcessAll(m, TableAddress(elf.relaAt, b, elf), elf.rela, b, elf, libs)

\* The .rela.plt entries; without DT_RELAENT the code takes them to be none.
ProcessPlt(m, b, elf, libs) ==
    IF HasRelaEnt(elf)
    THEN ProcessAll(m, TableAddress(elf.pltAt, b, elf), elf.plt, b, elf, libs)
    ELSE m

\* One turn of the loop that fills the GOT again, with symbols of this file only
FillSlot(m, r, b, elf) ==
    LET slot == calculate_address_from_vaddr(r.offset, b, elf) IN
    IF slot # 0 THEN Write(m, slot, SymbolAddress(elf.symtab[r.sym], b, elf) + r.addend) ELSE m

FillAll(m, b, elf) ==
    LET after[i \in 0..Len(elf.plt)] == IF i = 0 THEN m ELSE FillSlot(after[i - 1], elf.plt[i], b, elf)
    IN after[Len(elf.plt)]

\* One turn of the loop over the executable's JUMP_SLOTs
FillExecSlot(m, r, b, libs) ==
    LET s == exec.elf.symtab[r.sym]
        address == IF s.name # None THEN resolve_symbol_global(s.name, libs) ELSE 0
        slot == calculate_address_from_vaddr(r.offset, b, exec.elf)
    IN IF r.type = "JUMP_SLOT" /\ address # 0 /\ slot # 0 THEN Write(m, slot, address) ELSE m

\* How many of them the loop takes
ExecSlotCount == IF Len(exec.elf.plt) < SlotLimit THEN Len(exec.elf.plt) ELSE SlotLimit

FillExec(m, b, libs) ==
    LET after[i \in 0..ExecSlotCount] ==
            IF i = 0 THEN m ELSE FillExecSlot(after[i - 1], exec.elf.plt[i], b, libs)
    IN after[ExecSlotCount]

-----------------------------------------------------------------------------
(* The initial stack *)

AT_NULL == 0
AT_PHDR == 3
AT_BASE == 7
AT_ENTRY == 9

\* The program headers follow the ELF header.
EhdrSize == 1

\* What the kernel leaves: argc, the arguments and the environment, each with a
\* NULL behind it, and the auxiliary vector.  The entry point is a memory address.
KernelStack(env, x, l) ==
    <<env.argc>> \o [i \in 1..env.argc |-> 1] \o <<0>> \o [i \in 1..env.envc |-> 1] \o <<0>>
        \o <<AT_PHDR, x.base + EhdrSize, AT_BASE, l.base,
             AT_ENTRY, x.base + x.elf.entry - first_load_vaddr(x.elf), AT_NULL, 0>>

\* The bug of not counting the NULL behind the arguments.
parse_stack_short(words) ==
    LET envp == 2 + words[1] IN 1 + Min({i \in DOMAIN words : i >= envp /\ words[i] = 0})

\* Where the auxiliary vector starts: behind the NULL behind the environment
parse_stack(words) ==
    LET envp == 2 + words[1] + 1 IN 1 + Min({i \in DOMAIN words : i >= envp /\ words[i] = 0})

\* The value of the first pair with that tag before AT_NULL, or 0
get_auxv(words, at, tag) ==
    LET pairs == {i \in DOMAIN words : i >= at /\ (i - at) % 2 = 0}
        end == Min({i \in pairs : words[i] = AT_NULL})
        hits == {i \in pairs : i < end /\ words[i] = tag}
    IN IF hits = {} THEN 0 ELSE words[Min(hits) + 1]

-----------------------------------------------------------------------------
(* main, up to the libraries *)

\* The words of an image at base b
Image(b, elf) ==
    [a \in {b + v - first_load_vaddr(elf) : v \in DOMAIN elf.words} |->
        elf.words[a - b + first_load_vaddr(elf)]]

\* The memory m with an image mapped over it
Over(image, m) ==
    [a \in DOMAIN image \cup DOMAIN m |-> IF a \in DOMAIN image THEN image[a] ELSE m[a]]

Init ==
    /\ exec \in Executables
    /\ linker \in Linkers
    /\ files \in FileSystems
    /\ stack \in {KernelStack(env, exec, linker) : env \in Environments}
    /\ auxv = [base |-> 0, phdr |-> 0, entry |-> 0]
    /\ pc = "parse" /\ next = 1 /\ base = 0
    /\ fds = 0 /\ heap = {} /\ mapped = {}
    /\ loaded = <<>>
    /\ mem = Over(Image(exec.base, exec.elf), Image(linker.base, linker.elf))
    /\ calls = <<>>

\* A path in one of the directories that are searched.  DT_NEEDED has names.
Path(name) == [dir |-> "lib", name |-> name]
Name(name) == [dir |-> None, name |-> name]

find_loaded_library(path) == {i \in DOMAIN loaded : loaded[i].path = path}

\* The file being loaded
current == files[exec.needed[next]]

Step(from, to) == pc = from /\ pc' = to

\* parse_stack and parse_auxv
Parse ==
    /\ Step("parse", "bootstrap")
    /\ LET at == parse_stack(stack) IN
       auxv' = [base |-> get_auxv(stack, at, AT_BASE), phdr |-> get_auxv(stack, at, AT_PHDR),
                entry |-> get_auxv(stack, at, AT_ENTRY)]
    /\ UNCHANGED <<world, next, base, fds, heap, mapped, loaded, mem, calls>>

\* bootstrap_self goes on: there is an AT_BASE, and a dynamic segment within the
\* window in which get_dynamic_tag looks for its entries.
CanBootstrap ==
    /\ auxv.base # 0
    /\ linker.elf.dynamic # None
    /\ linker.elf.dynamic - first_load_vaddr(linker.elf) <= Window

\* The linker's own relocations, when no library is loaded
Bootstrap ==
    /\ CanBootstrap
    /\ Step("bootstrap", "needed")
    /\ mem' = ProcessPlt(ProcessRela(mem, auxv.base, linker.elf, loaded),
                         auxv.base, linker.elf, loaded)
    /\ UNCHANGED <<world, auxv, next, base, fds, heap, mapped, loaded, calls>>

BootstrapFails ==
    /\ ~CanBootstrap
    /\ Step("bootstrap", "failed")
    /\ UNCHANGED <<world, auxv, next, base, fds, heap, mapped, loaded, mem, calls>>

\* main takes the ELF header of the executable, and with it the first segment, to
\* be right before the program headers.
exec_base == auxv.phdr - EhdrSize

\* load_shared_library starts for the next DT_NEEDED entry; after the last one
\* the executable's turn comes.  A library found in the list is not loaded again.
Needed ==
    /\ pc = "needed"
    /\ IF next > Len(exec.needed) THEN pc' = "exec" /\ UNCHANGED next
       ELSE IF find_loaded_library(Name(exec.needed[next])) = {} THEN pc' = "open" /\ UNCHANGED next
       ELSE next' = next + 1 /\ UNCHANGED pc
    /\ UNCHANGED <<world, auxv, base, fds, heap, mapped, loaded, mem, calls>>

-----------------------------------------------------------------------------
(* load_shared_library, step by step.  Every error returns NULL, and main 1. *)

\* The error exit of step `from`: close, free and munmap what the code does
Fail(from, closed, freed, unmapped) ==
    /\ Step(from, "failed")
    /\ fds' = fds - closed
    /\ heap' = heap \ {<<what, next>> : what \in freed}
    /\ mapped' = mapped \ unmapped
    /\ UNCHANGED <<world, auxv, next, base, mem, calls>>

\* open(libpath_found)
Open ==
    /\ Step("open", "header")
    /\ fds' = fds + 1
    /\ UNCHANGED <<world, auxv, next, base, heap, mapped, loaded, mem, calls>>

\* In no directory, or gone before it is opened again
OpenFails == Fail("open", 0, {}, {}) /\ UNCHANGED loaded

\* The ELF header is read, its magic is right, and lseek succeeds
ReadHeader ==
    /\ Step("header", "phdr")
    /\ UNCHANGED <<world, auxv, next, base, fds, heap, mapped, loaded, mem, calls>>

ReadHeaderFails == Fail("header", 1, {}, {}) /\ UNCHANGED loaded

\* malloc of the program headers
AllocPhdr ==
    /\ Step("phdr", "read")
    /\ heap' = heap \cup {<<"phdr", next>>}
    /\ UNCHANGED <<world, auxv, next, base, fds, mapped, loaded, mem, calls>>

AllocPhdrFails == Fail("phdr", 1, {}, {}) /\ UNCHANGED loaded

ReadPhdr ==
    /\ Step("read", "reserve")
    /\ UNCHANGED <<world, auxv, next, base, fds, heap, mapped, loaded, mem, calls>>

ReadPhdrFails == Fail("read", 1, {"phdr"}, {}) /\ UNCHANGED loaded

\* mmap of total_size bytes, anywhere
Reserve ==
    /\ Step("reserve", "map")
    /\ \E b \in Bases \ mapped : base' = b /\ mapped' = mapped \cup {b}
    /\ UNCHANGED <<world, auxv, next, fds, heap, loaded, mem, calls>>

\* The kernel's -ENOMEM is not MAP_FAILED, so the code goes on with it as the base,
ReserveFails ==
    /\ Step("reserve", "nowhere")
    /\ UNCHANGED <<world, auxv, next, base, fds, heap, mapped, loaded, mem, calls>>

\* where no segment can be mapped, nor anything unmapped.
MapNowhereFails == Fail("nowhere", 1, {"phdr"}, {}) /\ UNCHANGED loaded

\* mmap of every PT_LOAD segment; close(fd)
MapSegments ==
    /\ Step("map", "dynamic")
    /\ mem' = Over(Image(base, current), mem)
    /\ fds' = fds - 1
    /\ UNCHANGED <<world, auxv, next, base, heap, mapped, loaded, calls>>

\* The bug of an error exit that forgets the reservation.
MapSegmentsLeaking == Fail("map", 1, {"phdr"}, {}) /\ UNCHANGED loaded

MapSegmentsFails == Fail("map", 1, {"phdr"}, {base}) /\ UNCHANGED loaded

\* The PT_DYNAMIC segment is found
FindDynamic ==
    /\ Step("dynamic", "node")
    /\ current.dynamic # None
    /\ UNCHANGED <<world, auxv, next, base, fds, heap, mapped, loaded, mem, calls>>

\* The bug of closing the file a second time.
FindDynamicClosing ==
    Fail("dynamic", 1, {"phdr"}, {base}) /\ current.dynamic = None /\ UNCHANGED loaded

FindDynamicFails ==
    Fail("dynamic", 0, {"phdr"}, {base}) /\ current.dynamic = None /\ UNCHANGED loaded

\* malloc of the LoadedLibrary and of its path (which may fail); it becomes
\* the first of g_loaded_libraries before it is relocated
AllocNode ==
    /\ Step("node", "rela")
    /\ \E parts \in {{"node"}, {"node", "path"}} :
        /\ heap' = heap \cup {<<what, next>> : what \in parts}
        /\ LET path == IF "path" \in parts THEN Path(exec.needed[next]) ELSE Name(None) IN
           loaded' = <<[path |-> path, entry |-> next, base |-> base, elf |-> current]>> \o loaded
    /\ UNCHANGED <<world, auxv, next, base, fds, mapped, mem, calls>>

AllocNodeFails == Fail("node", 0, {"phdr"}, {base}) /\ UNCHANGED loaded

\* The .rela.dyn entries
RelocateRela ==
    /\ Step("rela", "plt")
    /\ current.rela = <<>> \/ calculate_address_from_vaddr(current.relaAt, base, current) # 0
    /\ mem' = ProcessRela(mem, base, current, loaded)
    /\ UNCHANGED <<world, auxv, next, base, fds, heap, mapped, loaded, calls>>

\* The bug of freeing the node without taking it off the list.
RelocateRelaDangling ==
    /\ Fail("rela", 0, {"phdr", "node", "path"}, {base})
    /\ current.rela # <<>> /\ calculate_address_from_vaddr(current.relaAt, base, current) = 0
    /\ UNCHANGED loaded

\* The table is in no segment: the library is taken off the list and freed.
RelocateRelaFails ==
    /\ Fail("rela", 0, {"phdr", "node", "path"}, {base})
    /\ current.rela # <<>> /\ calculate_address_from_vaddr(current.relaAt, base, current) = 0
    /\ loaded' = Tail(loaded)

\* The .rela.plt entries
RelocatePlt ==
    /\ Step("plt", "refill")
    /\ mem' = ProcessPlt(mem, base, current, loaded)
    /\ UNCHANGED <<world, auxv, next, base, fds, heap, mapped, loaded, calls>>

\* The bug of leaving the second pass over the GOT out.
RefillNothing ==
    /\ Step("refill", "needed")
    /\ next' = next + 1
    /\ UNCHANGED <<world, auxv, base, fds, heap, mapped, loaded, mem, calls>>

\* The second pass over the GOT, of a table that was processed; the next DT_NEEDED
\* entry
Refill ==
    /\ Step("refill", "needed")
    /\ mem' = IF HasRelaEnt(current) THEN FillAll(mem, base, current) ELSE mem
    /\ next' = next + 1
    /\ UNCHANGED <<world, auxv, base, fds, heap, mapped, loaded, calls>>

-----------------------------------------------------------------------------
(* main, after the libraries *)

\* The executable's JUMP_SLOTs, at most SlotLimit of them.  Its other
\* relocations are not processed.
RelocateExec ==
    /\ Step("exec", "init")
    /\ mem' = FillExec(mem, exec_base, loaded)
    /\ next' = 1
    /\ UNCHANGED <<world, auxv, base, fds, heap, mapped, loaded, calls>>

\* DT_INIT of a library
InitCall(lib) ==
    IF lib.elf.init = 0 THEN <<>>
    ELSE <<Or(calculate_address_from_vaddr(lib.elf.init, lib.base, lib.elf), lib.base + lib.elf.init)>>

\* Its DT_INIT_ARRAY: each entry is read as a link-time address
InitArrayCalls(lib) ==
    LET At(v) == Or(calculate_address_from_vaddr(v, lib.base, lib.elf), lib.base + v)
        entry(i) == Read(mem, At(lib.elf.init_array + i - 1))
        count == IF lib.elf.init_array = 0 THEN 0 ELSE lib.elf.init_array_count
        made[i \in 0..count] ==
            IF i = 0 THEN <<>>
            ELSE IF entry(i) = 0 THEN made[i - 1]
            ELSE Append(made[i - 1], At(entry(i)))
    IN made[count]

\* The bug of a loop that stops at the last library instead of behind it.
CallInitStopping ==
    /\ \/ /\ next < Len(loaded)
          /\ Step("init", "init")
          /\ calls' = calls \o InitCall(loaded[next]) \o InitArrayCalls(loaded[next])
          /\ next' = next + 1
       \/ next >= Len(loaded) /\ Step("init", "start") /\ UNCHANGED <<calls, next>>
    /\ UNCHANGED <<world, auxv, base, fds, heap, mapped, loaded, mem>>

\* The initialisers of the next library of the list, the last one loaded first
CallInit ==
    /\ \/ /\ next <= Len(loaded)
          /\ Step("init", "init")
          /\ calls' = calls \o InitCall(loaded[next]) \o InitArrayCalls(loaded[next])
          /\ next' = next + 1
       \/ next > Len(loaded) /\ Step("init", "start") /\ UNCHANGED <<calls, next>>
    /\ UNCHANGED <<world, auxv, base, fds, heap, mapped, loaded, mem>>

\* The bug of starting main only.
StartMainOnly ==
    LET main == IF Named("main", exec.elf) = {} THEN 0
                ELSE calculate_address_from_vaddr(find_symbol("main", exec.elf).value, exec_base, exec.elf)
    IN /\ Step("start", IF main # 0 THEN "running" ELSE "failed")
       /\ calls' = IF main # 0 THEN Append(calls, main) ELSE calls
       /\ UNCHANGED <<world, auxv, next, base, fds, heap, mapped, loaded, mem>>

\* main if the executable's dynamic symbols have it, else the entry point, for
\* which AT_ENTRY is taken for a link-time address
Start ==
    LET main == IF Named("main", exec.elf) = {} THEN 0
                ELSE calculate_address_from_vaddr(find_symbol("main", exec.elf).value, exec_base, exec.elf)
        entry == calculate_address_from_vaddr(auxv.entry, exec_base, exec.elf)
    IN /\ Step("start", IF Or(main, entry) # 0 THEN "running" ELSE "failed")
       /\ calls' = IF Or(main, entry) # 0 THEN Append(calls, Or(main, entry)) ELSE calls
       /\ UNCHANGED <<world, auxv, next, base, fds, heap, mapped, loaded, mem>>

\* The executable runs, or the process has exited with 1.
Ended == pc \in {"running", "failed"} /\ UNCHANGED vars

Load ==
    \/ Open \/ OpenFails \/ ReadHeader \/ ReadHeaderFails
    \/ AllocPhdr \/ AllocPhdrFails \/ ReadPhdr \/ ReadPhdrFails
    \/ Reserve \/ ReserveFails \/ MapNowhereFails \/ MapSegments \/ MapSegmentsFails
    \/ FindDynamic \/ FindDynamicFails \/ AllocNode \/ AllocNodeFails
    \/ RelocateRela \/ RelocateRelaFails \/ RelocatePlt \/ Refill

Next == Parse \/ Bootstrap \/ BootstrapFails \/ Needed \/ Load \/ RelocateExec \/ CallInit \/ Start \/ Ended

Spec == Init /\ [][Next]_vars

-----------------------------------------------------------------------------
(* Properties *)

Libraries == {loaded[i] : i \in DOMAIN loaded}

Parts(lib) == {"phdr", "node"} \cup (IF lib.path = Name(None) THEN {} ELSE {"path"})

TypeOK ==
    /\ pc \in {"parse", "bootstrap", "needed", "exec", "init", "start", "running", "failed"} \cup LoadSteps
    /\ next \in 1..(Len(exec.needed) + 1)
    /\ base \in Bases \cup {0}
    /\ fds \in {0, 1}
    /\ heap \subseteq {"phdr", "node", "path"} \X (1..Len(exec.needed))
    /\ mapped \subseteq Bases
    /\ \A lib \in Libraries : lib.base \in Bases /\ lib.entry \in 1..Len(exec.needed)
    /\ \A a \in DOMAIN mem : a \in Nat /\ mem[a] \in Int
    /\ calls \in Seq(Int)

\* Every library on g_loaded_libraries has its node, its program headers and its
\* image, which symbol resolution and the initialisers go through.
ListAlive ==
    \A lib \in Libraries :
        /\ <<"node", lib.entry>> \in heap /\ <<"phdr", lib.entry>> \in heap
        /\ lib.base \in mapped

\* Outside load_shared_library no file is open, and what is allocated and mapped
\* is what the loaded libraries consist of, however a failed load ended.
NothingLeaks ==
    pc \notin LoadSteps =>
        /\ fds = 0
        /\ mapped = {lib.base : lib \in Libraries}
        /\ heap = UNION {Parts(lib) \X {lib.entry} : lib \in Libraries}

\* The addresses of an image
Extent(b, f) == b..(b + Size(f) - 1)

\* Loading and relocating a library writes to its own image only, and relocating
\* the linker and the executable to theirs: no other image is ever patched.
WritesStayHome ==
    [][\A a \in DOMAIN mem' :
        Read(mem, a) # mem'[a] =>
            a \in IF pc = "bootstrap" THEN Extent(linker.base, linker.elf)
                 ELSE IF pc \in LoadSteps THEN Extent(base, current)
                 ELSE Extent(exec.base, exec.elf)]_vars

\* The slot of r, whose symbol the file defines itself, holds that definition.
OwnSlotBound(lib, r) ==
    lib.elf.symtab[r.sym].value # 0 =>
        Read(mem, lib.base + r.offset - first_load_vaddr(lib.elf))
            = lib.base + lib.elf.symtab[r.sym].value - first_load_vaddr(lib.elf) + r.addend

\* Once the executable runs, every JUMP_SLOT of a library, or of the linker, whose
\* symbol it defines itself holds the address of that definition, in a library
\* beyond the window too, in which process_relocation writes: of a file that has a
\* .rela.dyn, without which the code finds no .rela.plt either.
LibrarySlotsBound ==
    pc = "running" =>
        \A lib \in Libraries \cup {linker} :
            HasRelaEnt(lib.elf) => \A r \in Range(lib.elf.plt) : OwnSlotBound(lib, r)

\* The addresses at which loaded libraries define a symbol
Definitions(name) ==
    UNION {{lib.base + lib.elf.symtab[i].value - first_load_vaddr(lib.elf) :
                i \in {j \in Named(name, lib.elf) : lib.elf.symtab[j].value # 0}} : lib \in Libraries}

Imported(name) ==
    \E lib \in Libraries : \E i \in Named(name, lib.elf) : lib.elf.symtab[i].value = 0

\* The executable's first SlotLimit slots
ExecSlots == {exec.elf.plt[i] : i \in DOMAIN exec.elf.plt \cap 1..SlotLimit}

\* Once the executable runs, each of these slots whose symbol some library defines
\* and no library imports holds a definition of it.
ExecSlotsBound ==
    pc = "running" =>
        \A r \in ExecSlots :
            LET name == exec.elf.symtab[r.sym].name IN
            Definitions(name) # {} /\ ~Imported(name) =>
                Read(mem, exec.base + r.offset - first_load_vaddr(exec.elf)) \in Definitions(name)

\* The number of calls of the function at address a
Called(a) == Cardinality({i \in DOMAIN calls : calls[i] = a})

\* Once the executable runs, each library's DT_INIT function has run once, and
\* every call went into an image, unless there are arrays of initialisers.
InitsRunOnce ==
    pc = "running" =>
        /\ \A lib \in Libraries :
            lib.elf.init # 0 => Called(lib.base + lib.elf.init - first_load_vaddr(lib.elf)) = 1
        /\ (\A lib \in Libraries : lib.elf.init_array = 0) =>
            \A a \in Range(calls) : \E x \in Libraries \cup {exec} : a \in Extent(x.base, x.elf)

\* Whatever the arguments and the environment, the linker reads from the stack what
\* the kernel has put there; and when it has relocated itself and every library has
\* been loaded, it starts the executable at main or else at the entry point, if main
\* is exported or the executable's addresses are its link-time addresses.
StartsExecutable ==
    LET At(v) == exec.base + v - first_load_vaddr(exec.elf)
        main == Named("main", exec.elf)
    IN /\ pc # "parse" =>
            auxv = [base |-> linker.base, phdr |-> exec.base + EhdrSize, entry |-> At(exec.elf.entry)]
       /\ /\ CanBootstrap /\ Len(loaded) = Len(exec.needed)
          /\ main # {} \/ exec.base = first_load_vaddr(exec.elf)
          => pc # "failed"
       /\ pc = "running" =>
            Last(calls) = At(IF main = {} THEN exec.elf.entry ELSE find_symbol("main", exec.elf).value)

\* Symbols are resolved in all loaded libraries (dynamic_linker.c:213, 492): once
\* the executable runs, a slot whose symbol some library defines holds a definition.
SlotsHoldDefinitions ==
    pc = "running" =>
        \A x \in Libraries \cup {exec} :
            \A r \in IF x = exec THEN ExecSlots ELSE Range(x.elf.plt) :
                LET name == x.elf.symtab[r.sym].name IN
                Definitions(name) # {} =>
                    Read(mem, x.base + r.offset - first_load_vaddr(x.elf)) \in Definitions(name)
=============================================================================
