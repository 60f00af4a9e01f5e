-------------------------------- MODULE Mmu --------------------------------
(***************************************************************************)
(* The bare-metal kernel of mmu/boot.S and mmu/main.c: it builds page      *)
(* tables with the MMU off, turns it on, reads back a word it has written  *)
(* before, and survives an access to an address that is not mapped.        *)
(*                                                                         *)
(* An address is a page number (4 KB), a descriptor an integer, and the    *)
(* walk decodes what the stores of build_page_table have left in memory.   *)
(* All addresses and descriptors fit the 31 bits of TLC's integers.        *)
(* Caches are left out, and so are instruction fetches: they need the      *)
(* kernel's pages mapped, which KernelMapped states.                       *)
(***************************************************************************)
EXTENDS Integers, Sequences, TLC

CONSTANTS
    FirstTable,     \* the page of pgtable_l0; the other four tables follow (link.ld)
    Garbage,        \* words that memory may hold before it is written
    StaleTlbs,      \* what the TLB may hold at power-on: functions from page to page
    Probes          \* pages outside the kernel's map, at which it is tried

L0 == FirstTable
L1 == FirstTable + 1
L2Periph == FirstTable + 2
L2Dram == FirstTable + 3
L3Dram == FirstTable + 4
Tables == <<L0, L1, L2Periph, L2Dram, L3Dram>>

Entries == 512
DramPage == 262144      \* 0x40000000
UartPage == 36864       \* 0x09000000
TestPage == 262160      \* 0x40010000, the word main writes and reads back
BadPage == 327680       \* 0x50000000
StackTop == FirstTable + 5 + 16

\* The pages that the link script gives the image, its tables and its stack
KernelPages == (DramPage + 1)..(StackTop - 1)
Uart == UartPage..(UartPage + Entries - 1)
Dram == DramPage..(DramPage + Entries - 1)

\* The pages of 48 bits of address
Addressable(page) == page \in Nat /\ page \div 134217728 < Entries

\* The image ends within the 2 MB that are mapped, the test word is in no table, and
\* what is probed lies in the 48 bits of address that TCR_EL1 allows.
ASSUME MmuAssumption ==
    /\ FirstTable \in Nat /\ FirstTable > DramPage + 1
    /\ KernelPages \subseteq Dram
    /\ TestPage > L3Dram
    /\ Garbage \subseteq Nat
    /\ \A p \in Probes : Addressable(p) /\ p \notin Uart \cup Dram

VARIABLES
    pc,             \* the next step
    n,              \* how far the step's loop has come
    mem,            \* the words of the tables, and the test word
    mair, ttbr0, vbar, \* MAIR_EL1, TTBR0_EL1, VBAR_EL1
    mmu,            \* SCTLR_EL1.M
    tlb,            \* the cached translations
    regs,           \* x0..x30; register i of main holds i where it matters
    frame,          \* the exception frame: words by offset
    elr,            \* ELR_EL1, the step it points to
    val             \* main's local val

system == <<mair, ttbr0, vbar>>
vars == <<pc, n, mem, system, mmu, tlb, regs, frame, elr, val>>

MainSteps == <<"banner", "write", "enable", "report", "read", "bad", "resumed", "idle">>
InMain == {MainSteps[i] : i \in DOMAIN MainSteps}

TestWord == TestPage * Entries
TestValue == 305419896  \* 0x12345678
TableWords == {t * Entries + i : t \in L0..L3Dram, i \in 0..(Entries - 1)}

Init ==
    /\ pc = "start" /\ n = 0
    /\ mem \in {[a \in TableWords \cup {TestWord} |-> g] : g \in Garbage}
    /\ mair = 0 /\ ttbr0 = 0 /\ vbar = "none"
    /\ mmu = FALSE
    /\ tlb \in StaleTlbs
    /\ regs = [i \in 0..30 |-> i]
    /\ frame = <<>>
    /\ elr = "none" /\ val = 0

-----------------------------------------------------------------------------
(* The translation the hardware makes of a page number *)

Index(level, page) ==
    IF level = 0 THEN page \div 134217728
    ELSE IF level = 1 THEN (page \div 262144) % Entries
    ELSE IF level = 2 THEN (page \div 512) % Entries
    ELSE page % Entries

\* The pages of a block at that level
BlockSize(level) == IF level = 1 THEN 262144 ELSE IF level = 2 THEN 512 ELSE 1

Word(a) == IF a \in DOMAIN mem THEN mem[a] ELSE 0

Result(is, page, attr) == [is |-> is, page |-> page, attr |-> attr]

\* One level of the walk, from the result of the level above.  The type is in
\* bits 1:0, AttrIndx in 4:2, the access flag in 10, the address in 47:12.
WalkLevel(level, from, page) ==
    IF from.is # "table" THEN from
    ELSE LET d == Word(from.page * Entries + Index(level, page))
             out == d \div 4096
             size == BlockSize(level)
         IN IF d % 4 = 3 /\ level < 3 THEN Result("table", out, 0)
            ELSE IF \/ d % 4 = 3 /\ level = 3
                    \/ d % 4 = 1 /\ level \in {1, 2}
                 THEN IF (d \div 1024) % 2 = 0 THEN Result("flag_fault", level, 0)
                      ELSE Result("page", out - (out % size) + (page % size), (d \div 4) % 8)
            ELSE Result("fault", level, 0)

Walk(page) ==
    WalkLevel(3, WalkLevel(2, WalkLevel(1, WalkLevel(0,
        Result("table", ttbr0, 0), page), page), page), page)

\* Where an access to a page goes: nowhere when it faults
Goes(page) ==
    IF ~mmu THEN {page}
    ELSE IF page \in DOMAIN tlb THEN {tlb[page]}
    ELSE IF Walk(page).is = "page" THEN {Walk(page).page} ELSE {}

\* The memory attributes of MAIR_EL1: byte 0 and byte 1
Attribute(index) == IF index = 0 THEN mair % 256 ELSE IF index = 1 THEN (mair \div 256) % 256 ELSE 0

-----------------------------------------------------------------------------
(* boot.S: _start and build_page_table *)

Step(from, to) == pc = from /\ pc' = to

\* The stack pointer, and the BSS, in which there is nothing
Start ==
    /\ Step("start", "control")
    /\ UNCHANGED <<n, mem, system, mmu, tlb, regs, frame, elr, val>>

\* MAIR_EL1, and TCR_EL1: 48 bits of address and pages of 4 KB, as the walk has them
Control ==
    /\ Step("control", "zero")
    /\ mair' = 255
    /\ n' = 1
    /\ UNCHANGED <<mem, ttbr0, vbar, mmu, tlb, regs, frame, elr, val>>

\* The bug of forgetting a table: the walk then finds what memory held.
ZeroTableButPeriph ==
    /\ pc = "zero"
    /\ mem' = [a \in DOMAIN mem |->
                IF a \div Entries = Tables[n] /\ Tables[n] # L2Periph THEN 0 ELSE mem[a]]
    /\ IF n = Len(Tables) THEN pc' = "link" /\ n' = 1 ELSE n' = n + 1 /\ UNCHANGED pc
    /\ UNCHANGED <<system, mmu, tlb, regs, frame, elr, val>>

\* memzero of the n-th table
ZeroTable ==
    /\ pc = "zero"
    /\ mem' = [a \in DOMAIN mem |-> IF a \div Entries = Tables[n] THEN 0 ELSE mem[a]]
    /\ IF n = Len(Tables) THEN pc' = "link" /\ n' = 1 ELSE n' = n + 1 /\ UNCHANGED pc
    /\ UNCHANGED <<system, mmu, tlb, regs, frame, elr, val>>

\* The bug the comment at boot.S:250 warns of.
LinksOffset ==
    << <<L0, 0, L1 * 4096 + 3>>, <<L1, 0, L2Periph * 4096 + 3>>, <<L1, 1, L2Dram * 4096 + 3>>,
       <<L2Periph, 72, 32768 * 4096 + 1541>>, <<L2Dram, 0, L3Dram * 4096 + 3>> >>

\* The stores above level 3, as table, index and descriptor: orr with an address
\* whose low bits are 0 is an addition
Links ==
    << <<L0, 0, L1 * 4096 + 3>>, <<L1, 0, L2Periph * 4096 + 3>>, <<L1, 1, L2Dram * 4096 + 3>>,
       <<L2Periph, 72, UartPage * 4096 + 1541>>, <<L2Dram, 0, L3Dram * 4096 + 3>> >>

\* The n-th of them
Link ==
    /\ pc = "link"
    /\ mem' = [mem EXCEPT ![Links[n][1] * Entries + Links[n][2]] = Links[n][3]]
    /\ IF n = Len(Links) THEN pc' = "fill" /\ n' = 0 ELSE n' = n + 1 /\ UNCHANGED pc
    /\ UNCHANGED <<system, mmu, tlb, regs, frame, elr, val>>

\* The bug of one turn too many.
FillPageTwice ==
    /\ pc = "fill"
    /\ mem' = (L3Dram * Entries + n :> (DramPage + n) * 4096 + 1795) @@ mem
    /\ IF n = Entries THEN pc' = "registers" /\ n' = 0 ELSE n' = n + 1 /\ UNCHANGED pc
    /\ UNCHANGED <<system, mmu, tlb, regs, frame, elr, val>>

\* l3_loop: one descriptor of a page of the 2 MB
FillPage ==
    /\ pc = "fill"
    /\ mem' = [mem EXCEPT ![L3Dram * Entries + n] = (DramPage + n) * 4096 + 1795]
    /\ IF n = Entries - 1 THEN pc' = "registers" /\ n' = 0 ELSE n' = n + 1 /\ UNCHANGED pc
    /\ UNCHANGED <<system, mmu, tlb, regs, frame, elr, val>>

\* TTBR0_EL1 and VBAR_EL1, then main
Registers ==
    /\ Step("registers", "banner")
    /\ ttbr0' = L0 /\ vbar' = "vector_table"
    /\ UNCHANGED <<n, mem, mair, mmu, tlb, regs, frame, elr, val>>

-----------------------------------------------------------------------------
(* main, and the exception its bad access takes *)

\* An access faults: the hardware records where and goes to the vector, which
\* only leads anywhere when VBAR_EL1 has been set.
Fault ==
    /\ pc' = IF vbar = "vector_table" THEN "save" ELSE "lost"
    /\ elr' = pc

\* A step that accesses a page and goes on, or faults
Access(from, page, to) ==
    /\ pc = from
    /\ IF Goes(page) # {} THEN pc' = to /\ UNCHANGED elr ELSE Fault

\* uart_puts
Puts(from, to) ==
    /\ Access(from, UartPage, to)
    /\ UNCHANGED <<n, mem, system, mmu, tlb, regs, frame, val>>

Banner == Puts("banner", "write")

\* *test_addr = 0x12345678, at its physical address
WriteTest ==
    /\ Access("write", TestPage, "enable")
    /\ mem' = IF Goes(TestPage) = {TestPage} THEN [mem EXCEPT ![TestWord] = TestValue] ELSE mem
    /\ UNCHANGED <<n, system, mmu, tlb, regs, frame, val>>

\* The bug of keeping what the TLB holds.
EnableMmuStale ==
    /\ Step("enable", "report")
    /\ mmu' = TRUE
    /\ UNCHANGED <<n, mem, system, tlb, regs, frame, elr, val>>

\* enable_mmu: the TLB is invalidated before SCTLR_EL1.M is set
EnableMmu ==
    /\ Step("enable", "report")
    /\ tlb' = <<>>
    /\ mmu' = TRUE
    /\ UNCHANGED <<n, mem, system, regs, frame, elr, val>>

Report == Puts("report", "read")

\* val = *test_addr, through the tables
ReadTest ==
    /\ Access("read", TestPage, "bad")
    /\ val' = IF Goes(TestPage) = {} THEN val
              ELSE LET p == CHOOSE q \in Goes(TestPage) : TRUE IN Word(p * Entries)
    /\ UNCHANGED <<n, mem, system, mmu, tlb, regs, frame>>

\* The store to 0x50000000
WriteBad ==
    /\ Access("bad", BadPage, "resumed")
    /\ UNCHANGED <<n, mem, system, mmu, tlb, regs, frame, val>>

Resumed == Puts("resumed", "idle")

\* Where sync_exception_el1h keeps a register: pairs at 0, 16, 32, ..., x30 at 240
Offset(i) == 8 * i

\* sync_exception_el1h saves x0 to x30 on the stack
Save ==
    /\ Access("save", StackTop - 1, "print")
    /\ frame' = IF Goes(StackTop - 1) = {} THEN frame
                ELSE [o \in {Offset(i) : i \in 0..30} |-> regs[CHOOSE i \in 0..30 : Offset(i) = o]]
    /\ UNCHANGED <<n, mem, system, mmu, tlb, regs, val>>

\* sync_exception_handler prints, and as a C function leaves x0 to x18 and x30 with
\* any value
Handle ==
    /\ Access("print", UartPage, "skip")
    /\ regs' = [i \in 0..30 |-> IF i <= 18 \/ i = 30 THEN 31 ELSE regs[i]]
    /\ UNCHANGED <<n, mem, system, mmu, tlb, frame, val>>

\* The instruction after the one ELR_EL1 points to
After(step) == MainSteps[1 + CHOOSE i \in 1..(Len(MainSteps) - 1) : MainSteps[i] = step]

\* The bug of returning to the instruction that has faulted.
SkipNothing ==
    /\ Step("skip", "restore")
    /\ UNCHANGED <<n, mem, system, mmu, tlb, regs, frame, elr, val>>

\* ELR_EL1 += 4
Skip ==
    /\ Step("skip", "restore")
    /\ elr' = After(elr)
    /\ UNCHANGED <<n, mem, system, mmu, tlb, regs, frame, val>>

\* The bug of not loading the link register.
RestoreButLink ==
    /\ Step("restore", elr)
    /\ regs' = [i \in 0..30 |-> IF i < 30 THEN frame[Offset(i)] ELSE regs[i]]
    /\ UNCHANGED <<n, mem, system, mmu, tlb, frame, elr, val>>

\* The registers come back; eret
Restore ==
    /\ Step("restore", elr)
    /\ regs' = [i \in 0..30 |-> frame[Offset(i)]]
    /\ UNCHANGED <<n, mem, system, mmu, tlb, frame, elr, val>>

\* while (1), or a processor without a vector to go to
Stopped == pc \in {"idle", "lost"} /\ UNCHANGED vars

Boot == Start \/ Control \/ ZeroTable \/ Link \/ FillPage \/ Registers

Main == Banner \/ WriteTest \/ EnableMmu \/ Report \/ ReadTest \/ WriteBad \/ Resumed

Handler == Save \/ Handle \/ Skip \/ Restore

Next == Boot \/ Main \/ Handler \/ Stopped

\* The processor goes on executing instructions.
Spec == Init /\ [][Next]_vars /\ WF_vars(Next)

-----------------------------------------------------------------------------
(* Properties *)

TypeOK ==
    /\ pc \in {"start", "control", "zero", "link", "fill", "registers",
               "save", "print", "skip", "restore", "lost"} \cup InMain
    /\ n \in 0..(Entries - 1)
    /\ DOMAIN mem = TableWords \cup {TestWord}
    /\ \A a \in DOMAIN mem : mem[a] \in Nat
    /\ mmu \in BOOLEAN
    /\ \A i \in 0..30 : regs[i] \in 0..31
    /\ elr \in {"none", "print", "save"} \cup InMain
    /\ val \in Nat

\* From the moment the MMU is on, whatever memory and the TLB held before, every
\* page of DRAM, the kernel's among them (MmuAssumption), and of the UART is where
\* it was, DRAM as normal memory and the UART as a device: else the next
\* instruction could not be fetched.  Nothing else is mapped, which main relies on
\* to take its exception.
MappingIsExact ==
    mmu =>
        /\ \A p \in Dram : Goes(p) = {p} /\ Attribute(Walk(p).attr) = 255
        /\ \A p \in Uart : Goes(p) = {p} /\ Attribute(Walk(p).attr) = 0
        /\ \A p \in Probes \cup {BadPage} : Goes(p) = {}

\* What main wrote with the MMU off is what it reads with the MMU on.
ReadsBack == pc \in {"bad", "resumed", "idle"} => val = TestValue

\* Main finds every register as it left it, after the exception too.
RegistersKept == pc \in InMain => \A i \in 0..30 : regs[i] = i

\* The exception is taken once and main gets to its last loop.
Finishes == <>(pc = "idle")
=============================================================================
