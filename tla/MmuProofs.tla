------------------------------ MODULE MmuProofs ------------------------------
(***************************************************************************)
(* Proofs about Mmu, wherever the link script puts the tables, whatever    *)
(* memory and the TLB hold at power-on: the page tables that boot.S builds *)
(* map exactly what they should, and main gets past its bad access with    *)
(* its registers.                                                          *)
(*                                                                         *)
(* The invariant follows the loops of build_page_table word by word (Built *)
(* after so many stores); that the finished tables map exactly two regions *)
(* is then arithmetic about the walk (WalkExact).                          *)
(***************************************************************************)
EXTENDS Mmu, TLAPS

Indices == 0..(Entries - 1)

\* The content of the tables after the first k stores of Links, with the first m
\* pages of level 3 filled.
Built(k, m) ==
    \A i \in Indices :
        /\ mem[L0 * Entries + i] = IF i = 0 /\ k >= 1 THEN L1 * 4096 + 3 ELSE 0
        /\ mem[L1 * Entries + i] = IF i = 0 /\ k >= 2 THEN L2Periph * 4096 + 3
                                   ELSE IF i = 1 /\ k >= 3 THEN L2Dram * 4096 + 3 ELSE 0
        /\ mem[L2Periph * Entries + i] = IF i = 72 /\ k >= 4 THEN UartPage * 4096 + 1541 ELSE 0
        /\ mem[L2Dram * Entries + i] = IF i = 0 /\ k >= 5 THEN L3Dram * 4096 + 3 ELSE 0
        /\ mem[L3Dram * Entries + i] = IF i < m THEN (DramPage + i) * 4096 + 1795 ELSE 0

Building == {"start", "control", "zero", "link", "fill", "registers"}
Handling == {"save", "print", "skip", "restore"}

\* How far the tables are
TablesOK ==
    /\ DOMAIN mem = TableWords \cup {TestWord}
    /\ pc = "zero" => n \in 1..5 /\ \A t \in L0..L3Dram, i \in Indices : t < L0 + n - 1 => mem[t * Entries + i] = 0
    /\ pc = "link" => n \in 1..5 /\ Built(n - 1, 0)
    /\ pc = "fill" => n \in Indices /\ Built(5, n)
    /\ pc \in {"registers"} \cup InMain \cup Handling => Built(5, Entries)
    /\ pc \in {"enable", "report", "read", "bad", "resumed", "idle"} \cup Handling => mem[TestWord] = TestValue

\* The system registers, and the TLB once the MMU is on
SystemOK ==
    /\ pc \notin {"start", "control"} => mair = 255
    /\ pc \in InMain \cup Handling => ttbr0 = L0 /\ vbar = "vector_table"
    /\ mmu <=> (pc \in {"report", "read", "bad", "resumed", "idle"} \cup Handling)
    /\ mmu => tlb = <<>>

\* Where main is, and what the exception has kept of it
MainOK ==
    /\ pc \in Building \cup InMain \cup Handling
    /\ pc \in {"bad", "resumed", "idle"} \cup Handling => val = TestValue
    /\ pc \in {"save", "print", "skip"} => elr = "bad"
    /\ pc = "restore" => elr = "resumed"
    /\ pc \in {"print", "skip", "restore"} =>
        /\ DOMAIN frame = {Offset(i) : i \in 0..30}
        /\ \A i \in 0..30 : frame[Offset(i)] = i
    /\ pc \notin {"skip", "restore"} => \A i \in 0..30 : regs[i] = i

IInv == TypeOK /\ TablesOK /\ SystemOK /\ MainOK

-----------------------------------------------------------------------------
(* Words and descriptors *)

\* A word of a table is at one index of one table only.
LEMMA WordIsUnique ==
  ASSUME NEW t \in Nat, NEW i \in Indices
  PROVE  /\ (t * Entries + i) \div Entries = t
         /\ \A u \in Nat, j \in Indices : t * Entries + i = u * Entries + j => t = u /\ i = j
  BY DEF Indices, Entries

\* The tables are five different ones, and the test word is in none of them.
LEMMA TablesApart ==
  /\ L0 \in Nat /\ L1 = L0 + 1 /\ L2Periph = L0 + 2 /\ L2Dram = L0 + 3 /\ L3Dram = L0 + 4
  /\ L0..L3Dram = {L0, L1, L2Periph, L2Dram, L3Dram}
  /\ TableWords = {t * Entries + i : t \in L0..L3Dram, i \in Indices}
  /\ TestWord \notin TableWords
  /\ \A t \in L0..L3Dram : Tables[t - L0 + 1] = t
<1>1. /\ L0 \in Nat /\ L1 = L0 + 1 /\ L2Periph = L0 + 2 /\ L2Dram = L0 + 3 /\ L3Dram = L0 + 4
  BY MmuAssumption DEF L0, L1, L2Periph, L2Dram, L3Dram
<1>2. L0..L3Dram = {L0, L1, L2Periph, L2Dram, L3Dram}
  BY <1>1
<1>3. TableWords = {t * Entries + i : t \in L0..L3Dram, i \in Indices}
  BY DEF TableWords, Indices
<1>4. ASSUME NEW t \in L0..L3Dram, NEW i \in Indices PROVE t * Entries + i < TestWord
  BY <1>1, MmuAssumption DEF TestWord, TestPage, Entries, Indices
<1>5. TestWord \in Nat
  BY DEF TestWord, TestPage, Entries
<1>6. TestWord \notin TableWords
  <2> SUFFICES ASSUME NEW t \in L0..L3Dram, NEW i \in Indices, TestWord = t * Entries + i PROVE FALSE
    BY <1>3
  <2> QED
    BY <1>4, <1>5
<1>7. \A t \in L0..L3Dram : Tables[t - L0 + 1] = t
  BY <1>1, <1>2 DEF Tables
<1> QED
  BY <1>1, <1>2, <1>3, <1>6, <1>7

\* What the walk decodes of the descriptors that are stored: the address above
\* twelve bits of type, flag and attributes.
LEMMA Descriptor ==
  ASSUME NEW x \in Nat
  PROVE  /\ (x * 4096 + 3) % 4 = 3 /\ (x * 4096 + 3) \div 4096 = x
         /\ (x * 4096 + 1541) % 4 = 1 /\ (x * 4096 + 1541) \div 4096 = x
         /\ ((x * 4096 + 1541) \div 1024) % 2 = 1 /\ ((x * 4096 + 1541) \div 4) % 8 = 1
         /\ (x * 4096 + 1795) % 4 = 3 /\ (x * 4096 + 1795) \div 4096 = x
         /\ ((x * 4096 + 1795) \div 1024) % 2 = 1 /\ ((x * 4096 + 1795) \div 4) % 8 = 0
<1>1. /\ (x * 4096 + 3) % 4 = 3 /\ (x * 4096 + 3) \div 4096 = x
  OBVIOUS
<1>2. (x * 4096 + 1541) % 4 = 1 /\ (x * 4096 + 1541) \div 4096 = x
  OBVIOUS
<1>3. (x * 4096 + 1541) \div 1024 = x * 4 + 1 /\ (x * 4096 + 1541) \div 4 = x * 1024 + 385
  OBVIOUS
<1>4. (x * 4 + 1) % 2 = 1 /\ (x * 1024 + 385) % 8 = 1
  OBVIOUS
<1>5. (x * 4096 + 1795) % 4 = 3 /\ (x * 4096 + 1795) \div 4096 = x
  OBVIOUS
<1>6. (x * 4096 + 1795) \div 1024 = x * 4 + 1 /\ (x * 4096 + 1795) \div 4 = x * 1024 + 448
  OBVIOUS
<1>7. (x * 1024 + 448) % 8 = 0
  OBVIOUS
<1> QED
  BY <1>1, <1>2, <1>3, <1>4, <1>5, <1>6, <1>7

-----------------------------------------------------------------------------
(* The walk through the finished tables *)

\* The part of the page number that a level looks at, for a 48-bit address
LEMMA IndexRange ==
  ASSUME NEW p, Addressable(p)
  PROVE  /\ \A level \in 0..3 : Index(level, p) \in Indices
         /\ p \in Uart <=> Index(0, p) = 0 /\ Index(1, p) = 0 /\ Index(2, p) = 72
         /\ p \in Dram <=> Index(0, p) = 0 /\ Index(1, p) = 1 /\ Index(2, p) = 0
         /\ p \in Uart => p = UartPage + (p % 512)
         /\ p \in Dram => p = DramPage + Index(3, p)
<1> DEFINE i0 == p \div 134217728
           i1 == (p \div 262144) % 512
           i2 == (p \div 512) % 512
           i3 == p % 512
<1>1. Index(0, p) = i0 /\ Index(1, p) = i1 /\ Index(2, p) = i2 /\ Index(3, p) = i3
  BY DEF Index, Entries
<1>2. p \in Nat /\ i0 \in 0..511 /\ i1 \in 0..511 /\ i2 \in 0..511 /\ i3 \in 0..511
  BY SMT DEF Addressable, Entries
<1>3. p = i0 * 134217728 + i1 * 262144 + i2 * 512 + i3
  BY SMT DEF Addressable
<1>4. Uart = 36864..37375 /\ Dram = 262144..262655
  BY SMT DEF Uart, Dram, UartPage, DramPage, Entries
<1> HIDE DEF i0, i1, i2, i3
<1>5. p \in Uart <=> i0 = 0 /\ i1 = 0 /\ i2 = 72
  BY <1>2, <1>3, <1>4
<1>6. p \in Dram <=> i0 = 0 /\ i1 = 1 /\ i2 = 0
  BY <1>2, <1>3, <1>4
<1>7. p \in Dram => p = DramPage + i3
  BY <1>3, <1>6 DEF DramPage
<1>8. p \in Uart => p = UartPage + (p % 512)
  BY <1>3, <1>5 DEF UartPage, i3
<1>9. ASSUME NEW level \in 0..3 PROVE Index(level, p) \in Indices
  BY <1>1, <1>2 DEF Indices, Entries
<1> QED
  BY <1>1, <1>5, <1>6, <1>7, <1>8, <1>9

Finished == DOMAIN mem = TableWords \cup {TestWord} /\ Built(5, Entries) /\ ttbr0 = L0

\* Level 0 leads on for the first 512 GB only, and level 1 for two of them.
LEMMA WalkTop ==
  ASSUME Finished, NEW p, Addressable(p)
  PROVE  WalkLevel(1, WalkLevel(0, Result("table", ttbr0, 0), p), p) =
            IF Index(0, p) # 0 THEN Result("fault", 0, 0)
            ELSE IF Index(1, p) = 0 THEN Result("table", L2Periph, 0)
            ELSE IF Index(1, p) = 1 THEN Result("table", L2Dram, 0)
            ELSE Result("fault", 1, 0)
<1>1. Index(0, p) \in Indices /\ Index(1, p) \in Indices
  BY IndexRange
<1>2. /\ Word(L0 * Entries + Index(0, p)) = mem[L0 * Entries + Index(0, p)]
      /\ Word(L1 * Entries + Index(1, p)) = mem[L1 * Entries + Index(1, p)]
  BY <1>1, TablesApart DEF Word, Finished
<1>3. Word(L0 * Entries + Index(0, p)) = IF Index(0, p) = 0 THEN L1 * 4096 + 3 ELSE 0
  BY <1>1, <1>2 DEF Finished, Built
<1>4. Word(L1 * Entries + Index(1, p)) =
        IF Index(1, p) = 0 THEN L2Periph * 4096 + 3
        ELSE IF Index(1, p) = 1 THEN L2Dram * 4096 + 3 ELSE 0
  BY <1>1, <1>2 DEF Finished, Built
<1>5. WalkLevel(0, Result("table", ttbr0, 0), p) =
        IF Index(0, p) = 0 THEN Result("table", L1, 0) ELSE Result("fault", 0, 0)
  BY <1>3, TablesApart, Descriptor DEF WalkLevel, Result, Finished
<1>6. ASSUME Index(0, p) = 0
      PROVE  WalkLevel(1, Result("table", L1, 0), p) =
               IF Index(1, p) = 0 THEN Result("table", L2Periph, 0)
               ELSE IF Index(1, p) = 1 THEN Result("table", L2Dram, 0)
               ELSE Result("fault", 1, 0)
  BY <1>4, TablesApart, Descriptor DEF WalkLevel, Result
<1>7. WalkLevel(1, Result("fault", 0, 0), p) = Result("fault", 0, 0)
  BY DEF WalkLevel, Result
<1> QED
  BY <1>5, <1>6, <1>7

\* The tables map the UART and the DRAM block to themselves, with their attributes,
\* and no other page.
LEMMA WalkExact ==
  ASSUME Finished, NEW p, Addressable(p)
  PROVE  /\ p \in Dram => Walk(p) = Result("page", p, 0)
         /\ p \in Uart => Walk(p) = Result("page", p, 1)
         /\ p \notin Dram \cup Uart => Walk(p).is # "page"
<1> DEFINE top == WalkLevel(1, WalkLevel(0, Result("table", ttbr0, 0), p), p)
<1>0. p \in Nat
  BY DEF Addressable
<1>1. Walk(p) = WalkLevel(3, WalkLevel(2, top, p), p)
  BY DEF Walk
<1>2. /\ top = IF Index(0, p) # 0 THEN Result("fault", 0, 0)
               ELSE IF Index(1, p) = 0 THEN Result("table", L2Periph, 0)
               ELSE IF Index(1, p) = 1 THEN Result("table", L2Dram, 0)
               ELSE Result("fault", 1, 0)
  BY WalkTop
<1> HIDE DEF top
<1>3. Index(2, p) \in Indices /\ Index(3, p) \in Indices
  BY IndexRange
<1>4. /\ Word(L2Periph * Entries + Index(2, p)) = mem[L2Periph * Entries + Index(2, p)]
      /\ Word(L2Dram * Entries + Index(2, p)) = mem[L2Dram * Entries + Index(2, p)]
      /\ Word(L3Dram * Entries + Index(3, p)) = mem[L3Dram * Entries + Index(3, p)]
  BY <1>3, TablesApart DEF Word, Finished
<1>5. Word(L2Periph * Entries + Index(2, p)) = IF Index(2, p) = 72 THEN UartPage * 4096 + 1541 ELSE 0
  BY <1>3, <1>4 DEF Finished, Built
<1>6. Word(L2Dram * Entries + Index(2, p)) = IF Index(2, p) = 0 THEN L3Dram * 4096 + 3 ELSE 0
  BY <1>3, <1>4 DEF Finished, Built
<1>7. Word(L3Dram * Entries + Index(3, p)) = (DramPage + Index(3, p)) * 4096 + 1795
  BY <1>3, <1>4 DEF Finished, Built, Indices, Entries
<1>8. \A level, f : f.is # "table" => WalkLevel(level, f, p) = f
  BY DEF WalkLevel
<1>9. CASE p \in Uart
  <2>1. top = Result("table", L2Periph, 0) /\ Index(2, p) = 72 /\ p = UartPage + (p % 512)
    BY <1>2, <1>9, IndexRange
  <2>2. WalkLevel(2, top, p) = Result("page", UartPage - (UartPage % 512) + (p % 512), 1)
    BY <1>5, <2>1, Descriptor DEF WalkLevel, Result, BlockSize, UartPage
  <2>3. UartPage % 512 = 0
    BY SMT DEF UartPage
  <2>4. UartPage - (UartPage % 512) + (p % 512) = p
    BY <1>0, <2>1, <2>3, SMT DEF UartPage
  <2>5. WalkLevel(3, Result("page", p, 1), p) = Result("page", p, 1)
    BY DEF WalkLevel, Result
  <2>6. p \notin Dram
    BY <1>9, IndexRange
  <2> QED
    BY <1>1, <1>9, <2>2, <2>4, <2>5, <2>6
<1>10. CASE p \in Dram
  <2>1. top = Result("table", L2Dram, 0) /\ Index(2, p) = 0 /\ p = DramPage + Index(3, p)
    BY <1>2, <1>10, IndexRange
  <2>2. WalkLevel(2, top, p) = Result("table", L3Dram, 0)
    BY <1>6, <2>1, TablesApart, Descriptor DEF WalkLevel, Result
  <2>3. WalkLevel(3, Result("table", L3Dram, 0), p) = Result("page", p - (p % 1) + (p % 1), 0)
    BY <1>0, <1>7, <2>1, Descriptor DEF WalkLevel, Result, BlockSize
  <2>4. p - (p % 1) + (p % 1) = p
    BY <1>0, SMT
  <2>5. p \notin Uart
    BY <1>10, IndexRange
  <2> QED
    BY <1>1, <1>10, <2>2, <2>3, <2>4, <2>5
<1>11. CASE p \notin Dram \cup Uart
  <2>1. CASE top = Result("fault", 0, 0) \/ top = Result("fault", 1, 0)
    <3>1. top.is = "fault"
      BY <2>1 DEF Result
    <3>2. Walk(p) = top
      BY <1>1, <1>8, <3>1
    <3> QED
      BY <1>11, <3>1, <3>2
  <2>2. CASE top = Result("table", L2Periph, 0)
    <3>1. Index(2, p) # 72
      BY <1>2, <1>11, <2>2, IndexRange, TablesApart DEF Result
    <3>2. WalkLevel(2, top, p) = Result("fault", 2, 0)
      BY <1>5, <2>2, <3>1 DEF WalkLevel, Result
    <3> QED
      BY <1>1, <1>8, <1>11, <3>2 DEF Result
  <2>3. CASE top = Result("table", L2Dram, 0)
    <3>1. Index(2, p) # 0
      BY <1>2, <1>11, <2>3, IndexRange, TablesApart DEF Result
    <3>2. WalkLevel(2, top, p) = Result("fault", 2, 0)
      BY <1>6, <2>3, <3>1 DEF WalkLevel, Result
    <3> QED
      BY <1>1, <1>8, <1>11, <3>2 DEF Result
  <2> QED
    BY <1>2, <2>1, <2>2, <2>3
<1> QED
  BY <1>9, <1>10, <1>11

\* A translation is exact once the tables are finished and the TLB is empty, and is
\* none at all while the MMU is off.
LEMMA GoesExact ==
  ASSUME Finished, mmu => tlb = <<>>, NEW p, Addressable(p)
  PROVE  /\ p \in Dram \cup Uart => Goes(p) = {p}
         /\ mmu /\ p \notin Dram \cup Uart => Goes(p) = {}
<1>1. p \notin DOMAIN <<>>
  OBVIOUS
<1>2. CASE ~mmu
  BY <1>2 DEF Goes
<1>3. CASE mmu
  BY <1>1, <1>3, WalkExact DEF Goes, Result
<1> QED
  BY <1>2, <1>3

\* The pages main and the exception handler use are mapped, the bad one is not.
LEMMA PagesUsed ==
  /\ UartPage \in Uart /\ TestPage \in Dram /\ StackTop - 1 \in Dram
  /\ BadPage \notin Dram \cup Uart
  /\ Addressable(UartPage) /\ Addressable(TestPage) /\ Addressable(StackTop - 1) /\ Addressable(BadPage)
  /\ \A p \in Dram \cup Uart : Addressable(p)
<1>1. Uart = 36864..37375 /\ Dram = 262144..262655
  BY SMT DEF Uart, Dram, UartPage, DramPage, Entries
<1>2. StackTop - 1 \in KernelPages
  BY MmuAssumption, SMT DEF StackTop, KernelPages, DramPage
<1>3. StackTop - 1 \in Dram
  BY <1>2, MmuAssumption
<1>4. \A p \in Dram \cup Uart : Addressable(p)
  BY <1>1, SMT DEF Entries, Addressable
<1>5. UartPage \in Uart /\ TestPage \in Dram /\ BadPage \notin Dram \cup Uart
  BY <1>1, SMT DEF UartPage, TestPage, BadPage
<1>6. Addressable(BadPage)
  BY SMT DEF BadPage, Entries, Addressable
<1> QED
  BY <1>3, <1>4, <1>5, <1>6

-----------------------------------------------------------------------------
(* The inductive invariant *)

\* The names of main's steps
LEMMA MainNames == InMain = {"banner", "write", "enable", "report", "read", "bad", "resumed", "idle"}
<1>1. DOMAIN MainSteps = 1..8
  BY DEF MainSteps
<1>2. \A i \in 1..8 : i \in {1, 2, 3, 4, 5, 6, 7, 8}
  OBVIOUS
<1> QED
  BY <1>1, <1>2 DEF InMain, MainSteps

\* A processor that has just been switched on satisfies the invariant.
LEMMA InitInv == Init => IInv
<1> SUFFICES ASSUME Init PROVE IInv
  OBVIOUS
<1>1. PICK g \in Garbage : mem = [a \in TableWords \cup {TestWord} |-> g]
  BY DEF Init
<1>2. TypeOK
  <2>1. DOMAIN mem = TableWords \cup {TestWord} /\ \A a \in DOMAIN mem : mem[a] \in Nat
    BY <1>1, MmuAssumption
  <2>2. n \in 0..(Entries - 1) /\ \A i \in 0..30 : regs[i] \in 0..31
    BY DEF Init, Entries
  <2> QED
    BY <2>1, <2>2 DEF Init, TypeOK
<1>3. TablesOK
  BY <1>1, MainNames DEF Init, TablesOK, Handling
<1>4. SystemOK
  BY MainNames DEF Init, SystemOK, Handling
<1>5. MainOK
  BY MainNames DEF Init, MainOK, Handling, Building
<1> QED
  BY <1>2, <1>3, <1>4, <1>5 DEF IInv

\* Clearing a table finishes it and leaves the others as they were.
LEMMA ZeroInv == IInv /\ ZeroTable => IInv'
<1> SUFFICES ASSUME IInv, ZeroTable PROVE IInv'
  OBVIOUS
<1> USE MainNames DEF IInv, ZeroTable, system, Handling, Building
<1>1. n \in 1..5 /\ pc = "zero" /\ DOMAIN mem = TableWords \cup {TestWord} /\ Len(Tables) = 5
  BY DEF TablesOK, Tables
<1>2. Tables[n] = L0 + n - 1 /\ Tables[n] \in L0..L3Dram
  <2>1. L0 + n - 1 \in L0..L3Dram /\ (L0 + n - 1) - L0 + 1 = n
    BY <1>1, TablesApart
  <2> QED
    BY <2>1, TablesApart
<1>3. \A t \in L0..L3Dram, i \in Indices :
        mem'[t * Entries + i] = IF t = Tables[n] THEN 0 ELSE mem[t * Entries + i]
  <2> SUFFICES ASSUME NEW t \in L0..L3Dram, NEW i \in Indices
               PROVE  mem'[t * Entries + i] = IF t = Tables[n] THEN 0 ELSE mem[t * Entries + i]
    OBVIOUS
  <2>1. t * Entries + i \in DOMAIN mem /\ (t * Entries + i) \div Entries = t
    BY <1>1, TablesApart, WordIsUnique
  <2> QED
    BY <2>1
<1>4. \A t \in L0..L3Dram, i \in Indices : t < L0 + n => mem'[t * Entries + i] = 0
  <2> SUFFICES ASSUME NEW t \in L0..L3Dram, NEW i \in Indices, t < L0 + n PROVE mem'[t * Entries + i] = 0
    OBVIOUS
  <2>1. CASE t = Tables[n]
    BY <1>3, <2>1
  <2>2. CASE t # Tables[n]
    <3>1. t < L0 + n - 1
      BY <1>1, <1>2, <2>2, TablesApart
    <3>2. mem[t * Entries + i] = 0
      BY <1>1, <3>1 DEF TablesOK
    <3> QED
      BY <1>3, <2>2, <3>2
  <2> QED
    BY <2>1, <2>2
<1>5. CASE n = 5
  <2>1. Built(0, 0)'
    <3>1. /\ L0 < L0 + n /\ L1 < L0 + n /\ L2Periph < L0 + n /\ L2Dram < L0 + n /\ L3Dram < L0 + n
          /\ {L0, L1, L2Periph, L2Dram, L3Dram} = L0..L3Dram
      BY <1>5, TablesApart
    <3>2. ASSUME NEW i \in Indices
          PROVE  /\ mem'[L0 * Entries + i] = 0 /\ mem'[L1 * Entries + i] = 0 /\ mem'[L2Periph * Entries + i] = 0
                 /\ mem'[L2Dram * Entries + i] = 0 /\ mem'[L3Dram * Entries + i] = 0
      BY <1>4, <3>1
    <3> QED
      BY <3>2 DEF Built, Indices
  <2>2. n' = 1 /\ pc' = "link" /\ n' - 1 = 0
    BY <1>1, <1>5
  <2>3. TablesOK'
    BY <1>1, <2>1, <2>2 DEF TablesOK
  <2>4. TypeOK'
    BY <1>1, <2>2 DEF TypeOK, Entries
  <2> QED
    BY <1>1, <2>2, <2>3, <2>4 DEF SystemOK, MainOK
<1>6. CASE n # 5
  <2>1. n' = n + 1 /\ pc' = "zero" /\ n' \in 1..5 /\ L0 + n' - 1 = L0 + n
    BY <1>1, <1>6, TablesApart
  <2>2. TablesOK'
    BY <1>1, <1>4, <2>1 DEF TablesOK
  <2>3. TypeOK'
    BY <1>1, <2>1 DEF TypeOK, Entries
  <2> QED
    BY <1>1, <2>1, <2>2, <2>3 DEF SystemOK, MainOK
<1> QED
  BY <1>5, <1>6

\* One store changes one word of one table.
LEMMA StoreWord ==
  ASSUME DOMAIN mem = TableWords \cup {TestWord},
         NEW t \in L0..L3Dram, NEW j \in Indices, NEW d,
         DOMAIN mem' = DOMAIN mem,
         \A a \in DOMAIN mem : mem'[a] = IF a = t * Entries + j THEN d ELSE mem[a]
  PROVE  /\ mem'[TestWord] = mem[TestWord]
         /\ \A a \in DOMAIN mem : mem'[a] \in {mem[a], d}
         /\ \A u \in L0..L3Dram, i \in Indices :
                mem'[u * Entries + i] = IF u = t /\ i = j THEN d ELSE mem[u * Entries + i]
<1>1. t * Entries + j \in DOMAIN mem /\ t * Entries + j # TestWord
  BY TablesApart
<1>2. ASSUME NEW u \in L0..L3Dram, NEW i \in Indices
      PROVE  mem'[u * Entries + i] = IF u = t /\ i = j THEN d ELSE mem[u * Entries + i]
  <2>1. u * Entries + i \in DOMAIN mem
    BY TablesApart
  <2>2. u * Entries + i = t * Entries + j <=> u = t /\ i = j
    BY WordIsUnique, TablesApart
  <2> QED
    BY <2>1, <2>2
<1> QED
  BY <1>1, <1>2

\* Each store of build_page_table above level 3 adds its one entry.
LEMMA LinkInv == IInv /\ Link => IInv'
<1> SUFFICES ASSUME IInv, Link PROVE IInv'
  OBVIOUS
<1> USE MainNames DEF IInv, Link, system, Handling, Building
<1>1. n \in 1..5 /\ pc = "link" /\ DOMAIN mem = TableWords \cup {TestWord} /\ Len(Links) = 5
  BY DEF TablesOK, Links
<1> PICK t, j, d : t = Links[n][1] /\ j = Links[n][2] /\ d = Links[n][3]
  OBVIOUS
<1>e. /\ n = 1 => t = L0 /\ j = 0 /\ d = L1 * 4096 + 3
      /\ n = 2 => t = L1 /\ j = 0 /\ d = L2Periph * 4096 + 3
      /\ n = 3 => t = L1 /\ j = 1 /\ d = L2Dram * 4096 + 3
      /\ n = 4 => t = L2Periph /\ j = 72 /\ d = UartPage * 4096 + 1541
      /\ n = 5 => t = L2Dram /\ j = 0 /\ d = L3Dram * 4096 + 3
  BY DEF Links
<1>3. /\ DOMAIN mem' = DOMAIN mem
      /\ \A a \in DOMAIN mem : mem'[a] = IF a = t * Entries + j THEN d ELSE mem[a]
  OBVIOUS
<1>n. n \in {1, 2, 3, 4, 5}
  BY <1>1
<1>2. t \in L0..L3Dram /\ j \in Indices /\ d \in Nat
  <2>1. 0 \in Indices /\ 1 \in Indices /\ 72 \in Indices
    BY DEF Indices, Entries
  <2>2. UartPage * 4096 + 1541 \in Nat
    BY SMT DEF UartPage
  <2>3. t \in {L0, L1, L2Periph, L2Dram} /\ j \in Indices
    BY <1>e, <1>n, <2>1
  <2>4. d \in Nat
    BY <1>e, <1>n, <2>2, TablesApart
  <2> QED
    BY <2>3, <2>4, TablesApart
<1>4. /\ DOMAIN mem' = DOMAIN mem
      /\ \A a \in DOMAIN mem : mem'[a] \in {mem[a], d}
      /\ \A u \in L0..L3Dram, i \in Indices :
            mem'[u * Entries + i] = IF u = t /\ i = j THEN d ELSE mem[u * Entries + i]
  BY <1>1, <1>2, <1>3, StoreWord
<1>5. ASSUME NEW k, k = n PROVE Built(k, 0)'
  <2>1. Built(k - 1, 0)
    BY <1>1, <1>5 DEF TablesOK
  <2>2. k \in {1, 2, 3, 4, 5}
    BY <1>n, <1>5
  <2> SUFFICES ASSUME NEW i \in Indices PROVE
        /\ mem'[L0 * Entries + i] = IF i = 0 /\ k >= 1 THEN L1 * 4096 + 3 ELSE 0
        /\ mem'[L1 * Entries + i] = IF i = 0 /\ k >= 2 THEN L2Periph * 4096 + 3
                                   ELSE IF i = 1 /\ k >= 3 THEN L2Dram * 4096 + 3 ELSE 0
        /\ mem'[L2Periph * Entries + i] = IF i = 72 /\ k >= 4 THEN UartPage * 4096 + 1541 ELSE 0
        /\ mem'[L2Dram * Entries + i] = IF i = 0 /\ k >= 5 THEN L3Dram * 4096 + 3 ELSE 0
        /\ mem'[L3Dram * Entries + i] = IF i < 0 THEN (DramPage + i) * 4096 + 1795 ELSE 0
    BY DEF Built
  <2>3. /\ mem[L0 * Entries + i] = IF i = 0 /\ k - 1 >= 1 THEN L1 * 4096 + 3 ELSE 0
        /\ mem[L1 * Entries + i] = IF i = 0 /\ k - 1 >= 2 THEN L2Periph * 4096 + 3
                                   ELSE IF i = 1 /\ k - 1 >= 3 THEN L2Dram * 4096 + 3 ELSE 0
        /\ mem[L2Periph * Entries + i] = IF i = 72 /\ k - 1 >= 4 THEN UartPage * 4096 + 1541 ELSE 0
        /\ mem[L2Dram * Entries + i] = IF i = 0 /\ k - 1 >= 5 THEN L3Dram * 4096 + 3 ELSE 0
        /\ mem[L3Dram * Entries + i] = 0
    BY <2>1 DEF Built, Indices
  <2>4. i \in Nat /\ ~(i < 0)
    BY DEF Indices
  <2>5. \A u \in {L0, L1, L2Periph, L2Dram, L3Dram} :
            mem'[u * Entries + i] = IF u = t /\ i = j THEN d ELSE mem[u * Entries + i]
    BY <1>4, TablesApart
  <2> QED
    BY <1>5, <1>e, <2>2, <2>3, <2>4, <2>5, TablesApart
<1>6. \A a \in DOMAIN mem' : mem'[a] \in Nat
  BY <1>2, <1>4 DEF TypeOK
<1> HIDE DEF Link
<1>7. CASE n = 5
  <2>1. n' = 0 /\ pc' = "fill" /\ UNCHANGED <<mair, ttbr0, vbar, mmu, tlb, regs, frame, elr, val>>
    BY <1>1, <1>7 DEF Link
  <2>2. Built(5, 0)'
    BY <1>5, <1>7
  <2>3. TablesOK'
    BY <1>1, <1>4, <2>1, <2>2 DEF TablesOK, Indices, Entries
  <2>4. TypeOK'
    BY <1>1, <1>4, <1>6, <2>1 DEF TypeOK, Entries
  <2> QED
    BY <1>1, <2>1, <2>3, <2>4 DEF SystemOK, MainOK
<1>8. CASE n # 5
  <2>1. /\ n' = n + 1 /\ pc' = "link" /\ n' \in 1..5 /\ n' - 1 = n
        /\ UNCHANGED <<mair, ttbr0, vbar, mmu, tlb, regs, frame, elr, val>>
    BY <1>1, <1>8 DEF Link
  <2>2. TablesOK'
    BY <1>1, <1>4, <1>5, <2>1 DEF TablesOK
  <2>3. TypeOK'
    BY <1>1, <1>4, <1>6, <2>1 DEF TypeOK, Entries
  <2> QED
    BY <1>1, <2>1, <2>2, <2>3 DEF SystemOK, MainOK
<1> QED
  BY <1>7, <1>8

\* Each turn of l3_loop maps one page more.
LEMMA FillInv == IInv /\ FillPage => IInv'
<1> SUFFICES ASSUME IInv, FillPage PROVE IInv'
  OBVIOUS
<1> USE MainNames DEF IInv, system, Handling, Building
<1>1. n \in Indices /\ pc = "fill" /\ DOMAIN mem = TableWords \cup {TestWord} /\ Built(5, n)
  BY DEF FillPage, TablesOK
<1> DEFINE d == (DramPage + n) * 4096 + 1795
<1>2. d \in Nat /\ L3Dram \in L0..L3Dram
  BY <1>1, TablesApart DEF DramPage, Indices
<1>3. L3Dram * Entries + n \in DOMAIN mem
  BY <1>1, <1>2, TablesApart
<1>4. /\ DOMAIN mem' = DOMAIN mem
      /\ \A a \in DOMAIN mem : mem'[a] = IF a = L3Dram * Entries + n THEN d ELSE mem[a]
  BY <1>3 DEF FillPage
<1> HIDE DEF d
<1>5. /\ DOMAIN mem' = DOMAIN mem
      /\ \A a \in DOMAIN mem : mem'[a] \in {mem[a], d}
      /\ \A u \in L0..L3Dram, i \in Indices :
            mem'[u * Entries + i] = IF u = L3Dram /\ i = n THEN d ELSE mem[u * Entries + i]
  BY <1>1, <1>2, <1>4, StoreWord
<1>6. ASSUME NEW k, k = n + 1 PROVE Built(5, k)'
  <2> SUFFICES ASSUME NEW i \in Indices PROVE
        /\ mem'[L0 * Entries + i] = IF i = 0 /\ 5 >= 1 THEN L1 * 4096 + 3 ELSE 0
        /\ mem'[L1 * Entries + i] = IF i = 0 /\ 5 >= 2 THEN L2Periph * 4096 + 3
                                   ELSE IF i = 1 /\ 5 >= 3 THEN L2Dram * 4096 + 3 ELSE 0
        /\ mem'[L2Periph * Entries + i] = IF i = 72 /\ 5 >= 4 THEN UartPage * 4096 + 1541 ELSE 0
        /\ mem'[L2Dram * Entries + i] = IF i = 0 /\ 5 >= 5 THEN L3Dram * 4096 + 3 ELSE 0
        /\ mem'[L3Dram * Entries + i] = IF i < k THEN (DramPage + i) * 4096 + 1795 ELSE 0
    BY DEF Built
  <2>1. \A u \in {L0, L1, L2Periph, L2Dram, L3Dram} :
            mem'[u * Entries + i] = IF u = L3Dram /\ i = n THEN d ELSE mem[u * Entries + i]
    BY <1>5, TablesApart
  <2>2. mem'[L3Dram * Entries + i] = IF i < k THEN (DramPage + i) * 4096 + 1795 ELSE 0
    <3>1. mem[L3Dram * Entries + i] = IF i < n THEN (DramPage + i) * 4096 + 1795 ELSE 0
      BY <1>1 DEF Built
    <3>2. i < k <=> i < n \/ i = n
      BY <1>1, <1>6 DEF Indices
    <3>3. i = n => ~(i < n)
      BY <1>1 DEF Indices
    <3> QED
      BY <2>1, <3>1, <3>2, <3>3 DEF d
  <2> QED
    BY <1>1, <2>1, <2>2, TablesApart DEF Built
<1>7. \A a \in DOMAIN mem' : mem'[a] \in Nat
  BY <1>2, <1>5 DEF TypeOK
<1>8. CASE n = Entries - 1
  <2>1. /\ n' = 0 /\ pc' = "registers"
        /\ UNCHANGED <<mair, ttbr0, vbar, mmu, tlb, regs, frame, elr, val>>
    BY <1>1, <1>8 DEF FillPage
  <2>2. Entries = n + 1
    BY <1>8 DEF Entries
  <2>3. Built(5, Entries)'
    BY <1>6, <2>2
  <2>4. TablesOK'
    BY <1>1, <1>5, <2>1, <2>3 DEF TablesOK
  <2>5. TypeOK'
    BY <1>1, <1>5, <1>7, <2>1 DEF TypeOK, Entries
  <2> QED
    BY <1>1, <2>1, <2>4, <2>5 DEF SystemOK, MainOK
<1>9. CASE n # Entries - 1
  <2>1. /\ n' = n + 1 /\ pc' = "fill" /\ n' \in Indices
        /\ UNCHANGED <<mair, ttbr0, vbar, mmu, tlb, regs, frame, elr, val>>
    BY <1>1, <1>9 DEF FillPage, Indices, Entries
  <2>2. Built(5, n)'
    BY <1>6, <2>1
  <2>3. TablesOK'
    BY <1>1, <1>5, <2>1, <2>2 DEF TablesOK
  <2>4. TypeOK'
    BY <1>1, <1>5, <1>7, <2>1 DEF TypeOK, Indices
  <2> QED
    BY <1>1, <2>1, <2>3, <2>4 DEF SystemOK, MainOK
<1> QED
  BY <1>8, <1>9

\* What main and the exception handler find when they access memory
LEMMA Accesses ==
  ASSUME IInv, pc \in InMain \cup Handling
  PROVE  /\ Finished
         /\ Goes(UartPage) = {UartPage} /\ Goes(TestPage) = {TestPage} /\ Goes(StackTop - 1) = {StackTop - 1}
         /\ mmu => Goes(BadPage) = {}
         /\ UartPage # BadPage
<1>1. Finished /\ (mmu => tlb = <<>>)
  BY DEF IInv, TablesOK, SystemOK, Finished
<1>2. UartPage # BadPage
  BY PagesUsed
<1> QED
  BY <1>1, <1>2, GoesExact, PagesUsed

\* Before the tables are built, and between them and main, nothing is lost.
LEMMA BootInv == IInv /\ (Start \/ Control \/ Registers) => IInv'
<1> SUFFICES ASSUME IInv, Start \/ Control \/ Registers PROVE IInv'
  OBVIOUS
<1> USE MainNames DEF IInv, system, Handling, Building, Step
<1>1. CASE Start
  BY <1>1 DEF Start, TypeOK, TablesOK, SystemOK, MainOK
<1>2. CASE Control
  <2>1. TypeOK' /\ SystemOK' /\ MainOK'
    BY <1>2 DEF Control, TypeOK, SystemOK, MainOK, Entries
  <2>2. \A t \in L0..L3Dram : ~(t < L0 + 1 - 1)
    BY TablesApart
  <2>3. TablesOK'
    BY <1>2, <2>2 DEF Control, TablesOK
  <2> QED
    BY <2>1, <2>3
<1>3. CASE Registers
  <2>1. TypeOK' /\ SystemOK' /\ MainOK'
    BY <1>3 DEF Registers, TypeOK, SystemOK, MainOK
  <2>2. TablesOK'
    BY <1>3 DEF Registers, TablesOK, Built
  <2> QED
    BY <2>1, <2>2
<1> QED
  BY <1>1, <1>2, <1>3

\* main's steps leave the tables alone, and only the bad access faults.
LEMMA MainInv == IInv /\ Main => IInv'
<1> SUFFICES ASSUME IInv, Main PROVE IInv'
  OBVIOUS
<1> USE MainNames DEF IInv, system, Handling, Building, Step
<1>1. pc \in InMain \cup Handling
  BY DEF Main, Banner, WriteTest, EnableMmu, Report, ReadTest, WriteBad, Resumed, Puts, Access
<1>2. /\ Finished
      /\ Goes(UartPage) = {UartPage} /\ Goes(TestPage) = {TestPage}
      /\ mmu => Goes(BadPage) = {}
  BY <1>1, Accesses
<1>3. ASSUME NEW from, NEW to, Puts(from, to)
      PROVE  pc = from /\ pc' = to /\ UNCHANGED <<n, mem, system, mmu, tlb, regs, frame, elr, val>>
  BY <1>2, <1>3 DEF Puts, Access
<1>4. CASE Banner \/ Report \/ Resumed
  <2>1. /\ \/ pc = "banner" /\ pc' = "write"
           \/ pc = "report" /\ pc' = "read"
           \/ pc = "resumed" /\ pc' = "idle"
        /\ UNCHANGED <<n, mem, system, mmu, tlb, regs, frame, elr, val>>
    BY <1>3, <1>4 DEF Banner, Report, Resumed
  <2>2. TablesOK'
    BY <2>1 DEF TablesOK, Built
  <2>3. TypeOK' /\ SystemOK'
    BY <2>1 DEF TypeOK, SystemOK
  <2>4. MainOK'
    BY <2>1 DEF MainOK
  <2> QED
    BY <2>2, <2>3, <2>4
<1>5. CASE WriteTest
  <2>1. /\ pc = "write" /\ pc' = "enable"
        /\ UNCHANGED <<n, system, mmu, tlb, regs, frame, elr, val>>
        /\ mem' = [mem EXCEPT ![TestWord] = TestValue]
    BY <1>2, <1>5 DEF WriteTest, Access
  <2>2. /\ DOMAIN mem' = DOMAIN mem /\ mem'[TestWord] = TestValue
        /\ \A a \in TableWords : mem'[a] = mem[a]
    BY <2>1, TablesApart DEF TablesOK
  <2>3. Built(5, Entries)'
    <3>1. \A t \in {L0, L1, L2Periph, L2Dram, L3Dram}, i \in Indices : mem'[t * Entries + i] = mem[t * Entries + i]
      BY <2>2, TablesApart
    <3> QED
      BY <1>2, <3>1 DEF Finished, Built
  <2>4. TablesOK'
    BY <2>1, <2>2, <2>3 DEF TablesOK
  <2>5. \A a \in DOMAIN mem' : mem'[a] \in Nat
    <3>1. TestValue \in Nat
      BY SMT DEF TestValue
    <3> QED
      BY <2>1, <2>2, <3>1 DEF TypeOK
  <2>6. TypeOK' /\ SystemOK' /\ MainOK'
    BY <2>1, <2>2, <2>5 DEF TypeOK, SystemOK, MainOK
  <2> QED
    BY <2>4, <2>6
<1>6. CASE EnableMmu
  <2>1. TypeOK' /\ SystemOK' /\ MainOK'
    BY <1>6 DEF EnableMmu, TypeOK, SystemOK, MainOK
  <2>2. TablesOK'
    BY <1>6 DEF EnableMmu, TablesOK, Built
  <2> QED
    BY <2>1, <2>2
<1>7. CASE ReadTest
  <2>1. /\ pc = "read" /\ pc' = "bad" /\ val' = Word(TestWord)
        /\ UNCHANGED <<n, mem, system, mmu, tlb, regs, frame, elr>>
    BY <1>2, <1>7 DEF ReadTest, Access, TestWord
  <2>2. val' = TestValue /\ val' \in Nat
    BY <2>1 DEF TablesOK, TypeOK, Word
  <2>3. TypeOK' /\ SystemOK' /\ MainOK'
    BY <2>1, <2>2 DEF TypeOK, SystemOK, MainOK
  <2>4. TablesOK'
    BY <2>1 DEF TablesOK, Built
  <2> QED
    BY <2>3, <2>4
<1>8. CASE WriteBad
  <2>1. pc = "bad" /\ mmu /\ vbar = "vector_table"
    BY <1>8 DEF WriteBad, Access, SystemOK
  <2>2. pc' = "save" /\ elr' = "bad" /\ UNCHANGED <<n, mem, system, mmu, tlb, regs, frame, val>>
    BY <1>2, <1>8, <2>1 DEF WriteBad, Access, Fault
  <2>3. TypeOK' /\ SystemOK' /\ MainOK'
    BY <2>1, <2>2 DEF TypeOK, SystemOK, MainOK
  <2>4. TablesOK'
    BY <2>1, <2>2 DEF TablesOK, Built
  <2> QED
    BY <2>3, <2>4
<1> QED
  BY <1>4, <1>5, <1>6, <1>7, <1>8 DEF Main

\* The handler keeps main's registers, which it saves before and restores after it
\* calls C code, and moves ELR_EL1 past the access.
LEMMA HandlerInv == IInv /\ Handler => IInv'
<1> SUFFICES ASSUME IInv, Handler PROVE IInv'
  OBVIOUS
<1> USE MainNames DEF IInv, system, Handling, Building, Step
<1>1. pc \in Handling
  BY DEF Handler, Save, Handle, Skip, Restore, Access
<1>2. Goes(UartPage) = {UartPage} /\ Goes(StackTop - 1) = {StackTop - 1}
  BY <1>1, Accesses
<1>3. UNCHANGED <<n, mem, system, mmu, tlb, val>>
  BY DEF Handler, Save, Handle, Skip, Restore
<1>4. pc' \in Handling \cup {"resumed"} => TablesOK'
  BY <1>1, <1>3 DEF TablesOK, Built
<1>5. CASE Save
  <2>1. /\ pc = "save" /\ pc' = "print" /\ UNCHANGED <<regs, elr>>
        /\ frame' = [o \in {Offset(i) : i \in 0..30} |-> regs[CHOOSE i \in 0..30 : Offset(i) = o]]
    BY <1>2, <1>5 DEF Save, Access
  <2>2. ASSUME NEW i \in 0..30 PROVE frame'[Offset(i)] = i
    <3>1. \A j \in 0..30 : Offset(j) = Offset(i) => j = i
      BY DEF Offset
    <3>2. (CHOOSE j \in 0..30 : Offset(j) = Offset(i)) = i
      BY <3>1
    <3> QED
      BY <2>1, <3>2 DEF MainOK
  <2>3. MainOK'
    BY <1>3, <2>1, <2>2 DEF MainOK
  <2>4. TypeOK' /\ SystemOK'
    BY <1>3, <2>1 DEF TypeOK, SystemOK
  <2> QED
    BY <1>4, <2>1, <2>3, <2>4
<1>6. CASE Handle
  <2>1. /\ pc = "print" /\ pc' = "skip" /\ UNCHANGED <<frame, elr>>
        /\ regs' = [i \in 0..30 |-> IF i <= 18 \/ i = 30 THEN 31 ELSE regs[i]]
    BY <1>2, <1>6 DEF Handle, Access
  <2>2. \A i \in 0..30 : regs'[i] \in 0..31
    BY <2>1 DEF TypeOK
  <2>3. MainOK'
    BY <1>3, <2>1 DEF MainOK
  <2>4. TypeOK' /\ SystemOK'
    BY <1>3, <2>1, <2>2 DEF TypeOK, SystemOK
  <2> QED
    BY <1>4, <2>1, <2>3, <2>4
<1>7. CASE Skip
  <2>1. pc = "skip" /\ pc' = "restore" /\ elr = "bad" /\ elr' = After("bad") /\ UNCHANGED <<frame, regs>>
    BY <1>7 DEF Skip, MainOK
  <2>2. After("bad") = "resumed"
    <3>1. 6 \in 1..(Len(MainSteps) - 1) /\ MainSteps[6] = "bad" /\ MainSteps[7] = "resumed"
      BY DEF MainSteps
    <3>2. \A i \in 1..(Len(MainSteps) - 1) : MainSteps[i] = "bad" => i = 6
      <4>1. \A i \in 1..(Len(MainSteps) - 1) : i \in {1, 2, 3, 4, 5, 6, 7}
        BY DEF MainSteps
      <4> QED
        BY <4>1 DEF MainSteps
    <3>3. (CHOOSE i \in 1..(Len(MainSteps) - 1) : MainSteps[i] = "bad") = 6
      BY <3>1, <3>2
    <3>4. After("bad") = MainSteps[1 + 6]
      BY <3>3, Zenon DEF After
    <3> QED
      BY <3>1, <3>4
  <2>3. MainOK'
    BY <1>3, <2>1, <2>2 DEF MainOK
  <2>4. TypeOK' /\ SystemOK'
    BY <1>3, <2>1, <2>2 DEF TypeOK, SystemOK
  <2> QED
    BY <1>4, <2>1, <2>3, <2>4
<1>8. CASE Restore
  <2>1. /\ pc = "restore" /\ pc' = "resumed" /\ UNCHANGED <<frame, elr>>
        /\ regs' = [i \in 0..30 |-> frame[Offset(i)]]
    BY <1>8 DEF Restore, MainOK
  <2>2. \A i \in 0..30 : regs'[i] = i
    BY <2>1 DEF MainOK
  <2>3. MainOK'
    BY <1>3, <2>1, <2>2 DEF MainOK
  <2>4. SystemOK'
    BY <1>3, <2>1 DEF SystemOK
  <2>5. TypeOK'
    <3>1. \A i \in 0..30 : regs'[i] \in 0..31
      BY <2>2
    <3> QED
      BY <1>3, <2>1, <3>1 DEF TypeOK
  <2> QED
    BY <1>4, <2>1, <2>3, <2>4, <2>5
<1> QED
  BY <1>5, <1>6, <1>7, <1>8 DEF Handler

\* Every step of the processor keeps the invariant.
LEMMA NextInv == IInv /\ [Next]_vars => IInv'
<1> SUFFICES ASSUME IInv, [Next]_vars PROVE IInv'
  OBVIOUS
<1>1. CASE UNCHANGED vars
  BY <1>1 DEF vars, system, IInv, TypeOK, TablesOK, Built, SystemOK, MainOK
<1>2. CASE Stopped
  BY <1>1, <1>2 DEF Stopped
<1> QED
  BY <1>1, <1>2, BootInv, ZeroInv, LinkInv, FillInv, MainInv, HandlerInv DEF Next, Boot

\* The invariant holds from power-on.
LEMMA InvHolds == Spec => []IInv
<1> QED
  BY InitInv, NextInv, PTL DEF Spec

-----------------------------------------------------------------------------
(* The safety properties of Mmu *)

\* Every variable keeps its type, wherever the tables are.
THEOREM TypeCorrect == Spec => []TypeOK
<1>1. IInv => TypeOK
  BY DEF IInv
<1> QED
  BY <1>1, InvHolds, PTL

\* From the instruction that turns the MMU on, DRAM is mapped to itself as normal
\* memory and the UART as a device, and no other page of the 48-bit address space
\* is mapped, whatever memory and the TLB held at power-on.
THEOREM MapsExactly == Spec => []MappingIsExact
<1>1. IInv => MappingIsExact
  <2> SUFFICES ASSUME IInv, mmu PROVE MappingIsExact
    BY DEF MappingIsExact
  <2>1. Finished /\ tlb = <<>> /\ mair = 255
    BY MainNames DEF IInv, TablesOK, SystemOK, Finished, Handling
  <2>2. \A p : Addressable(p) =>
            /\ p \in Dram \cup Uart => Goes(p) = {p}
            /\ p \notin Dram \cup Uart => Goes(p) = {}
    BY <2>1, GoesExact
  <2>3. \A p : Addressable(p) =>
            /\ p \in Dram => Walk(p).attr = 0
            /\ p \in Uart => Walk(p).attr = 1
    BY <2>1, WalkExact DEF Result
  <2>4. Attribute(0) = 255 /\ Attribute(1) = 0
    BY <2>1 DEF Attribute
  <2>5. ASSUME NEW p \in Dram PROVE Goes(p) = {p} /\ Attribute(Walk(p).attr) = 255
    BY <2>2, <2>3, <2>4, PagesUsed
  <2>6. ASSUME NEW p \in Uart PROVE Goes(p) = {p} /\ Attribute(Walk(p).attr) = 0
    BY <2>2, <2>3, <2>4, PagesUsed
  <2>7. ASSUME NEW p \in Probes \cup {BadPage} PROVE Goes(p) = {}
    BY <2>2, PagesUsed, MmuAssumption
  <2> QED
    BY <2>5, <2>6, <2>7 DEF MappingIsExact
<1> QED
  BY <1>1, InvHolds, PTL

\* The word written before the MMU is on is read back through the tables.
THEOREM TestWordReadsBack == Spec => []ReadsBack
<1>1. IInv => ReadsBack
  BY DEF IInv, MainOK, ReadsBack
<1> QED
  BY <1>1, InvHolds, PTL

\* main finds every register as it was, after the exception too, whatever the C
\* handler does to the registers it may use.
THEOREM ExceptionKeepsRegisters == Spec => []RegistersKept
<1>1. IInv => RegistersKept
  BY MainNames DEF IInv, MainOK, RegistersKept
<1> QED
  BY <1>1, InvHolds, PTL
=============================================================================
