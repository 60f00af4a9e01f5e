---------------------------- MODULE MCDynLinker -----------------------------
(***************************************************************************)
(* TLC instances of DynLinker: libraries of 15 words, text at 0..5 and     *)
(* data at 8..14, with the words from 12 on beyond the window; executables *)
(* at 64, of the position independent and of the other kind.               *)
(***************************************************************************)
EXTENDS DynLinker

Sym(name, value) == [name |-> name, value |-> value]
Rel(type, offset, sym, addend) ==
    [type |-> type, offset |-> offset, sym |-> sym, addend |-> addend]

Text(first, size) == [vaddr |-> first, memsz |-> size]

\* A library that defines, imports or does not name f and g, with the slot of g at gslot
Library(fValue, gValue, gslot, init, array) ==
    [loads |-> <<Text(0, 6), Text(8, 7)>>,
     symtab |-> 0 :> Sym(None, 0) @@ 1 :> Sym(IF fValue < 0 THEN None ELSE "f", IF fValue < 0 THEN 0 ELSE fValue)
                @@ 2 :> Sym(IF gValue < 0 THEN None ELSE "g", IF gValue < 0 THEN 0 ELSE gValue),
     rela |-> SelectSeq(<<Rel("RELATIVE", 8, 0, 5), Rel("NONE", 14, 0, 0), Rel("GLOB_DAT", 11, 1, 0)>>,
                        LAMBDA r : r.sym = 1 => fValue >= 0),
     relaAt |-> 1, pltAt |-> 4,
     plt |-> SelectSeq(<<Rel("JUMP_SLOT", 9, 1, 0), Rel("JUMP_SLOT", gslot, 2, 0)>>,
                       LAMBDA r : IF r.sym = 1 THEN fValue >= 0 ELSE gValue >= 0),
     dynamic |-> 10,
     init |-> init,
     init_array |-> IF array THEN 8 ELSE 0,
     init_array_count |-> IF array THEN 1 ELSE 0,
     words |-> 9 :> 1 @@ gslot :> 1]

Plain == {Library(f, g, gslot, init, FALSE) :
             f \in {-1, 0, 2}, g \in {-1, 0, 3}, gslot \in {10, 12}, init \in {0, 4}}

Small == {Library(f, g, 10, 4, FALSE) : f \in {0, 2}, g \in {-1, 0, 3}}

\* No dynamic segment; a .rela.dyn in no segment, and none; a .rela.plt beyond the
\* window; an array of initialisers
Odd == {[Library(2, 3, 10, 4, FALSE) EXCEPT !.dynamic = None],
        [Library(2, 3, 10, 4, FALSE) EXCEPT !.relaAt = 7],
        [Library(2, 3, 10, 4, FALSE) EXCEPT !.rela = <<>>],
        [Library(2, 3, 10, 4, FALSE) EXCEPT !.pltAt = 12],
        Library(2, 3, 10, 4, TRUE)}

\* Three slots, for f, g and f again; main is among the dynamic symbols or not
Executable(first, main) ==
    [loads |-> <<Text(first, 6), Text(first + 8, 6)>>,
     symtab |-> 0 :> Sym(None, 0) @@ 1 :> Sym("f", 0) @@ 2 :> Sym("g", 0) @@ 3 :> Sym(IF main THEN "main" ELSE None, first + 2),
     plt |-> <<Rel("JUMP_SLOT", first + 9, 1, 0), Rel("JUMP_SLOT", first + 10, 2, 0),
               Rel("JUMP_SLOT", first + 11, 1, 0)>>,
     entry |-> first + 1,
     words |-> first + 9 :> 1 @@ first + 10 :> 1 @@ first + 11 :> 1]

Started(elf, needed) == [elf |-> elf, base |-> 64, needed |-> needed]

MCExecutables ==
    {Started(Executable(first, main), needed) :
        first \in {0, 64}, main \in BOOLEAN,
        needed \in {<<>>, <<"A">>, <<"A", "B">>, <<"A", "A">>}}

MCEnvironments == {[argc |-> 1, envc |-> 0], [argc |-> 2, envc |-> 3]}

\* The linker, which defines what it uses: at link-time address 0 or not; without
\* a .rela.dyn; without AT_BASE; with a dynamic segment the linker does not see
Linker(first, b, dynamic) ==
    [base |-> b,
     elf |-> [loads |-> <<Text(first, 6), Text(first + 8, 7)>>,
              symtab |-> 0 :> Sym(None, 0) @@ 1 :> Sym("printf", first + 2),
              rela |-> <<Rel("ABS64", first + 8, 1, 1)>>,
              relaAt |-> first + 1, pltAt |-> first + 4,
              plt |-> <<Rel("JUMP_SLOT", first + 9, 1, 0)>>,
              dynamic |-> dynamic,
              words |-> first + 9 :> 1]]

Good == Linker(0, 96, 10)

MCLinkers == {Good, Linker(8, 96, 18), [Good EXCEPT !.elf.rela = <<>>],
              Linker(0, 0, 10), Linker(0, 96, None), Linker(0, 96, 13)}

OneLinker == {Good}

FileSystemsOf(As) == {[n \in {"A", "B"} |-> IF n = "A" THEN a ELSE b] : a \in As, b \in Small}

MCFileSystems == FileSystemsOf(Plain \cup Odd)

\* Without the odd kinds
PlainFileSystems == FileSystemsOf(Plain)
=============================================================================
