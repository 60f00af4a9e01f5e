-------------------------- MODULE DynLinkerProofs ---------------------------
(***************************************************************************)
(* Proofs about DynLinker, for any executables, linkers, libraries and     *)
(* places to load them at.                                                 *)
(*                                                                         *)
(* The first part is what load_shared_library leaves behind when it        *)
(* succeeds and when it fails, at each of its error exits.  Its invariant, *)
(* IInv, says for every step what the library being loaded holds by then:  *)
(* the file, the program headers, the reservation, and finally its place   *)
(* at the head of g_loaded_libraries.  Beyond that only loaded libraries   *)
(* hold something, each its own.                                           *)
(*                                                                         *)
(* The second part is what is in memory: where images lie, which words the *)
(* loops over the relocation tables write and what the slots hold after    *)
(* them, what the linker reads from its stack, and how the executable is   *)
(* started.  Its invariant, RunInv, adds these to IInv.                    *)
(***************************************************************************)
EXTENDS DynLinker, Iteration, FiniteSetTheorems

\* The steps at which the file is open, at which the program headers belong to no
\* node yet, at which the reservation belongs to no node yet, and at which the
\* library is at the head of the list.
FileOpen == {"header", "phdr", "read", "reserve", "nowhere", "map"}
HoldsPhdr == {"read", "reserve", "nowhere", "map", "dynamic", "node"}
HoldsImage == {"map", "dynamic", "node"}
Relocating == {"rela", "plt", "refill"}
Loading == {"parse", "bootstrap", "needed"} \cup LoadSteps

IsSequence(s) == \E S : s \in Seq(S)

\* The list has one node for each library, those loaded before being of earlier
\* DT_NEEDED entries and elsewhere in memory.
ListOK ==
    /\ next \in Nat
    /\ IsSequence(loaded)
    /\ \A i \in DOMAIN loaded : loaded[i].entry \in Nat
    /\ \A i, j \in DOMAIN loaded :
        i # j => loaded[i].entry # loaded[j].entry /\ loaded[i].base # loaded[j].base
    /\ pc \in Loading \ Relocating => \A i \in DOMAIN loaded : loaded[i].entry < next
    /\ pc \in HoldsImage => \A i \in DOMAIN loaded : loaded[i].base # base
    /\ pc \in Relocating =>
        /\ loaded # <<>> /\ loaded[1].entry = next /\ loaded[1].base = base
        /\ \A i \in DOMAIN loaded : i # 1 => loaded[i].entry < next

FileOK == fds = IF pc \in FileOpen THEN 1 ELSE 0

\* The blocks of the loaded libraries
Owned == UNION {Parts(lib) \X {lib.entry} : lib \in Libraries}

HeapOK ==
    heap = Owned \cup (IF pc \in HoldsPhdr THEN {<<"phdr", next>>} ELSE {})

MappedOK ==
    mapped = {lib.base : lib \in Libraries} \cup (IF pc \in HoldsImage THEN {base} ELSE {})

IInv == ListOK /\ FileOK /\ HeapOK /\ MappedOK

-----------------------------------------------------------------------------
(* The list of libraries *)

\* The first library is taken off.
LEMMA TakeOff ==
  ASSUME NEW s, IsSequence(s), s # <<>>, \A i, j \in DOMAIN s : i # j => s[i] # s[j]
  PROVE  LET t == Tail(s) IN
         /\ IsSequence(t)
         /\ \A i \in DOMAIN t : i + 1 \in DOMAIN s /\ t[i] = s[i + 1]
         /\ {t[i] : i \in DOMAIN t} = {s[i] : i \in DOMAIN s} \ {s[1]}
<1> DEFINE t == Tail(s)
<1> PICK S : s \in Seq(S)
  BY DEF IsSequence
<1>1. /\ t \in Seq(S) /\ Len(t) = Len(s) - 1 /\ DOMAIN t = 1..(Len(s) - 1)
      /\ DOMAIN s = 1..Len(s) /\ Len(s) \in Nat \ {0}
  OBVIOUS
<1>2. \A i \in DOMAIN t : i + 1 \in DOMAIN s /\ t[i] = s[i + 1]
  BY <1>1
<1>3. {t[i] : i \in DOMAIN t} = {s[i] : i \in DOMAIN s} \ {s[1]}
  <2>1. ASSUME NEW i \in DOMAIN s, i # 1 PROVE i - 1 \in DOMAIN t /\ t[i - 1] = s[i]
    BY <1>1, <2>1
  <2>2. 1 \in DOMAIN s
    BY <1>1
  <2>3. \A i \in DOMAIN t : t[i] \in {s[j] : j \in DOMAIN s} /\ t[i] # s[1]
    BY <1>1, <1>2, <2>2
  <2>4. \A i \in DOMAIN s : s[i] # s[1] => s[i] \in {t[j] : j \in DOMAIN t}
    BY <2>1
  <2> QED
    BY <2>3, <2>4
<1>4. IsSequence(t)
  BY <1>1 DEF IsSequence
<1> QED
  BY <1>2, <1>3, <1>4

-----------------------------------------------------------------------------
(* The inductive invariant *)

\* A process that has just been started satisfies the invariant.
LEMMA InitInv == Init => IInv
<1> SUFFICES ASSUME Init PROVE IInv
  OBVIOUS
<1>1. IsSequence(<<>>)
  BY DEF IsSequence
<1> QED
  BY <1>1 DEF Init, IInv, ListOK, FileOK, HeapOK, Owned, MappedOK, Libraries, FileOpen, HoldsPhdr, HoldsImage,
              Relocating, Loading, LoadSteps

\* The error exits before the library is on the list close, free and unmap what
\* is held by then.
LEMMA EarlyExitInv ==
  ASSUME IInv,
         \/ OpenFails \/ ReadHeaderFails \/ AllocPhdrFails \/ ReadPhdrFails
         \/ MapNowhereFails \/ MapSegmentsFails \/ FindDynamicFails \/ AllocNodeFails
  PROVE  IInv'
<1> USE DEF Fail, Step, IInv, world, FileOpen, HoldsPhdr, HoldsImage, Relocating, Loading, LoadSteps,
        OpenFails, ReadHeaderFails, AllocPhdrFails, ReadPhdrFails,
        MapNowhereFails, MapSegmentsFails, FindDynamicFails, AllocNodeFails
<1>1. ListOK'
  BY DEF ListOK
<1>2. FileOK'
  BY DEF FileOK
<1>3. Libraries' = Libraries /\ \A lib \in Libraries : lib.entry # next /\ (pc \in HoldsImage => lib.base # base)
  BY DEF Libraries, ListOK
<1>4. HeapOK'
  <2>1. Owned' = Owned
    BY <1>3 DEF Owned, Parts
  <2>2. <<"phdr", next>> \notin Owned
    BY <1>3 DEF Owned
  <2>3. CASE pc \in HoldsPhdr
    <3>1. heap = Owned \cup {<<"phdr", next>>}
      BY <2>3 DEF HeapOK
    <3>2. heap' = heap \ {<<"phdr", next>>}
      BY <2>3
    <3> QED
      BY <2>1, <2>2, <3>1, <3>2 DEF HeapOK
  <2>4. CASE pc \notin HoldsPhdr
    <3>1. heap = Owned /\ heap' = heap
      BY <2>4 DEF HeapOK
    <3> QED
      BY <2>1, <3>1 DEF HeapOK
  <2> QED
    BY <2>3, <2>4
<1>5. MappedOK'
  BY <1>3 DEF MappedOK
<1> QED
  BY <1>1, <1>2, <1>4, <1>5

\* A library whose relocations cannot be found is taken off the list before its
\* node is freed, and nothing of it stays.
LEMMA LateExitInv == IInv /\ RelocateRelaFails => IInv'
<1> SUFFICES ASSUME IInv, RelocateRelaFails PROVE IInv'
  OBVIOUS
<1> USE DEF RelocateRelaFails, Fail, Step, IInv, world, FileOpen, HoldsPhdr, HoldsImage, Relocating, Loading, LoadSteps
<1> DEFINE new == loaded[1]
<1>1. /\ loaded # <<>> /\ IsSequence(loaded) /\ new.entry = next /\ new.base = base
      /\ \A i, j \in DOMAIN loaded : i # j => loaded[i] # loaded[j]
      /\ 1 \in DOMAIN loaded
  BY DEF ListOK, IsSequence
<1>2. /\ IsSequence(loaded')
      /\ \A i \in DOMAIN loaded' : i + 1 \in DOMAIN loaded /\ loaded'[i] = loaded[i + 1]
      /\ Libraries' = Libraries \ {new}
  BY ZenonT(40), <1>1, TakeOff DEF Libraries
<1>3. new \in Libraries /\ \A lib \in Libraries : lib # new => lib.entry # next /\ lib.base # base
  BY <1>1 DEF Libraries, ListOK
<1>4. ListOK'
  <2>1. \A i \in DOMAIN loaded' : loaded'[i].entry \in Nat
    BY <1>2 DEF ListOK
  <2>2. DOMAIN loaded' \subseteq Nat
    BY <1>2 DEF IsSequence
  <2>3. ASSUME NEW i \in DOMAIN loaded', NEW j \in DOMAIN loaded', i # j
        PROVE  loaded'[i].entry # loaded'[j].entry /\ loaded'[i].base # loaded'[j].base
    <3>1. i + 1 # j + 1
      BY <2>2, <2>3
    <3> QED
      BY <1>2, <3>1 DEF ListOK
  <2> QED
    BY <1>2, <2>1, <2>3 DEF ListOK
<1>5. FileOK'
  BY DEF FileOK
<1>6. HeapOK'
  <2> DEFINE Own(lib) == Parts(lib) \X {lib.entry}
  <2>1. heap = UNION {Own(lib) : lib \in Libraries}
    BY DEF HeapOK, Owned
  <2>2. heap' = heap \ {<<what, next>> : what \in {"phdr", "node", "path"}}
    OBVIOUS
  <2>3. \A lib \in Libraries \ {new} : \A x \in Own(lib) : x \notin {<<what, next>> : what \in {"phdr", "node", "path"}}
    BY <1>3
  <2>4. \A x \in Own(new) : x \in {<<what, next>> : what \in {"phdr", "node", "path"}}
    BY <1>1 DEF Parts
  <2>5. heap' = UNION {Own(lib) : lib \in Libraries \ {new}}
    BY <1>3, <2>1, <2>2, <2>3, <2>4
  <2>6. Owned' = UNION {Own(lib) : lib \in Libraries \ {new}}
    BY <1>2 DEF Owned, Parts
  <2> QED
    BY <2>5, <2>6 DEF HeapOK
<1>7. MappedOK'
  BY <1>1, <1>2, <1>3 DEF MappedOK
<1> QED
  BY <1>4, <1>5, <1>6, <1>7

\* A library is put before the others.
LEMMA Grow ==
  ASSUME NEW x, IsSequence(loaded), loaded' = <<x>> \o loaded
  PROVE  /\ IsSequence(loaded') /\ loaded' # <<>>
         /\ DOMAIN loaded' = 1..(Len(loaded) + 1) /\ DOMAIN loaded = 1..Len(loaded) /\ Len(loaded) \in Nat
         /\ loaded'[1] = x
         /\ \A i \in DOMAIN loaded' : i # 1 => i - 1 \in DOMAIN loaded /\ loaded'[i] = loaded[i - 1]
         /\ Libraries' = Libraries \cup {x}
<1>1. PICK t, s : t = loaded' /\ s = loaded
  OBVIOUS
<1>2. IsSequence(s) /\ t = <<x>> \o s
  BY <1>1
<1> PICK R : s \in Seq(R)
  BY <1>2 DEF IsSequence
<1> DEFINE S == R \cup {x}
<1>3. s \in Seq(S) /\ <<x>> \in Seq(S)
  OBVIOUS
<1>4. /\ t \in Seq(S) /\ Len(t) = Len(s) + 1 /\ DOMAIN t = 1..(Len(s) + 1)
      /\ DOMAIN s = 1..Len(s) /\ Len(s) \in Nat
  BY <1>2, <1>3
<1>5. t[1] = x /\ \A i \in DOMAIN t : i # 1 => i - 1 \in DOMAIN s /\ t[i] = s[i - 1]
  BY <1>2, <1>3, <1>4
<1>6. \A i \in DOMAIN s : i + 1 \in DOMAIN t /\ t[i + 1] = s[i]
  BY <1>2, <1>3, <1>4
<1>7. {t[i] : i \in DOMAIN t} = {s[i] : i \in DOMAIN s} \cup {x}
  <2>1. \A i \in DOMAIN t : t[i] \in {s[j] : j \in DOMAIN s} \cup {x}
    BY <1>5
  <2>2. \A i \in DOMAIN s : s[i] \in {t[j] : j \in DOMAIN t}
    BY <1>6
  <2>3. 1 \in DOMAIN t
    BY <1>4
  <2>4. x \in {t[j] : j \in DOMAIN t}
    BY <1>5, <2>3
  <2> QED
    BY <2>1, <2>2, <2>4
<1>8. IsSequence(t) /\ t # <<>>
  BY <1>4 DEF IsSequence
<1>9. Libraries = {s[i] : i \in DOMAIN s} /\ Libraries' = {t[i] : i \in DOMAIN t}
  BY <1>1 DEF Libraries
<1> QED
  BY <1>1, <1>4, <1>5, <1>7, <1>8, <1>9

\* A new library comes to the head of the list with its node, its program headers
\* and, if there was memory for it, its path.
LEMMA NodeInv == IInv /\ AllocNode => IInv'
<1> SUFFICES ASSUME IInv, AllocNode PROVE IInv'
  OBVIOUS
<1> USE DEF AllocNode, Step, IInv, world, FileOpen, HoldsPhdr, HoldsImage, Relocating, Loading, LoadSteps
<1>1. PICK parts \in {{"node"}, {"node", "path"}} :
        /\ heap' = heap \cup {<<what, next>> : what \in parts}
        /\ LET path == IF "path" \in parts THEN Path(exec.needed[next]) ELSE Name(None) IN
           loaded' = <<[path |-> path, entry |-> next, base |-> base, elf |-> current]>> \o loaded
  OBVIOUS
<1> DEFINE path == IF "path" \in parts THEN Path(exec.needed[next]) ELSE Name(None)
           new == [path |-> path, entry |-> next, base |-> base, elf |-> current]
<1>2. loaded' = <<new>> \o loaded
  BY <1>1
<1>3. /\ new.entry = next /\ new.base = base
      /\ Parts(new) = {"phdr"} \cup parts
  <2>1. Path(exec.needed[next]) # Name(None)
    BY LinkerAssumption DEF Path, Name
  <2> QED
    BY <1>1, <2>1 DEF Parts
<1> HIDE DEF new
<1>4. /\ IsSequence(loaded') /\ loaded' # <<>>
      /\ DOMAIN loaded' = 1..(Len(loaded) + 1) /\ DOMAIN loaded = 1..Len(loaded) /\ Len(loaded) \in Nat
      /\ loaded'[1] = new
      /\ \A i \in DOMAIN loaded' : i # 1 => i - 1 \in DOMAIN loaded /\ loaded'[i] = loaded[i - 1]
      /\ Libraries' = Libraries \cup {new}
  BY <1>2, Grow DEF ListOK
<1>5. \A i \in DOMAIN loaded : loaded[i].entry < next /\ loaded[i].entry \in Nat /\ loaded[i].base # base
  BY DEF ListOK
<1>6. ListOK'
  <2>1. \A i \in DOMAIN loaded' : loaded'[i].entry \in Nat /\ (i # 1 => loaded'[i].entry < next)
    BY <1>3, <1>4, <1>5 DEF ListOK
  <2>2. ASSUME NEW i \in DOMAIN loaded', NEW j \in DOMAIN loaded', i # j
        PROVE  loaded'[i].entry # loaded'[j].entry /\ loaded'[i].base # loaded'[j].base
    <3>1. CASE i # 1 /\ j # 1
      <4>1. i - 1 # j - 1 /\ i - 1 \in DOMAIN loaded /\ j - 1 \in DOMAIN loaded
        BY <1>4, <2>2, <3>1
      <4> QED
        BY <1>4, <3>1, <4>1 DEF ListOK
    <3>2. \A k \in DOMAIN loaded' : k # 1 =>
            loaded'[k].entry \in Nat /\ loaded'[k].entry < next /\ loaded'[k].base # base
      BY <1>4, <1>5
    <3>3. next \in Nat
      BY DEF ListOK
    <3>4. CASE i = 1
      BY <1>3, <1>4, <2>2, <3>2, <3>3, <3>4
    <3>5. CASE j = 1
      BY <1>3, <1>4, <2>2, <3>2, <3>3, <3>5
    <3> QED
      BY <3>1, <3>4, <3>5
  <2> QED
    BY <1>3, <1>4, <2>1, <2>2 DEF ListOK
<1>7. FileOK'
  BY DEF FileOK
<1>8. HeapOK'
  <2>1. heap = Owned \cup {<<"phdr", next>>}
    BY DEF HeapOK
  <2>2. Owned' = Owned \cup (({"phdr"} \cup parts) \X {next})
    BY <1>3, <1>4 DEF Owned, Parts
  <2>3. {<<"phdr", next>>} \cup {<<what, next>> : what \in parts} = ({"phdr"} \cup parts) \X {next}
    OBVIOUS
  <2>4. heap' = Owned'
    BY <1>1, <2>1, <2>2, <2>3
  <2> QED
    BY <2>4 DEF HeapOK
<1>9. MappedOK'
  BY <1>3, <1>4 DEF MappedOK
<1> QED
  BY <1>6, <1>7, <1>8, <1>9

\* The other steps leave the list alone.
LEMMA OtherInv ==
  ASSUME IInv, UNCHANGED loaded,
         \/ Parse \/ Bootstrap \/ BootstrapFails \/ Needed \/ Open \/ ReadHeader \/ AllocPhdr \/ ReadPhdr
         \/ Reserve \/ ReserveFails \/ MapSegments \/ FindDynamic \/ RelocateRela \/ RelocatePlt \/ Refill
         \/ RelocateExec \/ CallInit \/ Start \/ UNCHANGED vars
  PROVE  IInv'
<1> USE DEF Step, IInv, vars, world, FileOpen, HoldsPhdr, HoldsImage, Relocating, Loading, LoadSteps
<1>1. Libraries' = Libraries /\ Owned' = Owned
  BY DEF Libraries, Owned, Parts
<1>2. CASE Parse
  BY <1>1, <1>2 DEF Parse, ListOK, FileOK, HeapOK, MappedOK
<1>3. CASE Bootstrap
  BY <1>1, <1>3 DEF Bootstrap, ListOK, FileOK, HeapOK, MappedOK
<1>4. CASE BootstrapFails
  BY <1>1, <1>4 DEF BootstrapFails, ListOK, FileOK, HeapOK, MappedOK
<1>5. CASE Needed
  BY <1>1, <1>5 DEF Needed, ListOK, FileOK, HeapOK, MappedOK
<1>6. CASE Open
  BY <1>1, <1>6 DEF Open, ListOK, FileOK, HeapOK, MappedOK
<1>7. CASE ReadHeader
  BY <1>1, <1>7 DEF ReadHeader, ListOK, FileOK, HeapOK, MappedOK
<1>8. CASE AllocPhdr
  BY <1>1, <1>8 DEF AllocPhdr, ListOK, FileOK, HeapOK, MappedOK
<1>9. CASE ReadPhdr
  BY <1>1, <1>9 DEF ReadPhdr, ListOK, FileOK, HeapOK, MappedOK
<1>10. CASE Reserve
  BY <1>1, <1>10 DEF Reserve, ListOK, FileOK, HeapOK, MappedOK, Libraries
<1>11. CASE MapSegments
  BY <1>1, <1>11 DEF MapSegments, ListOK, FileOK, HeapOK, MappedOK
<1>12. CASE FindDynamic
  BY <1>1, <1>12 DEF FindDynamic, ListOK, FileOK, HeapOK, MappedOK
<1>13. CASE RelocateRela
  BY <1>1, <1>13 DEF RelocateRela, ListOK, FileOK, HeapOK, MappedOK
<1>14. CASE RelocatePlt
  BY <1>1, <1>14 DEF RelocatePlt, ListOK, FileOK, HeapOK, MappedOK
<1>15. CASE Refill
  <2>1. /\ pc = "refill" /\ pc' = "needed" /\ next' = next + 1
        /\ UNCHANGED <<base, fds, heap, mapped, loaded>>
    BY <1>15 DEF Refill
  <2> QED
    BY <1>1, <2>1 DEF ListOK, FileOK, HeapOK, MappedOK
<1>16. CASE RelocateExec
  BY <1>1, <1>16 DEF RelocateExec, ListOK, FileOK, HeapOK, MappedOK
<1>17. CASE CallInit
  BY <1>1, <1>17 DEF CallInit, ListOK, FileOK, HeapOK, MappedOK
<1>18. CASE Start
  BY <1>1, <1>18 DEF Start, ListOK, FileOK, HeapOK, MappedOK
<1>19. CASE UNCHANGED vars
  BY <1>1, <1>19 DEF ListOK, FileOK, HeapOK, MappedOK
<1>20. CASE ReserveFails
  BY <1>1, <1>20 DEF ReserveFails, ListOK, FileOK, HeapOK, MappedOK
<1> QED
  BY <1>2, <1>3, <1>4, <1>5, <1>6, <1>7, <1>8, <1>9, <1>10, <1>11, <1>12, <1>13, <1>14, <1>15, <1>16, <1>17,
     <1>18, <1>19, <1>20

\* Every step keeps the invariant.
LEMMA NextInv == IInv /\ [Next]_vars => IInv'
<1> SUFFICES ASSUME IInv, [Next]_vars PROVE IInv'
  OBVIOUS
<1>1. CASE \/ OpenFails \/ ReadHeaderFails \/ AllocPhdrFails \/ ReadPhdrFails
           \/ MapNowhereFails \/ MapSegmentsFails \/ FindDynamicFails \/ AllocNodeFails
  BY <1>1, EarlyExitInv
<1>2. CASE RelocateRelaFails
  BY <1>2, LateExitInv
<1>3. CASE AllocNode
  BY <1>3, NodeInv
<1>4. CASE \/ Parse \/ Bootstrap \/ BootstrapFails \/ Needed \/ Open \/ ReadHeader \/ AllocPhdr \/ ReadPhdr
           \/ Reserve \/ ReserveFails \/ MapSegments \/ FindDynamic \/ RelocateRela \/ RelocatePlt \/ Refill
           \/ RelocateExec \/ CallInit \/ Start \/ UNCHANGED vars
  <2>1. UNCHANGED loaded
    BY <1>4 DEF Parse, Bootstrap, BootstrapFails, Needed, Open, ReadHeader, AllocPhdr, ReadPhdr, Reserve,
                ReserveFails, MapSegments, FindDynamic, RelocateRela, RelocatePlt, Refill, RelocateExec, CallInit, Start, vars
  <2> QED
    BY <1>4, <2>1, OtherInv
<1> QED
  BY <1>1, <1>2, <1>3, <1>4 DEF Next, Load, Ended

-----------------------------------------------------------------------------
(* The theorems *)

\* At every step of load_shared_library and of main, what is open, allocated and
\* mapped is what the loaded libraries and the one being loaded hold.
THEOREM InvHolds == Spec => []IInv
<1>1. Init => IInv
  BY InitInv
<1>2. IInv /\ [Next]_vars => IInv'
  BY NextInv
<1> QED
  BY <1>1, <1>2, PTL DEF Spec

\* No library on g_loaded_libraries has lost its node, its program headers or its
\* image, whichever loads failed.
THEOREM NoDanglingLibrary == Spec => []ListAlive
<1>1. IInv => ListAlive
  <2> SUFFICES ASSUME IInv, NEW lib \in Libraries
               PROVE  /\ <<"node", lib.entry>> \in heap /\ <<"phdr", lib.entry>> \in heap
                      /\ lib.base \in mapped
    BY DEF ListAlive
  <2>1. lib.base \in mapped
    BY DEF IInv, MappedOK
  <2>2. <<"node", lib.entry>> \in Parts(lib) \X {lib.entry} /\ <<"phdr", lib.entry>> \in Parts(lib) \X {lib.entry}
    BY DEF Parts
  <2>3. Parts(lib) \X {lib.entry} \subseteq heap
    BY DEF IInv, HeapOK, Owned
  <2> QED
    BY <2>1, <2>2, <2>3
<1> QED
  BY <1>1, InvHolds, PTL

\* Every error exit of load_shared_library closes, frees and unmaps all it holds.
THEOREM FailedLoadsLeakNothing == Spec => []NothingLeaks
<1>1. IInv => NothingLeaks
  <2> SUFFICES ASSUME IInv, pc \notin LoadSteps
               PROVE  /\ fds = 0
                      /\ mapped = {lib.base : lib \in Libraries}
                      /\ heap = Owned
    BY DEF NothingLeaks, Owned
  <2>1. pc \notin FileOpen \cup HoldsPhdr \cup HoldsImage
    BY DEF FileOpen, HoldsPhdr, HoldsImage, LoadSteps
  <2> QED
    BY <2>1 DEF IInv, FileOK, HeapOK, MappedOK
<1> QED
  BY <1>1, InvHolds, PTL

-----------------------------------------------------------------------------
(* Memory and images *)

\* What memory may be: words at addresses
Mem == UNION {[D -> Int] : D \in SUBSET Nat}

\* A member of Mem, and what makes one
LEMMA MemHas == ASSUME NEW m \in Mem PROVE DOMAIN m \in SUBSET Nat /\ m \in [DOMAIN m -> Int]
  BY DEF Mem

LEMMA MemIn == ASSUME NEW D \in SUBSET Nat, NEW m \in [D -> Int] PROVE m \in Mem
  BY DEF Mem

\* The words outside E are the same in m and n.
Same(m, n, E) == \A a \in Nat \ E : Read(n, a) = Read(m, a)

\* A write is a write of one word.
LEMMA WriteIs ==
  ASSUME NEW m \in Mem, NEW a \in Nat, NEW v \in Int
  PROVE  /\ Write(m, a, v) \in Mem
         /\ Read(Write(m, a, v), a) = v
         /\ \A x \in Nat : x # a => Read(Write(m, a, v), x) = Read(m, x)
<1>1. DOMAIN m \in SUBSET Nat /\ m \in [DOMAIN m -> Int]
  BY MemHas
<1>2. Write(m, a, v) \in [DOMAIN m \cup {a} -> Int]
  BY <1>1 DEF Write
<1>3. Write(m, a, v) \in Mem
  <2>1. DOMAIN m \cup {a} \in SUBSET Nat
    BY <1>1
  <2> QED
    BY <1>2, <2>1, MemIn
<1> QED
  BY <1>3 DEF Write, Read

\* A read gives an integer.
LEMMA ReadInt == ASSUME NEW m \in Mem, NEW a PROVE Read(m, a) \in Int
  BY MemHas DEF Read

\* An image mapped over memory changes nothing outside the image.
LEMMA OverIs ==
  ASSUME NEW m \in Mem, NEW i \in Mem
  PROVE  /\ Over(i, m) \in Mem
         /\ DOMAIN Over(i, m) = DOMAIN i \cup DOMAIN m
         /\ Same(m, Over(i, m), DOMAIN i)
<1>1. /\ DOMAIN m \in SUBSET Nat /\ m \in [DOMAIN m -> Int]
      /\ DOMAIN i \in SUBSET Nat /\ i \in [DOMAIN i -> Int]
  BY MemHas
<1>2. Over(i, m) \in [DOMAIN i \cup DOMAIN m -> Int]
  BY <1>1 DEF Over
<1>3. DOMAIN i \cup DOMAIN m \in SUBSET Nat
  BY <1>1
<1>4. Over(i, m) \in Mem
  BY <1>2, <1>3, MemIn
<1> QED
  BY <1>2, <1>4 DEF Over, Same, Read

\* The segments of a well-formed file take the words from the first one's address on.
LEMMA Placed ==
  ASSUME NEW elf, WellFormed(elf), NEW b \in Nat
  PROVE  /\ first_load_vaddr(elf) \in Nat /\ Size(elf) \in Nat
         /\ \A v \in Nat : InLoad(v, elf) =>
                /\ v >= first_load_vaddr(elf)
                /\ b + (v - first_load_vaddr(elf)) \in Extent(b, elf)
                /\ b + (v - first_load_vaddr(elf)) \in Nat
                /\ calculate_address_from_vaddr(v, b, elf) = b + (v - first_load_vaddr(elf))
<1> PICK loads : loads = elf.loads
  OBVIOUS
<1> PICK n : n = Len(loads)
  OBVIOUS
<1> DEFINE R == [vaddr : Nat, memsz : Nat]
           end(i) == loads[i].vaddr + loads[i].memsz
<1>1. /\ n \in Nat \ {0} /\ DOMAIN loads = 1..n
      /\ \A i \in 1..n : loads[i].vaddr \in Nat /\ loads[i].memsz \in Nat
      /\ \A i, j \in 1..n : i < j => end(i) <= loads[j].vaddr
  <2>1. loads \in Seq(R) /\ loads # <<>> /\ \A i, j \in DOMAIN loads : i < j => end(i) <= loads[j].vaddr
    BY DEF WellFormed
  <2>2. n \in Nat \ {0} /\ DOMAIN loads = 1..n /\ \A i \in 1..n : loads[i] \in R
    <3> HIDE DEF R, end
    <3> QED
      BY <2>1
  <2> QED
    BY <2>1, <2>2
<1>2. \A i \in 1..n : end(i) \in Nat /\ end(i) <= end(n) /\ loads[1].vaddr <= loads[i].vaddr
  <2>1. \A i \in 1..n : end(i) \in Nat /\ loads[i].vaddr <= end(i)
    BY <1>1
  <2>2. ASSUME NEW i \in 1..n PROVE end(i) <= end(n)
    <3>1. CASE i = n
      BY <1>1, <2>1, <3>1
    <3>2. CASE i < n
      <4>1. n \in 1..n /\ end(i) <= loads[n].vaddr
        BY <1>1, <3>2
      <4> QED
        BY <1>1, <2>1, <4>1
    <3> QED
      BY <1>1, <3>1, <3>2
  <2>3. ASSUME NEW i \in 1..n PROVE loads[1].vaddr <= loads[i].vaddr
    <3>1. CASE i = 1
      BY <1>1, <3>1
    <3>2. CASE 1 < i
      <4>1. 1 \in 1..n /\ end(1) <= loads[i].vaddr
        BY <1>1, <3>2
      <4> QED
        BY <1>1, <2>1, <4>1
    <3> QED
      BY <1>1, <3>1, <3>2
  <2> QED
    BY <2>1, <2>2, <2>3
<1>3. Max({end(i) : i \in 1..n}) = end(n)
  <2> PICK E : E = {end(i) : i \in 1..n}
    OBVIOUS
  <2>1. end(n) \in E /\ \A e \in E : e \in Nat /\ end(n) >= e
    BY <1>1, <1>2
  <2> HIDE DEF end
  <2> QED
    BY <2>1 DEF Max
<1>4. first_load_vaddr(elf) = loads[1].vaddr /\ Size(elf) = end(n) - loads[1].vaddr
  <2>1. {l.vaddr + l.memsz : l \in Range(loads)} = {end(i) : i \in 1..n}
    BY <1>1 DEF Range
  <2> QED
    BY <1>3, <2>1 DEF first_load_vaddr, Size
<1>5. loads[1].vaddr \in Nat /\ end(n) \in Nat /\ loads[1].vaddr <= end(1) /\ end(1) <= end(n)
  BY <1>1, <1>2
<1>6. ASSUME NEW v \in Nat, InLoad(v, elf)
      PROVE  loads[1].vaddr <= v /\ v < end(n)
  <2>1. PICK i \in 1..n : v >= loads[i].vaddr /\ v < end(i)
    BY <1>1, <1>6 DEF InLoad
  <2>2. loads[1].vaddr <= loads[i].vaddr /\ loads[i].vaddr \in Nat /\ loads[1].vaddr \in Nat
    BY <1>1, <1>2
  <2>3. end(i) \in Nat /\ end(n) \in Nat /\ end(i) <= end(n)
    BY <1>1, <1>2
  <2> HIDE DEF end
  <2> QED
    BY <2>1, <2>2, <2>3
<1>7. first_load_vaddr(elf) \in Nat /\ Size(elf) \in Nat
  <2> HIDE DEF end
  <2> QED
    BY <1>1, <1>2, <1>4, <1>5
<1>8. ASSUME NEW v \in Nat, InLoad(v, elf)
      PROVE  v >= first_load_vaddr(elf) /\ v - first_load_vaddr(elf) <= Size(elf) - 1
  <2> HIDE DEF end
  <2> QED
    BY <1>4, <1>5, <1>6, <1>8
<1> QED
  BY <1>7, <1>8 DEF Extent, calculate_address_from_vaddr

\* An image lies in its extent.
LEMMA ImageIs ==
  ASSUME NEW elf, WellFormed(elf), NEW b \in Nat
  PROVE  Image(b, elf) \in Mem /\ DOMAIN Image(b, elf) \subseteq Extent(b, elf)
<1> DEFINE first == first_load_vaddr(elf)
           D == {b + v - first : v \in DOMAIN elf.words}
<1>1. first \in Nat /\ \A v \in DOMAIN elf.words :
        /\ v \in Nat /\ elf.words[v] \in Int
        /\ b + (v - first) \in Extent(b, elf) /\ b + (v - first) \in Nat
  BY Placed DEF WellFormed
<1>2. D \in SUBSET Nat /\ D \subseteq Extent(b, elf)
  <2>1. \A v \in DOMAIN elf.words : b + v - first = b + (v - first)
    BY <1>1
  <2> QED
    BY <1>1, <2>1
<1>3. \A a \in D : a - b + first \in DOMAIN elf.words
  <2>1. \A v \in DOMAIN elf.words : (b + v - first) - b + first = v
    BY <1>1
  <2> QED
    BY <2>1
<1>4. Image(b, elf) \in [D -> Int]
  BY <1>1, <1>3 DEF Image
<1> QED
  BY <1>2, <1>4, MemIn

-----------------------------------------------------------------------------
(* Symbols and single relocations *)

\* A list of libraries that are well formed and at addresses
LibsOK(libs) ==
    /\ IsSequence(libs)
    /\ \A i \in DOMAIN libs : WellFormedLibrary(libs[i].elf) /\ libs[i].base \in Nat \ {0}

\* find_symbol finds an entry of that name if there is one.
LEMMA FoundSymbol ==
  ASSUME NEW elf, WellFormed(elf), NEW name, Named(name, elf) # {}
  PROVE  \E i \in Named(name, elf) : find_symbol(name, elf) = elf.symtab[i]
<1>1. Named(name, elf) \in SUBSET Nat
  BY DEF Named, WellFormed
<1>2. Min(Named(name, elf)) \in Named(name, elf)
  BY <1>1, MinIs
<1> QED
  BY <1>2 DEF find_symbol

\* A defined symbol is where its image has it.
LEMMA SymbolIs ==
  ASSUME NEW elf, WellFormed(elf), NEW b \in Nat, NEW i \in DOMAIN elf.symtab
  PROVE  LET s == elf.symtab[i] IN
         /\ SymbolAddress(s, b, elf) \in Nat
         /\ s.value # 0 /\ b # 0 =>
                /\ SymbolAddress(s, b, elf) = b + s.value - first_load_vaddr(elf)
                /\ SymbolAddress(s, b, elf) # 0
<1> PICK v : v = elf.symtab[i].value
  OBVIOUS
<1>1. v \in Nat /\ (v # 0 => InLoad(v, elf))
  BY DEF WellFormed
<1>2. first_load_vaddr(elf) \in Nat /\ (InLoad(v, elf) => v >= first_load_vaddr(elf))
  BY <1>1, Placed
<1>3. SymbolAddress(elf.symtab[i], b, elf) = IF calculate_address_from_vaddr(v, b, elf) # 0
                                             THEN calculate_address_from_vaddr(v, b, elf) ELSE b + v
  BY DEF SymbolAddress, Or, calculate_symbol_address
<1>4. CASE InLoad(v, elf)
  BY <1>1, <1>2, <1>3, <1>4 DEF calculate_address_from_vaddr
<1>5. CASE ~InLoad(v, elf)
  BY <1>1, <1>3, <1>5 DEF calculate_address_from_vaddr
<1> QED
  BY <1>4, <1>5

\* resolve_symbol_global gives an address in any list of libraries, and a definition
\* where some library defines the symbol and none imports it.
LEMMA Resolves ==
  ASSUME NEW libs, LibsOK(libs), NEW name
  PROVE  /\ resolve_symbol_global(name, libs) \in Nat
         /\ (\E i \in DOMAIN libs : Named(name, libs[i].elf) # {}) =>
            \E i \in DOMAIN libs : \E j \in Named(name, libs[i].elf) :
                /\ resolve_symbol_global(name, libs) = SymbolAddress(libs[i].elf.symtab[j], libs[i].base, libs[i].elf)
<1> PICK with : with = {i \in DOMAIN libs : Named(name, libs[i].elf) # {}}
  OBVIOUS
<1>1. with \in SUBSET Nat
  BY DEF LibsOK, IsSequence
<1>2. CASE with = {}
  BY <1>2 DEF resolve_symbol_global
<1>3. CASE with # {}
  <2> PICK i : i = Min(with)
    OBVIOUS
  <2>1. i \in with
    BY <1>1, <1>3, MinIs
  <2>2. WellFormed(libs[i].elf) /\ libs[i].base \in Nat
    BY <2>1 DEF LibsOK, WellFormedLibrary
  <2>3. resolve_symbol_global(name, libs)
            = SymbolAddress(find_symbol(name, libs[i].elf), libs[i].base, libs[i].elf)
    BY <1>3 DEF resolve_symbol_global
  <2>4. PICK j \in Named(name, libs[i].elf) : find_symbol(name, libs[i].elf) = libs[i].elf.symtab[j]
    BY <2>1, <2>2, FoundSymbol
  <2>5. j \in DOMAIN libs[i].elf.symtab
    BY DEF Named
  <2>6. SymbolAddress(libs[i].elf.symtab[j], libs[i].base, libs[i].elf) \in Nat
    BY <2>2, <2>5, SymbolIs
  <2> QED
    BY <2>1, <2>3, <2>4, <2>6
<1> QED
  BY <1>2, <1>3

\* Where the slot of entry r is in the image at b
Slot(r, b, elf) == b + r.offset - first_load_vaddr(elf)

\* What its slot is to hold: the definition of its own file, if there is one
Bound(m, r, b, elf) ==
    elf.symtab[r.sym].value # 0 =>
        Read(m, Slot(r, b, elf)) = b + elf.symtab[r.sym].value - first_load_vaddr(elf) + r.addend

\* An entry whose slot is in a segment
Entry(r, elf) == r \in Relocations(elf) /\ InLoad(r.offset, elf)

\* The slot of an entry is an address of its image.
LEMMA SlotIs ==
  ASSUME NEW elf, WellFormed(elf), NEW b \in Nat, NEW r, Entry(r, elf)
  PROVE  /\ Slot(r, b, elf) \in Nat /\ Slot(r, b, elf) \in Extent(b, elf)
         /\ calculate_address_from_vaddr(r.offset, b, elf) = Slot(r, b, elf)
         /\ Slot(r, b, elf) >= b
         /\ r.addend \in Int /\ r.sym \in DOMAIN elf.symtab
<1>1. r.offset \in Nat /\ r.addend \in Int /\ r.sym \in DOMAIN elf.symtab /\ InLoad(r.offset, elf)
  BY DEF Entry, Relocations
<1>2. /\ first_load_vaddr(elf) \in Nat /\ r.offset >= first_load_vaddr(elf)
      /\ b + (r.offset - first_load_vaddr(elf)) \in Extent(b, elf)
      /\ calculate_address_from_vaddr(r.offset, b, elf) = b + (r.offset - first_load_vaddr(elf))
  BY <1>1, Placed
<1>3. Slot(r, b, elf) = b + (r.offset - first_load_vaddr(elf))
  BY <1>1, <1>2 DEF Slot
<1> QED
  BY <1>1, <1>2, <1>3

\* process_relocation writes to the entry's slot or nowhere; a JUMP_SLOT within the
\* window, whose entry is there too, gets the definition of its own file.
LEMMA RelocationIs ==
  ASSUME NEW m \in Mem, NEW at, NEW elf, WellFormed(elf), NEW b \in Nat, NEW r, Entry(r, elf),
         NEW libs, LibsOK(libs)
  PROVE  LET after == process_relocation(m, at, r, b, elf, libs) IN
         /\ after \in Mem
         /\ \A a \in Nat : a # Slot(r, b, elf) => Read(after, a) = Read(m, a)
         /\ InWindow(at, b) /\ NamedSlot(r, elf) /\ r.offset - first_load_vaddr(elf) <= Window /\ b # 0 =>
                Bound(after, r, b, elf)
<1> PICK slot : slot = Slot(r, b, elf)
  OBVIOUS
<1> PICK v : v = RelocationValue(r, b, elf, libs)
  OBVIOUS
<1> PICK s : s = elf.symtab[r.sym]
  OBVIOUS
<1>1. /\ slot \in Nat /\ slot >= b /\ calculate_address_from_vaddr(r.offset, b, elf) = slot
      /\ r.addend \in Int /\ r.sym \in DOMAIN elf.symtab
      /\ first_load_vaddr(elf) \in Nat /\ r.offset \in Nat
      /\ slot = b + r.offset - first_load_vaddr(elf)
  BY SlotIs, Placed DEF Entry, Relocations, Slot
<1>2. RelocationTarget(r, b, elf) = slot
  BY <1>1 DEF RelocationTarget, Or
<1>3. /\ SymbolAddress(s, b, elf) \in Nat
      /\ s.value \in Nat
      /\ s.value # 0 /\ b # 0 =>
            /\ SymbolAddress(s, b, elf) = b + s.value - first_load_vaddr(elf)
            /\ SymbolAddress(s, b, elf) # 0
  BY <1>1, SymbolIs DEF WellFormed
<1>4. resolve_symbol_global(s.name, libs) \in Nat
  BY Resolves
<1>5. JumpSlot(r, b, elf, libs) \in Int
  BY <1>1, <1>3, <1>4 DEF JumpSlot, Or
<1>6. v \in Int
  BY <1>1, <1>3, <1>5 DEF RelocationValue
<1>7. process_relocation(m, at, r, b, elf, libs)
        = IF InWindow(at, b) /\ r.type # "NONE" /\ InWindow(slot, b) THEN Write(m, slot, v) ELSE m
  BY <1>2 DEF process_relocation
<1>8. /\ Write(m, slot, v) \in Mem /\ Read(Write(m, slot, v), slot) = v
      /\ \A x \in Nat : x # slot => Read(Write(m, slot, v), x) = Read(m, x)
  BY <1>1, <1>6, WriteIs
<1>9. ASSUME InWindow(at, b), NamedSlot(r, elf), r.offset - first_load_vaddr(elf) <= Window, b # 0
      PROVE  Bound(process_relocation(m, at, r, b, elf, libs), r, b, elf)
  <2>1. r.type = "JUMP_SLOT" /\ s.name # None
    BY <1>9 DEF NamedSlot
  <2>2. InWindow(slot, b)
    BY <1>1, <1>9, LinkerAssumption DEF InWindow
  <2>3. process_relocation(m, at, r, b, elf, libs) = Write(m, slot, v)
    BY <1>7, <1>9, <2>1, <2>2
  <2>4. v = JumpSlot(r, b, elf, libs)
    BY <2>1 DEF RelocationValue
  <2>5. s.value # 0 => v = b + s.value - first_load_vaddr(elf) + r.addend
    BY <1>1, <1>3, <1>9, <2>1, <2>4 DEF JumpSlot, Or
  <2> QED
    BY <1>8, <2>3, <2>5 DEF Bound
<1> QED
  BY <1>7, <1>8, <1>9

\* A turn of the second pass over the GOT binds the entry's slot and leaves the rest.
LEMMA FillIs ==
  ASSUME NEW m \in Mem, NEW elf, WellFormed(elf), NEW b \in Nat \ {0}, NEW r, Entry(r, elf)
  PROVE  LET after == FillSlot(m, r, b, elf) IN
         /\ after \in Mem
         /\ \A a \in Nat : a # Slot(r, b, elf) => Read(after, a) = Read(m, a)
         /\ Bound(after, r, b, elf)
<1> PICK slot : slot = Slot(r, b, elf)
  OBVIOUS
<1> PICK v : v = SymbolAddress(elf.symtab[r.sym], b, elf) + r.addend
  OBVIOUS
<1>1. /\ slot \in Nat \ {0} /\ calculate_address_from_vaddr(r.offset, b, elf) = slot
      /\ r.addend \in Int /\ r.sym \in DOMAIN elf.symtab
  BY SlotIs
<1>2. /\ v \in Int
      /\ elf.symtab[r.sym].value # 0 =>
            v = b + elf.symtab[r.sym].value - first_load_vaddr(elf) + r.addend
  BY <1>1, SymbolIs
<1>3. FillSlot(m, r, b, elf) = Write(m, slot, v)
  BY <1>1 DEF FillSlot
<1>4. /\ Write(m, slot, v) \in Mem /\ Read(Write(m, slot, v), slot) = v
      /\ \A x \in Nat : x # slot => Read(Write(m, slot, v), x) = Read(m, x)
  BY <1>1, <1>2, WriteIs
<1> QED
  BY <1>2, <1>3, <1>4 DEF Bound

-----------------------------------------------------------------------------
(* The loops over the tables *)

\* Where every turn of a loop keeps memory outside its image, the whole loop does.
LEMMA LoopStaysHome ==
  ASSUME NEW n \in Nat, NEW f \in [0..n -> Mem], NEW E,
         \A i \in 1..n : Same(f[i - 1], f[i], E)
  PROVE  Same(f[0], f[n], E)
<1> DEFINE S == {i \in 0..n : Same(f[0], f[i], E)}
<1>1. 0 \in S
  BY DEF Same
<1>2. ASSUME NEW i \in 1..n, i - 1 \in S PROVE i \in S
  BY <1>2 DEF Same
<1> HIDE DEF S
<1>3. \A i \in 0..n : i \in S
  BY <1>1, <1>2, Induction
<1> QED
  BY <1>3 DEF S

\* A table of entries of elf
Table(t, elf) == t \in Seq(Relocations(elf)) /\ \A i \in DOMAIN t : InLoad(t[i].offset, elf)

\* f is the memories that ProcessAll goes through.
Processes(f, m, at, t, b, elf, libs) ==
    /\ f[0] = m /\ f[Len(t)] = ProcessAll(m, at, t, b, elf, libs)
    /\ \A i \in 1..Len(t) :
        Entry(t[i], elf) /\ f[i] = process_relocation(f[i - 1], at + i - 1, t[i], b, elf, libs)

\* ProcessAll goes through memories, one entry after the other.
LEMMA ProcessAllRun ==
  ASSUME NEW m \in Mem, NEW elf, WellFormed(elf), NEW b \in Nat, NEW libs, LibsOK(libs),
         NEW at, NEW t, Table(t, elf)
  PROVE  \E f \in [0..Len(t) -> Mem] : Processes(f, m, at, t, b, elf, libs)
<1> PICK n : n = Len(t)
  OBVIOUS
<1>1. n \in Nat /\ DOMAIN t = 1..n /\ \A i \in 1..n : Entry(t[i], elf)
  BY DEF Table, Entry
<1> DEFINE body == [i \in 1..n |-> [x \in Mem |-> process_relocation(x, at + i - 1, t[i], b, elf, libs)]]
           turn(g, i) == IF i = 0 THEN m ELSE process_relocation(g[i - 1], at + i - 1, t[i], b, elf, libs)
           after == CHOOSE g : g = [i \in 0..n |-> turn(g, i)]
<1>2. body \in [1..n -> [Mem -> Mem]]
  <2>1. \A i \in 1..n : \A x \in Mem : process_relocation(x, at + i - 1, t[i], b, elf, libs) \in Mem
    BY <1>1, RelocationIs
  <2> QED
    BY <2>1
<1>3. ProcessAll(m, at, t, b, elf, libs) = after[n]
  BY DEF ProcessAll
<1>4. \E g \in [0..n -> Mem] : Goes(g, m, n, body)
  <2> HIDE DEF body
  <2> QED
    BY <1>1, <1>2, LoopExists
<1> PICK f \in [0..n -> Mem] : f[0] = m /\ \A i \in 1..n : f[i] = body[i][f[i - 1]]
  BY <1>4 DEF Goes
<1>5. \A i \in 1..n : f[i] = process_relocation(f[i - 1], at + i - 1, t[i], b, elf, libs)
  <2>1. \A i \in 1..n : f[i - 1] \in Mem
    BY <1>1
  <2> QED
    BY <2>1
<1>6. f = [i \in 0..n |-> turn(f, i)]
  BY <1>1, <1>4, <1>5
<1>7. after = [i \in 0..n |-> turn(after, i)]
  <2> HIDE DEF turn
  <2> QED
    BY <1>6
<1>8. after[0] = m /\ \A i \in 1..n : after[i] = process_relocation(after[i - 1], at + i - 1, t[i], b, elf, libs)
  <2> HIDE DEF after
  <2> QED
    BY <1>1, <1>7
<1>9. \A i \in 0..n : after[i] = f[i]
  <2> HIDE DEF after
  <2> DEFINE S == {i \in 0..n : after[i] = f[i]}
  <2>1. 0 \in S
    BY <1>1, <1>4, <1>8
  <2>2. ASSUME NEW i \in 1..n, i - 1 \in S PROVE i \in S
    BY <1>5, <1>8, <2>2
  <2>3. \A i \in 0..n : i \in S
    <3> HIDE DEF S
    <3> QED
      BY <1>1, <2>1, <2>2, Induction
  <2> QED
    BY <2>3
<1> QED
  BY SMTT(30), <1>1, <1>3, <1>4, <1>5, <1>9 DEF Processes

\* FillAll goes through memories in the same way.
LEMMA FillAllRun ==
  ASSUME NEW m \in Mem, NEW elf, WellFormed(elf), NEW b \in Nat \ {0}
  PROVE  \E f \in [0..Len(elf.plt) -> Mem] :
            /\ f[0] = m /\ f[Len(elf.plt)] = FillAll(m, b, elf)
            /\ \A i \in 1..Len(elf.plt) : Entry(elf.plt[i], elf) /\ f[i] = FillSlot(f[i - 1], elf.plt[i], b, elf)
<1> PICK n : n = Len(elf.plt)
  OBVIOUS
<1>1. n \in Nat /\ \A i \in 1..n : Entry(elf.plt[i], elf)
  BY DEF WellFormed, Entry
<1> DEFINE body == [i \in 1..n |-> [x \in Mem |-> FillSlot(x, elf.plt[i], b, elf)]]
           turn(g, i) == IF i = 0 THEN m ELSE FillSlot(g[i - 1], elf.plt[i], b, elf)
           after == CHOOSE g : g = [i \in 0..n |-> turn(g, i)]
<1>2. body \in [1..n -> [Mem -> Mem]]
  <2>1. \A i \in 1..n : \A x \in Mem : FillSlot(x, elf.plt[i], b, elf) \in Mem
    BY <1>1, FillIs
  <2> QED
    BY <2>1
<1>3. FillAll(m, b, elf) = after[n]
  BY DEF FillAll
<1>4. \E g \in [0..n -> Mem] : Goes(g, m, n, body)
  <2> HIDE DEF body
  <2> QED
    BY <1>1, <1>2, LoopExists
<1> PICK f \in [0..n -> Mem] : f[0] = m /\ \A i \in 1..n : f[i] = body[i][f[i - 1]]
  BY <1>4 DEF Goes
<1>5. \A i \in 1..n : f[i] = FillSlot(f[i - 1], elf.plt[i], b, elf)
  <2>1. \A i \in 1..n : f[i - 1] \in Mem
    BY <1>1
  <2> QED
    BY <2>1
<1>6. f = [i \in 0..n |-> turn(f, i)]
  BY <1>1, <1>4, <1>5
<1>7. after = [i \in 0..n |-> turn(after, i)]
  <2> HIDE DEF turn
  <2> QED
    BY <1>6
<1>8. after[0] = m /\ \A i \in 1..n : after[i] = FillSlot(after[i - 1], elf.plt[i], b, elf)
  <2> HIDE DEF after
  <2> QED
    BY <1>1, <1>7
<1>9. \A i \in 0..n : after[i] = f[i]
  <2> HIDE DEF after
  <2> DEFINE S == {i \in 0..n : after[i] = f[i]}
  <2>1. 0 \in S
    BY <1>1, <1>4, <1>8
  <2>2. ASSUME NEW i \in 1..n, i - 1 \in S PROVE i \in S
    BY <1>5, <1>8, <2>2
  <2>3. \A i \in 0..n : i \in S
    <3> HIDE DEF S
    <3> QED
      BY <1>1, <2>1, <2>2, Induction
  <2> QED
    BY <2>3
<1>10. f[n] = FillAll(m, b, elf)
  <2> HIDE DEF after
  <2> QED
    BY <1>1, <1>3, <1>9
<1> HIDE DEF body, turn, after
<1> QED
  BY <1>1, <1>4, <1>5, <1>10

\* A turn of the loop over the executable's JUMP_SLOTs writes to the entry's slot or
\* nowhere; it puts what the symbol is resolved to there, if that is an address.
LEMMA FillExecIs ==
  ASSUME NEW m \in Mem, WellFormed(exec.elf), NEW b \in Nat \ {0}, NEW r, Entry(r, exec.elf),
         NEW libs, LibsOK(libs)
  PROVE  LET after == FillExecSlot(m, r, b, libs)
             name == exec.elf.symtab[r.sym].name
         IN
         /\ after \in Mem
         /\ \A a \in Nat : a # Slot(r, b, exec.elf) => Read(after, a) = Read(m, a)
         /\ NamedSlot(r, exec.elf) /\ resolve_symbol_global(name, libs) # 0 =>
                Read(after, Slot(r, b, exec.elf)) = resolve_symbol_global(name, libs)
<1> PICK slot : slot = Slot(r, b, exec.elf)
  OBVIOUS
<1> PICK v : v = resolve_symbol_global(exec.elf.symtab[r.sym].name, libs)
  OBVIOUS
<1>1. slot \in Nat \ {0} /\ calculate_address_from_vaddr(r.offset, b, exec.elf) = slot
  BY SlotIs
<1>2. v \in Nat
  BY Resolves
<1>3. FillExecSlot(m, r, b, libs)
        = IF r.type = "JUMP_SLOT" /\ exec.elf.symtab[r.sym].name # None /\ v # 0 THEN Write(m, slot, v) ELSE m
  BY <1>1 DEF FillExecSlot
<1>4. /\ Write(m, slot, v) \in Mem /\ Read(Write(m, slot, v), slot) = v
      /\ \A x \in Nat : x # slot => Read(Write(m, slot, v), x) = Read(m, x)
  BY <1>1, <1>2, WriteIs
<1> QED
  BY <1>3, <1>4 DEF NamedSlot

\* FillExec goes through memories in the same way.
LEMMA FillExecRun ==
  ASSUME NEW m \in Mem, WellFormed(exec.elf), NEW b \in Nat \ {0}, NEW libs, LibsOK(libs)
  PROVE  \E f \in [0..ExecSlotCount -> Mem] :
            /\ f[0] = m /\ f[ExecSlotCount] = FillExec(m, b, libs)
            /\ \A i \in 1..ExecSlotCount : Entry(exec.elf.plt[i], exec.elf) /\ f[i] = FillExecSlot(f[i - 1], exec.elf.plt[i], b, libs)
<1> PICK n : n = ExecSlotCount
  OBVIOUS
<1>1. n \in Nat /\ \A i \in 1..n : Entry(exec.elf.plt[i], exec.elf)
  BY LinkerAssumption DEF WellFormed, Entry, ExecSlotCount
<1> DEFINE body == [i \in 1..n |-> [x \in Mem |-> FillExecSlot(x, exec.elf.plt[i], b, libs)]]
           turn(g, i) == IF i = 0 THEN m ELSE FillExecSlot(g[i - 1], exec.elf.plt[i], b, libs)
           after == CHOOSE g : g = [i \in 0..n |-> turn(g, i)]
<1>2. body \in [1..n -> [Mem -> Mem]]
  <2>1. \A i \in 1..n : \A x \in Mem : FillExecSlot(x, exec.elf.plt[i], b, libs) \in Mem
    BY <1>1, FillExecIs
  <2> QED
    BY <2>1
<1>3. FillExec(m, b, libs) = after[n]
  BY DEF FillExec
<1>4. \E g \in [0..n -> Mem] : Goes(g, m, n, body)
  <2> HIDE DEF body
  <2> QED
    BY <1>1, <1>2, LoopExists
<1> PICK f \in [0..n -> Mem] : f[0] = m /\ \A i \in 1..n : f[i] = body[i][f[i - 1]]
  BY <1>4 DEF Goes
<1>5. \A i \in 1..n : f[i] = FillExecSlot(f[i - 1], exec.elf.plt[i], b, libs)
  <2>1. \A i \in 1..n : f[i - 1] \in Mem
    BY <1>1
  <2> QED
    BY <2>1
<1>6. f = [i \in 0..n |-> turn(f, i)]
  BY <1>1, <1>4, <1>5
<1>7. after = [i \in 0..n |-> turn(after, i)]
  <2> HIDE DEF turn
  <2> QED
    BY <1>6
<1>8. after[0] = m /\ \A i \in 1..n : after[i] = FillExecSlot(after[i - 1], exec.elf.plt[i], b, libs)
  <2> HIDE DEF after
  <2> QED
    BY <1>1, <1>7
<1>9. \A i \in 0..n : after[i] = f[i]
  <2> HIDE DEF after
  <2> DEFINE S == {i \in 0..n : after[i] = f[i]}
  <2>1. 0 \in S
    BY <1>1, <1>4, <1>8
  <2>2. ASSUME NEW i \in 1..n, i - 1 \in S PROVE i \in S
    BY <1>5, <1>8, <2>2
  <2>3. \A i \in 0..n : i \in S
    <3> HIDE DEF S
    <3> QED
      BY <1>1, <2>1, <2>2, Induction
  <2> QED
    BY <2>3
<1>10. f[n] = FillExec(m, b, libs)
  <2> HIDE DEF after
  <2> QED
    BY <1>1, <1>3, <1>9
<1> HIDE DEF body, turn, after
<1> QED
  BY <1>1, <1>4, <1>5, <1>10

\* What a turn of a loop writes to its slot stays there if no later turn has that slot.
LEMMA SlotStays ==
  ASSUME NEW n \in Nat, NEW f \in [0..n -> Mem], NEW slot \in [1..n -> Nat],
         \A i \in 1..n : \A a \in Nat : a # slot[i] => Read(f[i], a) = Read(f[i - 1], a),
         NEW j \in 1..n, \A i \in 1..n : i > j => slot[i] # slot[j]
  PROVE  Read(f[n], slot[j]) = Read(f[j], slot[j])
<1> DEFINE S == {i \in 0..n : i >= j => Read(f[i], slot[j]) = Read(f[j], slot[j])}
<1>1. 0 \in S
  OBVIOUS
<1>2. ASSUME NEW i \in 1..n, i - 1 \in S PROVE i \in S
  <2>1. CASE i < j
    BY <2>1
  <2>2. CASE i = j
    BY <2>2
  <2>3. CASE i > j
    BY <1>2, <2>3
  <2> QED
    BY <2>1, <2>2, <2>3
<1>3. \A i \in 0..n : i \in S
  <2> HIDE DEF S
  <2> QED
    BY <1>1, <1>2, Induction
<1> QED
  BY <1>3

\* The entries of .rela.plt have slots of their own.
LEMMA SlotsApart ==
  ASSUME NEW elf, WellFormed(elf), NEW b \in Nat, NEW i \in DOMAIN elf.plt, NEW j \in DOMAIN elf.plt,
         i # j
  PROVE  Slot(elf.plt[i], b, elf) # Slot(elf.plt[j], b, elf)
<1>1. Entry(elf.plt[i], elf) /\ Entry(elf.plt[j], elf)
  BY DEF WellFormed, Entry
<1>2. elf.plt[i].offset \in Nat /\ elf.plt[j].offset \in Nat
  BY <1>1 DEF Entry, Relocations
<1>3. first_load_vaddr(elf) \in Nat
  BY Placed
<1>4. elf.plt[i].offset # elf.plt[j].offset
  BY DEF WellFormed
<1> QED
  BY <1>2, <1>3, <1>4 DEF Slot

\* All slots of .rela.plt whose symbols the file defines hold these definitions, if
\* the code finds the table.
AllBound(m, b, elf) == HasRelaEnt(elf) => \A i \in DOMAIN elf.plt : Bound(m, elf.plt[i], b, elf)

\* Processing a table writes to the image only.
LEMMA ProcessAllIs ==
  ASSUME NEW m \in Mem, NEW elf, WellFormed(elf), NEW b \in Nat, NEW libs, LibsOK(libs),
         NEW at, NEW t, Table(t, elf)
  PROVE  /\ ProcessAll(m, at, t, b, elf, libs) \in Mem
         /\ Same(m, ProcessAll(m, at, t, b, elf, libs), Extent(b, elf))
<1>0. Len(t) \in Nat
  BY DEF Table
<1>1. PICK f \in [0..Len(t) -> Mem] : Processes(f, m, at, t, b, elf, libs)
  BY ProcessAllRun
<1>2. ASSUME NEW i \in 1..Len(t) PROVE Same(f[i - 1], f[i], Extent(b, elf))
  <2>1. /\ f[i - 1] \in Mem /\ Entry(t[i], elf)
        /\ f[i] = process_relocation(f[i - 1], at + i - 1, t[i], b, elf, libs)
    BY <1>0, <1>1 DEF Processes
  <2>2. \A a \in Nat : a # Slot(t[i], b, elf) => Read(f[i], a) = Read(f[i - 1], a)
    BY <2>1, RelocationIs
  <2>3. Slot(t[i], b, elf) \in Extent(b, elf)
    BY <2>1, SlotIs
  <2> QED
    BY <2>2, <2>3 DEF Same
<1>3. Same(f[0], f[Len(t)], Extent(b, elf))
  BY <1>0, <1>2, LoopStaysHome
<1> QED
  BY <1>0, <1>1, <1>3 DEF Processes

\* So does each of a file's tables, which the code may take to be empty.
LEMMA TablesStayHome ==
  ASSUME NEW m \in Mem, NEW elf, WellFormedLibrary(elf), NEW b \in Nat, NEW libs, LibsOK(libs)
  PROVE  /\ ProcessRela(m, b, elf, libs) \in Mem
         /\ Same(m, ProcessRela(m, b, elf, libs), Extent(b, elf))
         /\ ProcessPlt(m, b, elf, libs) \in Mem
         /\ Same(m, ProcessPlt(m, b, elf, libs), Extent(b, elf))
<1>1. WellFormed(elf) /\ Table(elf.rela, elf) /\ Table(elf.plt, elf)
  BY DEF WellFormedLibrary, WellFormed, Table
<1>2. ASSUME NEW at, NEW t, Table(t, elf)
      PROVE  ProcessAll(m, at, t, b, elf, libs) \in Mem /\ Same(m, ProcessAll(m, at, t, b, elf, libs), Extent(b, elf))
  BY <1>1, <1>2, ProcessAllIs
<1> QED
  BY <1>1, <1>2 DEF ProcessRela, ProcessPlt, Same

\* The second pass over the GOT writes to the image only, and binds all slots.
LEMMA FillAllIs ==
  ASSUME NEW m \in Mem, NEW elf, WellFormed(elf), NEW b \in Nat \ {0}
  PROVE  /\ FillAll(m, b, elf) \in Mem
         /\ Same(m, FillAll(m, b, elf), Extent(b, elf))
         /\ AllBound(FillAll(m, b, elf), b, elf)
<1> PICK n : n = Len(elf.plt)
  OBVIOUS
<1>0. n \in Nat /\ DOMAIN elf.plt = 1..n
  BY DEF WellFormed
<1>1. PICK f \in [0..n -> Mem] :
            /\ f[0] = m /\ f[n] = FillAll(m, b, elf)
            /\ \A i \in 1..n : Entry(elf.plt[i], elf) /\ f[i] = FillSlot(f[i - 1], elf.plt[i], b, elf)
  BY FillAllRun
<1>2. ASSUME NEW i \in 1..n
      PROVE  /\ \A a \in Nat : a # Slot(elf.plt[i], b, elf) => Read(f[i], a) = Read(f[i - 1], a)
             /\ Bound(f[i], elf.plt[i], b, elf)
             /\ Slot(elf.plt[i], b, elf) \in Extent(b, elf) /\ Slot(elf.plt[i], b, elf) \in Nat
  <2>1. f[i - 1] \in Mem /\ Entry(elf.plt[i], elf) /\ f[i] = FillSlot(f[i - 1], elf.plt[i], b, elf)
    BY <1>0, <1>1
  <2> QED
    BY SMTT(30), <2>1, FillIs, SlotIs
<1>3. Same(f[0], f[n], Extent(b, elf))
  <2>1. \A i \in 1..n : Same(f[i - 1], f[i], Extent(b, elf))
    BY <1>2 DEF Same
  <2> QED
    BY <1>0, <2>1, LoopStaysHome
<1>4. ASSUME NEW j \in 1..n PROVE Bound(f[n], elf.plt[j], b, elf)
  <2>1. PICK slot : slot = [i \in 1..n |-> Slot(elf.plt[i], b, elf)]
    OBVIOUS
  <2>2. slot \in [1..n -> Nat] /\ \A i \in 1..n : slot[i] = Slot(elf.plt[i], b, elf)
    BY <1>2, <2>1
  <2>3. \A i \in 1..n : i > j => slot[i] # slot[j]
    <3>1. \A i \in 1..n : i > j => Slot(elf.plt[i], b, elf) # Slot(elf.plt[j], b, elf)
      BY <1>0, SlotsApart
    <3> QED
      BY <2>2, <3>1
  <2>4. \A i \in 1..n : \A a \in Nat : a # slot[i] => Read(f[i], a) = Read(f[i - 1], a)
    BY <1>2, <2>2
  <2>5. Read(f[n], slot[j]) = Read(f[j], slot[j])
    BY <1>0, <2>2, <2>3, <2>4, SlotStays
  <2> QED
    BY <1>2, <2>2, <2>5 DEF Bound
<1> QED
  BY <1>0, <1>1, <1>3, <1>4 DEF AllBound

\* The entries of .rela.plt that begin within the window are processed.
LEMMA TableIsNear ==
  ASSUME NEW elf, WellFormedLibrary(elf), NEW b \in Nat, NEW i \in DOMAIN elf.plt,
         elf.pltAt + i - 1 - first_load_vaddr(elf) <= Window
  PROVE  InWindow(TableAddress(elf.pltAt, b, elf) + i - 1, b)
<1> PICK first, v, n : first = first_load_vaddr(elf) /\ v = elf.pltAt /\ n = Len(elf.plt)
  OBVIOUS
<1>1. WellFormed(elf) /\ v \in Nat /\ elf.plt \in Seq(Relocations(elf))
  BY DEF WellFormedLibrary, WellFormed
<1>2. n \in Nat /\ i \in 1..n
  BY <1>1
<1>3. PICK w : w = v + i - 1
  OBVIOUS
<1>4. w \in Nat /\ w \in v..(v + n - 1)
  BY <1>1, <1>2, <1>3
<1>5. InLoad(w, elf)
  BY <1>4 DEF WellFormedLibrary, TableWords
<1>6. first \in Nat /\ w >= first
  BY <1>1, <1>4, <1>5, Placed
<1>7. TableAddress(v, b, elf) = b + v - first
  BY <1>1, <1>6 DEF TableAddress, Or, calculate_address_from_vaddr
<1>8. TableAddress(v, b, elf) + i - 1 = b + (w - first)
  BY <1>1, <1>2, <1>3, <1>6, <1>7
<1>9. Window \in Nat
  BY LinkerAssumption
<1>10. w - first <= Window
  BY <1>1, <1>2, <1>3, <1>4, <1>6, <1>9
<1> QED
  BY <1>4, <1>6, <1>8, <1>9, <1>10 DEF InWindow

\* What the code takes the linker's own .rela.plt to be is within the window.
NearTable(elf) ==
    \A i \in DOMAIN elf.plt :
        /\ NamedSlot(elf.plt[i], elf)
        /\ elf.plt[i].offset - first_load_vaddr(elf) <= Window
        /\ elf.pltAt + i - 1 - first_load_vaddr(elf) <= Window

\* Processing such a .rela.plt binds all its slots.
LEMMA PltBinds ==
  ASSUME NEW m \in Mem, NEW elf, WellFormedLibrary(elf), NEW b \in Nat \ {0}, NEW libs, LibsOK(libs),
         NearTable(elf)
  PROVE  AllBound(ProcessPlt(m, b, elf, libs), b, elf)
<1> SUFFICES ASSUME HasRelaEnt(elf), NEW j \in DOMAIN elf.plt
             PROVE  Bound(ProcessPlt(m, b, elf, libs), elf.plt[j], b, elf)
  BY DEF AllBound
<1>0. PICK t, n, at : t = elf.plt /\ n = Len(t) /\ at = TableAddress(elf.pltAt, b, elf)
  OBVIOUS
<1>1. WellFormed(elf) /\ Table(t, elf) /\ n \in Nat /\ DOMAIN t = 1..n /\ j \in 1..n /\ b \in Nat
  BY <1>0 DEF WellFormedLibrary, WellFormed, Table
<1>2. PICK f \in [0..n -> Mem] : Processes(f, m, at, t, b, elf, libs)
  BY <1>0, <1>1, ProcessAllRun
<1>3. ProcessPlt(m, b, elf, libs) = f[n]
  BY <1>0, <1>2 DEF ProcessPlt, Processes
<1>4. ASSUME NEW i \in 1..n
      PROVE  /\ f[i - 1] \in Mem /\ Entry(t[i], elf)
             /\ f[i] = process_relocation(f[i - 1], at + i - 1, t[i], b, elf, libs)
             /\ \A a \in Nat : a # Slot(t[i], b, elf) => Read(f[i], a) = Read(f[i - 1], a)
             /\ Slot(t[i], b, elf) \in Nat
  <2>1. /\ f[i - 1] \in Mem /\ Entry(t[i], elf)
        /\ f[i] = process_relocation(f[i - 1], at + i - 1, t[i], b, elf, libs)
    <3>1. i \in 1..Len(t)
      BY <1>0
    <3>2. Entry(t[i], elf) /\ f[i] = process_relocation(f[i - 1], at + i - 1, t[i], b, elf, libs)
      BY <1>2, <3>1 DEF Processes
    <3> QED
      BY <1>1, <1>2, <3>2
  <2>2. \A a \in Nat : a # Slot(t[i], b, elf) => Read(f[i], a) = Read(f[i - 1], a)
    BY <1>1, <2>1, RelocationIs
  <2>3. Slot(t[i], b, elf) \in Nat
    BY <1>1, <2>1, SlotIs
  <2> QED
    BY <2>1, <2>2, <2>3
<1>5. Bound(f[j], t[j], b, elf)
  <2>1. InWindow(at + j - 1, b) /\ NamedSlot(t[j], elf) /\ t[j].offset - first_load_vaddr(elf) <= Window
    BY <1>0, TableIsNear DEF NearTable
  <2>2. /\ f[j - 1] \in Mem /\ Entry(t[j], elf)
        /\ f[j] = process_relocation(f[j - 1], at + j - 1, t[j], b, elf, libs)
    BY <1>1, <1>4
  <2> QED
    BY <1>1, <2>1, <2>2, RelocationIs
<1>6. PICK slot : slot = [i \in 1..n |-> Slot(t[i], b, elf)]
  OBVIOUS
<1>7. slot \in [1..n -> Nat] /\ \A i \in 1..n : slot[i] = Slot(t[i], b, elf)
  BY <1>4, <1>6
<1>8. ASSUME NEW i \in 1..n, i > j PROVE slot[i] # slot[j]
  <2>1. i \in DOMAIN elf.plt /\ i # j
    BY <1>0, <1>1, <1>8
  <2>2. Slot(t[i], b, elf) # Slot(t[j], b, elf)
    BY <1>0, <1>1, <2>1, SlotsApart
  <2> QED
    BY <1>1, <1>7, <2>2
<1>9. \A i \in 1..n : \A a \in Nat : a # slot[i] => Read(f[i], a) = Read(f[i - 1], a)
  BY <1>4, <1>7
<1>10. Read(f[n], slot[j]) = Read(f[j], slot[j])
  <2>1. j \in 1..n /\ n \in Nat /\ f \in [0..n -> Mem]
    BY <1>1, <1>2
  <2>2. \A i \in 1..n : i > j => slot[i] # slot[j]
    BY <1>8
  <2> QED
    BY <1>7, <1>9, <2>1, <2>2, SlotStays
<1>11. Read(f[n], Slot(t[j], b, elf)) = Read(f[j], Slot(t[j], b, elf))
  BY <1>1, <1>7, <1>10
<1> QED
  BY <1>0, <1>3, <1>5, <1>11 DEF Bound

\* The memory after the linker's own relocations
AfterBootstrap(m, b, elf, libs) == ProcessPlt(ProcessRela(m, b, elf, libs), b, elf, libs)

\* They bind the linker's slots, whatever its .rela.dyn writes.
LEMMA BootstrapIs ==
  ASSUME NEW m \in Mem, NEW elf, WellFormedLibrary(elf), NEW b \in Nat \ {0}, NEW libs, LibsOK(libs),
         NearTable(elf)
  PROVE  LET after == AfterBootstrap(m, b, elf, libs) IN
         /\ after \in Mem
         /\ Same(m, after, Extent(b, elf))
         /\ AllBound(after, b, elf)
<1> PICK r : r = ProcessRela(m, b, elf, libs)
  OBVIOUS
<1>1. r \in Mem /\ Same(m, r, Extent(b, elf))
  BY TablesStayHome
<1>2. ProcessPlt(r, b, elf, libs) \in Mem /\ Same(r, ProcessPlt(r, b, elf, libs), Extent(b, elf))
  BY <1>1, TablesStayHome
<1>3. AllBound(ProcessPlt(r, b, elf, libs), b, elf)
  BY <1>1, PltBinds
<1>4. Same(m, ProcessPlt(r, b, elf, libs), Extent(b, elf))
  BY <1>1, <1>2 DEF Same
<1> QED
  BY <1>2, <1>3, <1>4 DEF AfterBootstrap

\* The executable's loop writes to the executable only, and each slot it takes gets
\* what its symbol is resolved to, if that is an address.
LEMMA FillExecAllIs ==
  ASSUME NEW m \in Mem, WellFormed(exec.elf), NEW b \in Nat \ {0}, NEW libs, LibsOK(libs),
         \A i \in DOMAIN exec.elf.plt : NamedSlot(exec.elf.plt[i], exec.elf)
  PROVE  LET after == FillExec(m, b, libs) IN
         /\ after \in Mem
         /\ Same(m, after, Extent(b, exec.elf))
         /\ \A i \in 1..ExecSlotCount :
                LET r == exec.elf.plt[i]
                    address == resolve_symbol_global(exec.elf.symtab[r.sym].name, libs)
                IN address # 0 => Read(after, Slot(r, b, exec.elf)) = address
<1> PICK n : n = ExecSlotCount
  OBVIOUS
<1>a. PICK elf : elf = exec.elf
  OBVIOUS
<1> DEFINE address(i) == resolve_symbol_global(elf.symtab[elf.plt[i].sym].name, libs)
<1>0. n \in Nat /\ \A i \in 1..n : i \in DOMAIN elf.plt
  BY <1>a, LinkerAssumption DEF WellFormed, ExecSlotCount
<1>1. PICK f \in [0..n -> Mem] :
            /\ f[0] = m /\ f[n] = FillExec(m, b, libs)
            /\ \A i \in 1..n : Entry(elf.plt[i], elf) /\ f[i] = FillExecSlot(f[i - 1], elf.plt[i], b, libs)
  BY <1>a, FillExecRun
<1>2. ASSUME NEW i \in 1..n
      PROVE  /\ \A a \in Nat : a # Slot(elf.plt[i], b, elf) => Read(f[i], a) = Read(f[i - 1], a)
             /\ address(i) # 0 => Read(f[i], Slot(elf.plt[i], b, elf)) = address(i)
             /\ Slot(elf.plt[i], b, elf) \in Extent(b, elf) /\ Slot(elf.plt[i], b, elf) \in Nat
  <2>1. f[i - 1] \in Mem /\ Entry(elf.plt[i], elf) /\ f[i] = FillExecSlot(f[i - 1], elf.plt[i], b, libs)
    BY <1>0, <1>1
  <2>2. NamedSlot(elf.plt[i], elf)
    BY <1>0, <1>a
  <2>3. /\ \A a \in Nat : a # Slot(elf.plt[i], b, elf) => Read(f[i], a) = Read(f[i - 1], a)
        /\ address(i) # 0 => Read(f[i], Slot(elf.plt[i], b, elf)) = address(i)
    BY <1>a, <2>1, <2>2, FillExecIs
  <2>4. Slot(elf.plt[i], b, elf) \in Extent(b, elf) /\ Slot(elf.plt[i], b, elf) \in Nat
    BY <1>a, <2>1, SlotIs
  <2> QED
    BY <2>3, <2>4
<1> HIDE DEF address
<1>3. Same(f[0], f[n], Extent(b, elf))
  <2>1. \A i \in 1..n : Same(f[i - 1], f[i], Extent(b, elf))
    BY <1>2 DEF Same
  <2> QED
    BY <1>0, <2>1, LoopStaysHome
<1>4. ASSUME NEW j \in 1..n, address(j) # 0 PROVE Read(f[n], Slot(elf.plt[j], b, elf)) = address(j)
  <2>1. PICK slot : slot = [i \in 1..n |-> Slot(elf.plt[i], b, elf)]
    OBVIOUS
  <2>2. slot \in [1..n -> Nat] /\ \A i \in 1..n : slot[i] = Slot(elf.plt[i], b, elf)
    BY <1>2, <2>1
  <2>3. \A i \in 1..n : i > j => slot[i] # slot[j]
    <3>1. \A i \in 1..n : i > j => Slot(elf.plt[i], b, elf) # Slot(elf.plt[j], b, elf)
      BY <1>0, <1>a, SlotsApart
    <3> QED
      BY <2>2, <3>1
  <2>4. \A i \in 1..n : \A a \in Nat : a # slot[i] => Read(f[i], a) = Read(f[i - 1], a)
    BY <1>2, <2>2
  <2>5. Read(f[n], slot[j]) = Read(f[j], slot[j])
    BY ZenonT(40), <1>0, <2>2, <2>3, <2>4, SlotStays
  <2> QED
    BY <1>2, <1>4, <2>2, <2>5
<1> QED
  BY <1>0, <1>a, <1>1, <1>3, <1>4 DEF address

-----------------------------------------------------------------------------
(* The initial stack *)

\* r is s and t put together.
Joined(r, s, t) ==
    /\ r \in Seq(Int) /\ Len(r) = Len(s) + Len(t)
    /\ \A i \in 1..Len(s) : r[i] = s[i]
    /\ \A i \in (Len(s) + 1)..(Len(s) + Len(t)) : r[i] = t[i - Len(s)]

LEMMA Concat == ASSUME NEW s \in Seq(Int), NEW t \in Seq(Int) PROVE Joined(s \o t, s, t)
  BY DEF Joined

\* Where the words of the initial stack are: the environment ends in front of `at`,
\* and the auxiliary vector starts there.
Words(w, env, x, l, at) ==
    /\ DOMAIN w = 1..(at + 7) /\ w[1] = env.argc
    /\ \A i \in (env.argc + 3)..(at - 2) : w[i] = 1
    /\ w[at - 1] = 0
    /\ w[at] = AT_PHDR /\ w[at + 1] = x.base + EhdrSize
    /\ w[at + 2] = AT_BASE /\ w[at + 3] = l.base
    /\ w[at + 4] = AT_ENTRY /\ w[at + 5] = x.base + x.elf.entry - first_load_vaddr(x.elf)
    /\ w[at + 6] = AT_NULL

\* The stack the kernel leaves has its words there.
LEMMA StackIs ==
  ASSUME NEW env \in Environments, NEW x \in Executables, NEW l \in Linkers, NEW at,
         at = env.argc + env.envc + 4
  PROVE  Words(KernelStack(env, x, l), env, x, l, at)
<1>a. PICK argc, envc, phdr, lbase, entry :
        /\ argc = env.argc /\ envc = env.envc /\ phdr = x.base + EhdrSize /\ lbase = l.base
        /\ entry = x.base + x.elf.entry - first_load_vaddr(x.elf)
  OBVIOUS
<1>0. at = argc + envc + 4 /\ argc \in Nat /\ envc \in Nat /\ phdr \in Int /\ lbase \in Int /\ entry \in Int
  <2>1. first_load_vaddr(x.elf) \in Nat
    BY FileAssumption, Placed
  <2> QED
    BY <1>a, <2>1, LinkerAssumption, FileAssumption DEF EhdrSize
<1>b. PICK w : w = KernelStack(env, x, l)
  OBVIOUS
<1>1. PICK args : args = [i \in 1..argc |-> 1]
  OBVIOUS
<1>2. PICK envs : envs = [i \in 1..envc |-> 1]
  OBVIOUS
<1>3. PICK aux : aux = <<AT_PHDR, phdr, AT_BASE, lbase, AT_ENTRY, entry, AT_NULL, 0>>
  OBVIOUS
<1>4. /\ args \in Seq(Int) /\ Len(args) = argc
      /\ envs \in Seq(Int) /\ Len(envs) = envc /\ \A i \in 1..envc : envs[i] = 1
  BY <1>0, <1>1, <1>2
<1>5. /\ aux \in Seq(Int) /\ Len(aux) = 8
      /\ aux[1] = AT_PHDR /\ aux[2] = phdr /\ aux[3] = AT_BASE /\ aux[4] = lbase
      /\ aux[5] = AT_ENTRY /\ aux[6] = entry /\ aux[7] = AT_NULL
  BY <1>0, <1>3 DEF AT_PHDR, AT_BASE, AT_ENTRY, AT_NULL
<1>6. PICK zero : zero = <<0>>
  OBVIOUS
<1>7. PICK w1 : w1 = <<argc>> \o args
  OBVIOUS
<1>8. PICK w2 : w2 = w1 \o zero
  OBVIOUS
<1>9. PICK w3 : w3 = w2 \o envs
  OBVIOUS
<1>10. PICK w4 : w4 = w3 \o zero
  OBVIOUS
<1>11. w = w4 \o aux
  BY <1>a, <1>b, <1>1, <1>2, <1>3, <1>6, <1>7, <1>8, <1>9, <1>10 DEF KernelStack
<1>12. zero \in Seq(Int) /\ Len(zero) = 1 /\ zero[1] = 0
  BY <1>6
<1>13. w1 \in Seq(Int) /\ Len(w1) = argc + 1 /\ w1[1] = argc
  BY <1>0, <1>4, <1>7
<1>14. w2 \in Seq(Int) /\ Len(w2) = argc + 2 /\ w2[1] = argc
  <2>1. Joined(w2, w1, zero)
    BY <1>8, <1>12, <1>13, Concat
  <2> QED
    BY <1>0, <1>12, <1>13, <2>1 DEF Joined
<1>15. /\ w3 \in Seq(Int) /\ Len(w3) = argc + envc + 2 /\ w3[1] = argc
       /\ \A i \in (argc + 3)..(argc + envc + 2) : w3[i] = 1
  <2>1. Joined(w3, w2, envs)
    BY <1>4, <1>9, <1>14, Concat
  <2>2. ASSUME NEW i \in (argc + 3)..(argc + envc + 2) PROVE w3[i] = 1
    <3>1. i \in (Len(w2) + 1)..(Len(w2) + Len(envs)) /\ i - Len(w2) \in 1..envc
      BY <1>0, <1>4, <1>14
    <3> QED
      BY <1>4, <2>1, <3>1 DEF Joined
  <2> QED
    BY <1>0, <1>4, <1>14, <2>1, <2>2 DEF Joined
<1>16. /\ w4 \in Seq(Int) /\ Len(w4) = argc + envc + 3 /\ w4[1] = argc
       /\ \A i \in (argc + 3)..(argc + envc + 2) : w4[i] = 1
       /\ w4[argc + envc + 3] = 0
  <2>1. Joined(w4, w3, zero)
    BY <1>10, <1>12, <1>15, Concat
  <2>2. /\ argc + envc + 3 \in (Len(w3) + 1)..(Len(w3) + Len(zero))
        /\ argc + envc + 3 - Len(w3) = 1
    BY <1>0, <1>12, <1>15
  <2>3. w4[argc + envc + 3] = 0
    BY <1>12, <2>1, <2>2 DEF Joined
  <2>4. \A i \in (argc + 3)..(argc + envc + 2) : i \in 1..Len(w3)
    BY <1>0, <1>15
  <2>5. 1 \in 1..Len(w3)
    BY <1>0, <1>15
  <2>6. \A i \in (argc + 3)..(argc + envc + 2) : w4[i] = 1
    BY <1>15, <2>1, <2>4 DEF Joined
  <2> QED
    BY <1>0, <1>12, <1>15, <2>1, <2>3, <2>5, <2>6 DEF Joined
<1>17. /\ w \in Seq(Int) /\ Len(w) = at + 7 /\ w[1] = argc
       /\ \A i \in (argc + 3)..(at - 2) : w[i] = 1
       /\ w[at - 1] = 0
       /\ \A i \in 1..8 : w[at - 1 + i] = aux[i]
  <2>0. Len(w4) = argc + envc + 3 /\ Len(aux) = 8
    BY <1>5, <1>16
  <2>1. Joined(w, w4, aux)
    BY <1>5, <1>11, <1>16, Concat
  <2>2. /\ at - 1 = argc + envc + 3 /\ at - 2 = argc + envc + 2
        /\ 1 \in 1..Len(w4) /\ at - 1 \in 1..Len(w4)
        /\ \A i \in (argc + 3)..(argc + envc + 2) : i \in 1..Len(w4)
    BY <1>0, <1>16
  <2>3. w[1] = argc /\ w[at - 1] = 0 /\ \A i \in (argc + 3)..(argc + envc + 2) : w[i] = 1
    BY <1>16, <2>1, <2>2 DEF Joined
  <2>4. ASSUME NEW i \in 1..8 PROVE w[at - 1 + i] = aux[i]
    <3>1. PICK k : k = at - 1 + i
      OBVIOUS
    <3>2. k \in (Len(w4) + 1)..(Len(w4) + Len(aux)) /\ k - Len(w4) = i
      BY <1>0, <2>0, <3>1
    <3> QED
      BY <2>1, <3>1, <3>2 DEF Joined
  <2>5. w \in Seq(Int) /\ Len(w) = at + 7
    BY <1>0, <2>0, <2>1 DEF Joined
  <2> QED
    BY <2>2, <2>3, <2>4, <2>5
<1>19. /\ w[at] = aux[1] /\ w[at + 1] = aux[2] /\ w[at + 2] = aux[3] /\ w[at + 3] = aux[4]
       /\ w[at + 4] = aux[5] /\ w[at + 5] = aux[6] /\ w[at + 6] = aux[7]
  <2>1. /\ at - 1 + 1 = at /\ at - 1 + 2 = at + 1 /\ at - 1 + 3 = at + 2 /\ at - 1 + 4 = at + 3
        /\ at - 1 + 5 = at + 4 /\ at - 1 + 6 = at + 5 /\ at - 1 + 7 = at + 6
    BY <1>0
  <2>2. /\ w[at - 1 + 1] = aux[1] /\ w[at - 1 + 2] = aux[2] /\ w[at - 1 + 3] = aux[3] /\ w[at - 1 + 4] = aux[4]
        /\ w[at - 1 + 5] = aux[5] /\ w[at - 1 + 6] = aux[6] /\ w[at - 1 + 7] = aux[7]
    BY <1>17
  <2> QED
    BY <2>1, <2>2
<1>20. DOMAIN w = 1..(at + 7)
  BY <1>0, <1>17
<1> QED
  BY <1>a, <1>b, <1>5, <1>17, <1>19, <1>20 DEF Words

\* parse_stack and get_auxv find the auxiliary vector and its values.
LEMMA AuxvIs ==
  ASSUME NEW env \in Environments, NEW x, NEW l, NEW at \in Nat, at = env.argc + env.envc + 4,
         NEW w, Words(w, env, x, l, at)
  PROVE  /\ parse_stack(w) = at
         /\ get_auxv(w, at, AT_PHDR) = x.base + EhdrSize
         /\ get_auxv(w, at, AT_BASE) = l.base
         /\ get_auxv(w, at, AT_ENTRY) = x.base + x.elf.entry - first_load_vaddr(x.elf)
<1>0. env.argc \in Nat /\ env.envc \in Nat
  BY LinkerAssumption
<1>1. parse_stack(w) = at
  <2>1. PICK S : S = {i \in DOMAIN w : i >= 2 + w[1] + 1 /\ w[i] = 0}
    OBVIOUS
  <2>2. S \in SUBSET Nat /\ at - 1 \in S /\ \A i \in S : at - 1 <= i
    <3>1. PICK argc : argc = env.argc
      OBVIOUS
    <3>2. /\ argc \in Nat /\ at - 1 >= argc + 3 /\ DOMAIN w = 1..(at + 7) /\ w[at - 1] = 0 /\ w[1] = argc
          /\ \A i \in (argc + 3)..(at - 2) : w[i] = 1
      BY <1>0, <3>1 DEF Words
    <3>3. at - 1 \in S
      BY <2>1, <3>2
    <3>4. ASSUME NEW i \in S PROVE i \in Nat /\ at - 1 <= i
      <4>1. i \in 1..(at + 7) /\ i >= argc + 3 /\ w[i] = 0
        BY <2>1, <3>2
      <4>2. i \notin (argc + 3)..(at - 2)
        BY <3>2, <4>1
      <4> QED
        BY <3>2, <4>1, <4>2
    <3> QED
      BY <3>3, <3>4
  <2>3. Min(S) \in S /\ \A y \in S : Min(S) <= y
    BY <2>2, MinIs
  <2>4. Min(S) = at - 1
    <3>1. PICK k : k = Min(S)
      OBVIOUS
    <3>2. k \in Nat /\ k <= at - 1 /\ at - 1 <= k
      BY <2>2, <2>3, <3>1
    <3> QED
      BY <3>1, <3>2
  <2> QED
    BY <2>1, <2>4 DEF parse_stack
<1>2. PICK pairs : pairs = {i \in DOMAIN w : i >= at /\ (i - at) % 2 = 0}
  OBVIOUS
<1>3. pairs = {at, at + 2, at + 4, at + 6}
  <2>1. \A k \in 0..7 : k % 2 = 0 <=> k \in {0, 2, 4, 6}
    OBVIOUS
  <2>2. DOMAIN w = 1..(at + 7)
    BY DEF Words
  <2>3. \A i \in DOMAIN w : i >= at => ((i - at) % 2 = 0 <=> i \in {at, at + 2, at + 4, at + 6})
    <3>1. ASSUME NEW i \in DOMAIN w, i >= at PROVE (i - at) % 2 = 0 <=> i \in {at, at + 2, at + 4, at + 6}
      <4>1. PICK k : k = i - at
        OBVIOUS
      <4>2. k \in 0..7 /\ i = at + k
        BY <2>2, <3>1, <4>1
      <4> QED
        BY <2>1, <4>1, <4>2
    <3> QED
      BY <3>1
  <2>4. at \in DOMAIN w /\ at + 2 \in DOMAIN w /\ at + 4 \in DOMAIN w /\ at + 6 \in DOMAIN w
    <3>1. at >= 1
      BY <1>0
    <3> QED
      BY <2>2, <3>1
  <2> QED
    BY <1>2, <2>3, <2>4
<1>4. Min({i \in pairs : w[i] = AT_NULL}) = at + 6
  <2>1. {i \in pairs : w[i] = AT_NULL} = {at + 6}
    BY <1>3 DEF Words, AT_NULL, AT_PHDR, AT_BASE, AT_ENTRY
  <2>2. at + 6 \in Nat
    BY <1>0
  <2>3. Min({at + 6}) \in {at + 6}
    BY <2>2, MinIs
  <2> QED
    BY <2>1, <2>3
<1>5. ASSUME NEW tag, NEW k \in {at, at + 2, at + 4}, {i \in pairs : i < at + 6 /\ w[i] = tag} = {k}
      PROVE  get_auxv(w, at, tag) = w[k + 1]
  <2>1. Min({k}) = k
    <3>1. k \in Nat
      BY <1>0
    <3>2. Min({k}) \in {k}
      BY <3>1, MinIs
    <3> QED
      BY <3>2
  <2> QED
    BY <1>2, <1>4, <1>5, <2>1 DEF get_auxv
<1>6. /\ {i \in pairs : i < at + 6 /\ w[i] = AT_PHDR} = {at}
      /\ {i \in pairs : i < at + 6 /\ w[i] = AT_BASE} = {at + 2}
      /\ {i \in pairs : i < at + 6 /\ w[i] = AT_ENTRY} = {at + 4}
  <2>1. w[at] = 3 /\ w[at + 2] = 7 /\ w[at + 4] = 9
    BY DEF Words, AT_PHDR, AT_BASE, AT_ENTRY
  <2>2. {i \in pairs : i < at + 6 /\ w[i] = 3} = {at}
    BY <1>3, <2>1
  <2>3. {i \in pairs : i < at + 6 /\ w[i] = 7} = {at + 2}
    BY <1>3, <2>1
  <2>4. {i \in pairs : i < at + 6 /\ w[i] = 9} = {at + 4}
    BY <1>3, <2>1
  <2> QED
    BY <2>2, <2>3, <2>4 DEF AT_PHDR, AT_BASE, AT_ENTRY
<1>7. get_auxv(w, at, AT_PHDR) = w[at + 1] /\ get_auxv(w, at, AT_BASE) = w[at + 3] /\ get_auxv(w, at, AT_ENTRY) = w[at + 5]
  <2>1. get_auxv(w, at, AT_PHDR) = w[at + 1]
    BY <1>5, <1>6
  <2>2. get_auxv(w, at, AT_BASE) = w[at + 3]
    BY <1>5, <1>6
  <2>3. get_auxv(w, at, AT_ENTRY) = w[at + 5]
    BY <1>5, <1>6
  <2> QED
    BY <2>1, <2>2, <2>3
<1> QED
  BY <1>1, <1>7 DEF Words

-----------------------------------------------------------------------------
(* The invariant of the whole run: which files and addresses are at work, what *)
(* has been read from the stack, how many libraries there are, and which slots *)
(* are bound by then.                                                          *)

\* What the kernel has set up
WorldOK ==
    /\ exec \in Executables /\ linker \in Linkers /\ files \in FileSystems
    /\ \E env \in Environments : stack = KernelStack(env, exec, linker)

AuxvOK ==
    pc # "parse" =>
        auxv = [base |-> linker.base, phdr |-> exec.base + EhdrSize,
                entry |-> exec.base + exec.elf.entry - first_load_vaddr(exec.elf)]

\* Where the libraries are, and of which files
PlaceOK ==
    /\ pc \in {"parse", "bootstrap", "needed", "exec", "init", "start", "running", "failed"} \cup LoadSteps
    /\ next \in 1..(Len(exec.needed) + 1)
    /\ pc \in LoadSteps => next <= Len(exec.needed)
    /\ base \in Bases \cup {0}
    /\ pc \in HoldsImage \cup Relocating => base \in Bases
    /\ \A i \in DOMAIN loaded :
        /\ loaded[i].base \in Bases /\ loaded[i].entry \in 1..Len(exec.needed)
        /\ loaded[i].elf = files[exec.needed[loaded[i].entry]]

\* One library at most for each DT_NEEDED entry that has had its turn; a run that
\* fails with all of them loaded has not found where to start the executable.
CountOK ==
    /\ pc \in Loading \ Relocating => Len(loaded) < next
    /\ pc \in Relocating => Len(loaded) <= next
    /\ Len(loaded) <= Len(exec.needed)
    /\ pc = "failed" =>
        \/ ~CanBootstrap \/ Len(loaded) < Len(exec.needed)
        \/ Named("main", exec.elf) = {} /\ exec.base # first_load_vaddr(exec.elf)

MemOK == mem \in Mem /\ calls \in Seq(Int)

\* The linker's slots are bound once it has relocated itself, a library's when its
\* turn is over.
BoundOK ==
    /\ pc \notin {"parse", "bootstrap", "failed"} => AllBound(mem, linker.base, linker.elf)
    /\ pc # "failed" =>
        \A i \in DOMAIN loaded : (pc \in Relocating => i # 1) => AllBound(mem, loaded[i].base, loaded[i].elf)

\* The executable's slot of entry r holds a definition, where all symbols of that
\* name are defined.
ExecBound(r) ==
    LET name == exec.elf.symtab[r.sym].name IN
    Definitions(name) # {} /\ ~Imported(name) =>
        Read(mem, Slot(r, exec.base, exec.elf)) \in Definitions(name)

ExecOK ==
    pc \in {"init", "start", "running"} => \A i \in 1..ExecSlotCount : ExecBound(exec.elf.plt[i])

\* What has been started last is the executable.
StartOK ==
    pc = "running" =>
        Last(calls) = exec.base + (IF Named("main", exec.elf) = {} THEN exec.elf.entry
                                   ELSE find_symbol("main", exec.elf).value) - first_load_vaddr(exec.elf)

\* No loaded library has an array of initialisers.
NoArrays == \A lib \in Libraries : lib.elf.init_array = 0

\* Where the DT_INIT function of the i-th library of the list is
InitAt(i) == loaded[i].base + loaded[i].elf.init - first_load_vaddr(loaded[i].elf)

\* The libraries whose turn is over, of those that have one
Initialised == {i \in DOMAIN loaded : i < next /\ loaded[i].elf.init # 0}

\* Without arrays what has been called is the DT_INIT function of each of these, once,
\* and in the end the executable.
CallsOK ==
    /\ pc \notin {"init", "start", "running", "failed"} => calls = <<>>
    /\ pc \in {"start", "running"} => Len(loaded) < next
    /\ pc \in {"init", "start", "running"} /\ NoArrays =>
        /\ \A i \in Initialised : \E k \in DOMAIN calls : calls[k] = InitAt(i)
        /\ \A k \in DOMAIN calls :
            \/ \E i \in Initialised : calls[k] = InitAt(i)
            \/ pc = "running" /\ calls[k] \in Extent(exec.base, exec.elf)
        /\ \A k, l \in DOMAIN calls : calls[k] = calls[l] => k = l

RunInv ==
    IInv /\ WorldOK /\ AuxvOK /\ PlaceOK /\ CountOK /\ MemOK /\ BoundOK /\ ExecOK /\ StartOK /\ CallsOK

\* What the assumptions say of the files at work
LEMMA Files ==
  ASSUME IInv, WorldOK, PlaceOK
  PROVE  /\ LibsOK(loaded)
         /\ \A i \in DOMAIN loaded : WellFormedLibrary(loaded[i].elf) /\ Size(loaded[i].elf) <= Span
         /\ pc \in LoadSteps => WellFormedLibrary(current) /\ Size(current) <= Span
         /\ WellFormedLibrary(linker.elf) /\ linker.base \in Nat
         /\ WellFormed(exec.elf) /\ exec.base \in Nat \ {0}
         /\ Len(exec.needed) \in Nat
<1>1. exec \in Executables /\ linker \in Linkers /\ files \in FileSystems
  BY DEF WorldOK
<1>2. exec.needed \in Seq(DOMAIN files)
  BY <1>1, FileAssumption
<1>3. Len(exec.needed) \in Nat /\ \A i \in 1..Len(exec.needed) : exec.needed[i] \in DOMAIN files
  <2>1. PICK n, D : n = exec.needed /\ D = DOMAIN files
    OBVIOUS
  <2>2. n \in Seq(D)
    BY <1>2, <2>1
  <2> QED
    BY <2>1, <2>2
<1>4. ASSUME NEW i \in 1..Len(exec.needed)
      PROVE  WellFormedLibrary(files[exec.needed[i]]) /\ Size(files[exec.needed[i]]) <= Span
  BY <1>1, <1>3, FileAssumption, LinkerAssumption
<1>5. \A i \in DOMAIN loaded : WellFormedLibrary(loaded[i].elf) /\ Size(loaded[i].elf) <= Span
  BY <1>4 DEF PlaceOK
<1>6. pc \in LoadSteps => WellFormedLibrary(current) /\ Size(current) <= Span
  <2>1. pc \in LoadSteps => next \in 1..Len(exec.needed)
    BY <1>3 DEF PlaceOK
  <2> QED
    BY <1>4, <2>1 DEF current
<1>7. LibsOK(loaded)
  <2>1. \A i \in DOMAIN loaded : loaded[i].base \in Nat \ {0}
    BY LinkerAssumption DEF PlaceOK
  <2> QED
    BY <1>5, <2>1 DEF LibsOK, IInv, ListOK
<1>8. WellFormedLibrary(linker.elf) /\ linker.base \in Nat
  BY <1>1, FileAssumption, LinkerAssumption
<1>9. WellFormed(exec.elf) /\ exec.base \in Nat \ {0}
  BY <1>1, FileAssumption, LinkerAssumption
<1> QED
  BY <1>3, <1>5, <1>6, <1>7, <1>8, <1>9

\* The kernel's part stays as it is.
LEMMA WorldStep == WorldOK /\ [Next]_vars => WorldOK' /\ UNCHANGED world
<1> SUFFICES ASSUME WorldOK, [Next]_vars PROVE UNCHANGED world
  BY DEF WorldOK, world
<1> QED
  BY DEF Next, Load, Ended, vars, Parse, Bootstrap, BootstrapFails, Needed, Open, OpenFails, ReadHeader,
         ReadHeaderFails, AllocPhdr, AllocPhdrFails, ReadPhdr, ReadPhdrFails, Reserve, ReserveFails,
         MapNowhereFails, MapSegments, MapSegmentsFails, FindDynamic, FindDynamicFails, AllocNode,
         AllocNodeFails, RelocateRela, RelocateRelaFails, RelocatePlt, Refill, RelocateExec, CallInit, Start, Fail

\* The auxiliary vector is read correctly, and never changes after that.
LEMMA AuxvStep == WorldOK /\ AuxvOK /\ [Next]_vars => AuxvOK'
<1> SUFFICES ASSUME WorldOK, AuxvOK, [Next]_vars PROVE AuxvOK'
  OBVIOUS
<1>1. UNCHANGED <<exec, linker, files, stack>>
  BY WorldStep DEF world
<1>2. CASE Parse
  <2>1. PICK env \in Environments : stack = KernelStack(env, exec, linker)
    BY DEF WorldOK
  <2>2. env.argc + env.envc + 4 \in Nat /\ exec \in Executables /\ linker \in Linkers
    BY LinkerAssumption DEF WorldOK
  <2>3. Words(stack, env, exec, linker, env.argc + env.envc + 4)
    BY <2>1, <2>2, StackIs
  <2>4. PICK at \in Nat : at = env.argc + env.envc + 4
    BY <2>2
  <2>5. /\ parse_stack(stack) = at
        /\ get_auxv(stack, at, AT_PHDR) = exec.base + EhdrSize
        /\ get_auxv(stack, at, AT_BASE) = linker.base
        /\ get_auxv(stack, at, AT_ENTRY) = exec.base + exec.elf.entry - first_load_vaddr(exec.elf)
    BY <2>3, <2>4, AuxvIs
  <2> QED
    BY <1>1, <1>2, <2>5 DEF Parse, AuxvOK
<1>3. CASE ~Parse
  <2>1. (pc # "parse" /\ UNCHANGED auxv) \/ UNCHANGED <<pc, auxv>>
    BY <1>3 DEF Next, Load, Ended, vars, Step, Bootstrap, BootstrapFails, Needed, Open, OpenFails, ReadHeader,
         ReadHeaderFails, AllocPhdr, AllocPhdrFails, ReadPhdr, ReadPhdrFails, Reserve, ReserveFails,
         MapNowhereFails, MapSegments, MapSegmentsFails, FindDynamic, FindDynamicFails, AllocNode,
         AllocNodeFails, RelocateRela, RelocateRelaFails, RelocatePlt, Refill, RelocateExec, CallInit, Start, Fail
  <2> QED
    BY <1>1, <2>1 DEF AuxvOK
<1> QED
  BY <1>2, <1>3

\* The libraries on the list before an action is in the middle of it, or after it
LEMMA LengthIs ==
  ASSUME IInv
  PROVE  /\ Len(loaded) \in Nat /\ DOMAIN loaded = 1..Len(loaded)
         /\ AllocNode => Len(loaded') = Len(loaded) + 1
         /\ RelocateRelaFails => Len(loaded') = Len(loaded) - 1
<1>1. PICK s : s = loaded
  OBVIOUS
<1>2. PICK S : s \in Seq(S)
  BY <1>1 DEF IInv, ListOK, IsSequence
<1>3. Len(s) \in Nat /\ DOMAIN s = 1..Len(s)
  BY <1>2
<1>4. ASSUME AllocNode PROVE Len(loaded') = Len(loaded) + 1
  <2>1. PICK x : loaded' = <<x>> \o loaded
    BY <1>4 DEF AllocNode
  <2>2. DOMAIN loaded' = 1..(Len(loaded) + 1) /\ IsSequence(loaded')
    BY <2>1, Grow DEF IInv, ListOK
  <2>3. PICK t, T : t = loaded' /\ t \in Seq(T)
    BY <2>2 DEF IsSequence
  <2>4. Len(t) \in Nat /\ DOMAIN t = 1..Len(t)
    BY <2>3
  <2> QED
    BY <1>1, <1>3, <2>2, <2>3, <2>4
<1>5. ASSUME RelocateRelaFails PROVE Len(loaded') = Len(loaded) - 1
  <2>1. s # <<>> /\ loaded' = Tail(s)
    BY <1>1, <1>5 DEF RelocateRelaFails, Fail, Step, IInv, ListOK, Relocating
  <2>2. Len(Tail(s)) = Len(s) - 1
    BY <1>2, <2>1
  <2> QED
    BY <1>1, <2>1, <2>2
<1> QED
  BY <1>1, <1>3, <1>4, <1>5

\* Every library on the list is the file of its DT_NEEDED entry.
LEMMA PlaceStep == IInv /\ WorldOK /\ PlaceOK /\ CountOK /\ [Next]_vars => PlaceOK'
<1> SUFFICES ASSUME IInv, WorldOK, PlaceOK, CountOK, [Next]_vars PROVE PlaceOK'
  OBVIOUS
<1>0. Len(exec.needed) \in Nat /\ Len(loaded) \in Nat /\ DOMAIN loaded = 1..Len(loaded)
  BY Files, LengthIs
<1>w. UNCHANGED <<exec, linker, files, stack>>
  BY WorldStep DEF world
<1> USE DEF PlaceOK, Step, HoldsImage, Relocating, LoadSteps
<1>1. CASE Parse \/ Bootstrap \/ BootstrapFails \/ Start \/ UNCHANGED vars
  BY <1>0, <1>1, <1>w DEF Parse, Bootstrap, BootstrapFails, Start, vars
<1>2. CASE Needed
  BY <1>0, <1>2, <1>w DEF Needed
<1>3. CASE \/ Open \/ ReadHeader \/ AllocPhdr \/ ReadPhdr \/ MapSegments \/ FindDynamic
           \/ RelocateRela \/ RelocatePlt
  BY <1>0, <1>3, <1>w DEF Open, ReadHeader, AllocPhdr, ReadPhdr, MapSegments, FindDynamic, RelocateRela, RelocatePlt
<1>4. CASE \/ OpenFails \/ ReadHeaderFails \/ AllocPhdrFails \/ ReadPhdrFails
           \/ ReserveFails \/ MapNowhereFails \/ MapSegmentsFails \/ FindDynamicFails \/ AllocNodeFails
  BY <1>0, <1>4, <1>w DEF OpenFails, ReadHeaderFails, AllocPhdrFails, ReadPhdrFails, ReserveFails, MapNowhereFails,
        MapSegmentsFails, FindDynamicFails, AllocNodeFails, Fail
<1>5. CASE Reserve
  BY <1>0, <1>5, <1>w DEF Reserve
<1>6. CASE AllocNode
  <2>1. PICK path : loaded' = <<[path |-> path, entry |-> next, base |-> base, elf |-> current]>> \o loaded
    BY <1>6 DEF AllocNode
  <2>2. PICK x : x = [path |-> path, entry |-> next, base |-> base, elf |-> current]
    OBVIOUS
  <2>3. /\ \A i \in DOMAIN loaded' : i # 1 => i - 1 \in DOMAIN loaded /\ loaded'[i] = loaded[i - 1]
        /\ loaded'[1] = x
    BY <2>1, <2>2, Grow DEF IInv, ListOK
  <2>4. /\ x.base \in Bases /\ x.entry \in 1..Len(exec.needed)
        /\ x.elf = files[exec.needed[x.entry]]
    BY <1>0, <1>6, <2>2 DEF AllocNode, current
  <2>5. ASSUME NEW i \in DOMAIN loaded'
        PROVE  /\ loaded'[i].base \in Bases /\ loaded'[i].entry \in 1..Len(exec.needed)
               /\ loaded'[i].elf = files[exec.needed[loaded'[i].entry]]
    <3>1. CASE i = 1
      BY <2>3, <2>4, <3>1
    <3>2. CASE i # 1
      BY <2>3, <3>2
    <3> QED
      BY <3>1, <3>2
  <2>6. pc = "node" /\ pc' = "rela" /\ UNCHANGED <<next, base>>
    BY <1>6 DEF AllocNode
  <2> QED
    BY <1>0, <1>w, <2>5, <2>6
<1>7. CASE RelocateRelaFails
  <2>1. loaded' = Tail(loaded) /\ loaded # <<>> /\ pc = "rela" /\ pc' = "failed" /\ UNCHANGED <<next, base>>
    BY <1>7 DEF RelocateRelaFails, Fail, IInv, ListOK
  <2>2. \A i \in DOMAIN loaded' : i + 1 \in DOMAIN loaded /\ loaded'[i] = loaded[i + 1]
    BY <2>1, TakeOff DEF IInv, ListOK
  <2> QED
    BY <1>0, <1>w, <2>1, <2>2
<1>8. CASE Refill
  BY <1>0, <1>8, <1>w DEF Refill
<1>9. CASE RelocateExec
  BY <1>0, <1>9, <1>w DEF RelocateExec
<1>10. CASE CallInit
  BY <1>0, <1>10, <1>w DEF CallInit, CountOK
<1> QED
  BY <1>1, <1>2, <1>3, <1>4, <1>5, <1>6, <1>7, <1>8, <1>9, <1>10 DEF Next, Load, Ended

\* main is found if it is exported, and otherwise the entry point if the executable
\* is where it is linked.
LEMMA StartIs ==
  ASSUME IInv, WorldOK, PlaceOK, AuxvOK, pc = "start"
  PROVE  LET At(v) == exec.base + v - first_load_vaddr(exec.elf)
             main == IF Named("main", exec.elf) = {} THEN 0
                     ELSE calculate_address_from_vaddr(find_symbol("main", exec.elf).value, exec_base, exec.elf)
             entry == calculate_address_from_vaddr(auxv.entry, exec_base, exec.elf)
         IN /\ Or(main, entry) \in Int
            /\ Named("main", exec.elf) # {} =>
                    Or(main, entry) # 0 /\ Or(main, entry) = At(find_symbol("main", exec.elf).value)
            /\ Named("main", exec.elf) = {} =>
                    IF exec.base = first_load_vaddr(exec.elf)
                    THEN Or(main, entry) # 0 /\ Or(main, entry) = At(exec.elf.entry)
                    ELSE Or(main, entry) = 0
<1>1. PICK elf, b, first : elf = exec.elf /\ b = exec.base /\ first = first_load_vaddr(elf)
  OBVIOUS
<1>2. /\ WellFormed(elf) /\ b \in Nat \ {0} /\ first \in Nat /\ Size(elf) \in Nat
      /\ \A v \in Nat : InLoad(v, elf) =>
            /\ v >= first /\ b + (v - first) \in Extent(b, elf)
            /\ calculate_address_from_vaddr(v, b, elf) = b + (v - first)
  BY <1>1, Files, Placed
<1>3. /\ elf.entry \in Nat /\ InLoad(elf.entry, elf)
      /\ b = first \/ b >= first + Size(elf)
      /\ \A i \in DOMAIN elf.symtab : elf.symtab[i].name = "main" => elf.symtab[i].value # 0
  BY <1>1, FileAssumption, LinkerAssumption DEF WorldOK, first_load_vaddr
<1>4. exec_base = b /\ auxv.entry = b + elf.entry - first
  BY <1>1, <1>2 DEF AuxvOK, exec_base, EhdrSize
<1>5. ASSUME Named("main", elf) # {}
      PROVE  LET v == find_symbol("main", elf).value IN
             calculate_address_from_vaddr(v, b, elf) = b + v - first /\ b + v - first \in Nat \ {0}
  <2>1. PICK i \in Named("main", elf) : find_symbol("main", elf) = elf.symtab[i]
    BY <1>2, <1>5, FoundSymbol
  <2>2. PICK v : v = elf.symtab[i].value
    OBVIOUS
  <2>3. v \in Nat /\ v # 0 /\ InLoad(v, elf)
    BY <1>2, <1>3, <2>2 DEF Named, WellFormed
  <2>4. v >= first /\ calculate_address_from_vaddr(v, b, elf) = b + (v - first)
    BY <1>2, <2>3
  <2> QED
    BY <1>2, <2>1, <2>2, <2>3, <2>4
<1>6. PICK address : address = calculate_address_from_vaddr(b + elf.entry - first, b, elf)
  OBVIOUS
<1>7. elf.entry >= first /\ b + (elf.entry - first) \in Extent(b, elf)
  BY <1>2, <1>3
<1>8. ASSUME b = first PROVE address = b + elf.entry - first /\ address # 0 /\ address \in Int
  <2>1. b + elf.entry - first = elf.entry
    BY <1>2, <1>3, <1>8
  <2>2. calculate_address_from_vaddr(elf.entry, b, elf) = b + (elf.entry - first)
    BY <1>2, <1>3
  <2> QED
    BY <1>2, <1>3, <1>6, <1>7, <1>8, <2>1, <2>2
<1>9. ASSUME b # first PROVE address = 0
  <2>1. PICK v : v = b + elf.entry - first
    OBVIOUS
  <2>2. v \in Nat /\ v >= first + Size(elf)
    BY <1>2, <1>3, <1>7, <1>9, <2>1
  <2>3. ~InLoad(v, elf)
    <3> SUFFICES ASSUME InLoad(v, elf) PROVE FALSE
      OBVIOUS
    <3>1. b + (v - first) \in Extent(b, elf)
      BY <1>2, <2>2
    <3> QED
      BY <1>2, <2>2, <3>1 DEF Extent
  <2> QED
    BY <1>6, <2>1, <2>3 DEF calculate_address_from_vaddr
<1>10. CASE Named("main", elf) # {}
  BY <1>1, <1>4, <1>5, <1>10 DEF Or
<1>11. CASE Named("main", elf) = {}
  <2>1. calculate_address_from_vaddr(auxv.entry, exec_base, elf) = address
    BY <1>4, <1>6
  <2> QED
    BY <1>1, <1>8, <1>9, <1>11, <2>1 DEF Or
<1> QED
  BY <1>1, <1>10, <1>11

\* A run fails with a library missing or without a place to start at.
LEMMA CountStep == IInv /\ WorldOK /\ AuxvOK /\ PlaceOK /\ CountOK /\ [Next]_vars => CountOK'
<1> SUFFICES ASSUME IInv, WorldOK, AuxvOK, PlaceOK, CountOK, [Next]_vars PROVE CountOK'
  OBVIOUS
<1>0. Len(exec.needed) \in Nat /\ Len(loaded) \in Nat /\ next \in Nat
  BY Files, LengthIs DEF IInv, ListOK
<1>w. UNCHANGED <<exec, linker>>
  BY WorldStep DEF world
<1> USE DEF CountOK, Step, Loading, Relocating, LoadSteps
<1>1. CASE Parse \/ Bootstrap \/ UNCHANGED vars
  BY <1>0, <1>1, <1>w DEF Parse, Bootstrap, vars, CanBootstrap
<1>2. CASE BootstrapFails
  BY <1>0, <1>2, <1>w DEF BootstrapFails, CanBootstrap
<1>3. CASE Needed
  BY <1>0, <1>3, <1>w DEF Needed, PlaceOK
<1>4. CASE \/ Open \/ ReadHeader \/ AllocPhdr \/ ReadPhdr \/ Reserve \/ MapSegments \/ FindDynamic
           \/ RelocateRela \/ RelocatePlt
  BY <1>0, <1>4, <1>w DEF Open, ReadHeader, AllocPhdr, ReadPhdr, Reserve, MapSegments, FindDynamic, RelocateRela,
        RelocatePlt
<1>5. CASE \/ OpenFails \/ ReadHeaderFails \/ AllocPhdrFails \/ ReadPhdrFails
           \/ ReserveFails \/ MapNowhereFails \/ MapSegmentsFails \/ FindDynamicFails \/ AllocNodeFails
  BY <1>0, <1>5, <1>w DEF OpenFails, ReadHeaderFails, AllocPhdrFails, ReadPhdrFails, ReserveFails, MapNowhereFails,
        MapSegmentsFails, FindDynamicFails, AllocNodeFails, Fail, PlaceOK
<1>6. CASE AllocNode
  <2>1. Len(loaded') = Len(loaded) + 1
    BY <1>6, LengthIs
  <2> QED
    BY <1>0, <1>6, <1>w, <2>1 DEF AllocNode, PlaceOK
<1>7. CASE RelocateRelaFails
  <2>1. Len(loaded') = Len(loaded) - 1
    BY <1>7, LengthIs
  <2> QED
    BY <1>0, <1>7, <1>w, <2>1 DEF RelocateRelaFails, Fail, PlaceOK
<1>8. CASE Refill
  BY <1>0, <1>8, <1>w DEF Refill
<1>9. CASE RelocateExec
  BY <1>0, <1>9, <1>w DEF RelocateExec
<1>10. CASE CallInit
  BY <1>0, <1>10, <1>w DEF CallInit
<1>11. CASE Start
  <2>1. pc = "start" /\ UNCHANGED <<next, loaded, auxv>>
    BY <1>11 DEF Start
  <2>2. pc' = "failed" => Named("main", exec.elf) = {} /\ exec.base # first_load_vaddr(exec.elf)
    BY <1>11, <2>1, StartIs DEF Start
  <2>3. pc' \in {"running", "failed"}
    BY <1>11 DEF Start
  <2> QED
    BY <1>0, <1>w, <2>1, <2>2, <2>3
<1> QED
  BY <1>1, <1>2, <1>3, <1>4, <1>5, <1>6, <1>7, <1>8, <1>9, <1>10, <1>11 DEF Next, Load, Ended

\* Where a step may write
Home == IF pc = "bootstrap" THEN Extent(linker.base, linker.elf)
        ELSE IF pc \in LoadSteps THEN Extent(base, current)
        ELSE Extent(exec.base, exec.elf)

\* Only some steps write to memory, each to its home.
LEMMA MemoryStep ==
  ASSUME IInv, WorldOK, AuxvOK, PlaceOK, MemOK, [Next]_vars
  PROVE  /\ mem' \in Mem /\ Same(mem, mem', Home)
         /\ mem' = mem \/ pc \in {"bootstrap", "exec"} \cup HoldsImage \cup Relocating
<1>1. /\ LibsOK(loaded)
      /\ pc \in LoadSteps => WellFormedLibrary(current)
      /\ WellFormedLibrary(linker.elf) /\ linker.base \in Nat
      /\ WellFormed(exec.elf) /\ exec.base \in Nat \ {0}
  BY Files
<1>2. mem \in Mem
  BY DEF MemOK
<1>3. pc \in HoldsImage \cup Relocating => base \in Nat \ {0}
  BY LinkerAssumption DEF PlaceOK
<1>4. CASE Bootstrap
  <2>1. PICK b : b = linker.base
    OBVIOUS
  <2>2. pc = "bootstrap" /\ auxv.base = b /\ b \in Nat \ {0}
    BY <1>1, <1>4, <2>1 DEF Bootstrap, Step, CanBootstrap, AuxvOK
  <2>3. NearTable(linker.elf)
    BY FileAssumption DEF WorldOK, NearTable
  <2>4. PICK after : after = AfterBootstrap(mem, b, linker.elf, loaded)
    OBVIOUS
  <2>5. after \in Mem /\ Same(mem, after, Extent(b, linker.elf))
    BY <1>1, <1>2, <2>2, <2>3, <2>4, BootstrapIs
  <2> QED
    BY <1>4, <2>1, <2>2, <2>4, <2>5 DEF Bootstrap, AfterBootstrap, Home
<1>5. CASE MapSegments
  <2>1. pc = "map" /\ mem' = Over(Image(base, current), mem)
    BY <1>5 DEF MapSegments, Step
  <2>2. WellFormed(current) /\ base \in Nat
    BY <1>1, <1>3, <2>1 DEF WellFormedLibrary, LoadSteps, HoldsImage
  <2>3. Image(base, current) \in Mem /\ DOMAIN Image(base, current) \subseteq Extent(base, current)
    BY <2>2, ImageIs
  <2>4. mem' \in Mem /\ Same(mem, mem', DOMAIN Image(base, current))
    BY <1>2, <2>1, <2>3, OverIs
  <2> QED
    BY <2>1, <2>3, <2>4 DEF Home, LoadSteps, Same, HoldsImage
<1>6. CASE RelocateRela \/ RelocatePlt
  <2>1. /\ pc \in {"rela", "plt"}
        /\ mem' = ProcessRela(mem, base, current, loaded) \/ mem' = ProcessPlt(mem, base, current, loaded)
    BY <1>6 DEF RelocateRela, RelocatePlt, Step
  <2>2. WellFormedLibrary(current) /\ base \in Nat
    BY <1>1, <1>3, <2>1 DEF LoadSteps, Relocating
  <2>3. mem' \in Mem /\ Same(mem, mem', Extent(base, current))
    BY <1>1, <1>2, <2>1, <2>2, TablesStayHome
  <2> QED
    BY <2>1, <2>3 DEF Home, LoadSteps, Relocating
<1>7. CASE Refill
  <2>1. pc = "refill" /\ (mem' = FillAll(mem, base, current) \/ mem' = mem)
    BY <1>7 DEF Refill, Step
  <2>2. WellFormed(current) /\ base \in Nat \ {0}
    BY <1>1, <1>3, <2>1 DEF WellFormedLibrary, LoadSteps, Relocating
  <2>3. mem' \in Mem /\ Same(mem, mem', Extent(base, current))
    BY <1>2, <2>1, <2>2, FillAllIs DEF Same
  <2> QED
    BY <2>1, <2>3 DEF Home, LoadSteps, Relocating
<1>8. CASE RelocateExec
  <2>1. pc = "exec" /\ mem' = FillExec(mem, exec_base, loaded)
    BY <1>8 DEF RelocateExec, Step
  <2>2. exec_base = exec.base
    BY <1>1, <2>1 DEF exec_base, AuxvOK, EhdrSize
  <2>3. \A i \in DOMAIN exec.elf.plt : NamedSlot(exec.elf.plt[i], exec.elf)
    BY FileAssumption DEF WorldOK
  <2>4. mem' \in Mem /\ Same(mem, mem', Extent(exec.base, exec.elf))
    BY <1>1, <1>2, <2>1, <2>2, <2>3, FillExecAllIs
  <2> QED
    BY <2>1, <2>4 DEF Home, LoadSteps
<1>9. CASE ~(Bootstrap \/ MapSegments \/ RelocateRela \/ RelocatePlt \/ Refill \/ RelocateExec)
  <2>1. mem' = mem
    BY <1>9 DEF Next, Load, Ended, vars, Parse, BootstrapFails, Needed, Open, OpenFails, ReadHeader,
         ReadHeaderFails, AllocPhdr, AllocPhdrFails, ReadPhdr, ReadPhdrFails, Reserve, ReserveFails,
         MapNowhereFails, MapSegmentsFails, FindDynamic, FindDynamicFails, AllocNode, AllocNodeFails,
         RelocateRelaFails, CallInit, Start, Fail
  <2> QED
    BY <1>2, <2>1 DEF Same
<1> QED
  BY <1>4, <1>5, <1>6, <1>7, <1>8, <1>9

\* The initialisers of a library are at addresses.
LEMMA InitsAreAddresses ==
  ASSUME IInv, WorldOK, PlaceOK, MemOK, NEW i \in DOMAIN loaded
  PROVE  InitCall(loaded[i]) \in Seq(Int) /\ InitArrayCalls(loaded[i]) \in Seq(Int)
<1>1. PICK lib : lib = loaded[i]
  OBVIOUS
<1>2. PICK elf, b, first : elf = lib.elf /\ b = lib.base /\ first = first_load_vaddr(elf)
  OBVIOUS
<1>3. /\ b \in Nat /\ first \in Nat
      /\ elf.init \in Nat /\ elf.init_array \in Nat /\ elf.init_array_count \in Nat
  <2>1. WellFormed(elf) /\ b \in Nat
    BY <1>1, <1>2, Files DEF LibsOK, WellFormedLibrary
  <2>2. first \in Nat
    BY <1>2, <2>1, Placed
  <2>3. files \in FileSystems /\ exec \in Executables
    BY DEF WorldOK
  <2>4. PICK n, D : n = exec.needed /\ D = DOMAIN files
    OBVIOUS
  <2>5. n \in Seq(D)
    BY <2>3, <2>4, FileAssumption
  <2>6. \A k \in 1..Len(n) : n[k] \in D
    BY <2>5
  <2>7. \E name \in DOMAIN files : elf = files[name]
    BY <1>1, <1>2, <2>4, <2>6 DEF PlaceOK
  <2> QED
    BY <2>1, <2>2, <2>3, <2>7, FileAssumption
<1>4. PICK n : n = IF elf.init_array = 0 THEN 0 ELSE elf.init_array_count
  OBVIOUS
<1> DEFINE At(v) == Or(calculate_address_from_vaddr(v, b, elf), b + v)
           entry(k) == Read(mem, At(elf.init_array + k - 1))
           add(k, s) == IF entry(k) = 0 THEN s ELSE Append(s, At(entry(k)))
           turn(g, k) == IF k = 0 THEN <<>> ELSE add(k, g[k - 1])
           made == CHOOSE g : g = [k \in 0..n |-> turn(g, k)]
<1>5. \A v \in Int : At(v) \in Int
  BY <1>2, <1>3 DEF Or, calculate_address_from_vaddr
<1>6. InitCall(lib) \in Seq(Int)
  <2>1. InitCall(lib) = IF elf.init = 0 THEN <<>> ELSE <<At(elf.init)>>
    BY <1>2 DEF InitCall
  <2>2. At(elf.init) \in Int
    BY <1>3, <1>5
  <2> HIDE DEF At
  <2> QED
    BY <2>1, <2>2
<1>7. InitArrayCalls(lib) = made[n]
  BY <1>2, <1>4 DEF InitArrayCalls
<1>8. \A k \in 1..n : entry(k) \in Int /\ At(entry(k)) \in Int
  <2>1. \A k \in 1..n : entry(k) \in Int
    BY ReadInt DEF MemOK
  <2> HIDE DEF At, entry
  <2> QED
    BY <1>5, <2>1
<1> HIDE DEF At, entry
<1> DEFINE body == [k \in 1..n |-> [s \in Seq(Int) |-> add(k, s)]]
<1>9. body \in [1..n -> [Seq(Int) -> Seq(Int)]]
  <2>1. \A k \in 1..n : \A s \in Seq(Int) : add(k, s) \in Seq(Int)
    BY <1>8
  <2> QED
    BY <2>1
<1>10. n \in Nat /\ <<>> \in Seq(Int)
  BY <1>3, <1>4
<1>11. \E g \in [0..n -> Seq(Int)] : Goes(g, <<>>, n, body)
  <2> HIDE DEF body
  <2> QED
    BY <1>9, <1>10, LoopExists
<1> HIDE DEF add
<1>12. PICK f \in [0..n -> Seq(Int)] : f[0] = <<>> /\ \A k \in 1..n : f[k] = body[k][f[k - 1]]
  BY <1>11 DEF Goes
<1>13. \A k \in 1..n : f[k] = add(k, f[k - 1])
  <2>1. \A k \in 1..n : f[k - 1] \in Seq(Int)
    BY <1>10, <1>12
  <2> QED
    BY <1>12, <2>1
<1> HIDE DEF body
<1>14. f = [k \in 0..n |-> turn(f, k)]
  BY <1>10, <1>12, <1>13
<1>15. made = [k \in 0..n |-> turn(made, k)]
  <2> HIDE DEF turn
  <2> QED
    BY <1>14
<1>16. /\ made[0] = <<>>
       /\ \A k \in 1..n : made[k] = add(k, made[k - 1])
  <2> HIDE DEF made
  <2> QED
    BY <1>10, <1>15
<1> HIDE DEF made
<1>17. \A k \in 0..n : made[k] = f[k]
  <2> DEFINE S == {k \in 0..n : made[k] = f[k]}
  <2>1. 0 \in S
    BY <1>10, <1>12, <1>16
  <2>2. ASSUME NEW k \in 1..n, k - 1 \in S PROVE k \in S
    BY <1>13, <1>16, <2>2
  <2>3. \A k \in 0..n : k \in S
    <3> HIDE DEF S
    <3> QED
      BY <1>10, <2>1, <2>2, Induction
  <2> QED
    BY <2>3
<1>18. made[n] \in Seq(Int)
  BY <1>10, <1>12, <1>17
<1> QED
  BY <1>1, <1>6, <1>7, <1>18

\* Memory stays memory, and what is called is addresses.
LEMMA MemStep == IInv /\ WorldOK /\ AuxvOK /\ PlaceOK /\ MemOK /\ [Next]_vars => MemOK'
<1> SUFFICES ASSUME IInv, WorldOK, AuxvOK, PlaceOK, MemOK, [Next]_vars PROVE calls' \in Seq(Int)
  BY MemoryStep DEF MemOK
<1>1. CASE CallInit
  <2>1. CASE next <= Len(loaded)
    <3>1. next \in DOMAIN loaded
      BY <2>1, LengthIs DEF IInv, ListOK, PlaceOK
    <3>2. PICK s, t : s = InitCall(loaded[next]) /\ t = InitArrayCalls(loaded[next])
      OBVIOUS
    <3>3. s \in Seq(Int) /\ t \in Seq(Int)
      BY <3>1, <3>2, InitsAreAddresses
    <3>4. calls' = calls \o s \o t \/ calls' = calls
      BY <1>1, <3>2 DEF CallInit
    <3>5. calls \in Seq(Int)
      BY DEF MemOK
    <3>6. PICK c : c = calls
      OBVIOUS
    <3>7. c \o s \o t \in Seq(Int)
      BY <3>3, <3>5, <3>6
    <3> QED
      BY <3>4, <3>5, <3>6, <3>7
  <2>2. CASE ~(next <= Len(loaded))
    BY <1>1, <2>2 DEF CallInit, MemOK
  <2> QED
    BY <2>1, <2>2
<1>2. CASE Start
  <2>1. PICK a \in Int : calls' = calls \/ calls' = Append(calls, a)
    BY <1>2, StartIs DEF Start, Step
  <2> QED
    BY <2>1 DEF MemOK
<1>3. CASE ~CallInit /\ ~Start
  <2>1. calls' = calls
    BY <1>3 DEF Next, Load, Ended, vars, Parse, Bootstrap, BootstrapFails, Needed, Open, OpenFails, ReadHeader,
         ReadHeaderFails, AllocPhdr, AllocPhdrFails, ReadPhdr, ReadPhdrFails, Reserve, ReserveFails,
         MapNowhereFails, MapSegments, MapSegmentsFails, FindDynamic, FindDynamicFails, AllocNode,
         AllocNodeFails, RelocateRela, RelocateRelaFails, RelocatePlt, Refill, RelocateExec, Fail
  <2> QED
    BY <2>1 DEF MemOK
<1> QED
  BY <1>1, <1>2, <1>3

\* Words that are not written keep their slots bound.
LEMMA Keeps ==
  ASSUME NEW elf, WellFormed(elf), NEW b \in Nat, NEW m, NEW n, NEW E, Same(m, n, E),
         \A a \in Extent(b, elf) : a \notin E, AllBound(m, b, elf)
  PROVE  AllBound(n, b, elf)
<1> SUFFICES ASSUME HasRelaEnt(elf), NEW i \in DOMAIN elf.plt PROVE Bound(n, elf.plt[i], b, elf)
  BY DEF AllBound
<1>1. Entry(elf.plt[i], elf)
  BY DEF WellFormed, Entry
<1>2. Slot(elf.plt[i], b, elf) \in Nat /\ Slot(elf.plt[i], b, elf) \notin E
  BY <1>1, SlotIs
<1>3. Read(n, Slot(elf.plt[i], b, elf)) = Read(m, Slot(elf.plt[i], b, elf))
  BY <1>2 DEF Same
<1> QED
  BY <1>3 DEF AllBound, Bound

\* Images that do not overlap share no word.
LEMMA Apart ==
  ASSUME NEW b \in Nat, NEW f, NEW c \in Nat, NEW g, NEW m \in Nat, NEW n \in Nat,
         Size(f) \in Nat, Size(g) \in Nat, Size(f) <= m, Size(g) <= n,
         b + m <= c \/ c + n <= b
  PROVE  \A a \in Extent(b, f) : a \notin Extent(c, g)
<1> PICK k, l : k = Size(f) /\ l = Size(g)
  OBVIOUS
<1> SUFFICES ASSUME NEW a \in b..(b + k - 1), a \in c..(c + l - 1) PROVE FALSE
  BY DEF Extent
<1> QED
  OBVIOUS

\* What a step may write to is apart from the linker, unless it relocates itself,
\* and from the libraries, unless it is one of them that is being loaded.
LEMMA HomeIsApart ==
  ASSUME IInv, WorldOK, PlaceOK,
         pc \in {"exec"} \cup HoldsImage \cup Relocating
  PROVE  /\ \A a \in Extent(linker.base, linker.elf) : a \notin Home
         /\ \A i \in DOMAIN loaded : (pc \in Relocating => i # 1) =>
                \A a \in Extent(loaded[i].base, loaded[i].elf) : a \notin Home
<1>1. /\ LibsOK(loaded)
      /\ \A i \in DOMAIN loaded : WellFormedLibrary(loaded[i].elf) /\ Size(loaded[i].elf) <= Span
      /\ pc \in LoadSteps => WellFormedLibrary(current) /\ Size(current) <= Span
      /\ WellFormedLibrary(linker.elf) /\ linker.base \in Nat
      /\ WellFormed(exec.elf) /\ exec.base \in Nat \ {0}
  BY Files
<1>2. exec \in Executables /\ linker \in Linkers
  BY DEF WorldOK
<1>3. \A i \in DOMAIN loaded : loaded[i].base \in Bases
  BY DEF PlaceOK
<1>4. /\ Span \in Nat
      /\ \A b \in Bases : b \in Nat
      /\ \A b, c \in Bases : b # c => b + Span <= c \/ c + Span <= b
      /\ \A b \in Bases : b + Span <= exec.base \/ exec.base + Size(exec.elf) <= b
      /\ \A b \in Bases : b + Span <= linker.base \/ linker.base + Size(linker.elf) <= b
      /\ exec.base + Size(exec.elf) <= linker.base \/ linker.base + Size(linker.elf) <= exec.base
  BY <1>2, LinkerAssumption
<1>5. /\ Size(linker.elf) \in Nat /\ Size(exec.elf) \in Nat
      /\ \A i \in DOMAIN loaded : Size(loaded[i].elf) \in Nat
      /\ pc \in LoadSteps => Size(current) \in Nat
  <2>1. \A elf : WellFormed(elf) => Size(elf) \in Nat
    BY Placed
  <2> QED
    BY <1>1, <2>1 DEF WellFormedLibrary
<1>6. CASE pc = "exec"
  <2>1. Home = Extent(exec.base, exec.elf)
    BY <1>6 DEF Home, LoadSteps
  <2>2. \A a \in Extent(linker.base, linker.elf) : a \notin Home
    <3>1. exec.base \in Nat /\ linker.base \in Nat
      BY <1>1
    <3> QED
      BY <1>4, <1>5, <2>1, <3>1, Apart
  <2>3. ASSUME NEW i \in DOMAIN loaded PROVE \A a \in Extent(loaded[i].base, loaded[i].elf) : a \notin Home
    <3>1. PICK b, f : b = loaded[i].base /\ f = loaded[i].elf
      OBVIOUS
    <3>2. b \in Nat /\ Size(f) \in Nat /\ Size(f) <= Span
      BY <1>1, <1>3, <1>4, <1>5, <3>1
    <3>3. b + Span <= exec.base \/ exec.base + Size(exec.elf) <= b
      BY <1>3, <1>4, <3>1
    <3>4. PICK c, g : c = exec.base /\ g = exec.elf
      OBVIOUS
    <3>5. c \in Nat /\ Span \in Nat /\ Size(g) \in Nat /\ (b + Span <= c \/ c + Size(g) <= b)
      BY <1>1, <1>4, <1>5, <3>3, <3>4
    <3>6. \A a \in Extent(b, f) : a \notin Extent(c, g)
      BY <3>2, <3>5, Apart
    <3> QED
      BY <2>1, <3>1, <3>4, <3>6
  <2> QED
    BY <2>2, <2>3
<1>7. CASE pc # "exec"
  <2>1. pc \in HoldsImage \cup Relocating /\ pc \in LoadSteps
    BY <1>7 DEF HoldsImage, Relocating, LoadSteps
  <2>2. PICK g : g = current
    OBVIOUS
  <2>3. /\ Home = Extent(base, g) /\ base \in Bases /\ base \in Nat
        /\ Size(g) \in Nat /\ Size(g) <= Span
    BY <1>1, <1>4, <1>5, <2>1, <2>2 DEF Home, LoadSteps, PlaceOK
  <2>4. \A a \in Extent(linker.base, linker.elf) : a \notin Home
    <3>1. base + Span <= linker.base \/ linker.base + Size(linker.elf) <= base
      BY <1>4, <2>3
    <3>2. linker.base \in Nat /\ Span \in Nat
      BY <1>1, <1>4
    <3>3. \A a \in Extent(linker.base, linker.elf) : a \notin Extent(base, g)
      BY <1>5, <2>3, <3>1, <3>2, Apart
    <3> QED
      BY <2>3, <3>3
  <2>5. ASSUME NEW i \in DOMAIN loaded, pc \in Relocating => i # 1
        PROVE  \A a \in Extent(loaded[i].base, loaded[i].elf) : a \notin Home
    <3>1. PICK b, f : b = loaded[i].base /\ f = loaded[i].elf
      OBVIOUS
    <3>2. b \in Nat /\ Size(f) \in Nat /\ Size(f) <= Span /\ Span \in Nat
      BY <1>1, <1>3, <1>4, <1>5, <3>1
    <3>3. b # base
      <4>1. CASE pc \in HoldsImage
        BY <3>1, <4>1 DEF IInv, ListOK
      <4>2. CASE pc \in Relocating
        <5>1. 1 \in DOMAIN loaded /\ loaded[1].base = base
          BY <4>2 DEF IInv, ListOK, IsSequence
        <5> QED
          BY <2>5, <3>1, <4>2, <5>1 DEF IInv, ListOK
      <4> QED
        BY <2>1, <4>1, <4>2
    <3>4. b + Span <= base \/ base + Span <= b
      BY <1>3, <1>4, <2>3, <3>1, <3>3
    <3>5. \A a \in Extent(b, f) : a \notin Extent(base, g)
      BY <2>3, <3>2, <3>4, Apart
    <3> QED
      BY <2>3, <3>1, <3>5
  <2> QED
    BY <2>4, <2>5
<1> QED
  BY <1>6, <1>7

\* A step binds the slots whose turn is over, and leaves those bound that were.
LEMMA BoundStep == IInv /\ WorldOK /\ AuxvOK /\ PlaceOK /\ MemOK /\ BoundOK /\ [Next]_vars => BoundOK'
<1> SUFFICES ASSUME IInv, WorldOK, AuxvOK, PlaceOK, MemOK, BoundOK, [Next]_vars PROVE BoundOK'
  OBVIOUS
<1>1. /\ WellFormedLibrary(linker.elf) /\ WellFormed(linker.elf) /\ linker.base \in Nat
      /\ LibsOK(loaded)
      /\ \A i \in DOMAIN loaded : WellFormed(loaded[i].elf) /\ loaded[i].base \in Nat
  BY Files DEF LibsOK, WellFormedLibrary
<1>2. UNCHANGED <<exec, linker, files, stack>>
  BY WorldStep DEF world
<1>3. /\ mem' \in Mem /\ Same(mem, mem', Home)
      /\ mem' = mem \/ pc \in {"bootstrap", "exec"} \cup HoldsImage \cup Relocating
  BY MemoryStep
<1>4. ASSUME pc' \notin {"parse", "bootstrap", "failed"} PROVE AllBound(mem', linker.base, linker.elf)
  <2>1. CASE Bootstrap
    <3>1. linker.base \in Nat \ {0} /\ auxv.base = linker.base
      BY <1>1, <2>1 DEF Bootstrap, Step, CanBootstrap, AuxvOK
    <3>2. NearTable(linker.elf)
      BY FileAssumption DEF WorldOK, NearTable
    <3>3. PICK b : b = linker.base
      OBVIOUS
    <3>4. mem' = AfterBootstrap(mem, b, linker.elf, loaded)
      BY <2>1, <3>1, <3>3 DEF Bootstrap, AfterBootstrap
    <3>5. mem \in Mem /\ b \in Nat \ {0}
      BY <3>1, <3>3 DEF MemOK
    <3>6. AllBound(mem', b, linker.elf)
      BY <1>1, <3>2, <3>4, <3>5, BootstrapIs
    <3> QED
      BY <3>3, <3>6
  <2>2. CASE ~Bootstrap
    <3>1. pc \notin {"parse", "bootstrap", "failed"}
      BY <1>4, <2>2 DEF Next, Load, Ended, vars, Step, Parse, BootstrapFails, Needed, Open, OpenFails, ReadHeader,
         ReadHeaderFails, AllocPhdr, AllocPhdrFails, ReadPhdr, ReadPhdrFails, Reserve, ReserveFails,
         MapNowhereFails, MapSegments, MapSegmentsFails, FindDynamic, FindDynamicFails, AllocNode,
         AllocNodeFails, RelocateRela, RelocateRelaFails, RelocatePlt, Refill, RelocateExec, CallInit, Start, Fail
    <3>2. AllBound(mem, linker.base, linker.elf)
      BY <3>1 DEF BoundOK
    <3>3. CASE mem' = mem
      BY <3>2, <3>3
    <3>4. CASE pc \in {"exec"} \cup HoldsImage \cup Relocating
      <4>1. \A a \in Extent(linker.base, linker.elf) : a \notin Home
        BY <3>4, HomeIsApart
      <4> QED
        BY <1>1, <1>3, <3>2, <4>1, Keeps
    <3> QED
      BY <1>3, <3>1, <3>3, <3>4
  <2> QED
    BY <2>1, <2>2
<1>5. ASSUME NEW i \in DOMAIN loaded, AllBound(mem, loaded[i].base, loaded[i].elf),
             pc \in Relocating => i # 1, ~Bootstrap
      PROVE  AllBound(mem', loaded[i].base, loaded[i].elf)
  <2>1. CASE mem' = mem
    BY <1>5, <2>1
  <2>2. CASE pc \in {"exec"} \cup HoldsImage \cup Relocating
    <3>1. \A a \in Extent(loaded[i].base, loaded[i].elf) : a \notin Home
      BY <1>5, <2>2, HomeIsApart
    <3>2. PICK b, f : b = loaded[i].base /\ f = loaded[i].elf
      OBVIOUS
    <3>3. WellFormed(f) /\ b \in Nat
      BY <1>1, <3>2
    <3>4. AllBound(mem', b, f)
      BY <1>3, <1>5, <3>1, <3>2, <3>3, Keeps
    <3> QED
      BY <3>2, <3>4
  <2>3. CASE pc = "bootstrap"
    <3>1. mem' = mem
      BY <1>5, <2>3 DEF Next, Load, Ended, vars, Step, Parse, BootstrapFails, Needed, Open, OpenFails, ReadHeader,
         ReadHeaderFails, AllocPhdr, AllocPhdrFails, ReadPhdr, ReadPhdrFails, Reserve, ReserveFails,
         MapNowhereFails, MapSegments, MapSegmentsFails, FindDynamic, FindDynamicFails, AllocNode,
         AllocNodeFails, RelocateRela, RelocateRelaFails, RelocatePlt, Refill, RelocateExec, CallInit, Start, Fail
    <3> QED
      BY <1>5, <3>1
  <2> QED
    BY <1>3, <2>1, <2>2, <2>3
<1>6. ASSUME pc' # "failed", NEW i \in DOMAIN loaded', pc' \in Relocating => i # 1
      PROVE  AllBound(mem', loaded'[i].base, loaded'[i].elf)
  <2>1. CASE AllocNode
    <3>1. PICK x : loaded' = <<x>> \o loaded
      BY <2>1 DEF AllocNode
    <3>2. i # 1
      BY <1>6, <2>1 DEF AllocNode, Step, Relocating
    <3>3. i - 1 \in DOMAIN loaded /\ loaded'[i] = loaded[i - 1]
      BY <3>1, <3>2, Grow DEF IInv, ListOK
    <3>4. mem' = mem /\ pc = "node"
      BY <2>1 DEF AllocNode, Step
    <3> QED
      BY <3>3, <3>4 DEF BoundOK, Relocating
  <2>2. CASE Refill /\ i = 1
    <3>1. /\ pc = "refill" /\ loaded' = loaded
          /\ mem' = IF HasRelaEnt(current) THEN FillAll(mem, base, current) ELSE mem
      BY <2>2 DEF Refill, Step
    <3>2. loaded[1].entry = next /\ loaded[1].base = base /\ base \in Bases /\ 1 \in DOMAIN loaded
      BY <1>6, <2>2, <3>1 DEF IInv, ListOK, PlaceOK, Relocating
    <3>3. loaded[1].elf = current
      BY <3>2 DEF PlaceOK, current
    <3>4. WellFormed(current) /\ base \in Nat \ {0} /\ mem \in Mem
      BY <1>1, <3>2, <3>3, LinkerAssumption DEF MemOK
    <3>5. AllBound(mem', base, current)
      <4>1. CASE HasRelaEnt(current)
        BY <3>1, <3>4, <4>1, FillAllIs
      <4>2. CASE ~HasRelaEnt(current)
        BY <4>2 DEF AllBound
      <4> QED
        BY <4>1, <4>2
    <3> QED
      BY <2>2, <3>1, <3>2, <3>3, <3>5
  <2>3. CASE Bootstrap
    <3>1. pc = "bootstrap" /\ next \in Nat /\ loaded' = loaded
      BY <2>3 DEF Bootstrap, Step, IInv, ListOK
    <3>2. AllBound(mem, loaded[i].base, loaded[i].elf)
      BY <1>6, <3>1 DEF BoundOK, Relocating
    <3>3. Home = Extent(linker.base, linker.elf)
      BY <3>1 DEF Home
    <3>4. PICK b, f : b = loaded[i].base /\ f = loaded[i].elf
      OBVIOUS
    <3>5. /\ WellFormed(f) /\ b \in Nat /\ b \in Bases /\ i \in DOMAIN loaded
          /\ Size(f) \in Nat /\ Size(f) <= Span /\ Span \in Nat
      <4>1. i \in DOMAIN loaded
        BY <1>6, <3>1
      <4>2. WellFormed(f) /\ b \in Nat /\ b \in Bases /\ Size(f) <= Span
        BY <1>1, <3>4, <4>1, Files DEF PlaceOK
      <4> QED
        BY <4>1, <4>2, Placed, LinkerAssumption
    <3>6. PICK c, g : c = linker.base /\ g = linker.elf
      OBVIOUS
    <3>7. c \in Nat /\ Size(g) \in Nat /\ Size(g) <= Size(g) /\ (b + Span <= c \/ c + Size(g) <= b)
      BY <1>1, <3>5, <3>6, Placed, LinkerAssumption DEF WorldOK
    <3>8. \A a \in Extent(b, f) : a \notin Extent(c, g)
      BY <3>5, <3>7, Apart
    <3>9. AllBound(mem', b, f)
      BY <1>3, <3>2, <3>3, <3>4, <3>5, <3>6, <3>8, Keeps
    <3> QED
      BY <3>1, <3>4, <3>9
  <2>4. CASE ~AllocNode /\ ~(Refill /\ i = 1) /\ ~Bootstrap
    <3>1. loaded' = loaded
      BY <1>6, <2>4 DEF Next, Load, Ended, vars, Step, Parse, BootstrapFails, Needed, Open, OpenFails, ReadHeader,
         ReadHeaderFails, AllocPhdr, AllocPhdrFails, ReadPhdr, ReadPhdrFails, Reserve, ReserveFails,
         MapNowhereFails, MapSegments, MapSegmentsFails, FindDynamic, FindDynamicFails, AllocNodeFails, RelocateRela,
         RelocateRelaFails, RelocatePlt, Refill, RelocateExec, CallInit, Start, Fail
    <3>4. pc # "failed"
      BY <1>6, <2>4 DEF Next, Load, Ended, vars, Step, Parse, BootstrapFails, Needed, Open, OpenFails, ReadHeader,
         ReadHeaderFails, AllocPhdr, AllocPhdrFails, ReadPhdr, ReadPhdrFails, Reserve, ReserveFails,
         MapNowhereFails, MapSegments, MapSegmentsFails, FindDynamic, FindDynamicFails, AllocNodeFails, RelocateRela,
         RelocateRelaFails, RelocatePlt, Refill, RelocateExec, CallInit, Start, Fail
    <3>2. pc \in Relocating => i # 1
      BY <1>6, <2>4 DEF Next, Load, Ended, vars, Step, Parse, BootstrapFails, Needed, Open, OpenFails, ReadHeader,
         ReadHeaderFails, AllocPhdr, AllocPhdrFails, ReadPhdr, ReadPhdrFails, Reserve, ReserveFails,
         MapNowhereFails, MapSegments, MapSegmentsFails, FindDynamic, FindDynamicFails, AllocNodeFails, RelocateRela,
         RelocateRelaFails, RelocatePlt, RelocateExec, CallInit, Start, Fail, Relocating
    <3>3. AllBound(mem, loaded[i].base, loaded[i].elf)
      BY <1>6, <3>1, <3>2, <3>4 DEF BoundOK
    <3> QED
      BY <1>5, <1>6, <2>4, <3>1, <3>2, <3>3
  <2> QED
    BY <2>1, <2>2, <2>3, <2>4
<1> QED
  BY <1>2, <1>4, <1>6 DEF BoundOK

\* A symbol that some library defines and none imports is resolved to a definition.
LEMMA ResolvesToDefinition ==
  ASSUME LibsOK(loaded), NEW name, Definitions(name) # {}, ~Imported(name)
  PROVE  resolve_symbol_global(name, loaded) \in Definitions(name) /\ resolve_symbol_global(name, loaded) # 0
<1>1. PICK lib \in Libraries : \E j \in Named(name, lib.elf) : lib.elf.symtab[j].value # 0
  BY DEF Definitions
<1>2. \E i \in DOMAIN loaded : Named(name, loaded[i].elf) # {}
  BY <1>1 DEF Libraries
<1>a. PICK i \in DOMAIN loaded : \E j \in Named(name, loaded[i].elf) :
        resolve_symbol_global(name, loaded) = SymbolAddress(loaded[i].elf.symtab[j], loaded[i].base, loaded[i].elf)
  BY <1>2, Resolves
<1>3. PICK j \in Named(name, loaded[i].elf) :
        resolve_symbol_global(name, loaded) = SymbolAddress(loaded[i].elf.symtab[j], loaded[i].base, loaded[i].elf)
  BY <1>a
<1>4. PICK x : x = loaded[i]
  OBVIOUS
<1>5. x \in Libraries /\ x.elf.symtab[j].value # 0
  <2>1. x \in Libraries
    BY <1>4 DEF Libraries
  <2> QED
    BY <1>4, <2>1 DEF Imported
<1>6. WellFormed(x.elf) /\ x.base \in Nat \ {0} /\ j \in DOMAIN x.elf.symtab
  BY <1>4 DEF LibsOK, WellFormedLibrary, Named
<1>7. /\ SymbolAddress(x.elf.symtab[j], x.base, x.elf) = x.base + x.elf.symtab[j].value - first_load_vaddr(x.elf)
      /\ SymbolAddress(x.elf.symtab[j], x.base, x.elf) # 0
  BY <1>5, <1>6, SymbolIs
<1>8. x.base + x.elf.symtab[j].value - first_load_vaddr(x.elf) \in Definitions(name)
  BY <1>3, <1>4, <1>5 DEF Definitions
<1> QED
  BY <1>3, <1>4, <1>7, <1>8

\* The executable's slots are bound at once, and nothing is written after that.
LEMMA ExecStep == IInv /\ WorldOK /\ AuxvOK /\ PlaceOK /\ MemOK /\ ExecOK /\ [Next]_vars => ExecOK'
<1> SUFFICES ASSUME IInv, WorldOK, AuxvOK, PlaceOK, MemOK, ExecOK, [Next]_vars PROVE ExecOK'
  OBVIOUS
<1>1. UNCHANGED <<exec, linker, files, stack>>
  BY WorldStep DEF world
<1>2. CASE RelocateExec
  <2>1. /\ pc = "exec" /\ pc' = "init" /\ UNCHANGED loaded
        /\ mem' = FillExec(mem, exec.base, loaded)
    <3>1. exec_base = exec.base
      BY <1>2, Files DEF RelocateExec, Step, exec_base, AuxvOK, EhdrSize
    <3> QED
      BY <1>2, <3>1 DEF RelocateExec, Step
  <2>2. /\ mem \in Mem /\ WellFormed(exec.elf) /\ exec.base \in Nat \ {0} /\ LibsOK(loaded)
        /\ \A i \in DOMAIN exec.elf.plt : NamedSlot(exec.elf.plt[i], exec.elf)
    BY Files, FileAssumption DEF MemOK, WorldOK
  <2>3. ASSUME NEW i \in 1..ExecSlotCount PROVE ExecBound(exec.elf.plt[i])'
    <3>1. PICK r, name : r = exec.elf.plt[i] /\ name = exec.elf.symtab[r.sym].name
      OBVIOUS
    <3>2. PICK address : address = resolve_symbol_global(name, loaded)
      OBVIOUS
    <3>3. address # 0 => Read(mem', Slot(r, exec.base, exec.elf)) = address
      BY <2>1, <2>2, <3>1, <3>2, FillExecAllIs
    <3>4. Definitions(name) # {} /\ ~Imported(name) => address # 0 /\ address \in Definitions(name)
      BY <2>2, <3>2, ResolvesToDefinition
    <3>5. Definitions(name)' = Definitions(name) /\ (Imported(name)' <=> Imported(name))
      BY <2>1 DEF Definitions, Imported, Libraries
    <3>6. Definitions(name) # {} /\ ~Imported(name) =>
            Read(mem', Slot(r, exec.base, exec.elf)) \in Definitions(name)
      BY <3>3, <3>4
    <3>7. ExecBound(r)' <=> (Definitions(name)' # {} /\ ~Imported(name)' =>
                                Read(mem', Slot(r, exec.base, exec.elf)) \in Definitions(name)')
      BY <1>1, <3>1 DEF ExecBound, Slot
    <3>8. ExecBound(exec.elf.plt[i])' <=> ExecBound(r)'
      BY <1>1, <3>1 DEF ExecBound
    <3> QED
      BY <3>5, <3>6, <3>7, <3>8
  <2>4. ExecSlotCount' = ExecSlotCount
    BY <1>1 DEF ExecSlotCount
  <2> QED
    BY <2>3, <2>4 DEF ExecOK
<1>3. CASE ~RelocateExec
  <2> SUFFICES ASSUME pc' \in {"init", "start", "running"} PROVE ExecOK'
    BY DEF ExecOK
  <2>1. pc \in {"init", "start", "running"} /\ UNCHANGED <<mem, loaded>>
    BY <1>3 DEF Next, Load, Ended, vars, Step, Parse, Bootstrap, BootstrapFails, Needed, Open, OpenFails, ReadHeader,
         ReadHeaderFails, AllocPhdr, AllocPhdrFails, ReadPhdr, ReadPhdrFails, Reserve, ReserveFails,
         MapNowhereFails, MapSegments, MapSegmentsFails, FindDynamic, FindDynamicFails, AllocNode,
         AllocNodeFails, RelocateRela, RelocateRelaFails, RelocatePlt, Refill, CallInit, Start, Fail
  <2>2. ASSUME NEW i \in 1..ExecSlotCount PROVE ExecBound(exec.elf.plt[i])'
    <3>1. PICK r, name : r = exec.elf.plt[i] /\ name = exec.elf.symtab[r.sym].name
      OBVIOUS
    <3>2. Definitions(name)' = Definitions(name) /\ (Imported(name)' <=> Imported(name))
      BY <2>1 DEF Definitions, Imported, Libraries
    <3>3. ExecBound(r)
      BY <2>1, <3>1 DEF ExecOK
    <3> QED
      BY <1>1, <2>1, <3>1, <3>2, <3>3 DEF ExecBound, Slot
  <2> QED
    BY <1>1, <2>2 DEF ExecOK, ExecSlotCount
<1> QED
  BY <1>2, <1>3

\* The last step starts the executable.
LEMMA StartStep == IInv /\ WorldOK /\ AuxvOK /\ PlaceOK /\ MemOK /\ StartOK /\ [Next]_vars => StartOK'
<1> SUFFICES ASSUME IInv, WorldOK, AuxvOK, PlaceOK, MemOK, StartOK, [Next]_vars, pc' = "running"
             PROVE  StartOK'
  BY DEF StartOK
<1>1. UNCHANGED <<exec, linker, files, stack>>
  BY WorldStep DEF world
<1>2. CASE Start
  <2>1. PICK a : /\ a \in Int /\ calls' = Append(calls, a)
                 /\ a = exec.base + (IF Named("main", exec.elf) = {} THEN exec.elf.entry
                                     ELSE find_symbol("main", exec.elf).value) - first_load_vaddr(exec.elf)
    <3>1. pc = "start"
      BY <1>2 DEF Start, Step
    <3> QED
      BY <1>2, <3>1, StartIs DEF Start, Step
  <2>2. Last(calls') = a
    <3>1. PICK c : c = calls /\ c \in Seq(Int)
      BY DEF MemOK
    <3>2. Len(Append(c, a)) = Len(c) + 1 /\ Append(c, a)[Len(c) + 1] = a
      BY <2>1, <3>1
    <3> QED
      BY <2>1, <3>1, <3>2 DEF Last
  <2> QED
    BY <1>1, <2>1, <2>2 DEF StartOK
<1>3. CASE ~Start
  <2>1. pc = "running" /\ calls' = calls
    BY <1>3 DEF Next, Load, Ended, vars, Step, Parse, Bootstrap, BootstrapFails, Needed, Open, OpenFails, ReadHeader,
         ReadHeaderFails, AllocPhdr, AllocPhdrFails, ReadPhdr, ReadPhdrFails, Reserve, ReserveFails,
         MapNowhereFails, MapSegments, MapSegmentsFails, FindDynamic, FindDynamicFails, AllocNode,
         AllocNodeFails, RelocateRela, RelocateRelaFails, RelocatePlt, Refill, RelocateExec, CallInit, Fail
  <2> QED
    BY <1>1, <2>1 DEF StartOK
<1> QED
  BY <1>2, <1>3

\* A library's DT_INIT function is in its image, and in no other.
LEMMA InitIs ==
  ASSUME IInv, WorldOK, PlaceOK, NEW i \in DOMAIN loaded
  PROVE  /\ loaded[i].elf.init = 0 => InitCall(loaded[i]) = <<>>
         /\ loaded[i].elf.init # 0 =>
                /\ InitCall(loaded[i]) = <<InitAt(i)>> /\ InitAt(i) \in Int
                /\ InitAt(i) \in Extent(loaded[i].base, loaded[i].elf)
                /\ InitAt(i) \notin Extent(exec.base, exec.elf)
                /\ \A j \in DOMAIN loaded : j # i => InitAt(i) \notin Extent(loaded[j].base, loaded[j].elf)
<1>1. PICK elf, b, first : elf = loaded[i].elf /\ b = loaded[i].base /\ first = first_load_vaddr(elf)
  OBVIOUS
<1>2. InitCall(loaded[i]) =
        IF elf.init = 0 THEN <<>> ELSE <<Or(calculate_address_from_vaddr(elf.init, b, elf), b + elf.init)>>
  BY <1>1 DEF InitCall
<1> SUFFICES ASSUME elf.init # 0
             PROVE  /\ InitCall(loaded[i]) = <<InitAt(i)>> /\ InitAt(i) \in Int
                    /\ InitAt(i) \in Extent(b, elf)
                    /\ InitAt(i) \notin Extent(exec.base, exec.elf)
                    /\ \A j \in DOMAIN loaded : j # i => InitAt(i) \notin Extent(loaded[j].base, loaded[j].elf)
  BY <1>1, <1>2
<1>3. /\ WellFormed(elf) /\ b \in Nat \ {0} /\ WellFormed(exec.elf) /\ exec.base \in Nat
      /\ \A j \in DOMAIN loaded : WellFormed(loaded[j].elf) /\ Size(loaded[j].elf) <= Span
  BY <1>1, Files DEF LibsOK, WellFormedLibrary
<1>4. elf.init \in Nat /\ InLoad(elf.init, elf)
  <2>1. files \in FileSystems /\ exec \in Executables
    BY DEF WorldOK
  <2>2. PICK n, D : n = exec.needed /\ D = DOMAIN files
    OBVIOUS
  <2>3. n \in Seq(D)
    BY <2>1, <2>2, FileAssumption
  <2>4. \A k \in 1..Len(n) : n[k] \in D
    BY <2>3
  <2>5. \E name \in DOMAIN files : elf = files[name]
    BY <1>1, <2>2, <2>4 DEF PlaceOK
  <2> QED
    BY <2>1, <2>5, FileAssumption
<1>5. PICK v : v = elf.init
  OBVIOUS
<1>6. /\ first \in Nat /\ v \in Nat /\ v >= first
      /\ b + (v - first) \in Extent(b, elf)
      /\ calculate_address_from_vaddr(v, b, elf) = b + (v - first)
  BY <1>1, <1>3, <1>4, <1>5, Placed
<1>7. InitAt(i) = b + v - first
  BY <1>1, <1>5 DEF InitAt
<1>8. b + (v - first) # 0 /\ b + (v - first) = b + v - first /\ b + v - first \in Int
  BY <1>3, <1>6
<1>9. InitCall(loaded[i]) = <<InitAt(i)>>
  BY <1>2, <1>5, <1>6, <1>7, <1>8 DEF Or
<1>10. InitAt(i) \in Int /\ InitAt(i) \in Extent(b, elf)
  BY <1>6, <1>7, <1>8
<1>11. /\ Span \in Nat /\ b \in Bases
       /\ \A c \in Bases : c \in Nat /\ (b # c => b + Span <= c \/ c + Span <= b)
       /\ b + Span <= exec.base \/ exec.base + Size(exec.elf) <= b
  BY <1>1, LinkerAssumption DEF PlaceOK, WorldOK
<1>12. Size(elf) \in Nat /\ Size(elf) <= Span /\ Size(exec.elf) \in Nat
  BY <1>1, <1>3, Placed
<1>13. InitAt(i) \notin Extent(exec.base, exec.elf)
  <2>1. PICK c, g : c = exec.base /\ g = exec.elf
    OBVIOUS
  <2>2. \A a \in Extent(b, elf) : a \notin Extent(c, g)
    BY <1>3, <1>11, <1>12, <2>1, Apart
  <2> QED
    BY <1>10, <2>1, <2>2
<1>14. ASSUME NEW j \in DOMAIN loaded, j # i PROVE InitAt(i) \notin Extent(loaded[j].base, loaded[j].elf)
  <2>1. PICK c, g : c = loaded[j].base /\ g = loaded[j].elf
    OBVIOUS
  <2>2. c # b /\ c \in Bases
    BY <1>1, <1>14, <2>1 DEF IInv, ListOK, PlaceOK
  <2>3. c \in Nat /\ (b + Span <= c \/ c + Span <= b) /\ Size(g) \in Nat /\ Size(g) <= Span
    BY <1>3, <1>11, <2>1, <2>2, Placed
  <2>4. \A a \in Extent(b, elf) : a \notin Extent(c, g)
    BY <1>3, <1>11, <1>12, <2>3, Apart
  <2> QED
    BY <1>10, <2>1, <2>4
<1> QED
  BY <1>9, <1>10, <1>13, <1>14

\* A library without an array of initialisers calls none of one.
LEMMA NoArrayCalls ==
  ASSUME NEW lib, lib.elf.init_array = 0
  PROVE  InitArrayCalls(lib) = <<>>
<1> DEFINE At(v) == Or(calculate_address_from_vaddr(v, lib.base, lib.elf), lib.base + v)
           entry(k) == Read(mem, At(lib.elf.init_array + k - 1))
           turn(g, k) == IF k = 0 THEN <<>>
                         ELSE IF entry(k) = 0 THEN g[k - 1] ELSE Append(g[k - 1], At(entry(k)))
           made == CHOOSE g : g = [k \in 0..0 |-> turn(g, k)]
<1>1. InitArrayCalls(lib) = made[0]
  BY DEF InitArrayCalls
<1> HIDE DEF At, entry
<1>2. PICK f : f = [k \in 0..0 |-> <<>>]
  OBVIOUS
<1>3. f = [k \in 0..0 |-> turn(f, k)]
  <2>1. \A k \in 0..0 : k = 0
    OBVIOUS
  <2> QED
    BY <1>2, <2>1
<1>4. made = [k \in 0..0 |-> turn(made, k)]
  <2> HIDE DEF turn
  <2> QED
    BY <1>3
<1>5. made[0] = <<>>
  <2> HIDE DEF made
  <2> QED
    BY <1>4
<1> QED
  BY <1>1, <1>5

\* t is c with one more call, that of a, and calls a function twice only if c does.
OneMore(t, c, a) ==
    /\ \A k \in DOMAIN c : k \in DOMAIN t /\ t[k] = c[k]
    /\ \E k \in DOMAIN t : t[k] = a
    /\ \A k \in DOMAIN t : (k \in DOMAIN c /\ t[k] = c[k]) \/ t[k] = a
    /\ (\A k \in DOMAIN c : c[k] # a) /\ (\A k, l \in DOMAIN c : c[k] = c[l] => k = l) =>
            \A k, l \in DOMAIN t : t[k] = t[l] => k = l

LEMMA OneMoreCall == ASSUME NEW c \in Seq(Int), NEW a \in Int PROVE OneMore(Append(c, a), c, a)
<1>1. PICK t : t = Append(c, a)
  OBVIOUS
<1>2. /\ Len(c) \in Nat /\ DOMAIN c = 1..Len(c)
      /\ DOMAIN t = 1..(Len(c) + 1) /\ t[Len(c) + 1] = a
      /\ \A k \in 1..Len(c) : t[k] = c[k]
  BY <1>1
<1>3. \A k \in DOMAIN t : (k \in DOMAIN c /\ t[k] = c[k]) \/ (k = Len(c) + 1 /\ t[k] = a)
  BY <1>2
<1>4. \A k \in DOMAIN c : k \in DOMAIN t /\ t[k] = c[k]
  BY <1>2
<1>5. Len(c) + 1 \in DOMAIN t
  BY <1>2
<1> QED
  BY <1>1, <1>2, <1>3, <1>4, <1>5 DEF OneMore

\* Where the executable is started is in its image.
LEMMA StartsInside ==
  ASSUME IInv, WorldOK, AuxvOK, PlaceOK, Start, pc' = "running"
  PROVE  \E a \in Int : calls' = Append(calls, a) /\ a \in Extent(exec.base, exec.elf)
<1>1. pc = "start"
  BY DEF Start, Step
<1>2. PICK elf, b, first : elf = exec.elf /\ b = exec.base /\ first = first_load_vaddr(elf)
  OBVIOUS
<1>3. PICK v : v = IF Named("main", elf) = {} THEN elf.entry ELSE find_symbol("main", elf).value
  OBVIOUS
<1>4. PICK a \in Int : calls' = Append(calls, a) /\ a = b + v - first
  BY <1>1, <1>2, <1>3, StartIs DEF Start, Step
<1>5. WellFormed(elf) /\ b \in Nat
  BY <1>2, Files
<1>6. v \in Nat /\ InLoad(v, elf)
  <2>1. CASE Named("main", elf) = {}
    BY <1>2, <1>3, <2>1, FileAssumption DEF WorldOK
  <2>2. CASE Named("main", elf) # {}
    <3>1. PICK i \in Named("main", elf) : find_symbol("main", elf) = elf.symtab[i]
      BY <1>5, <2>2, FoundSymbol
    <3>2. elf.symtab[i].value # 0
      BY <1>2, FileAssumption DEF WorldOK, Named
    <3> QED
      BY <1>3, <1>5, <2>2, <3>1, <3>2 DEF WellFormed, Named
  <2> QED
    BY <2>1, <2>2
<1>7. first \in Nat /\ v >= first /\ b + (v - first) \in Extent(b, elf)
  BY <1>2, <1>5, <1>6, Placed
<1>8. b + (v - first) = a
  BY <1>4, <1>5, <1>6, <1>7
<1> QED
  BY <1>2, <1>4, <1>7, <1>8

\* Each step calls what has not been called, and only that.
LEMMA CallsStep ==
  IInv /\ WorldOK /\ AuxvOK /\ PlaceOK /\ MemOK /\ CallsOK /\ [Next]_vars => CallsOK'
<1> SUFFICES ASSUME IInv, WorldOK, AuxvOK, PlaceOK, MemOK, CallsOK, [Next]_vars PROVE CallsOK'
  OBVIOUS
<1>0. /\ Len(loaded) \in Nat /\ DOMAIN loaded = 1..Len(loaded) /\ next \in Nat /\ calls \in Seq(Int)
      /\ UNCHANGED exec
  BY LengthIs, WorldStep DEF IInv, ListOK, MemOK, world
<1>1. CASE RelocateExec
  <2>1. calls' = <<>> /\ pc' = "init" /\ Initialised' = {} /\ DOMAIN calls' = {}
    BY <1>0, <1>1 DEF RelocateExec, Step, CallsOK, Initialised
  <2> QED
    BY <2>1 DEF CallsOK
<1>2. CASE CallInit /\ next <= Len(loaded)
  <2>1. /\ pc = "init" /\ pc' = "init" /\ UNCHANGED loaded /\ next' = next + 1
        /\ calls' = calls \o InitCall(loaded[next]) \o InitArrayCalls(loaded[next])
    BY <1>0, <1>2 DEF CallInit, Step
  <2>2. next \in DOMAIN loaded
    BY <1>0, <1>2 DEF PlaceOK
  <2>3. (NoArrays' <=> NoArrays) /\ \A i : InitAt(i)' = InitAt(i)
    BY <2>1 DEF NoArrays, Libraries, InitAt
  <2> SUFFICES ASSUME NoArrays
               PROVE  /\ \A i \in Initialised' : \E k \in DOMAIN calls' : calls'[k] = InitAt(i)
                      /\ \A k \in DOMAIN calls' : \E i \in Initialised' : calls'[k] = InitAt(i)
                      /\ \A k, l \in DOMAIN calls' : calls'[k] = calls'[l] => k = l
    <3>1. CallsOK' <=> (NoArrays =>
              /\ \A i \in Initialised' : \E k \in DOMAIN calls' : calls'[k] = InitAt(i)
              /\ \A k \in DOMAIN calls' : \E i \in Initialised' : calls'[k] = InitAt(i)
              /\ \A k, l \in DOMAIN calls' : calls'[k] = calls'[l] => k = l)
      BY <2>1, <2>3 DEF CallsOK
    <3> QED
      BY <3>1
  <2>4. /\ \A i \in Initialised : \E k \in DOMAIN calls : calls[k] = InitAt(i)
        /\ \A k \in DOMAIN calls : \E i \in Initialised : calls[k] = InitAt(i)
        /\ \A k, l \in DOMAIN calls : calls[k] = calls[l] => k = l
    BY <2>1 DEF CallsOK
  <2>5. calls' = calls \o InitCall(loaded[next]) \o <<>>
    BY <2>1, <2>2, NoArrayCalls DEF NoArrays, Libraries
  <2>6. CASE loaded[next].elf.init = 0
    <3>1. calls' = calls
      <4>1. calls' = calls \o <<>> \o <<>>
        BY <2>2, <2>5, <2>6, InitIs
      <4> QED
        BY <1>0, <4>1
    <3>2. Initialised' = Initialised
      BY <1>0, <2>1, <2>6 DEF Initialised
    <3> QED
      BY <2>4, <3>1, <3>2
  <2>7. CASE loaded[next].elf.init # 0
    <3>1. PICK a : a = InitAt(next)
      OBVIOUS
    <3>2. a \in Int /\ calls' = calls \o <<a>> \o <<>>
      BY <2>2, <2>5, <2>7, <3>1, InitIs
    <3>3. calls' = Append(calls, a)
      BY <1>0, <3>2
    <3>4. Initialised' = Initialised \cup {next} /\ next \notin Initialised
      BY <1>0, <2>1, <2>2, <2>7 DEF Initialised
    <3>5. ASSUME NEW k \in DOMAIN calls PROVE calls[k] # a
      <4>1. PICK i \in Initialised : calls[k] = InitAt(i)
        BY <2>4
      <4>2. i \in DOMAIN loaded /\ i # next /\ loaded[i].elf.init # 0
        BY <3>4 DEF Initialised
      <4>3. InitAt(i) \in Extent(loaded[i].base, loaded[i].elf)
        BY <4>2, InitIs
      <4>4. a \notin Extent(loaded[i].base, loaded[i].elf)
        BY <2>2, <2>7, <3>1, <4>2, InitIs
      <4> QED
        BY <4>1, <4>3, <4>4
    <3>6. /\ \A k \in DOMAIN calls : k \in DOMAIN calls' /\ calls'[k] = calls[k]
          /\ \E k \in DOMAIN calls' : calls'[k] = a
          /\ \A k \in DOMAIN calls' : (k \in DOMAIN calls /\ calls'[k] = calls[k]) \/ calls'[k] = a
          /\ \A k, l \in DOMAIN calls' : calls'[k] = calls'[l] => k = l
      <4>1. OneMore(calls', calls, a)
        BY <1>0, <3>2, <3>3, OneMoreCall
      <4> QED
        BY <2>4, <3>5, <4>1 DEF OneMore
    <3>7. \A i \in Initialised' : \E k \in DOMAIN calls' : calls'[k] = InitAt(i)
      BY <2>4, <3>1, <3>4, <3>6
    <3>8. \A k \in DOMAIN calls' : \E i \in Initialised' : calls'[k] = InitAt(i)
      BY <2>4, <3>1, <3>4, <3>6
    <3> QED
      BY <3>6, <3>7, <3>8
  <2> QED
    BY <2>6, <2>7
<1>3. CASE CallInit /\ ~(next <= Len(loaded))
  <2>1. pc = "init" /\ pc' = "start" /\ Len(loaded) < next /\ UNCHANGED <<exec, loaded, next, calls>>
    BY <1>0, <1>3 DEF CallInit, Step
  <2> QED
    BY <2>1 DEF CallsOK, NoArrays, Libraries, Initialised, InitAt
<1>4. CASE Start /\ pc' = "running"
  <2>1. pc = "start" /\ UNCHANGED <<exec, loaded, next>>
    BY <1>0, <1>4 DEF Start, Step
  <2>2. PICK a \in Int : calls' = Append(calls, a) /\ a \in Extent(exec.base, exec.elf)
    BY <1>4, StartsInside
  <2>3. (NoArrays' <=> NoArrays) /\ Initialised' = Initialised /\ \A i : InitAt(i)' = InitAt(i)
    BY <2>1 DEF NoArrays, Libraries, InitAt, Initialised
  <2> SUFFICES ASSUME NoArrays
               PROVE  /\ \A i \in Initialised : \E k \in DOMAIN calls' : calls'[k] = InitAt(i)
                      /\ \A k \in DOMAIN calls' :
                            \/ \E i \in Initialised : calls'[k] = InitAt(i)
                            \/ calls'[k] \in Extent(exec.base, exec.elf)
                      /\ \A k, l \in DOMAIN calls' : calls'[k] = calls'[l] => k = l
    <3>1. Len(loaded') < next'
      BY <2>1 DEF CallsOK
    <3>2. exec' = exec
      BY <2>1
    <3>3. CallsOK' <=> (NoArrays =>
              /\ \A i \in Initialised : \E k \in DOMAIN calls' : calls'[k] = InitAt(i)
              /\ \A k \in DOMAIN calls' :
                    \/ \E i \in Initialised : calls'[k] = InitAt(i)
                    \/ calls'[k] \in Extent(exec.base, exec.elf)
              /\ \A k, l \in DOMAIN calls' : calls'[k] = calls'[l] => k = l)
      BY <1>4, <2>3, <3>1, <3>2 DEF CallsOK
    <3> QED
      BY <3>3
  <2>4. /\ \A i \in Initialised : \E k \in DOMAIN calls : calls[k] = InitAt(i)
        /\ \A k \in DOMAIN calls : \E i \in Initialised : calls[k] = InitAt(i)
        /\ \A k, l \in DOMAIN calls : calls[k] = calls[l] => k = l
    BY <2>1 DEF CallsOK
  <2>5. ASSUME NEW k \in DOMAIN calls PROVE calls[k] # a
    <3>1. PICK i \in Initialised : calls[k] = InitAt(i)
      BY <2>4
    <3>2. InitAt(i) \notin Extent(exec.base, exec.elf)
      BY InitIs DEF Initialised
    <3> QED
      BY <2>2, <3>1, <3>2
  <2>6. /\ \A k \in DOMAIN calls : k \in DOMAIN calls' /\ calls'[k] = calls[k]
        /\ \A k \in DOMAIN calls' : (k \in DOMAIN calls /\ calls'[k] = calls[k]) \/ calls'[k] = a
        /\ \A k, l \in DOMAIN calls' : calls'[k] = calls'[l] => k = l
    <3>1. OneMore(calls', calls, a)
      BY <1>0, <2>2, OneMoreCall
    <3> QED
      BY <2>4, <2>5, <3>1 DEF OneMore
  <2> QED
    BY <2>2, <2>4, <2>6
<1>5. CASE pc' = "failed"
  BY <1>5 DEF CallsOK
<1>6. CASE UNCHANGED vars
  BY <1>6 DEF vars, world, CallsOK, NoArrays, Libraries, Initialised, InitAt
<1>7. CASE ~RelocateExec /\ ~CallInit /\ ~Start /\ pc' # "failed" /\ ~UNCHANGED vars
  <2>1. calls' = calls /\ pc' \notin {"init", "start", "running"} /\ pc \notin {"init", "start", "running", "failed"}
    BY <1>7 DEF Next, Load, Ended, Step, Parse, Bootstrap, BootstrapFails, Needed, Open, OpenFails, ReadHeader,
         ReadHeaderFails, AllocPhdr, AllocPhdrFails, ReadPhdr, ReadPhdrFails, Reserve, ReserveFails,
         MapNowhereFails, MapSegments, MapSegmentsFails, FindDynamic, FindDynamicFails, AllocNode,
         AllocNodeFails, RelocateRela, RelocateRelaFails, RelocatePlt, Refill, Fail
  <2> QED
    BY <2>1 DEF CallsOK
<1>8. Start => pc' \in {"running", "failed"}
  BY DEF Start, Step
<1> QED
  BY <1>1, <1>2, <1>3, <1>4, <1>5, <1>6, <1>7, <1>8

\* A process that has just been started satisfies the whole invariant.
LEMMA RunInit == Init => RunInv
<1> SUFFICES ASSUME Init PROVE RunInv
  OBVIOUS
<1>1. IInv
  BY InitInv
<1>2. WorldOK /\ AuxvOK /\ BoundOK /\ ExecOK /\ StartOK /\ CallsOK
  BY DEF Init, WorldOK, AuxvOK, BoundOK, ExecOK, StartOK, CallsOK
<1>3. exec \in Executables /\ linker \in Linkers /\ files \in FileSystems
  BY DEF Init
<1>4. Len(exec.needed) \in Nat
  <2>1. PICK n, D : n = exec.needed /\ n \in Seq(D)
    BY <1>3, FileAssumption
  <2> QED
    BY <2>1
<1>5. PlaceOK
  BY <1>4 DEF Init, PlaceOK, LoadSteps, HoldsImage, Relocating
<1>6. CountOK
  <2>1. loaded = <<>> /\ Len(loaded) = 0
    BY DEF Init
  <2> QED
    BY <1>4, <2>1 DEF Init, CountOK, Loading, Relocating, LoadSteps
<1>7. MemOK
  <2>1. WellFormed(exec.elf) /\ WellFormed(linker.elf) /\ exec.base \in Nat /\ linker.base \in Nat
    BY <1>3, FileAssumption, LinkerAssumption DEF WellFormedLibrary
  <2>2. Image(exec.base, exec.elf) \in Mem /\ Image(linker.base, linker.elf) \in Mem
    BY <2>1, ImageIs
  <2>3. Over(Image(exec.base, exec.elf), Image(linker.base, linker.elf)) \in Mem
    BY <2>2, OverIs
  <2> QED
    BY <2>3 DEF Init, MemOK
<1> QED
  BY <1>1, <1>2, <1>5, <1>6, <1>7 DEF RunInv

\* Every step keeps it.
LEMMA RunStep == RunInv /\ [Next]_vars => RunInv'
  BY NextInv, WorldStep, AuxvStep, PlaceStep, CountStep, MemStep, BoundStep, ExecStep, StartStep,
     CallsStep DEF RunInv

\* The invariant of the whole run holds in every reachable state.
THEOREM RunInvHolds == Spec => []RunInv
<1>1. Init => RunInv
  BY RunInit
<1>2. RunInv /\ [Next]_vars => RunInv'
  BY RunStep
<1> QED
  BY <1>1, <1>2, PTL DEF Spec

-----------------------------------------------------------------------------
(* What follows from it *)

\* Every address is an address, every library one of the files at a place of mmap's,
\* and every block one of a DT_NEEDED entry's.
THEOREM TypeCorrect == Spec => []TypeOK
<1>1. RunInv => TypeOK
  <2> SUFFICES ASSUME RunInv PROVE TypeOK
    OBVIOUS
  <2>1. \A lib \in Libraries : lib.base \in Bases /\ lib.entry \in 1..Len(exec.needed)
    BY DEF RunInv, PlaceOK, Libraries
  <2>2. fds \in {0, 1}
    BY DEF RunInv, IInv, FileOK
  <2>3. heap \subseteq {"phdr", "node", "path"} \X (1..Len(exec.needed))
    <3>1. \A lib \in Libraries : Parts(lib) \subseteq {"phdr", "node", "path"}
      BY DEF Parts
    <3>2. Owned \subseteq {"phdr", "node", "path"} \X (1..Len(exec.needed))
      BY <2>1, <3>1 DEF Owned
    <3>3. pc \in HoldsPhdr => next \in 1..Len(exec.needed)
      BY Files DEF RunInv, PlaceOK, HoldsPhdr, LoadSteps
    <3> QED
      BY <3>2, <3>3 DEF RunInv, IInv, HeapOK
  <2>4. mapped \subseteq Bases
    BY <2>1 DEF RunInv, IInv, MappedOK, PlaceOK
  <2>5. \A a \in DOMAIN mem : a \in Nat /\ mem[a] \in Int
    BY MemHas DEF RunInv, MemOK
  <2> QED
    BY <2>1, <2>2, <2>3, <2>4, <2>5 DEF TypeOK, RunInv, PlaceOK, MemOK
<1> QED
  BY <1>1, RunInvHolds, PTL

\* No relocation of a library, of the linker or of the executable, and no mapping of a
\* library, writes a word of another image.
THEOREM EveryWriteStaysHome == Spec => WritesStayHome
<1> DEFINE Stays == \A a \in DOMAIN mem' :
        Read(mem, a) # mem'[a] =>
            a \in IF pc = "bootstrap" THEN Extent(linker.base, linker.elf)
                 ELSE IF pc \in LoadSteps THEN Extent(base, current)
                 ELSE Extent(exec.base, exec.elf)
<1>1. RunInv /\ [Next]_vars => [Stays]_vars
  <2> SUFFICES ASSUME RunInv, [Next]_vars PROVE Stays
    OBVIOUS
  <2>1. mem' \in Mem /\ Same(mem, mem', Home)
    BY MemoryStep DEF RunInv
  <2>2. \A a \in DOMAIN mem' : a \in Nat /\ Read(mem', a) = mem'[a]
    BY <2>1, MemHas DEF Read
  <2>3. \A a \in DOMAIN mem' : Read(mem, a) # mem'[a] => a \in Home
    BY <2>1, <2>2 DEF Same
  <2> QED
    BY <2>3 DEF Home
<1> QED
  BY <1>1, RunInvHolds, PTL DEF Spec, WritesStayHome

\* Whatever the order of the libraries and the reach of process_relocation, the slots
\* of the linker and of the libraries hold the definitions of their own files, unless
\* a file has no .rela.dyn: then the code leaves its slots as they are.
THEOREM SlotsOfLibrariesBound == Spec => []LibrarySlotsBound
<1>1. RunInv => LibrarySlotsBound
  <2> SUFFICES ASSUME RunInv, pc = "running", NEW lib \in Libraries \cup {linker}, HasRelaEnt(lib.elf),
                      NEW r \in Range(lib.elf.plt)
               PROVE  OwnSlotBound(lib, r)
    BY DEF LibrarySlotsBound
  <2>1. AllBound(mem, lib.base, lib.elf)
    BY DEF RunInv, BoundOK, Libraries, Relocating
  <2>2. PICK i \in DOMAIN lib.elf.plt : r = lib.elf.plt[i]
    BY DEF Range
  <2> QED
    BY <2>1, <2>2 DEF AllBound, Bound, Slot, OwnSlotBound
<1> QED
  BY <1>1, RunInvHolds, PTL

\* The executable's slots hold definitions of their symbols when it starts, where no
\* library imports the symbol.
THEOREM SlotsOfExecutableBound == Spec => []ExecSlotsBound
<1>1. RunInv => ExecSlotsBound
  <2> SUFFICES ASSUME RunInv, pc = "running", NEW r \in ExecSlots,
                      Definitions(exec.elf.symtab[r.sym].name) # {}, ~Imported(exec.elf.symtab[r.sym].name)
               PROVE  Read(mem, exec.base + r.offset - first_load_vaddr(exec.elf))
                        \in Definitions(exec.elf.symtab[r.sym].name)
    BY DEF ExecSlotsBound
  <2>1. PICK i \in DOMAIN exec.elf.plt \cap 1..SlotLimit : r = exec.elf.plt[i]
    BY DEF ExecSlots
  <2>2. exec.elf.plt \in Seq(Relocations(exec.elf))
    BY Files DEF RunInv, WellFormed
  <2>3. Len(exec.elf.plt) \in Nat /\ DOMAIN exec.elf.plt = 1..Len(exec.elf.plt)
    <3>1. PICK t, R : t = exec.elf.plt /\ t \in Seq(R)
      BY <2>2
    <3> QED
      BY <3>1
  <2>4. i \in 1..ExecSlotCount
    BY <2>1, <2>3, LinkerAssumption DEF ExecSlotCount
  <2> QED
    BY <2>1, <2>4 DEF RunInv, ExecOK, ExecBound, Slot
<1> QED
  BY <1>1, RunInvHolds, PTL

\* For every number of arguments and environment strings the linker finds what the
\* kernel has left for it, and it starts the executable where it is to start.
THEOREM ExecutableStarts == Spec => []StartsExecutable
<1>1. RunInv => StartsExecutable
  <2> SUFFICES ASSUME RunInv PROVE StartsExecutable
    OBVIOUS
  <2>1. pc # "parse" =>
            auxv = [base |-> linker.base, phdr |-> exec.base + EhdrSize,
                    entry |-> exec.base + exec.elf.entry - first_load_vaddr(exec.elf)]
    BY DEF RunInv, AuxvOK
  <2>2. /\ CanBootstrap /\ Len(loaded) = Len(exec.needed)
        /\ Named("main", exec.elf) # {} \/ exec.base = first_load_vaddr(exec.elf)
        => pc # "failed"
    <3>1. Len(exec.needed) \in Nat
      BY Files DEF RunInv
    <3> QED
      BY <3>1 DEF RunInv, CountOK
  <2> QED
    BY <2>1, <2>2 DEF StartsExecutable, RunInv, StartOK
<1> QED
  BY <1>1, RunInvHolds, PTL

\* Without arrays of initialisers, which are relocated twice, the DT_INIT function of each
\* library is called once and no call leaves the images, whatever the libraries are and
\* wherever they lie.
THEOREM InitialisersRunOnce == Spec => [](NoArrays => InitsRunOnce)
<1>1. RunInv => (NoArrays => InitsRunOnce)
  <2> SUFFICES ASSUME RunInv, NoArrays, pc = "running" PROVE InitsRunOnce
    BY DEF InitsRunOnce
  <2>1. /\ \A i \in Initialised : \E k \in DOMAIN calls : calls[k] = InitAt(i)
        /\ \A k \in DOMAIN calls :
            \/ \E i \in Initialised : calls[k] = InitAt(i)
            \/ calls[k] \in Extent(exec.base, exec.elf)
        /\ \A k, l \in DOMAIN calls : calls[k] = calls[l] => k = l
        /\ Len(loaded) < next
    BY DEF RunInv, CallsOK
  <2>2. Initialised = {i \in DOMAIN loaded : loaded[i].elf.init # 0}
    <3>1. DOMAIN loaded = 1..Len(loaded) /\ Len(loaded) \in Nat /\ next \in Nat
      BY LengthIs DEF RunInv, IInv, ListOK
    <3> QED
      BY <2>1, <3>1 DEF Initialised
  <2>3. ASSUME NEW lib \in Libraries, lib.elf.init # 0
        PROVE  Called(lib.base + lib.elf.init - first_load_vaddr(lib.elf)) = 1
    <3>1. PICK i \in DOMAIN loaded : lib = loaded[i]
      BY DEF Libraries
    <3>2. PICK a : a = InitAt(i)
      OBVIOUS
    <3>3. PICK k \in DOMAIN calls : calls[k] = a
      BY <2>1, <2>2, <2>3, <3>1, <3>2
    <3>4. {l \in DOMAIN calls : calls[l] = a} = {k}
      BY <2>1, <3>3
    <3>5. Cardinality({k}) = 1
      BY FS_Singleton
    <3> QED
      BY <3>1, <3>2, <3>4, <3>5 DEF Called, InitAt
  <2>4. ASSUME NEW a \in Range(calls)
        PROVE  \E x \in Libraries \cup {exec} : a \in Extent(x.base, x.elf)
    <3>1. PICK k \in DOMAIN calls : a = calls[k]
      BY DEF Range
    <3>2. CASE a \in Extent(exec.base, exec.elf)
      BY <3>2
    <3>3. CASE \E i \in Initialised : a = InitAt(i)
      <4>1. PICK i \in Initialised : a = InitAt(i)
        BY <3>3
      <4>2. i \in DOMAIN loaded /\ loaded[i] \in Libraries /\ InitAt(i) \in Extent(loaded[i].base, loaded[i].elf)
        BY <2>2, InitIs DEF RunInv, Libraries
      <4> QED
        BY <4>1, <4>2
    <3> QED
      BY <2>1, <3>1, <3>2, <3>3
  <2> QED
    BY <2>3, <2>4 DEF InitsRunOnce
<1> QED
  BY <1>1, RunInvHolds, PTL
=============================================================================
