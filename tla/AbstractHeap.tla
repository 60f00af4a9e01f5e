---------------------------- MODULE AbstractHeap -----------------------------
(***************************************************************************)
(* What malloc and free promise their callers, without headers, orders and *)
(* lists: a block lies in memory that is the allocator's and meets no      *)
(* other block until it is given back.                                     *)
(***************************************************************************)
EXTENDS Integers, Sequences

CONSTANTS
    Units,          \* the allocator's memory
    Sizes           \* what callers ask for

VARIABLE live       \* the blocks callers hold, [at, size], oldest first

Extent(b) == b.at..(b.at + b.size - 1)

Init == live = <<>>

Alloc ==
    \E n \in Sizes, a \in Units :
        LET b == [at |-> a, size |-> n] IN
        /\ Extent(b) \subseteq Units
        /\ \A i \in DOMAIN live : Extent(live[i]) \cap Extent(b) = {}
        /\ live' = Append(live, b)

\* Any block may be given back, once.
Release ==
    \E i \in DOMAIN live :
        live' = SubSeq(live, 1, i - 1) \o SubSeq(live, i + 1, Len(live))

Spec == Init /\ [][Alloc \/ Release]_live
=============================================================================
