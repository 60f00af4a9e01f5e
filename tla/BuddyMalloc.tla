---------------------------- MODULE BuddyMalloc -----------------------------
(***************************************************************************)
(* malloc and free of mini_libc/src/malloc.c (and of its copy in           *)
(* dynamic_linker/src/dl_runtime.c): a buddy allocator over mmap'ed pools. *)
(* Addresses and sizes count MIN_BLOCK_SIZE units; the sizes callers ask   *)
(* for include the block header.  Each call is one action, because the     *)
(* allocator takes no lock and is used by one thread at a time here.       *)
(*                                                                         *)
(* The metadata is the linked structure of the code, stale fields          *)
(* included: free_lists holds list heads, a list is followed through the   *)
(* next fields of the headers, and a header stays where it was written     *)
(* when its block is merged away.                                          *)
(***************************************************************************)
EXTENDS Integers, Sequences, FiniteSetsExt

CONSTANTS
    MaxOrder,       \* MAX_ORDER
    PoolOrder,      \* the order of the initial pool: INITIAL_POOL_SIZE
    PoolBase,       \* where mmap puts it
    Space,          \* the addresses are 0..Space-1
    Requests,       \* the sizes asked for
    MaxLive,        \* bound: no more blocks than this allocated at a time
    AnyOrder,       \* whether callers free in any order or newest first
    Null

\* The units of a block of each order, doubled as get_order does
BlockSize[o \in 0..MaxOrder] == IF o = 0 THEN 1 ELSE 2 * BlockSize[o - 1]

ASSUME BuddyAssumption ==
    /\ PoolOrder \in Nat /\ MaxOrder \in Nat /\ PoolOrder < MaxOrder
    /\ PoolBase \in Nat /\ Space \in Nat /\ PoolBase + BlockSize[PoolOrder] <= Space
    /\ Null \notin 0..(Space - 1)
    /\ Requests \subseteq Nat \ {0}
    /\ MaxLive \in Nat
    /\ AnyOrder \in BOOLEAN

VARIABLES
    heap,           \* the allocator: headers, list heads, start, size
    pools,          \* the [base, size] of every mmap made
    live            \* the blocks callers hold, [at, size], oldest first

vars == <<heap, pools, live>>

Addresses == 0..(Space - 1)
Orders == 0..(MaxOrder - 1)
Pointers == Addresses \cup {Null}

Header == [order : 0..MaxOrder, is_free : BOOLEAN, next : Pointers, buddy : Pointers]

Blank == [order |-> 0, is_free |-> FALSE, next |-> Null, buddy |-> Null]

\* The bug of a get_order that stops at the last block size below n.
get_order_below(n) == Min({o \in 0..(MaxOrder - 1) : BlockSize[o + 1] > n} \cup {MaxOrder})

\* get_order: the least order whose block holds n units, at most MAX_ORDER
get_order(n) == Min({o \in 0..MaxOrder : BlockSize[o] >= n} \cup {MaxOrder})

\* The fields of block b of heap h set by the record f
SetHeader(h, b, f) == [h EXCEPT !.header[b] = f]

\* What is read as a header at any address: outside the pools, zeros.
HeaderAt(h, a) == IF a \in Addresses THEN h.header[a] ELSE Blank

-----------------------------------------------------------------------------
(* The free lists *)

\* block->next = free_lists[block->order]; free_lists[block->order] = block
Push(h, b) ==
    LET o == h.header[b].order IN
    [h EXCEPT !.header[b].next = h.free_lists[o], !.free_lists[o] = b]

\* The blocks of list o in order, as far as Space steps along next lead: longer
\* lists go round in circles.
Listed(h, o) ==
    LET chain[k \in 0..Space] ==
          IF k = 0 THEN IF h.free_lists[o] = Null THEN <<>> ELSE <<h.free_lists[o]>>
          ELSE LET c == chain[k - 1]
                   n == IF c = <<>> THEN Null ELSE h.header[c[Len(c)]].next
               IN IF n = Null \/ Len(c) < k THEN c ELSE Append(c, n)
    IN chain[Space]

\* The bug of leaving the block on its list.
UnlinkNothing(h, b, o) == h

\* The loop of malloc.c:235-243 that takes b out of list o, if it is there
Unlink(h, b, o) ==
    LET list == Listed(h, o)
        after == h.header[b].next
        places == {i \in DOMAIN list : list[i] = b}
    IN IF places = {} THEN h
       ELSE IF 1 \in places THEN [h EXCEPT !.free_lists[o] = after]
       ELSE [h EXCEPT !.header[list[Min(places) - 1]].next = after]

-----------------------------------------------------------------------------
(* split_block and merge_blocks *)

\* The bug of a split that forgets to list the half it does not use.
SplitOnceUnlisted(h, b, target) ==
    LET o == h.header[b].order - 1
        right == b + BlockSize[o]
    IN IF h.header[b].order <= target \/ right + BlockSize[o] > h.start + h.size THEN h
       ELSE [h EXCEPT !.header[b].order = o, !.header[b].buddy = right,
                      !.header[right] = [order |-> o, is_free |-> TRUE, next |-> Null, buddy |-> b]]

\* One turn of split_block's loop: the right half becomes a free block
SplitOnce(h, b, target) ==
    LET o == h.header[b].order - 1
        right == b + BlockSize[o]
    IN IF h.header[b].order <= target \/ right + BlockSize[o] > h.start + h.size THEN h
       ELSE [h EXCEPT !.header[b].order = o, !.header[b].buddy = right,
                      !.header[right] = [order |-> o, is_free |-> TRUE,
                                         next |-> h.free_lists[o], buddy |-> b],
                      !.free_lists[o] = right]

split_block(h, b, target) ==
    LET turn[k \in 0..MaxOrder] == IF k = 0 THEN h ELSE SplitOnce(turn[k - 1], b, target)
    IN turn[MaxOrder]

\* The test of malloc.c:203-211 for another turn
CanMerge(h, b) ==
    LET buddy == h.header[b].buddy IN
    /\ h.header[b].order < MaxOrder - 1
    /\ buddy # Null
    /\ HeaderAt(h, buddy).is_free
    /\ HeaderAt(h, buddy).order = h.header[b].order

\* The bug of a merge that leaves the buddy pointer as it was.
NewBuddyStale(h, left, order) == h.header[left].buddy

\* The buddy of a merged block is the next block, if that is below the heap's end.
NewBuddy(h, left, order) ==
    LET next == left + BlockSize[order] IN IF next < h.start + h.size THEN next ELSE Null

\* One turn of merge_blocks' loop on m = [heap, block, go].  The two are put in
\* address order, and the right one is taken out of the free list whichever of
\* them it was that is being freed.
MergeOnce(m) ==
    LET h == m.heap
        buddy == h.header[m.block].buddy
        left == IF buddy < m.block THEN buddy ELSE m.block
        right == IF buddy < m.block THEN m.block ELSE buddy
        o == h.header[left].order
        removed == Unlink(h, right, h.header[right].order)
    IN IF ~m.go \/ ~CanMerge(h, m.block) THEN [m EXCEPT !.go = FALSE]
       ELSE IF right # left + BlockSize[o] THEN [m EXCEPT !.block = left, !.go = FALSE]
       ELSE [m EXCEPT
               !.block = left,
               !.heap = SetHeader(removed, left,
                    [removed.header[left] EXCEPT
                        !.order = o + 1,
                        !.buddy = NewBuddy(h, left, o + 1)])]

\* The bug of a free that never merges.
merge_nothing(h, b) == Push(h, b)

merge_blocks(h, b) ==
    LET turn[k \in 0..MaxOrder] ==
          IF k = 0 THEN [heap |-> h, block |-> b, go |-> TRUE] ELSE MergeOnce(turn[k - 1])
    IN Push(turn[MaxOrder].heap, turn[MaxOrder].block)

-----------------------------------------------------------------------------
(* The pools *)

Fresh(order) == [order |-> order, is_free |-> TRUE, next |-> Null, buddy |-> Null]

\* buddy_init, on the first call of malloc
buddy_init ==
    LET size == BlockSize[PoolOrder] IN
    [header |-> [a \in Addresses |-> IF a = PoolBase THEN Fresh(get_order(size)) ELSE Blank],
     free_lists |-> [o \in Orders |-> IF o = get_order(size) THEN PoolBase ELSE Null],
     start |-> PoolBase,
     size |-> size]

\* new_size: the heap size doubled until it holds n units
NewSize(h, n) == CHOOSE s \in {h.size * BlockSize[k] : k \in 1..MaxOrder} :
                    s >= n /\ \A k \in 1..MaxOrder : h.size * BlockSize[k] >= n => s <= h.size * BlockSize[k]

\* Where mmap can put a pool of size s
Room(s) == {base \in Addresses :
              base + s <= Space /\ \A p \in pools : base + s <= p.base \/ p.base + p.size <= base}

\* expand_memory_pool with the new pool at base: the block is put on its list and
\* then given to merge_blocks, which puts it there too
expand_memory_pool(h, n, base) ==
    LET s == NewSize(h, n)
        new == SetHeader(h, base, Fresh(get_order(s)))
    IN [merge_blocks(Push(new, base), base) EXCEPT !.size = @ + s]

-----------------------------------------------------------------------------
(* malloc and free *)

\* The orders of the free blocks that malloc of n units finds
Usable(h, n) == {o \in Orders : o >= get_order(n) /\ h.free_lists[o] # Null}

NeedsPool(h, n) == n > h.size \/ Usable(h, n) = {}

\* Steps 5 to 8 of malloc: pop a block, split it, mark it used.  The result is the
\* new heap and the block.
Take(h, n) ==
    LET o == Min(Usable(h, n))
        b == h.free_lists[o]
        popped == [h EXCEPT !.free_lists[o] = h.header[b].next]
        split == IF o > get_order(n) THEN split_block(popped, b, get_order(n)) ELSE popped
    IN [heap |-> [split EXCEPT !.header[b].is_free = FALSE, !.header[b].next = Null],
        block |-> b]

Init ==
    /\ heap = buddy_init
    /\ pools = {[base |-> PoolBase, size |-> BlockSize[PoolOrder]]}
    /\ live = <<>>

\* malloc(n) without a new pool
Malloc(n) ==
    /\ ~NeedsPool(heap, n)
    /\ LET taken == Take(heap, n) IN
        /\ heap' = taken.heap
        /\ live' = Append(live, [at |-> taken.block, size |-> n])
    /\ UNCHANGED pools

\* malloc(n) with a new pool, then again as if called anew (malloc.c:366, 394-398)
MallocExpanding(n) ==
    /\ NeedsPool(heap, n)
    /\ \E base \in Room(NewSize(heap, n)) :
        LET grown == expand_memory_pool(heap, n, base)
            taken == Take(grown, n)
        IN /\ heap' = taken.heap
           /\ pools' = pools \cup {[base |-> base, size |-> NewSize(heap, n)]}
           /\ live' = Append(live, [at |-> taken.block, size |-> n])

\* free of the i-th oldest block that is held
Free(i) ==
    /\ heap' = merge_blocks(SetHeader(heap, live[i].at,
                                [heap.header[live[i].at] EXCEPT !.is_free = TRUE]), live[i].at)
    /\ live' = SubSeq(live, 1, i - 1) \o SubSeq(live, i + 1, Len(live))
    /\ UNCHANGED pools

MallocSome == Len(live) < MaxLive /\ \E n \in Requests : Malloc(n)

MallocSomeExpanding == Len(live) < MaxLive /\ \E n \in Requests : MallocExpanding(n)

FreeSome == \E i \in DOMAIN live : (AnyOrder \/ i = Len(live)) /\ Free(i)

\* Callers that are content with the first pool
Next == MallocSome \/ FreeSome

Spec == Init /\ [][Next]_vars

\* Callers that are not
GrowingSpec == Init /\ [][Next \/ MallocSomeExpanding]_vars

-----------------------------------------------------------------------------
(* Properties *)

\* The units of a block of n units at a
Extent(a, n) == a..(a + n - 1)

\* What callers hold never overlaps: no unit is handed out twice.
NoOverlap ==
    \A i, j \in DOMAIN live :
        i # j => Extent(live[i].at, live[i].size) \cap Extent(live[j].at, live[j].size) = {}

\* Every free list is a chain without repetition of free blocks of its order
\* (malloc.c:17, 26), and no block that is held is on one.
ListsSound ==
    \A o \in Orders :
        LET list == Listed(heap, o) IN
        /\ \A i, j \in DOMAIN list : list[i] = list[j] => i = j
        /\ \A i \in DOMAIN list :
            /\ heap.header[list[i]].order = o /\ heap.header[list[i]].is_free
            /\ \A k \in DOMAIN live : live[k].at # list[i]

\* The start and size of every block: the listed ones and the held ones
Blocks ==
    (UNION {{<<Listed(heap, o)[i], BlockSize[o]>> : i \in DOMAIN Listed(heap, o)} : o \in Orders})
        \cup {<<live[i].at, BlockSize[heap.header[live[i].at].order]>> : i \in DOMAIN live}

\* Free and held blocks tile the pools: nothing is lost and nothing counted twice.
Tiled ==
    /\ \A x, y \in Blocks : x # y => Extent(x[1], x[2]) \cap Extent(y[1], y[2]) = {}
    /\ UNION {Extent(x[1], x[2]) : x \in Blocks} = UNION {Extent(p.base, p.size) : p \in pools}

\* The buddy pointer of a block that merge_blocks may look through leads to the
\* header of a block, never into the memory of a caller.
BuddyIsBlock ==
    \A x \in Blocks :
        LET buddy == heap.header[x[1]].buddy IN
        buddy # Null => \E y \in Blocks : y[1] = buddy

\* A request is turned away, and a new pool mapped, only when no aligned stretch of
\* the right size is free: whatever was split has been merged again.
FindsRoom ==
    \A n \in Requests :
        LET size == BlockSize[get_order(n)]
            Held == UNION {Extent(live[i].at, BlockSize[heap.header[live[i].at].order]) : i \in DOMAIN live}
        IN NeedsPool(heap, n) =>
            \A p \in pools : \A k \in 0..(p.size \div size) :
                Extent(p.base + k * size, size) \subseteq Extent(p.base, p.size)
                    => Extent(p.base + k * size, size) \cap Held # {}

\* To its callers this allocator is an abstract heap.
Abstract == INSTANCE AbstractHeap WITH
    Units <- Extent(PoolBase, BlockSize[PoolOrder]), Sizes <- Requests

ImplementsHeap == Abstract!Spec
=============================================================================
