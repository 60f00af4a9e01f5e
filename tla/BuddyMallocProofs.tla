-------------------------- MODULE BuddyMallocProofs ---------------------------
(***************************************************************************)
(* Proofs about BuddyMalloc, for callers that free newest first and stay   *)
(* within the first pool: any pool, any sizes, any number of blocks.       *)
(*                                                                         *)
(* What such callers see is a stack.  A malloc takes a block of the        *)
(* smallest order there is and may split it; the free that undoes it comes *)
(* when everything later has been undone, and merges just what was split.  *)
(* The invariant therefore speaks of the free lists as they were before    *)
(* each block that is still held was taken (History), and of what the      *)
(* headers hold now (Matches).  From the first follows that at each of     *)
(* these times the free and the held blocks tiled the pool (Tiling).       *)
(*                                                                         *)
(* The last part is about the abstract heap, which such callers see.       *)
(***************************************************************************)
EXTENDS BuddyMalloc, Iteration, SequenceTheorems

PoolEnd == PoolBase + BlockSize[PoolOrder]

\* The order of a block that is held
OrderOf(b) == get_order(b.size)

\* Free lists hold at most one block each.  f[i] is the lists when the blocks l[1] to
\* l[i] had been taken, and from[i] the list that l[i] was taken from: the first that
\* was not empty, from the order of l[i] on.  The right halves are on the lists between.
Took(F, b, o, G) ==
    /\ OrderOf(b) <= o /\ F[o] = b.at
    /\ \A k \in Orders : OrderOf(b) <= k /\ k < o => F[k] = Null
    /\ G = [k \in Orders |-> IF k < OrderOf(b) \/ k > o THEN F[k]
                             ELSE IF k = o THEN Null ELSE b.at + BlockSize[k]]

History(l, f, from) ==
    /\ f \in [0..Len(l) -> [Orders -> Pointers]]
    /\ from \in [1..Len(l) -> Orders]
    /\ f[0] = [k \in Orders |-> IF k = PoolOrder THEN PoolBase ELSE Null]
    /\ \A i \in 1..Len(l) : Took(f[i - 1], l[i], from[i], f[i])

\* The blocks there are when the lists are F and the first i blocks of l are held:
\* where, of what order, and whose (0 for a free one)
Tiles(F, l, i) ==
    {<<F[k], k, 0>> : k \in {o \in Orders : F[o] # Null}} \cup {<<l[j].at, OrderOf(l[j]), j>> : j \in 1..i}

\* They lie apart in the pool and cover it, each aligned to its size.
InPool(T) == \A x \in T : PoolBase <= x[1] /\ x[1] + BlockSize[x[2]] <= PoolEnd
Apart(T) == \A x, y \in T : x # y => x[1] + BlockSize[x[2]] <= y[1] \/ y[1] + BlockSize[y[2]] <= x[1]
Cover(T) == \A u \in PoolBase..(PoolEnd - 1) : \E x \in T : x[1] <= u /\ u < x[1] + BlockSize[x[2]]
Aligned(a, o) == \E m \in Nat : a = PoolBase + m * BlockSize[o]

TilesPool(T) == InPool(T) /\ Apart(T) /\ Cover(T) /\ \A x \in T : Aligned(x[1], x[2])

\* Block a of order k is one of the right halves that were split off when l[j] was taken.
RightHalf(a, k, l, j, from) == a = l[j].at + BlockSize[k] /\ OrderOf(l[j]) <= k /\ k < from[j]

\* Every free block is one, or is the whole pool.
Halves(F, l, i, from) ==
    \A k \in Orders : F[k] # Null =>
        (k = PoolOrder /\ F[k] = PoolBase) \/ \E j \in 1..i : RightHalf(F[k], k, l, j, from)

Tiling(l, f, from) ==
    \A i \in 0..Len(l) : TilesPool(Tiles(f[i], l, i)) /\ Halves(f[i], l, i, from)

\* The buddy of block x: none, the block behind it, or the one it was split from,
\* which is held and older
BuddyOK(h, x, l, from) ==
    LET buddy == h.header[x[1]].buddy IN
    \/ buddy = Null
    \/ buddy = x[1] + BlockSize[x[2]] /\ buddy < PoolEnd
    \/ \E j \in 1..Len(l) : buddy = l[j].at /\ (x[3] = 0 \/ j < x[3]) /\ RightHalf(x[1], x[2], l, j, from)

Matches(h, l, f, from) ==
    LET F == f[Len(l)] IN
    /\ h.free_lists = F
    /\ \A k \in Orders : F[k] # Null =>
        LET x == h.header[F[k]] IN x.order = k /\ x.is_free /\ x.next = Null
    /\ \A j \in 1..Len(l) :
        LET x == h.header[l[j].at] IN
        /\ x.order = OrderOf(l[j]) /\ ~x.is_free
        /\ OrderOf(l[j]) < from[j] => x.buddy = l[j].at + BlockSize[OrderOf(l[j])]
    /\ \A x \in Tiles(F, l, Len(l)) : BuddyOK(h, x, l, from)

Heaps == [header : [Addresses -> Header], free_lists : [Orders -> Pointers],
          start : {PoolBase}, size : {BlockSize[PoolOrder]}]

Held == [at : Addresses, size : Requests]

IInv ==
    /\ heap \in Heaps /\ live \in Seq(Held)
    /\ pools = {[base |-> PoolBase, size |-> BlockSize[PoolOrder]]}
    /\ \E f, from : History(live, f, from) /\ Matches(heap, live, f, from)

-----------------------------------------------------------------------------
(* Sizes and orders *)

\* Sizes double from one order to the next.
LEMMA Sizes ==
  /\ BlockSize \in [0..MaxOrder -> Nat \ {0}] /\ BlockSize[0] = 1
  /\ \A o \in 1..MaxOrder : BlockSize[o] = 2 * BlockSize[o - 1]
<1> DEFINE N == Nat \ {0}
           body == [i \in 1..MaxOrder |-> [x \in N |-> 2 * x]]
           turn(g, i) == IF i = 0 THEN 1 ELSE 2 * g[i - 1]
           size == CHOOSE g : g = [i \in 0..MaxOrder |-> turn(g, i)]
<1>1. MaxOrder \in Nat
  BY BuddyAssumption
<1>2. body \in [1..MaxOrder -> [N -> N]] /\ 1 \in N
  OBVIOUS
<1>3. \E g \in [0..MaxOrder -> N] : Goes(g, 1, MaxOrder, body)
  <2> HIDE DEF body, N
  <2> QED
    BY <1>1, <1>2, LoopExists
<1>4. PICK f \in [0..MaxOrder -> N] : f[0] = 1 /\ \A i \in 1..MaxOrder : f[i] = body[i][f[i - 1]]
  BY <1>3 DEF Goes
<1>5. f = [i \in 0..MaxOrder |-> turn(f, i)]
  <2>1. \A i \in 1..MaxOrder : f[i - 1] \in N
    BY <1>1
  <2>2. \A i \in 1..MaxOrder : f[i] = 2 * f[i - 1]
    BY <1>4, <2>1
  <2>3. \A i \in 0..MaxOrder : f[i] = turn(f, i)
    BY <1>1, <1>4, <2>2
  <2> HIDE DEF turn, N
  <2>4. f = [i \in 0..MaxOrder |-> f[i]]
    OBVIOUS
  <2> QED
    BY <2>3, <2>4
<1>6. size = [i \in 0..MaxOrder |-> turn(size, i)]
  <2> HIDE DEF turn
  <2> QED
    BY <1>5
<1>7. BlockSize = size
  BY DEF BlockSize
<1>8. size[0] = 1 /\ \A i \in 1..MaxOrder : size[i] = 2 * size[i - 1]
  <2> HIDE DEF size
  <2> QED
    BY <1>1, <1>6
<1> HIDE DEF size
<1>9. \A i \in 0..MaxOrder : size[i] \in N
  <2> DEFINE S == {i \in 0..MaxOrder : size[i] \in N}
  <2>1. 0 \in S
    BY <1>1, <1>8
  <2>2. ASSUME NEW i \in 1..MaxOrder, i - 1 \in S PROVE i \in S
    BY <1>8, <2>2
  <2>3. \A i \in 0..MaxOrder : i \in S
    <3> HIDE DEF S
    <3> QED
      BY <1>1, <2>1, <2>2, Induction
  <2> QED
    BY <2>3
<1>10. size \in [0..MaxOrder -> N]
  BY <1>6, <1>9
<1> QED
  BY <1>7, <1>8, <1>10

\* A larger block is a multiple of a smaller one, and twice as large at least.
LEMMA Multiple ==
  ASSUME NEW p \in 0..MaxOrder, NEW q \in 0..MaxOrder, p <= q
  PROVE  /\ \E d \in Nat \ {0} : BlockSize[q] = d * BlockSize[p]
         /\ p < q => 2 * BlockSize[p] <= BlockSize[q]
         /\ BlockSize[p] <= BlockSize[q]
<1> DEFINE S == {i \in 0..MaxOrder : p + i <= MaxOrder =>
                    /\ \E d \in Nat \ {0} : BlockSize[p + i] = d * BlockSize[p]
                    /\ 0 < i => 2 * BlockSize[p] <= BlockSize[p + i]}
<1>1. MaxOrder \in Nat /\ p \in Nat /\ q - p \in 0..MaxOrder /\ p + (q - p) = q
  BY BuddyAssumption
<1>2. 0 \in S
  <2>1. BlockSize[p] \in Nat /\ BlockSize[p] = 1 * BlockSize[p] /\ p + 0 = p
    BY Sizes, <1>1
  <2> QED
    BY <1>1, <2>1
<1>3. ASSUME NEW i \in 1..MaxOrder, i - 1 \in S PROVE i \in S
  <2> SUFFICES ASSUME p + i <= MaxOrder
               PROVE  /\ \E d \in Nat \ {0} : BlockSize[p + i] = d * BlockSize[p]
                      /\ 0 < i => 2 * BlockSize[p] <= BlockSize[p + i]
    OBVIOUS
  <2>1. PICK d \in Nat \ {0} : BlockSize[p + (i - 1)] = d * BlockSize[p]
    BY <1>1, <1>3
  <2>2. p + i \in 1..MaxOrder /\ (p + i) - 1 = p + (i - 1)
    BY <1>1
  <2>3. BlockSize[p + i] = 2 * BlockSize[p + (i - 1)]
    BY <2>2, Sizes
  <2>4. BlockSize[p] \in Nat \ {0}
    BY Sizes
  <2>5. d * BlockSize[p] >= BlockSize[p] /\ 2 * (d * BlockSize[p]) = (2 * d) * BlockSize[p] /\ 2 * d \in Nat \ {0}
    BY <2>4
  <2> QED
    BY <2>1, <2>3, <2>4, <2>5
<1>4. \A i \in 0..MaxOrder : i \in S
  <2> HIDE DEF S
  <2> QED
    BY <1>1, <1>2, <1>3, Induction
<1>5. /\ \E d \in Nat \ {0} : BlockSize[q] = d * BlockSize[p]
      /\ p < q => 2 * BlockSize[p] <= BlockSize[q]
  <2>1. q - p \in S
    BY <1>1, <1>4
  <2> QED
    BY <1>1, <2>1
<1>6. BlockSize[p] \in Nat /\ BlockSize[q] \in Nat /\ (p = q \/ p < q)
  BY <1>1, Sizes
<1>7. BlockSize[p] <= BlockSize[q]
  BY <1>5, <1>6
<1> HIDE DEF S
<1> QED
  BY <1>5, <1>7

\* Every size from one order's on lies between two neighbouring orders.
LEMMA Between ==
  ASSUME NEW t \in 0..MaxOrder, NEW o \in 0..MaxOrder, NEW v \in Nat,
         BlockSize[t] <= v, v < BlockSize[o]
  PROVE  \E k \in 0..MaxOrder : t <= k /\ k < o /\ BlockSize[k] <= v /\ v < 2 * BlockSize[k]
<1> DEFINE T == {k \in 0..MaxOrder : v < BlockSize[k]}
<1>1. MaxOrder \in Nat /\ T \in SUBSET Nat /\ o \in T
  BY BuddyAssumption
<1>2. PICK k \in T : \A x \in T : k <= x
  BY <1>1, LeastNatural
<1>3. t < k
  <2>1. k <= t => \E d \in Nat \ {0} : BlockSize[t] = d * BlockSize[k]
    BY Multiple
  <2>2. \A d \in Nat \ {0}, x \in Nat : x <= d * x
    OBVIOUS
  <2>3. BlockSize[k] \in Nat /\ BlockSize[t] \in Nat /\ v < BlockSize[k] /\ k \in Nat /\ t \in Nat
    BY Sizes, <1>1
  <2>4. k <= t => BlockSize[k] <= BlockSize[t]
    BY <2>1, <2>2, <2>3
  <2> QED
    BY <2>3, <2>4
<1>4. k \in 1..MaxOrder /\ k - 1 \in 0..MaxOrder /\ k - 1 \notin T
  BY <1>1, <1>2, <1>3
<1>5. BlockSize[k] = 2 * BlockSize[k - 1] /\ BlockSize[k - 1] <= v
  BY <1>4, Sizes
<1>6. k <= o /\ v < BlockSize[k]
  BY <1>1, <1>2
<1> QED
  BY <1>1, <1>3, <1>4, <1>5, <1>6

\* get_order returns the least order that fits, MaxOrder if none does.
LEMMA OrderIs ==
  ASSUME NEW n \in Nat
  PROVE  /\ get_order(n) \in 0..MaxOrder
         /\ get_order(n) < MaxOrder => n <= BlockSize[get_order(n)]
         /\ \A o \in 0..MaxOrder : n <= BlockSize[o] => get_order(n) <= o
<1> DEFINE S == {o \in 0..MaxOrder : BlockSize[o] >= n} \cup {MaxOrder}
<1>1. MaxOrder \in Nat /\ S \in SUBSET Nat /\ S # {} /\ get_order(n) = Min(S)
  BY BuddyAssumption DEF get_order
<1>2. Min(S) \in S /\ \A x \in S : Min(S) <= x
  BY <1>1, MinIs
<1>3. \A o \in 0..MaxOrder : BlockSize[o] \in Nat
  BY Sizes
<1> QED
  BY <1>1, <1>2, <1>3

\* The order of the pool is the order of its size.
LEMMA PoolOrderIs == get_order(BlockSize[PoolOrder]) = PoolOrder
<1>1. PoolOrder \in 0..MaxOrder /\ PoolOrder < MaxOrder /\ MaxOrder \in Nat
  BY BuddyAssumption
<1> PICK n \in Nat : n = BlockSize[PoolOrder]
  BY <1>1, Sizes
<1>2. get_order(n) \in 0..MaxOrder /\ get_order(n) <= PoolOrder /\ n <= BlockSize[get_order(n)]
  BY <1>1, OrderIs
<1>3. get_order(n) < PoolOrder => 2 * BlockSize[get_order(n)] <= BlockSize[PoolOrder]
  BY <1>1, <1>2, Multiple
<1> QED
  BY SMTT(30), <1>1, <1>2, <1>3, Sizes

\* The ranges of orders and addresses
LEMMA Bounds ==
  /\ MaxOrder \in Nat /\ Orders = 0..(MaxOrder - 1) /\ Orders \subseteq 0..MaxOrder
  /\ \A k \in Orders : k \in Nat /\ k < MaxOrder
  /\ \A k \in 0..MaxOrder : BlockSize[k] \in Nat \ {0}
  /\ Space \in Nat /\ Addresses = 0..(Space - 1) /\ Addresses \subseteq Nat /\ Null \notin Addresses
  /\ PoolOrder \in Orders /\ PoolBase \in Nat /\ PoolEnd \in Nat
  /\ PoolBase < PoolEnd /\ PoolEnd <= Space /\ PoolEnd = PoolBase + BlockSize[PoolOrder]
<1>1. PoolOrder \in 0..MaxOrder /\ \A k \in 0..MaxOrder : BlockSize[k] \in Nat \ {0}
  BY BuddyAssumption, Sizes
<1>2. BlockSize[PoolOrder] \in Nat \ {0}
  BY <1>1
<1>3. /\ PoolBase \in Nat /\ PoolEnd \in Nat
      /\ PoolBase < PoolEnd /\ PoolEnd <= Space /\ PoolEnd = PoolBase + BlockSize[PoolOrder]
  BY <1>2, BuddyAssumption DEF PoolEnd
<1>4. /\ MaxOrder \in Nat /\ Orders = 0..(MaxOrder - 1) /\ Orders \subseteq 0..MaxOrder
      /\ \A k \in Orders : k \in Nat /\ k < MaxOrder
      /\ PoolOrder \in Orders
  BY BuddyAssumption DEF Orders
<1>5. Space \in Nat /\ Addresses = 0..(Space - 1) /\ Addresses \subseteq Nat /\ Null \notin Addresses
  BY BuddyAssumption DEF Addresses
<1> QED
  BY <1>1, <1>3, <1>4, <1>5

-----------------------------------------------------------------------------
(* Tilings of the pool *)

TileType == Nat \X (0..MaxOrder) \X Nat

\* What is left of T when its free block a of order o has been taken for owner w and
\* split down to order t
Split(T, a, o, t, w) ==
    (T \ {<<a, o, 0>>}) \cup {<<a, t, w>>} \cup {<<a + BlockSize[k], k, 0>> : k \in {i \in Orders : t <= i /\ i < o}}

\* A split block and its right halves take the place of the block.
LEMMA SplitTiles ==
  ASSUME NEW T \in SUBSET TileType, TilesPool(T), NEW a \in Nat, NEW o \in Orders, <<a, o, 0>> \in T,
         NEW t \in 0..MaxOrder, t <= o, NEW w \in Nat
  PROVE  Split(T, a, o, t, w) \in SUBSET TileType /\ TilesPool(Split(T, a, o, t, w))
<1> DEFINE U == Split(T, a, o, t, w)
           Rights == {i \in Orders : t <= i /\ i < o}
<1>1. /\ MaxOrder \in Nat /\ PoolBase \in Nat /\ Orders \subseteq 0..MaxOrder
      /\ \A k \in 0..MaxOrder : BlockSize[k] \in Nat \ {0}
  BY BuddyAssumption, Sizes DEF Orders
<1>2. PoolBase <= a /\ a + BlockSize[o] <= PoolEnd /\ PoolEnd \in Nat /\ Aligned(a, o)
  <2>1. PoolEnd \in Nat
    BY <1>1, BuddyAssumption DEF PoolEnd
  <2> QED
    BY <2>1 DEF TilesPool, InPool
<1>3. BlockSize[t] <= BlockSize[o]
  BY Multiple, <1>1
<1>4. \A k \in Rights : BlockSize[t] <= BlockSize[k] /\ 2 * BlockSize[k] <= BlockSize[o]
  BY Multiple, <1>1
<1>5. \A j, k \in Rights : j < k => 2 * BlockSize[j] <= BlockSize[k]
  BY Multiple, <1>1
<1>6. ASSUME NEW x \in U
      PROVE  \/ x \in T /\ x # <<a, o, 0>>
             \/ x = <<a, t, w>>
             \/ \E k \in Rights : x = <<a + BlockSize[k], k, 0>>
  BY DEF Split
<1>7. /\ \A x \in T : x # <<a, o, 0>> => x \in U
      /\ <<a, t, w>> \in U
      /\ \A k \in Rights : <<a + BlockSize[k], k, 0>> \in U
  BY DEF Split
<1>8. \A x \in T : x # <<a, o, 0>> => x[1] + BlockSize[x[2]] <= a \/ a + BlockSize[o] <= x[1]
  BY DEF TilesPool, Apart
<1>9. \A x \in T : x[1] \in Nat /\ x[2] \in 0..MaxOrder
  BY DEF TileType
\* What is new lies where the block was.
<1> DEFINE New(x) == x = <<a, t, w>> \/ \E k \in Rights : x = <<a + BlockSize[k], k, 0>>
<1>10. ASSUME NEW x, New(x)
       PROVE  /\ x \in TileType
              /\ a <= x[1] /\ x[1] + BlockSize[x[2]] <= a + BlockSize[o]
              /\ x[1] \in Nat /\ BlockSize[x[2]] \in Nat
  <2>1. CASE x = <<a, t, w>>
    <3>1. x[1] = a /\ x[2] = t /\ x \in TileType
      BY <2>1 DEF TileType
    <3> QED
      BY <1>1, <1>3, <3>1
  <2>2. CASE x # <<a, t, w>>
    <3>1. PICK k \in Rights : x = <<a + BlockSize[k], k, 0>>
      BY <1>10, <2>2
    <3>2. BlockSize[k] \in Nat /\ k \in 0..MaxOrder /\ 2 * BlockSize[k] <= BlockSize[o] /\ BlockSize[o] \in Nat
      BY <1>1, <1>4
    <3>3. x[1] = a + BlockSize[k] /\ x[2] = k /\ x \in TileType
      BY <3>1, <3>2 DEF TileType
    <3> QED
      BY <3>2, <3>3
  <2> QED
    BY <2>1, <2>2
<1> HIDE DEF U
<1>11. U \in SUBSET TileType
  BY <1>6, <1>10
<1>12. InPool(U)
  <2> SUFFICES ASSUME NEW x \in U PROVE PoolBase <= x[1] /\ x[1] + BlockSize[x[2]] <= PoolEnd
    BY DEF InPool
  <2>1. CASE New(x)
    BY <1>1, <1>2, <1>10, <2>1
  <2>2. CASE x \in T
    BY <2>2 DEF TilesPool, InPool
  <2> QED
    BY <1>6, <2>1, <2>2
<1>13. Apart(U)
  <2> SUFFICES ASSUME NEW x \in U, NEW y \in U, x # y
               PROVE  x[1] + BlockSize[x[2]] <= y[1] \/ y[1] + BlockSize[y[2]] <= x[1]
    BY DEF Apart
  <2>1. CASE x \in T /\ x # <<a, o, 0>> /\ y \in T /\ y # <<a, o, 0>>
    BY <2>1 DEF TilesPool, Apart
  <2>2. CASE x \in T /\ x # <<a, o, 0>> /\ New(y)
    <3>1. BlockSize[x[2]] \in Nat /\ x[1] \in Nat /\ BlockSize[o] \in Nat
      BY <1>1, <1>9, <2>2
    <3> HIDE DEF New
    <3> QED
      BY <1>8, <1>10, <2>2, <3>1
  <2>3. CASE y \in T /\ y # <<a, o, 0>> /\ New(x)
    <3>1. BlockSize[y[2]] \in Nat /\ y[1] \in Nat /\ BlockSize[o] \in Nat
      BY <1>1, <1>9, <2>3
    <3> HIDE DEF New
    <3> QED
      BY <1>8, <1>10, <2>3, <3>1
  <2>4. CASE New(x) /\ New(y)
    <3>1. ASSUME x = <<a, t, w>>, NEW k \in Rights, y = <<a + BlockSize[k], k, 0>>
          PROVE  x[1] + BlockSize[x[2]] <= y[1]
      BY <1>1, <1>4, <3>1
    <3>2. ASSUME y = <<a, t, w>>, NEW k \in Rights, x = <<a + BlockSize[k], k, 0>>
          PROVE  y[1] + BlockSize[y[2]] <= x[1]
      BY <1>1, <1>4, <3>2
    <3>3. ASSUME NEW j \in Rights, NEW k \in Rights,
                 x = <<a + BlockSize[j], j, 0>>, y = <<a + BlockSize[k], k, 0>>
          PROVE  x[1] + BlockSize[x[2]] <= y[1] \/ y[1] + BlockSize[y[2]] <= x[1]
      <4>1. j # k /\ j \in Nat /\ k \in Nat
        BY <1>1, <3>3
      <4>2. CASE j < k
        BY <1>1, <1>5, <3>3, <4>2
      <4>3. CASE k < j
        BY <1>1, <1>5, <3>3, <4>3
      <4> QED
        BY <4>1, <4>2, <4>3
    <3> QED
      BY <2>4, <3>1, <3>2, <3>3
  <2> QED
    BY <1>6, <2>1, <2>2, <2>3, <2>4
<1>14. Cover(U)
  <2> SUFFICES ASSUME NEW u \in PoolBase..(PoolEnd - 1)
               PROVE  \E x \in U : x[1] <= u /\ u < x[1] + BlockSize[x[2]]
    BY DEF Cover
  <2>1. PICK x \in T : x[1] <= u /\ u < x[1] + BlockSize[x[2]]
    BY DEF TilesPool, Cover
  <2>2. CASE x # <<a, o, 0>>
    BY <1>7, <2>1, <2>2
  <2>3. CASE x = <<a, o, 0>>
    <3>1. u - a \in Nat /\ u - a < BlockSize[o] /\ u \in Nat
      BY <1>1, <1>2, <2>1, <2>3
    <3>2. CASE u - a < BlockSize[t]
      BY <1>1, <1>7, <3>1, <3>2
    <3>3. CASE BlockSize[t] <= u - a
      <4>1. PICK k \in 0..MaxOrder : t <= k /\ k < o /\ BlockSize[k] <= u - a /\ u - a < 2 * BlockSize[k]
        BY <1>1, <3>1, <3>3, Between
      <4>2. k \in Rights
        BY <1>1, <4>1 DEF Orders
      <4>3. a + BlockSize[k] <= u /\ u < (a + BlockSize[k]) + BlockSize[k]
        BY <1>1, <3>1, <4>1
      <4> QED
        BY <1>7, <4>2, <4>3
    <3> QED
      BY <1>1, <3>1, <3>2, <3>3
  <2> QED
    BY <2>2, <2>3
<1>15. ASSUME NEW x \in U PROVE Aligned(x[1], x[2])
  <2>1. PICK m \in Nat : a = PoolBase + m * BlockSize[o]
    BY <1>2 DEF Aligned
  <2>2. CASE x \in T
    BY <2>2 DEF TilesPool
  <2>3. CASE x = <<a, t, w>>
    <3>1. PICK d \in Nat : BlockSize[o] = d * BlockSize[t]
      BY Multiple, <1>1
    <3>2. m * BlockSize[o] = (m * d) * BlockSize[t] /\ m * d \in Nat
      BY <1>1, <3>1
    <3> QED
      BY <2>1, <2>3, <3>2 DEF Aligned
  <2>4. ASSUME NEW k \in Rights, x = <<a + BlockSize[k], k, 0>> PROVE Aligned(x[1], x[2])
    <3>1. PICK d \in Nat : BlockSize[o] = d * BlockSize[k]
      BY Multiple, <1>1
    <3>2. /\ m * BlockSize[o] = (m * d) * BlockSize[k] /\ m * d \in Nat
          /\ (m * d + 1) * BlockSize[k] = (m * d) * BlockSize[k] + BlockSize[k]
      BY <1>1, <3>1
    <3>3. a + BlockSize[k] = PoolBase + (m * d + 1) * BlockSize[k] /\ m * d + 1 \in Nat
      BY <1>1, <2>1, <3>2
    <3> QED
      BY <2>4, <3>3 DEF Aligned
  <2> QED
    BY <1>6, <2>2, <2>3, <2>4
<1> QED
  BY <1>11, <1>12, <1>13, <1>14, <1>15 DEF TilesPool, U

LEMMA HeldIs ==
  ASSUME NEW l \in Seq(Held), NEW i \in 1..Len(l)
  PROVE  /\ l[i].at \in Addresses /\ l[i].at \in Nat
         /\ l[i].size \in Requests /\ l[i].size \in Nat \ {0}
         /\ OrderOf(l[i]) \in 0..MaxOrder
<1>1. Addresses \subseteq Nat /\ Requests \subseteq Nat \ {0}
  BY BuddyAssumption DEF Addresses
<1>2. l[i] \in [at : Addresses, size : Requests]
  <2>1. l[i] \in Held
    OBVIOUS
  <2> QED
    BY <2>1 DEF Held
<1>3. l[i].at \in Addresses /\ l[i].size \in Requests
  BY <1>2
<1>4. OrderOf(l[i]) \in 0..MaxOrder
  BY <1>1, <1>3, OrderIs DEF OrderOf
<1> QED
  BY <1>1, <1>3, <1>4

LEMMA TilesTyped ==
  ASSUME NEW l \in Seq(Held), NEW i \in 0..Len(l), NEW F \in [Orders -> Pointers]
  PROVE  Tiles(F, l, i) \in SUBSET TileType
<1>1. MaxOrder \in Nat /\ Space \in Nat /\ Orders \subseteq 0..MaxOrder /\ 0 \in Nat
  BY BuddyAssumption DEF Orders
<1>2. ASSUME NEW k \in Orders, F[k] # Null PROVE <<F[k], k, 0>> \in TileType
  BY <1>1, <1>2 DEF TileType, Pointers, Addresses
<1>3. ASSUME NEW j \in 1..i PROVE <<l[j].at, OrderOf(l[j]), j>> \in TileType
  <2>1. l[j] \in Held /\ j \in Nat
    OBVIOUS
  <2>2. l[j].at \in Nat /\ OrderOf(l[j]) \in 0..MaxOrder
    BY HeldIs
  <2> QED
    BY <2>1, <2>2 DEF TileType
<1> QED
  BY <1>2, <1>3 DEF Tiles

\* Taking a block splits its tile.
LEMMA TookSplits ==
  ASSUME NEW l \in Seq(Held), NEW i \in 1..Len(l), NEW F \in [Orders -> Pointers], NEW G,
         NEW o \in Orders, Took(F, l[i], o, G), TilesPool(Tiles(F, l, i - 1))
  PROVE  /\ G \in [Orders -> Pointers]
         /\ <<l[i].at, o, 0>> \in Tiles(F, l, i - 1)
         /\ Tiles(G, l, i) = Split(Tiles(F, l, i - 1), l[i].at, o, OrderOf(l[i]), i)
         /\ TilesPool(Tiles(G, l, i))
<1> DEFINE a == l[i].at
           t == OrderOf(l[i])
           T == Tiles(F, l, i - 1)
           Rights == {k \in Orders : t <= k /\ k < o}
<1>1. /\ MaxOrder \in Nat /\ PoolBase \in Nat /\ Space \in Nat /\ PoolEnd \in Nat /\ PoolEnd <= Space
      /\ Null \notin Addresses /\ Addresses \subseteq Nat
      /\ \A k \in 0..MaxOrder : BlockSize[k] \in Nat \ {0}
      /\ Orders \subseteq 0..MaxOrder
  BY SMTT(30), BuddyAssumption, Sizes DEF PoolEnd, Orders, Addresses
<1>2. a \in Addresses /\ a \in Nat /\ i \in Nat /\ i - 1 \in 0..Len(l) /\ i - 1 \in Nat
  BY HeldIs
<1>3. t \in 0..MaxOrder /\ t <= o
  BY HeldIs DEF Took
<1>4. T \in SUBSET TileType
  BY <1>2, TilesTyped
<1>5. F[o] = a /\ a # Null /\ <<a, o, 0>> \in T
  BY <1>1, <1>2 DEF Took, Tiles
<1>6. \A k \in Rights : a + BlockSize[k] \in Addresses
  <2> SUFFICES ASSUME NEW k \in Rights PROVE a + BlockSize[k] \in Addresses
    OBVIOUS
  <2>1. BlockSize[k] \in Nat \ {0} /\ 2 * BlockSize[k] <= BlockSize[o] /\ BlockSize[o] \in Nat
    BY <1>1, Multiple
  <2>2. a + BlockSize[o] <= PoolEnd
    BY <1>5 DEF TilesPool, InPool
  <2> HIDE DEF a
  <2>3. a \in Nat /\ PoolEnd \in Nat /\ Space \in Nat /\ PoolEnd <= Space
    BY <1>1, <1>2
  <2>4. a + BlockSize[k] \in 0..(Space - 1)
    BY <2>1, <2>2, <2>3
  <2> QED
    BY <2>4 DEF Addresses
<1>7. /\ G = [k \in Orders |-> IF k < t \/ k > o THEN F[k] ELSE IF k = o THEN Null ELSE a + BlockSize[k]]
      /\ \A k \in Orders : t <= k /\ k < o => F[k] = Null
  BY DEF Took
<1>8. /\ \A k \in Orders : k < t \/ k > o => G[k] = F[k]
      /\ G[o] = Null
      /\ \A k \in Rights : G[k] = a + BlockSize[k] /\ G[k] # Null /\ F[k] = Null
      /\ \A k \in Orders : k < t \/ k > o \/ k = o \/ k \in Rights
  <2>1. \A k \in Orders : k \in Nat
    BY <1>1
  <2> QED
    BY <1>1, <1>3, <1>6, <1>7, <2>1
<1>9. G \in [Orders -> Pointers]
  <2>1. \A k \in Orders : G[k] \in Pointers
    BY <1>6, <1>8 DEF Pointers
  <2> QED
    BY <1>7, <2>1
<1>10. Tiles(G, l, i) = Split(T, a, o, t, i)
  <2> HIDE DEF t
  <2>1. ASSUME NEW x \in Tiles(G, l, i) PROVE x \in Split(T, a, o, t, i)
    <3>1. CASE \E k \in Orders : G[k] # Null /\ x = <<G[k], k, 0>>
      <4>1. PICK k \in Orders : G[k] # Null /\ x = <<G[k], k, 0>>
        BY <3>1
      <4>2. CASE k \in Rights
        BY <1>8, <4>1, <4>2 DEF Split
      <4>3. CASE k # o /\ G[k] = F[k]
        <5>1. x \in T /\ x # <<a, o, 0>>
          BY <4>1, <4>3 DEF Tiles
        <5> QED
          BY <5>1 DEF Split
      <4> QED
        BY <1>1, <1>3, <1>8, <4>1, <4>2, <4>3
    <3>2. CASE \E j \in 1..i : x = <<l[j].at, OrderOf(l[j]), j>>
      <4>1. PICK j \in 1..i : x = <<l[j].at, OrderOf(l[j]), j>>
        BY <3>2
      <4>2. CASE j = i
        BY <4>1, <4>2 DEF Split, t
      <4>3. CASE j # i
        <5>1. x \in T /\ x # <<a, o, 0>>
          BY <4>1, <4>3, <1>2 DEF Tiles
        <5> QED
          BY <5>1 DEF Split
      <4> QED
        BY <4>2, <4>3
    <3> QED
      BY <2>1, <3>1, <3>2 DEF Tiles
  <2>2. ASSUME NEW x \in Split(T, a, o, t, i) PROVE x \in Tiles(G, l, i)
    <3>1. CASE x = <<a, t, i>>
      <4>1. i \in 1..i
        BY <1>2
      <4> QED
        BY <3>1, <4>1 DEF Tiles, t
    <3>2. CASE \E k \in Rights : x = <<a + BlockSize[k], k, 0>>
      BY <1>8, <3>2 DEF Tiles
    <3>3. CASE x \in T /\ x # <<a, o, 0>>
      <4>1. CASE \E k \in Orders : F[k] # Null /\ x = <<F[k], k, 0>>
        <5>1. PICK k \in Orders : F[k] # Null /\ x = <<F[k], k, 0>>
          BY <4>1
        <5>2. k # o /\ k \notin Rights
          BY <1>5, <1>8, <3>3, <5>1
        <5>3. G[k] = F[k]
          BY <1>8, <5>2
        <5> QED
          BY <5>1, <5>3 DEF Tiles
      <4>2. CASE \E j \in 1..(i - 1) : x = <<l[j].at, OrderOf(l[j]), j>>
        BY <1>2, <4>2 DEF Tiles
      <4> QED
        BY <3>3, <4>1, <4>2 DEF Tiles
    <3> QED
      BY <2>2, <3>1, <3>2, <3>3 DEF Split
  <2> QED
    BY <2>1, <2>2
<1>11. TilesPool(Split(T, a, o, t, i))
  <2> HIDE DEF T, t
  <2>1. a \in Nat /\ i \in Nat /\ o \in Orders
    BY <1>1, <1>2
  <2>2. TilesPool(T)
    BY DEF T
  <2> QED
    BY <1>3, <1>4, <1>5, <2>1, <2>2, SplitTiles
<1> QED
  BY <1>5, <1>9, <1>10, <1>11

\* In the beginning the pool is one block.
LEMMA WholePool ==
  ASSUME NEW l, NEW F, F = [k \in Orders |-> IF k = PoolOrder THEN PoolBase ELSE Null], NEW from
  PROVE  F \in [Orders -> Pointers] /\ TilesPool(Tiles(F, l, 0)) /\ Halves(F, l, 0, from)
<1>1. /\ MaxOrder \in Nat /\ PoolBase \in Nat /\ Space \in Nat /\ PoolOrder \in Orders
      /\ BlockSize[PoolOrder] \in Nat \ {0} /\ PoolEnd = PoolBase + BlockSize[PoolOrder] /\ PoolEnd <= Space
      /\ Null \notin Addresses
  BY BuddyAssumption, Sizes DEF PoolEnd, Orders, Addresses
<1>2. PoolBase \in Addresses /\ PoolBase # Null
  BY <1>1 DEF Addresses
<1>3. F \in [Orders -> Pointers]
  BY <1>2 DEF Pointers
<1>4. Tiles(F, l, 0) = {<<PoolBase, PoolOrder, 0>>}
  BY <1>1, <1>2 DEF Tiles
<1>5. Aligned(PoolBase, PoolOrder)
  <2>1. PoolBase = PoolBase + 0 * BlockSize[PoolOrder] /\ 0 \in Nat
    BY <1>1
  <2> QED
    BY <2>1 DEF Aligned
<1>6. TilesPool({<<PoolBase, PoolOrder, 0>>})
  BY <1>1, <1>5 DEF TilesPool, InPool, Apart, Cover
<1> QED
  BY <1>3, <1>4, <1>6 DEF Halves

\* The right halves of the block taken last join those there are.
LEMMA TookHalves ==
  ASSUME NEW l, NEW i \in Nat \ {0}, NEW F, NEW G, NEW from,
         Took(F, l[i], from[i], G), Halves(F, l, i - 1, from), OrderOf(l[i]) \in 0..MaxOrder, from[i] \in Orders
  PROVE  Halves(G, l, i, from)
<1>1. \A k \in Orders : k \in Nat
  BY BuddyAssumption DEF Orders
<1> SUFFICES ASSUME NEW k \in Orders, G[k] # Null
             PROVE  (k = PoolOrder /\ G[k] = PoolBase) \/ \E j \in 1..i : RightHalf(G[k], k, l, j, from)
  BY DEF Halves
<1>2. CASE k < OrderOf(l[i]) \/ k > from[i]
  <2>1. G[k] = F[k]
    BY <1>2 DEF Took
  <2> QED
    BY <2>1 DEF Halves
<1>3. CASE OrderOf(l[i]) <= k /\ k < from[i]
  <2>1. G[k] = l[i].at + BlockSize[k]
    BY <1>1, <1>3 DEF Took
  <2>2. RightHalf(G[k], k, l, i, from) /\ i \in 1..i
    BY <1>3, <2>1 DEF RightHalf
  <2> QED
    BY <2>2
<1>4. k # from[i]
  BY <1>1 DEF Took
<1> QED
  BY <1>1, <1>2, <1>3, <1>4

\* At each time the blocks tiled the pool.
LEMMA HistoryTiles ==
  ASSUME NEW l \in Seq(Held), NEW f, NEW from, History(l, f, from)
  PROVE  Tiling(l, f, from)
<1> DEFINE S == {i \in 0..Len(l) : TilesPool(Tiles(f[i], l, i)) /\ Halves(f[i], l, i, from)}
<1>1. Len(l) \in Nat
  OBVIOUS
<1>2. 0 \in S
  BY <1>1, WholePool DEF History
<1>3. ASSUME NEW i \in 1..Len(l), i - 1 \in S PROVE i \in S
  <2>1. /\ f[i - 1] \in [Orders -> Pointers] /\ from[i] \in Orders /\ Took(f[i - 1], l[i], from[i], f[i])
        /\ i \in Nat \ {0}
    BY <1>1 DEF History
  <2>2. TilesPool(Tiles(f[i - 1], l, i - 1)) /\ Halves(f[i - 1], l, i - 1, from)
    BY <1>3
  <2>3. TilesPool(Tiles(f[i], l, i))
    BY <2>1, <2>2, TookSplits
  <2>4. OrderOf(l[i]) \in 0..MaxOrder
    BY HeldIs
  <2>5. Halves(f[i], l, i, from)
    BY <2>1, <2>2, <2>4, TookHalves
  <2> QED
    BY <2>3, <2>5
<1>4. \A i \in 0..Len(l) : i \in S
  <2> HIDE DEF S
  <2> QED
    BY <1>1, <1>2, <1>3, Induction
<1> QED
  BY <1>4 DEF Tiling

-----------------------------------------------------------------------------
(* The free lists and merging *)

\* A list whose head has no next block has at most that block.
LEMMA ListedIs ==
  ASSUME NEW h, NEW o \in Orders, h.free_lists[o] # Null => h.header[h.free_lists[o]].next = Null
  PROVE  Listed(h, o) = IF h.free_lists[o] = Null THEN <<>> ELSE <<h.free_lists[o]>>
<1> DEFINE L == IF h.free_lists[o] = Null THEN <<>> ELSE <<h.free_lists[o]>>
           more(c, k) == LET n == IF c = <<>> THEN Null ELSE h.header[c[Len(c)]].next
                         IN IF n = Null \/ Len(c) < k THEN c ELSE Append(c, n)
           turn(g, k) == IF k = 0 THEN L ELSE more(g[k - 1], k)
           chain == CHOOSE g : g = [k \in 0..Space |-> turn(g, k)]
           w == [k \in 0..Space |-> L]
<1>1. Space \in Nat
  BY BuddyAssumption
<1>2. Listed(h, o) = chain[Space]
  BY DEF Listed
<1>3. \A k \in 1..Space : more(L, k) = L
  <2>1. CASE h.free_lists[o] = Null
    BY <2>1
  <2>2. CASE h.free_lists[o] # Null
    <3>1. L = <<h.free_lists[o]>> /\ L # <<>> /\ Len(L) = 1 /\ L[1] = h.free_lists[o]
      BY <2>2
    <3> HIDE DEF L
    <3> QED
      BY <2>2, <3>1
  <2> QED
    BY <2>1, <2>2
<1> HIDE DEF L, more
<1>4. w = [k \in 0..Space |-> turn(w, k)]
  <2>1. \A k \in 0..Space : w[k] = turn(w, k)
    BY <1>1, <1>3
  <2> QED
    BY <2>1
<1>5. chain = [k \in 0..Space |-> turn(chain, k)]
  <2> HIDE DEF turn, w
  <2> QED
    BY <1>4
<1>6. chain[0] = L /\ \A k \in 1..Space : chain[k] = more(chain[k - 1], k)
  <2> HIDE DEF chain
  <2> QED
    BY <1>1, <1>5
<1> HIDE DEF chain
<1> DEFINE S == {k \in 0..Space : chain[k] = L}
<1>7. 0 \in S
  BY <1>1, <1>6
<1>8. ASSUME NEW k \in 1..Space, k - 1 \in S PROVE k \in S
  BY <1>3, <1>6, <1>8
<1>9. \A k \in 0..Space : k \in S
  <2> HIDE DEF S
  <2> QED
    BY <1>1, <1>7, <1>8, Induction
<1> QED
  BY <1>1, <1>2, <1>9 DEF L

\* Taking the only block of a list off it
LEMMA UnlinkIs ==
  ASSUME NEW h \in Heaps, NEW o \in Orders, h.free_lists[o] # Null,
         h.header[h.free_lists[o]].next = Null
  PROVE  Unlink(h, h.free_lists[o], o) = [h EXCEPT !.free_lists[o] = Null]
<1> PICK b : b = h.free_lists[o]
  OBVIOUS
<1>1. Listed(h, o) = <<b>>
  BY ListedIs
<1>2. {i \in DOMAIN <<b>> : <<b>>[i] = b} = {1}
  OBVIOUS
<1> QED
  BY <1>1, <1>2 DEF Unlink

\* Where merge_blocks has come when the block b of order t has grown to order k
Grown(h, b, t, k) ==
    [header |-> [h.header EXCEPT ![b] =
        [order |-> k, is_free |-> h.header[b].is_free, next |-> h.header[b].next,
         buddy |-> IF k = t THEN h.header[b].buddy ELSE NewBuddy(h, b, k)]],
     free_lists |-> [i \in Orders |-> IF t <= i /\ i < k THEN Null ELSE h.free_lists[i]],
     start |-> h.start, size |-> h.size]

\* The block b of order t in heap h is followed by free blocks of orders t to o - 1,
\* each the only one on its list.
Followed(h, b, t, o) ==
    /\ h.header[b].order = t
    /\ t < o => h.header[b].buddy = b + BlockSize[t]
    /\ b + BlockSize[o] <= PoolEnd
    /\ \A k \in Orders : t <= k /\ k < o =>
        LET right == b + BlockSize[k] IN
        /\ h.free_lists[k] = right
        /\ h.header[right].order = k /\ h.header[right].is_free /\ h.header[right].next = Null

LEMMA HeapIs ==
  ASSUME NEW h \in Heaps
  PROVE  /\ h.header \in [Addresses -> Header] /\ h.free_lists \in [Orders -> Pointers]
         /\ h.start = PoolBase /\ h.size = BlockSize[PoolOrder] /\ h.start + h.size = PoolEnd
         /\ h = [header |-> h.header, free_lists |-> h.free_lists, start |-> h.start, size |-> h.size]
BY DEF Heaps, PoolEnd

LEMMA GrownIs ==
  ASSUME NEW h \in Heaps, NEW b \in Addresses, NEW t \in Orders, NEW k \in Orders
  PROVE  /\ Grown(h, b, t, k) \in Heaps
         /\ Grown(h, b, t, k).header[b] =
                [order |-> k, is_free |-> h.header[b].is_free, next |-> h.header[b].next,
                 buddy |-> IF k = t THEN h.header[b].buddy ELSE NewBuddy(h, b, k)]
         /\ \A a \in Addresses : a # b => Grown(h, b, t, k).header[a] = h.header[a]
         /\ \A i \in Orders : Grown(h, b, t, k).free_lists[i] = IF t <= i /\ i < k THEN Null ELSE h.free_lists[i]
<1> DEFINE new == [order |-> k, is_free |-> h.header[b].is_free, next |-> h.header[b].next,
                   buddy |-> IF k = t THEN h.header[b].buddy ELSE NewBuddy(h, b, k)]
<1>1. /\ h.header \in [Addresses -> Header] /\ h.free_lists \in [Orders -> Pointers]
      /\ h.start = PoolBase /\ h.size = BlockSize[PoolOrder] /\ h.start + h.size = PoolEnd
  BY HeapIs
<1>2. PoolEnd \in Nat /\ PoolEnd <= Space /\ Orders \subseteq 0..MaxOrder /\ Addresses \subseteq Nat
  BY BuddyAssumption, Sizes DEF PoolEnd, Orders, Addresses
<1>3. NewBuddy(h, b, k) \in Pointers
  <2>1. b + BlockSize[k] \in Nat
    BY <1>2, Sizes
  <2>2. b + BlockSize[k] < PoolEnd => b + BlockSize[k] \in 0..(Space - 1)
    BY <1>2, <2>1, BuddyAssumption
  <2>3. NewBuddy(h, b, k) = IF b + BlockSize[k] < PoolEnd THEN b + BlockSize[k] ELSE Null
    BY <1>1 DEF NewBuddy
  <2> QED
    BY <2>2, <2>3 DEF Pointers, Addresses
<1>4. h.header[b].is_free \in BOOLEAN /\ h.header[b].next \in Pointers /\ h.header[b].buddy \in Pointers
  BY <1>1 DEF Header
<1>5. new \in Header
  BY <1>2, <1>3, <1>4 DEF Header
<1>6. [h.header EXCEPT ![b] = new] \in [Addresses -> Header]
  BY <1>1, <1>5
<1>7. [i \in Orders |-> IF t <= i /\ i < k THEN Null ELSE h.free_lists[i]] \in [Orders -> Pointers]
  BY <1>1 DEF Pointers
<1>8. Grown(h, b, t, k) \in Heaps
  BY <1>1, <1>6, <1>7 DEF Grown, Heaps
<1> QED
  BY <1>1, <1>8 DEF Grown

\* Setting two fields of a header
Resized(r, p, q) == [r EXCEPT !.order = p, !.buddy = q]

LEMMA ResizedIs ==
  ASSUME NEW w, NEW x, NEW y, NEW z, NEW p, NEW q, NEW r,
         r = [order |-> w, is_free |-> x, next |-> y, buddy |-> z]
  PROVE  Resized(r, p, q) = [order |-> p, is_free |-> x, next |-> y, buddy |-> q]
<1>1. PICK u : u = r
  OBVIOUS
<1>2. PICK s : s = [u EXCEPT !.order = p]
  OBVIOUS
<1>3. s = [order |-> p, is_free |-> x, next |-> y, buddy |-> z]
  BY <1>1, <1>2
<1>4. [s EXCEPT !.buddy = q] = [order |-> p, is_free |-> x, next |-> y, buddy |-> q]
  BY <1>3
<1>5. [u EXCEPT !.order = p, !.buddy = q] = [[u EXCEPT !.order = p] EXCEPT !.buddy = q]
  OBVIOUS
<1>6. Resized(u, p, q) = [s EXCEPT !.buddy = q]
  BY <1>2, <1>5 DEF Resized
<1> QED
  BY <1>1, <1>4, <1>6

\* One turn of the loop joins the block with the free one behind it.
LEMMA MergeTurn ==
  ASSUME NEW h \in Heaps, NEW b \in Addresses, NEW t \in Orders, NEW o \in Orders, Followed(h, b, t, o),
         NEW k \in Orders, t <= k, k < o
  PROVE  MergeOnce([heap |-> Grown(h, b, t, k), block |-> b, go |-> TRUE])
            = [heap |-> Grown(h, b, t, k + 1), block |-> b, go |-> TRUE]
<1> DEFINE right == b + BlockSize[k]
<1>1. /\ MaxOrder \in Nat /\ k \in Nat /\ o \in Nat /\ o <= MaxOrder - 1 /\ t \in Nat /\ k + 1 \in Orders
      /\ Addresses \subseteq Nat /\ PoolEnd \in Nat /\ PoolEnd <= Space /\ Space \in Nat /\ Null \notin Addresses
      /\ k \in 0..MaxOrder /\ o \in 0..MaxOrder
  BY Bounds
<1>2. BlockSize[k] \in Nat \ {0} /\ 2 * BlockSize[k] <= BlockSize[o] /\ BlockSize[o] \in Nat
  BY <1>1, Multiple, Sizes
<1>3. right \in Nat /\ right < PoolEnd /\ b < right /\ b \in Nat
  <2>1. b + BlockSize[o] <= PoolEnd /\ b \in Nat
    BY <1>1 DEF Followed
  <2> QED
    BY <1>1, <1>2, <2>1
<1>4. right \in Addresses /\ right # Null /\ right # b
  BY <1>1, <1>3, Bounds
<1>5. /\ h.free_lists[k] = right
      /\ h.header[right].order = k /\ h.header[right].is_free /\ h.header[right].next = Null
  BY DEF Followed
<1>g. PICK g : g = Grown(h, b, t, k)
  OBVIOUS
<1>7. /\ g \in Heaps
      /\ g.header[b] = [order |-> k, is_free |-> h.header[b].is_free, next |-> h.header[b].next,
                        buddy |-> IF k = t THEN h.header[b].buddy ELSE NewBuddy(h, b, k)]
      /\ \A a \in Addresses : a # b => g.header[a] = h.header[a]
      /\ \A i \in Orders : g.free_lists[i] = IF t <= i /\ i < k THEN Null ELSE h.free_lists[i]
  <2> HIDE DEF right
  <2> QED
    BY <1>g, GrownIs
<1>14. g.free_lists[k] = right
  BY <1>1, <1>5, <1>7
<1>6. HeaderAt(g, right) = h.header[right]
  BY <1>4, <1>7 DEF HeaderAt
<1>8. g.header[b].buddy = right
  <2>1. CASE k = t
    BY <1>7, <2>1 DEF Followed
  <2>2. CASE k # t
    BY <1>3, <1>7, <2>2, HeapIs DEF NewBuddy
  <2> QED
    BY <2>1, <2>2
<1>9. g.header[b].order = k
  BY <1>7
<1>10. CanMerge(g, b)
  BY <1>1, <1>4, <1>5, <1>6, <1>8, <1>9, <1>g DEF CanMerge
<1> DEFINE removed == [g EXCEPT !.free_lists[k] = Null]
<1>11. Unlink(g, right, g.header[right].order) = removed
  <2>1. g.header[right].order = k /\ g.header[right].next = Null
    BY <1>4, <1>5, <1>7
  <2> QED
    BY <1>4, <1>7, <1>14, <2>1, UnlinkIs
<1>12. MergeOnce([heap |-> g, block |-> b, go |-> TRUE])
         = [heap |-> SetHeader(removed, b,
                [removed.header[b] EXCEPT !.order = k + 1, !.buddy = NewBuddy(g, b, k + 1)]),
            block |-> b, go |-> TRUE]
  <2> HIDE DEF removed
  <2>1. (IF g.header[b].buddy < b THEN g.header[b].buddy ELSE b) = b
    BY <1>3, <1>8
  <2>2. (IF g.header[b].buddy < b THEN b ELSE g.header[b].buddy) = right
    BY <1>3, <1>8
  <2>3. right = b + BlockSize[k]
    OBVIOUS
  <2> HIDE DEF right
  <2> QED
    BY <1>9, <1>10, <1>11, <2>1, <2>2, <2>3 DEF MergeOnce
<1> DEFINE last == SetHeader(removed, b, [removed.header[b] EXCEPT !.order = k + 1, !.buddy = NewBuddy(g, b, k + 1)])
<1>13. last = Grown(h, b, t, k + 1)
  <2>1. /\ g.header \in [Addresses -> Header] /\ g.free_lists \in [Orders -> Pointers]
        /\ g = [header |-> g.header, free_lists |-> g.free_lists, start |-> g.start, size |-> g.size]
        /\ g.start = h.start /\ g.size = h.size
    BY <1>7, HeapIs
  <2>2. removed = [header |-> g.header, free_lists |-> [g.free_lists EXCEPT ![k] = Null], start |-> g.start, size |-> g.size]
    BY <2>1
  <2>3. NewBuddy(g, b, k + 1) = NewBuddy(h, b, k + 1)
    BY <2>1 DEF NewBuddy
  <2>4. [removed.header[b] EXCEPT !.order = k + 1, !.buddy = NewBuddy(g, b, k + 1)]
          = [order |-> k + 1, is_free |-> h.header[b].is_free, next |-> h.header[b].next,
             buddy |-> NewBuddy(h, b, k + 1)]
    <3>1. removed.header[b] = g.header[b]
      BY <2>2
    <3> HIDE DEF removed
    <3>2. PICK z : removed.header[b] = [order |-> k, is_free |-> h.header[b].is_free, next |-> h.header[b].next, buddy |-> z]
      BY <1>7, <3>1
    <3>3. [removed.header[b] EXCEPT !.order = k + 1, !.buddy = NewBuddy(g, b, k + 1)]
            = Resized(removed.header[b], k + 1, NewBuddy(g, b, k + 1))
      BY DEF Resized
    <3> PICK r : r = removed.header[b]
      OBVIOUS
    <3>4. Resized(r, k + 1, NewBuddy(g, b, k + 1))
            = [order |-> k + 1, is_free |-> h.header[b].is_free, next |-> h.header[b].next, buddy |-> NewBuddy(g, b, k + 1)]
      BY <3>2, ResizedIs
    <3> QED
      BY <2>3, <3>3, <3>4
  <2> PICK new : new = [order |-> k + 1, is_free |-> h.header[b].is_free, next |-> h.header[b].next,
                        buddy |-> NewBuddy(h, b, k + 1)]
    OBVIOUS
  <2>5. last = [header |-> [g.header EXCEPT ![b] = new], free_lists |-> [g.free_lists EXCEPT ![k] = Null],
                start |-> g.start, size |-> g.size]
    <3> HIDE DEF removed
    <3> QED
      BY <2>2, <2>4 DEF SetHeader
  <2>6. [g.header EXCEPT ![b] = new] = [h.header EXCEPT ![b] = new]
    <3>1. h.header \in [Addresses -> Header]
      BY HeapIs
    <3> QED
      BY <1>7, <2>1, <3>1
  <2>7. [g.free_lists EXCEPT ![k] = Null] = [i \in Orders |-> IF t <= i /\ i < k + 1 THEN Null ELSE h.free_lists[i]]
    <3>2. \A i \in Orders : i \in Nat
      BY <1>1 DEF Orders
    <3> QED
      BY <1>1, <1>7, <2>1, <3>2
  <2>8. k + 1 # t
    BY <1>1
  <2> HIDE DEF last
  <2> QED
    BY <2>1, <2>5, <2>6, <2>7, <2>8 DEF Grown
<1> QED
  BY <1>12, <1>13, <1>g

\* A buddy that a free block b of order o cannot be merged with
Unmergeable(h, b, o, buddy) ==
    buddy = Null \/ (buddy # b /\ ~(HeaderAt(h, buddy).is_free /\ HeaderAt(h, buddy).order = o))

\* The buddy that the block has when it has grown from order t to order o
LastBuddy(h, b, t, o) == IF o = t THEN h.header[b].buddy ELSE NewBuddy(h, b, o)

\* merge_blocks joins a block with all that follow, and lists the result.
LEMMA MergeIs ==
  ASSUME NEW h \in Heaps, NEW b \in Addresses, NEW t \in Orders, NEW o \in Orders, t <= o, Followed(h, b, t, o),
         Unmergeable(h, b, o, LastBuddy(h, b, t, o))
  PROVE  merge_blocks(h, b) = Push(Grown(h, b, t, o), b)
<1> DEFINE first == [heap |-> h, block |-> b, go |-> TRUE]
           turn(g, k) == IF k = 0 THEN first ELSE MergeOnce(g[k - 1])
           made == CHOOSE g : g = [k \in 0..MaxOrder |-> turn(g, k)]
           At(k) == IF k <= o - t THEN [heap |-> Grown(h, b, t, t + k), block |-> b, go |-> TRUE]
                    ELSE [heap |-> Grown(h, b, t, o), block |-> b, go |-> FALSE]
           w == [k \in 0..MaxOrder |-> At(k)]
<1>1. MaxOrder \in Nat /\ t \in Nat /\ o \in Nat /\ o < MaxOrder /\ Orders = 0..(MaxOrder - 1)
  BY BuddyAssumption DEF Orders
<1>2. merge_blocks(h, b) = Push(made[MaxOrder].heap, made[MaxOrder].block)
  BY DEF merge_blocks
<1>3. At(0) = first
  <2>1. Grown(h, b, t, t) = h
    <3>1. /\ h.header \in [Addresses -> Header] /\ h.free_lists \in [Orders -> Pointers]
          /\ h = [header |-> h.header, free_lists |-> h.free_lists, start |-> h.start, size |-> h.size]
      BY HeapIs
    <3>2. h.header[b] \in Header /\ h.header[b].order = t
      BY <3>1 DEF Followed
    <3>3. [order |-> t, is_free |-> h.header[b].is_free, next |-> h.header[b].next, buddy |-> h.header[b].buddy]
            = h.header[b]
      BY <3>2 DEF Header
    <3>4. [h.header EXCEPT ![b] = h.header[b]] = h.header
      BY <3>1
    <3>5. [i \in Orders |-> IF t <= i /\ i < t THEN Null ELSE h.free_lists[i]] = h.free_lists
      <4>1. \A i \in Orders : ~(t <= i /\ i < t)
        BY <1>1
      <4> QED
        BY <3>1, <4>1
    <3> QED
      BY <3>1, <3>3, <3>4, <3>5 DEF Grown
  <2>2. 0 <= o - t /\ t + 0 = t
    BY <1>1
  <2> QED
    BY <2>1, <2>2
<1>4. ASSUME NEW k \in 1..MaxOrder PROVE At(k) = MergeOnce(At(k - 1))
  <2>1. CASE k <= o - t
    <3>1. k - 1 <= o - t /\ t + (k - 1) \in Orders /\ t + (k - 1) < o /\ t <= t + (k - 1)
          /\ (t + (k - 1)) + 1 = t + k
      BY <1>1, <2>1
    <3>2. At(k - 1) = [heap |-> Grown(h, b, t, t + (k - 1)), block |-> b, go |-> TRUE]
      BY <3>1
    <3>3. At(k) = [heap |-> Grown(h, b, t, t + k), block |-> b, go |-> TRUE]
      BY <2>1
    <3> HIDE DEF At
    <3>4. MergeOnce([heap |-> Grown(h, b, t, t + (k - 1)), block |-> b, go |-> TRUE])
            = [heap |-> Grown(h, b, t, (t + (k - 1)) + 1), block |-> b, go |-> TRUE]
      BY <3>1, MergeTurn
    <3> QED
      BY <3>1, <3>2, <3>3, <3>4
  <2>2. CASE k = (o - t) + 1
    <3>1. At(k - 1) = [heap |-> Grown(h, b, t, o), block |-> b, go |-> TRUE]
      BY <1>1, <2>2
    <3>2. At(k) = [heap |-> Grown(h, b, t, o), block |-> b, go |-> FALSE]
      BY <1>1, <2>2
    <3>g. PICK g : g = Grown(h, b, t, o)
      OBVIOUS
    <3>3. /\ g \in Heaps /\ g.header[b].order = o /\ g.header[b].buddy = LastBuddy(h, b, t, o)
          /\ \A a \in Addresses : a # b => g.header[a] = h.header[a]
      <4>1. /\ g \in Heaps
            /\ g.header[b] = [order |-> o, is_free |-> h.header[b].is_free, next |-> h.header[b].next,
                              buddy |-> IF o = t THEN h.header[b].buddy ELSE NewBuddy(h, b, o)]
            /\ \A a \in Addresses : a # b => g.header[a] = h.header[a]
        BY <3>g, GrownIs
      <4> QED
        BY <4>1 DEF LastBuddy
    <3>4. ~CanMerge(g, b)
      <4>1. CASE LastBuddy(h, b, t, o) = Null
        BY <3>3, <4>1 DEF CanMerge
      <4>2. CASE LastBuddy(h, b, t, o) # Null
        <5>1. HeaderAt(g, LastBuddy(h, b, t, o)) = HeaderAt(h, LastBuddy(h, b, t, o))
          BY <3>3, <4>2 DEF HeaderAt, Unmergeable
        <5> QED
          BY <3>3, <4>2, <5>1 DEF CanMerge, Unmergeable
      <4> QED
        BY <4>1, <4>2
    <3> HIDE DEF At
    <3>5. MergeOnce([heap |-> g, block |-> b, go |-> TRUE]) = [heap |-> g, block |-> b, go |-> FALSE]
      BY <3>4 DEF MergeOnce
    <3> QED
      BY <3>1, <3>2, <3>5, <3>g
  <2>3. CASE (o - t) + 1 < k
    <3>1. At(k - 1) = [heap |-> Grown(h, b, t, o), block |-> b, go |-> FALSE]
      BY <1>1, <2>3
    <3>2. At(k) = [heap |-> Grown(h, b, t, o), block |-> b, go |-> FALSE]
      BY <1>1, <2>3
    <3> HIDE DEF At
    <3>g. PICK g : g = Grown(h, b, t, o)
      OBVIOUS
    <3>3. MergeOnce([heap |-> g, block |-> b, go |-> FALSE]) = [heap |-> g, block |-> b, go |-> FALSE]
      BY DEF MergeOnce
    <3> QED
      BY <3>1, <3>2, <3>3, <3>g
  <2> QED
    BY <1>1, <2>1, <2>2, <2>3
<1> HIDE DEF At
<1>5. w = [k \in 0..MaxOrder |-> turn(w, k)]
  <2>1. \A k \in 0..MaxOrder : w[k] = turn(w, k)
    BY <1>1, <1>3, <1>4
  <2> QED
    BY <2>1
<1>6. made = [k \in 0..MaxOrder |-> turn(made, k)]
  <2> HIDE DEF turn, w
  <2> QED
    BY <1>5
<1>7. made[0] = first /\ \A k \in 1..MaxOrder : made[k] = MergeOnce(made[k - 1])
  <2> HIDE DEF made, first
  <2>1. 0 \in 0..MaxOrder /\ \A k \in 1..MaxOrder : k \in 0..MaxOrder /\ k # 0
    BY <1>1
  <2> QED
    BY <1>6, <2>1
<1> HIDE DEF made, first
<1> DEFINE S == {k \in 0..MaxOrder : made[k] = At(k)}
<1>8. 0 \in S
  BY <1>1, <1>3, <1>7
<1>9. ASSUME NEW k \in 1..MaxOrder, k - 1 \in S PROVE k \in S
  BY <1>4, <1>7, <1>9
<1>10. \A k \in 0..MaxOrder : k \in S
  <2> HIDE DEF S
  <2> QED
    BY <1>1, <1>8, <1>9, Induction
<1>11. made[MaxOrder] = At(MaxOrder)
  BY <1>1, <1>10
<1>12. At(MaxOrder).heap = Grown(h, b, t, o) /\ At(MaxOrder).block = b
  <2>1. MaxOrder <= o - t => t + MaxOrder = o
    BY <1>1
  <2> QED
    BY <2>1 DEF At
<1> QED
  BY <1>2, <1>11, <1>12

-----------------------------------------------------------------------------
(* Splitting *)

\* Heap g is heap h with its block b of order o split down to order k.
SplitTo(h, b, o, k, g) ==
    /\ g \in Heaps
    /\ g.header[b] = [order |-> k, is_free |-> h.header[b].is_free, next |-> h.header[b].next,
                      buddy |-> IF k = o THEN h.header[b].buddy ELSE b + BlockSize[k]]
    /\ \A i \in Orders : k <= i /\ i < o =>
        g.header[b + BlockSize[i]] = [order |-> i, is_free |-> TRUE, next |-> Null, buddy |-> b]
    /\ \A a \in Addresses : a < b \/ b + BlockSize[o] <= a => g.header[a] = h.header[a]
    /\ \A i \in Orders : g.free_lists[i] = IF k <= i /\ i < o THEN b + BlockSize[i] ELSE h.free_lists[i]

\* A turn of the loop, with the fields that it sets set one after the other
Halved(g, b, k, right) ==
    [header |-> [[g.header EXCEPT ![b] = Resized(g.header[b], k - 1, right)] EXCEPT ![right] =
                    [order |-> k - 1, is_free |-> TRUE, next |-> g.free_lists[k - 1], buddy |-> b]],
     free_lists |-> [g.free_lists EXCEPT ![k - 1] = right],
     start |-> g.start, size |-> g.size]

LEMMA SplitOnceIs ==
  ASSUME NEW g \in Heaps, NEW b \in Addresses, NEW t \in Orders, NEW k \in Orders, k # 0,
         g.header[b].order = k, t < k, NEW right \in Addresses, right = b + BlockSize[k - 1],
         right # b, right + BlockSize[k - 1] <= PoolEnd
  PROVE  SplitOnce(g, b, t) = Halved(g, b, k, right)
<1>1. /\ g.header \in [Addresses -> Header] /\ g.free_lists \in [Orders -> Pointers]
      /\ g.start + g.size = PoolEnd
      /\ g = [header |-> g.header, free_lists |-> g.free_lists, start |-> g.start, size |-> g.size]
  BY HeapIs
<1>2. k \in Nat /\ t \in Nat /\ k - 1 \in Orders
  BY Bounds
<1> DEFINE new == [order |-> k - 1, is_free |-> TRUE, next |-> g.free_lists[k - 1], buddy |-> b]
<1>3. SplitOnce(g, b, t)
        = [g EXCEPT !.header[b].order = k - 1, !.header[b].buddy = right,
                    !.header[right] = new, !.free_lists[k - 1] = right]
  <2>1. ~(k <= t \/ right + BlockSize[k - 1] > g.start + g.size)
    <3>1. right + BlockSize[k - 1] \in Nat /\ PoolEnd \in Nat
      BY SMTT(30), Bounds, <1>2
    <3> QED
      BY <1>1, <1>2, <3>1
  <2> QED
    BY <2>1 DEF SplitOnce
<1> PICK H : H = g.header
  OBVIOUS
<1> PICK F : F = g.free_lists
  OBVIOUS
<1> HIDE DEF new
<1>4. PICK g1 : g1 = [g EXCEPT !.header[b].order = k - 1]
  OBVIOUS
<1>5. PICK g2 : g2 = [g1 EXCEPT !.header[b].buddy = right]
  OBVIOUS
<1>6. PICK g3 : g3 = [g2 EXCEPT !.header[right] = new]
  OBVIOUS
<1>7. PICK g4 : g4 = [g3 EXCEPT !.free_lists[k - 1] = right]
  OBVIOUS
<1>8. SplitOnce(g, b, t) = g4
  <2>1. g3 = [g EXCEPT !.header[b].order = k - 1, !.header[b].buddy = right, !.header[right] = new]
    BY <1>4, <1>5, <1>6
  <2> QED
    BY <1>3, <1>7, <2>1
<1>9. g1 = [header |-> [H EXCEPT ![b] = [H[b] EXCEPT !.order = k - 1]], free_lists |-> F, start |-> g.start, size |-> g.size]
  BY <1>1, <1>4
<1>10. g2 = [header |-> [H EXCEPT ![b] = Resized(H[b], k - 1, right)], free_lists |-> F, start |-> g.start, size |-> g.size]
  <2>1. Resized(H[b], k - 1, right) = [[H[b] EXCEPT !.order = k - 1] EXCEPT !.buddy = right]
    BY DEF Resized
  <2> PICK x : x = [H[b] EXCEPT !.order = k - 1]
    OBVIOUS
  <2>2. g1.header[b] = x
    BY <1>1, <1>9
  <2>3. g2 = [header |-> [g1.header EXCEPT ![b] = [x EXCEPT !.buddy = right]], free_lists |-> F, start |-> g.start, size |-> g.size]
    BY <1>5, <1>9, <2>2
  <2> PICK y : y = [x EXCEPT !.buddy = right]
    OBVIOUS
  <2>4. [g1.header EXCEPT ![b] = y] = [H EXCEPT ![b] = y]
    BY <1>1, <1>9
  <2> QED
    BY <2>1, <2>3, <2>4
<1> PICK x : x = Resized(H[b], k - 1, right)
  OBVIOUS
<1>11. g3 = [header |-> [[H EXCEPT ![b] = x] EXCEPT ![right] = new], free_lists |-> F, start |-> g.start, size |-> g.size]
  BY <1>6, <1>10
<1>12. g4 = [header |-> [[H EXCEPT ![b] = x] EXCEPT ![right] = new], free_lists |-> [F EXCEPT ![k - 1] = right],
             start |-> g.start, size |-> g.size]
  BY <1>7, <1>11
<1> QED
  BY <1>8, <1>12 DEF new, Halved

\* Each turn splits the block once more.
LEMMA SplitTurn ==
  ASSUME NEW h \in Heaps, NEW b \in Addresses, NEW t \in Orders, NEW o \in Orders, b + BlockSize[o] <= PoolEnd,
         \A i \in Orders : t <= i /\ i < o => h.free_lists[i] = Null,
         NEW k \in Orders, t < k, k <= o, NEW g, SplitTo(h, b, o, k, g)
  PROVE  SplitTo(h, b, o, k - 1, SplitOnce(g, b, t))
<1> DEFINE right == b + BlockSize[k - 1]
           new == [order |-> k - 1, is_free |-> TRUE, next |-> g.free_lists[k - 1], buddy |-> b]
<1>1. /\ k \in Nat /\ t \in Nat /\ o \in Nat /\ k # 0 /\ k - 1 \in Orders /\ k - 1 \in 0..MaxOrder /\ k - 1 < o /\ o \in 0..MaxOrder
      /\ MaxOrder \in Nat /\ Space \in Nat /\ PoolEnd \in Nat /\ PoolEnd <= Space /\ b \in Nat
  BY SMTT(30), Bounds
<1>2. BlockSize[k - 1] \in Nat \ {0} /\ 2 * BlockSize[k - 1] <= BlockSize[o] /\ BlockSize[o] \in Nat
  <2>1. 2 * BlockSize[k - 1] <= BlockSize[o]
    BY <1>1, Multiple
  <2> QED
    BY <1>1, <2>1, Sizes
<1>3. right \in Nat /\ b < right /\ right + BlockSize[k - 1] <= b + BlockSize[o] /\ right + BlockSize[k - 1] <= PoolEnd
      /\ right < PoolEnd /\ right # b
  BY <1>1, <1>2
<1>4. right \in Addresses
  BY <1>1, <1>3, Bounds
<1>5. /\ g \in Heaps
      /\ g.header[b] = [order |-> k, is_free |-> h.header[b].is_free, next |-> h.header[b].next,
                        buddy |-> IF k = o THEN h.header[b].buddy ELSE b + BlockSize[k]]
      /\ \A a \in Addresses : a < b \/ b + BlockSize[o] <= a => g.header[a] = h.header[a]
      /\ \A i \in Orders : g.free_lists[i] = IF k <= i /\ i < o THEN b + BlockSize[i] ELSE h.free_lists[i]
  BY DEF SplitTo
<1>6. g.header[b].order = k
  BY <1>5
<1>s. PICK s : s = SplitOnce(g, b, t)
  OBVIOUS
<1>7. s = [header |-> [[g.header EXCEPT ![b] = Resized(g.header[b], k - 1, right)] EXCEPT ![right] = new],
           free_lists |-> [g.free_lists EXCEPT ![k - 1] = right], start |-> g.start, size |-> g.size]
  <2>1. right = b + BlockSize[k - 1]
    OBVIOUS
  <2> HIDE DEF right
  <2>2. /\ g \in Heaps /\ k # 0 /\ right \in Addresses /\ right # b
        /\ right + BlockSize[k - 1] <= PoolEnd /\ g.header[b].order = k
    BY <1>1, <1>3, <1>4, <1>5, <1>6
  <2>3. SplitOnce(g, b, t) = Halved(g, b, k, right)
    BY <2>1, <2>2, SplitOnceIs
  <2> QED
    BY <1>s, <2>3 DEF Halved
<1>8. /\ g.header \in [Addresses -> Header] /\ g.free_lists \in [Orders -> Pointers]
      /\ g.start = PoolBase /\ g.size = BlockSize[PoolOrder]
  BY <1>5, HeapIs
<1>9. g.free_lists[k - 1] = Null
  BY <1>1, <1>5
<1> DEFINE resized == [order |-> k - 1, is_free |-> h.header[b].is_free, next |-> h.header[b].next, buddy |-> right]
<1>10. Resized(g.header[b], k - 1, right) = resized
  <2> PICK z : z = IF k = o THEN h.header[b].buddy ELSE b + BlockSize[k]
    OBVIOUS
  <2> HIDE DEF right
  <2> QED
    BY <1>5, ResizedIs
<1>11. resized \in Header /\ new \in Header
  <2>1. h.header[b] \in Header
    BY HeapIs
  <2>2. h.header[b].is_free \in BOOLEAN /\ h.header[b].next \in Pointers
    BY <2>1 DEF Header
  <2>3. right \in Pointers /\ b \in Pointers /\ Null \in Pointers
    BY <1>4 DEF Pointers
  <2> HIDE DEF right
  <2> QED
    BY <1>1, <1>9, <2>2, <2>3 DEF Header
<1> HIDE DEF right, new, resized
<1>12. /\ s.header \in [Addresses -> Header]
       /\ s.header[b] = resized /\ s.header[right] = new
       /\ \A a \in Addresses : a # b /\ a # right => s.header[a] = g.header[a]
       /\ s.free_lists \in [Orders -> Pointers]
       /\ \A i \in Orders : s.free_lists[i] = IF i = k - 1 THEN right ELSE g.free_lists[i]
  <2>1. right \in Pointers
    BY <1>4 DEF Pointers
  <2>2. s.header = [[g.header EXCEPT ![b] = resized] EXCEPT ![right] = new]
    BY <1>7, <1>10
  <2>3. s.free_lists = [g.free_lists EXCEPT ![k - 1] = right]
    BY <1>7
  <2> QED
    BY <1>1, <1>3, <1>4, <1>8, <1>11, <2>1, <2>2, <2>3
<1>13. s \in Heaps
  <2>1. s = [header |-> s.header, free_lists |-> s.free_lists, start |-> PoolBase, size |-> BlockSize[PoolOrder]]
    BY <1>7, <1>8
  <2> QED
    BY <1>12, <2>1 DEF Heaps
<1>14. s.header[b] = [order |-> k - 1, is_free |-> h.header[b].is_free, next |-> h.header[b].next,
                      buddy |-> IF k - 1 = o THEN h.header[b].buddy ELSE b + BlockSize[k - 1]]
  BY <1>1, <1>12 DEF resized, right
<1>15. ASSUME NEW i \in Orders, k - 1 <= i, i < o
       PROVE  s.header[b + BlockSize[i]] = [order |-> i, is_free |-> TRUE, next |-> Null, buddy |-> b]
  <2>1. CASE i = k - 1
    BY <1>9, <1>12, <2>1 DEF new, right
  <2>2. CASE i # k - 1
    <3>1. i \in Nat /\ i \in 0..MaxOrder /\ k <= i /\ k - 1 < i
      BY <1>1, <1>15, <2>2, Bounds
    <3>2. 2 * BlockSize[k - 1] <= BlockSize[i] /\ BlockSize[i] \in Nat /\ 2 * BlockSize[i] <= BlockSize[o]
      <4>1. 2 * BlockSize[k - 1] <= BlockSize[i]
        BY <1>1, <3>1, Multiple
      <4>2. 2 * BlockSize[i] <= BlockSize[o]
        BY <1>1, <1>15, <3>1, Multiple
      <4> QED
        BY <3>1, <4>1, <4>2, Sizes
    <3>3. b + BlockSize[i] # right /\ b + BlockSize[i] # b /\ b + BlockSize[i] < PoolEnd /\ b + BlockSize[i] \in Nat
      BY <1>1, <1>2, <3>2 DEF right
    <3>4. b + BlockSize[i] \in Addresses
      BY <1>1, <3>3, Bounds
    <3>5. g.header[b + BlockSize[i]] = [order |-> i, is_free |-> TRUE, next |-> Null, buddy |-> b]
      BY <1>15, <3>1 DEF SplitTo
    <3> QED
      BY <1>12, <3>3, <3>4, <3>5
  <2> QED
    BY <2>1, <2>2
<1>16. ASSUME NEW a \in Addresses, a < b \/ b + BlockSize[o] <= a PROVE s.header[a] = h.header[a]
  <2>1. a \in Nat
    BY Bounds
  <2>2. a # b /\ a # right
    BY <1>1, <1>2, <1>3, <1>16, <2>1
  <2> QED
    BY <1>5, <1>12, <1>16, <2>2
<1>17. ASSUME NEW i \in Orders
       PROVE  s.free_lists[i] = IF k - 1 <= i /\ i < o THEN b + BlockSize[i] ELSE h.free_lists[i]
  <2>1. i \in Nat
    BY Bounds
  <2>2. CASE i = k - 1
    BY <1>1, <1>12, <2>2 DEF right
  <2>3. CASE i # k - 1
    BY <1>1, <1>5, <1>12, <2>1, <2>3
  <2> QED
    BY <2>2, <2>3
<1> QED
  BY <1>13, <1>14, <1>15, <1>16, <1>17, <1>s DEF SplitTo

\* split_block stops at the order it is given.
LEMMA SplitIs ==
  ASSUME NEW h \in Heaps, NEW b \in Addresses, NEW t \in Orders, NEW o \in Orders, t <= o, h.header[b].order = o,
         b + BlockSize[o] <= PoolEnd, \A i \in Orders : t <= i /\ i < o => h.free_lists[i] = Null
  PROVE  SplitTo(h, b, o, t, split_block(h, b, t))
<1> DEFINE M == {g \in Heaps : \E k \in Orders : t <= k /\ k <= o /\ SplitTo(h, b, o, k, g)}
           body == [i \in 1..MaxOrder |-> [g \in M |-> SplitOnce(g, b, t)]]
           turn(g, i) == IF i = 0 THEN h ELSE SplitOnce(g[i - 1], b, t)
           made == CHOOSE g : g = [i \in 0..MaxOrder |-> turn(g, i)]
<1>1. MaxOrder \in Nat /\ t \in Nat /\ o \in Nat /\ o < MaxOrder
  BY Bounds
<1>2. SplitTo(h, b, o, o, h)
  <2>1. h.header[b] \in Header
    BY HeapIs
  <2>2. h.header[b] = [order |-> o, is_free |-> h.header[b].is_free, next |-> h.header[b].next, buddy |-> h.header[b].buddy]
    BY <2>1 DEF Header
  <2>3. \A i \in Orders : ~(o <= i /\ i < o)
    BY Bounds
  <2> QED
    BY <2>2, <2>3 DEF SplitTo
<1>3. ASSUME NEW k \in Orders, t <= k, k <= o, NEW g, SplitTo(h, b, o, k, g)
      PROVE  \E j \in Orders : t <= j /\ j <= o /\ (j = k - 1 \/ j = t) /\ SplitTo(h, b, o, j, SplitOnce(g, b, t))
  <2>1. CASE k = t
    <3>1. g.header[b].order = t
      BY <1>3, <2>1 DEF SplitTo
    <3>2. SplitOnce(g, b, t) = g
      BY <1>1, <3>1 DEF SplitOnce
    <3> QED
      BY <1>1, <1>3, <2>1, <3>2
  <2>2. CASE t < k
    <3>1. SplitTo(h, b, o, k - 1, SplitOnce(g, b, t))
      BY <1>3, <2>2, SplitTurn
    <3>2. k - 1 \in Orders /\ t <= k - 1 /\ k - 1 <= o
      BY <1>1, <1>3, <2>2, Bounds
    <3> QED
      BY <3>1, <3>2
  <2> QED
    BY <1>1, <1>3, <2>1, <2>2, Bounds
<1>4. h \in M
  BY <1>1, <1>2
<1>5. \A g \in M : SplitOnce(g, b, t) \in M
  <2> SUFFICES ASSUME NEW g \in M PROVE SplitOnce(g, b, t) \in M
    OBVIOUS
  <2>1. PICK k \in Orders : t <= k /\ k <= o /\ SplitTo(h, b, o, k, g)
    OBVIOUS
  <2>2. PICK j \in Orders : t <= j /\ j <= o /\ SplitTo(h, b, o, j, SplitOnce(g, b, t))
    BY <1>3, <2>1
  <2>3. SplitOnce(g, b, t) \in Heaps
    BY <2>2 DEF SplitTo
  <2> QED
    BY <2>2, <2>3
<1>6. body \in [1..MaxOrder -> [M -> M]]
  <2> HIDE DEF M
  <2> QED
    BY <1>5
<1>7. \E f \in [0..MaxOrder -> M] : Goes(f, h, MaxOrder, body)
  <2> HIDE DEF M, body
  <2> QED
    BY <1>1, <1>4, <1>6, LoopExists
<1>8. PICK f \in [0..MaxOrder -> M] : f[0] = h /\ \A i \in 1..MaxOrder : f[i] = body[i][f[i - 1]]
  BY <1>7 DEF Goes
<1>9. \A i \in 1..MaxOrder : f[i] = SplitOnce(f[i - 1], b, t)
  <2> HIDE DEF M
  <2>1. \A i \in 1..MaxOrder : f[i - 1] \in M
    BY <1>1
  <2> QED
    BY <1>8, <2>1
<1> HIDE DEF M, body
<1>10. f = [i \in 0..MaxOrder |-> turn(f, i)]
  <2>1. \A i \in 0..MaxOrder : f[i] = turn(f, i)
    BY <1>1, <1>8, <1>9
  <2>2. f = [i \in 0..MaxOrder |-> f[i]]
    OBVIOUS
  <2> HIDE DEF turn
  <2> QED
    BY <2>1, <2>2
<1>11. made = [i \in 0..MaxOrder |-> turn(made, i)]
  <2> HIDE DEF turn
  <2> QED
    BY <1>10
<1>12. made[0] = h /\ \A i \in 1..MaxOrder : made[i] = SplitOnce(made[i - 1], b, t)
  <2> HIDE DEF made
  <2>1. 0 \in 0..MaxOrder /\ \A i \in 1..MaxOrder : i \in 0..MaxOrder /\ i # 0
    BY <1>1
  <2> QED
    BY <1>11, <2>1
<1>13. split_block(h, b, t) = made[MaxOrder]
  BY DEF split_block
<1> HIDE DEF made
<1> DEFINE S == {i \in 0..MaxOrder :
                    \E k \in Orders : t <= k /\ k <= o /\ (k <= o - i \/ k = t) /\ SplitTo(h, b, o, k, made[i])}
<1>14. 0 \in S
  <2>1. o <= o - 0 /\ 0 \in 0..MaxOrder
    BY <1>1
  <2> QED
    BY <1>1, <1>2, <1>12, <2>1
<1>15. ASSUME NEW i \in 1..MaxOrder, i - 1 \in S PROVE i \in S
  <2>1. PICK k \in Orders : t <= k /\ k <= o /\ (k <= o - (i - 1) \/ k = t) /\ SplitTo(h, b, o, k, made[i - 1])
    BY <1>15
  <2>2. PICK j \in Orders : t <= j /\ j <= o /\ (j = k - 1 \/ j = t) /\ SplitTo(h, b, o, j, SplitOnce(made[i - 1], b, t))
    BY <1>3, <2>1
  <2>3. j <= o - i \/ j = t
    BY <1>1, <2>1, <2>2, Bounds
  <2>4. SplitTo(h, b, o, j, made[i])
    BY <1>12, <2>2
  <2> QED
    BY <2>2, <2>3, <2>4
<1>16. \A i \in 0..MaxOrder : i \in S
  <2> HIDE DEF S
  <2> QED
    BY <1>1, <1>14, <1>15, Induction
<1>17. PICK k \in Orders : t <= k /\ (k <= o - MaxOrder \/ k = t) /\ SplitTo(h, b, o, k, made[MaxOrder])
  BY <1>1, <1>16
<1>18. k = t
  BY <1>1, <1>17, Bounds
<1> QED
  BY <1>13, <1>17, <1>18

-----------------------------------------------------------------------------
(* malloc *)

\* Heap g is heap h after its block b, the only one on list o, was split down to order t
\* and handed out.
Taken(h, b, o, t, g) ==
    /\ g \in Heaps
    /\ g.header[b] = [order |-> t, is_free |-> FALSE, next |-> Null,
                      buddy |-> IF t = o THEN h.header[b].buddy ELSE b + BlockSize[t]]
    /\ \A i \in Orders : t <= i /\ i < o =>
        g.header[b + BlockSize[i]] = [order |-> i, is_free |-> TRUE, next |-> Null, buddy |-> b]
    /\ \A a \in Addresses : a < b \/ b + BlockSize[o] <= a => g.header[a] = h.header[a]
    /\ g.free_lists = [i \in Orders |-> IF i < t \/ i > o THEN h.free_lists[i]
                                        ELSE IF i = o THEN Null ELSE b + BlockSize[i]]

\* The heads of the lists are free, of the list's order, and in the pool.
HeadsOK(h) ==
    \A k \in Orders : LET b == h.free_lists[k] IN
        b # Null => /\ h.header[b].order = k /\ h.header[b].next = Null
                    /\ b + BlockSize[k] <= PoolEnd

\* A header marked used and taken off its list
HandedOut(r, p, q) == [[r EXCEPT !.is_free = p] EXCEPT !.next = q]

LEMMA HandedIs ==
  ASSUME NEW w, NEW x, NEW y, NEW z, NEW p, NEW q, NEW r, r = [order |-> w, is_free |-> x, next |-> y, buddy |-> z]
  PROVE  HandedOut(r, p, q) = [order |-> w, is_free |-> p, next |-> q, buddy |-> z]
<1>1. PICK u : u = r
  OBVIOUS
<1>2. PICK s : s = [u EXCEPT !.is_free = p]
  OBVIOUS
<1>3. s = [order |-> w, is_free |-> p, next |-> y, buddy |-> z]
  BY <1>1, <1>2
<1>4. [s EXCEPT !.next = q] = [order |-> w, is_free |-> p, next |-> q, buddy |-> z]
  BY <1>3
<1>5. HandedOut(u, p, q) = [s EXCEPT !.next = q]
  BY <1>2 DEF HandedOut
<1> QED
  BY <1>1, <1>4, <1>5

\* What malloc does to the heap.
LEMMA TakeIs ==
  ASSUME NEW h \in Heaps, HeadsOK(h), NEW n \in Nat, ~NeedsPool(h, n)
  PROVE  \E o \in Orders :
            /\ get_order(n) <= o /\ h.free_lists[o] \in Addresses
            /\ \A k \in Orders : get_order(n) <= k /\ k < o => h.free_lists[k] = Null
            /\ Take(h, n).block = h.free_lists[o]
            /\ Taken(h, h.free_lists[o], o, get_order(n), Take(h, n).heap)
<1> PICK t : t = get_order(n)
  OBVIOUS
<1> PICK o : o = Min(Usable(h, n))
  OBVIOUS
<1> PICK b : b = h.free_lists[o]
  OBVIOUS
<1>1. Usable(h, n) \in SUBSET Nat /\ Usable(h, n) # {}
  BY Bounds DEF NeedsPool, Usable
<1>2. o \in Usable(h, n) /\ \A k \in Usable(h, n) : o <= k
  BY <1>1, MinIs
<1>3. o \in Orders /\ t <= o /\ b # Null /\ o \in Nat
  BY <1>2, Bounds DEF Usable
<1>4. t \in Orders /\ t \in Nat
  <2>1. t \in 0..MaxOrder
    BY OrderIs
  <2> QED
    BY <1>3, <2>1, Bounds
<1>5. ASSUME NEW k \in Orders, t <= k, k < o PROVE h.free_lists[k] = Null
  <2>1. k \notin Usable(h, n)
    BY <1>2, <1>3, <1>5, Bounds
  <2> QED
    BY <1>5, <2>1 DEF Usable
<1>6. /\ h.header \in [Addresses -> Header] /\ h.free_lists \in [Orders -> Pointers]
      /\ h = [header |-> h.header, free_lists |-> h.free_lists, start |-> h.start, size |-> h.size]
      /\ h.start = PoolBase /\ h.size = BlockSize[PoolOrder]
  BY HeapIs
<1>7. b \in Addresses
  BY <1>3, <1>6 DEF Pointers
<1>8. h.header[b].order = o /\ h.header[b].next = Null /\ b + BlockSize[o] <= PoolEnd
  BY <1>3 DEF HeadsOK
<1>9. PICK popped : popped = [h EXCEPT !.free_lists[o] = h.header[b].next]
  OBVIOUS
<1>10. /\ popped \in Heaps /\ popped.header = h.header
       /\ popped.free_lists = [h.free_lists EXCEPT ![o] = Null]
  <2>1. popped = [header |-> h.header, free_lists |-> [h.free_lists EXCEPT ![o] = Null], start |-> h.start, size |-> h.size]
    BY <1>6, <1>8, <1>9
  <2>2. [h.free_lists EXCEPT ![o] = Null] \in [Orders -> Pointers]
    BY <1>3, <1>6 DEF Pointers
  <2> QED
    BY <1>6, <2>1, <2>2 DEF Heaps
<1>11. \A i \in Orders : t <= i /\ i < o => popped.free_lists[i] = Null
  BY <1>5, <1>6, <1>10
<1>12. PICK split : split = IF o > t THEN split_block(popped, b, t) ELSE popped
  OBVIOUS
<1>13. SplitTo(popped, b, o, t, split)
  <2>1. SplitTo(popped, b, o, t, split_block(popped, b, t))
    BY <1>3, <1>4, <1>7, <1>8, <1>10, <1>11, SplitIs
  <2>2. CASE o > t
    BY <1>12, <2>1, <2>2
  <2>3. CASE o = t
    <3>1. split = popped
      BY <1>4, <1>12, <2>3
    <3>2. popped.header[b] \in Header
      BY <1>6, <1>7, <1>10
    <3>3. popped.header[b] = [order |-> o, is_free |-> popped.header[b].is_free, next |-> popped.header[b].next,
                              buddy |-> popped.header[b].buddy]
      BY <1>8, <1>10, <3>2 DEF Header
    <3>4. \A i \in Orders : ~(o <= i /\ i < o)
      BY <1>3, Bounds
    <3> QED
      BY <1>10, <2>3, <3>1, <3>3, <3>4 DEF SplitTo
  <2> QED
    BY <1>3, <1>4, <2>2, <2>3
<1>14. PICK g : g = [split EXCEPT !.header[b].is_free = FALSE, !.header[b].next = Null]
  OBVIOUS
<1>15. Take(h, n).block = b /\ Take(h, n).heap = g
  BY <1>9, <1>12, <1>14 DEF Take
<1> DEFINE new == [order |-> t, is_free |-> FALSE, next |-> Null,
                   buddy |-> IF t = o THEN h.header[b].buddy ELSE b + BlockSize[t]]
<1>16. /\ split \in Heaps /\ split.header \in [Addresses -> Header] /\ split.free_lists \in [Orders -> Pointers]
       /\ split = [header |-> split.header, free_lists |-> split.free_lists, start |-> split.start, size |-> split.size]
       /\ split.start = PoolBase /\ split.size = BlockSize[PoolOrder]
  <2>1. split \in Heaps
    BY <1>13 DEF SplitTo
  <2> QED
    BY <2>1, HeapIs
<1>17. g = [header |-> [split.header EXCEPT ![b] = new], free_lists |-> split.free_lists,
            start |-> split.start, size |-> split.size]
  <2>1. PICK z : z = IF t = o THEN h.header[b].buddy ELSE b + BlockSize[t]
    OBVIOUS
  <2>2. PICK r : r = split.header[b]
    OBVIOUS
  <2>3. r = [order |-> t, is_free |-> h.header[b].is_free, next |-> h.header[b].next, buddy |-> z]
    BY <1>10, <1>13, <2>1, <2>2 DEF SplitTo
  <2>4. PICK r1 : r1 = [r EXCEPT !.is_free = FALSE]
    OBVIOUS
  <2>6. [r1 EXCEPT !.next = Null] = [order |-> t, is_free |-> FALSE, next |-> Null, buddy |-> z]
    <3>1. PICK w, x, y : r = [order |-> w, is_free |-> x, next |-> y, buddy |-> z] /\ w = t
      BY <2>3
    <3>2. PICK no : no = FALSE
      OBVIOUS
    <3>3. HandedOut(r, no, Null) = [order |-> w, is_free |-> no, next |-> Null, buddy |-> z]
      BY <3>1, HandedIs
    <3> QED
      BY <2>4, <3>1, <3>2, <3>3 DEF HandedOut
  <2>7. PICK g1 : g1 = [split EXCEPT !.header[b].is_free = FALSE]
    OBVIOUS
  <2>8. g1 = [header |-> [split.header EXCEPT ![b] = r1], free_lists |-> split.free_lists, start |-> split.start, size |-> split.size]
    BY <1>7, <1>16, <2>2, <2>4, <2>7
  <2>9. g = [g1 EXCEPT !.header[b].next = Null]
    BY <1>14, <2>7
  <2>10. g1.header[b] = r1
    BY <1>7, <1>16, <2>8
  <2>11. PICK r2 : r2 = [r1 EXCEPT !.next = Null]
    OBVIOUS
  <2>12. g = [header |-> [g1.header EXCEPT ![b] = r2], free_lists |-> split.free_lists, start |-> split.start, size |-> split.size]
    BY <2>8, <2>9, <2>10, <2>11
  <2>13. [g1.header EXCEPT ![b] = r2] = [split.header EXCEPT ![b] = r2]
    BY <1>7, <1>16, <2>8
  <2> QED
    BY <2>1, <2>6, <2>11, <2>12, <2>13
<1>18. new \in Header
  <2>1. split.header[b].buddy \in Pointers
    BY <1>7, <1>16 DEF Header
  <2>2. new.buddy \in Pointers
    BY <1>10, <1>13, <2>1 DEF SplitTo
  <2>3. t \in 0..MaxOrder /\ Null \in Pointers
    BY <1>4, Bounds DEF Pointers
  <2> QED
    BY <2>2, <2>3 DEF Header
<1> HIDE DEF new
<1>19. /\ g \in Heaps /\ g.header[b] = new /\ \A a \in Addresses : a # b => g.header[a] = split.header[a]
       /\ g.free_lists = split.free_lists
  <2>1. [split.header EXCEPT ![b] = new] \in [Addresses -> Header]
    BY <1>7, <1>16, <1>18
  <2> QED
    BY <1>7, <1>16, <1>17, <2>1 DEF Heaps
<1>20. ASSUME NEW i \in Orders, t <= i, i < o
       PROVE  g.header[b + BlockSize[i]] = [order |-> i, is_free |-> TRUE, next |-> Null, buddy |-> b]
  <2>1. BlockSize[i] \in Nat \ {0} /\ 2 * BlockSize[i] <= BlockSize[o] /\ BlockSize[o] \in Nat
    <3>1. 2 * BlockSize[i] <= BlockSize[o]
      BY <1>3, <1>20, Bounds, Multiple
    <3> QED
      BY <1>3, <3>1, Bounds
  <2>2. b + BlockSize[i] \in Addresses /\ b + BlockSize[i] # b
    <3>1. b \in Nat /\ PoolEnd \in Nat /\ PoolEnd <= Space /\ Space \in Nat
      BY <1>7, Bounds
    <3>2. b + BlockSize[i] \in 0..(Space - 1) /\ b + BlockSize[i] # b
      BY <1>8, <2>1, <3>1
    <3> QED
      BY <3>2, Bounds
  <2> QED
    BY <1>13, <1>19, <1>20, <2>2 DEF SplitTo
<1>21. ASSUME NEW a \in Addresses, a < b \/ b + BlockSize[o] <= a PROVE g.header[a] = h.header[a]
  <2>1. a # b
    <3>1. a \in Nat /\ b \in Nat /\ BlockSize[o] \in Nat \ {0}
      BY <1>3, <1>7, Bounds
    <3> QED
      BY <1>21, <3>1
  <2> QED
    BY <1>10, <1>13, <1>19, <1>21, <2>1 DEF SplitTo
<1>22. g.free_lists = [i \in Orders |-> IF i < t \/ i > o THEN h.free_lists[i]
                                        ELSE IF i = o THEN Null ELSE b + BlockSize[i]]
  <2>1. ASSUME NEW i \in Orders
        PROVE  split.free_lists[i] = IF i < t \/ i > o THEN h.free_lists[i] ELSE IF i = o THEN Null ELSE b + BlockSize[i]
    <3>1. i \in Nat
      BY Bounds
    <3>2. split.free_lists[i] = IF t <= i /\ i < o THEN b + BlockSize[i] ELSE popped.free_lists[i]
      BY <1>13 DEF SplitTo
    <3>3. popped.free_lists[i] = IF i = o THEN Null ELSE h.free_lists[i]
      BY <1>6, <1>10
    <3> QED
      BY <1>3, <1>4, <3>1, <3>2, <3>3
  <2> QED
    BY <1>16, <1>19, <2>1
<1>23. Taken(h, b, o, t, g)
  BY <1>19, <1>20, <1>21, <1>22 DEF Taken, new
<1> QED
  BY <1>3, <1>5, <1>7, <1>15, <1>23

\* Every other block lies before block a or behind it.
LEMMA Elsewhere ==
  ASSUME NEW T \in SUBSET TileType, TilesPool(T), NEW a, NEW o, NEW w, <<a, o, w>> \in T,
         NEW x \in T, x # <<a, o, w>>
  PROVE  /\ a \in Addresses /\ x[1] \in Addresses /\ x[1] # a
         /\ x[1] < a \/ a + BlockSize[o] <= x[1]
<1> PICK y : y = <<a, o, w>>
  OBVIOUS
<1>1. /\ x[1] \in Nat /\ x[2] \in 0..MaxOrder /\ a \in Nat /\ o \in 0..MaxOrder
      /\ y[1] = a /\ y[2] = o /\ y \in T
  BY DEF TileType
<1>2. BlockSize[x[2]] \in Nat \ {0} /\ BlockSize[o] \in Nat \ {0}
  BY <1>1, Bounds
<1>3. x[1] + BlockSize[x[2]] <= a \/ a + BlockSize[o] <= x[1]
  BY <1>1 DEF TilesPool, Apart
<1>4. x[1] + BlockSize[x[2]] <= PoolEnd /\ a + BlockSize[o] <= PoolEnd
  BY <1>1 DEF TilesPool, InPool
<1>5. PoolEnd \in Nat /\ PoolEnd <= Space /\ Space \in Nat /\ Addresses = 0..(Space - 1)
  BY Bounds
<1>6. x[1] \in 0..(Space - 1) /\ a \in 0..(Space - 1)
  BY <1>1, <1>2, <1>4, <1>5
<1> QED
  BY <1>1, <1>2, <1>3, <1>5, <1>6

\* The heads of the lists in a heap with a history
LEMMA HeadsAreOK ==
  ASSUME NEW h, NEW l \in Seq(Held), NEW f, NEW from, History(l, f, from), Matches(h, l, f, from)
  PROVE  HeadsOK(h)
<1> DEFINE F == f[Len(l)]
<1> SUFFICES ASSUME NEW k \in Orders, F[k] # Null
             PROVE  h.header[F[k]].order = k /\ h.header[F[k]].next = Null /\ F[k] + BlockSize[k] <= PoolEnd
  BY DEF HeadsOK, Matches
<1>1. TilesPool(Tiles(F, l, Len(l)))
  BY HistoryTiles DEF Tiling
<1>2. PICK x : x = <<F[k], k, 0>>
  OBVIOUS
<1>3. x \in Tiles(F, l, Len(l)) /\ x[1] = F[k] /\ x[2] = k
  BY <1>2 DEF Tiles
<1>4. F[k] + BlockSize[k] <= PoolEnd
  BY <1>1, <1>3 DEF TilesPool, InPool
<1> QED
  BY <1>4 DEF Matches

\* m is l and one more block, with the lists before and after.
OneMore(l, f, from, m, f2, from2) ==
    /\ m \in Seq(Held) /\ Len(m) = Len(l) + 1 /\ \A i \in 1..Len(l) : m[i] = l[i]
    /\ f2 \in [0..Len(m) -> [Orders -> Pointers]] /\ \A i \in 0..Len(l) : f2[i] = f[i]
    /\ from2 \in [1..Len(m) -> Orders] /\ \A i \in 1..Len(l) : from2[i] = from[i]
    /\ Took(f2[Len(l)], m[Len(m)], from2[Len(m)], f2[Len(m)])

LEMMA HistoryGrows ==
  ASSUME NEW l \in Seq(Held), NEW f, NEW from, History(l, f, from), NEW m, NEW f2, NEW from2,
         OneMore(l, f, from, m, f2, from2)
  PROVE  History(m, f2, from2)
<1> USE DEF OneMore
<1>1. Len(l) \in Nat
  OBVIOUS
<1>2. ASSUME NEW i \in 1..Len(m) PROVE Took(f2[i - 1], m[i], from2[i], f2[i])
  <2>1. CASE i = Len(m)
    <3>1. i - 1 = Len(l)
      BY <1>1, <2>1
    <3> QED
      BY <2>1, <3>1
  <2>2. CASE i # Len(m)
    <3>1. i \in 1..Len(l) /\ i - 1 \in 0..Len(l)
      BY <1>1, <2>2
    <3>2. Took(f[i - 1], l[i], from[i], f[i])
      BY <3>1 DEF History
    <3>3. f2[i - 1] = f[i - 1] /\ f2[i] = f[i] /\ from2[i] = from[i] /\ m[i] = l[i]
      BY <1>1, <3>1
    <3> QED
      BY <3>2, <3>3
  <2> QED
    BY <2>1, <2>2
<1>3. f2[0] = [k \in Orders |-> IF k = PoolOrder THEN PoolBase ELSE Null]
  <2>1. f2[0] = f[0]
    BY <1>1
  <2> QED
    BY <2>1 DEF History
<1> QED
  BY <1>2, <1>3 DEF History

\* The history of l without its last block
LEMMA HistoryShrinks ==
  ASSUME NEW l \in Seq(Held), NEW f, NEW from, History(l, f, from), Len(l) # 0
  PROVE  LET n == Len(l) - 1 IN
         History(SubSeq(l, 1, n), [i \in 0..n |-> f[i]], [i \in 1..n |-> from[i]])
<1> DEFINE n == Len(l) - 1
           m == SubSeq(l, 1, n)
           f1 == [i \in 0..n |-> f[i]]
           from1 == [i \in 1..n |-> from[i]]
<1>1. Len(l) \in Nat /\ n \in Nat /\ n \in 0..Len(l) /\ Len(m) = n /\ \A i \in 1..n : m[i] = l[i]
  <2>1. Len(l) \in Nat /\ n \in Nat /\ n \in 0..Len(l)
    OBVIOUS
  <2>2. PICK k : k = n
    OBVIOUS
  <2>3. Len(SubSeq(l, 1, k)) = k
    BY <2>1, <2>2
  <2>4. \A i \in 1..k : SubSeq(l, 1, k)[i] = l[i]
    BY <2>1, <2>2
  <2> QED
    BY <2>1, <2>2, <2>3, <2>4
<1>2. 0..n \subseteq 0..Len(l) /\ 1..n \subseteq 1..Len(l)
  BY <1>1
<1>3. f1 \in [0..n -> [Orders -> Pointers]] /\ from1 \in [1..n -> Orders]
  BY <1>2 DEF History
<1>4. ASSUME NEW i \in 1..n PROVE Took(f1[i - 1], m[i], from1[i], f1[i])
  <2>1. f1[i - 1] = f[i - 1] /\ f1[i] = f[i] /\ from1[i] = from[i] /\ m[i] = l[i]
    BY <1>1
  <2>2. Took(f[i - 1], l[i], from[i], f[i])
    BY <1>2 DEF History
  <2> HIDE DEF f1, from1, m
  <2> QED
    BY <2>1, <2>2
<1>5. f1[0] = [k \in Orders |-> IF k = PoolOrder THEN PoolBase ELSE Null]
  <2>1. f1[0] = f[0]
    BY <1>1
  <2> HIDE DEF f1
  <2> QED
    BY <2>1 DEF History
<1> HIDE DEF f1, from1, m
<1>6. History(m, f1, from1)
  BY <1>1, <1>3, <1>4, <1>5 DEF History
<1> QED
  BY <1>6 DEF f1, from1, m

\* A malloc that finds room takes the heap to one with a longer history.
LEMMA MallocStep ==
  ASSUME NEW h \in Heaps, NEW l \in Seq(Held), NEW f, NEW from, History(l, f, from), Matches(h, l, f, from),
         NEW n \in Requests, ~NeedsPool(h, n)
  PROVE  LET m == Append(l, [at |-> Take(h, n).block, size |-> n]) IN
         /\ Take(h, n).heap \in Heaps /\ m \in Seq(Held)
         /\ \E f2, from2 : History(m, f2, from2) /\ Matches(Take(h, n).heap, m, f2, from2)
<1> DEFINE N == Len(l)
           F == f[N]
           t == get_order(n)
           T == Tiles(F, l, N)
<1>1. n \in Nat \ {0} /\ HeadsOK(h)
  BY HeadsAreOK, BuddyAssumption
<1>2. PICK o \in Orders :
        /\ t <= o /\ h.free_lists[o] \in Addresses
        /\ \A k \in Orders : t <= k /\ k < o => h.free_lists[k] = Null
        /\ Take(h, n).block = h.free_lists[o]
        /\ Taken(h, h.free_lists[o], o, t, Take(h, n).heap)
  BY <1>1, TakeIs
<1> PICK b : b = h.free_lists[o]
  OBVIOUS
<1>g. PICK g : g = Take(h, n).heap
  OBVIOUS
<1>m. PICK m : m = Append(l, [at |-> Take(h, n).block, size |-> n])
  OBVIOUS
<1> DEFINE G == g.free_lists
           c == [at |-> b, size |-> n]
           p == N + 1
           T2 == Tiles(G, m, p)
<1>f. PICK f2 : f2 = [i \in 0..p |-> IF i = p THEN G ELSE f[i]]
  OBVIOUS
<1>r. PICK from2 : from2 = [i \in 1..p |-> IF i = p THEN o ELSE from[i]]
  OBVIOUS
<1>3. b \in Addresses /\ F[o] = b /\ h.free_lists = F /\ b # Null /\ Taken(h, b, o, t, g)
  BY <1>2, <1>g, Bounds DEF Matches
<1>4. N \in Nat /\ p \in Nat /\ F \in [Orders -> Pointers] /\ t \in 0..MaxOrder /\ t \in Nat /\ o \in Nat
  <2>1. N \in 0..N
    OBVIOUS
  <2>2. F \in [Orders -> Pointers]
    BY <2>1 DEF History
  <2>3. t \in 0..MaxOrder
    BY <1>1, OrderIs
  <2> HIDE DEF F, t
  <2> QED
    BY <2>2, <2>3, Bounds
<1>5. g \in Heaps /\ G \in [Orders -> Pointers]
  BY <1>3, HeapIs DEF Taken
<1>6. /\ c \in Held /\ m = Append(l, c) /\ m \in Seq(Held) /\ Len(m) = p
      /\ c.at = b /\ OrderOf(c) = t /\ m[p] = c /\ \A i \in 1..N : m[i] = l[i]
  <2>1. c \in Held /\ m = Append(l, c)
    BY <1>2, <1>3, <1>m DEF Held
  <2>2. c.at = b /\ OrderOf(c) = t
    BY DEF OrderOf
  <2> HIDE DEF c
  <2> QED
    BY <2>1, <2>2
<1> HIDE DEF c, t, F
<1>7. Took(F, c, o, G)
  BY <1>2, <1>3, <1>6 DEF Took, Taken
<1>8. History(m, f2, from2)
  <2>1. f2 \in [0..p -> [Orders -> Pointers]] /\ from2 \in [1..p -> Orders]
    <3>1. /\ \A i \in 0..p : i # p => i \in 0..N
          /\ \A i \in 1..p : i # p => i \in 1..N
      BY <1>4
    <3>2. f \in [0..N -> [Orders -> Pointers]] /\ from \in [1..N -> Orders]
      BY DEF History
    <3> HIDE DEF p, N, G
    <3> QED
      BY <1>5, <1>f, <1>r, <3>1, <3>2
  <2>2. /\ \A i \in 0..N : f2[i] = f[i]
        /\ \A i \in 1..N : from2[i] = from[i]
        /\ f2[p] = G /\ from2[p] = o
    BY <1>4, <1>f, <1>r
  <2>3. f2[N] = F
    BY <1>4, <2>2 DEF F
  <2>4. Took(f2[N], m[p], from2[p], f2[p])
    <3> HIDE DEF p, N, G
    <3> QED
      BY <1>6, <1>7, <2>2, <2>3
  <2>5. /\ f2 \in [0..Len(m) -> [Orders -> Pointers]] /\ from2 \in [1..Len(m) -> Orders]
        /\ Took(f2[Len(l)], m[Len(m)], from2[Len(m)], f2[Len(m)])
    BY <1>6, <2>1, <2>4
  <2> HIDE DEF p, G
  <2>6. /\ m \in Seq(Held) /\ Len(m) = Len(l) + 1 /\ \A i \in 1..Len(l) : m[i] = l[i]
        /\ \A i \in 0..Len(l) : f2[i] = f[i]
        /\ \A i \in 1..Len(l) : from2[i] = from[i]
    BY <1>6, <2>2 DEF p
  <2>7. OneMore(l, f, from, m, f2, from2)
    BY <2>5, <2>6 DEF OneMore
  <2> QED
    BY <2>7, HistoryGrows
<1>9. /\ TilesPool(T) /\ TilesPool(Tiles(F, m, N)) /\ T \in SUBSET TileType
      /\ Tiles(F, m, N) = T
  <2>1. TilesPool(T) /\ T \in SUBSET TileType
    BY <1>4, HistoryTiles, TilesTyped DEF Tiling, F
  <2>2. Tiles(F, m, N) = T
    BY <1>6 DEF Tiles
  <2> QED
    BY <2>1, <2>2
<1>10. <<b, o, 0>> \in T /\ T2 = Split(T, b, o, t, p)
  <2>1. p \in 1..Len(m) /\ p - 1 = N
    BY <1>4, <1>6
  <2> HIDE DEF G, T, p, N
  <2>2. Took(F, m[p], o, G) /\ TilesPool(Tiles(F, m, p - 1))
    BY <1>6, <1>7, <1>9, <2>1
  <2>3. /\ <<m[p].at, o, 0>> \in Tiles(F, m, p - 1)
        /\ Tiles(G, m, p) = Split(Tiles(F, m, p - 1), m[p].at, o, OrderOf(m[p]), p)
    <3>1. PICK q : q = p
      OBVIOUS
    <3>2. PICK L : L = G
      OBVIOUS
    <3>3. q \in 1..Len(m) /\ Took(F, m[q], o, L) /\ TilesPool(Tiles(F, m, q - 1)) /\ m \in Seq(Held)
      BY <1>6, <2>1, <2>2, <3>1, <3>2
    <3>4. F \in [Orders -> Pointers]
      BY <1>4
    <3>5. /\ <<m[q].at, o, 0>> \in Tiles(F, m, q - 1)
          /\ Tiles(L, m, q) = Split(Tiles(F, m, q - 1), m[q].at, o, OrderOf(m[q]), q)
      BY <3>3, <3>4, TookSplits
    <3> QED
      BY <3>1, <3>2, <3>5
  <2> QED
    BY <1>6, <1>9, <2>1, <2>3
<1>11. ASSUME NEW x \in T, x # <<b, o, 0>>
       PROVE  x[1] \in Addresses /\ x[1] # b /\ g.header[x[1]] = h.header[x[1]]
  <2> HIDE DEF T
  <2>1. x[1] \in Addresses /\ x[1] # b /\ (x[1] < b \/ b + BlockSize[o] <= x[1])
    BY <1>9, <1>10, <1>11, Elsewhere
  <2> QED
    BY <1>3, <2>1 DEF Taken
<1>12. ASSUME NEW k \in Orders, F[k] # Null, k # o
       PROVE  g.header[F[k]] = h.header[F[k]]
  <2>1. PICK x : x = <<F[k], k, 0>>
    OBVIOUS
  <2>2. x \in T /\ x # <<b, o, 0>> /\ x[1] = F[k]
    BY <1>12, <2>1 DEF Tiles
  <2> QED
    BY <1>11, <2>2
<1>13. ASSUME NEW j \in 1..N
       PROVE  l[j].at # b /\ g.header[l[j].at] = h.header[l[j].at]
  <2>1. PICK x : x = <<l[j].at, OrderOf(l[j]), j>>
    OBVIOUS
  <2>2. x \in T /\ x # <<b, o, 0>> /\ x[1] = l[j].at
    BY <2>1 DEF Tiles
  <2> QED
    BY <1>11, <2>2
<1>14. ASSUME NEW k \in Orders, G[k] # Null
       PROVE  g.header[G[k]].order = k /\ g.header[G[k]].is_free /\ g.header[G[k]].next = Null
  <2>1. k \in Nat
    BY Bounds
  <2>2. CASE t <= k /\ k < o
    <3>1. G[k] = b + BlockSize[k]
      BY <1>3, <1>4, <2>1, <2>2 DEF Taken
    <3>2. g.header[b + BlockSize[k]] = [order |-> k, is_free |-> TRUE, next |-> Null, buddy |-> b]
      BY <1>3, <2>2 DEF Taken
    <3> QED
      BY <3>1, <3>2
  <2>3. CASE k < t \/ k > o
    <3>1. k # o
      BY <1>2, <1>4, <2>1, <2>3 DEF t
    <3>3. G[k] = F[k]
      BY <1>3, <2>3 DEF Taken
    <3>2. g.header[F[k]] = h.header[F[k]]
      BY <1>12, <1>14, <3>1, <3>3
    <3> QED
      BY <1>14, <3>2, <3>3 DEF Matches, F
  <2>4. k # o
    BY <1>2, <1>3, <1>4, <1>14 DEF Taken
  <2> QED
    BY <1>4, <2>1, <2>2, <2>3, <2>4
<1>15. /\ f2[p] = G /\ from2[p] = o /\ p \in 1..p /\ \A j \in 1..p : j = p \/ j \in 1..N
       /\ \A j \in 1..N : from2[j] = from[j] /\ j \in 1..p /\ j < p
  BY <1>4, <1>f, <1>r
<1>16. ASSUME NEW j \in 1..p
       PROVE  LET x == g.header[m[j].at] IN
              /\ x.order = OrderOf(m[j]) /\ ~x.is_free
              /\ OrderOf(m[j]) < from2[j] => x.buddy = m[j].at + BlockSize[OrderOf(m[j])]
  <2>1. CASE j = p
    <3>1. m[j].at = b /\ OrderOf(m[j]) = t /\ from2[j] = o
      BY <1>6, <1>15, <2>1
    <3>2. g.header[b] = [order |-> t, is_free |-> FALSE, next |-> Null,
                         buddy |-> IF t = o THEN h.header[b].buddy ELSE b + BlockSize[t]]
      BY <1>3 DEF Taken
    <3>3. t < o => t # o
      BY <1>4
    <3> QED
      BY <3>1, <3>2, <3>3
  <2>2. CASE j \in 1..N
    <3>1. m[j] = l[j] /\ from2[j] = from[j] /\ g.header[l[j].at] = h.header[l[j].at]
      BY <1>6, <1>13, <1>15, <2>2
    <3> QED
      BY <2>2, <3>1 DEF Matches
  <2> QED
    BY <1>15, <2>1, <2>2
<1>17. ASSUME NEW x \in T2 PROVE BuddyOK(g, x, m, from2)
  <2>1. CASE x \in T /\ x # <<b, o, 0>>
    <3>1. g.header[x[1]] = h.header[x[1]]
      BY <1>11, <2>1
    <3>2. BuddyOK(h, x, l, from)
      BY <2>1 DEF Matches, F
    <3>3. ASSUME NEW j \in 1..N, RightHalf(x[1], x[2], l, j, from)
          PROVE  j \in 1..p /\ m[j].at = l[j].at /\ RightHalf(x[1], x[2], m, j, from2)
      <4>1. m[j] = l[j] /\ from2[j] = from[j] /\ j \in 1..p
        BY <1>6, <1>15
      <4> QED
        BY <3>3, <4>1 DEF RightHalf
    <3> HIDE DEF p
    <3> QED
      BY <1>6, <3>1, <3>2, <3>3 DEF BuddyOK
  <2>2. CASE x = <<b, t, p>>
    <3>1. x[1] = b /\ x[2] = t /\ x[3] = p
      BY <2>2
    <3>2. g.header[b].buddy = IF t = o THEN h.header[b].buddy ELSE b + BlockSize[t]
      BY <1>3 DEF Taken
    <3>3. CASE t # o
      <4>1. b + BlockSize[t] < PoolEnd
        <5>3. t < o /\ t \in 0..MaxOrder /\ o \in 0..MaxOrder /\ BlockSize[t] \in Nat \ {0} /\ BlockSize[o] \in Nat
          BY <1>2, <1>4, <3>3, Bounds DEF t
        <5>1. 2 * BlockSize[t] <= BlockSize[o]
          BY <1>4, <5>3, Multiple
        <5>2. b + BlockSize[o] <= PoolEnd
          BY <1>1, <1>3 DEF HeadsOK
        <5>4. b \in Nat /\ PoolEnd \in Nat
          BY <1>3, Bounds
        <5> QED
          BY SMTT(30), <5>1, <5>2, <5>3, <5>4
      <4> QED
        BY <3>1, <3>2, <3>3, <4>1 DEF BuddyOK
    <3>4. CASE t = o
      <4>1. PICK y : y = <<b, o, 0>>
        OBVIOUS
      <4>2. y[1] = b /\ y[2] = o /\ BuddyOK(h, y, l, from)
        BY <1>10, <4>1 DEF Matches, F
      <4>3. ASSUME NEW j \in 1..N, RightHalf(b, o, l, j, from)
            PROVE  j \in 1..p /\ m[j].at = l[j].at /\ j < p /\ RightHalf(b, o, m, j, from2)
        <5>1. m[j] = l[j] /\ from2[j] = from[j] /\ j \in 1..p /\ j < p
          BY <1>6, <1>15
        <5> QED
          BY <4>3, <5>1 DEF RightHalf
      <4> HIDE DEF p
      <4> QED
        BY <1>6, <3>1, <3>2, <3>4, <4>2, <4>3 DEF BuddyOK
    <3> QED
      BY <3>3, <3>4
  <2>3. ASSUME NEW k \in Orders, t <= k, k < o, x = <<b + BlockSize[k], k, 0>>
        PROVE  BuddyOK(g, x, m, from2)
    <3>1. x[1] = b + BlockSize[k] /\ x[2] = k /\ x[3] = 0
      BY <2>3
    <3>4. g.header[b + BlockSize[k]] = [order |-> k, is_free |-> TRUE, next |-> Null, buddy |-> b]
      BY <1>3, <2>3 DEF Taken
    <3>2. g.header[x[1]].buddy = b
      BY <3>1, <3>4
    <3>3. RightHalf(x[1], x[2], m, p, from2)
      <4> QED
        BY <1>6, <1>15, <2>3, <3>1 DEF RightHalf
    <3> HIDE DEF p
    <3> QED
      BY <1>6, <1>15, <3>1, <3>2, <3>3 DEF BuddyOK
  <2> HIDE DEF T2, T
  <2> QED
    BY <1>10, <2>1, <2>2, <2>3 DEF Split
<1>18. Matches(g, m, f2, from2)
  <2> HIDE DEF G
  <2>1. f2[Len(m)] = G
    BY <1>6, <1>15
  <2> USE DEF G
  <2> QED
    BY <1>6, <1>14, <1>16, <1>17, <2>1 DEF Matches
<1> QED
  BY <1>5, <1>6, <1>8, <1>18, <1>g, <1>m

-----------------------------------------------------------------------------
(* free *)

\* Putting a block on an empty list
LEMMA PushIs ==
  ASSUME NEW h \in Heaps, NEW b \in Addresses, NEW o \in Orders, NEW free, NEW next, NEW y,
         h.header[b] = [order |-> o, is_free |-> free, next |-> next, buddy |-> y], h.free_lists[o] = Null
  PROVE  /\ Push(h, b) \in Heaps
         /\ Push(h, b).header[b] = [order |-> o, is_free |-> free, next |-> Null, buddy |-> y]
         /\ \A a \in Addresses : a # b => Push(h, b).header[a] = h.header[a]
         /\ Push(h, b).free_lists = [h.free_lists EXCEPT ![o] = b]
<1>1. /\ h.header \in [Addresses -> Header] /\ h.free_lists \in [Orders -> Pointers]
      /\ h = [header |-> h.header, free_lists |-> h.free_lists, start |-> h.start, size |-> h.size]
      /\ h.start = PoolBase /\ h.size = BlockSize[PoolOrder]
  BY HeapIs
<1>r. PICK r : r = h.header[b]
  OBVIOUS
<1>2. h.header[b].order = o /\ r = [order |-> o, is_free |-> free, next |-> next, buddy |-> y]
  BY <1>r
<1>s. PICK s : s = [r EXCEPT !.next = Null]
  OBVIOUS
<1>3. s = [order |-> o, is_free |-> free, next |-> Null, buddy |-> y]
  BY <1>2, <1>s
<1>4. Push(h, b) = [h EXCEPT !.header[b].next = Null, !.free_lists[o] = b]
  BY <1>2 DEF Push
<1>5. [h EXCEPT !.header[b].next = Null, !.free_lists[o] = b]
        = [header |-> [h.header EXCEPT ![b] = s], free_lists |-> [h.free_lists EXCEPT ![o] = b],
           start |-> h.start, size |-> h.size]
  <2>1. PICK g : g = [h EXCEPT !.header[b].next = Null]
    OBVIOUS
  <2>2. g = [header |-> [h.header EXCEPT ![b] = s], free_lists |-> h.free_lists, start |-> h.start, size |-> h.size]
    BY <1>1, <1>r, <1>s, <2>1
  <2>3. [h EXCEPT !.header[b].next = Null, !.free_lists[o] = b] = [g EXCEPT !.free_lists[o] = b]
    BY <2>1
  <2>4. [g EXCEPT !.free_lists[o] = b]
          = [header |-> [h.header EXCEPT ![b] = s], free_lists |-> [h.free_lists EXCEPT ![o] = b],
             start |-> h.start, size |-> h.size]
    BY <2>2
  <2> QED
    BY <2>3, <2>4
<1>6. s \in Header
  <2>1. r \in Header
    BY <1>1, <1>r
  <2>2. free \in BOOLEAN /\ y \in Pointers
    BY <1>2, <2>1 DEF Header
  <2>3. o \in 0..MaxOrder /\ Null \in Pointers
    BY Bounds DEF Pointers
  <2> QED
    BY <1>3, <2>2, <2>3 DEF Header
<1>7. [h.header EXCEPT ![b] = s] \in [Addresses -> Header]
  BY <1>1, <1>6
<1>8. [h.free_lists EXCEPT ![o] = b] \in [Orders -> Pointers]
  BY <1>1 DEF Pointers
<1>9. Push(h, b) = [header |-> [h.header EXCEPT ![b] = s], free_lists |-> [h.free_lists EXCEPT ![o] = b],
                    start |-> h.start, size |-> h.size]
  BY <1>4, <1>5
<1>10. Push(h, b) \in Heaps
  BY <1>1, <1>7, <1>8, <1>9 DEF Heaps
<1>11. Push(h, b).header = [h.header EXCEPT ![b] = s] /\ Push(h, b).free_lists = [h.free_lists EXCEPT ![o] = b]
  BY <1>9
<1>12. Push(h, b).header[b] = s /\ \A a \in Addresses : a # b => Push(h, b).header[a] = h.header[a]
  BY <1>1, <1>11
<1> QED
  BY <1>3, <1>10, <1>11, <1>12

\* free of block b in heap h
Freed(h, b) == merge_blocks(SetHeader(h, b, [h.header[b] EXCEPT !.is_free = TRUE]), b)

\* Heap g is heap h with b made a free block of order o whose buddy is y, and with the lists F.
Rejoined(h, b, o, y, F, g) ==
    /\ g \in Heaps
    /\ g.header[b] = [order |-> o, is_free |-> TRUE, next |-> Null, buddy |-> y]
    /\ \A a \in Addresses : a # b => g.header[a] = h.header[a]
    /\ g.free_lists = F

\* The buddy that block b of order o gets when it is merged from smaller ones
NextBlock(b, o) == IF b + BlockSize[o] < PoolEnd THEN b + BlockSize[o] ELSE Null

\* What free does to the heap when the right halves of b are all on their lists.
LEMMA FreedIs ==
  ASSUME NEW h \in Heaps, NEW b \in Addresses, NEW t \in Orders, NEW o \in Orders, t <= o, Followed(h, b, t, o),
         h.free_lists[o] = Null, NEW y, y = IF o = t THEN h.header[b].buddy ELSE NextBlock(b, o),
         Unmergeable(h, b, o, y)
  PROVE  Rejoined(h, b, o, y, [i \in Orders |-> IF i = o THEN b ELSE IF t <= i /\ i < o THEN Null ELSE h.free_lists[i]],
                  Freed(h, b))
<1>1. /\ h.header \in [Addresses -> Header] /\ h.free_lists \in [Orders -> Pointers]
      /\ h = [header |-> h.header, free_lists |-> h.free_lists, start |-> h.start, size |-> h.size]
      /\ h.start = PoolBase /\ h.size = BlockSize[PoolOrder]
  BY HeapIs
<1>r. PICK r : r = [h.header[b] EXCEPT !.is_free = TRUE]
  OBVIOUS
<1>2. r \in Header /\ r.is_free = TRUE /\ r.order = t /\ r.buddy = h.header[b].buddy /\ r.next = h.header[b].next
  <2>1. h.header[b] \in Header /\ h.header[b].order = t
    BY <1>1 DEF Followed
  <2>2. PICK x : x = h.header[b]
    OBVIOUS
  <2> QED
    BY <1>r, <2>1, <2>2 DEF Header
<1>h. PICK h0 : h0 = SetHeader(h, b, r)
  OBVIOUS
<1>3. h0 = [header |-> [h.header EXCEPT ![b] = r], free_lists |-> h.free_lists, start |-> h.start, size |-> h.size]
  BY <1>1, <1>h DEF SetHeader
<1>4. [h.header EXCEPT ![b] = r] \in [Addresses -> Header]
  BY <1>1, <1>2
<1>5. h0 \in Heaps
  BY <1>1, <1>3, <1>4 DEF Heaps
<1>6. /\ h0.header[b] = r /\ \A a \in Addresses : a # b => h0.header[a] = h.header[a]
      /\ h0.free_lists = h.free_lists /\ h0.start + h0.size = PoolEnd
  <2>1. h0.header = [h.header EXCEPT ![b] = r] /\ h0.free_lists = h.free_lists
    BY <1>3
  <2>2. h0.start + h0.size = PoolEnd
    BY <1>5, HeapIs
  <2> QED
    BY <1>1, <2>1, <2>2
<1>7. Followed(h0, b, t, o)
  <2>1. ASSUME NEW k \in Orders, t <= k, k < o
        PROVE  LET right == b + BlockSize[k] IN
               /\ h0.free_lists[k] = right
               /\ h0.header[right].order = k /\ h0.header[right].is_free /\ h0.header[right].next = Null
    <3>1. BlockSize[k] \in Nat \ {0} /\ b \in Nat
      BY Bounds
    <3>2. h.free_lists[k] = b + BlockSize[k]
      BY <2>1 DEF Followed
    <3>3. b + BlockSize[k] # b /\ b + BlockSize[k] \in Addresses
      <4>1. b + BlockSize[k] \in Pointers /\ b + BlockSize[k] \in Nat
        BY <1>1, <3>1, <3>2
      <4>2. b + BlockSize[k] # Null
        <5>1. k \in 0..MaxOrder /\ o \in 0..MaxOrder
          BY Bounds
        <5>2. 2 * BlockSize[k] <= BlockSize[o]
          BY <2>1, <5>1, Multiple
        <5>3. b + BlockSize[o] <= PoolEnd
          BY DEF Followed
        <5>4. BlockSize[o] \in Nat /\ PoolEnd \in Nat /\ Space \in Nat /\ PoolEnd <= Space
          BY <5>1, Bounds
        <5>5. b + BlockSize[k] \in 0..(Space - 1)
          BY <3>1, <5>2, <5>3, <5>4
        <5> QED
          BY <5>5, Bounds
      <4> QED
        BY <3>1, <4>1, <4>2 DEF Pointers
    <3> QED
      BY <1>6, <2>1, <3>3 DEF Followed
  <2>2. h0.header[b].order = t /\ (t < o => h0.header[b].buddy = b + BlockSize[t]) /\ b + BlockSize[o] <= PoolEnd
    BY <1>2, <1>6 DEF Followed
  <2> QED
    BY <2>1, <2>2 DEF Followed
<1>8. LastBuddy(h0, b, t, o) = y
  <2>1. NewBuddy(h0, b, o) = NextBlock(b, o)
    BY <1>6 DEF NewBuddy, NextBlock
  <2> QED
    BY <1>2, <1>6, <2>1 DEF LastBuddy
<1>9. Unmergeable(h0, b, o, y)
  <2>1. y # b => HeaderAt(h0, y) = HeaderAt(h, y)
    BY <1>6 DEF HeaderAt
  <2> QED
    BY <2>1 DEF Unmergeable
<1>g. PICK g : g = Grown(h0, b, t, o)
  OBVIOUS
<1>10. Freed(h, b) = Push(g, b)
  <2>1. merge_blocks(h0, b) = Push(Grown(h0, b, t, o), b)
    BY <1>5, <1>7, <1>8, <1>9, MergeIs
  <2> QED
    BY <1>g, <1>h, <1>r, <2>1 DEF Freed
<1>11. /\ g \in Heaps
       /\ g.header[b] = [order |-> o, is_free |-> TRUE, next |-> h.header[b].next, buddy |-> y]
       /\ \A a \in Addresses : a # b => g.header[a] = h.header[a]
       /\ \A i \in Orders : g.free_lists[i] = IF t <= i /\ i < o THEN Null ELSE h.free_lists[i]
  <2>1. /\ g \in Heaps
        /\ g.header[b] = [order |-> o, is_free |-> h0.header[b].is_free, next |-> h0.header[b].next,
                          buddy |-> LastBuddy(h0, b, t, o)]
        /\ \A a \in Addresses : a # b => g.header[a] = h0.header[a]
        /\ \A i \in Orders : g.free_lists[i] = IF t <= i /\ i < o THEN Null ELSE h0.free_lists[i]
    BY <1>5, <1>g, GrownIs DEF LastBuddy
  <2> QED
    BY <1>2, <1>6, <1>8, <2>1
<1>12. g.free_lists[o] = Null
  BY <1>11
<1>13. /\ Push(g, b) \in Heaps
       /\ Push(g, b).header[b] = [order |-> o, is_free |-> TRUE, next |-> Null, buddy |-> y]
       /\ \A a \in Addresses : a # b => Push(g, b).header[a] = g.header[a]
       /\ Push(g, b).free_lists = [g.free_lists EXCEPT ![o] = b]
  <2>1. PICK yes, n, z : /\ g.header[b] = [order |-> o, is_free |-> yes, next |-> n, buddy |-> z]
                         /\ yes = TRUE /\ z = y
    BY <1>11
  <2>3. g \in Heaps /\ g.header[b] = [order |-> o, is_free |-> yes, next |-> n, buddy |-> z]
    BY <1>11, <2>1
  <2>2. /\ Push(g, b) \in Heaps
        /\ Push(g, b).header[b] = [order |-> o, is_free |-> yes, next |-> Null, buddy |-> z]
        /\ \A a \in Addresses : a # b => Push(g, b).header[a] = g.header[a]
        /\ Push(g, b).free_lists = [g.free_lists EXCEPT ![o] = b]
    BY <1>12, <2>3, PushIs
  <2> QED
    BY <2>1, <2>2
<1>14. [g.free_lists EXCEPT ![o] = b]
         = [i \in Orders |-> IF i = o THEN b ELSE IF t <= i /\ i < o THEN Null ELSE h.free_lists[i]]
  <2>1. g.free_lists \in [Orders -> Pointers]
    BY <1>11, HeapIs
  <2> QED
    BY <1>11, <2>1
<1> QED
  BY <1>10, <1>11, <1>13, <1>14 DEF Rejoined

\* The free of the block taken last takes the heap back to the history before it.
LEMMA FreeStep ==
  ASSUME NEW h \in Heaps, NEW l \in Seq(Held), NEW f, NEW from, History(l, f, from), Matches(h, l, f, from),
         NEW N, N = Len(l), N # 0
  PROVE  /\ Freed(h, l[N].at) \in Heaps /\ SubSeq(l, 1, N - 1) \in Seq(Held)
         /\ \E f1, from1 : /\ History(SubSeq(l, 1, N - 1), f1, from1)
                           /\ Matches(Freed(h, l[N].at), SubSeq(l, 1, N - 1), f1, from1)
<1>p. PICK p : p = N - 1
  OBVIOUS
<1>b. PICK b : b = l[N].at
  OBVIOUS
<1>t. PICK t : t = OrderOf(l[N])
  OBVIOUS
<1>o. PICK o : o = from[N]
  OBVIOUS
<1>F. PICK F : F = f[p]
  OBVIOUS
<1>G. PICK G : G = f[N]
  OBVIOUS
<1>1. /\ N \in Nat /\ p \in Nat /\ N = p + 1 /\ N \in 1..N /\ N \in 0..N /\ p \in 0..N /\ N - 1 = p
      /\ \A j \in 1..N : j = N \/ j \in 1..p
      /\ \A j \in 1..p : j \in 1..N /\ j < N /\ j \in Nat
  BY <1>p
<1>2. /\ F \in [Orders -> Pointers] /\ G \in [Orders -> Pointers] /\ o \in Orders /\ o \in Nat
      /\ Took(F, l[N], o, G)
  BY <1>1, <1>F, <1>G, <1>o, Bounds DEF History
<1>3. /\ t <= o /\ F[o] = b /\ t \in Orders /\ t \in Nat /\ b \in Addresses /\ b # Null
      /\ \A k \in Orders : t <= k /\ k < o => F[k] = Null
      /\ G = [k \in Orders |-> IF k < t \/ k > o THEN F[k] ELSE IF k = o THEN Null ELSE b + BlockSize[k]]
  <2>1. t \in 0..MaxOrder /\ b \in Addresses
    BY <1>1, <1>b, <1>t, HeldIs
  <2>2. t <= o
    BY <1>2, <1>t DEF Took
  <2> QED
    BY <1>2, <1>b, <1>t, <2>1, <2>2, Bounds DEF Took
<1>T. PICK T : T = Tiles(F, l, p)
  OBVIOUS
<1>U. PICK U : U = Tiles(G, l, N)
  OBVIOUS
<1>4. T \in SUBSET TileType /\ TilesPool(T)
  <2>1. TilesPool(Tiles(f[p], l, p))
    BY <1>1, HistoryTiles DEF Tiling
  <2> QED
    BY <1>1, <1>2, <1>F, <1>T, <2>1, TilesTyped
<1>5. <<b, o, 0>> \in T /\ U = Split(T, b, o, t, N)
  <2>1. /\ <<l[N].at, o, 0>> \in Tiles(F, l, N - 1)
        /\ Tiles(G, l, N) = Split(Tiles(F, l, N - 1), l[N].at, o, OrderOf(l[N]), N)
    <3>1. N \in 1..Len(l) /\ TilesPool(Tiles(F, l, N - 1))
      BY <1>1, <1>4, <1>T
    <3> QED
      BY <1>2, <3>1, TookSplits
  <2> QED
    BY <1>1, <1>b, <1>t, <1>T, <1>U, <2>1
<1>6. /\ h.free_lists = G
      /\ \A k \in Orders : G[k] # Null =>
            h.header[G[k]].order = k /\ h.header[G[k]].is_free /\ h.header[G[k]].next = Null
      /\ \A j \in 1..N :
            /\ h.header[l[j].at].order = OrderOf(l[j]) /\ ~h.header[l[j].at].is_free
            /\ OrderOf(l[j]) < from[j] => h.header[l[j].at].buddy = l[j].at + BlockSize[OrderOf(l[j])]
      /\ \A x \in U : BuddyOK(h, x, l, from)
  BY <1>G, <1>U DEF Matches
<1>7. b + BlockSize[o] <= PoolEnd
  <2>1. PICK x : x = <<b, o, 0>>
    OBVIOUS
  <2> QED
    BY <1>4, <1>5, <2>1 DEF TilesPool, InPool
\* Where the other blocks are, and what F says of them
<1>8. ASSUME NEW x \in T, x # <<b, o, 0>>
      PROVE  x[1] \in Addresses /\ x[1] # b /\ x \in U
  <2>1. x[1] \in Addresses /\ x[1] # b
    BY <1>4, <1>5, <1>8, Elsewhere
  <2>2. x \in U
    BY <1>5, <1>8 DEF Split
  <2> QED
    BY <2>1, <2>2
<1>9. ASSUME NEW k \in Orders, F[k] # Null, k # o
      PROVE  F[k] \in Addresses /\ F[k] # b /\ G[k] = F[k] /\ k \in Nat /\ (k < t \/ k > o)
  <2>1. PICK x : x = <<F[k], k, 0>>
    OBVIOUS
  <2>2. x \in T /\ x # <<b, o, 0>> /\ x[1] = F[k]
    BY <1>9, <1>T, <2>1 DEF Tiles
  <2>3. k \in Nat
    BY Bounds
  <2>4. k < t \/ k > o
    BY <1>2, <1>3, <1>9, <2>3
  <2>5. G[k] = F[k]
    BY <1>3, <2>4
  <2> QED
    BY <1>8, <2>2, <2>3, <2>4, <2>5
<1>10. ASSUME NEW j \in 1..p PROVE l[j].at \in Addresses /\ l[j].at # b /\ ~h.header[l[j].at].is_free
  <2>1. PICK x : x = <<l[j].at, OrderOf(l[j]), j>>
    OBVIOUS
  <2>2. x \in T /\ x # <<b, o, 0>> /\ x[1] = l[j].at
    BY <1>1, <1>T, <2>1 DEF Tiles
  <2> QED
    BY <1>1, <1>6, <1>8, <2>2
\* The right halves of b are free.
<1>11. ASSUME NEW k \in Orders, t <= k, k < o PROVE G[k] = b + BlockSize[k] /\ G[k] # Null
  <2>1. k \in Nat /\ BlockSize[k] \in Nat \ {0} /\ k \in 0..MaxOrder /\ o \in 0..MaxOrder
    BY <1>2, Bounds
  <2>2. G[k] = b + BlockSize[k]
    BY <1>2, <1>3, <1>11, <2>1
  <2>3. 2 * BlockSize[k] <= BlockSize[o]
    BY <1>11, <2>1, Multiple
  <2>4. BlockSize[o] \in Nat /\ PoolEnd \in Nat /\ Space \in Nat /\ PoolEnd <= Space /\ b \in Nat
    BY <1>3, <2>1, Bounds
  <2>5. b + BlockSize[k] \in 0..(Space - 1)
    BY <1>7, <2>1, <2>3, <2>4
  <2> QED
    BY <2>2, <2>5, Bounds
<1>12. Followed(h, b, t, o)
  <2>1. /\ h.header[b].order = t
        /\ t < o => h.header[b].buddy = b + BlockSize[t]
    BY <1>1, <1>6, <1>b, <1>t, <1>o
  <2>2. ASSUME NEW k \in Orders, t <= k, k < o
        PROVE  LET right == b + BlockSize[k] IN
               /\ h.free_lists[k] = right
               /\ h.header[right].order = k /\ h.header[right].is_free /\ h.header[right].next = Null
    BY <1>6, <1>11, <2>2
  <2> QED
    BY <1>7, <2>1, <2>2 DEF Followed
<1>13. h.free_lists[o] = Null
  BY <1>2, <1>3, <1>6
<1>y. PICK y : y = IF o = t THEN h.header[b].buddy ELSE NextBlock(b, o)
  OBVIOUS
<1>14. \/ y = Null
       \/ y = b + BlockSize[o] /\ y < PoolEnd
       \/ o = t /\ \E j \in 1..p : y = l[j].at /\ RightHalf(b, o, l, j, from)
  <2>1. CASE o # t
    BY <1>y, <2>1 DEF NextBlock
  <2>2. CASE o = t
    <3>1. PICK x : x = <<b, t, N>>
      OBVIOUS
    <3>2. x \in U /\ x[1] = b /\ x[2] = t /\ x[3] = N
      BY <1>5, <3>1 DEF Split
    <3>3. y = h.header[b].buddy
      BY <1>y, <2>2
    <3>4. \A j \in 1..N : j < N => j \in 1..p
      BY <1>1
    <3>5. BuddyOK(h, x, l, from)
      BY <1>6, <3>2
    <3> QED
      BY <1>1, <2>2, <3>2, <3>3, <3>4, <3>5 DEF BuddyOK
  <2> QED
    BY <2>1, <2>2
<1>15. Unmergeable(h, b, o, y)
  <2>1. CASE y = b + BlockSize[o] /\ y < PoolEnd
    <3>1. /\ BlockSize[o] \in Nat \ {0} /\ b \in Nat /\ PoolEnd \in Nat /\ PoolBase \in Nat
          /\ PoolEnd <= Space /\ Space \in Nat
      BY <1>2, <1>3, Bounds
    <3>z. PICK z : z = <<b, o, 0>>
      OBVIOUS
    <3>2. PoolBase <= b /\ z \in T /\ z[1] = b /\ z[2] = o
      BY <1>4, <1>5, <3>z DEF TilesPool, InPool
    <3>3. y \in PoolBase..(PoolEnd - 1) /\ y \in Nat /\ y # b
      BY <2>1, <3>1, <3>2
    <3>4. PICK x \in T : x[1] <= y /\ y < x[1] + BlockSize[x[2]]
      BY <1>4, <3>3 DEF TilesPool, Cover
    <3>5. x[1] \in Nat /\ x[2] \in 0..MaxOrder /\ BlockSize[x[2]] \in Nat \ {0}
      BY <1>4, Bounds DEF TileType
    <3>6. x # z
      BY <2>1, <3>1, <3>2, <3>4
    <3>7. x[1] + BlockSize[x[2]] <= b \/ b + BlockSize[o] <= x[1]
      BY <1>4, <3>2, <3>6 DEF TilesPool, Apart
    <3>8. x[1] = y
      BY <2>1, <3>1, <3>3, <3>4, <3>5, <3>7
    <3>9. y \in Addresses
      <4>1. y \in 0..(Space - 1)
        BY <3>1, <3>3
      <4> QED
        BY <4>1, Bounds
    <3>10. CASE \E k \in Orders : F[k] # Null /\ x = <<F[k], k, 0>>
      <4>1. PICK k \in Orders : F[k] # Null /\ x = <<F[k], k, 0>>
        BY <3>10
      <4>2. F[k] = y /\ k # o
        BY <1>3, <3>3, <3>8, <4>1
      <4>3. G[k] = y /\ G[k] # Null
        BY <1>9, <4>1, <4>2
      <4>4. h.header[y].order = k
        BY <1>6, <4>3
      <4> QED
        BY <3>3, <3>9, <4>2, <4>4 DEF Unmergeable, HeaderAt
    <3>11. CASE \E j \in 1..p : x = <<l[j].at, OrderOf(l[j]), j>>
      <4>1. PICK j \in 1..p : l[j].at = y
        BY <3>8, <3>11
      <4>2. ~h.header[y].is_free
        BY <1>10, <4>1
      <4> QED
        BY <3>3, <3>9, <4>2 DEF Unmergeable, HeaderAt
    <3> QED
      BY <1>T, <3>10, <3>11 DEF Tiles
  <2>2. CASE \E j \in 1..p : y = l[j].at
    <3>1. y \in Addresses /\ y # b /\ ~h.header[y].is_free
      BY <1>10, <2>2
    <3> QED
      BY <3>1 DEF Unmergeable, HeaderAt
  <2>3. CASE y = Null
    BY <2>3 DEF Unmergeable
  <2> QED
    BY <1>14, <2>1, <2>2, <2>3
<1>16. [i \in Orders |-> IF i = o THEN b ELSE IF t <= i /\ i < o THEN Null ELSE h.free_lists[i]] = F
  <2>1. ASSUME NEW i \in Orders
        PROVE  F[i] = IF i = o THEN b ELSE IF t <= i /\ i < o THEN Null ELSE h.free_lists[i]
    <3>1. i \in Nat
      BY Bounds
    <3> QED
      BY <1>2, <1>3, <1>6, <3>1
  <2> QED
    BY <1>2, <2>1
<1>g. PICK g : g = Freed(h, b)
  OBVIOUS
<1>17. Rejoined(h, b, o, y, F, g)
  <2>1. Rejoined(h, b, o, y, [i \in Orders |-> IF i = o THEN b ELSE IF t <= i /\ i < o THEN Null ELSE h.free_lists[i]],
                 Freed(h, b))
    BY <1>2, <1>3, <1>12, <1>13, <1>15, <1>y, FreedIs
  <2> QED
    BY <1>16, <1>g, <2>1
<1>18. /\ g \in Heaps /\ g.header[b] = [order |-> o, is_free |-> TRUE, next |-> Null, buddy |-> y]
       /\ \A a \in Addresses : a # b => g.header[a] = h.header[a]
       /\ g.free_lists = F
  BY <1>17 DEF Rejoined
\* The history without the last block
<1>m. PICK m : m = SubSeq(l, 1, p)
  OBVIOUS
<1>f. PICK f1 : f1 = [i \in 0..p |-> f[i]]
  OBVIOUS
<1>r. PICK from1 : from1 = [i \in 1..p |-> from[i]]
  OBVIOUS
<1>19. /\ m \in Seq(Held) /\ Len(m) = p /\ \A j \in 1..p : m[j] = l[j]
       /\ f1[p] = F /\ \A j \in 1..p : from1[j] = from[j]
  <2>1. \A j \in 1..p : from1[j] = from[j]
    BY <1>r
  <2>2. f1[p] = F
    BY <1>1, <1>f, <1>F
  <2>3. m \in Seq(Held)
    <3>1. \A i \in 1..p : l[i] \in Held
      <4>1. \A i \in 1..p : i \in 1..Len(l)
        BY <1>1
      <4> QED
        BY <4>1
    <3> QED
      BY <1>1, <1>m, <3>1, SubSeqProperties
  <2>4. Len(m) = p
    BY <1>1, <1>m
  <2>5. \A j \in 1..p : m[j] = l[j]
    BY <1>1, <1>m
  <2> QED
    BY <2>1, <2>2, <2>3, <2>4, <2>5
<1>20. History(m, f1, from1)
  <2>1. LET n == Len(l) - 1 IN
         History(SubSeq(l, 1, n), [i \in 0..n |-> f[i]], [i \in 1..n |-> from[i]])
    BY HistoryShrinks
  <2>2. History(SubSeq(l, 1, p), [i \in 0..p |-> f[i]], [i \in 1..p |-> from[i]])
    BY <1>1, <2>1
  <2> QED
    BY <1>f, <1>m, <1>r, <2>2
<1>21. ASSUME NEW k \in Orders, F[k] # Null
       PROVE  g.header[F[k]].order = k /\ g.header[F[k]].is_free /\ g.header[F[k]].next = Null
  <2>1. CASE k = o
    BY <1>3, <1>18, <2>1
  <2>2. CASE k # o
    <3>1. F[k] \in Addresses /\ F[k] # b /\ G[k] = F[k]
      BY <1>9, <1>21, <2>2
    <3>2. g.header[F[k]] = h.header[F[k]]
      BY <1>18, <3>1
    <3> QED
      BY <1>6, <1>21, <3>1, <3>2
  <2> QED
    BY <2>1, <2>2
<1>22. ASSUME NEW j \in 1..p
       PROVE  LET x == g.header[m[j].at] IN
              /\ x.order = OrderOf(m[j]) /\ ~x.is_free
              /\ OrderOf(m[j]) < from1[j] => x.buddy = m[j].at + BlockSize[OrderOf(m[j])]
  <2>1. m[j] = l[j] /\ from1[j] = from[j] /\ j \in 1..N /\ l[j].at \in Addresses /\ l[j].at # b
    BY <1>1, <1>10, <1>19
  <2>2. g.header[l[j].at] = h.header[l[j].at]
    BY <1>18, <2>1
  <2> QED
    BY <1>6, <2>1, <2>2
<1>23. ASSUME NEW x \in T PROVE BuddyOK(g, x, m, from1)
  <2>1. ASSUME NEW j \in 1..p, RightHalf(x[1], x[2], l, j, from)
        PROVE  m[j].at = l[j].at /\ RightHalf(x[1], x[2], m, j, from1)
    BY <1>19, <2>1 DEF RightHalf
  <2>2. CASE x = <<b, o, 0>>
    <3>1. x[1] = b /\ x[2] = o /\ x[3] = 0 /\ g.header[b].buddy = y
      BY <1>18, <2>2
    <3> QED
      BY <1>14, <1>19, <2>1, <3>1 DEF BuddyOK
  <2>3. CASE x # <<b, o, 0>>
    <3>1. x \in U /\ g.header[x[1]] = h.header[x[1]]
      BY <1>8, <1>18, <2>3
    <3>2. ASSUME NEW j \in 1..N, x[3] = 0 \/ j < x[3], RightHalf(x[1], x[2], l, j, from)
          PROVE  j \in 1..p
      <4>1. CASE \E k \in Orders : F[k] # Null /\ x = <<F[k], k, 0>>
        <5>1. PICK k \in Orders : F[k] # Null /\ x = <<F[k], k, 0>>
          BY <4>1
        <5>2. k # o
          BY <1>3, <2>3, <5>1
        <5>3. ~(t <= k /\ k < o)
          BY <1>3, <5>1
        <5>4. j # N
          BY <1>t, <1>o, <3>2, <5>1, <5>3 DEF RightHalf
        <5> QED
          BY <1>1, <5>4
      <4>2. CASE \E i \in 1..p : x = <<l[i].at, OrderOf(l[i]), i>>
        <5>1. PICK i \in 1..p : x[3] = i
          BY <4>2
        <5>2. i \in Nat /\ i # 0 /\ i < N /\ j \in Nat
          BY <1>1, <5>1
        <5> QED
          BY <1>1, <3>2, <5>1, <5>2
      <4> QED
        BY <1>T, <4>1, <4>2 DEF Tiles
    <3>3. BuddyOK(h, x, l, from)
      BY <1>6, <3>1
    <3> QED
      BY <1>19, <2>1, <3>1, <3>2, <3>3 DEF BuddyOK
  <2> QED
    BY <2>2, <2>3
<1>24. Matches(g, m, f1, from1)
  <2>1. Tiles(F, m, p) = T
    BY <1>19, <1>T DEF Tiles
  <2> QED
    BY <1>18, <1>19, <1>21, <1>22, <1>23, <2>1 DEF Matches
<1>25. SubSeq(l, 1, N - 1) = m /\ Freed(h, l[N].at) = g
  BY <1>1, <1>b, <1>g, <1>m
<1> QED
  BY <1>18, <1>19, <1>20, <1>24, <1>25

-----------------------------------------------------------------------------
(* The invariant *)

LEMMA InitInv == Init => IInv
<1> SUFFICES ASSUME Init PROVE IInv
  OBVIOUS
<1> DEFINE F == [k \in Orders |-> IF k = PoolOrder THEN PoolBase ELSE Null]
           H == [a \in Addresses |-> IF a = PoolBase THEN Fresh(PoolOrder) ELSE Blank]
<1>1. /\ MaxOrder \in Nat /\ PoolOrder \in Orders /\ PoolOrder \in 0..MaxOrder /\ 0 \in 0..MaxOrder
      /\ PoolBase \in Addresses /\ Null \notin Addresses
  <2>1. PoolBase \in 0..(Space - 1)
    BY Bounds
  <2> QED
    BY <2>1, Bounds
<1>2. heap = [header |-> H, free_lists |-> F, start |-> PoolBase, size |-> BlockSize[PoolOrder]]
  BY PoolOrderIs DEF Init, buddy_init
<1>3. H \in [Addresses -> Header]
  <2>1. Fresh(PoolOrder) \in Header /\ Blank \in Header
    BY <1>1 DEF Fresh, Blank, Header, Pointers
  <2> QED
    BY <2>1
<1>4. F \in [Orders -> Pointers] /\ F[PoolOrder] = PoolBase /\ \A k \in Orders : F[k] # Null => k = PoolOrder
  BY <1>1 DEF Pointers
<1>5. H[PoolBase] = [order |-> PoolOrder, is_free |-> TRUE, next |-> Null, buddy |-> Null]
  BY <1>1 DEF Fresh
<1>h. PICK h : h = heap
  OBVIOUS
<1>6. h \in Heaps /\ h.header = H /\ h.free_lists = F
  BY <1>2, <1>3, <1>4, <1>h DEF Heaps
<1>7. live = <<>> /\ live \in Seq(Held) /\ Len(live) = 0
  BY DEF Init
<1>f. PICK f : f = [i \in 0..0 |-> F]
  OBVIOUS
<1>r. PICK from : from = [i \in 1..0 |-> PoolOrder]
  OBVIOUS
<1>8. f[0] = F /\ f \in [0..0 -> [Orders -> Pointers]] /\ from \in [1..0 -> Orders] /\ \A i \in 1..0 : FALSE
  BY <1>4, <1>f, <1>r
<1> HIDE DEF F, H
<1>9. History(live, f, from)
  BY <1>7, <1>8 DEF History, F
<1>10. \A x \in Tiles(F, live, 0) : x = <<PoolBase, PoolOrder, 0>>
  BY <1>4 DEF Tiles
<1>11. ASSUME NEW x \in Tiles(F, live, 0) PROVE BuddyOK(h, x, live, from)
  <2>1. x[1] = PoolBase
    BY <1>10
  <2> QED
    BY <1>5, <1>6, <2>1 DEF BuddyOK
<1>12. Matches(h, live, f, from)
  BY <1>4, <1>5, <1>6, <1>7, <1>8, <1>11 DEF Matches
<1> QED
  BY <1>6, <1>7, <1>9, <1>12, <1>h DEF IInv, Init

LEMMA NextInv == ~AnyOrder /\ IInv /\ [Next]_vars => IInv'
<1> SUFFICES ASSUME ~AnyOrder, IInv, [Next]_vars PROVE IInv'
  OBVIOUS
<1>1. /\ heap \in Heaps /\ live \in Seq(Held)
      /\ pools = {[base |-> PoolBase, size |-> BlockSize[PoolOrder]]}
  BY DEF IInv
<1>2. PICK f, from : History(live, f, from) /\ Matches(heap, live, f, from)
  BY DEF IInv
<1>3. CASE UNCHANGED vars
  BY <1>1, <1>2, <1>3 DEF IInv, vars
<1>4. CASE MallocSome
  <2>1. PICK n \in Requests : Malloc(n)
    BY <1>4 DEF MallocSome
  <2>2. /\ ~NeedsPool(heap, n) /\ heap' = Take(heap, n).heap /\ pools' = pools
        /\ live' = Append(live, [at |-> Take(heap, n).block, size |-> n])
    BY <2>1 DEF Malloc
  <2>3. LET m == Append(live, [at |-> Take(heap, n).block, size |-> n]) IN
         /\ Take(heap, n).heap \in Heaps /\ m \in Seq(Held)
         /\ \E f2, from2 : History(m, f2, from2) /\ Matches(Take(heap, n).heap, m, f2, from2)
    BY <1>1, <1>2, <2>2, MallocStep
  <2>4. /\ heap' \in Heaps /\ live' \in Seq(Held)
        /\ \E f2, from2 : History(live', f2, from2) /\ Matches(heap', live', f2, from2)
    BY <2>2, <2>3
  <2> QED
    BY <1>1, <2>2, <2>4 DEF IInv
<1>5. CASE FreeSome
  <2>1. PICK i \in DOMAIN live : i = Len(live) /\ Free(i)
    BY <1>5 DEF FreeSome
  <2>n. PICK n : n = Len(live)
    OBVIOUS
  <2>2. /\ i = n /\ n # 0 /\ n \in Nat /\ pools' = pools
        /\ heap' = Freed(heap, live[n].at)
        /\ live' = SubSeq(live, 1, n - 1) \o SubSeq(live, n + 1, n)
    BY <1>1, <2>1, <2>n DEF Free, Freed
  <2>3. /\ Freed(heap, live[n].at) \in Heaps /\ SubSeq(live, 1, n - 1) \in Seq(Held)
        /\ \E f1, from1 : /\ History(SubSeq(live, 1, n - 1), f1, from1)
                          /\ Matches(Freed(heap, live[n].at), SubSeq(live, 1, n - 1), f1, from1)
    BY <1>1, <1>2, <2>2, <2>n, FreeStep
  <2>4. live' = SubSeq(live, 1, n - 1)
    <3>1. SubSeq(live, n + 1, n) = <<>>
      BY <1>1, <2>2
    <3>2. PICK m : m = SubSeq(live, 1, n - 1)
      OBVIOUS
    <3>3. m \in Seq(Held) /\ m \o <<>> = m
      BY <2>3, <3>2
    <3> QED
      BY <2>2, <3>1, <3>2, <3>3
  <2>5. /\ heap' \in Heaps /\ live' \in Seq(Held)
        /\ \E f1, from1 : History(live', f1, from1) /\ Matches(heap', live', f1, from1)
    BY <2>2, <2>3, <2>4
  <2> QED
    BY <1>1, <2>2, <2>5 DEF IInv
<1> QED
  BY <1>3, <1>4, <1>5 DEF Next

\* However many blocks callers take, of whatever sizes, as long as they free them newest
\* first, the heap is one that the blocks still held account for: buddy_init, malloc and
\* free keep the invariant.
THEOREM InvHolds ==
  ASSUME ~AnyOrder
  PROVE  Spec => []IInv
<1>1. IInv /\ [Next]_vars => IInv'
  BY NextInv
<1> QED
  BY <1>1, InitInv, PTL DEF Spec

-----------------------------------------------------------------------------
(* What the invariant says of the blocks *)

\* The invariant with the lists as they are now, for list from of each held block
Shape(from) ==
    LET F == heap.free_lists
        N == Len(live)
        T == Tiles(F, live, N)
    IN /\ heap \in Heaps /\ live \in Seq(Held) /\ F \in [Orders -> Pointers]
       /\ pools = {[base |-> PoolBase, size |-> BlockSize[PoolOrder]]}
       /\ T \in SUBSET TileType /\ TilesPool(T) /\ Halves(F, live, N, from)
       /\ \A k \in Orders : F[k] # Null =>
            heap.header[F[k]].order = k /\ heap.header[F[k]].is_free /\ heap.header[F[k]].next = Null
       /\ \A k \in Orders : Listed(heap, k) = IF F[k] = Null THEN <<>> ELSE <<F[k]>>
       /\ \A j \in 1..N :
            /\ heap.header[live[j].at].order = OrderOf(live[j])
            /\ from[j] \in Orders /\ Aligned(live[j].at, from[j])
       /\ \A x \in T : BuddyOK(heap, x, live, from)

\* Where a held block was taken from, and how much of it is used
LEMMA HeldFits ==
  ASSUME NEW l \in Seq(Held), NEW f, NEW from, History(l, f, from), NEW j \in 1..Len(l)
  PROVE  /\ from[j] \in Orders /\ Aligned(l[j].at, from[j])
         /\ OrderOf(l[j]) \in Orders /\ l[j].size <= BlockSize[OrderOf(l[j])]
         /\ PoolBase <= l[j].at /\ l[j].at + BlockSize[OrderOf(l[j])] <= PoolEnd
         /\ \A i \in 1..Len(l) : i # j =>
                \/ l[i].at + BlockSize[OrderOf(l[i])] <= l[j].at
                \/ l[j].at + BlockSize[OrderOf(l[j])] <= l[i].at
<1>1. /\ Len(l) \in Nat /\ j - 1 \in 0..Len(l) /\ Len(l) \in 0..Len(l)
  OBVIOUS
<1>2. /\ f[j - 1] \in [Orders -> Pointers] /\ from[j] \in Orders
      /\ Took(f[j - 1], l[j], from[j], f[j])
  BY <1>1 DEF History
<1>3. TilesPool(Tiles(f[j - 1], l, j - 1)) /\ TilesPool(Tiles(f[Len(l)], l, Len(l)))
  BY <1>1, HistoryTiles DEF Tiling
<1>4. <<l[j].at, from[j], 0>> \in Tiles(f[j - 1], l, j - 1)
  BY <1>2, <1>3, TookSplits
<1>5. Aligned(l[j].at, from[j])
  <2>1. PICK x : x = <<l[j].at, from[j], 0>>
    OBVIOUS
  <2>2. x \in Tiles(f[j - 1], l, j - 1) /\ x[1] = l[j].at /\ x[2] = from[j]
    BY <1>4, <2>1
  <2> QED
    BY <1>3, <2>2 DEF TilesPool
<1>6. OrderOf(l[j]) \in Orders /\ l[j].size <= BlockSize[OrderOf(l[j])]
  <2>1. l[j].size \in Nat /\ OrderOf(l[j]) \in 0..MaxOrder
    BY HeldIs
  <2>2. OrderOf(l[j]) <= from[j]
    BY <1>2 DEF Took
  <2>3. OrderOf(l[j]) \in Orders
    BY <1>2, <2>1, <2>2, Bounds
  <2> QED
    BY <2>1, <2>3, OrderIs, Bounds DEF OrderOf
<1>x. PICK x : x = <<l[j].at, OrderOf(l[j]), j>>
  OBVIOUS
<1>7. x \in Tiles(f[Len(l)], l, Len(l)) /\ x[1] = l[j].at /\ x[2] = OrderOf(l[j]) /\ x[3] = j
  BY <1>x DEF Tiles
<1>8. PoolBase <= l[j].at /\ l[j].at + BlockSize[OrderOf(l[j])] <= PoolEnd
  BY <1>3, <1>7 DEF TilesPool, InPool
<1>9. ASSUME NEW i \in 1..Len(l), i # j
      PROVE  \/ l[i].at + BlockSize[OrderOf(l[i])] <= l[j].at
             \/ l[j].at + BlockSize[OrderOf(l[j])] <= l[i].at
  <2>1. PICK y : y = <<l[i].at, OrderOf(l[i]), i>>
    OBVIOUS
  <2>2. y \in Tiles(f[Len(l)], l, Len(l)) /\ y[1] = l[i].at /\ y[2] = OrderOf(l[i]) /\ x # y
    BY <1>7, <1>9, <2>1 DEF Tiles
  <2> QED
    BY <1>3, <1>7, <2>2 DEF TilesPool, Apart
<1> QED
  BY <1>2, <1>5, <1>6, <1>8, <1>9

LEMMA ShapeIs ==
  ASSUME IInv
  PROVE  \E from : Shape(from)
<1>1. /\ heap \in Heaps /\ live \in Seq(Held)
      /\ pools = {[base |-> PoolBase, size |-> BlockSize[PoolOrder]]}
  BY DEF IInv
<1>2. PICK f, from : History(live, f, from) /\ Matches(heap, live, f, from)
  BY DEF IInv
<1>3. Len(live) \in 0..Len(live)
  BY <1>1
<1>4. heap.free_lists = f[Len(live)]
  BY <1>2 DEF Matches
<1>5. heap.free_lists \in [Orders -> Pointers]
  BY <1>1, HeapIs
<1>T. PICK T : T = Tiles(heap.free_lists, live, Len(live))
  OBVIOUS
<1>6. TilesPool(T) /\ Halves(heap.free_lists, live, Len(live), from) /\ T \in SUBSET TileType
  <2>1. Tiling(live, f, from)
    BY <1>1, <1>2, HistoryTiles
  <2>2. Tiles(heap.free_lists, live, Len(live)) \in SUBSET TileType
    BY <1>1, <1>3, <1>5, TilesTyped
  <2> QED
    BY <1>3, <1>4, <1>T, <2>1, <2>2 DEF Tiling
<1>7. /\ \A k \in Orders : heap.free_lists[k] # Null =>
            /\ heap.header[heap.free_lists[k]].order = k /\ heap.header[heap.free_lists[k]].is_free
            /\ heap.header[heap.free_lists[k]].next = Null
      /\ \A j \in 1..Len(live) : heap.header[live[j].at].order = OrderOf(live[j])
      /\ \A x \in T : BuddyOK(heap, x, live, from)
  BY <1>2, <1>4, <1>T DEF Matches
<1>8. ASSUME NEW k \in Orders
      PROVE  Listed(heap, k) = IF heap.free_lists[k] = Null THEN <<>> ELSE <<heap.free_lists[k]>>
  BY <1>7, ListedIs
<1>9. \A j \in 1..Len(live) : from[j] \in Orders /\ Aligned(live[j].at, from[j])
  BY <1>1, <1>2, HeldFits
<1>10. Shape(from)
  BY <1>1, <1>5, <1>6, <1>7, <1>8, <1>9, <1>T DEF Shape
<1> QED
  BY <1>10

LEMMA InBlocks ==
  ASSUME NEW z
  PROVE  z \in Blocks <=>
            \/ \E o \in Orders : \E i \in DOMAIN Listed(heap, o) : z = <<Listed(heap, o)[i], BlockSize[o]>>
            \/ \E i \in DOMAIN live : z = <<live[i].at, BlockSize[heap.header[live[i].at].order]>>
<1> DEFINE list(o) == {<<Listed(heap, o)[i], BlockSize[o]>> : i \in DOMAIN Listed(heap, o)}
           taken == {<<live[i].at, BlockSize[heap.header[live[i].at].order]>> : i \in DOMAIN live}
           lists == UNION {list(o) : o \in Orders}
<1>1. Blocks = lists \cup taken
  BY DEF Blocks
<1>2. \A o \in Orders : z \in list(o) <=> \E i \in DOMAIN Listed(heap, o) : z = <<Listed(heap, o)[i], BlockSize[o]>>
  OBVIOUS
<1>3. z \in taken <=> \E i \in DOMAIN live : z = <<live[i].at, BlockSize[heap.header[live[i].at].order]>>
  OBVIOUS
<1> HIDE DEF list, taken
<1>4. z \in lists <=> \E o \in Orders : z \in list(o)
  OBVIOUS
<1> HIDE DEF lists
<1>5. z \in Blocks <=> (\E o \in Orders : z \in list(o)) \/ z \in taken
  BY <1>1, <1>4
<1>6. (\E o \in Orders : z \in list(o))
         <=> \E o \in Orders : \E i \in DOMAIN Listed(heap, o) : z = <<Listed(heap, o)[i], BlockSize[o]>>
  BY <1>2
<1> QED
  BY <1>3, <1>5, <1>6

\* The blocks, one for each tile
LEMMA BlocksAre ==
  ASSUME NEW from, Shape(from)
  PROVE  Blocks = {<<x[1], BlockSize[x[2]]>> : x \in Tiles(heap.free_lists, live, Len(live))}
<1> DEFINE F == heap.free_lists
           N == Len(live)
           T == Tiles(F, live, N)
           B == {<<x[1], BlockSize[x[2]]>> : x \in T}
<1>1. /\ \A k \in Orders : Listed(heap, k) = IF F[k] = Null THEN <<>> ELSE <<F[k]>>
      /\ \A j \in 1..N : heap.header[live[j].at].order = OrderOf(live[j])
      /\ live \in Seq(Held)
  BY DEF Shape
<1>2. DOMAIN live = 1..N
  BY <1>1
<1>3. ASSUME NEW k \in Orders
      PROVE  /\ F[k] = Null => DOMAIN Listed(heap, k) = {}
             /\ F[k] # Null => DOMAIN Listed(heap, k) = {1} /\ Listed(heap, k)[1] = F[k]
  <2>1. CASE F[k] = Null
    BY <1>1, <2>1
  <2>2. CASE F[k] # Null
    <3>1. Listed(heap, k) = <<F[k]>>
      BY <1>1, <2>2
    <3> HIDE DEF F
    <3> QED
      BY <2>2, <3>1
  <2> QED
    BY <2>1, <2>2
<1>4. ASSUME NEW z \in Blocks PROVE z \in B
  <2>1. CASE \E o \in Orders : \E i \in DOMAIN Listed(heap, o) : z = <<Listed(heap, o)[i], BlockSize[o]>>
    <3>1. PICK o \in Orders : \E i \in DOMAIN Listed(heap, o) : z = <<Listed(heap, o)[i], BlockSize[o]>>
      BY <2>1
    <3>2. F[o] # Null /\ z = <<F[o], BlockSize[o]>>
      BY <1>3, <3>1
    <3>3. PICK x : x = <<F[o], o, 0>>
      OBVIOUS
    <3>4. x \in T /\ x[1] = F[o] /\ x[2] = o
      BY <3>2, <3>3 DEF Tiles
    <3> QED
      BY <3>2, <3>4
  <2>2. CASE \E j \in DOMAIN live : z = <<live[j].at, BlockSize[heap.header[live[j].at].order]>>
    <3>1. PICK j \in 1..N : z = <<live[j].at, BlockSize[OrderOf(live[j])]>>
      BY <1>1, <1>2, <2>2
    <3>2. PICK x : x = <<live[j].at, OrderOf(live[j]), j>>
      OBVIOUS
    <3>3. x \in T /\ x[1] = live[j].at /\ x[2] = OrderOf(live[j])
      BY <3>2 DEF Tiles
    <3> QED
      BY <3>1, <3>3
  <2> HIDE DEF B
  <2> QED
    BY <1>4, <2>1, <2>2, InBlocks
<1>5. ASSUME NEW x \in T PROVE <<x[1], BlockSize[x[2]]>> \in Blocks
  <2>1. CASE \E k \in Orders : F[k] # Null /\ x = <<F[k], k, 0>>
    <3>1. PICK k \in Orders : F[k] # Null /\ x = <<F[k], k, 0>>
      BY <2>1
    <3>2. 1 \in DOMAIN Listed(heap, k) /\ Listed(heap, k)[1] = F[k] /\ x[1] = F[k] /\ x[2] = k
      BY <1>3, <3>1
    <3> QED
      BY <3>2, InBlocks
  <2>2. CASE \E j \in 1..N : x = <<live[j].at, OrderOf(live[j]), j>>
    <3>1. PICK j \in 1..N : x = <<live[j].at, OrderOf(live[j]), j>>
      BY <2>2
    <3>2. x[1] = live[j].at /\ x[2] = heap.header[live[j].at].order /\ j \in DOMAIN live
      BY <1>1, <1>2, <3>1
    <3> QED
      BY <3>2, InBlocks
  <2> QED
    BY <1>5, <2>1, <2>2 DEF Tiles
<1> QED
  BY <1>4, <1>5

\* The callers' blocks have a tile each.
LEMMA LiveTiles ==
  ASSUME NEW from, Shape(from), NEW j \in DOMAIN live, NEW k \in Orders, heap.free_lists[k] # Null
  PROVE  live[j].at # heap.free_lists[k]
<1> PICK T : T = Tiles(heap.free_lists, live, Len(live))
  OBVIOUS
<1>1. T \in SUBSET TileType /\ TilesPool(T) /\ live \in Seq(Held)
  BY DEF Shape
<1>2. PICK x : x = <<live[j].at, OrderOf(live[j]), j>>
  OBVIOUS
<1>3. x \in T /\ x[1] = live[j].at /\ x[3] = j /\ j # 0
  BY <1>1, <1>2 DEF Tiles
<1>4. <<heap.free_lists[k], k, 0>> \in T
  BY DEF Tiles
<1>5. x # <<heap.free_lists[k], k, 0>>
  BY <1>3
<1> QED
  BY <1>1, <1>3, <1>4, <1>5, Elsewhere

-----------------------------------------------------------------------------
(* The properties *)

LEMMA ListsAreSound == IInv => ListsSound
<1> SUFFICES ASSUME IInv PROVE ListsSound
  OBVIOUS
<1>1. PICK from : Shape(from)
  BY ShapeIs
<1> SUFFICES ASSUME NEW o \in Orders
             PROVE  LET list == Listed(heap, o) IN
                    /\ \A i, j \in DOMAIN list : list[i] = list[j] => i = j
                    /\ \A i \in DOMAIN list :
                        /\ heap.header[list[i]].order = o /\ heap.header[list[i]].is_free
                        /\ \A k \in DOMAIN live : live[k].at # list[i]
  BY DEF ListsSound
<1> PICK list : list = Listed(heap, o)
  OBVIOUS
<1>2. CASE heap.free_lists[o] = Null
  <2>1. DOMAIN list = {}
    BY <1>1, <1>2 DEF Shape
  <2> QED
    BY <2>1
<1>3. CASE heap.free_lists[o] # Null
  <2>1. list = <<heap.free_lists[o]>>
    BY <1>1, <1>3 DEF Shape
  <2>2. DOMAIN list = {1} /\ list[1] = heap.free_lists[o]
    BY <2>1
  <2>3. heap.header[list[1]].order = o /\ heap.header[list[1]].is_free
    BY <1>1, <1>3, <2>2 DEF Shape
  <2>4. \A k \in DOMAIN live : live[k].at # list[1]
    BY <1>1, <1>3, <2>2, LiveTiles
  <2> QED
    BY <2>2, <2>3, <2>4
<1> QED
  BY <1>2, <1>3

LEMMA BlocksTile == IInv => Tiled
<1> SUFFICES ASSUME IInv PROVE Tiled
  OBVIOUS
<1>1. PICK from : Shape(from)
  BY ShapeIs
<1>T. PICK T : T = Tiles(heap.free_lists, live, Len(live))
  OBVIOUS
<1>2. Blocks = {<<x[1], BlockSize[x[2]]>> : x \in T}
  BY <1>1, <1>T, BlocksAre
<1>3. /\ T \in SUBSET TileType /\ TilesPool(T)
      /\ pools = {[base |-> PoolBase, size |-> BlockSize[PoolOrder]]}
  BY <1>1, <1>T DEF Shape
<1>4. \A x \in T : x[1] \in Nat /\ x[2] \in 0..MaxOrder /\ BlockSize[x[2]] \in Nat \ {0}
  BY <1>3, Bounds DEF TileType
<1>5. PoolBase \in Nat /\ PoolEnd \in Nat /\ PoolEnd = PoolBase + BlockSize[PoolOrder] /\ BlockSize[PoolOrder] \in Nat
  BY Bounds
<1>6. ASSUME NEW x \in Blocks, NEW y \in Blocks, x # y
      PROVE  Extent(x[1], x[2]) \cap Extent(y[1], y[2]) = {}
  <2>1. PICK u \in T : x = <<u[1], BlockSize[u[2]]>>
    BY <1>2
  <2>2. PICK v \in T : y = <<v[1], BlockSize[v[2]]>>
    BY <1>2
  <2>3. u # v
    BY <1>6, <2>1, <2>2
  <2>4. u[1] + BlockSize[u[2]] <= v[1] \/ v[1] + BlockSize[v[2]] <= u[1]
    BY <1>3, <2>3 DEF TilesPool, Apart
  <2>5. /\ x[1] = u[1] /\ x[2] = BlockSize[u[2]] /\ y[1] = v[1] /\ y[2] = BlockSize[v[2]]
        /\ u[1] \in Nat /\ BlockSize[u[2]] \in Nat /\ v[1] \in Nat /\ BlockSize[v[2]] \in Nat
    BY <1>4, <2>1, <2>2
  <2> QED
    BY <2>4, <2>5 DEF Extent
<1> DEFINE units == UNION {Extent(x[1], x[2]) : x \in Blocks}
           mapped == UNION {Extent(p.base, p.size) : p \in pools}
<1>7. mapped = PoolBase..(PoolEnd - 1)
  <2>1. PICK p : p = [base |-> PoolBase, size |-> BlockSize[PoolOrder]]
    OBVIOUS
  <2>2. p.base = PoolBase /\ p.size = BlockSize[PoolOrder] /\ pools = {p}
    BY <1>3, <2>1
  <2>3. mapped = Extent(p.base, p.size)
    BY <2>2
  <2> QED
    BY <1>5, <2>2, <2>3 DEF Extent
<1>8. \A u : u \in units <=> \E x \in Blocks : u \in Extent(x[1], x[2])
  OBVIOUS
<1> HIDE DEF units, mapped
<1>9. ASSUME NEW u \in units PROVE u \in PoolBase..(PoolEnd - 1)
  <2>1. PICK x \in Blocks : u \in Extent(x[1], x[2])
    BY <1>8
  <2>2. PICK t \in T : x = <<t[1], BlockSize[t[2]]>>
    BY <1>2
  <2>3. PoolBase <= t[1] /\ t[1] + BlockSize[t[2]] <= PoolEnd
    BY <1>3 DEF TilesPool, InPool
  <2>4. u \in t[1]..(t[1] + BlockSize[t[2]] - 1)
    BY <2>1, <2>2 DEF Extent
  <2> QED
    BY <1>4, <1>5, <2>3, <2>4
<1>10. ASSUME NEW u \in PoolBase..(PoolEnd - 1) PROVE u \in units
  <2>1. PICK t \in T : t[1] <= u /\ u < t[1] + BlockSize[t[2]]
    BY <1>3 DEF TilesPool, Cover
  <2>2. PICK x : x = <<t[1], BlockSize[t[2]]>>
    OBVIOUS
  <2>3. x \in Blocks /\ x[1] = t[1] /\ x[2] = BlockSize[t[2]]
    BY <1>2, <2>2
  <2>4. u \in Extent(x[1], x[2])
    BY <1>4, <1>5, <2>1, <2>3 DEF Extent
  <2> QED
    BY <1>8, <2>3, <2>4
<1>11. units = mapped
  BY <1>7, <1>9, <1>10
<1> QED
  BY <1>6, <1>11 DEF Tiled, units, mapped

LEMMA BuddiesAreBlocks == IInv => BuddyIsBlock
<1> SUFFICES ASSUME IInv PROVE BuddyIsBlock
  OBVIOUS
<1>1. PICK from : Shape(from)
  BY ShapeIs
<1>T. PICK T : T = Tiles(heap.free_lists, live, Len(live))
  OBVIOUS
<1>2. Blocks = {<<x[1], BlockSize[x[2]]>> : x \in T}
  BY <1>1, <1>T, BlocksAre
<1>3. /\ T \in SUBSET TileType /\ TilesPool(T)
      /\ \A x \in T : BuddyOK(heap, x, live, from)
  BY <1>1, <1>T DEF Shape
<1>4. \A x \in T : x[1] \in Nat /\ x[2] \in 0..MaxOrder /\ BlockSize[x[2]] \in Nat \ {0}
  BY <1>3, Bounds DEF TileType
<1>5. ASSUME NEW v \in T, NEW a, a = v[1]
      PROVE  \E y \in Blocks : y[1] = a
  <2>1. PICK y : y = <<v[1], BlockSize[v[2]]>>
    OBVIOUS
  <2>2. y \in Blocks /\ y[1] = a
    BY <1>2, <1>5, <2>1
  <2> QED
    BY <2>2
<1> SUFFICES ASSUME NEW z \in Blocks, heap.header[z[1]].buddy # Null
             PROVE  \E y \in Blocks : y[1] = heap.header[z[1]].buddy
  BY DEF BuddyIsBlock
<1>6. PICK x \in T : z = <<x[1], BlockSize[x[2]]>>
  BY <1>2
<1>b. PICK b : b = heap.header[x[1]].buddy
  OBVIOUS
<1>7. z[1] = x[1] /\ BuddyOK(heap, x, live, from) /\ b # Null /\ b = heap.header[z[1]].buddy
  BY <1>3, <1>6, <1>b
<1>8. CASE b = x[1] + BlockSize[x[2]] /\ b < PoolEnd
  <2>1. x[1] \in Nat /\ BlockSize[x[2]] \in Nat \ {0} /\ PoolEnd \in Nat /\ PoolBase \in Nat /\ PoolBase <= x[1]
    BY <1>3, <1>4, Bounds DEF TilesPool, InPool
  <2>2. b \in PoolBase..(PoolEnd - 1) /\ b \in Nat
    BY <1>8, <2>1
  <2>3. PICK v \in T : v[1] <= b /\ b < v[1] + BlockSize[v[2]]
    BY <1>3, <2>2 DEF TilesPool, Cover
  <2>4. v # x
    BY <1>8, <2>1, <2>3
  <2>5. x[1] + BlockSize[x[2]] <= v[1] \/ v[1] + BlockSize[v[2]] <= x[1]
    BY <1>3, <2>4 DEF TilesPool, Apart
  <2>6. v[1] = b
    BY <1>4, <1>8, <2>1, <2>2, <2>3, <2>5
  <2> QED
    BY <1>5, <1>7, <2>6
<1>9. CASE \E j \in 1..Len(live) : b = live[j].at
  <2>1. PICK j \in 1..Len(live) : b = live[j].at
    BY <1>9
  <2>2. PICK v : v = <<live[j].at, OrderOf(live[j]), j>>
    OBVIOUS
  <2>3. v \in T /\ v[1] = b
    BY <1>T, <2>1, <2>2 DEF Tiles
  <2> QED
    BY <1>5, <1>7, <2>3
<1> QED
  BY <1>7, <1>8, <1>9, <1>b DEF BuddyOK

\* An odd multiple of a size and an even one are apart.
LEMMA OddEven ==
  ASSUME NEW s \in Nat \ {0}, NEW u \in Nat, NEW v \in Nat, (2 * u + 1) * s <= (2 * v) * s
  PROVE  (2 * u + 1) * s + s <= (2 * v) * s
<1>1. u < v
  <2>1. v <= u => (2 * v) * s <= (2 * u) * s
    <3>1. \A p, q, r \in Nat : p <= q => p * r <= q * r
      OBVIOUS
    <3>2. 2 * v \in Nat /\ 2 * u \in Nat /\ s \in Nat /\ (v <= u => 2 * v <= 2 * u)
      OBVIOUS
    <3> QED
      BY <3>1, <3>2
  <2>2. (2 * u + 1) * s = (2 * u) * s + s
    OBVIOUS
  <2>3. (2 * u) * s \in Nat /\ (2 * v) * s \in Nat
    OBVIOUS
  <2> QED
    BY <2>1, <2>2, <2>3
<1>2. (2 * u + 2) * s <= (2 * v) * s
  <2>1. \A p, q, r \in Nat : p <= q => p * r <= q * r
    OBVIOUS
  <2>2. 2 * u + 2 \in Nat /\ 2 * v \in Nat /\ s \in Nat /\ 2 * u + 2 <= 2 * v
    BY <1>1
  <2> QED
    BY <2>1, <2>2
<1>3. (2 * u + 1) * s + s = (2 * u + 2) * s
  OBVIOUS
<1> QED
  BY <1>2, <1>3

\* The free block that begins where an aligned stretch of a larger order does would be a
\* right half, and right halves lie at odd multiples of their size.
LEMMA NotRightHalf ==
  ASSUME NEW t \in 0..MaxOrder, NEW k \in Orders, k < t, NEW q \in Orders, k < q,
         NEW K \in Nat, NEW a, a = PoolBase + K * BlockSize[t],
         NEW c, Aligned(c, q), NEW b, b = c + BlockSize[k], b <= a, a < b + BlockSize[k]
  PROVE  FALSE
<1>1. k \in 0..MaxOrder /\ q \in 0..MaxOrder /\ k + 1 \in 0..MaxOrder /\ k + 1 <= t /\ k + 1 <= q /\ k \in Nat
  BY Bounds
<1>s. PICK s : s = BlockSize[k]
  OBVIOUS
<1>2. s \in Nat \ {0} /\ BlockSize[k + 1] = 2 * s /\ PoolBase \in Nat
  <2>1. k + 1 \in 1..MaxOrder /\ (k + 1) - 1 = k
    BY <1>1
  <2>2. BlockSize[k + 1] = 2 * BlockSize[k]
    BY <2>1, Sizes
  <2> QED
    BY <1>1, <1>s, <2>2, Bounds
<1>3. PICK d \in Nat : BlockSize[q] = d * BlockSize[k + 1]
  BY <1>1, Multiple
<1>4. PICK e \in Nat : BlockSize[t] = e * BlockSize[k + 1]
  BY <1>1, Multiple
<1>5. PICK m \in Nat : c = PoolBase + m * BlockSize[q]
  BY DEF Aligned
<1>6. PICK u \in Nat : u = m * d
  OBVIOUS
<1>7. PICK v \in Nat : v = K * e
  OBVIOUS
<1>8. m * BlockSize[q] = (2 * u) * s
  <2>1. m * (d * (2 * s)) = (2 * (m * d)) * s
    BY <1>2
  <2> QED
    BY <1>2, <1>3, <1>6, <2>1
<1>9. K * BlockSize[t] = (2 * v) * s
  <2>1. K * (e * (2 * s)) = (2 * (K * e)) * s
    BY <1>2
  <2> QED
    BY <1>2, <1>4, <1>7, <2>1
<1>10. (2 * u) * s + s = (2 * u + 1) * s
  BY <1>2
<1>11. (2 * u) * s \in Nat /\ (2 * v) * s \in Nat /\ (2 * u + 1) * s \in Nat
  BY <1>2
<1>12. b = PoolBase + (2 * u + 1) * s /\ a = PoolBase + (2 * v) * s
  BY <1>2, <1>5, <1>8, <1>9, <1>10, <1>11, <1>s
<1>13. (2 * u + 1) * s <= (2 * v) * s
  BY <1>2, <1>11, <1>12
<1>14. (2 * u + 1) * s + s <= (2 * v) * s
  BY <1>2, <1>13, OddEven
<1> QED
  BY <1>2, <1>11, <1>12, <1>14, <1>s

\* A request that no list can serve, with an aligned stretch for it in the pool
LEMMA StretchIsHeld ==
  ASSUME NEW from, Shape(from), NEW n \in Requests, NeedsPool(heap, n),
         NEW K \in Nat, NEW a, a = PoolBase + K * BlockSize[get_order(n)],
         a + BlockSize[get_order(n)] <= PoolEnd
  PROVE  \E j \in 1..Len(live) : live[j].at <= a /\ a < live[j].at + BlockSize[OrderOf(live[j])]
<1>t. PICK t : t = get_order(n)
  OBVIOUS
<1>F. PICK F : F = heap.free_lists
  OBVIOUS
<1>T. PICK T : T = Tiles(F, live, Len(live))
  OBVIOUS
<1>1. n \in Nat /\ t \in 0..MaxOrder /\ (t < MaxOrder => n <= BlockSize[t])
  <2>1. n \in Nat
    BY BuddyAssumption
  <2> QED
    BY <1>t, <2>1, OrderIs
<1>2. /\ a = PoolBase + K * BlockSize[t] /\ a + BlockSize[t] <= PoolEnd /\ BlockSize[t] \in Nat \ {0}
      /\ PoolBase \in Nat /\ PoolEnd \in Nat /\ PoolEnd = PoolBase + BlockSize[PoolOrder]
      /\ PoolOrder \in 0..MaxOrder /\ PoolOrder < MaxOrder /\ BlockSize[PoolOrder] \in Nat \ {0} /\ MaxOrder \in Nat
  BY <1>1, <1>t, Bounds
<1>3. K * BlockSize[t] \in Nat /\ a \in Nat /\ PoolBase <= a /\ a < PoolEnd
  <2>1. K * BlockSize[t] \in Nat
    BY <1>2
  <2> QED
    BY <1>2, <2>1
<1>4. t <= PoolOrder
  <2>1. PoolOrder < t => 2 * BlockSize[PoolOrder] <= BlockSize[t]
    BY <1>1, <1>2, Multiple
  <2> QED
    BY <1>1, <1>2, <1>3, <2>1
<1>5. \A k \in Orders : F[k] # Null => k < t
  <2>1. BlockSize[t] <= BlockSize[PoolOrder]
    BY <1>1, <1>2, <1>4, Multiple
  <2>2. heap.size = BlockSize[PoolOrder]
    BY HeapIs DEF Shape
  <2>3. n <= BlockSize[t]
    BY <1>1, <1>2, <1>4
  <2>4. ~(n > heap.size)
    BY <1>1, <1>2, <2>1, <2>2, <2>3
  <2>5. Usable(heap, n) = {}
    BY <2>4 DEF NeedsPool
  <2>6. \A k \in Orders : ~(k >= t /\ F[k] # Null)
    BY <1>F, <1>t, <2>5 DEF Usable
  <2> QED
    BY <1>1, <2>6, Bounds
<1>6. TilesPool(T) /\ Halves(F, live, Len(live), from) /\ live \in Seq(Held)
  BY <1>F, <1>T DEF Shape
<1>7. PICK x \in T : x[1] <= a /\ a < x[1] + BlockSize[x[2]]
  <2>1. a \in PoolBase..(PoolEnd - 1)
    BY <1>2, <1>3
  <2> QED
    BY <1>6, <2>1 DEF TilesPool, Cover
<1>8. CASE \E k \in Orders : F[k] # Null /\ x = <<F[k], k, 0>>
  <2>1. PICK k \in Orders : F[k] # Null /\ x = <<F[k], k, 0>>
    BY <1>8
  <2>2. k < t /\ F[k] <= a /\ a < F[k] + BlockSize[k]
    BY <1>5, <1>7, <2>1
  <2>3. k # PoolOrder
    BY <1>1, <1>2, <1>4, <2>2
  <2>4. PICK j \in 1..Len(live) : RightHalf(F[k], k, live, j, from)
    BY <1>6, <2>1, <2>3 DEF Halves
  <2>5. F[k] = live[j].at + BlockSize[k] /\ k < from[j] /\ from[j] \in Orders /\ Aligned(live[j].at, from[j])
    BY <2>4 DEF RightHalf, Shape
  <2> QED
    BY <1>1, <1>2, <2>2, <2>5, NotRightHalf
<1>9. CASE \E j \in 1..Len(live) : x = <<live[j].at, OrderOf(live[j]), j>>
  BY <1>7, <1>9
<1> QED
  BY <1>T, <1>8, <1>9 DEF Tiles

LEMMA RoomIsFound == IInv => FindsRoom
<1> SUFFICES ASSUME IInv, NEW n \in Requests, NeedsPool(heap, n)
             PROVE  LET size == BlockSize[get_order(n)]
                        units == UNION {Extent(live[i].at, BlockSize[heap.header[live[i].at].order]) : i \in DOMAIN live}
                    IN \A p \in pools : \A k \in 0..(p.size \div size) :
                        Extent(p.base + k * size, size) \subseteq Extent(p.base, p.size)
                            => Extent(p.base + k * size, size) \cap units # {}
  BY DEF FindsRoom
<1>s. PICK size : size = BlockSize[get_order(n)]
  OBVIOUS
<1> DEFINE ext(i) == Extent(live[i].at, BlockSize[heap.header[live[i].at].order])
           units == UNION {ext(i) : i \in DOMAIN live}
<1>1. PICK from : Shape(from)
  BY ShapeIs
<1>2. /\ live \in Seq(Held) /\ DOMAIN live = 1..Len(live)
      /\ pools = {[base |-> PoolBase, size |-> BlockSize[PoolOrder]]}
      /\ \A j \in 1..Len(live) : heap.header[live[j].at].order = OrderOf(live[j])
  BY <1>1 DEF Shape
<1>3. size \in Nat \ {0} /\ PoolBase \in Nat /\ BlockSize[PoolOrder] \in Nat \ {0} /\ PoolEnd = PoolBase + BlockSize[PoolOrder]
  <2>1. n \in Nat
    BY BuddyAssumption
  <2>2. get_order(n) \in 0..MaxOrder
    BY <2>1, OrderIs
  <2> QED
    BY <1>s, <2>2, Bounds
<1>4. \A u : u \in units <=> \E i \in DOMAIN live : u \in ext(i)
  OBVIOUS
<1>5. \A j \in 1..Len(live) : ext(j) = Extent(live[j].at, BlockSize[OrderOf(live[j])])
  BY <1>2
<1> HIDE DEF ext, units
<1>6. ASSUME NEW K \in Nat, Extent(PoolBase + K * size, size) \subseteq Extent(PoolBase, BlockSize[PoolOrder])
      PROVE  Extent(PoolBase + K * size, size) \cap units # {}
  <2>a. PICK a : a = PoolBase + K * size
    OBVIOUS
  <2>1. a \in Nat
    <3>1. K * size \in Nat
      BY <1>3
    <3> QED
      BY <1>3, <2>a, <3>1
  <2>2. a..(a + size - 1) \subseteq PoolBase..(PoolEnd - 1)
    BY <1>3, <1>6, <2>a DEF Extent
  <2>3. a \in a..(a + size - 1) /\ a + size - 1 \in a..(a + size - 1)
    BY <1>3, <2>1
  <2>4. a + size <= PoolEnd
    <3>1. a + size - 1 \in PoolBase..(PoolEnd - 1)
      BY <2>2, <2>3
    <3> QED
      BY <1>3, <2>1, <3>1
  <2>5. PICK j \in 1..Len(live) : live[j].at <= a /\ a < live[j].at + BlockSize[OrderOf(live[j])]
    BY <1>1, <1>s, <2>4, <2>a, StretchIsHeld
  <2>6. live[j].at \in Nat /\ BlockSize[OrderOf(live[j])] \in Nat
    BY <1>2, HeldIs, Bounds
  <2>7. a \in ext(j)
    BY <1>5, <2>1, <2>5, <2>6 DEF Extent
  <2>8. a \in units
    BY <1>2, <1>4, <2>7
  <2>9. a \in Extent(a, size)
    BY <2>3 DEF Extent
  <2> QED
    BY <2>8, <2>9, <2>a
<1>7. ASSUME NEW p \in pools, NEW k \in 0..(p.size \div size),
             Extent(p.base + k * size, size) \subseteq Extent(p.base, p.size)
      PROVE  Extent(p.base + k * size, size) \cap units # {}
  <2>1. p.base = PoolBase /\ p.size = BlockSize[PoolOrder]
    BY <1>2
  <2>2. k \in Nat
    BY <1>3, <2>1
  <2> QED
    BY <1>6, <1>7, <2>1, <2>2
<1> QED
  BY <1>7, <1>s DEF units, ext

\* Every call is a step of the abstract heap.
LEMMA StepImplements ==
  ASSUME IInv, IInv', [Next]_vars
  PROVE  [Abstract!Alloc \/ Abstract!Release]_live
<1>1. CASE UNCHANGED vars
  BY <1>1 DEF vars
<1>2. CASE FreeSome
  <2>1. PICK i \in DOMAIN live : Free(i)
    BY <1>2 DEF FreeSome
  <2>2. live' = SubSeq(live, 1, i - 1) \o SubSeq(live, i + 1, Len(live))
    BY <2>1 DEF Free
  <2>3. Abstract!Release
    BY <2>2 DEF Abstract!Release
  <2> QED
    BY <2>3
<1>3. CASE MallocSome
  <2>1. PICK n \in Requests : Malloc(n)
    BY <1>3 DEF MallocSome
  <2>b. PICK b : b = [at |-> Take(heap, n).block, size |-> n]
    OBVIOUS
  <2>2. live' = Append(live, b) /\ b.size = n
    BY <2>1, <2>b DEF Malloc
  <2>3. live \in Seq(Held) /\ live' \in Seq(Held)
    BY DEF IInv
  <2>p. PICK p : p = Len(live) + 1
    OBVIOUS
  <2>4. /\ Len(live') = p /\ live'[p] = b /\ p \in 1..p /\ \A i \in 1..Len(live) : live'[i] = live[i]
        /\ DOMAIN live = 1..Len(live) /\ \A i \in 1..Len(live) : i \in 1..p /\ i # p
    <3>1. p \in Nat /\ b \in Held
      <4>1. p \in Nat /\ Len(live) \in Nat
        BY <2>3, <2>p
      <4>2. p \in 1..Len(live') /\ live'[p] = b
        BY <2>2, <2>3, <2>p, <4>1
      <4> QED
        BY <2>3, <4>1, <4>2
    <3> QED
      BY <2>2, <2>3, <2>p, <3>1
  <2>5. PICK f, from : History(live', f, from)
    BY DEF IInv
  <2>6. /\ OrderOf(b) \in Orders /\ b.size <= BlockSize[OrderOf(b)] /\ PoolBase <= b.at
        /\ b.at + BlockSize[OrderOf(b)] <= PoolEnd
        /\ \A i \in 1..p : i # p =>
                \/ live'[i].at + BlockSize[OrderOf(live'[i])] <= b.at
                \/ b.at + BlockSize[OrderOf(b)] <= live'[i].at
    BY <2>3, <2>4, <2>5, HeldFits
  <2>7. b.at \in Nat /\ n \in Nat \ {0} /\ BlockSize[OrderOf(b)] \in Nat
    <3>1. b.at \in Nat /\ b.size \in Nat \ {0}
      BY <2>3, <2>4, HeldIs
    <3> QED
      BY <2>2, <2>6, <3>1, Bounds
  <2> DEFINE units == Extent(PoolBase, BlockSize[PoolOrder])
             span(c) == c.at..(c.at + c.size - 1)
  <2>8. units = PoolBase..(PoolEnd - 1) /\ PoolBase \in Nat /\ PoolEnd \in Nat
    BY Bounds DEF Extent
  <2>9. span(b) \subseteq units /\ b.at \in units
    BY <2>2, <2>6, <2>7, <2>8
  <2>10. ASSUME NEW i \in DOMAIN live PROVE span(live[i]) \cap span(b) = {}
    <3>1. i \in 1..Len(live) /\ live'[i] = live[i] /\ i \in 1..p /\ i # p
      BY <2>4
    <3>2. live[i].at \in Nat /\ live[i].size \in Nat
      BY <2>3, <3>1, HeldIs
    <3>3. live[i].size <= BlockSize[OrderOf(live[i])] /\ BlockSize[OrderOf(live[i])] \in Nat
      <4>1. i \in 1..Len(live') /\ OrderOf(live'[i]) \in Orders /\ live'[i].size <= BlockSize[OrderOf(live'[i])]
        BY <2>3, <2>4, <2>5, <3>1, HeldFits
      <4> QED
        BY <3>1, <4>1, Bounds
    <3>4. \/ live[i].at + BlockSize[OrderOf(live[i])] <= b.at
          \/ b.at + BlockSize[OrderOf(b)] <= live[i].at
      BY <2>6, <3>1
    <3> QED
      BY SMTT(30), <2>2, <2>6, <2>7, <3>2, <3>3, <3>4
  <2>11. b = [at |-> b.at, size |-> n]
    BY <2>b
  <2>12. Abstract!Alloc
    <3>1. /\ Abstract!Extent(b) = span(b)
          /\ \A i \in DOMAIN live : Abstract!Extent(live[i]) = span(live[i])
      BY DEF Abstract!Extent
    <3>2. PICK a \in units : a = b.at
      BY <2>9
    <3>3. [at |-> a, size |-> n] = b
      BY <2>11, <3>2
    <3> HIDE DEF span, units
    <3>4. /\ Abstract!Extent([at |-> a, size |-> n]) \subseteq units
          /\ \A i \in DOMAIN live : Abstract!Extent(live[i]) \cap Abstract!Extent([at |-> a, size |-> n]) = {}
          /\ live' = Append(live, [at |-> a, size |-> n])
      BY <2>2, <2>9, <2>10, <3>1, <3>3
    <3> QED
      BY <3>4 DEF Abstract!Alloc, units
  <2> QED
    BY <2>12
<1> QED
  BY <1>1, <1>2, <1>3 DEF Next

\* Each list holds free blocks of its order, none of them twice and none that a caller
\* holds: malloc never hands out a block that is in use.
THEOREM FreeListsSound ==
  ASSUME ~AnyOrder
  PROVE  Spec => []ListsSound
<1>1. Spec => []IInv
  BY InvHolds
<1>2. IInv => ListsSound
  BY ListsAreSound
<1> QED
  BY <1>1, <1>2, PTL

\* The blocks on the lists and those callers hold tile the pool: split_block and
\* merge_blocks lose no unit and count none twice.
THEOREM BlocksTilePool ==
  ASSUME ~AnyOrder
  PROVE  Spec => []Tiled
<1>1. Spec => []IInv
  BY InvHolds
<1>2. IInv => Tiled
  BY BlocksTile
<1> QED
  BY <1>1, <1>2, PTL

\* merge_blocks only ever looks through a buddy pointer at the header of a block, never
\* at what a caller has written.
THEOREM BuddyPointsToBlock ==
  ASSUME ~AnyOrder
  PROVE  Spec => []BuddyIsBlock
<1>1. Spec => []IInv
  BY InvHolds
<1>2. IInv => BuddyIsBlock
  BY BuddiesAreBlocks
<1> QED
  BY <1>1, <1>2, PTL

\* malloc asks for a new pool only when every aligned stretch of the right size holds
\* some unit of a caller: free has merged whatever could be merged.
THEOREM NothingLeftUnmerged ==
  ASSUME ~AnyOrder
  PROVE  Spec => []FindsRoom
<1>1. Spec => []IInv
  BY InvHolds
<1>2. IInv => FindsRoom
  BY RoomIsFound
<1> QED
  BY <1>1, <1>2, PTL

\* The buddy allocator implements the abstract heap on its first pool: what malloc returns
\* lies in the pool, is as long as asked for, and meets no block still held.
THEOREM BuddyImplementsHeap ==
  ASSUME ~AnyOrder
  PROVE  Spec => ImplementsHeap
<1>1. Init => Abstract!Init
  BY DEF Init, Abstract!Init
<1>2. IInv /\ IInv' /\ [Next]_vars => [Abstract!Alloc \/ Abstract!Release]_live
  BY StepImplements
<1>3. Spec => []IInv
  BY InvHolds
<1> QED
  BY <1>1, <1>2, <1>3, PTL DEF Spec, ImplementsHeap, Abstract!Spec

\* The abstract heap itself: what an implementation of it inherits.

\* Blocks held at the same time share no unit of memory.
NoTwoHolders ==
    \A i, j \in DOMAIN live : i # j => Abstract!Extent(live[i]) \cap Abstract!Extent(live[j]) = {}

\* The inductive invariant of the abstract heap: what is held is a sequence of such blocks.
HeapInv == (\E S : live \in Seq(S)) /\ NoTwoHolders

\* A block that meets none of the live ones can be handed out.
LEMMA HeapAllocInv == HeapInv /\ Abstract!Alloc => HeapInv'
<1> SUFFICES ASSUME HeapInv, Abstract!Alloc PROVE HeapInv'
  OBVIOUS
<1>1. PICK n \in Requests, a \in Extent(PoolBase, BlockSize[PoolOrder]) :
        /\ \A i \in DOMAIN live : Abstract!Extent(live[i]) \cap Abstract!Extent([at |-> a, size |-> n]) = {}
        /\ live' = Append(live, [at |-> a, size |-> n])
  BY DEF Abstract!Alloc
<1> PICK b : b = [at |-> a, size |-> n]
  OBVIOUS
<1>2. PICK R : live \in Seq(R)
  BY DEF HeapInv
<1> DEFINE S == R \cup {b}
<1>3. live \in Seq(S) /\ live' = Append(live, b) /\ live' \in Seq(S)
  BY <1>1, <1>2
<1>4. /\ DOMAIN live' = DOMAIN live \cup {Len(live) + 1} /\ Len(live) + 1 \notin DOMAIN live
      /\ live'[Len(live) + 1] = b
      /\ \A i \in DOMAIN live : live'[i] = live[i]
  BY <1>3
<1>5. \A i \in DOMAIN live : Abstract!Extent(live[i]) \cap Abstract!Extent(b) = {}
  BY <1>1
<1>6. NoTwoHolders'
  <2> SUFFICES ASSUME NEW i \in DOMAIN live', NEW j \in DOMAIN live', i # j
               PROVE  Abstract!Extent(live'[i]) \cap Abstract!Extent(live'[j]) = {}
    BY DEF NoTwoHolders, Abstract!Extent
  <2>1. CASE i \in DOMAIN live /\ j \in DOMAIN live
    BY <1>4, <2>1 DEF HeapInv, NoTwoHolders
  <2>2. CASE i = Len(live) + 1
    <3>1. j \in DOMAIN live
      BY <1>4, <2>2
    <3> QED
      BY <1>4, <1>5, <2>2, <3>1
  <2>3. CASE j = Len(live) + 1
    <3>1. i \in DOMAIN live
      BY <1>4, <2>3
    <3> QED
      BY <1>4, <1>5, <2>3, <3>1
  <2> QED
    BY <1>4, <2>1, <2>2, <2>3
<1> QED
  BY <1>3, <1>6 DEF HeapInv

\* Giving a block back leaves the others where they are.
LEMMA HeapReleaseInv == HeapInv /\ Abstract!Release => HeapInv'
<1> SUFFICES ASSUME HeapInv, Abstract!Release PROVE HeapInv'
  OBVIOUS
<1>1. PICK k \in DOMAIN live : live' = SubSeq(live, 1, k - 1) \o SubSeq(live, k + 1, Len(live))
  BY DEF Abstract!Release
<1>2. PICK S : live \in Seq(S)
  BY DEF HeapInv
<1>3. k \in 1..Len(live) /\ Len(live) \in Nat
  BY <1>1, <1>2
<1> DEFINE left == SubSeq(live, 1, k - 1)
           right == SubSeq(live, k + 1, Len(live))
<1>4. /\ left \in Seq(S) /\ Len(left) = k - 1 /\ \A i \in 1..(k - 1) : left[i] = live[i]
      /\ right \in Seq(S) /\ Len(right) = Len(live) - k
      /\ \A i \in 1..(Len(live) - k) : right[i] = live[k + i]
  BY <1>2, <1>3
<1> DEFINE From(i) == IF i < k THEN i ELSE i + 1
<1>5. /\ live' \in Seq(S) /\ DOMAIN live' = 1..(Len(live) - 1)
      /\ \A i \in DOMAIN live' : From(i) \in DOMAIN live /\ live'[i] = live[From(i)]
  <2> HIDE DEF left, right
  <2>1. live' = left \o right
    BY <1>1 DEF left, right
  <2>2. live' \in Seq(S) /\ Len(live') = Len(live) - 1 /\ DOMAIN live' = 1..(Len(live) - 1)
    BY <1>3, <1>4, <2>1
  <2>3. ASSUME NEW i \in 1..(Len(live) - 1), i < k PROVE live'[i] = live[i]
    BY <1>3, <1>4, <2>1, <2>3
  <2>4. ASSUME NEW i \in 1..(Len(live) - 1), ~(i < k) PROVE live'[i] = live[i + 1]
    <3>1. live'[i] = right[i - (k - 1)] /\ i - (k - 1) \in 1..(Len(live) - k)
      BY <1>3, <1>4, <2>1, <2>4
    <3>2. k + (i - (k - 1)) = i + 1
      BY <1>3
    <3> QED
      BY <1>4, <3>1, <3>2
  <2> QED
    BY <1>2, <1>3, <2>2, <2>3, <2>4
<1>6. \A i, j \in DOMAIN live' : i # j => From(i) # From(j)
  BY <1>3, <1>5
<1> HIDE DEF From
<1>7. NoTwoHolders'
  <2> SUFFICES ASSUME NEW i \in DOMAIN live', NEW j \in DOMAIN live', i # j
               PROVE  Abstract!Extent(live'[i]) \cap Abstract!Extent(live'[j]) = {}
    BY DEF NoTwoHolders, Abstract!Extent
  <2> QED
    BY <1>5, <1>6 DEF HeapInv, NoTwoHolders
<1> QED
  BY <1>5, <1>7 DEF HeapInv

\* No unit of memory is ever held twice, whatever is allocated and released.
LEMMA HeapIsExclusive == Abstract!Spec => []NoTwoHolders
<1>1. Abstract!Init => HeapInv
  <2>1. <<>> \in Seq({})
    OBVIOUS
  <2> QED
    BY <2>1 DEF Abstract!Init, HeapInv, NoTwoHolders
<1>2. HeapInv /\ [Abstract!Alloc \/ Abstract!Release]_live => HeapInv'
  <2>1. CASE live' = live
    BY <2>1 DEF HeapInv, NoTwoHolders, Abstract!Extent
  <2> QED
    BY <2>1, HeapAllocInv, HeapReleaseInv
<1>3. HeapInv => NoTwoHolders
  BY DEF HeapInv
<1> QED
  BY <1>1, <1>2, <1>3, PTL DEF Abstract!Spec

\* Callers that free newest first never hold the same unit twice, whatever sizes they ask
\* for, since the allocator implements the abstract heap; those that do not can be given
\* one twice.
THEOREM NoUnitTwice ==
  ASSUME ~AnyOrder
  PROVE  Spec => []NoOverlap
<1>1. NoTwoHolders => NoOverlap
  BY DEF NoTwoHolders, NoOverlap, Extent, Abstract!Extent
<1> QED
  BY <1>1, BuddyImplementsHeap, HeapIsExclusive, PTL DEF ImplementsHeap
=============================================================================
