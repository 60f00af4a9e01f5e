----------------------------- MODULE Iteration ------------------------------
(***************************************************************************)
(* Lemmas about loops that the specifications write as recursive functions *)
(* over the naturals or a segment of them, or as folds over a sequence:    *)
(* induction along the loop, upwards and downwards, and the existence of   *)
(* the function itself.  The predicate is a set and the loop's body a      *)
(* function, so the lemmas have no operator parameters.                    *)
(***************************************************************************)
EXTENDS Integers, FiniteSetsExt, WellFoundedInduction, TLAPS

\* A set of natural numbers that is not empty has a least element.
LEMMA LeastNatural ==
  ASSUME NEW T \in SUBSET Nat, T # {}
  PROVE  \E k \in T : \A x \in T : k <= x
<1>1. \E k \in T : \A x \in T : ~(<<x, k>> \in OpToRel(<, Nat))
  BY NatLessThanWellFounded, WFMin
<1>2. \A x, k \in T : x < k => <<x, k>> \in OpToRel(<, Nat)
  BY DEF OpToRel
<1>3. \E k \in T : \A x \in T : ~(x < k)
  BY <1>1, <1>2, Zenon
<1> QED
  BY <1>3

\* Min of a set of natural numbers is its least element.
LEMMA MinIs ==
  ASSUME NEW S \in SUBSET Nat, S # {}
  PROVE  Min(S) \in S /\ \A x \in S : Min(S) <= x
<1>1. \E k \in S : \A x \in S : k <= x
  BY LeastNatural
<1> QED
  BY <1>1 DEF Min

\* Induction over 0..n: S holds the numbers that have the property.
LEMMA Induction ==
  ASSUME NEW n \in Nat, NEW S, 0 \in S, \A i \in 1..n : i - 1 \in S => i \in S
  PROVE  \A i \in 0..n : i \in S
<1> DEFINE T == {i \in 0..n : i \notin S}
<1> SUFFICES ASSUME T # {} PROVE FALSE
  OBVIOUS
<1>1. T \in SUBSET Nat
  OBVIOUS
<1>2. PICK k \in T : \A x \in T : k <= x
  BY <1>1, LeastNatural
<1>3. k \in 1..n
  OBVIOUS
<1>4. k - 1 \in S
  BY <1>2, <1>3
<1> QED
  BY <1>3, <1>4

\* The values a loop of n turns goes through that starts with m and whose i-th turn
\* takes x to body[i][x]
Goes(f, m, n, body) == f[0] = m /\ \A i \in 1..n : f[i] = body[i][f[i - 1]]

\* A loop whose turns stay in M goes through a sequence of values, all of them in M.
LEMMA LoopExists ==
  ASSUME NEW M, NEW m \in M, NEW n \in Nat, NEW body \in [1..n -> [M -> M]]
  PROVE  \E f \in [0..n -> M] : Goes(f, m, n, body)
<1> DEFINE Run(k) == {f \in [0..k -> M] : f[0] = m /\ \A i \in 1..k : f[i] = body[i][f[i - 1]]}
           S == {k \in 0..n : Run(k) # {}}
<1>1. 0 \in S
  <2>1. [i \in 0..0 |-> m] \in Run(0)
    OBVIOUS
  <2> QED
    BY <2>1
<1>2. ASSUME NEW k \in 1..n, k - 1 \in S PROVE k \in S
  <2>1. PICK f \in Run(k - 1) : TRUE
    BY <1>2
  <2> DEFINE g == [i \in 0..k |-> IF i = k THEN body[k][f[k - 1]] ELSE f[i]]
  <2>2. f \in [0..(k - 1) -> M] /\ f[0] = m /\ \A i \in 1..(k - 1) : f[i] = body[i][f[i - 1]]
    BY <2>1
  <2>3. g \in [0..k -> M]
    BY <2>2
  <2>4. g[0] = m
    BY <2>2
  <2>5. \A i \in 1..k : g[i] = body[i][g[i - 1]]
    BY <2>2
  <2>6. g \in Run(k)
    BY <2>3, <2>4, <2>5
  <2> HIDE DEF Run, g
  <2> QED
    BY <2>6
<1>3. \A i \in 0..n : i \in S
  <2> HIDE DEF S
  <2> QED
    BY <1>1, <1>2, Induction
<1>4. Run(n) # {}
  BY <1>3
<1> QED
  BY <1>4 DEF Goes

\* A set of natural numbers up to n that is not empty has a greatest element.
LEMMA MaxIs ==
  ASSUME NEW n \in Nat, NEW S \in SUBSET (0..n), S # {}
  PROVE  Max(S) \in S /\ \A x \in S : x <= Max(S)
<1> DEFINE T == {n - x : x \in S}
<1>1. T \in SUBSET Nat /\ T # {}
  <2>1. \A x \in S : n - x \in Nat
    OBVIOUS
  <2> QED
    BY <2>1
<1>2. PICK k \in T : \A x \in T : k <= x
  BY <1>1, LeastNatural
<1>3. n - k \in S /\ \A x \in S : x <= n - k
  <2>1. PICK y \in S : k = n - y
    BY <1>2
  <2>2. ASSUME NEW x \in S PROVE x <= y
    <3>1. n - x \in T
      OBVIOUS
    <3> QED
      BY <1>2, <2>1, <3>1
  <2> QED
    BY <2>1, <2>2
<1> QED
  BY <1>3 DEF Max

\* The greatest element of a set of numbers up to n that has n in it
LEMMA LastIs ==
  ASSUME NEW n \in Nat, NEW S \in SUBSET (1..n), n \in S
  PROVE  Max(S) = n
<1>1. S \in SUBSET (0..n) /\ S # {}
  OBVIOUS
<1>2. Max(S) \in S /\ \A x \in S : x <= Max(S)
  BY <1>1, MaxIs
<1> PICK y : y = Max(S)
  OBVIOUS
<1>3. y \in 1..n /\ n <= y
  BY <1>2
<1>4. y = n
  BY <1>3
<1> QED
  BY <1>4

\* Induction over 0..n from above, where each step may use all numbers above it.
LEMMA InductionDown ==
  ASSUME NEW n \in Nat, NEW S, \A i \in 0..n : (\A j \in (i + 1)..n : j \in S) => i \in S
  PROVE  \A i \in 0..n : i \in S
<1> DEFINE T == {i \in 0..n : i \notin S}
<1> SUFFICES ASSUME T # {} PROVE FALSE
  OBVIOUS
<1>1. T \in SUBSET (0..n)
  OBVIOUS
<1>2. Max(T) \in T /\ \A x \in T : x <= Max(T)
  BY <1>1, MaxIs
<1> QED
  BY <1>2

\* Induction over the natural numbers, where each step may use all smaller ones.
LEMMA InductionStrong ==
  ASSUME NEW S, \A i \in Nat : (\A j \in 0..(i - 1) : j \in S) => i \in S
  PROVE  Nat \subseteq S
<1> DEFINE T == {i \in Nat : i \notin S}
<1> SUFFICES ASSUME T # {} PROVE FALSE
  OBVIOUS
<1>1. PICK k \in T : \A x \in T : k <= x
  BY LeastNatural
<1> QED
  BY <1>1

\* A fold of the elements of 1..n, taken in ascending order: its value at each set
FoldsUp(g, m, n, body) == \A t \in SUBSET (1..n) :
    g[t] = IF t = {} THEN m ELSE body[Max(t)][g[t \ {Max(t)}]]

\* There is such a fold.
LEMMA FoldExists ==
  ASSUME NEW M, NEW m \in M, NEW n \in Nat, NEW body \in [1..n -> [M -> M]]
  PROVE  \E g \in [SUBSET (1..n) -> M] : FoldsUp(g, m, n, body)
<1> DEFINE Runs(k) == {g \in [SUBSET (1..k) -> M] : \A t \in SUBSET (1..k) :
                            g[t] = IF t = {} THEN m ELSE body[Max(t)][g[t \ {Max(t)}]]}
           S == {k \in 0..n : Runs(k) # {}}
<1>1. 0 \in S
  <2>1. \A t \in SUBSET (1..0) : t = {}
    OBVIOUS
  <2>2. PICK h : h = [t \in SUBSET (1..0) |-> m]
    OBVIOUS
  <2>3. h \in Runs(0)
    BY <2>1, <2>2
  <2> HIDE DEF Runs
  <2> QED
    BY <2>3
<1>2. ASSUME NEW k \in 1..n, k - 1 \in S PROVE k \in S
  <2>1. PICK g \in Runs(k - 1) : TRUE
    BY <1>2
  <2>2. /\ g \in [SUBSET (1..(k - 1)) -> M]
        /\ \A t \in SUBSET (1..(k - 1)) : g[t] = IF t = {} THEN m ELSE body[Max(t)][g[t \ {Max(t)}]]
    BY <2>1
  <2> DEFINE h == [t \in SUBSET (1..k) |-> IF k \in t THEN body[k][g[t \ {k}]] ELSE g[t]]
  <2>3. \A t \in SUBSET (1..k) : t \ {k} \in SUBSET (1..(k - 1))
    OBVIOUS
  <2>4. \A t \in SUBSET (1..k) : k \notin t => t \in SUBSET (1..(k - 1))
    BY <2>3
  <2>5. h \in [SUBSET (1..k) -> M]
    <3> SUFFICES ASSUME NEW t \in SUBSET (1..k) PROVE (IF k \in t THEN body[k][g[t \ {k}]] ELSE g[t]) \in M
      OBVIOUS
    <3>1. body[k] \in [M -> M]
      OBVIOUS
    <3>2. g[t \ {k}] \in M /\ (k \notin t => g[t] \in M)
      BY <2>2, <2>3, <2>4
    <3> QED
      BY <3>1, <3>2
  <2>6. ASSUME NEW t \in SUBSET (1..k)
        PROVE  h[t] = IF t = {} THEN m ELSE body[Max(t)][h[t \ {Max(t)}]]
    <3>1. CASE k \in t
      <4>1. Max(t) = k
        BY <3>1, LastIs
      <4>2. h[t \ {k}] = g[t \ {k}]
        BY <2>3
      <4> QED
        BY <3>1, <4>1, <4>2
    <3>2. CASE k \notin t /\ t # {}
      <4>1. h[t] = g[t] /\ h[t \ {Max(t)}] = g[t \ {Max(t)}]
        BY <3>2
      <4> QED
        BY <2>2, <2>4, <3>2, <4>1
    <3>3. CASE t = {}
      BY <2>2, <3>3
    <3> QED
      BY <3>1, <3>2, <3>3
  <2>7. h \in Runs(k)
    <3> HIDE DEF h
    <3> QED
      BY <2>5, <2>6
  <2> HIDE DEF Runs
  <2> QED
    BY <2>7
<1>3. \A i \in 0..n : i \in S
  <2> HIDE DEF S
  <2> QED
    BY <1>1, <1>2, Induction
<1>4. Runs(n) # {}
  <2> HIDE DEF Runs
  <2> QED
    BY <1>3
<1> QED
  BY <1>4 DEF FoldsUp

\* A function on the natural numbers that is b at 0 and is computed at any other k
\* from its value at pred[k]
Unfolds(g, b, pred, body) == \A k \in Nat : g[k] = IF k = 0 THEN b ELSE body[k][g[pred[k]]]

Descends(pred) == pred \in [Nat -> Nat] /\ \A k \in Nat \ {0} : pred[k] < k

\* There is one if the arguments descend.
LEMMA RecursionExists ==
  ASSUME NEW V, NEW b \in V, NEW pred, Descends(pred), NEW body \in [Nat -> [V -> V]]
  PROVE  \E g \in [Nat -> V] : Unfolds(g, b, pred, body)
<1> DEFINE Solves(g, n) == \A k \in 0..n : g[k] = IF k = 0 THEN b ELSE body[k][g[pred[k]]]
           Solutions(n) == {g \in [0..n -> V] : Solves(g, n)}
           S == {n \in Nat : Solutions(n) # {}}
<1>0. pred \in [Nat -> Nat] /\ \A k \in Nat \ {0} : pred[k] < k
  BY DEF Descends
<1>1. 0 \in S
  <2>1. [k \in 0..0 |-> b] \in Solutions(0)
    OBVIOUS
  <2> QED
    BY <2>1
<1>2. ASSUME NEW n \in Nat \ {0}, n - 1 \in S PROVE n \in S
  <2>1. PICK g \in Solutions(n - 1) : TRUE
    BY <1>2
  <2>2. g \in [0..(n - 1) -> V] /\ Solves(g, n - 1)
    BY <2>1
  <2> DEFINE h == [k \in 0..n |-> IF k = n THEN body[n][g[pred[n]]] ELSE g[k]]
  <2>3. pred[n] \in 0..(n - 1)
    BY <1>0
  <2>4. h \in [0..n -> V]
    <3>1. g[pred[n]] \in V /\ body[n] \in [V -> V]
      BY <2>2, <2>3
    <3>2. body[n][g[pred[n]]] \in V
      BY <3>1
    <3>3. \A k \in 0..n : k # n => g[k] \in V
      BY <2>2
    <3> QED
      BY <3>2, <3>3
  <2>5. ASSUME NEW k \in 0..n PROVE h[k] = IF k = 0 THEN b ELSE body[k][h[pred[k]]]
    <3>1. CASE k = n
      BY <2>3, <3>1
    <3>2. CASE k # n /\ k # 0
      <4>1. pred[k] \in 0..(n - 1) /\ k \in 0..(n - 1)
        BY <1>0, <3>2
      <4> QED
        BY <2>2, <3>2, <4>1
    <3>3. CASE k = 0
      BY <2>2, <3>3
    <3> QED
      BY <3>1, <3>2, <3>3
  <2>6. h \in Solutions(n)
    <3> HIDE DEF h
    <3> QED
      BY <2>4, <2>5
  <2> HIDE DEF Solutions
  <2> QED
    BY <2>6
<1>3. Nat \subseteq S
  <2> HIDE DEF S
  <2>1. \A i \in Nat : (\A j \in 0..(i - 1) : j \in S) => i \in S
    BY <1>1, <1>2
  <2> QED
    BY <2>1, InductionStrong
<1> DEFINE G == [n \in Nat |-> CHOOSE g \in Solutions(n) : TRUE]
<1>4. \A n \in Nat : G[n] \in [0..n -> V] /\ Solves(G[n], n)
  <2>1. \A n \in Nat : G[n] \in Solutions(n)
    <3> HIDE DEF Solutions
    <3> QED
      BY <1>3
  <2> QED
    BY <2>1
<1> HIDE DEF G
<1>5. \A k \in Nat : \A n \in Nat : k <= n => G[n][k] = G[k][k]
  <2> DEFINE U == {k \in Nat : \A n \in Nat : k <= n => G[n][k] = G[k][k]}
  <2>1. ASSUME NEW k \in Nat, \A j \in 0..(k - 1) : j \in U PROVE k \in U
    <3> SUFFICES ASSUME NEW n \in Nat, k <= n PROVE G[n][k] = G[k][k]
      OBVIOUS
    <3>1. CASE k = 0
      BY <1>4, <3>1
    <3>2. CASE k # 0
      <4>1. pred[k] \in 0..(k - 1) /\ pred[k] \in U
        BY <1>0, <2>1, <3>2
      <4>2. G[n][pred[k]] = G[pred[k]][pred[k]] /\ G[k][pred[k]] = G[pred[k]][pred[k]]
        BY <4>1
      <4>3. G[n][k] = body[k][G[n][pred[k]]] /\ G[k][k] = body[k][G[k][pred[k]]]
        BY <1>4, <3>2
      <4> QED
        BY <4>2, <4>3
    <3> QED
      BY <3>1, <3>2
  <2>2. Nat \subseteq U
    <3> HIDE DEF U
    <3> QED
      BY <2>1, InductionStrong
  <2> QED
    BY <2>2
<1> DEFINE g == [k \in Nat |-> G[k][k]]
<1>6. g \in [Nat -> V]
  BY <1>4
<1>7. ASSUME NEW k \in Nat PROVE g[k] = IF k = 0 THEN b ELSE body[k][g[pred[k]]]
  <2>1. CASE k = 0
    BY <1>4, <2>1
  <2>2. CASE k # 0
    <3>1. pred[k] \in Nat /\ pred[k] <= k
      BY <1>0, <2>2
    <3>2. G[k][pred[k]] = G[pred[k]][pred[k]]
      BY <1>5, <3>1
    <3>3. G[k][k] = body[k][G[k][pred[k]]]
      BY <1>4, <2>2
    <3> QED
      BY <2>2, <3>1, <3>2, <3>3
  <2> QED
    BY <2>1, <2>2
<1> HIDE DEF g
<1> QED
  BY <1>6, <1>7 DEF Unfolds
=============================================================================
