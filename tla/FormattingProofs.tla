-------------------------- MODULE FormattingProofs --------------------------
(***************************************************************************)
(* Proofs about Strings and Formatting, for every width of integers, every *)
(* size of the buffers and any inputs: strings, environments, formats of   *)
(* any length, areas of memory.                                            *)
(*                                                                         *)
(* The calls keep no state but the level, so what a call promises is a     *)
(* lemma about the functions it calls, and the theorems only collect them. *)
(* The lemmas are about loops: a conversion, a copy, the loop of vsprintf  *)
(* over a format and that of the linker's printf over its pieces.          *)
(***************************************************************************)
EXTENDS Formatting, Iteration, SequenceTheorems

-----------------------------------------------------------------------------
(* Numbers of a width *)

LEMMA Powers ==
  /\ PowerOf2 \in [Nat -> Nat \ {0}] /\ PowerOf2[0] = 1
  /\ \A n \in Nat \ {0} : PowerOf2[n] = 2 * PowerOf2[n - 1]
<1> DEFINE V == Nat \ {0}
           pred == [k \in Nat |-> IF k = 0 THEN 0 ELSE k - 1]
           body == [k \in Nat |-> [v \in V |-> 2 * v]]
<1>1. body \in [Nat -> [V -> V]] /\ 1 \in V /\ Descends(pred)
  BY DEF Descends
<1>2. PICK g \in [Nat -> V] : Unfolds(g, 1, pred, body)
  <2> HIDE DEF V, pred, body
  <2> QED
    BY <1>1, RecursionExists
<1>3. g = [n \in Nat |-> IF n = 0 THEN 1 ELSE 2 * g[n - 1]]
  <2>1. \A k \in Nat : g[k] = IF k = 0 THEN 1 ELSE 2 * g[k - 1]
    <3>1. \A k \in Nat \ {0} : g[k - 1] \in V
      OBVIOUS
    <3> QED
      BY <1>2, <3>1 DEF Unfolds
  <2> QED
    BY <2>1
<1>4. PowerOf2 = [n \in Nat |-> IF n = 0 THEN 1 ELSE 2 * PowerOf2[n - 1]]
  BY <1>3 DEF PowerOf2
<1>5. \A k \in Nat : PowerOf2[k] = g[k]
  <2> DEFINE S == {k \in Nat : PowerOf2[k] = g[k]}
  <2>1. ASSUME NEW i \in Nat, \A j \in 0..(i - 1) : j \in S PROVE i \in S
    <3>1. CASE i = 0
      BY <1>3, <1>4, <3>1
    <3>2. CASE i # 0
      <4>1. i - 1 \in S
        BY <2>1, <3>2
      <4> QED
        BY <1>3, <1>4, <3>2, <4>1
    <3> QED
      BY <3>1, <3>2
  <2>2. Nat \subseteq S
    <3> HIDE DEF S
    <3> QED
      BY <2>1, InductionStrong
  <2> QED
    BY <2>2
<1>6. PowerOf2 = g
  BY <1>4, <1>5
<1> QED
  BY <1>3, <1>6

\* What a long can be, and what it is as an unsigned long
LEMMA LongsAre ==
  /\ PowerOf2[LongBits] \in Nat \ {0} /\ PowerOf2[LongBits - 1] \in Nat \ {0}
  /\ PowerOf2[LongBits] = 2 * PowerOf2[LongBits - 1]
  /\ Longs \subseteq Int
  /\ \A n \in Longs : n >= 0 => n % PowerOf2[LongBits] = n
  /\ \A n \in Longs : n < 0 => n % PowerOf2[LongBits] = n + PowerOf2[LongBits]
<1>1. LongBits \in Nat \ {0, 1} /\ LongBits - 1 \in Nat
  BY StringsAssumption
<1>2. PICK h, w : h = PowerOf2[LongBits - 1] /\ w = PowerOf2[LongBits]
  OBVIOUS
<1>3. h \in Nat \ {0} /\ w \in Nat \ {0} /\ w = 2 * h
  BY <1>1, <1>2, Powers
<1>4. Longs = (-h)..(h - 1)
  BY <1>2 DEF Longs
<1>5. \A n \in (-h)..(h - 1) : (n >= 0 => n % w = n) /\ (n < 0 => n % w = n + w)
  BY <1>3
<1> QED
  BY <1>2, <1>3, <1>4, <1>5

-----------------------------------------------------------------------------
(* Numbers to text, and back *)

\* The digits of a number: the last one, and those of the rest.
LEMMA Digits ==
  ASSUME NEW radix \in Nat, radix >= 2
  PROVE  /\ DigitsUp(0, radix) = <<>>
         /\ \A n \in Nat : DigitsUp(n, radix) \in Seq(Int)
         /\ \A n \in Nat \ {0} :
                DigitsUp(n, radix) = <<DigitChar(n % radix)>> \o DigitsUp(n \div radix, radix)
<1> DEFINE V == Seq(Int)
           turn(g, k) == IF k = 0 THEN <<>> ELSE <<DigitChar(k % radix)>> \o g[k \div radix]
           from == CHOOSE g : g = [k \in Nat |-> turn(g, k)]
           pred == [k \in Nat |-> k \div radix]
           body == [k \in Nat |-> [v \in V |-> <<DigitChar(k % radix)>> \o v]]
<1>1. \A k \in Nat : DigitChar(k % radix) \in Int
  BY DEF DigitChar
<1>2. body \in [Nat -> [V -> V]] /\ <<>> \in V
  <2>1. <<>> \in V /\ \A c \in Int, v \in V : <<c>> \o v \in V
    OBVIOUS
  <2> HIDE DEF V
  <2>2. \A k \in Nat, v \in V : <<DigitChar(k % radix)>> \o v \in V
    BY <1>1, <2>1
  <2>3. body \in [Nat -> [V -> V]]
    BY <2>2
  <2> QED
    BY <2>1, <2>3
<1>10. \A k \in Nat \ {0} : k \div radix \in Nat /\ k \div radix < k
  OBVIOUS
<1>3. Descends(pred)
  BY DEF Descends
<1>4. PICK g \in [Nat -> V] : Unfolds(g, <<>>, pred, body)
  <2> HIDE DEF V, pred, body
  <2> QED
    BY <1>2, <1>3, RecursionExists
<1>5. g = [k \in Nat |-> turn(g, k)]
  <2>1. \A k \in Nat : g[k] = turn(g, k)
    <3>1. \A k \in Nat : k \div radix \in Nat
      OBVIOUS
    <3>2. \A k \in Nat : g[k \div radix] \in V
      BY <3>1
    <3> QED
      BY <1>4, <3>1, <3>2 DEF Unfolds
  <2> HIDE DEF turn
  <2> QED
    BY <2>1
<1>6. from = [k \in Nat |-> turn(from, k)]
  <2> HIDE DEF turn
  <2> QED
    BY <1>5
<1>7. \A n \in Nat : DigitsUp(n, radix) = from[n]
  BY DEF DigitsUp
<1> HIDE DEF from
<1>8. from[0] = <<>> /\ \A n \in Nat \ {0} : from[n] = <<DigitChar(n % radix)>> \o from[n \div radix]
  BY <1>6
<1>9. \A n \in Nat : from[n] \in V
  <2> DEFINE S == {n \in Nat : from[n] \in V}
  <2>1. ASSUME NEW i \in Nat, \A j \in 0..(i - 1) : j \in S PROVE i \in S
    <3>1. CASE i = 0
      BY <1>2, <1>8, <3>1
    <3>2. CASE i # 0
      <4>1. i \div radix \in 0..(i - 1)
        <5>1. i \div radix \in Nat /\ i \div radix < i
          BY <1>10, <3>2
        <5> PICK q : q = i \div radix
          OBVIOUS
        <5> QED
          BY <5>1
      <4>2. from[i \div radix] \in V
        BY <2>1, <4>1
      <4>3. from[i] = <<DigitChar(i % radix)>> \o from[i \div radix]
        BY <1>8, <3>2
      <4>4. \A c \in Int, v \in V : <<c>> \o v \in V
        OBVIOUS
      <4>5. DigitChar(i % radix) \in Int
        BY <1>1
      <4> HIDE DEF V
      <4>6. from[i] \in V
        BY <4>2, <4>3, <4>4, <4>5
      <4> QED
        BY <4>6
    <3> QED
      BY <3>1, <3>2
  <2>2. Nat \subseteq S
    <3> HIDE DEF S
    <3> QED
      BY <2>1, InductionStrong
  <2> QED
    BY <2>2
<1> QED
  BY <1>7, <1>8, <1>9, <1>10

\* What a digit stands for
Worth(c) == IF c >= 97 THEN c - 87 ELSE c - 48

\* A text is read from left to right; h[k] is what the first k digits stand for.
Reads(h, text, radix) ==
    /\ h \in [0..Len(text) -> Int] /\ h[0] = 0
    /\ \A k \in 1..Len(text) : h[k] = h[k - 1] * radix + Worth(text[k])

LEMMA ReadBackIs ==
  ASSUME NEW text \in Seq(Int), NEW radix \in Int
  PROVE  \E h : Reads(h, text, radix) /\ ReadBack(text, radix) = h[Len(text)]
<1> DEFINE n == Len(text)
           turn(g, t) == IF t = {} THEN 0 ELSE g[t \ {Max(t)}] * radix + Worth(text[Max(t)])
           iter == CHOOSE g : g = [t \in SUBSET DOMAIN text |-> turn(g, t)]
           body == [k \in 1..n |-> [v \in Int |-> v * radix + Worth(text[k])]]
<1>1. n \in Nat /\ DOMAIN text = 1..n /\ \A k \in 1..n : Worth(text[k]) \in Int
  BY DEF Worth
<1>2. body \in [1..n -> [Int -> Int]]
  <2> HIDE DEF n
  <2> QED
    BY <1>1
<1>3. PICK g \in [SUBSET (1..n) -> Int] : FoldsUp(g, 0, n, body)
  <2> DEFINE M == Int
  <2>1. n \in Nat /\ 0 \in M /\ body \in [1..n -> [M -> M]]
    BY <1>1, <1>2
  <2> HIDE DEF body, n, M
  <2>2. \E g \in [SUBSET (1..n) -> M] : FoldsUp(g, 0, n, body)
    BY <2>1, FoldExists
  <2> QED
    BY <2>2 DEF M
<1> HIDE DEF n
<1>4. g = [t \in SUBSET DOMAIN text |-> turn(g, t)]
  <2>1. ASSUME NEW t \in SUBSET (1..n) PROVE g[t] = turn(g, t)
    <3>1. CASE t # {}
      <4>1. Max(t) \in t
        <5>1. t \in SUBSET (0..n)
          OBVIOUS
        <5> QED
          BY <1>1, <3>1, <5>1, MaxIs
      <4>2. g[t \ {Max(t)}] \in Int /\ Max(t) \in 1..n
        BY <4>1
      <4> QED
        BY <1>3, <3>1, <4>2 DEF FoldsUp
    <3> QED
      BY <1>3, <3>1 DEF FoldsUp
  <2> HIDE DEF turn
  <2> QED
    BY <1>1, <2>1
<1>5. iter = [t \in SUBSET (1..n) |-> turn(iter, t)]
  <2> HIDE DEF turn
  <2> QED
    BY <1>1, <1>4
<1>6. ReadBack(text, radix) = iter[DOMAIN text]
  BY DEF ReadBack, FoldLeft, MapThenFoldSet, Worth
<1> HIDE DEF iter
<1>7. iter[{}] = 0 /\ \A k \in 1..n : iter[1..k] = iter[1..(k - 1)] * radix + Worth(text[k])
  <2>1. ASSUME NEW k \in 1..n PROVE iter[1..k] = iter[1..(k - 1)] * radix + Worth(text[k])
    <3>1. 1..k \in SUBSET (1..n) /\ k \in 1..k /\ (1..k) \ {k} = 1..(k - 1) /\ k \in Nat
      BY <1>1
    <3>2. Max(1..k) = k
      BY <3>1, LastIs
    <3> QED
      BY <1>5, <3>1, <3>2
  <2> QED
    BY <1>5, <2>1
<1> DEFINE h == [k \in 0..n |-> iter[1..k]]
<1>8. h[0] = 0 /\ \A k \in 1..n : h[k] = h[k - 1] * radix + Worth(text[k])
  <2>1. 1..0 = {}
    OBVIOUS
  <2> QED
    BY <1>1, <1>7, <2>1
<1>9. \A k \in 0..n : h[k] \in Int
  <2> DEFINE S == {k \in 0..n : h[k] \in Int}
  <2> HIDE DEF h
  <2>1. 0 \in S
    BY <1>1, <1>8
  <2>2. \A k \in 1..n : k - 1 \in S => k \in S
    BY <1>1, <1>8
  <2>3. \A k \in 0..n : k \in S
    <3> HIDE DEF S
    <3> QED
      BY <1>1, <2>1, <2>2, Induction
  <2> QED
    BY <2>3
<1>10. h[n] = iter[DOMAIN text] /\ h \in [0..n -> Int]
  BY <1>1, <1>9
<1> HIDE DEF h
<1> QED
  BY <1>6, <1>8, <1>10 DEF Reads, n

\* One more digit at the end
LEMMA ReadBackAppend ==
  ASSUME NEW text \in Seq(Int), NEW c \in Int, NEW radix \in Int
  PROVE  /\ ReadBack(text, radix) \in Int
         /\ ReadBack(Append(text, c), radix) = ReadBack(text, radix) * radix + Worth(c)
<1>1. PICK h : Reads(h, text, radix) /\ ReadBack(text, radix) = h[Len(text)]
  BY ReadBackIs
<1> PICK more : more = Append(text, c)
  OBVIOUS
<1> PICK n : n = Len(text)
  OBVIOUS
<1>2. /\ n \in Nat /\ more \in Seq(Int) /\ Len(more) = n + 1
      /\ more[n + 1] = c /\ \A k \in 1..n : more[k] = text[k]
  OBVIOUS
<1>3. PICK g : Reads(g, more, radix) /\ ReadBack(more, radix) = g[Len(more)]
  BY <1>2, ReadBackIs
<1> DEFINE S == {k \in 0..n : g[k] = h[k]}
<1>4. 0 \in S
  BY <1>1, <1>2, <1>3 DEF Reads
<1>5. ASSUME NEW k \in 1..n, k - 1 \in S PROVE k \in S
  <2>1. g[k] = g[k - 1] * radix + Worth(more[k]) /\ h[k] = h[k - 1] * radix + Worth(text[k])
    BY <1>1, <1>2, <1>3 DEF Reads
  <2> QED
    BY <1>2, <1>5, <2>1
<1>6. \A k \in 0..n : k \in S
  <2> HIDE DEF S
  <2> QED
    BY <1>2, <1>4, <1>5, Induction
<1>7. g[n + 1] = g[n] * radix + Worth(c) /\ g[n] = h[n] /\ h[n] \in Int
  <2>1. g[n] = h[n]
    BY <1>2, <1>6
  <2>2. g[n + 1] = g[(n + 1) - 1] * radix + Worth(more[n + 1])
    BY SMTT(30), <1>2, <1>3 DEF Reads
  <2>3. h[n] \in Int
    BY <1>1, <1>2 DEF Reads
  <2>4. (n + 1) - 1 = n
    BY <1>2
  <2> QED
    BY <1>2, <2>1, <2>2, <2>3, <2>4
<1> QED
  BY <1>1, <1>2, <1>3, <1>7

LEMMA ReadBackEmpty == \A radix \in Int : ReadBack(<<>>, radix) = 0
<1> SUFFICES ASSUME NEW radix \in Int PROVE ReadBack(<<>>, radix) = 0
  OBVIOUS
<1>1. <<>> \in Seq(Int) /\ Len(<<>>) = 0
  OBVIOUS
<1>2. PICK h : Reads(h, <<>>, radix) /\ ReadBack(<<>>, radix) = h[Len(<<>>)]
  BY <1>1, ReadBackIs
<1> QED
  BY <1>1, <1>2 DEF Reads

\* Turning a sequence around
LEMMA ReverseIs ==
  ASSUME NEW s \in Seq(Int), NEW c \in Int
  PROVE  Reverse(s) \in Seq(Int) /\ Reverse(<<c>> \o s) = Append(Reverse(s), c)
<1> PICK n : n = Len(s)
  OBVIOUS
<1> PICK t : t = <<c>> \o s
  OBVIOUS
<1>1. /\ n \in Nat /\ t \in Seq(Int) /\ Len(t) = n + 1 /\ t[1] = c
      /\ \A i \in 1..n : t[i + 1] = s[i]
  OBVIOUS
<1>2. Reverse(s) \in Seq(Int) /\ Len(Reverse(s)) = n /\ \A i \in 1..n : Reverse(s)[i] = s[n - i + 1]
  BY DEF Reverse
<1>3. Reverse(t) \in Seq(Int) /\ Len(Reverse(t)) = n + 1 /\ \A i \in 1..(n + 1) : Reverse(t)[i] = t[(n + 1) - i + 1]
  BY <1>1 DEF Reverse
<1> PICK r, q : r = Reverse(s) /\ q = Reverse(t)
  OBVIOUS
<1>5. /\ Append(r, c) \in Seq(Int) /\ Len(Append(r, c)) = n + 1
      /\ Append(r, c)[n + 1] = c /\ \A i \in 1..n : Append(r, c)[i] = r[i]
  BY <1>1, <1>2
<1>4. ASSUME NEW i \in 1..(n + 1) PROVE q[i] = Append(r, c)[i]
  <2>1. CASE i = n + 1
    <3>1. (n + 1) - (n + 1) + 1 = 1
      BY <1>1
    <3>2. q[i] = t[1]
      BY <1>3, <2>1, <3>1
    <3> QED
      BY <1>1, <1>5, <2>1, <3>2
  <2>2. CASE i # n + 1
    <3>1. i \in 1..n /\ n - i + 1 \in 1..n /\ (n + 1) - i + 1 = (n - i + 1) + 1
      BY <1>1, <2>2
    <3>2. q[i] = t[(n - i + 1) + 1]
      BY <1>3, <3>1
    <3>3. q[i] = s[n - i + 1]
      BY <1>1, <3>1, <3>2
    <3> QED
      BY <1>2, <1>5, <3>1, <3>3
  <2> QED
    BY <2>1, <2>2
<1>6. q = Append(r, c)
  BY <1>1, <1>3, <1>4, <1>5, SeqEqual
<1> QED
  BY <1>2, <1>6

LEMMA ReverseOf == \A s \in Seq(Int) : Reverse(s) \in Seq(Int)
  BY DEF Reverse

\* What is printed in a radix reads back in it.
LEMMA DigitsRead ==
  ASSUME NEW radix \in 2..16
  PROVE  \A n \in Nat : ReadBack(Reverse(DigitsUp(n, radix)), radix) = n
<1> DEFINE S == {n \in Nat : ReadBack(Reverse(DigitsUp(n, radix)), radix) = n}
<1>1. ASSUME NEW n \in Nat, \A j \in 0..(n - 1) : j \in S PROVE n \in S
  <2>1. CASE n = 0
    <3>1. Reverse(<<>>) = <<>>
      BY DEF Reverse
    <3> QED
      BY <2>1, <3>1, Digits, ReadBackEmpty
  <2>2. CASE n # 0
    <3> PICK q, d, c : q = n \div radix /\ d = n % radix /\ c = DigitChar(d)
      OBVIOUS
    <3>1. q \in Nat /\ q < n /\ d \in 0..(radix - 1) /\ n = q * radix + d
      BY <2>2
    <3>2. c \in Int /\ Worth(c) = d
      BY <3>1 DEF DigitChar, Worth
    <3>3. q \in S
      BY <1>1, <3>1
    <3> PICK s : s = DigitsUp(q, radix)
      OBVIOUS
    <3>4. s \in Seq(Int) /\ DigitsUp(n, radix) = <<c>> \o s
      <4>1. radix \in Nat /\ radix >= 2
        OBVIOUS
      <4>2. DigitsUp(q, radix) \in Seq(Int)
        BY <3>1, <4>1, Digits
      <4>3. DigitsUp(n, radix) = <<DigitChar(n % radix)>> \o DigitsUp(n \div radix, radix)
        BY <2>2, <4>1, Digits
      <4> QED
        BY <4>2, <4>3
    <3>5. Reverse(s) \in Seq(Int) /\ Reverse(<<c>> \o s) = Append(Reverse(s), c)
      BY <3>2, <3>4, ReverseIs
    <3>6. ReadBack(Append(Reverse(s), c), radix) = ReadBack(Reverse(s), radix) * radix + Worth(c)
      BY <3>2, <3>5, ReadBackAppend
    <3>7. ReadBack(Reverse(s), radix) = q
      BY <3>3
    <3> QED
      BY <3>1, <3>2, <3>4, <3>5, <3>6, <3>7
  <2> QED
    BY <2>1, <2>2
<1>2. Nat \subseteq S
  <2> HIDE DEF S
  <2> QED
    BY <1>1, InductionStrong
<1> QED
  BY <1>2

LEMMA OneDigit == \A radix \in Int : ReadBack(<<DigitChar(0)>>, radix) = 0
<1> SUFFICES ASSUME NEW radix \in Int PROVE ReadBack(<<DigitChar(0)>>, radix) = 0
  OBVIOUS
<1> PICK none, c : none = <<>> /\ c = DigitChar(0)
  OBVIOUS
<1>1. none \in Seq(Int) /\ Append(none, c) = <<c>>
  OBVIOUS
<1>3. c \in Int /\ Worth(c) = 0
  BY DEF DigitChar, Worth
<1>2. ReadBack(Append(none, c), radix) = ReadBack(none, radix) * radix + Worth(c)
  BY <1>1, <1>3, ReadBackAppend
<1> QED
  BY <1>1, <1>2, <1>3, ReadBackEmpty

\* itoa of mini_libc, of a number without a sign
LEMMA ItoaReads ==
  ASSUME NEW num \in Longs, NEW radix \in 2..16, NEW sign_flag, sign_flag = 0 \/ num >= 0
  PROVE  ReadBack(itoa(num, radix, sign_flag), radix) = num % PowerOf2[LongBits]
<1> PICK v : v = num % PowerOf2[LongBits]
  OBVIOUS
<1>1. v \in Nat /\ (num = 0 => v = 0) /\ num \in Int
  BY LongsAre
<1>2. CASE num = 0
  BY <1>1, <1>2, OneDigit DEF itoa
<1>3. CASE num # 0
  <2>1. DigitsUp(v, radix) \in Seq(Int)
    BY <1>1, Digits
  <2> PICK s : s = DigitsUp(v, radix)
    OBVIOUS
  <2>2. s \o <<>> = s
    BY <2>1
  <2>3. ~(sign_flag = 1 /\ num < 0)
    BY <1>1
  <2>4. itoa(num, radix, sign_flag) = Reverse(s)
    BY <1>3, <2>2, <2>3 DEF itoa
  <2> QED
    BY <1>1, <2>4, DigitsRead
<1> QED
  BY <1>2, <1>3

\* itoa of the linker, of every number but the least
LEMMA DlItoaReads ==
  ASSUME NEW num \in Longs
  PROVE  /\ num >= 0 => ReadBack(dl_itoa(num), 10) = num
         /\ num < 0 /\ -num \in Longs =>
                /\ Head(dl_itoa(num)) = Minus
                /\ ReadBack(Tail(dl_itoa(num)), 10) = -num
<1>1. num \in Int /\ 10 \in 2..16 /\ 10 \in Int
  BY LongsAre
<1>2. CASE num = 0
  <2>1. dl_itoa(num) = <<DigitChar(0)>>
    BY <1>2 DEF dl_itoa
  <2> QED
    BY <1>1, <1>2, <2>1, OneDigit
<1>3. CASE num > 0
  <2>1. Reverse(DigitsUp(num, 10)) \in Seq(Int)
    <3>1. DigitsUp(num, 10) \in Seq(Int)
      BY <1>1, <1>3, Digits
    <3> QED
      BY <3>1, ReverseOf
  <2> PICK s : s = Reverse(DigitsUp(num, 10))
    OBVIOUS
  <2>2. <<>> \o s = s
    BY <2>1
  <2>3. ~(num < 0) /\ num # 0
    BY <1>1, <1>3
  <2>4. dl_itoa(num) = s
    BY <1>1, <1>3, <2>2, <2>3 DEF dl_itoa
  <2>5. ReadBack(s, 10) = num
    BY <1>1, <1>3, DigitsRead
  <2> QED
    BY <1>1, <1>3, <2>4, <2>5
<1>4. CASE num < 0 /\ -num \in Longs
  <2> PICK h, w, m : h = PowerOf2[LongBits - 1] /\ w = PowerOf2[LongBits] /\ m = -num
    OBVIOUS
  <2>1. h \in Nat \ {0} /\ w = 2 * h /\ m \in 1..(h - 1)
    BY <1>1, <1>4, LongsAre DEF Longs
  <2>2. ((m + h) % w) - h = m
    BY <2>1
  <2>3. Signed(-num, LongBits) = m
    BY <2>2 DEF Signed
  <2>4. Reverse(DigitsUp(m, 10)) \in Seq(Int)
    <3>1. DigitsUp(m, 10) \in Seq(Int)
      BY <2>1, Digits
    <3> QED
      BY <3>1, ReverseOf
  <2> PICK s : s = Reverse(DigitsUp(m, 10))
    OBVIOUS
  <2>5. dl_itoa(num) = <<Minus>> \o s
    <3>1. num # 0 /\ m > 0
      BY <1>4, <2>1
    <3> QED
      BY <1>4, <2>3, <3>1 DEF dl_itoa
  <2> PICK t : t = <<Minus>> \o s
    OBVIOUS
  <2>6. Head(t) = Minus /\ Tail(t) = s
    <3>1. Len(Tail(t)) = Len(s) /\ Tail(t) \in Seq(Int) /\ \A i \in 1..Len(s) : Tail(t)[i] = s[i]
      BY <2>4 DEF Minus
    <3>2. Tail(t) = s
      BY <2>4, <3>1, SeqEqual
    <3> QED
      BY <2>4, <3>2
  <2>7. ReadBack(s, 10) = m
    BY <1>1, <2>1, DigitsRead
  <2> PICK d : d = dl_itoa(num)
    OBVIOUS
  <2>8. Head(d) = Minus /\ ReadBack(Tail(d), 10) = m
    BY <2>5, <2>6, <2>7
  <2> QED
    BY <1>1, <1>4, <2>8
<1> QED
  BY <1>1, <1>2, <1>3, <1>4

\* What %d, %ld and %x print are bytes.
LEMMA NumbersAreText ==
  ASSUME NEW n \in Int, NEW lib
  PROVE  decimal(lib, n) \in Seq(Int) /\ hex(lib, n) \in Seq(Int)
<1> PICK w : w = PowerOf2[LongBits]
  OBVIOUS
<1>1. w \in Nat \ {0} /\ n % w \in Nat
  BY LongsAre
<1>2. \A k \in Nat, radix \in 2..16 : DigitsUp(k, radix) \in Seq(Int) /\ Reverse(DigitsUp(k, radix)) \in Seq(Int)
  <2> SUFFICES ASSUME NEW k \in Nat, NEW radix \in 2..16
               PROVE  DigitsUp(k, radix) \in Seq(Int) /\ Reverse(DigitsUp(k, radix)) \in Seq(Int)
    OBVIOUS
  <2>1. DigitsUp(k, radix) \in Seq(Int)
    BY Digits
  <2> QED
    BY <2>1, ReverseOf
<1>3. <<DigitChar(0)>> \in Seq(Int) /\ <<Minus>> \in Seq(Int) /\ <<>> \in Seq(Int)
  BY DEF DigitChar, Minus
<1>4. \A radix \in 2..16, flag \in {0, 1} : itoa(n, radix, flag) \in Seq(Int)
  <2> SUFFICES ASSUME NEW radix \in 2..16, NEW flag \in {0, 1} PROVE itoa(n, radix, flag) \in Seq(Int)
    OBVIOUS
  <2> PICK s, sign : s = DigitsUp(n % w, radix) /\ sign = IF flag = 1 /\ n < 0 THEN <<Minus>> ELSE <<>>
    OBVIOUS
  <2>1. s \in Seq(Int) /\ sign \in Seq(Int)
    BY <1>1, <1>2, <1>3
  <2>2. s \o sign \in Seq(Int)
    BY <2>1
  <2>3. Reverse(s \o sign) \in Seq(Int)
    BY <2>2, ReverseOf
  <2>4. itoa(n, radix, flag) = IF n = 0 THEN <<DigitChar(0)>> ELSE Reverse(s \o sign)
    BY DEF itoa
  <2> QED
    BY <1>3, <2>3, <2>4
<1>5. dl_itoa(n) \in Seq(Int)
  <2> PICK m : m = IF n < 0 THEN Signed(-n, LongBits) ELSE n
    OBVIOUS
  <2>1. m \in Int
    <3>1. \A v \in Int : Signed(v, LongBits) \in Int
      BY LongsAre DEF Signed
    <3> QED
      BY <3>1
  <2> PICK s, sign : /\ s = IF m > 0 THEN Reverse(DigitsUp(m, 10)) ELSE <<>>
                     /\ sign = IF n < 0 THEN <<Minus>> ELSE <<>>
    OBVIOUS
  <2>2. s \in Seq(Int) /\ sign \in Seq(Int)
    <3>1. m > 0 => m \in Nat
      BY <2>1
    <3>2. m > 0 => Reverse(DigitsUp(m, 10)) \in Seq(Int)
      <4>1. 10 \in 2..16
        OBVIOUS
      <4> QED
        BY <1>2, <3>1, <4>1
    <3> QED
      BY <1>3, <3>2
  <2>3. dl_itoa(n) = IF n = 0 THEN <<DigitChar(0)>> ELSE sign \o s
    BY DEF dl_itoa
  <2> QED
    BY <1>3, <2>2, <2>3
<1>6. \A k \in Nat : utoa_hex(k) \in Seq(Int)
  BY <1>2, <1>3 DEF utoa_hex
<1>7. decimal(lib, n) \in Seq(Int)
  BY <1>4, <1>5 DEF decimal
<1>8. hex(lib, n) \in Seq(Int)
  <2>1. utoa_hex(n % w) \in Seq(Int)
    BY <1>1, <1>6
  <2>2. itoa(n, 16, 0) \in Seq(Int)
    BY <1>4
  <2> QED
    BY <2>1, <2>2 DEF hex
<1> QED
  BY <1>7, <1>8

-----------------------------------------------------------------------------
(* Copies *)

\* A copy goes through its offsets one after the other; h[k] is the memory after k bytes.
Copies(h, m, dest, src, offsets) ==
    /\ h \in [0..Len(offsets) -> [Memory -> Memory]] /\ h[0] = m
    /\ \A k \in 1..Len(offsets) :
        h[k] = [h[k - 1] EXCEPT ![dest + offsets[k]] = h[k - 1][src + offsets[k]]]

\* The bytes it reads and writes are in memory.
InMemory(dest, src, offsets) ==
    /\ offsets \in Seq(Nat)
    /\ \A i \in 1..Len(offsets) : dest + offsets[i] \in Memory /\ src + offsets[i] \in Memory

LEMMA CopyBytesIs ==
  ASSUME NEW m \in [Memory -> Memory], NEW dest \in Nat, NEW src \in Nat,
         NEW offsets, InMemory(dest, src, offsets)
  PROVE  \E h : Copies(h, m, dest, src, offsets) /\ CopyBytes(m, dest, src, offsets) = h[Len(offsets)]
<1> DEFINE n == Len(offsets)
           M == [Memory -> Memory]
           step(v, i) == [v EXCEPT ![dest + i] = v[src + i]]
           turn(g, t) == IF t = {} THEN m ELSE step(g[t \ {Max(t)}], offsets[Max(t)])
           iter == CHOOSE g : g = [t \in SUBSET DOMAIN offsets |-> turn(g, t)]
           body == [k \in 1..n |-> [v \in M |-> step(v, offsets[k])]]
<1>1. /\ n \in Nat /\ DOMAIN offsets = 1..n
      /\ \A k \in 1..n : dest + offsets[k] \in Memory /\ src + offsets[k] \in Memory
  BY DEF InMemory
<1>2. \A k \in 1..n : \A v \in M : step(v, offsets[k]) \in M
  BY <1>1
<1>3. m \in M /\ body \in [1..n -> [M -> M]]
  <2> HIDE DEF step, M, n
  <2>1. body \in [1..n -> [M -> M]]
    BY <1>2
  <2> QED
    BY <2>1 DEF M
<1> HIDE DEF n, M, step
<1>4. PICK g \in [SUBSET (1..n) -> M] : FoldsUp(g, m, n, body)
  <2> HIDE DEF body
  <2> QED
    BY <1>1, <1>3, FoldExists
<1>5. g = [t \in SUBSET DOMAIN offsets |-> turn(g, t)]
  <2>1. ASSUME NEW t \in SUBSET (1..n) PROVE g[t] = turn(g, t)
    <3>1. CASE t # {}
      <4>1. Max(t) \in t
        <5>1. t \in SUBSET (0..n)
          OBVIOUS
        <5> QED
          BY <1>1, <3>1, <5>1, MaxIs
      <4>2. g[t \ {Max(t)}] \in M /\ Max(t) \in 1..n
        BY <4>1
      <4>3. g[t] = body[Max(t)][g[t \ {Max(t)}]]
        BY <1>4, <3>1 DEF FoldsUp
      <4> QED
        BY <3>1, <4>2, <4>3
    <3> QED
      BY <1>4, <3>1 DEF FoldsUp
  <2> HIDE DEF turn
  <2> QED
    BY <1>1, <2>1
<1>6. iter = [t \in SUBSET (1..n) |-> turn(iter, t)]
  <2> HIDE DEF turn
  <2> QED
    BY <1>1, <1>5
<1>7. CopyBytes(m, dest, src, offsets) = iter[DOMAIN offsets]
  BY DEF CopyBytes, FoldLeft, MapThenFoldSet, step
<1> HIDE DEF iter
<1>8. iter[{}] = m /\ \A k \in 1..n : iter[1..k] = step(iter[1..(k - 1)], offsets[k])
  <2>1. ASSUME NEW k \in 1..n PROVE iter[1..k] = step(iter[1..(k - 1)], offsets[k])
    <3>1. 1..k \in SUBSET (1..n) /\ k \in 1..k /\ (1..k) \ {k} = 1..(k - 1) /\ k \in Nat
      BY <1>1
    <3>2. Max(1..k) = k
      BY <3>1, LastIs
    <3> QED
      BY <1>6, <3>1, <3>2
  <2> QED
    BY <1>6, <2>1
<1> DEFINE h == [k \in 0..n |-> iter[1..k]]
<1>9. h[0] = m /\ \A k \in 1..n : h[k] = step(h[k - 1], offsets[k])
  <2>1. 1..0 = {}
    OBVIOUS
  <2> QED
    BY <1>1, <1>8, <2>1
<1>10. \A k \in 0..n : h[k] \in M
  <2> DEFINE S == {k \in 0..n : h[k] \in M}
  <2> HIDE DEF h
  <2>1. 0 \in S
    BY <1>1, <1>3, <1>9
  <2>2. \A k \in 1..n : k - 1 \in S => k \in S
    BY <1>1, <1>2, <1>9
  <2>3. \A k \in 0..n : k \in S
    <3> HIDE DEF S
    <3> QED
      BY <1>1, <2>1, <2>2, Induction
  <2> QED
    BY <2>3
<1>11. h[n] = iter[DOMAIN offsets] /\ h \in [0..n -> M]
  BY <1>1, <1>10
<1> HIDE DEF h
<1> QED
  BY <1>7, <1>9, <1>11 DEF Copies, n, M, step

\* The first k bytes of n are copied, or the last k, and nothing else has changed.
Copied(after, m, dest, src, from, to) ==
    after = [a \in Memory |-> IF a \in (dest + from)..(dest + to - 1) THEN m[src + (a - dest)] ELSE m[a]]

\* The bytes that a copy of n bytes touches are in memory.
LEMMA AreaInMemory ==
  ASSUME NEW dest \in Memory, NEW src \in Memory, NEW n \in Memory, dest + n \in Memory, src + n \in Memory
  PROVE  /\ dest \in Nat /\ src \in Nat /\ n \in Nat
         /\ \A i \in 0..(n - 1) : dest + i \in Memory /\ src + i \in Memory
<1>1. Memory \subseteq Nat /\ \A a, b \in Memory : a..b \subseteq Memory
  BY FormattingAssumption
<1>2. ASSUME NEW i \in 0..(n - 1) PROVE dest + i \in dest..(dest + n) /\ src + i \in src..(src + n)
  BY <1>1
<1> QED
  BY <1>1, <1>2

\* A copy that goes upward is exact, unless the destination begins inside the source.
LEMMA CopyUp ==
  ASSUME NEW m \in [Memory -> Memory],
         NEW dest \in Memory, NEW src \in Memory, NEW n \in Memory, dest + n \in Memory, src + n \in Memory,
         dest <= src \/ dest >= src + n
  PROVE  Copied(CopyBytes(m, dest, src, Upward(n)), m, dest, src, 0, n)
<1>1. /\ dest \in Nat /\ src \in Nat /\ n \in Nat
      /\ \A i \in 0..(n - 1) : dest + i \in Memory /\ src + i \in Memory
      /\ Memory \subseteq Nat
  BY AreaInMemory, FormattingAssumption
<1>2. Upward(n) \in Seq(Nat) /\ Len(Upward(n)) = n /\ \A k \in 1..n : Upward(n)[k] = k - 1
  BY <1>1 DEF Upward
<1>3. InMemory(dest, src, Upward(n))
  <2>1. \A k \in 1..n : k - 1 \in 0..(n - 1)
    BY <1>1
  <2> QED
    BY <1>1, <1>2, <2>1 DEF InMemory
<1>4. PICK h : Copies(h, m, dest, src, Upward(n)) /\ CopyBytes(m, dest, src, Upward(n)) = h[Len(Upward(n))]
  BY SMTT(30), <1>1, <1>3, CopyBytesIs
<1>5. /\ h[0] = m /\ \A k \in 0..n : h[k] \in [Memory -> Memory]
      /\ \A k \in 1..n : h[k] = [h[k - 1] EXCEPT ![dest + (k - 1)] = h[k - 1][src + (k - 1)]]
  BY <1>2, <1>4 DEF Copies
<1> DEFINE S == {k \in 0..n : Copied(h[k], m, dest, src, 0, k)}
<1>6. 0 \in S
  <2>1. \A a \in Memory : a \notin (dest + 0)..(dest + 0 - 1)
    BY <1>1
  <2>2. m = [a \in Memory |-> IF a \in (dest + 0)..(dest + 0 - 1) THEN m[src + (a - dest)] ELSE m[a]]
    <3>1. m = [a \in Memory |-> m[a]]
      OBVIOUS
    <3> QED
      BY <2>1, <3>1, Zenon
  <2>3. 0 \in 0..n
    BY <1>1
  <2> QED
    BY <1>5, <2>2, <2>3 DEF Copied
<1>7. ASSUME NEW k \in 1..n, k - 1 \in S PROVE k \in S
  <2>1. k - 1 \in 0..n /\ dest + (k - 1) \in Memory /\ src + (k - 1) \in Memory
    BY <1>1
  <2>2. \A a \in Memory : h[k - 1][a] = IF a \in (dest + 0)..(dest + (k - 1) - 1) THEN m[src + (a - dest)] ELSE m[a]
    BY <1>7 DEF Copied
  <2>3. h[k - 1][src + (k - 1)] = m[src + (k - 1)]
    <3>1. src + (k - 1) \notin (dest + 0)..(dest + (k - 1) - 1)
      BY <1>1
    <3> QED
      BY <2>1, <2>2, <3>1
  <2>4. ASSUME NEW a \in Memory
        PROVE  h[k][a] = IF a \in (dest + 0)..(dest + k - 1) THEN m[src + (a - dest)] ELSE m[a]
    <3>1. CASE a = dest + (k - 1)
      <4>1. h[k][a] = m[src + (k - 1)]
        BY ZenonT(40), <1>5, <2>1, <2>3, <3>1
      <4>2. a \in (dest + 0)..(dest + k - 1) /\ a - dest = k - 1
        BY <1>1, <3>1
      <4> QED
        BY <4>1, <4>2
    <3>2. CASE a # dest + (k - 1)
      <4>1. h[k][a] = h[k - 1][a]
        BY <1>5, <2>1, <3>2
      <4>2. a \in (dest + 0)..(dest + k - 1) <=> a \in (dest + 0)..(dest + (k - 1) - 1)
        BY <1>1, <3>2
      <4> QED
        BY <2>2, <4>1, <4>2
    <3> QED
      BY <3>1, <3>2
  <2>5. h[k] = [a \in Memory |-> h[k][a]]
    BY <1>5
  <2> QED
    BY <2>4, <2>5 DEF Copied
<1>8. \A k \in 0..n : k \in S
  <2> HIDE DEF S
  <2> QED
    BY <1>1, <1>6, <1>7, Induction
<1> QED
  BY <1>1, <1>2, <1>4, <1>8

\* A copy that goes downward is exact if the destination is behind the source.
LEMMA CopyDown ==
  ASSUME NEW m \in [Memory -> Memory],
         NEW dest \in Memory, NEW src \in Memory, NEW n \in Memory, dest + n \in Memory, src + n \in Memory,
         dest > src
  PROVE  Copied(CopyBytes(m, dest, src, Reverse(Upward(n))), m, dest, src, 0, n)
<1> DEFINE down == Reverse(Upward(n))
<1>1. /\ dest \in Nat /\ src \in Nat /\ n \in Nat
      /\ \A i \in 0..(n - 1) : dest + i \in Memory /\ src + i \in Memory
      /\ Memory \subseteq Nat
  BY AreaInMemory, FormattingAssumption
<1>2. down \in Seq(Nat) /\ Len(down) = n /\ \A k \in 1..n : down[k] = n - k
  <2>1. Upward(n) \in Seq(Nat) /\ Len(Upward(n)) = n /\ \A k \in 1..n : Upward(n)[k] = k - 1
    BY <1>1 DEF Upward
  <2>2. \A k \in 1..n : (n - k) + 1 \in 1..n /\ ((n - k) + 1) - 1 = n - k
    BY <1>1
  <2>3. \A k \in 1..n : Upward(n)[(n - k) + 1] = n - k /\ n - k \in Nat
    BY <2>1, <2>2
  <2>4. down = [k \in 1..n |-> n - k]
    BY <2>1, <2>3 DEF Reverse
  <2> QED
    BY <1>1, <2>3, <2>4
<1> HIDE DEF down
<1>3. InMemory(dest, src, down)
  <2>1. \A k \in 1..n : n - k \in 0..(n - 1)
    BY <1>1
  <2> QED
    BY <1>1, <1>2, <2>1 DEF InMemory
<1>4. PICK h : Copies(h, m, dest, src, down) /\ CopyBytes(m, dest, src, down) = h[Len(down)]
  BY <1>1, <1>3, CopyBytesIs
<1>5. /\ h[0] = m /\ \A k \in 0..n : h[k] \in [Memory -> Memory]
      /\ \A k \in 1..n : h[k] = [h[k - 1] EXCEPT ![dest + (n - k)] = h[k - 1][src + (n - k)]]
  BY <1>2, <1>4 DEF Copies
<1> DEFINE S == {k \in 0..n : Copied(h[k], m, dest, src, n - k, n)}
<1>6. 0 \in S
  <2>1. \A a \in Memory : a \notin (dest + (n - 0))..(dest + n - 1)
    BY <1>1
  <2>2. m = [a \in Memory |-> IF a \in (dest + (n - 0))..(dest + n - 1) THEN m[src + (a - dest)] ELSE m[a]]
    <3>1. m = [a \in Memory |-> m[a]]
      OBVIOUS
    <3> QED
      BY <2>1, <3>1, Zenon
  <2>3. 0 \in 0..n
    BY <1>1
  <2> QED
    BY <1>5, <2>2, <2>3 DEF Copied
<1>7. ASSUME NEW k \in 1..n, k - 1 \in S PROVE k \in S
  <2>1. k - 1 \in 0..n /\ dest + (n - k) \in Memory /\ src + (n - k) \in Memory
    BY <1>1
  <2>2. \A a \in Memory :
            h[k - 1][a] = IF a \in (dest + (n - (k - 1)))..(dest + n - 1) THEN m[src + (a - dest)] ELSE m[a]
    BY <1>7 DEF Copied
  <2>3. h[k - 1][src + (n - k)] = m[src + (n - k)]
    <3>1. src + (n - k) \notin (dest + (n - (k - 1)))..(dest + n - 1)
      BY <1>1
    <3> QED
      BY <2>1, <2>2, <3>1
  <2>4. ASSUME NEW a \in Memory
        PROVE  h[k][a] = IF a \in (dest + (n - k))..(dest + n - 1) THEN m[src + (a - dest)] ELSE m[a]
    <3>1. CASE a = dest + (n - k)
      <4>1. h[k][a] = m[src + (n - k)]
        BY <1>5, <2>1, <2>3, <3>1
      <4>2. a \in (dest + (n - k))..(dest + n - 1) /\ a - dest = n - k
        BY <1>1, <3>1
      <4> QED
        BY <4>1, <4>2
    <3>2. CASE a # dest + (n - k)
      <4>1. h[k][a] = h[k - 1][a]
        BY ZenonT(40), <1>5, <2>1, <3>2
      <4>2. a \in (dest + (n - k))..(dest + n - 1) <=> a \in (dest + (n - (k - 1)))..(dest + n - 1)
        BY <1>1, <3>2
      <4> QED
        BY <2>2, <4>1, <4>2
    <3> QED
      BY <3>1, <3>2
  <2>5. h[k] = [a \in Memory |-> h[k][a]]
    BY <1>5
  <2> QED
    BY <2>4, <2>5 DEF Copied
<1>8. \A k \in 0..n : k \in S
  <2> HIDE DEF S
  <2> QED
    BY <1>1, <1>6, <1>7, Induction
<1>9. Copied(h[n], m, dest, src, n - n, n) /\ n - n = 0
  BY <1>1, <1>8
<1> QED
  BY <1>2, <1>4, <1>9 DEF down

\* memcpy of mini_libc is exact whatever the areas.
LEMMA MemcpyIs ==
  ASSUME NEW m \in [Memory -> Memory],
         NEW dest \in Memory, NEW src \in Memory, NEW n \in Memory, dest + n \in Memory, src + n \in Memory
  PROVE  Copied(memcpy(m, dest, src, n), m, dest, src, 0, n)
<1>1. dest \in Nat /\ src \in Nat /\ n \in Nat
  BY AreaInMemory
<1>2. CASE dest <= src \/ dest >= src + n
  BY <1>2, CopyUp DEF memcpy
<1>3. CASE ~(dest <= src \/ dest >= src + n)
  <2>1. dest > src
    BY <1>1, <1>3
  <2> QED
    BY <1>3, <2>1, CopyDown DEF memcpy
<1> QED
  BY <1>2, <1>3

-----------------------------------------------------------------------------
(* Comparisons and the environment *)

\* Bytes of strings are not Nul, except behind the end.
LEMMA ByteAtIs ==
  ASSUME NEW s \in Seq(Chars), NEW i \in Nat
  PROVE  /\ i < Len(s) => ByteAt(s, i) = s[i + 1] /\ ByteAt(s, i) # 0
         /\ i >= Len(s) => ByteAt(s, i) = 0
         /\ ByteAt(s, i) \in 0..255
         /\ Len(s) \in Nat
<1>1. Len(s) \in Nat /\ \A k \in 1..Len(s) : s[k] \in Chars
  OBVIOUS
<1>2. i < Len(s) => s[i + 1] \in Chars
  BY <1>1
<1> PICK c : c = s[i + 1]
  OBVIOUS
<1>3. i < Len(s) => c \in 1..255 /\ c # 0
  <2>1. i < Len(s) => c \in Chars
    BY <1>2
  <2>2. \A b \in Chars : b \in 1..255 /\ b # 0
    BY DEF Chars
  <2> QED
    BY <2>1, <2>2
<1>4. ByteAt(s, i) = IF i < Len(s) THEN c ELSE 0
  BY DEF ByteAt, Nul
<1>5. (IF i < Len(s) THEN c ELSE 0) \in 0..255
  BY <1>3
<1>6. i < Len(s) => ByteAt(s, i) = c
  BY <1>4
<1>7. i >= Len(s) => ByteAt(s, i) = 0
  BY <1>1, <1>4
<1>8. ByteAt(s, i) \in 0..255
  BY <1>4, <1>5
<1> QED
  BY <1>1, <1>3, <1>6, <1>7, <1>8

\* The first n bytes of a string
LEMMA PrefixIs ==
  ASSUME NEW s \in Seq(Chars), NEW n \in Nat
  PROVE  /\ Prefix(s, n) \in Seq(Chars)
         /\ Len(Prefix(s, n)) = IF n < Len(s) THEN n ELSE Len(s)
         /\ \A i \in 1..n : i <= Len(s) => Prefix(s, n)[i] = s[i]
<1> PICK k : k = IF n < Len(s) THEN n ELSE Len(s)
  OBVIOUS
<1>1. k \in 0..Len(s) /\ Len(s) \in Nat /\ \A i \in 1..n : i <= Len(s) => i \in 1..k
  OBVIOUS
<1>2. SubSeq(s, 1, k) \in Seq(Chars) /\ Len(SubSeq(s, 1, k)) = k /\ \A i \in 1..k : SubSeq(s, 1, k)[i] = s[i]
  BY <1>1
<1> QED
  BY <1>1, <1>2 DEF Prefix

\* Strings agree in their first n bytes, in the words of a loop over them.
LEMMA PrefixesAgree ==
  ASSUME NEW s1 \in Seq(Chars), NEW s2 \in Seq(Chars), NEW n \in Nat
  PROVE  Prefix(s1, n) = Prefix(s2, n) <=> \A i \in 0..(n - 1) : ByteAt(s1, i) = ByteAt(s2, i)
<1> PICK p, q, l1, l2 : p = Prefix(s1, n) /\ q = Prefix(s2, n) /\ l1 = Len(s1) /\ l2 = Len(s2)
  OBVIOUS
<1>1. /\ p \in Seq(Chars) /\ Len(p) = IF n < l1 THEN n ELSE l1
      /\ \A i \in 1..n : i <= l1 => p[i] = s1[i]
  BY PrefixIs
<1>2. /\ q \in Seq(Chars) /\ Len(q) = IF n < l2 THEN n ELSE l2
      /\ \A i \in 1..n : i <= l2 => q[i] = s2[i]
  BY PrefixIs
<1>3. /\ l1 \in Nat /\ l2 \in Nat
      /\ \A i \in Nat : i < l1 => ByteAt(s1, i) = s1[i + 1] /\ ByteAt(s1, i) # 0
      /\ \A i \in Nat : i >= l1 => ByteAt(s1, i) = 0
      /\ \A i \in Nat : i < l2 => ByteAt(s2, i) = s2[i + 1] /\ ByteAt(s2, i) # 0
      /\ \A i \in Nat : i >= l2 => ByteAt(s2, i) = 0
  BY ByteAtIs
<1>4. ASSUME p = q, NEW i \in 0..(n - 1) PROVE ByteAt(s1, i) = ByteAt(s2, i)
  <2>1. i \in Nat /\ i + 1 \in 1..n
    OBVIOUS
  <2>2. CASE i < l1
    <3>1. i + 1 <= l1 /\ i < l2 /\ i + 1 <= l2
      BY <1>1, <1>2, <1>3, <1>4, <2>1, <2>2
    <3> QED
      BY <1>1, <1>2, <1>3, <1>4, <2>1, <2>2, <3>1
  <2>3. CASE i >= l1
    <3>1. i >= l2
      BY <1>1, <1>2, <1>3, <1>4, <2>1, <2>3
    <3> QED
      BY <1>3, <2>1, <2>3, <3>1
  <2> QED
    BY <1>3, <2>1, <2>2, <2>3
<1>5. ASSUME \A i \in 0..(n - 1) : ByteAt(s1, i) = ByteAt(s2, i) PROVE p = q
  <2>1. \A i \in 0..(n - 1) : i < l1 <=> i < l2
    <3> SUFFICES ASSUME NEW i \in 0..(n - 1) PROVE i < l1 <=> i < l2
      OBVIOUS
    <3>1. i \in Nat /\ ByteAt(s1, i) = ByteAt(s2, i)
      BY <1>5
    <3>2. i < l1 => ByteAt(s1, i) # 0
      BY <1>3, <3>1
    <3>3. i < l2 => ByteAt(s2, i) # 0
      BY <1>3, <3>1
    <3> QED
      BY <1>3, <3>1, <3>2, <3>3
  <2>2. Len(p) = Len(q)
    <3>1. CASE n <= l1
      <4>1. n <= l2
        <5>1. n # 0 => n - 1 \in 0..(n - 1) /\ n - 1 < l1
          BY <1>3, <3>1
        <5>2. n # 0 => n - 1 < l2
          BY <2>1, <5>1
        <5> QED
          BY <1>3, <5>2
      <4> QED
        BY <1>1, <1>2, <1>3, <3>1, <4>1
    <3>2. CASE n > l1
      <4>1. l1 \in 0..(n - 1) /\ ~(l1 < l1)
        BY <1>3, <3>2
      <4>2. l2 <= l1
        BY <1>3, <2>1, <4>1
      <4>3. l2 \in 0..(n - 1) /\ ~(l2 < l2)
        BY <1>3, <3>2, <4>2
      <4>4. l1 <= l2
        BY <1>3, <2>1, <4>3
      <4> QED
        BY <1>1, <1>2, <1>3, <3>2, <4>2, <4>4
    <3> QED
      BY <1>3, <3>1, <3>2
  <2>3. ASSUME NEW i \in 1..Len(p) PROVE p[i] = q[i]
    <3>1. i \in 1..n /\ i <= l1 /\ i <= l2 /\ i - 1 \in 0..(n - 1) /\ i - 1 < l1 /\ i - 1 < l2 /\ (i - 1) + 1 = i
      BY <1>1, <1>2, <1>3, <2>2
    <3>2. ByteAt(s1, i - 1) = s1[i] /\ ByteAt(s2, i - 1) = s2[i]
      BY <1>3, <3>1
    <3> QED
      BY <1>1, <1>2, <1>5, <3>1, <3>2
  <2> QED
    BY <1>1, <1>2, <2>2, <2>3, SeqEqual
<1> QED
  BY <1>4, <1>5

\* The loops of strcmp and strncmp stop somewhere.
LEMMA MismatchIs ==
  ASSUME NEW s1 \in Seq(Chars), NEW s2 \in Seq(Chars)
  PROVE  LET i == Mismatch(s1, s2) IN
         /\ i \in 0..Len(s1)
         /\ ByteAt(s1, i) = Nul \/ ByteAt(s1, i) # ByteAt(s2, i)
         /\ \A j \in 0..(i - 1) : ByteAt(s1, j) # Nul /\ ByteAt(s1, j) = ByteAt(s2, j)
<1> DEFINE Stop(i) == ByteAt(s1, i) = Nul \/ ByteAt(s1, i) # ByteAt(s2, i)
           T == {i \in 0..Len(s1) : Stop(i)}
<1>1. Len(s1) \in Nat /\ Len(s1) \in T
  BY ByteAtIs DEF Nul
<1>2. T \in SUBSET Nat /\ T # {}
  BY <1>1
<1>3. PICK k \in T : \A x \in T : k <= x
  BY <1>2, LeastNatural
<1>4. \A j \in 0..(k - 1) : ~Stop(j)
  <2> SUFFICES ASSUME NEW j \in 0..(k - 1), Stop(j) PROVE FALSE
    OBVIOUS
  <2>1. j \in T /\ k \in Nat
    BY <1>1, <1>3
  <2> QED
    BY <1>3, <2>1
<1>5. /\ k \in 0..Len(s1) /\ (ByteAt(s1, k) = Nul \/ ByteAt(s1, k) # ByteAt(s2, k))
      /\ \A j \in 0..(k - 1) : ByteAt(s1, j) # Nul /\ ByteAt(s1, j) = ByteAt(s2, j)
  BY <1>3, <1>4
<1> QED
  BY <1>5 DEF Mismatch

\* strncmp is 0 for strings that agree in their first n bytes, and only for them.
LEMMA StrncmpIs ==
  ASSUME NEW s1 \in Seq(Chars), NEW s2 \in Seq(Chars), NEW n \in Nat
  PROVE  strncmp(s1, s2, n) = 0 <=> Prefix(s1, n) = Prefix(s2, n)
<1> PICK i : i = Mismatch(s1, s2)
  OBVIOUS
<1>1. /\ i \in 0..Len(s1) /\ Len(s1) \in Nat
      /\ ByteAt(s1, i) = Nul \/ ByteAt(s1, i) # ByteAt(s2, i)
      /\ \A j \in 0..(i - 1) : ByteAt(s1, j) # Nul /\ ByteAt(s1, j) = ByteAt(s2, j)
  BY MismatchIs
<1>2. \A j \in Nat : ByteAt(s1, j) \in 0..255 /\ ByteAt(s2, j) \in 0..255
  BY ByteAtIs
<1>3. CASE n <= i
  <2>1. strncmp(s1, s2, n) = 0
    BY <1>3 DEF strncmp, CountLeft
  <2>2. \A j \in 0..(n - 1) : ByteAt(s1, j) = ByteAt(s2, j)
    BY <1>1, <1>3
  <2> QED
    BY <2>1, <2>2, PrefixesAgree
<1>4. CASE n > i
  <2>1. n - 1 - i # -1
    BY <1>1, <1>4
  <2>2. strncmp(s1, s2, n) = ByteAt(s1, i) - ByteAt(s2, i)
    BY <1>1, <1>4, <2>1 DEF strncmp, CountLeft, strcmp
  <2>3. strncmp(s1, s2, n) = 0 <=> ByteAt(s1, i) = ByteAt(s2, i)
    <3> PICK x, y : x = ByteAt(s1, i) /\ y = ByteAt(s2, i)
      OBVIOUS
    <3>1. i \in Nat
      BY <1>1
    <3>2. x \in 0..255 /\ y \in 0..255
      BY <1>2, <3>1
    <3>3. x - y = 0 <=> x = y
      BY <3>2
    <3> QED
      BY <2>2, <3>3
  <2>4. ByteAt(s1, i) = ByteAt(s2, i) => \A j \in 0..(n - 1) : ByteAt(s1, j) = ByteAt(s2, j)
    <3> SUFFICES ASSUME ByteAt(s1, i) = ByteAt(s2, i), NEW j \in 0..(n - 1) PROVE ByteAt(s1, j) = ByteAt(s2, j)
      OBVIOUS
    <3>1. ByteAt(s1, i) = Nul /\ ByteAt(s2, i) = Nul /\ i \in Nat
      BY <1>1
    <3>2. Len(s1) <= i /\ Len(s2) <= i /\ Len(s2) \in Nat
      <4>1. Len(s1) \in Nat /\ (i < Len(s1) => ByteAt(s1, i) # 0)
        BY <3>1, ByteAtIs
      <4>2. Len(s2) \in Nat /\ (i < Len(s2) => ByteAt(s2, i) # 0)
        BY <3>1, ByteAtIs
      <4> QED
        BY <3>1, <4>1, <4>2 DEF Nul
    <3>3. CASE j < i
      BY <1>1, <3>3
    <3>4. CASE j >= i
      <4>1. j \in Nat /\ j >= Len(s1) /\ j >= Len(s2)
        BY <1>1, <3>2, <3>4
      <4> QED
        BY <4>1, ByteAtIs
    <3> QED
      BY <1>1, <3>3, <3>4
  <2>5. (\A j \in 0..(n - 1) : ByteAt(s1, j) = ByteAt(s2, j)) => ByteAt(s1, i) = ByteAt(s2, i)
    BY <1>1, <1>4
  <2> QED
    BY <2>3, <2>4, <2>5, PrefixesAgree
<1> QED
  BY <1>1, <1>3, <1>4

\* An entry of the environment is the variable name when strncmp and the byte behind
\* the name say so.
LEMMA NamesAre ==
  ASSUME NEW e \in Seq(Chars), NEW name \in Seq(Chars)
  PROVE  /\ (strncmp(e, name, Len(name)) = 0 /\ ByteAt(e, Len(name)) = Equals)
                <=> Prefix(e, Len(name) + 1) = Append(name, Equals)
         /\ Prefix(e, Len(name) + 1) = Append(name, Equals)
                => e = name \o <<Equals>> \o SubSeq(e, Len(name) + 2, Len(e))
<1> PICK n, l, p, q, w : /\ n = Len(name) /\ l = Len(e) /\ p = Prefix(e, n) /\ q = Prefix(e, n + 1)
                         /\ w = Append(name, Equals)
  OBVIOUS
<1>1. n \in Nat /\ l \in Nat /\ n + 1 \in Nat
  OBVIOUS
<1>2. p \in Seq(Chars) /\ Len(p) = (IF n < l THEN n ELSE l) /\ \A i \in 1..n : i <= l => p[i] = e[i]
  BY <1>1, PrefixIs
<1>3. q \in Seq(Chars) /\ Len(q) = (IF n + 1 < l THEN n + 1 ELSE l) /\ \A i \in 1..(n + 1) : i <= l => q[i] = e[i]
  BY <1>1, PrefixIs
<1>4. w \in Seq(Chars) /\ Len(w) = n + 1 /\ w[n + 1] = Equals /\ \A i \in 1..n : w[i] = name[i]
  BY DEF Equals, Chars
<1>5. Prefix(name, n) = name
  BY <1>1, SubSeqFull DEF Prefix
<1>6. strncmp(e, name, n) = 0 <=> p = name
  BY <1>1, <1>5, StrncmpIs
<1>7. (n < l => ByteAt(e, n) = e[n + 1]) /\ (n >= l => ByteAt(e, n) = 0)
  BY <1>1, ByteAtIs
<1>8. ASSUME p = name, ByteAt(e, n) = Equals PROVE q = w
  <2>1. n < l
    BY <1>1, <1>7, <1>8 DEF Equals
  <2>2. Len(q) = Len(w)
    BY <1>1, <1>3, <1>4, <2>1
  <2>3. \A i \in 1..Len(q) : q[i] = w[i]
    <3> SUFFICES ASSUME NEW i \in 1..(n + 1) PROVE q[i] = w[i]
      BY <1>4, <2>2
    <3>1. q[i] = e[i]
      BY <1>1, <1>3, <2>1
    <3>2. CASE i = n + 1
      BY <1>4, <1>7, <1>8, <2>1, <3>1, <3>2
    <3>3. CASE i # n + 1
      <4>1. i \in 1..n /\ i <= l
        BY <1>1, <2>1, <3>3
      <4> QED
        BY <1>2, <1>4, <1>8, <3>1, <4>1
    <3> QED
      BY <3>2, <3>3
  <2> QED
    BY <1>3, <1>4, <2>2, <2>3, SeqEqual
<1>9. ASSUME q = w PROVE p = name /\ ByteAt(e, n) = Equals /\ e = name \o <<Equals>> \o SubSeq(e, n + 2, l)
  <2>1. n < l
    BY <1>1, <1>3, <1>4, <1>9
  <2>2. Len(p) = n
    BY <1>2, <2>1
  <2>3. \A i \in 1..Len(p) : p[i] = name[i]
    <3> SUFFICES ASSUME NEW i \in 1..n PROVE p[i] = name[i]
      BY <2>2
    <3>1. i \in 1..(n + 1) /\ i <= l
      BY <1>1, <2>1
    <3> QED
      BY <1>2, <1>3, <1>4, <1>9, <3>1
  <2>4. p = name
    BY <1>2, <2>2, <2>3, SeqEqual
  <2>5. e[n + 1] = Equals
    <3>1. n + 1 \in 1..(n + 1) /\ n + 1 <= l
      BY <1>1, <2>1
    <3> QED
      BY <1>3, <1>4, <1>9, <3>1
  <2>6. w = name \o <<Equals>>
    BY AppendIsConcat DEF Equals, Chars
  <2>7. q = SubSeq(e, 1, n + 1)
    BY <1>1, <2>1 DEF Prefix
  <2>8. SubSeq(e, 1, n + 1) \o SubSeq(e, n + 2, l) = e
    <3>1. 1 \in 1..(l + 1) /\ n + 1 \in (1 - 1)..l /\ l \in (n + 1)..l /\ (n + 1) + 1 = n + 2
      BY <1>1, <2>1
    <3>2. SubSeq(e, 1, n + 1) \o SubSeq(e, (n + 1) + 1, l) = SubSeq(e, 1, l)
      BY <3>1, ConcatAdjacentSubSeq
    <3> QED
      BY <3>1, <3>2, SubSeqFull
  <2> QED
    BY <1>7, <1>9, <2>1, <2>4, <2>5, <2>6, <2>7, <2>8
<1> QED
  BY <1>6, <1>8, <1>9

\* The entries that a lookup finds
Entries(environ, name) ==
  {i \in DOMAIN environ : Prefix(environ[i], Len(name) + 1) = Append(name, Equals)}

\* get_env finds the first one.
LEMMA GetEnvIs ==
  ASSUME NEW environ \in Seq(Seq(Chars)), NEW name \in Seq(Chars)
  PROVE  IF Entries(environ, name) = {} THEN get_env(environ, name) = Null
         ELSE \E i \in Entries(environ, name) :
                /\ \A j \in Entries(environ, name) : i <= j
                /\ environ[i] = name \o <<Equals>> \o get_env(environ, name)
<1> DEFINE I == {i \in 1..Len(environ) : /\ strncmp(environ[i], name, Len(name)) = 0
                                         /\ ByteAt(environ[i], Len(name)) = Equals}
           at == IF I # {} THEN Min(I) ELSE 0
<1>1. I = Entries(environ, name) /\ \A i \in I : environ[i] \in Seq(Chars)
  <2>1. \A i \in 1..Len(environ) : environ[i] \in Seq(Chars)
    OBVIOUS
  <2>2. \A i \in 1..Len(environ) :
            (strncmp(environ[i], name, Len(name)) = 0 /\ ByteAt(environ[i], Len(name)) = Equals)
                <=> Prefix(environ[i], Len(name) + 1) = Append(name, Equals)
    BY <2>1, NamesAre
  <2>3. I = {i \in 1..Len(environ) : Prefix(environ[i], Len(name) + 1) = Append(name, Equals)}
    BY <2>2
  <2>4. DOMAIN environ = 1..Len(environ)
    OBVIOUS
  <2> QED
    BY <2>1, <2>3, <2>4 DEF Entries
<1>2. get_env(environ, name) = IF at = 0 THEN Null ELSE SubSeq(environ[at], Len(name) + 2, Len(environ[at]))
  BY DEF get_env, SelectInSeq
<1>3. I \in SUBSET Nat /\ 0 \notin I
  OBVIOUS
<1>4. CASE I = {}
  BY <1>1, <1>2, <1>4
<1>5. CASE I # {}
  <2>1. Min(I) \in I /\ \A j \in I : Min(I) <= j
    BY <1>3, <1>5, MinIs
  <2>2. at = Min(I) /\ at # 0
    BY <1>3, <1>5, <2>1
  <2>3. environ[at] \in Seq(Chars) /\ at \in Entries(environ, name)
    BY <1>1, <2>1, <2>2
  <2>4. environ[at] = name \o <<Equals>> \o get_env(environ, name)
    BY <1>2, <2>2, <2>3, NamesAre DEF Entries
  <2> QED
    BY <1>1, <1>5, <2>1, <2>2, <2>3, <2>4
<1> QED
  BY <1>4, <1>5

-----------------------------------------------------------------------------
(* Sequences put together from parts *)

\* h[k] is what the first k parts make.
Joins(h, parts, S) ==
    /\ h \in [0..Len(parts) -> Seq(S)] /\ h[0] = <<>>
    /\ \A k \in 1..Len(parts) : h[k] = h[k - 1] \o parts[k]

\* FlattenSeq goes through such values.
Flattens(parts, S) == \E h : Joins(h, parts, S) /\ FlattenSeq(parts) = h[Len(parts)]

LEMMA FlattenIs ==
  ASSUME NEW S, NEW parts \in Seq(Seq(S))
  PROVE  Flattens(parts, S)
<1> SUFFICES \E h : Joins(h, parts, S) /\ FlattenSeq(parts) = h[Len(parts)]
  BY DEF Flattens
<1> DEFINE n == Len(parts)
           M == Seq(S)
           body == [k \in 1..n |-> [v \in M |-> v \o parts[k]]]
           turn(g, i) == IF i = 1 THEN parts[i] ELSE g[i - 1] \o parts[i]
           flatten == CHOOSE g : g = [i \in 1..n |-> turn(g, i)]
<1>1. n \in Nat /\ <<>> \in M /\ \A k \in 1..n : parts[k] \in M
  OBVIOUS
<1>2. body \in [1..n -> [M -> M]]
  <2>1. \A v, w \in M : v \o w \in M
    OBVIOUS
  <2> HIDE DEF n, M
  <2> QED
    BY <1>1, <2>1
<1>3. PICK h \in [0..n -> M] : Goes(h, <<>>, n, body)
  <2> HIDE DEF n, M, body
  <2> QED
    BY <1>1, <1>2, LoopExists
<1>4. h[0] = <<>> /\ \A k \in 1..n : h[k] = h[k - 1] \o parts[k]
  <2> HIDE DEF n, M
  <2>1. \A k \in 1..n : h[k - 1] \in M
    BY <1>1
  <2> QED
    BY <1>3, <2>1 DEF Goes
<1>5. Joins(h, parts, S)
  BY <1>4 DEF Joins
<1>6. CASE n = 0
  <2>1. FlattenSeq(parts) = <<>>
    BY <1>6 DEF FlattenSeq
  <2> QED
    BY <1>4, <1>5, <1>6, <2>1
<1>7. CASE n # 0
  <2>1. FlattenSeq(parts) = flatten[n]
    BY <1>7 DEF FlattenSeq
  <2> HIDE DEF n, M
  <2>2. h[1] = parts[1]
    <3>1. h[1] = <<>> \o parts[1]
      <4>1. 1 \in 1..n /\ 1 - 1 = 0
        BY <1>1, <1>7
      <4>2. h[1] = h[1 - 1] \o parts[1]
        BY <1>4, <4>1
      <4> QED
        BY <1>4, <4>1, <4>2
    <3>2. parts[1] \in Seq(S)
      BY <1>1, <1>7 DEF M
    <3> QED
      BY <3>1, <3>2, ConcatEmptySeq
  <2> DEFINE g == [i \in 1..n |-> h[i]]
  <2>3. g = [i \in 1..n |-> turn(g, i)]
    <3> SUFFICES ASSUME NEW i \in 1..n PROVE h[i] = turn(g, i)
      OBVIOUS
    <3>1. i # 1 => i - 1 \in 1..n
      BY <1>1
    <3> QED
      BY <1>4, <2>2, <3>1
  <2>4. flatten = [i \in 1..n |-> turn(flatten, i)]
    <3> HIDE DEF turn, g
    <3> QED
      BY <2>3
  <2> HIDE DEF flatten
  <2> DEFINE T == {i \in 0..n : i # 0 => flatten[i] = h[i]}
  <2>5. ASSUME NEW i \in 1..n, i - 1 \in T PROVE i \in T
    <3>1. flatten[i] = turn(flatten, i)
      BY <2>4
    <3>2. CASE i = 1
      BY <2>2, <3>1, <3>2
    <3>3. CASE i # 1
      <4>1. i - 1 \in T /\ i - 1 # 0 /\ i \in 0..n
        BY <1>1, <2>5, <3>3
      <4>2. flatten[i - 1] = h[i - 1]
        BY <4>1
      <4> QED
        BY <1>4, <3>1, <3>3, <4>1, <4>2
    <3> QED
      BY <1>1, <3>2, <3>3
  <2>6. \A i \in 0..n : i \in T
    <3>1. 0 \in T
      BY <1>1
    <3> HIDE DEF T
    <3> QED
      BY <1>1, <2>5, <3>1, Induction
  <2>7. flatten[n] = h[n]
    BY <1>1, <1>7, <2>6
  <2> QED
    BY <1>5, <2>1, <2>7 DEF n
<1> QED
  BY <1>6, <1>7

LEMMA Places ==
  ASSUME NEW a \in Nat, NEW b \in Nat
  PROVE  /\ \A j \in 1..a : j \in 1..(a + b) /\ j <= a
         /\ \A j \in 1..b : a + j \in 1..(a + b) /\ ~(a + j <= a) /\ (a + j) - a = j
OBVIOUS

\* Two parts u and v are at their places in w.
HasBoth(w, u, v) ==
    /\ Len(u) \in Nat /\ Len(v) \in Nat /\ Len(w) \in Nat
    /\ Len(w) = Len(u) + Len(v) /\ Len(u) <= Len(w)
    /\ \A j \in 1..Len(u) : j \in 1..Len(w) /\ w[j] = u[j]
    /\ \A j \in 1..Len(v) : Len(u) + j \in 1..Len(w) /\ w[Len(u) + j] = v[j]

LEMMA ConcatHas ==
  ASSUME NEW S, NEW u \in Seq(S), NEW v \in Seq(S)
  PROVE  u \o v \in Seq(S) /\ HasBoth(u \o v, u, v)
<1>1. Len(u) \in Nat /\ Len(v) \in Nat
  OBVIOUS
<1>2. /\ u \o v \in Seq(S) /\ Len(u \o v) = Len(u) + Len(v)
      /\ \A j \in 1..(Len(u) + Len(v)) : (u \o v)[j] = IF j <= Len(u) THEN u[j] ELSE v[j - Len(u)]
  BY ConcatProperties
<1>3. /\ \A j \in 1..Len(u) : j \in 1..(Len(u) + Len(v)) /\ j <= Len(u)
      /\ \A j \in 1..Len(v) : /\ Len(u) + j \in 1..(Len(u) + Len(v))
                              /\ ~(Len(u) + j <= Len(u)) /\ (Len(u) + j) - Len(u) = j
  BY <1>1, Places
<1>4. \A j \in 1..Len(v) : (u \o v)[Len(u) + j] = v[(Len(u) + j) - Len(u)]
  BY <1>2, <1>3, Zenon
<1>5. \A j \in 1..Len(v) : (u \o v)[Len(u) + j] = v[j]
  BY <1>3, <1>4, Zenon
<1>6. \A j \in 1..Len(u) : (u \o v)[j] = u[j]
  BY <1>2, <1>3, Zenon
<1>7. Len(u) <= Len(u) + Len(v) /\ Len(u) + Len(v) \in Nat
  BY <1>1
<1> QED
  BY <1>1, <1>2, <1>3, <1>5, <1>6, <1>7, Zenon DEF HasBoth

\* The part t is at its place in what the parts make.
HasPart(all, before, after, t) ==
    /\ Len(after) = Len(before) + Len(t) /\ Len(after) <= Len(all) /\ after = before \o t
    /\ \A j \in 1..Len(t) : all[Len(before) + j] = t[j]

LEMMA JoinsHas ==
  ASSUME NEW S, NEW parts \in Seq(Seq(S)), NEW h, Joins(h, parts, S), NEW k \in 1..Len(parts)
  PROVE  HasPart(h[Len(parts)], h[k - 1], h[k], parts[k])
<1> PICK n : n = Len(parts)
  OBVIOUS
<1>1. n \in Nat /\ \A i \in 1..n : parts[i] \in Seq(S)
  OBVIOUS
<1>2. /\ \A i \in 0..n : h[i] \in Seq(S)
      /\ h[0] = <<>> /\ \A i \in 1..n : h[i] = h[i - 1] \o parts[i]
  BY DEF Joins
<1>3. ASSUME NEW i \in 1..n
      PROVE  /\ h[i] \in Seq(S) /\ h[i - 1] \in Seq(S) /\ parts[i] \in Seq(S)
             /\ h[i] = h[i - 1] \o parts[i]
  <2>1. i \in 0..n /\ i - 1 \in 0..n
    BY <1>1
  <2> QED
    BY <1>1, <1>2, <2>1
<1> DEFINE Has(w, u) == Len(u) <= Len(w) /\ \A j \in 1..Len(u) : j \in 1..Len(w) /\ w[j] = u[j]
           T == {i \in 0..n : Has(h[n], h[i])}
<1>4. ASSUME NEW i \in 0..n, \A j \in (i + 1)..n : j \in T PROVE i \in T
  <2>1. CASE i = n
    <3>1. Len(h[n]) \in Nat
      BY <1>1, <1>2
    <3> QED
      BY <2>1, <3>1
  <2>2. CASE i # n
    <3> PICK m : m = i + 1
      OBVIOUS
    <3>1. m \in 1..n /\ m \in T /\ m - 1 = i
      BY <1>1, <1>4, <2>2
    <3>2. h[m] = h[i] \o parts[m] /\ h[i] \in Seq(S) /\ parts[m] \in Seq(S)
      BY <1>3, <3>1
    <3>3. Has(h[m], h[i]) /\ Len(h[i]) \in Nat /\ Len(h[m]) \in Nat
      <4>1. HasBoth(h[m], h[i], parts[m])
        BY <3>2, ConcatHas
      <4> QED
        BY <4>1 DEF HasBoth
    <3>4. Has(h[n], h[m]) /\ Len(h[n]) \in Nat
      BY <1>1, <1>2, <3>1
    <3>5. Len(h[i]) <= Len(h[n])
      BY <3>3, <3>4
    <3>6. \A j \in 1..Len(h[i]) : j \in 1..Len(h[n]) /\ h[n][j] = h[i][j]
      BY <3>3, <3>4, Zenon
    <3> QED
      BY <3>5, <3>6
  <2> QED
    BY <2>1, <2>2
<1>5. \A i \in 0..n : i \in T
  <2> HIDE DEF T
  <2> QED
    BY <1>1, <1>4, InductionDown
<1>6. Has(h[n], h[k])
  BY <1>1, <1>5
<1>7. /\ Len(h[k]) = Len(h[k - 1]) + Len(parts[k])
      /\ \A j \in 1..Len(parts[k]) : Len(h[k - 1]) + j \in 1..Len(h[k]) /\ h[k][Len(h[k - 1]) + j] = parts[k][j]
  <2>1. HasBoth(h[k], h[k - 1], parts[k])
    BY <1>3, ConcatHas
  <2> QED
    BY <2>1 DEF HasBoth
<1>8. \A j \in 1..Len(parts[k]) : h[n][Len(h[k - 1]) + j] = parts[k][j]
  BY <1>6, <1>7, Zenon
<1> QED
  BY <1>3, <1>6, <1>7, <1>8 DEF HasPart

-----------------------------------------------------------------------------
(* The loop of vsprintf *)

LEMMA CharLength ==
  ASSUME NEW c
  PROVE  get_utf8_char_length(c) \in 1..4
<1> PICK p, q, r : p = (c \div 32 = 6) /\ q = (c \div 16 = 14) /\ r = (c \div 8 = 30)
  OBVIOUS
<1>1. get_utf8_char_length(c) = CASE p -> 2 [] q -> 3 [] r -> 4 [] OTHER -> 1
  BY DEF get_utf8_char_length
<1>2. get_utf8_char_length(c) \in {1, 2, 3, 4}
  BY <1>1
<1> QED
  BY <1>2

\* Where the character at offset i ends
End(format, i) == Min({i + get_utf8_char_length(ByteAt(format, i)), Len(format)})

LEMMA EndIs ==
  ASSUME NEW format \in Seq(Chars), NEW i \in Nat, i < Len(format)
  PROVE  /\ End(format, i) \in Nat /\ End(format, i) > i
         /\ i + get_utf8_char_length(ByteAt(format, i)) <= Len(format)
                => End(format, i) = i + get_utf8_char_length(ByteAt(format, i))
<1> PICK n, e : n = get_utf8_char_length(ByteAt(format, i)) /\ e = Len(format)
  OBVIOUS
<1>1. n \in 1..4 /\ e \in Nat /\ i < e
  BY CharLength
<1> DEFINE T == {i + n, e}
<1>2. T \in SUBSET Nat /\ T # {} /\ \A x \in T : x > i
  BY <1>1
<1>3. Min(T) \in T /\ \A x \in T : Min(T) <= x
  BY <1>2, MinIs
<1>4. Min(T) \in Nat /\ Min(T) > i /\ (i + n <= e => Min(T) = i + n)
  BY <1>1, <1>2, <1>3
<1>5. End(format, i) = Min(T)
  BY DEF End
<1> HIDE DEF T
<1> QED
  BY <1>4, <1>5

\* A round looks ahead only.
Ahead(g, h, i) == \A j \in Nat : j > i => g[j] = h[j]

LEMMA RoundLooksAhead ==
  ASSUME NEW lib, NEW format \in Seq(Chars), NEW args, NEW i \in Nat, NEW a \in Nat,
         NEW g, NEW h, Ahead(g, h, i)
  PROVE  Round(lib, format, args, i, a, g) = Round(lib, format, args, i, a, h)
<1>1. CASE ByteAt(format, i) = Nul
  BY <1>1 DEF Round
<1>2. CASE ByteAt(format, i) # Nul
  <2>1. i < Len(format)
    BY <1>2, ByteAtIs DEF Nul
  <2>2. g[End(format, i)] = h[End(format, i)]
    BY <2>1, EndIs DEF Ahead
  <2>3. g[i + 2] = h[i + 2] /\ g[i + 3] = h[i + 3]
    BY DEF Ahead
  <2> QED
    BY <1>2, <2>2, <2>3 DEF Round, End
<1> QED
  BY <1>1, <1>2

\* from[i][a] is the output from offset i of the format and argument a on.
Loop(from, lib, format, args) ==
    \A i, a \in Nat : from[i][a] = Round(lib, format, args, i, a, from)

LEMMA FormattedLoop ==
  ASSUME NEW lib, NEW format \in Seq(Chars), NEW args
  PROVE  \E from : Loop(from, lib, format, args) /\ Formatted(lib, format, args) = from[0][1]
<1> DEFINE turn(g, i) == [a \in Nat |-> Round(lib, format, args, i, a, g)]
           n == Len(format)
           Solves(g, k) == DOMAIN g = Nat /\ g = [i \in Nat |-> g[i]] /\ \A i \in Nat : i >= n - k => g[i] = turn(g, i)
           T == {k \in 0..n : \E g : Solves(g, k)}
<1>1. n \in Nat
  OBVIOUS
<1>2. 0 \in T
  <2> DEFINE g == [i \in Nat |-> [a \in Nat |-> <<>>]]
  <2>1. ASSUME NEW i \in Nat, i >= n - 0 PROVE g[i] = turn(g, i)
    <3>1. ByteAt(format, i) = Nul
      BY <1>1, <2>1, ByteAtIs DEF Nul
    <3>2. \A a \in Nat : Round(lib, format, args, i, a, g) = <<>>
      BY <3>1 DEF Round
    <3> QED
      BY <3>2
  <2>2. Solves(g, 0)
    <3> HIDE DEF turn
    <3> QED
      BY <2>1
  <2> HIDE DEF Solves
  <2> QED
    BY <1>1, <2>2
<1>3. ASSUME NEW k \in 1..n, k - 1 \in T PROVE k \in T
  <2>1. PICK g : Solves(g, k - 1)
    BY <1>3
  <2> DEFINE h == [g EXCEPT ![n - k] = turn(g, n - k)]
  <2>2. n - k \in Nat
    BY <1>1
  <2>3. DOMAIN h = Nat /\ h = [i \in Nat |-> h[i]] /\ h[n - k] = turn(g, n - k)
        /\ \A i \in Nat : i # n - k => h[i] = g[i]
    <3> HIDE DEF turn
    <3> QED
      BY <2>1, <2>2
  <2> HIDE DEF h
  <2>4. ASSUME NEW i \in Nat, i >= n - k PROVE h[i] = turn(h, i)
    <3>1. Ahead(g, h, i)
      <4> SUFFICES ASSUME NEW j \in Nat, j > i PROVE g[j] = h[j]
        BY DEF Ahead
      <4>1. j # n - k
        BY <1>1, <2>4
      <4> QED
        BY <2>3, <4>1
    <3>2. turn(g, i) = turn(h, i)
      BY <3>1, RoundLooksAhead
    <3>3. h[i] = turn(g, i)
      <4> HIDE DEF turn
      <4>1. CASE i = n - k
        BY <2>3, <4>1
      <4>2. CASE i # n - k
        <5>1. i >= n - (k - 1)
          BY <1>1, <2>4, <4>2
        <5> QED
          BY <2>1, <2>3, <4>2, <5>1
      <4> QED
        BY <4>1, <4>2
    <3> QED
      BY <3>2, <3>3
  <2>5. Solves(h, k)
    <3> HIDE DEF turn
    <3> QED
      BY <2>3, <2>4
  <2> HIDE DEF Solves
  <2> QED
    BY <1>1, <2>5
<1>4. \A k \in 0..n : k \in T
  <2> HIDE DEF T, n
  <2> QED
    BY <1>1, <1>2, <1>3, Induction
<1>5. PICK g : Solves(g, n)
  <2> HIDE DEF Solves
  <2> QED
    BY <1>1, <1>4
<1>6. g = [i \in Nat |-> turn(g, i)]
  <2>1. \A i \in Nat : g[i] = turn(g, i)
    <3> HIDE DEF turn
    <3> QED
      BY <1>1, <1>5
  <2> HIDE DEF turn
  <2> QED
    BY <1>5, <2>1
<1> DEFINE from == CHOOSE f : f = [i \in Nat |-> [a \in Nat |-> Round(lib, format, args, i, a, f)]]
<1>7. from = [i \in Nat |-> turn(from, i)]
  BY <1>6
<1>8. Formatted(lib, format, args) = from[0][1]
  BY DEF Formatted
<1> HIDE DEF from
<1>9. \A i \in Nat : from[i] = turn(from, i)
  <2> HIDE DEF turn
  <2> QED
    BY <1>7
<1>10. Loop(from, lib, format, args)
  BY <1>9 DEF Loop
<1> QED
  BY <1>8, <1>10

-----------------------------------------------------------------------------
(* Pieces of a format *)

LEMMA BytesAre ==
  /\ Chars \subseteq Int /\ 0 \notin Chars /\ Nul = 0 /\ Percent = 37 /\ Percent \in Chars
  /\ Letter.d = 100 /\ Letter.l = 108 /\ Letter.s = 115 /\ Letter.x = 120
  /\ Letter.d \in Chars /\ Letter.l \in Chars /\ Letter.s \in Chars /\ Letter.x \in Chars
BY DEF Chars, Nul, Percent, Letter

LEMMA CharsAreInts ==
  ASSUME NEW s \in Seq(Chars)
  PROVE  s \in Seq(Int)
BY BytesAre, SeqMonotonic

LEMMA SignedIs ==
  ASSUME NEW v \in Int, NEW bits \in Nat \ {0}
  PROVE  Signed(v, bits) \in Int
<1> PICK m, h : m = PowerOf2[bits] /\ h = PowerOf2[bits - 1]
  OBVIOUS
<1>1. m \in Nat \ {0} /\ h \in Nat \ {0}
  BY Powers
<1>2. (v + h) % m \in Int
  BY <1>1
<1> QED
  BY <1>1, <1>2 DEF Signed

\* A piece, kind by kind
LEMMA PieceKinds ==
  ASSUME NEW p \in Pieces
  PROVE  \/ p.kind = "text" /\ p.bytes \in Seq(Chars) /\ WellEncoded(p.bytes)
         \/ p.kind = "%"
         \/ p.kind \in {"d", "ld", "x"} /\ p.arg \in Int
         \/ p.kind = "s" /\ p.arg \in Seq(Chars)
BY DEF Pieces

LEMMA WrittenIs ==
  ASSUME NEW p \in Pieces
  PROVE  Written(p) \in Seq(Chars)
<1>1. CASE p.kind = "text"
  BY <1>1, PieceKinds DEF Written
<1>2. CASE p.kind = "%"
  BY <1>2, BytesAre DEF Written
<1>3. CASE p.kind = "d"
  BY <1>3, BytesAre DEF Written
<1>4. CASE p.kind = "ld"
  BY <1>4, BytesAre DEF Written
<1>5. CASE p.kind = "x"
  BY <1>5, BytesAre DEF Written
<1>6. CASE p.kind = "s"
  BY <1>6, BytesAre DEF Written
<1> QED
  BY <1>1, <1>2, <1>3, <1>4, <1>5, <1>6, PieceKinds

LEMMA RenderedIs ==
  ASSUME NEW p \in Pieces, NEW lib
  PROVE  Rendered(lib, p) \in Seq(Int)
<1>1. CASE p.kind = "text"
  BY <1>1, PieceKinds, CharsAreInts DEF Rendered
<1>2. CASE p.kind = "%"
  BY <1>2, BytesAre DEF Rendered
<1>3. CASE p.kind = "d"
  <2>1. Signed(p.arg, IntBits) \in Int
    <3>1. p.arg \in Int /\ IntBits \in Nat \ {0}
      BY <1>3, PieceKinds, FormattingAssumption, StringsAssumption
    <3> QED
      BY <3>1, SignedIs
  <2> QED
    BY <1>3, <2>1, NumbersAreText DEF Rendered
<1>4. CASE p.kind = "ld"
  BY <1>4, PieceKinds, NumbersAreText DEF Rendered
<1>5. CASE p.kind = "x"
  BY <1>5, PieceKinds, NumbersAreText DEF Rendered
<1>6. CASE p.kind = "s"
  BY <1>6, PieceKinds, CharsAreInts DEF Rendered
<1> QED
  BY <1>1, <1>2, <1>3, <1>4, <1>5, <1>6, PieceKinds

\* w stands at offset o of a format.
At(format, o, w) ==
    o + Len(w) <= Len(format) /\ \A j \in 1..Len(w) : format[o + j] = w[j]

LEMMA AtIs ==
  ASSUME NEW format \in Seq(Chars), NEW w \in Seq(Chars), NEW o \in Nat, At(format, o, w)
  PROVE  /\ \A i \in 0..(Len(w) - 1) : /\ ByteAt(format, o + i) = w[i + 1] /\ ByteAt(w, i) = w[i + 1]
                                       /\ o + i \in Nat /\ o + i < Len(format)
         /\ \A i \in 0..Len(w) : \A j \in i..Len(w) :
                SubSeq(format, (o + i) + 1, o + j) = SubSeq(w, i + 1, j)
<1>1. Len(w) \in Nat /\ Len(format) \in Nat /\ o + Len(w) <= Len(format)
  BY DEF At
<1>2. ASSUME NEW i \in 0..(Len(w) - 1)
      PROVE  /\ ByteAt(format, o + i) = w[i + 1] /\ ByteAt(w, i) = w[i + 1]
             /\ o + i \in Nat /\ o + i < Len(format)
  <2>1. /\ i \in Nat /\ i < Len(w) /\ o + i \in Nat /\ o + i < Len(format)
        /\ i + 1 \in 1..Len(w) /\ (o + i) + 1 = o + (i + 1)
    BY <1>1
  <2>2. format[o + (i + 1)] = w[i + 1]
    BY <2>1 DEF At
  <2> QED
    BY <2>1, <2>2 DEF ByteAt
<1>3. ASSUME NEW i \in 0..Len(w), NEW j \in i..Len(w)
      PROVE  SubSeq(format, (o + i) + 1, o + j) = SubSeq(w, i + 1, j)
  <2> PICK m : m = j - i
    OBVIOUS
  <2>1. m \in Nat /\ o + j = (o + i) + m /\ j = i + m /\ i \in Nat
    BY <1>1
  <2>2. ASSUME NEW k \in 1..m PROVE format[((o + i) + 1) + k - 1] = w[(i + 1) + k - 1] /\ w[i + k] \in Chars
    <3>1. i + k \in 1..Len(w) /\ ((o + i) + 1) + k - 1 = o + (i + k) /\ (i + 1) + k - 1 = i + k
      BY <1>1, <2>1
    <3> QED
      BY <3>1 DEF At
  <2>3. \A x \in (i + 1)..j : w[x] \in Chars
    BY <1>1
  <2>4. \A x \in ((o + i) + 1)..(o + j) : format[x] \in Chars
    BY <1>1
  <2>5. /\ SubSeq(w, i + 1, j) \in Seq(Chars)
        /\ Len(SubSeq(w, i + 1, j)) = IF i + 1 <= j THEN j - (i + 1) + 1 ELSE 0
        /\ \A k \in 1..(j - (i + 1) + 1) : SubSeq(w, i + 1, j)[k] = w[(i + 1) + k - 1]
    BY <1>1, <2>1, <2>3, SubSeqProperties
  <2>6. /\ SubSeq(format, (o + i) + 1, o + j) \in Seq(Chars)
        /\ Len(SubSeq(format, (o + i) + 1, o + j)) = IF (o + i) + 1 <= o + j THEN (o + j) - ((o + i) + 1) + 1 ELSE 0
        /\ \A k \in 1..((o + j) - ((o + i) + 1) + 1) : SubSeq(format, (o + i) + 1, o + j)[k] = format[((o + i) + 1) + k - 1]
    BY <1>1, <2>1, <2>4, SubSeqProperties
  <2>7. /\ j - (i + 1) + 1 = m /\ (o + j) - ((o + i) + 1) + 1 = m
        /\ (IF i + 1 <= j THEN j - (i + 1) + 1 ELSE 0) = m
        /\ (IF (o + i) + 1 <= o + j THEN (o + j) - ((o + i) + 1) + 1 ELSE 0) = m
    BY <1>1, <2>1
  <2> PICK u, v : u = SubSeq(w, i + 1, j) /\ v = SubSeq(format, (o + i) + 1, o + j)
    OBVIOUS
  <2>8. /\ u \in Seq(Chars) /\ v \in Seq(Chars) /\ Len(u) = m /\ Len(v) = m
        /\ \A k \in 1..m : u[k] = w[(i + 1) + k - 1]
        /\ \A k \in 1..m : v[k] = format[((o + i) + 1) + k - 1]
    BY <2>5, <2>6, <2>7
  <2>9. \A k \in 1..m : u[k] = v[k]
    BY <2>2, <2>8, Zenon
  <2>10. u = v
    BY <2>8, <2>9, SeqEqual
  <2> QED
    BY <2>10
<1> QED
  BY <1>2, <1>3

\* The output from offset i and argument a on is text.
Leaves(from, i, a, text) == text \in Seq(Int) /\ from[i][a] = text

LEMMA Associative ==
  ASSUME NEW r \in Seq(Int)
  PROVE  \A u, v \in Seq(Int) : u \o (v \o r) = (u \o v) \o r
BY ConcatAssociative

LEMMA NextStart ==
  ASSUME NEW l \in Nat, NEW i \in 0..l, i # l, NEW n \in 1..4, i + n \in 0..l
  PROVE  i + n \in (i + 1)..l /\ i + n \in i..l /\ i \in 0..(l - 1)
OBVIOUS

\* The loop copies literal text character by character.
LEMMA TextIsCopied ==
  ASSUME NEW lib, NEW format \in Seq(Chars), NEW args, NEW from, Loop(from, lib, format, args),
         NEW b \in Seq(Chars), WellEncoded(b), NEW o \in Nat, At(format, o, b),
         NEW a \in Nat, NEW rest, Leaves(from, o + Len(b), a, rest)
  PROVE  Leaves(from, o, a, b \o rest)
<1> PICK l : l = Len(b)
  OBVIOUS
<1>1. l \in Nat /\ l = Len(b) /\ rest \in Seq(Int) /\ b \in Seq(Int)
  BY CharsAreInts DEF Leaves
<1>2. PICK starts \in SUBSET (0..l) :
          /\ 0 \in starts
          /\ \A i \in starts \ {l} :
                ByteAt(b, i) # Percent /\ i + get_utf8_char_length(ByteAt(b, i)) \in starts
  BY DEF WellEncoded
<1>7. \A u, v \in Seq(Int) : u \o (v \o rest) = (u \o v) \o rest
  BY <1>1, Associative
<1> DEFINE T == {i \in 0..l : i \in starts => from[o + i][a] = SubSeq(b, i + 1, l) \o rest}
<1>3. ASSUME NEW i \in 0..l, \A j \in (i + 1)..l : j \in T PROVE i \in T
  <2> SUFFICES ASSUME i \in starts PROVE from[o + i][a] = SubSeq(b, i + 1, l) \o rest
    OBVIOUS
  <2>1. CASE i = l
    <3>1. SubSeq(b, i + 1, l) = <<>>
      BY <1>1, <2>1, SubSeqEmpty
    <3>2. <<>> \o rest = rest
      BY <1>1, ConcatEmptySeq
    <3> QED
      BY <1>1, <2>1, <3>1, <3>2 DEF Leaves
  <2>2. CASE i # l
    <3> PICK n, j : n = get_utf8_char_length(ByteAt(b, i)) /\ j = i + n
      OBVIOUS
    <3>1. n \in 1..4 /\ ByteAt(b, i) # Percent /\ j \in starts
      BY <1>2, <2>2, CharLength
    <3>2. j \in (i + 1)..l /\ j \in i..l /\ j \in 0..l /\ i \in 0..(l - 1)
      <4>1. i \in 0..l /\ l \in Nat /\ i # l /\ j \in 0..l
        BY <1>1, <1>2, <2>2, <3>1
      <4>2. i + n \in 0..l /\ n \in 1..4
        BY <3>1, <4>1
      <4>3. i + n \in (i + 1)..l /\ i + n \in i..l /\ i \in 0..(l - 1)
        BY <4>1, <4>2, NextStart
      <4> QED
        BY <3>1, <4>1, <4>3
    <3>3. /\ ByteAt(format, o + i) = b[i + 1] /\ ByteAt(b, i) = b[i + 1]
          /\ o + i \in Nat /\ o + i < Len(format)
      BY <1>1, <3>2, AtIs
    <3>4. b[i + 1] \in Chars
      BY <1>1, <3>2
    <3>5. ByteAt(format, o + i) = ByteAt(b, i) /\ ByteAt(format, o + i) # Nul /\ ByteAt(format, o + i) # Percent
      BY <3>1, <3>3, <3>4, BytesAre
    <3>6. End(format, o + i) = o + j
      <4>1. (o + i) + get_utf8_char_length(ByteAt(format, o + i)) = o + j
        BY <3>1, <3>2, <3>5
      <4>2. o + j <= Len(format)
        BY <1>1, <3>2 DEF At
      <4> QED
        BY <3>3, <4>1, <4>2, EndIs
    <3>7. from[o + i][a] = SubSeq(format, (o + i) + 1, o + j) \o from[o + j][a]
      <4>1. from[o + i][a] = Round(lib, format, args, o + i, a, from)
        BY <3>3 DEF Loop
      <4> QED
        BY <3>5, <3>6, <4>1 DEF Round, End
    <3>8. SubSeq(format, (o + i) + 1, o + j) = SubSeq(b, i + 1, j)
      <4>1. i \in 0..Len(b) /\ j \in i..Len(b)
        BY <1>1, <3>2
      <4> QED
        BY <4>1, AtIs
    <3>9. from[o + j][a] = SubSeq(b, j + 1, l) \o rest
      BY <1>3, <3>1, <3>2
    <3>10. SubSeq(b, i + 1, j) \o SubSeq(b, j + 1, l) = SubSeq(b, i + 1, l)
      <4>1. i + 1 \in 1..(l + 1) /\ j \in ((i + 1) - 1)..l /\ l \in j..l
        BY <1>1, <3>2
      <4> QED
        BY <1>1, <4>1, ConcatAdjacentSubSeq
    <3>11. SubSeq(b, i + 1, j) \in Seq(Int) /\ SubSeq(b, j + 1, l) \in Seq(Int)
      <4>1. \A x \in (i + 1)..j : b[x] \in Int
        BY <1>1, <3>2
      <4>2. \A x \in (j + 1)..l : b[x] \in Int
        BY <1>1, <3>2
      <4>3. i + 1 \in Int /\ j \in Int /\ j + 1 \in Int /\ l \in Int
        BY <1>1, <3>2
      <4> QED
        BY <4>1, <4>2, <4>3, SubSeqProperties
    <3> PICK u, v : u = SubSeq(b, i + 1, j) /\ v = SubSeq(b, j + 1, l)
      OBVIOUS
    <3>12. u \o (v \o rest) = (u \o v) \o rest
      <4>1. u \in Seq(Int) /\ v \in Seq(Int)
        BY <3>11
      <4> QED
        BY <1>7, <4>1, Zenon
    <3> QED
      BY <3>7, <3>8, <3>9, <3>10, <3>12
  <2> QED
    BY <2>1, <2>2
<1>4. \A i \in 0..l : i \in T
  <2> HIDE DEF T
  <2> QED
    BY <1>1, <1>3, InductionDown
<1>5. from[o + 0][a] = SubSeq(b, 0 + 1, l) \o rest
  BY <1>1, <1>2, <1>4
<1>6. o + 0 = o /\ SubSeq(b, 0 + 1, l) = b
  BY <1>1, SubSeqFull
<1> QED
  BY <1>1, <1>5, <1>6, ConcatProperties DEF Leaves

\* What a round puts out at a '%'
AtPercent(out, lib, format, args, i, a, rest) ==
    LET x == ByteAt(format, i + 1)
    IN /\ x = Percent => out = <<Percent>> \o rest[i + 2][a]
       /\ x = Letter.d => out = decimal(lib, Signed(args[a], IntBits)) \o rest[i + 2][a + 1]
       /\ x = Letter.x => out = hex(lib, args[a]) \o rest[i + 2][a + 1]
       /\ x = Letter.s => out = args[a] \o rest[i + 2][a + 1]
       /\ x = Letter.l /\ ByteAt(format, i + 2) = Letter.d =>
            out = decimal(lib, args[a]) \o rest[i + 3][a + 1]

LEMMA DirectiveRound ==
  ASSUME NEW lib, NEW format, NEW args, NEW i, NEW a, NEW rest, ByteAt(format, i) = Percent
  PROVE  AtPercent(Round(lib, format, args, i, a, rest), lib, format, args, i, a, rest)
<1> PICK out, x, y, d, h, s, l :
        /\ out = Round(lib, format, args, i, a, rest)
        /\ x = ByteAt(format, i + 1) /\ y = ByteAt(format, i + 2)
        /\ d = Letter.d /\ h = Letter.x /\ s = Letter.s /\ l = Letter.l
  OBVIOUS
<1> PICK A, B, C, D, E, F :
        /\ A = decimal(lib, Signed(args[a], IntBits)) \o rest[i + 2][a + 1]
        /\ B = hex(lib, args[a]) \o rest[i + 2][a + 1]
        /\ C = args[a] \o rest[i + 2][a + 1]
        /\ D = decimal(lib, args[a]) \o rest[i + 3][a + 1]
        /\ E = rest[i + 2][a]
        /\ F = <<x>> \o rest[i + 2][a]
  OBVIOUS
<1>1. Percent # Nul /\ d # h /\ d # s /\ d # l /\ h # s /\ h # l /\ s # l
      /\ Percent # d /\ Percent # h /\ Percent # s /\ Percent # l
  BY BytesAre
<1>2. out = CASE x = d -> A [] x = h -> B [] x = s -> C [] x = l /\ y = d -> D
              [] x = l /\ y # d -> E [] OTHER -> F
  BY <1>1, Zenon DEF Round
<1>3. /\ x = d => out = A
      /\ x = h => out = B
      /\ x = s => out = C
      /\ x = l /\ y = d => out = D
      /\ x = Percent => out = F
  BY <1>1, <1>2
<1> QED
  BY <1>3, Zenon DEF AtPercent

\* How many arguments a piece takes
Taken(p) == IF HasArgument(p) THEN 1 ELSE 0

\* The loop puts out for a piece what it stands for.
LEMMA PieceIsRendered ==
  ASSUME NEW lib, NEW format \in Seq(Chars), NEW args, NEW from, Loop(from, lib, format, args),
         NEW p \in Pieces, NEW o \in Nat, At(format, o, Written(p)),
         NEW a \in Nat, HasArgument(p) => args[a] = p.arg,
         NEW rest, Leaves(from, o + Len(Written(p)), a + Taken(p), rest)
  PROVE  Leaves(from, o, a, Rendered(lib, p) \o rest)
<1> DEFINE x == ByteAt(format, o + 1)
           y == ByteAt(format, o + 2)
<1>1. from[o][a] = Round(lib, format, args, o, a, from)
  BY DEF Loop
<1>2. Written(p) \in Seq(Chars)
  BY WrittenIs
<1>3. \A i \in 0..(Len(Written(p)) - 1) : ByteAt(format, o + i) = Written(p)[i + 1]
  BY <1>2, AtIs
<1>4. CASE p.kind = "text"
  <2>1. Written(p) = p.bytes /\ Taken(p) = 0 /\ a + 0 = a /\ Rendered(lib, p) = p.bytes
    BY <1>4 DEF Written, Taken, HasArgument, Rendered
  <2> PICK b : b = p.bytes
    OBVIOUS
  <2>2. b \in Seq(Chars) /\ WellEncoded(b)
    BY <1>4, PieceKinds
  <2>3. At(format, o, b) /\ Leaves(from, o + Len(b), a, rest)
    BY <2>1
  <2>4. Leaves(from, o, a, b \o rest)
    BY <2>2, <2>3, TextIsCopied
  <2> QED
    BY <2>1, <2>4
<1>11. ASSUME ByteAt(format, o) = Percent PROVE AtPercent(from[o][a], lib, format, args, o, a, from)
  BY <1>1, <1>11, DirectiveRound
<1>12. rest \in Seq(Int) /\ Rendered(lib, p) \o rest \in Seq(Int)
  BY RenderedIs, ConcatProperties DEF Leaves
<1>5. ASSUME NEW letter, Written(p) = <<Percent, letter>>
      PROVE  ByteAt(format, o) = Percent /\ x = letter /\ Len(Written(p)) = 2
  <2>1. Len(Written(p)) = 2 /\ Written(p)[0 + 1] = Percent /\ Written(p)[1 + 1] = letter
    BY <1>5
  <2>2. ByteAt(format, o + 0) = Percent /\ ByteAt(format, o + 1) = letter /\ o + 0 = o
    BY <1>3, <2>1
  <2> QED
    BY <2>1, <2>2
<1>6. CASE p.kind = "%"
  <2>1. Written(p) = <<Percent, Percent>> /\ Taken(p) = 0 /\ a + 0 = a /\ Rendered(lib, p) = <<Percent>>
    BY <1>6 DEF Written, Taken, HasArgument, Rendered
  <2>2. ByteAt(format, o) = Percent /\ x = Percent /\ Len(Written(p)) = 2
    BY <1>5, <2>1
  <2>3. from[o][a] = <<Percent>> \o from[o + 2][a]
    BY <1>11, <2>2 DEF AtPercent
  <2> QED
    BY <1>12, <2>1, <2>2, <2>3 DEF Leaves
<1>7. CASE p.kind = "d"
  <2>1. Written(p) = <<Percent, Letter.d>> /\ Taken(p) = 1 /\ args[a] = p.arg
        /\ Rendered(lib, p) = decimal(lib, Signed(p.arg, IntBits))
    BY <1>7 DEF Written, Taken, HasArgument, Rendered
  <2>2. ByteAt(format, o) = Percent /\ x = Letter.d /\ Len(Written(p)) = 2
    BY <1>5, <2>1
  <2>3. from[o][a] = decimal(lib, Signed(args[a], IntBits)) \o from[o + 2][a + 1]
    BY <1>11, <2>2 DEF AtPercent
  <2> QED
    BY <1>12, <2>1, <2>2, <2>3 DEF Leaves
<1>8. CASE p.kind = "x"
  <2>1. Written(p) = <<Percent, Letter.x>> /\ Taken(p) = 1 /\ args[a] = p.arg
        /\ Rendered(lib, p) = hex(lib, p.arg)
    BY <1>8 DEF Written, Taken, HasArgument, Rendered
  <2>2. ByteAt(format, o) = Percent /\ x = Letter.x /\ Len(Written(p)) = 2
    BY <1>5, <2>1
  <2>3. from[o][a] = hex(lib, args[a]) \o from[o + 2][a + 1]
    BY <1>11, <2>2 DEF AtPercent
  <2> QED
    BY <1>12, <2>1, <2>2, <2>3 DEF Leaves
<1>9. CASE p.kind = "s"
  <2>1. Written(p) = <<Percent, Letter.s>> /\ Taken(p) = 1 /\ args[a] = p.arg
        /\ Rendered(lib, p) = p.arg
    BY <1>9 DEF Written, Taken, HasArgument, Rendered
  <2>2. ByteAt(format, o) = Percent /\ x = Letter.s /\ Len(Written(p)) = 2
    BY <1>5, <2>1
  <2>3. from[o][a] = args[a] \o from[o + 2][a + 1]
    BY <1>11, <2>2 DEF AtPercent
  <2> QED
    BY <1>12, <2>1, <2>2, <2>3 DEF Leaves
<1>10. CASE p.kind = "ld"
  <2>1. Written(p) = <<Percent, Letter.l, Letter.d>> /\ Taken(p) = 1 /\ args[a] = p.arg
        /\ Rendered(lib, p) = decimal(lib, p.arg)
    BY <1>10 DEF Written, Taken, HasArgument, Rendered
  <2>2. /\ Len(Written(p)) = 3 /\ Written(p)[0 + 1] = Percent
        /\ Written(p)[1 + 1] = Letter.l /\ Written(p)[2 + 1] = Letter.d
    BY <2>1
  <2>3. ByteAt(format, o + 0) = Percent /\ x = Letter.l /\ y = Letter.d /\ o + 0 = o
    BY <1>3, <2>2
  <2>4. from[o][a] = decimal(lib, args[a]) \o from[o + 3][a + 1]
    BY <1>11, <2>3 DEF AtPercent
  <2> QED
    BY <1>12, <2>1, <2>2, <2>4 DEF Leaves
<1> QED
  BY <1>4, <1>6, <1>7, <1>8, <1>9, <1>10, PieceKinds

\* f lists n elements of S.
Lists(f, n, S) == f \in Seq(S) /\ Len(f) = n
Maps(f, n, S) == f \in [1..n -> S]

LEMMA ListsIs ==
  ASSUME NEW S, NEW n \in Nat, NEW f, Maps(f, n, S)
  PROVE  Lists(f, n, S)
<1>1. f \in [1..n -> S]
  BY DEF Maps
<1>2. f \in Seq(S) /\ Len(f) = n
  BY <1>1
<1> QED
  BY <1>2 DEF Lists

\* What the pieces of a format make of it, of its arguments and of its output, part by part
WrittenParts(pieces) == [i \in DOMAIN pieces |-> Written(pieces[i])]
ArgParts(pieces) == [i \in DOMAIN pieces |-> IF HasArgument(pieces[i]) THEN <<pieces[i].arg>> ELSE <<>>]
RenderedParts(lib, pieces) == [i \in DOMAIN pieces |-> Rendered(lib, pieces[i])]
Arguments == Int \cup Seq(Chars)

LEMMA PartsAre ==
  ASSUME NEW pieces \in Seq(Pieces), NEW lib
  PROVE  /\ WrittenParts(pieces) \in Seq(Seq(Chars)) /\ Len(WrittenParts(pieces)) = Len(pieces)
         /\ ArgParts(pieces) \in Seq(Seq(Arguments)) /\ Len(ArgParts(pieces)) = Len(pieces)
         /\ RenderedParts(lib, pieces) \in Seq(Seq(Int)) /\ Len(RenderedParts(lib, pieces)) = Len(pieces)
         /\ \A k \in 1..Len(pieces) :
                /\ pieces[k] \in Pieces
                /\ WrittenParts(pieces)[k] = Written(pieces[k])
                /\ RenderedParts(lib, pieces)[k] = Rendered(lib, pieces[k])
                /\ Len(ArgParts(pieces)[k]) = Taken(pieces[k])
                /\ HasArgument(pieces[k]) => ArgParts(pieces)[k][1] = pieces[k].arg
<1> PICK n : n = Len(pieces)
  OBVIOUS
<1>1. n \in Nat /\ DOMAIN pieces = 1..n /\ \A k \in 1..n : pieces[k] \in Pieces
  OBVIOUS
<1>2. WrittenParts(pieces) \in [1..n -> Seq(Chars)]
  BY <1>1, WrittenIs DEF WrittenParts
<1>3. RenderedParts(lib, pieces) \in [1..n -> Seq(Int)]
  BY <1>1, RenderedIs DEF RenderedParts
<1>4. \A p \in Pieces : (IF HasArgument(p) THEN <<p.arg>> ELSE <<>>) \in Seq(Arguments)
  <2> SUFFICES ASSUME NEW p \in Pieces PROVE (IF HasArgument(p) THEN <<p.arg>> ELSE <<>>) \in Seq(Arguments)
    OBVIOUS
  <2>1. HasArgument(p) => p.arg \in Arguments
    BY PieceKinds DEF HasArgument, Arguments
  <2> QED
    BY <2>1
<1>5. ArgParts(pieces) \in [1..n -> Seq(Arguments)]
  BY <1>1, <1>4 DEF ArgParts
<1>6. \A k \in 1..n : ArgParts(pieces)[k] = IF HasArgument(pieces[k]) THEN <<pieces[k].arg>> ELSE <<>>
  BY <1>1 DEF ArgParts
<1>7. \A k \in 1..n : /\ Len(ArgParts(pieces)[k]) = Taken(pieces[k])
                      /\ HasArgument(pieces[k]) => ArgParts(pieces)[k][1] = pieces[k].arg
  <2> SUFFICES ASSUME NEW k \in 1..n
               PROVE  /\ Len(ArgParts(pieces)[k]) = Taken(pieces[k])
                      /\ HasArgument(pieces[k]) => ArgParts(pieces)[k][1] = pieces[k].arg
    OBVIOUS
  <2> PICK p, v : p = pieces[k] /\ v = p.arg
    OBVIOUS
  <2>1. ArgParts(pieces)[k] = IF HasArgument(p) THEN <<v>> ELSE <<>>
    BY <1>6
  <2>2. Len(<<v>>) = 1 /\ <<v>>[1] = v /\ Len(<<>>) = 0
    OBVIOUS
  <2>3. CASE HasArgument(p)
    BY <2>1, <2>2, <2>3 DEF Taken
  <2>4. CASE ~HasArgument(p)
    BY <2>1, <2>2, <2>4 DEF Taken
  <2> QED
    BY <2>3, <2>4
<1>8. \A k \in 1..n : /\ WrittenParts(pieces)[k] = Written(pieces[k])
                      /\ RenderedParts(lib, pieces)[k] = Rendered(lib, pieces[k])
  BY <1>1 DEF WrittenParts, RenderedParts
<1>9. Lists(WrittenParts(pieces), n, Seq(Chars))
  <2>1. Maps(WrittenParts(pieces), n, Seq(Chars))
    BY <1>2 DEF Maps
  <2> QED
    BY <1>1, <2>1, ListsIs
<1>10. Lists(ArgParts(pieces), n, Seq(Arguments))
  <2>1. Maps(ArgParts(pieces), n, Seq(Arguments))
    BY <1>5 DEF Maps
  <2> QED
    BY <1>1, <2>1, ListsIs
<1>11. Lists(RenderedParts(lib, pieces), n, Seq(Int))
  <2>1. Maps(RenderedParts(lib, pieces), n, Seq(Int))
    BY <1>3 DEF Maps
  <2> QED
    BY <1>1, <2>1, ListsIs
<1> QED
  BY <1>1, <1>7, <1>8, <1>9, <1>10, <1>11 DEF Lists

\* vsprintf puts out what the pieces stand for, one after the other.
LEMMA FormattedIs ==
  ASSUME NEW pieces \in Seq(Pieces), NEW lib
  PROVE  /\ RenderedAll(lib, pieces) \in Seq(Int)
         /\ Formatted(lib, FormatOf(pieces), ArgsOf(pieces)) = RenderedAll(lib, pieces)
<1> PICK n, W, G, R : /\ n = Len(pieces) /\ W = WrittenParts(pieces)
                      /\ G = ArgParts(pieces) /\ R = RenderedParts(lib, pieces)
  OBVIOUS
<1>1. /\ W \in Seq(Seq(Chars)) /\ Len(W) = n /\ G \in Seq(Seq(Arguments)) /\ Len(G) = n
      /\ R \in Seq(Seq(Int)) /\ Len(R) = n /\ n \in Nat
      /\ \A k \in 1..n : /\ pieces[k] \in Pieces
                         /\ W[k] = Written(pieces[k]) /\ R[k] = Rendered(lib, pieces[k])
                         /\ Len(G[k]) = Taken(pieces[k])
                         /\ HasArgument(pieces[k]) => G[k][1] = pieces[k].arg
  BY PartsAre
<1>2. PICK w : Joins(w, W, Chars) /\ FormatOf(pieces) = w[n]
  <2>1. FormatOf(pieces) = FlattenSeq(W)
    BY DEF FormatOf, WrittenParts
  <2>2. Flattens(W, Chars)
    BY <1>1, FlattenIs
  <2> QED
    BY <1>1, <2>1, <2>2 DEF Flattens
<1>3. PICK g : Joins(g, G, Arguments) /\ ArgsOf(pieces) = g[n]
  <2>1. ArgsOf(pieces) = FlattenSeq(G)
    BY DEF ArgsOf, ArgParts
  <2>2. Flattens(G, Arguments)
    BY <1>1, FlattenIs
  <2> QED
    BY <1>1, <2>1, <2>2 DEF Flattens
<1>4. PICK r : Joins(r, R, Int) /\ RenderedAll(lib, pieces) = r[n]
  <2>1. RenderedAll(lib, pieces) = FlattenSeq(R)
    BY DEF RenderedAll, RenderedParts
  <2>2. Flattens(R, Int)
    BY <1>1, FlattenIs
  <2> QED
    BY <1>1, <2>1, <2>2 DEF Flattens
<1>5. /\ \A k \in 0..n : w[k] \in Seq(Chars) /\ g[k] \in Seq(Arguments) /\ r[k] \in Seq(Int)
      /\ w[0] = <<>> /\ g[0] = <<>> /\ r[0] = <<>>
  BY <1>1, <1>2, <1>3, <1>4 DEF Joins
<1> PICK format, args : format = w[n] /\ args = g[n]
  OBVIOUS
<1>6. format \in Seq(Chars)
  BY <1>1, <1>5
<1>7. PICK from : Loop(from, lib, format, args) /\ Formatted(lib, format, args) = from[0][1]
  BY <1>6, FormattedLoop
<1> DEFINE Off(k) == Len(w[k])
           Arg(k) == Len(g[k]) + 1
           T == {k \in 0..n : \E rest : Leaves(from, Off(k), Arg(k), rest) /\ r[n] = r[k] \o rest}
<1>8. ASSUME NEW k \in 0..n PROVE Off(k) \in Nat /\ Arg(k) \in Nat
  BY <1>5
<1>9. ASSUME NEW k \in 0..n, \A j \in (k + 1)..n : j \in T PROVE k \in T
  <2>1. CASE k = n
    <3>1. ByteAt(format, Off(n)) = Nul
      BY <1>1, <1>6, <1>8, ByteAtIs DEF Nul
    <3>2. from[Off(n)][Arg(n)] = <<>>
      <4>1. from[Off(n)][Arg(n)] = Round(lib, format, args, Off(n), Arg(n), from)
        BY <1>1, <1>7, <1>8 DEF Loop
      <4> QED
        BY <3>1, <4>1 DEF Round
    <3>3. r[n] = r[n] \o <<>>
      BY <1>1, <1>5, ConcatEmptySeq
    <3>4. Leaves(from, Off(n), Arg(n), <<>>)
      BY <3>2 DEF Leaves
    <3> QED
      BY <2>1, <3>3, <3>4
  <2>2. CASE k # n
    <3> PICK m, p : m = k + 1 /\ p = pieces[m]
      OBVIOUS
    <3>1. m \in 1..n /\ m \in 0..n /\ m \in T /\ m - 1 = k
      <4>1. m \in 1..n /\ m \in 0..n /\ m \in (k + 1)..n /\ m - 1 = k
        BY <1>1, <2>2
      <4> HIDE DEF T
      <4> QED
        BY <1>9, <4>1
    <3>2. PICK rest : Leaves(from, Off(m), Arg(m), rest) /\ r[n] = r[m] \o rest
      BY <3>1
    <3>3. p \in Pieces /\ W[m] = Written(p) /\ R[m] = Rendered(lib, p) /\ Len(G[m]) = Taken(p)
          /\ (HasArgument(p) => G[m][1] = p.arg)
      BY <1>1, <3>1
    <3>4. /\ Len(w[m]) = Len(w[k]) + Len(Written(p)) /\ Len(w[m]) <= Len(format)
          /\ \A j \in 1..Len(Written(p)) : format[Len(w[k]) + j] = Written(p)[j]
      <4>1. HasPart(w[n], w[m - 1], w[m], W[m])
        BY <1>1, <1>2, <3>1, JoinsHas
      <4> QED
        BY <3>1, <3>3, <4>1 DEF HasPart
    <3>5. /\ Len(g[m]) = Len(g[k]) + Taken(p)
          /\ \A j \in 1..Taken(p) : args[Len(g[k]) + j] = G[m][j]
      <4>1. HasPart(g[n], g[m - 1], g[m], G[m])
        BY <1>1, <1>3, <3>1, JoinsHas
      <4> QED
        BY <3>1, <3>3, <4>1 DEF HasPart
    <3>6. r[m] = r[k] \o Rendered(lib, p)
      <4>1. HasPart(r[n], r[m - 1], r[m], R[m])
        BY <1>1, <1>4, <3>1, JoinsHas
      <4> QED
        BY <3>1, <3>3, <4>1 DEF HasPart
    <3>7. At(format, Off(k), Written(p))
      BY <3>4 DEF At
    <3>8. HasArgument(p) => args[Arg(k)] = p.arg
      BY <3>3, <3>5 DEF Taken
    <3>9. Off(m) = Off(k) + Len(Written(p)) /\ Arg(m) = Arg(k) + Taken(p)
      <4>1. Taken(p) \in Nat /\ Len(g[k]) \in Nat
        BY <1>5 DEF Taken
      <4> QED
        BY <3>4, <3>5, <4>1
    <3>10. Leaves(from, Off(k), Arg(k), Rendered(lib, p) \o rest)
      <4>1. Off(k) \in Nat /\ Arg(k) \in Nat
        BY <1>8
      <4>2. Leaves(from, Off(k) + Len(Written(p)), Arg(k) + Taken(p), rest)
        BY <3>2, <3>9
      <4> HIDE DEF Off, Arg
      <4> QED
        BY <1>6, <1>7, <3>3, <3>7, <3>8, <4>1, <4>2, PieceIsRendered
    <3>11. r[n] = r[k] \o (Rendered(lib, p) \o rest)
      <4>1. rest \in Seq(Int) /\ Rendered(lib, p) \in Seq(Int) /\ r[k] \in Seq(Int)
        BY <1>5, <3>2, <3>3, RenderedIs DEF Leaves
      <4>2. r[k] \o (Rendered(lib, p) \o rest) = (r[k] \o Rendered(lib, p)) \o rest
        BY <4>1, Associative, Zenon
      <4> QED
        BY <3>2, <3>6, <4>2, Zenon
    <3> QED
      BY <3>10, <3>11
  <2> QED
    BY <2>1, <2>2
<1>10. \A k \in 0..n : k \in T
  <2> HIDE DEF T
  <2> QED
    BY <1>1, <1>9, InductionDown
<1>11. PICK rest : Leaves(from, Off(0), Arg(0), rest) /\ r[n] = r[0] \o rest
  BY SMTT(30), <1>1, <1>10
<1>12. Off(0) = 0 /\ Arg(0) = 1
  BY <1>5
<1>13. r[n] = rest /\ from[0][1] = rest
  BY <1>5, <1>11, <1>12, ConcatEmptySeq DEF Leaves
<1> QED
  BY <1>1, <1>2, <1>3, <1>4, <1>5, <1>7, <1>13

-----------------------------------------------------------------------------
(* printf of the linker *)

LEMMA HexIsText ==
  ASSUME NEW n \in Nat
  PROVE  utoa_hex(n) \in Seq(Int)
<1>1. 16 \in Nat /\ 16 >= 2
  OBVIOUS
<1>2. DigitsUp(n, 16) \in Seq(Int)
  BY <1>1, Digits
<1>3. Reverse(DigitsUp(n, 16)) \in Seq(Int)
  BY <1>2, ReverseOf
<1>4. <<DigitChar(0)>> \in Seq(Int)
  BY DEF DigitChar
<1> QED
  BY <1>3, <1>4 DEF utoa_hex

LEMMA LinkerPieceKinds ==
  ASSUME NEW p \in LinkerPieces
  PROVE  \/ p.kind = "text" /\ \E c \in Chars : p.bytes = <<c>>
         \/ p.kind = "%"
         \/ p.kind \in {"d", "x"} /\ p.arg \in Int
         \/ p.kind = "s" /\ (p.arg \in Seq(Chars) \/ p.arg = Null)
BY DEF LinkerPieces

\* Literal bytes come one at a time.
LEMMA dl_RenderedIs ==
  ASSUME NEW p \in LinkerPieces
  PROVE  /\ dl_Rendered(p) \in Seq(Int)
         /\ p.kind \in {"text", "%"} => Len(dl_Rendered(p)) = 1
         /\ p.kind # "p"
<1>1. CASE p.kind = "text"
  <2>1. PICK c \in Chars : p.bytes = <<c>>
    BY <1>1, LinkerPieceKinds
  <2>2. dl_Rendered(p) = <<c>> /\ c \in Int
    BY <1>1, <2>1, BytesAre DEF dl_Rendered
  <2> QED
    BY <1>1, <2>2
<1>2. CASE p.kind = "%"
  <2>1. dl_Rendered(p) = <<Percent>> /\ Percent \in Int
    BY <1>2, BytesAre DEF dl_Rendered
  <2> QED
    BY <1>2, <2>1
<1>3. CASE p.kind = "d"
  <2>1. p.arg \in Int /\ IntBits \in Nat \ {0}
    BY <1>3, LinkerPieceKinds, FormattingAssumption, StringsAssumption
  <2>2. Signed(p.arg, IntBits) \in Int
    BY <2>1, SignedIs
  <2>3. decimal("linker", Signed(p.arg, IntBits)) \in Seq(Int)
    BY <2>2, NumbersAreText
  <2>4. dl_Rendered(p) = dl_itoa(Signed(p.arg, IntBits))
    BY <1>3 DEF dl_Rendered
  <2> QED
    BY <1>3, <2>3, <2>4 DEF decimal
<1>4. CASE p.kind = "x"
  <2>1. p.arg \in Int /\ IntBits \in Nat
    BY <1>4, LinkerPieceKinds, FormattingAssumption, StringsAssumption
  <2> PICK m : m = PowerOf2[IntBits]
    OBVIOUS
  <2>2. m \in Nat \ {0}
    BY <2>1, Powers
  <2>3. p.arg % m \in Nat
    BY <2>1, <2>2
  <2>4. dl_Rendered(p) = utoa_hex(p.arg % m)
    BY <1>4 DEF dl_Rendered
  <2> QED
    BY <1>4, <2>3, <2>4, HexIsText
<1>5. CASE p.kind = "s"
  <2>1. dl_Rendered(p) = IF p.arg = Null THEN <<>> ELSE p.arg
    BY <1>5 DEF dl_Rendered
  <2>2. p.arg \in Seq(Chars) => p.arg \in Seq(Int)
    BY CharsAreInts
  <2> QED
    BY <1>5, <2>1, <2>2, LinkerPieceKinds
<1> QED
  BY <1>1, <1>2, <1>3, <1>4, <1>5, LinkerPieceKinds

\* What one round does to a buffer that is not full
LEMMA dl_pieceIs ==
  ASSUME NEW b \in Seq(Int), NEW p \in LinkerPieces
  PROVE  /\ dl_piece(b, p) \in Seq(Int)
         /\ dl_piece(b, p) = b \/ dl_piece(b, p) = b \o dl_Rendered(p)
         /\ Len(b) < PrintfSize => Len(dl_piece(b, p)) < PrintfSize
         /\ Len(b) + Len(dl_Rendered(p)) <= PrintfSize - 2 => dl_piece(b, p) = b \o dl_Rendered(p)
<1> PICK r, all, literal, after :
        /\ r = dl_Rendered(p) /\ all = b \o dl_Rendered(p)
        /\ literal = (p.kind \in {"text", "%"}) /\ after = dl_piece(b, p)
  OBVIOUS
<1>1. /\ r \in Seq(Int) /\ Len(r) \in Nat /\ (literal => Len(r) = 1) /\ p.kind # "p"
      /\ PrintfSize \in Nat /\ PrintfSize >= 2 /\ Len(b) \in Nat
  <2>1. PrintfSize \in Nat /\ PrintfSize >= 2
    BY FormattingAssumption
  <2>2. r \in Seq(Int) /\ (literal => Len(r) = 1) /\ p.kind # "p"
    BY dl_RenderedIs
  <2>3. Len(r) \in Nat /\ Len(b) \in Nat
    BY <2>2
  <2> QED
    BY <2>1, <2>2, <2>3
<1>2. all \in Seq(Int) /\ Len(all) = Len(b) + Len(r)
  BY <1>1, ConcatProperties
<1>3. after = CASE Len(b) >= PrintfSize - 1 -> b
                [] Len(b) < PrintfSize - 1 /\ (literal \/ Len(b) + Len(r) < PrintfSize - 1) -> all
                [] OTHER -> b
  BY <1>1 DEF dl_piece
<1>4. CASE Len(b) >= PrintfSize - 1
  BY <1>1, <1>2, <1>3, <1>4
<1>5. CASE Len(b) < PrintfSize - 1 /\ (literal \/ Len(b) + Len(r) < PrintfSize - 1)
  <2>1. after = all
    BY <1>1, <1>3, <1>5
  <2>2. Len(all) < PrintfSize
    BY SMTT(30), <1>1, <1>2, <1>5
  <2> QED
    BY <1>2, <2>1, <2>2
<1>6. CASE Len(b) < PrintfSize - 1 /\ ~(literal \/ Len(b) + Len(r) < PrintfSize - 1)
  <2>1. after = b
    BY <1>1, <1>3, <1>6
  <2>2. ~(Len(b) + Len(r) <= PrintfSize - 2)
    BY <1>1, <1>6
  <2> QED
    BY <2>1, <2>2
<1> QED
  BY <1>1, <1>4, <1>5, <1>6

\* The loop goes through its pieces one after the other; h[k] is the buffer after k pieces.
Puts(h, pieces) ==
    /\ h \in [0..Len(pieces) -> Seq(Int)] /\ h[0] = <<>>
    /\ \A k \in 1..Len(pieces) : h[k] = dl_piece(h[k - 1], pieces[k])

LEMMA dl_printfIs ==
  ASSUME NEW pieces \in Seq(LinkerPieces)
  PROVE  \E h : Puts(h, pieces) /\ dl_printf(pieces) = h[Len(pieces)]
<1> DEFINE n == Len(pieces)
           M == Seq(Int)
           turn(g, t) == IF t = {} THEN <<>> ELSE dl_piece(g[t \ {Max(t)}], pieces[Max(t)])
           iter == CHOOSE g : g = [t \in SUBSET DOMAIN pieces |-> turn(g, t)]
           body == [k \in 1..n |-> [v \in M |-> dl_piece(v, pieces[k])]]
<1>1. n \in Nat /\ DOMAIN pieces = 1..n /\ \A k \in 1..n : pieces[k] \in LinkerPieces
  OBVIOUS
<1>2. \A k \in 1..n : \A v \in M : dl_piece(v, pieces[k]) \in M
  BY <1>1, dl_pieceIs
<1>3. <<>> \in M /\ body \in [1..n -> [M -> M]]
  <2>1. <<>> \in M
    OBVIOUS
  <2> HIDE DEF n, M
  <2> QED
    BY <1>2, <2>1
<1> HIDE DEF n, M
<1>4. PICK g \in [SUBSET (1..n) -> M] : FoldsUp(g, <<>>, n, body)
  <2> HIDE DEF body
  <2> QED
    BY <1>1, <1>3, FoldExists
<1>5. g = [t \in SUBSET DOMAIN pieces |-> turn(g, t)]
  <2>1. ASSUME NEW t \in SUBSET (1..n) PROVE g[t] = turn(g, t)
    <3>1. CASE t # {}
      <4>1. Max(t) \in t
        <5>1. t \in SUBSET (0..n)
          OBVIOUS
        <5> QED
          BY <1>1, <3>1, <5>1, MaxIs
      <4>2. g[t \ {Max(t)}] \in M /\ Max(t) \in 1..n
        BY <4>1
      <4> QED
        BY <1>4, <3>1, <4>2 DEF FoldsUp
    <3> QED
      BY <1>4, <3>1 DEF FoldsUp
  <2> HIDE DEF turn
  <2> QED
    BY <1>1, <2>1
<1>6. iter = [t \in SUBSET (1..n) |-> turn(iter, t)]
  <2> HIDE DEF turn
  <2> QED
    BY <1>1, <1>5
<1>7. dl_printf(pieces) = iter[DOMAIN pieces]
  BY DEF dl_printf, FoldLeft, MapThenFoldSet
<1> HIDE DEF iter
<1>8. iter[{}] = <<>> /\ \A k \in 1..n : iter[1..k] = dl_piece(iter[1..(k - 1)], pieces[k])
  <2>1. ASSUME NEW k \in 1..n PROVE iter[1..k] = dl_piece(iter[1..(k - 1)], pieces[k])
    <3>1. 1..k \in SUBSET (1..n) /\ k \in 1..k /\ (1..k) \ {k} = 1..(k - 1) /\ k \in Nat
      BY <1>1
    <3>2. Max(1..k) = k
      BY <3>1, LastIs
    <3> QED
      BY <1>6, <3>1, <3>2
  <2> QED
    BY <1>6, <2>1
<1> DEFINE h == [k \in 0..n |-> iter[1..k]]
<1>9. h[0] = <<>> /\ \A k \in 1..n : h[k] = dl_piece(h[k - 1], pieces[k])
  <2>1. 1..0 = {}
    OBVIOUS
  <2> QED
    BY <1>1, <1>8, <2>1
<1>10. \A k \in 0..n : h[k] \in M
  <2> DEFINE S == {k \in 0..n : h[k] \in M}
  <2> HIDE DEF h
  <2>1. 0 \in S
    BY <1>1, <1>3, <1>9
  <2>2. \A k \in 1..n : k - 1 \in S => k \in S
    BY <1>1, <1>2, <1>9
  <2>3. \A k \in 0..n : k \in S
    <3> HIDE DEF S
    <3> QED
      BY <1>1, <2>1, <2>2, Induction
  <2> QED
    BY <2>3
<1>11. h[n] = iter[DOMAIN pieces] /\ h \in [0..n -> M]
  BY <1>1, <1>10
<1> HIDE DEF h
<1>12. Puts(h, pieces)
  BY <1>9, <1>11 DEF Puts, n, M
<1> QED
  BY <1>7, <1>11, <1>12 DEF n

\* The output of the pieces that are kept, part by part
Shown(pieces, kept) == [i \in DOMAIN pieces |-> IF i \in kept THEN dl_Rendered(pieces[i]) ELSE <<>>]

LEMMA ShownIs ==
  ASSUME NEW pieces \in Seq(LinkerPieces), NEW kept
  PROVE  /\ Lists(Shown(pieces, kept), Len(pieces), Seq(Int))
         /\ \A k \in 1..Len(pieces) :
                Shown(pieces, kept)[k] = IF k \in kept THEN dl_Rendered(pieces[k]) ELSE <<>>
<1> PICK n : n = Len(pieces)
  OBVIOUS
<1>1. n \in Nat /\ DOMAIN pieces = 1..n /\ \A k \in 1..n : pieces[k] \in LinkerPieces
  OBVIOUS
<1>2. \A k \in 1..n : dl_Rendered(pieces[k]) \in Seq(Int)
  BY <1>1, dl_RenderedIs
<1>3. <<>> \in Seq(Int)
  OBVIOUS
<1>4. \A k \in 1..n : (IF k \in kept THEN dl_Rendered(pieces[k]) ELSE <<>>) \in Seq(Int)
  BY <1>2, <1>3
<1>5. Maps(Shown(pieces, kept), n, Seq(Int))
  BY <1>1, <1>4 DEF Shown, Maps
<1>6. Lists(Shown(pieces, kept), n, Seq(Int))
  BY <1>1, <1>5, ListsIs
<1>7. \A k \in 1..n : Shown(pieces, kept)[k] = IF k \in kept THEN dl_Rendered(pieces[k]) ELSE <<>>
  BY <1>1 DEF Shown
<1> QED
  BY <1>6, <1>7

\* The pieces that a run of the loop keeps are those it appends.
Keeps(kept, h, pieces) ==
    kept = {k \in 1..Len(pieces) : h[k] = h[k - 1] \o dl_Rendered(pieces[k])}

LEMMA KeptAreShown ==
  ASSUME NEW pieces \in Seq(LinkerPieces), NEW h, Puts(h, pieces), NEW kept, Keeps(kept, h, pieces)
  PROVE  h[Len(pieces)] = FlattenSeq(Shown(pieces, kept))
<1> PICK n, parts : n = Len(pieces) /\ parts = Shown(pieces, kept)
  OBVIOUS
<1>1. /\ n \in Nat /\ \A k \in 1..n : pieces[k] \in LinkerPieces
      /\ parts \in Seq(Seq(Int)) /\ Len(parts) = n
      /\ \A k \in 1..n : parts[k] = IF k \in kept THEN dl_Rendered(pieces[k]) ELSE <<>>
  <2>1. n \in Nat /\ \A k \in 1..n : pieces[k] \in LinkerPieces
    OBVIOUS
  <2>2. \A k \in 1..n : parts[k] = IF k \in kept THEN dl_Rendered(pieces[k]) ELSE <<>>
    BY ShownIs
  <2>3. parts \in Seq(Seq(Int)) /\ Len(parts) = n
    BY ShownIs DEF Lists
  <2> QED
    BY <2>1, <2>2, <2>3
<1>2. PICK f : Joins(f, parts, Int) /\ FlattenSeq(parts) = f[n]
  <2>1. Flattens(parts, Int)
    BY <1>1, FlattenIs
  <2> QED
    BY <1>1, <2>1 DEF Flattens
<1>3. /\ \A k \in 0..n : h[k] \in Seq(Int)
      /\ h[0] = <<>> /\ \A k \in 1..n : h[k] = dl_piece(h[k - 1], pieces[k])
  BY DEF Puts
<1>4. f[0] = <<>> /\ \A k \in 1..n : f[k] = f[k - 1] \o parts[k]
  BY <1>1, <1>2 DEF Joins
<1> DEFINE T == {k \in 0..n : f[k] = h[k]}
<1>5. ASSUME NEW k \in 1..n, k - 1 \in T PROVE k \in T
  <2>1. k - 1 \in 0..n /\ k \in 0..n /\ f[k - 1] = h[k - 1] /\ h[k - 1] \in Seq(Int)
    BY <1>1, <1>3, <1>5
  <2>2. f[k] = h[k - 1] \o parts[k]
    BY <1>4, <2>1
  <2>3. CASE k \in kept
    BY <1>1, <2>1, <2>2, <2>3 DEF Keeps
  <2>4. CASE k \notin kept
    <3>1. h[k] # h[k - 1] \o dl_Rendered(pieces[k])
      BY <1>1, <2>4 DEF Keeps
    <3>2. h[k] = h[k - 1]
      BY <1>1, <1>3, <2>1, <3>1, dl_pieceIs
    <3>3. parts[k] = <<>> /\ h[k - 1] \o <<>> = h[k - 1]
      BY <1>1, <2>1, <2>4, ConcatEmptySeq
    <3> QED
      BY <2>1, <2>2, <3>2, <3>3
  <2> QED
    BY <2>3, <2>4
<1>6. \A k \in 0..n : k \in T
  <2>1. 0 \in T
    <3>1. 0 \in 0..n
      BY <1>1
    <3> QED
      BY <1>3, <1>4, <3>1
  <2> HIDE DEF T
  <2> QED
    BY <1>1, <1>5, <2>1, Induction
<1> QED
  BY <1>1, <1>2, <1>6

\* When all pieces fit, all are kept.
LEMMA AllAreShown ==
  ASSUME NEW pieces \in Seq(LinkerPieces), NEW h, Puts(h, pieces),
         Len(FlattenSeq(Shown(pieces, DOMAIN pieces))) <= PrintfSize - 2
  PROVE  h[Len(pieces)] = FlattenSeq(Shown(pieces, DOMAIN pieces))
<1> PICK n, parts : n = Len(pieces) /\ parts = Shown(pieces, DOMAIN pieces)
  OBVIOUS
<1>1. /\ n \in Nat /\ DOMAIN pieces = 1..n /\ \A k \in 1..n : pieces[k] \in LinkerPieces
      /\ parts \in Seq(Seq(Int)) /\ Len(parts) = n
      /\ \A k \in 1..n : parts[k] = dl_Rendered(pieces[k])
  <2>1. n \in Nat /\ DOMAIN pieces = 1..n /\ \A k \in 1..n : pieces[k] \in LinkerPieces
    OBVIOUS
  <2>2. \A k \in 1..n : parts[k] = dl_Rendered(pieces[k])
    BY <2>1, ShownIs
  <2>3. parts \in Seq(Seq(Int)) /\ Len(parts) = n
    BY ShownIs DEF Lists
  <2> QED
    BY <2>1, <2>2, <2>3
<1>2. PICK f : Joins(f, parts, Int) /\ FlattenSeq(parts) = f[n]
  <2>1. Flattens(parts, Int)
    BY <1>1, FlattenIs
  <2> QED
    BY <1>1, <2>1 DEF Flattens
<1>3. /\ h[0] = <<>> /\ \A k \in 1..n : h[k] = dl_piece(h[k - 1], pieces[k])
  BY DEF Puts
<1>4. f[0] = <<>> /\ \A k \in 0..n : f[k] \in Seq(Int)
  BY <1>1, <1>2 DEF Joins
<1> DEFINE T == {k \in 0..n : f[k] = h[k]}
<1>5. ASSUME NEW k \in 1..n, k - 1 \in T PROVE k \in T
  <2>1. k - 1 \in 0..n /\ k \in 0..n /\ f[k - 1] = h[k - 1] /\ f[k - 1] \in Seq(Int)
    BY <1>1, <1>4, <1>5
  <2> PICK p, b, r : p = pieces[k] /\ b = f[k - 1] /\ r = dl_Rendered(pieces[k])
    OBVIOUS
  <2>2. HasPart(f[n], f[k - 1], f[k], parts[k])
    BY <1>1, <1>2, JoinsHas
  <2>3. /\ Len(f[k]) = Len(b) + Len(r) /\ Len(f[k]) <= Len(f[n]) /\ f[k] = b \o r
    BY <1>1, <2>2 DEF HasPart
  <2>4. Len(f[n]) <= PrintfSize - 2
    BY <1>2
  <2>5. Len(b) + Len(r) <= PrintfSize - 2
    <3>1. Len(f[k]) \in Nat /\ Len(f[n]) \in Nat /\ PrintfSize \in Nat
      BY SMTT(30), <1>1, <1>4, <2>1, FormattingAssumption
    <3>2. \A x, y, z \in Nat : x <= y /\ y <= z - 2 => x <= z - 2
      OBVIOUS
    <3>3. Len(f[k]) <= PrintfSize - 2
      BY <2>3, <2>4, <3>1, <3>2
    <3> QED
      BY <2>3, <3>3
  <2>6. dl_piece(b, p) = b \o r
    BY <1>1, <2>1, <2>5, dl_pieceIs
  <2> QED
    BY <1>3, <2>1, <2>3, <2>6
<1>6. \A k \in 0..n : k \in T
  <2>1. 0 \in T
    <3>1. 0 \in 0..n
      BY <1>1
    <3> QED
      BY <1>3, <1>4, <3>1
  <2> HIDE DEF T
  <2> QED
    BY <1>1, <1>5, <2>1, Induction
<1> QED
  BY <1>1, <1>2, <1>6

\* The buffer always has room for the Nul.
LEMMA NulFits ==
  ASSUME NEW pieces \in Seq(LinkerPieces), NEW h, Puts(h, pieces)
  PROVE  Len(h[Len(pieces)]) < PrintfSize
<1> PICK n : n = Len(pieces)
  OBVIOUS
<1>1. n \in Nat /\ \A k \in 1..n : pieces[k] \in LinkerPieces
  OBVIOUS
<1>2. /\ \A k \in 0..n : h[k] \in Seq(Int)
      /\ h[0] = <<>> /\ \A k \in 1..n : h[k] = dl_piece(h[k - 1], pieces[k])
  BY DEF Puts
<1> DEFINE T == {k \in 0..n : Len(h[k]) < PrintfSize}
<1>3. ASSUME NEW k \in 1..n, k - 1 \in T PROVE k \in T
  <2>1. k - 1 \in 0..n /\ k \in 0..n /\ h[k - 1] \in Seq(Int) /\ Len(h[k - 1]) < PrintfSize
    BY <1>1, <1>2, <1>3
  <2> QED
    BY <1>1, <1>2, <2>1, dl_pieceIs
<1>4. \A k \in 0..n : k \in T
  <2>1. 0 \in T
    BY <1>1, <1>2, FormattingAssumption
  <2> HIDE DEF T
  <2> QED
    BY <1>1, <1>3, <2>1, Induction
<1> QED
  BY <1>1, <1>4

-----------------------------------------------------------------------------
(* Bounded buffers, and the lines of the logger *)

LEMMA FrontIs ==
  ASSUME NEW t \in Seq(Int)
  PROVE  Front(Append(t, Nul)) = t
<1> PICK u, n : u = Append(t, Nul) /\ n = Len(t)
  OBVIOUS
<1>1. n \in Nat /\ u \in Seq(Int) /\ Len(u) = n + 1 /\ \A i \in 1..n : u[i] = t[i] /\ u[i] \in Int
  BY BytesAre
<1>2. Front(u) = SubSeq(u, 1, n)
  BY <1>1 DEF Front
<1>3. /\ SubSeq(u, 1, n) \in Seq(Int)
      /\ Len(SubSeq(u, 1, n)) = IF 1 <= n THEN n - 1 + 1 ELSE 0
      /\ \A i \in 1..(n - 1 + 1) : SubSeq(u, 1, n)[i] = u[1 + i - 1]
  BY <1>1, SubSeqProperties
<1> PICK v : v = SubSeq(u, 1, n)
  OBVIOUS
<1>4. v \in Seq(Int) /\ Len(v) = n /\ \A i \in 1..n : v[i] = u[i]
  BY <1>1, <1>3
<1>5. v = t
  BY <1>1, <1>4, SeqEqual
<1> QED
  BY <1>2, <1>5

\* Text of ASCII characters other than '%' is well encoded.
LEMMA AsciiText ==
  ASSUME NEW b \in Seq(Chars), \A i \in 1..Len(b) : b[i] \in 1..127 /\ b[i] # Percent
  PROVE  Text(b) \in Pieces
<1> PICK n : n = Len(b)
  OBVIOUS
<1>1. n \in Nat
  OBVIOUS
<1>2. \A c \in 1..127 : get_utf8_char_length(c) = 1
  <2> SUFFICES ASSUME NEW c \in 1..127 PROVE get_utf8_char_length(c) = 1
    OBVIOUS
  <2> PICK p, q, r : p = c \div 32 /\ q = c \div 16 /\ r = c \div 8
    OBVIOUS
  <2>1. p # 6 /\ q # 14 /\ r # 30
    <3>1. c \div 32 # 6
      OBVIOUS
    <3>2. c \div 16 # 14
      OBVIOUS
    <3>3. c \div 8 # 30
      OBVIOUS
    <3> QED
      BY <3>1, <3>2, <3>3
  <2> QED
    BY <2>1 DEF get_utf8_char_length
<1>3. ASSUME NEW i \in (0..n) \ {n}
      PROVE  ByteAt(b, i) # Percent /\ i + get_utf8_char_length(ByteAt(b, i)) \in 0..n
  <2>1. i + 1 \in 1..n /\ i \in Nat /\ i < n
    BY <1>1
  <2>2. ByteAt(b, i) = b[i + 1] /\ b[i + 1] \in 1..127 /\ b[i + 1] # Percent
    BY <2>1, ByteAtIs
  <2>3. get_utf8_char_length(ByteAt(b, i)) = 1
    BY <1>2, <2>2
  <2>4. i + 1 \in 0..n
    BY <1>1, <2>1
  <2> QED
    BY <2>2, <2>3, <2>4
<1>4. WellEncoded(b)
  <2>1. 0 \in 0..n /\ 0..n \in SUBSET (0..n)
    BY <1>1
  <2> QED
    BY <1>3, <2>1 DEF WellEncoded
<1> QED
  BY <1>4 DEF Text, Pieces

LEMMA get_filenameIs ==
  ASSUME NEW path \in Seq(Chars)
  PROVE  get_filename(path) \in Seq(Chars)
<1> DEFINE I == {i \in 1..Len(path) : path[i] = Slash}
           at == IF I # {} THEN Max(I) ELSE 0
<1>1. I \in SUBSET (0..Len(path)) /\ Len(path) \in Nat
  OBVIOUS
<1>2. at \in 0..Len(path)
  <2>1. CASE I = {}
    BY <1>1, <2>1
  <2>2. CASE I # {}
    <3>1. Max(I) \in I
      BY <1>1, <2>2, MaxIs
    <3> QED
      BY <1>1, <2>2, <3>1
  <2> QED
    BY <2>1, <2>2
<1>3. get_filename(path) = SubSeq(path, at + 1, Len(path))
  BY DEF get_filename, SelectLastInSeq
<1> HIDE DEF at
<1>4. at + 1 \in Int /\ Len(path) \in Int /\ \A i \in (at + 1)..Len(path) : path[i] \in Chars
  BY <1>1, <1>2
<1>5. SubSeq(path, at + 1, Len(path)) \in Seq(Chars)
  BY <1>4, SubSeqProperties
<1> QED
  BY <1>3, <1>5

LEMMA HeaderIs ==
  ASSUME NEW level \in Levels, NEW file \in Seq(Chars), NEW line \in Int, NEW func \in Seq(Chars)
  PROVE  HeaderPieces(level, file, line, func) \in Seq(Pieces)
<1>1. /\ Text(<<91>>) \in Pieces /\ Text(<<93, 91>>) \in Pieces
      /\ Text(<<58>>) \in Pieces /\ Text(<<93, 32>>) \in Pieces
  <2>1. \A c, d \in {91, 93, 58, 32} :
            /\ <<c>> \in Seq(Chars) /\ Len(<<c>>) = 1 /\ <<c>>[1] = c
            /\ <<c, d>> \in Seq(Chars) /\ Len(<<c, d>>) = 2 /\ <<c, d>>[1] = c /\ <<c, d>>[2] = d
            /\ c \in 1..127 /\ c # Percent
    BY DEF Chars, Percent
  <2>2. \A c, d \in {91, 93, 58, 32} : Text(<<c>>) \in Pieces /\ Text(<<c, d>>) \in Pieces
    <3> SUFFICES ASSUME NEW c \in {91, 93, 58, 32}, NEW d \in {91, 93, 58, 32}
                 PROVE  Text(<<c>>) \in Pieces /\ Text(<<c, d>>) \in Pieces
      OBVIOUS
    <3> PICK s, t : s = <<c>> /\ t = <<c, d>>
      OBVIOUS
    <3>1. s \in Seq(Chars) /\ \A i \in 1..Len(s) : s[i] \in 1..127 /\ s[i] # Percent
      <4>1. s \in Seq(Chars) /\ Len(s) = 1 /\ s[1] = c /\ c \in 1..127 /\ c # Percent
        BY <2>1
      <4>2. \A i \in 1..1 : i = 1
        OBVIOUS
      <4>3. ASSUME NEW i \in 1..1 PROVE s[i] \in 1..127 /\ s[i] # Percent
        <5>1. i = 1
          BY <4>2
        <5>2. s[i] = c
          BY <4>1, <5>1
        <5> QED
          BY <4>1, <5>2
      <4>4. 1..Len(s) = 1..1
        BY <4>1
      <4> QED
        BY <4>1, <4>3, <4>4, Zenon
    <3>2. t \in Seq(Chars) /\ \A i \in 1..Len(t) : t[i] \in 1..127 /\ t[i] # Percent
      <4>1. /\ t \in Seq(Chars) /\ Len(t) = 2 /\ t[1] = c /\ t[2] = d
            /\ c \in 1..127 /\ c # Percent /\ d \in 1..127 /\ d # Percent
        BY <2>1
      <4>2. \A i \in 1..2 : i = 1 \/ i = 2
        OBVIOUS
      <4>3. \A i \in 1..2 : t[i] \in 1..127 /\ t[i] # Percent
        BY ZenonT(30), <4>1, <4>2
      <4>4. 1..Len(t) = 1..2
        BY <4>1
      <4> QED
        BY <4>1, <4>3, <4>4, Zenon
    <3> QED
      BY <3>1, <3>2, AsciiText
  <2> QED
    BY <2>2
<1>2. \A t \in Seq(Chars) : Directive("s", t) \in Pieces
  BY DEF Directive, Pieces
<1>3. Directive("d", line) \in Pieces
  BY DEF Directive, Pieces
<1>4. log_level_str[level] \in Seq(Chars)
  <2>1. /\ <<68, 69, 66, 85, 71>> \in Seq(Chars) /\ <<73, 78, 70, 79>> \in Seq(Chars)
        /\ <<69, 82, 82, 79, 82>> \in Seq(Chars)
    BY DEF Chars
  <2>2. level = 0 \/ level = 1 \/ level = 2
    BY DEF Levels
  <2> QED
    BY <2>1, <2>2 DEF log_level_str
<1> PICK a, b, c, d, e, f, g :
        /\ a = Text(<<91>>) /\ b = Directive("s", log_level_str[level]) /\ c = Text(<<93, 91>>)
        /\ d = Directive("s", get_filename(file)) /\ e = Text(<<58>>)
        /\ f = Directive("d", line) /\ g = Directive("s", func)
  OBVIOUS
<1> PICK h : h = Text(<<93, 32>>)
  OBVIOUS
<1>5. /\ a \in Pieces /\ b \in Pieces /\ c \in Pieces /\ d \in Pieces
      /\ e \in Pieces /\ f \in Pieces /\ g \in Pieces /\ h \in Pieces
  BY <1>1, <1>2, <1>3, <1>4, get_filenameIs
<1>6. HeaderPieces(level, file, line, func) = <<a, b, c, d, e, f, c, g, h>>
  BY DEF HeaderPieces
<1>7. <<a, b, c, d, e, f, c, g, h>> \in Seq(Pieces)
  <2> HIDE DEF Pieces
  <2> QED
    BY <1>5
<1> QED
  BY <1>6, <1>7

\* What happens to a text that temp can hold
LEMMA StoreIs ==
  ASSUME NEW text \in Seq(Int), NEW size \in Nat
  PROVE  /\ Len(text) < BufferSize =>
                Store(text, size) = IF Len(text) + 1 <= size THEN Stored(text) ELSE Refused
         /\ Len(text) >= BufferSize /\ size # 0 => Store(text, size) = Overflow
<1> PICK n : n = Len(text)
  OBVIOUS
<1>1. n \in Nat /\ BufferSize \in Nat
  BY FormattingAssumption
<1>2. Store(text, size) = IF size = 0 THEN Refused ELSE IF n >= BufferSize THEN Overflow
                          ELSE IF n >= size THEN Refused ELSE Stored(text)
  BY DEF Store
<1>3. CASE size = 0
  <2>1. ~(n + 1 <= size)
    BY <1>1, <1>3
  <2> QED
    BY <1>2, <1>3, <2>1
<1>4. CASE size # 0 /\ n >= BufferSize
  <2>1. ~(n < BufferSize)
    BY <1>1, <1>4
  <2> QED
    BY <1>2, <1>4, <2>1
<1>5. CASE size # 0 /\ ~(n >= BufferSize)
  <2>1. n >= size <=> ~(n + 1 <= size)
    BY <1>1
  <2> QED
    BY <1>2, <1>5, <2>1
<1> QED
  BY <1>3, <1>4, <1>5

LEMMA ResultsAre ==
  ASSUME NEW text \in Seq(Int)
  PROVE  /\ Overflow.overflow = TRUE /\ Refused.overflow = FALSE /\ Refused.ret < 0
         /\ Stored(text).overflow = FALSE /\ Stored(text).ret = Len(text) /\ ~(Stored(text).ret < 0)
         /\ Front(Stored(text).buf) = text
<1>1. Len(text) \in Nat /\ Front(Append(text, Nul)) = text
  BY FrontIs
<1> QED
  BY <1>1 DEF Overflow, Refused, Stored

\* A message that log_output has to write comes out whole, with its header, or is refused.
LEMMA LogLineIs ==
  ASSUME NEW level \in Levels, NEW file \in Seq(Chars), NEW func \in Seq(Chars), NEW line \in Int,
         NEW pieces \in Seq(Pieces), ~(level < current_log_level)
  PROVE  LET header == RenderedAll("mini_libc", HeaderPieces(level, file, line, func))
             content == RenderedAll("mini_libc", pieces)
             room == BufferSize - 1 - Len(header)
             writes == log_output(level, file, func, line, pieces)
         IN IF room < 0 \/ Len(content) >= BufferSize THEN writes = Smashed
            ELSE IF Len(content) <= room THEN writes = Line(header \o content)
            ELSE writes = Error("Log content too long")
<1> PICK header, content, writes :
        /\ header = RenderedAll("mini_libc", HeaderPieces(level, file, line, func))
        /\ content = RenderedAll("mini_libc", pieces)
        /\ writes = log_output(level, file, func, line, pieces)
  OBVIOUS
<1> PICK first, second :
        /\ first = Store(header, BufferSize)
        /\ second = Store(content, BufferSize - first.ret)
  OBVIOUS
<1>1. header \in Seq(Int) /\ vsnprintf(BufferSize, FormatOf(HeaderPieces(level, file, line, func)),
                                       ArgsOf(HeaderPieces(level, file, line, func))) = first
  <2>1. HeaderPieces(level, file, line, func) \in Seq(Pieces)
    BY HeaderIs
  <2> QED
    BY <2>1, FormattedIs DEF vsnprintf, vsprintf
<1>2. content \in Seq(Int) /\ LogContent(first, pieces) = second
  BY FormattedIs DEF LogContent, vsnprintf, vsprintf
<1>3. file # Null /\ func # Null
  <2>1. \A s \in Seq(Chars) : s # <<-1>>
    <3> SUFFICES ASSUME NEW s \in Seq(Chars), s = <<-1>> PROVE FALSE
      OBVIOUS
    <3>1. Len(s) = 1 /\ s[1] = -1
      OBVIOUS
    <3>2. s[1] \in Chars
      BY <3>1
    <3> QED
      BY <3>1, <3>2 DEF Chars
  <2> QED
    BY <2>1 DEF Null
<1>4. writes = IF first.overflow \/ (first.ret >= 0 /\ second.overflow) THEN Smashed
               ELSE IF first.ret < 0 THEN Error("Log header too long")
               ELSE IF second.ret < 0 THEN Error("Log content too long")
               ELSE Line(Front(first.buf) \o Front(second.buf))
  BY <1>1, <1>2, <1>3 DEF log_output
<1> PICK l, m : l = Len(header) /\ m = Len(content)
  OBVIOUS
<1>5. l \in Nat /\ m \in Nat /\ BufferSize \in Nat /\ BufferSize # 0
  BY <1>1, <1>2, FormattingAssumption
<1>6. (BufferSize - 1 - l < 0 <=> l >= BufferSize) /\ (m <= BufferSize - 1 - l <=> m + 1 <= BufferSize - l)
  BY <1>5
<1>7. CASE l >= BufferSize
  <2>1. first = Overflow
    BY <1>1, <1>5, <1>7, StoreIs
  <2>2. writes = Smashed
    BY <1>1, <1>4, <2>1, ResultsAre
  <2> QED
    BY <1>6, <1>7, <2>2
<1>8. CASE ~(l >= BufferSize)
  <2>1. first = Stored(header) /\ BufferSize - l \in Nat /\ BufferSize - l # 0
    <3>1. l < BufferSize /\ l + 1 <= BufferSize /\ BufferSize - l \in Nat /\ BufferSize - l # 0
      BY <1>5, <1>8
    <3> QED
      BY <1>1, <1>5, <3>1, StoreIs
  <2>2. /\ first.overflow = FALSE /\ first.ret = l /\ ~(first.ret < 0) /\ first.ret >= 0
        /\ Front(first.buf) = header
    <3>1. /\ first.overflow = FALSE /\ first.ret = l /\ ~(first.ret < 0)
          /\ Front(first.buf) = header
      BY <1>1, <2>1, ResultsAre, Zenon
    <3>2. l >= 0
      BY <1>5
    <3> QED
      BY <3>1, <3>2, Zenon
  <2>3. second = Store(content, BufferSize - l)
    BY <2>2
  <2>4. CASE m >= BufferSize
    <3>1. second = Overflow
      BY <1>2, <2>1, <2>3, <2>4, StoreIs
    <3>2. writes = Smashed
      BY <1>2, <1>4, <2>2, <3>1, ResultsAre
    <3> QED
      BY <2>4, <3>2
  <2>5. CASE m < BufferSize /\ m + 1 <= BufferSize - l
    <3>1. second = Stored(content)
      BY <1>2, <2>1, <2>3, <2>5, StoreIs
    <3>2. writes = Line(header \o content)
      BY <1>2, <1>4, <2>2, <3>1, ResultsAre
    <3>3. ~(m >= BufferSize)
      BY <1>5, <2>5
    <3> QED
      BY <1>6, <1>8, <2>5, <3>2, <3>3
  <2>6. CASE m < BufferSize /\ ~(m + 1 <= BufferSize - l)
    <3>1. second = Refused
      BY <1>2, <2>1, <2>3, <2>6, StoreIs
    <3>2. writes = Error("Log content too long")
      BY <1>2, <1>4, <2>2, <3>1, ResultsAre
    <3>3. ~(m >= BufferSize)
      BY <1>5, <2>6
    <3> QED
      BY <1>6, <1>8, <2>6, <3>2, <3>3
  <2>7. m >= BufferSize \/ m < BufferSize
    BY <1>5
  <2> QED
    BY <2>4, <2>5, <2>6, <2>7, Zenon
<1> QED
  BY <1>7, <1>8

-----------------------------------------------------------------------------
(* What each call does *)

LEMMA ItoaHolds ==
  ASSUME CallItoa
  PROVE  call'.fn = "itoa" /\ NumbersReadBack'
<1>1. PICK num \in Longs, radix \in Radices, sign_flag \in {0, 1} :
          call' = [fn |-> "itoa", num |-> num, radix |-> radix, sign_flag |-> sign_flag,
                   text |-> itoa(num, radix, sign_flag), dl_text |-> dl_itoa(num)]
  BY DEF CallItoa, Makes
<1>2. /\ call'.fn = "itoa" /\ call'.num = num /\ call'.radix = radix /\ call'.sign_flag = sign_flag
      /\ call'.text = itoa(num, radix, sign_flag) /\ call'.dl_text = dl_itoa(num)
  BY <1>1
<1>3. radix \in 2..16 /\ (sign_flag = 0 \/ num >= 0) =>
            ReadBack(itoa(num, radix, sign_flag), radix) = num % PowerOf2[LongBits]
  BY ItoaReads
<1>4. /\ num >= 0 => ReadBack(dl_itoa(num), 10) = num
      /\ num < 0 /\ -num \in Longs =>
            Head(dl_itoa(num)) = Minus /\ ReadBack(Tail(dl_itoa(num)), 10) = -num
  BY DlItoaReads
<1> QED
  BY <1>2, <1>3, <1>4, Zenon DEF NumbersReadBack

LEMMA MemcpyHolds ==
  ASSUME CallMemcpy
  PROVE  call'.fn = "memcpy" /\ CopiesAreExact'
<1>1. PICK dest \in Memory, src \in Memory, n \in Memory :
          /\ dest + n \in Memory /\ src + n \in Memory
          /\ call' = [fn |-> "memcpy", dest |-> dest, src |-> src, n |-> n,
                      after |-> memcpy([a \in Memory |-> a], dest, src, n),
                      dl_after |-> dl_memcpy([a \in Memory |-> a], dest, src, n)]
  BY DEF CallMemcpy, Makes
<1> PICK m : m = [a \in Memory |-> a]
  OBVIOUS
<1>2. /\ call'.fn = "memcpy" /\ call'.dest = dest /\ call'.src = src /\ call'.n = n
      /\ call'.after = memcpy(m, dest, src, n) /\ call'.dl_after = dl_memcpy(m, dest, src, n)
  BY <1>1
<1> DEFINE exact == [a \in Memory |-> IF a \in dest..(dest + n - 1) THEN src + (a - dest) ELSE a]
<1>3. m \in [Memory -> Memory] /\ \A a \in Memory : m[a] = a
  OBVIOUS
<1>4. \A after : Copied(after, m, dest, src, 0, n) => after = exact
  <2> SUFFICES ASSUME NEW after, Copied(after, m, dest, src, 0, n) PROVE after = exact
    OBVIOUS
  <2>1. dest \in Nat /\ src \in Nat /\ n \in Nat /\ Memory \subseteq Nat
        /\ \A i \in 0..(n - 1) : dest + i \in Memory /\ src + i \in Memory
    BY <1>1, AreaInMemory, FormattingAssumption
  <2>2. \A a \in dest..(dest + n - 1) : a - dest \in 0..(n - 1)
    BY <2>1
  <2>3. dest + 0 = dest
    BY <2>1
  <2>4. after = [a \in Memory |-> IF a \in dest..(dest + n - 1) THEN m[src + (a - dest)] ELSE m[a]]
    BY <2>3 DEF Copied
  <2>5. \A a \in Memory : (IF a \in dest..(dest + n - 1) THEN m[src + (a - dest)] ELSE m[a])
                        = (IF a \in dest..(dest + n - 1) THEN src + (a - dest) ELSE a)
    BY <1>3, <2>1, <2>2
  <2> QED
    BY <2>4, <2>5
<1>5. call'.after = exact
  BY <1>1, <1>2, <1>3, <1>4, MemcpyIs
<1>6. dest <= src \/ dest >= src + n => call'.dl_after = exact
  <2> SUFFICES ASSUME dest <= src \/ dest >= src + n PROVE call'.dl_after = exact
    OBVIOUS
  <2>1. Copied(dl_memcpy(m, dest, src, n), m, dest, src, 0, n)
    BY <1>1, <1>3, CopyUp DEF dl_memcpy
  <2> QED
    BY <1>2, <1>4, <2>1
<1> QED
  BY <1>2, <1>5, <1>6 DEF CopiesAreExact

LEMMA StrncmpHolds ==
  ASSUME CallStrncmp
  PROVE  call'.fn = "strncmp" /\ LookupsAreExact'
<1>1. PICK s1 \in Words, s2 \in Words, n \in Counts :
          call' = [fn |-> "strncmp", s1 |-> s1, s2 |-> s2, n |-> n, ret |-> strncmp(s1, s2, n)]
  BY DEF CallStrncmp, Makes
<1>2. /\ call'.fn = "strncmp" /\ call'.s1 = s1 /\ call'.s2 = s2 /\ call'.n = n
      /\ call'.ret = strncmp(s1, s2, n)
  BY <1>1
<1>3. s1 \in Seq(Chars) /\ s2 \in Seq(Chars) /\ n \in Nat
  BY FormattingAssumption
<1>4. strncmp(s1, s2, n) = 0 <=> Prefix(s1, n) = Prefix(s2, n)
  BY <1>3, StrncmpIs
<1> QED
  BY <1>2, <1>4 DEF LookupsAreExact

LEMMA GetEnvHolds ==
  ASSUME CallGetEnv
  PROVE  call'.fn = "get_env" /\ LookupsAreExact'
<1>1. PICK environ \in Environs, name \in Words :
          call' = [fn |-> "get_env", environ |-> environ, name |-> name, ret |-> get_env(environ, name)]
  BY DEF CallGetEnv, Makes
<1>2. /\ call'.fn = "get_env" /\ call'.environ = environ /\ call'.name = name
      /\ call'.ret = get_env(environ, name)
  BY <1>1
<1>3. environ \in Seq(Seq(Chars)) /\ name \in Seq(Chars)
  BY FormattingAssumption
<1>4. IF Entries(environ, name) = {} THEN get_env(environ, name) = Null
      ELSE \E i \in Entries(environ, name) :
                /\ \A j \in Entries(environ, name) : i <= j
                /\ environ[i] = name \o <<Equals>> \o get_env(environ, name)
  BY <1>3, GetEnvIs
<1> QED
  BY <1>2, <1>4 DEF LookupsAreExact, Entries

LEMMA VsnprintfHolds ==
  ASSUME CallVsnprintf
  PROVE  call'.fn = "vsnprintf" /\ TextWholeOrRefused'
<1>1. PICK pieces \in Formats, size \in Sizes :
          call' = [fn |-> "vsnprintf", pieces |-> pieces, size |-> size,
                   did |-> vsnprintf(size, FormatOf(pieces), ArgsOf(pieces)),
                   dl_did |-> dl_vsnprintf(size, FormatOf(pieces), ArgsOf(pieces))]
  BY DEF CallVsnprintf, Makes
<1> PICK text, dl_text :
        text = RenderedAll("mini_libc", pieces) /\ dl_text = RenderedAll("linker", pieces)
  OBVIOUS
<1>2. pieces \in Seq(Pieces) /\ size \in Nat
  BY PiecesAssumption, FormattingAssumption
<1>3. /\ text \in Seq(Int) /\ vsprintf(FormatOf(pieces), ArgsOf(pieces)) = text
      /\ dl_text \in Seq(Int) /\ dl_vsprintf(FormatOf(pieces), ArgsOf(pieces)) = dl_text
  BY <1>2, FormattedIs DEF vsprintf, dl_vsprintf
<1>4. /\ call'.fn = "vsnprintf" /\ call'.pieces = pieces /\ call'.size = size
      /\ call'.did = Store(text, size) /\ call'.dl_did = Store(dl_text, size)
  BY <1>1, <1>3 DEF vsnprintf, dl_vsnprintf
<1>5. /\ Len(text) < BufferSize =>
            call'.did = IF Len(text) + 1 <= size THEN Stored(text) ELSE Refused
      /\ Len(dl_text) < BufferSize =>
            call'.dl_did = IF Len(dl_text) + 1 <= size THEN Stored(dl_text) ELSE Refused
  BY <1>2, <1>3, <1>4, StoreIs
<1> QED
  BY <1>4, <1>5 DEF TextWholeOrRefused

LEMMA PrintfHolds ==
  ASSUME CallPrintf
  PROVE  call'.fn = "dl_printf" /\ PiecesWholeOrSkipped'
<1>1. PICK pieces \in LinkerFormats :
          call' = [fn |-> "dl_printf", pieces |-> pieces, buffer |-> dl_printf(pieces)]
  BY DEF CallPrintf, Makes
<1>2. call'.fn = "dl_printf" /\ call'.pieces = pieces /\ call'.buffer = dl_printf(pieces)
  BY <1>1
<1>3. pieces \in Seq(LinkerPieces) /\ DOMAIN pieces = 1..Len(pieces)
  BY PiecesAssumption
<1>4. PICK h : Puts(h, pieces) /\ dl_printf(pieces) = h[Len(pieces)]
  BY <1>3, dl_printfIs
<1>5. PICK kept : kept = {k \in 1..Len(pieces) : h[k] = h[k - 1] \o dl_Rendered(pieces[k])}
  OBVIOUS
<1>6. kept \in SUBSET DOMAIN pieces /\ Keeps(kept, h, pieces)
  BY <1>3, <1>5 DEF Keeps
<1>7. dl_printf(pieces) = FlattenSeq(Shown(pieces, kept))
  BY <1>3, <1>4, <1>6, KeptAreShown
<1>8. Len(FlattenSeq(Shown(pieces, DOMAIN pieces))) <= PrintfSize - 2
        => dl_printf(pieces) = FlattenSeq(Shown(pieces, DOMAIN pieces))
  BY <1>3, <1>4, AllAreShown
<1>9. Len(dl_printf(pieces)) < PrintfSize
  BY <1>3, <1>4, NulFits
<1> QED
  BY <1>2, <1>6, <1>7, <1>8, <1>9 DEF PiecesWholeOrSkipped, Shown

LEMMA LogHolds ==
  ASSUME CallLog, current_log_level \in Levels
  PROVE  call'.fn = "log_output" /\ LogLineWholeOrRefused'
<1>1. PICK level \in -1..3, file \in Paths, func \in Funcs, line \in Lines, pieces \in LogFormats :
          /\ call' = [fn |-> "log_output", level |-> level, file |-> file, func |-> func, line |-> line,
                      pieces |-> pieces, writes |-> log_output(level, file, func, line, pieces)]
          /\ current_log_level' = current_log_level
  BY DEF CallLog, Makes
<1> PICK writes : writes = log_output(level, file, func, line, pieces)
  OBVIOUS
<1>2. /\ call'.fn = "log_output" /\ call'.level = level /\ call'.file = file /\ call'.func = func
      /\ call'.line = line /\ call'.pieces = pieces /\ call'.writes = writes
  BY <1>1
<1>3. /\ file \in Seq(Chars) \/ file = Null
      /\ func \in Seq(Chars) \/ func = Null
      /\ line \in Int /\ pieces \in Seq(Pieces)
  BY FormattingAssumption, PiecesAssumption
<1>4. CASE file = Null \/ func = Null \/ level \notin Levels
  <2>1. writes = Error("Invalid log parameters") \/ writes = Error("Invalid log level")
    BY <1>4 DEF log_output
  <2>2. Len(writes) = 1 /\ writes[1].fd = 2
    <3>1. \A message : Len(Error(message)) = 1 /\ Error(message)[1].fd = 2
      BY DEF Error
    <3> QED
      BY <2>1, <3>1
  <2> QED
    BY <1>2, <1>4, <2>2 DEF LogLineWholeOrRefused
<1>5. CASE ~(file = Null \/ func = Null \/ level \notin Levels) /\ level < current_log_level
  <2>1. writes = <<>>
    BY <1>5 DEF log_output
  <2> QED
    BY <1>1, <1>2, <1>5, <2>1 DEF LogLineWholeOrRefused
<1>6. CASE ~(file = Null \/ func = Null \/ level \notin Levels) /\ ~(level < current_log_level)
  <2>1. level \in Levels /\ file \in Seq(Chars) /\ func \in Seq(Chars)
    BY <1>3, <1>6, FormattingAssumption
  <2> QED
    BY ZenonT(40), <1>1, <1>2, <1>3, <1>6, <2>1, LogLineIs DEF LogLineWholeOrRefused
<1> QED
  BY <1>2, <1>4, <1>5, <1>6

-----------------------------------------------------------------------------
(* The theorems *)

\* What each property says of the call just made; the level is always a valid one.
Inv ==
    /\ current_log_level \in Levels
    /\ NumbersReadBack /\ CopiesAreExact /\ LookupsAreExact
    /\ TextWholeOrRefused /\ LogLineWholeOrRefused /\ PiecesWholeOrSkipped

\* A property of another function's calls holds of a call.
LEMMA OtherCalls ==
  /\ call'.fn # "itoa" => NumbersReadBack'
  /\ call'.fn # "memcpy" => CopiesAreExact'
  /\ call'.fn # "strncmp" /\ call'.fn # "get_env" => LookupsAreExact'
  /\ call'.fn # "vsnprintf" => TextWholeOrRefused'
  /\ call'.fn # "log_output" => LogLineWholeOrRefused'
  /\ call'.fn # "dl_printf" => PiecesWholeOrSkipped'
BY DEF NumbersReadBack, CopiesAreExact, LookupsAreExact, TextWholeOrRefused,
       LogLineWholeOrRefused, PiecesWholeOrSkipped

LEMMA InvHolds == Spec => []Inv
<1>1. Init => Inv
  <2> SUFFICES ASSUME Init PROVE Inv
    OBVIOUS
  <2>1. current_log_level = 0 /\ call.fn = "none"
    BY DEF Init
  <2> QED
    BY <2>1 DEF Inv, Levels, NumbersReadBack, CopiesAreExact, LookupsAreExact, TextWholeOrRefused,
                LogLineWholeOrRefused, PiecesWholeOrSkipped
<1>2. Inv /\ [Next]_vars => Inv'
  <2> SUFFICES ASSUME Inv, [Next]_vars PROVE Inv'
    OBVIOUS
  <2>1. current_log_level \in Levels
    BY DEF Inv
  <2>2. \A c : Makes(c) => current_log_level' \in Levels
    BY <2>1 DEF Makes
  <2>3. CASE CallItoa
    <3>1. current_log_level' \in Levels
      BY <2>2, <2>3 DEF CallItoa
    <3> QED
      BY <2>3, <3>1, ItoaHolds, OtherCalls DEF Inv
  <2>4. CASE CallMemcpy
    <3>1. current_log_level' \in Levels
      BY <2>2, <2>4 DEF CallMemcpy
    <3> QED
      BY <2>4, <3>1, MemcpyHolds, OtherCalls DEF Inv
  <2>5. CASE CallStrncmp
    <3>1. current_log_level' \in Levels
      BY <2>2, <2>5 DEF CallStrncmp
    <3> QED
      BY <2>5, <3>1, StrncmpHolds, OtherCalls DEF Inv
  <2>6. CASE CallGetEnv
    <3>1. current_log_level' \in Levels
      BY <2>2, <2>6 DEF CallGetEnv
    <3> QED
      BY <2>6, <3>1, GetEnvHolds, OtherCalls DEF Inv
  <2>7. CASE CallVsnprintf
    <3>1. current_log_level' \in Levels
      BY <2>2, <2>7 DEF CallVsnprintf
    <3> QED
      BY <2>7, <3>1, VsnprintfHolds, OtherCalls DEF Inv
  <2>8. CASE CallPrintf
    <3>1. current_log_level' \in Levels
      BY <2>2, <2>8 DEF CallPrintf
    <3> QED
      BY <2>8, <3>1, PrintfHolds, OtherCalls DEF Inv
  <2>9. CASE CallLog
    <3>1. current_log_level' \in Levels
      BY <2>2, <2>9 DEF CallLog
    <3> QED
      BY <2>1, <2>9, <3>1, LogHolds, OtherCalls DEF Inv
  <2>10. CASE CallSetLevel
    <3>1. current_log_level' \in Levels /\ call'.fn = "set_log_level"
      BY <2>1, <2>10 DEF CallSetLevel
    <3> QED
      BY <3>1, OtherCalls DEF Inv
  <2>11. CASE Return
    <3>1. current_log_level' \in Levels /\ call'.fn = "none"
      BY <2>1, <2>11 DEF Return
    <3> QED
      BY <3>1, OtherCalls DEF Inv
  <2>12. CASE UNCHANGED vars
    <3>1. call' = call /\ current_log_level' = current_log_level
      BY <2>12 DEF vars
    <3>2. NumbersReadBack' /\ CopiesAreExact' /\ LookupsAreExact'
      BY <3>1 DEF Inv, NumbersReadBack, CopiesAreExact, LookupsAreExact
    <3>3. TextWholeOrRefused' /\ LogLineWholeOrRefused' /\ PiecesWholeOrSkipped'
      BY <3>1 DEF Inv, TextWholeOrRefused, LogLineWholeOrRefused, PiecesWholeOrSkipped
    <3> QED
      BY <2>1, <3>1, <3>2, <3>3 DEF Inv
  <2> QED
    BY <2>3, <2>4, <2>5, <2>6, <2>7, <2>8, <2>9, <2>10, <2>11, <2>12 DEF Next
<1> QED
  BY <1>1, <1>2, PTL DEF Spec

\* A number that itoa of either library writes is read back, for every width of a long:
\* in every radix by mini_libc, unless it has a sign to print, and by the linker
\* unless it is the least long.
THEOREM ItoaIsReadBack == Spec => []NumbersReadBack
<1>1. Inv => NumbersReadBack
  BY DEF Inv
<1> QED
  BY <1>1, InvHolds, PTL

\* memcpy copies an area of any length exactly, of mini_libc whatever the overlap, of
\* the linker unless the destination begins inside the source.
THEOREM MemcpyIsExact == Spec => []CopiesAreExact
<1>1. Inv => CopiesAreExact
  BY DEF Inv
<1> QED
  BY <1>1, InvHolds, PTL

\* strncmp is 0 for strings with the same first n bytes, and only for them, and get_env
\* finds the first entry of exactly the name, for any strings and environment.
THEOREM LookupIsExact == Spec => []LookupsAreExact
<1>1. Inv => LookupsAreExact
  BY DEF Inv
<1> QED
  BY <1>1, InvHolds, PTL

\* vsnprintf of both libraries renders a format of any pieces, in any number, and the
\* buffer gets the whole text or nothing, for every size of buffer and temp.
THEOREM VsnprintfIsWhole == Spec => []TextWholeOrRefused
<1>1. Inv => TextWholeOrRefused
  BY DEF Inv
<1> QED
  BY <1>1, InvHolds, PTL

\* A log message comes out as one whole line with its header or not at all, for any
\* path, function and message and every size of the buffer.
THEOREM LogLineIsWhole == Spec => []LogLineWholeOrRefused
<1>1. Inv => LogLineWholeOrRefused
  BY DEF Inv
<1> QED
  BY <1>1, InvHolds, PTL

\* The linker's printf puts out each piece whole or not at all, and never goes beyond
\* its buffer, for a format of any pieces without %p and every size of the buffer.
THEOREM PrintfIsWhole == Spec => []PiecesWholeOrSkipped
<1>1. Inv => PiecesWholeOrSkipped
  BY DEF Inv
<1> QED
  BY <1>1, InvHolds, PTL
=============================================================================
