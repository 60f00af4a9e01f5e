------------------------------ MODULE Strings -------------------------------
(***************************************************************************)
(* The string functions of mini_libc/src/string.c and the ones of their    *)
(* own that the dynamic linker keeps in dynamic_linker/src/dl_runtime.c.   *)
(*                                                                         *)
(* A C string is the sequence of its bytes, without the Nul that ends it;  *)
(* bytes are ASCII codes.  A long has LongBits bits.                       *)
(***************************************************************************)
EXTENDS Integers, SequencesExt

CONSTANT LongBits

ASSUME StringsAssumption == LongBits \in Nat \ {0, 1}

Nul == 0
Chars == 1..255
Minus == 45
Equals == 61
Slash == 47

\* 2 to the power of n
PowerOf2[n \in Nat] == IF n = 0 THEN 1 ELSE 2 * PowerOf2[n - 1]

\* The NULL pointer where a string is expected: no string has such a byte.
Null == <<-1>>

\* s[i] in C: offset 0 is the first byte, offset Len(s) the Nul
ByteAt(s, i) == IF i < Len(s) THEN s[i + 1] ELSE Nul

\* The signed number in the low bits of v
Signed(v, bits) == ((v + PowerOf2[bits - 1]) % PowerOf2[bits]) - PowerOf2[bits - 1]

-----------------------------------------------------------------------------
(* Numbers to text *)

DigitChar(d) == IF d > 9 THEN (d - 10) + 97 ELSE d + 48

\* The digits of n, least significant first; none of 0
DigitsUp(n, radix) ==
    LET from[k \in Nat] ==
            IF k = 0 THEN <<>> ELSE <<DigitChar(k % radix)>> \o from[k \div radix]
    IN from[n]

\* The bug of a conversion that forgets to turn the digits around.
itoa_reversed(num, radix, sign_flag) ==
    IF radix \notin 2..16 THEN Null ELSE DigitsUp(num % PowerOf2[LongBits], radix)

\* itoa of mini_libc.  The digits are those of the unsigned number, also when
\* a minus sign precedes them.
itoa(num, radix, sign_flag) ==
    LET sign == IF sign_flag = 1 /\ num < 0 THEN <<Minus>> ELSE <<>>
    IN CASE radix \notin 2..16 -> Null
         [] radix \in 2..16 /\ num = 0 -> <<DigitChar(0)>>
         [] OTHER -> Reverse(DigitsUp(num % PowerOf2[LongBits], radix) \o sign)

\* itoa of the linker, which is called with base 10 only.  Of the least long,
\* whose negation is itself, the loop produces no digit.
dl_itoa(value) ==
    LET magnitude == IF value < 0 THEN Signed(-value, LongBits) ELSE value
        digits == IF magnitude > 0 THEN Reverse(DigitsUp(magnitude, 10)) ELSE <<>>
    IN IF value = 0 THEN <<DigitChar(0)>>
       ELSE (IF value < 0 THEN <<Minus>> ELSE <<>>) \o digits

\* utoa_hex of the linker
utoa_hex(value) ==
    IF value = 0 THEN <<DigitChar(0)>> ELSE Reverse(DigitsUp(value, 16))

-----------------------------------------------------------------------------
(* Copies: mem is the memory, dest and src are addresses in it *)

\* *d = *s for the offsets of a sequence, in its order
CopyBytes(mem, dest, src, offsets) ==
    FoldLeft(LAMBDA m, i : [m EXCEPT ![dest + i] = m[src + i]], mem, offsets)

Upward(n) == [i \in 1..n |-> i - 1]

\* The bug of a copy that always goes upward.
memcpy_upward(mem, dest, src, n) == CopyBytes(mem, dest, src, Upward(n))

\* memcpy of mini_libc, which chooses its direction
memcpy(mem, dest, src, n) ==
    IF dest <= src \/ dest >= src + n
    THEN CopyBytes(mem, dest, src, Upward(n))
    ELSE CopyBytes(mem, dest, src, Reverse(Upward(n)))

\* memcpy of the linker
dl_memcpy(mem, dest, src, n) == CopyBytes(mem, dest, src, Upward(n))

-----------------------------------------------------------------------------
(* Comparisons and the environment *)

\* The first offset at which s1 ends or differs from s2
Mismatch(s1, s2) == CHOOSE i \in 0..Len(s1) :
    /\ ByteAt(s1, i) = Nul \/ ByteAt(s1, i) # ByteAt(s2, i)
    /\ \A j \in 0..(i - 1) : ByteAt(s1, j) # Nul /\ ByteAt(s1, j) = ByteAt(s2, j)

strcmp(s1, s2) ==
    LET i == Mismatch(s1, s2) IN ByteAt(s1, i) - ByteAt(s2, i)

\* What is left of n when the loop of strncmp ends.  Each test counts it down
\* first, so -1 (the largest size_t) says that no byte was left to compare.
CountLeft(s1, s2, n) == IF n <= Mismatch(s1, s2) THEN -1 ELSE n - 1 - Mismatch(s1, s2)

\* The bug of taking the count of the last byte for the end of the loop.
strncmp_zero(s1, s2, n) == IF CountLeft(s1, s2, n) <= 0 THEN 0 ELSE strcmp(s1, s2)

\* strncmp, the same in mini_libc and in the linker
strncmp(s1, s2, n) == IF CountLeft(s1, s2, n) = -1 THEN 0 ELSE strcmp(s1, s2)

\* get_env: the value of the first entry that starts with name and '='
get_env(environ, name) ==
    LET i == SelectInSeq(environ,
                LAMBDA e : /\ strncmp(e, name, Len(name)) = 0
                           /\ ByteAt(e, Len(name)) = Equals)
    IN IF i = 0 THEN Null
       ELSE SubSeq(environ[i], Len(name) + 2, Len(environ[i]))

\* get_filename of logger.c: what follows the last '/'
get_filename(path) ==
    SubSeq(path, SelectLastInSeq(path, LAMBDA c : c = Slash) + 1, Len(path))
=============================================================================
