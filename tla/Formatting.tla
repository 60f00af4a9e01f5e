----------------------------- MODULE Formatting -----------------------------
(***************************************************************************)
(* Text in bounded buffers: vsprintf and vsnprintf of mini_libc/src/       *)
(* printf.c and of dynamic_linker/src/dl_runtime.c, log_output and         *)
(* set_log_level of logger.c, and the printf of the linker.                *)
(*                                                                         *)
(* A program makes one call after the other; the only state between calls  *)
(* is the logger's current_log_level.  `call` is the call just made, with  *)
(* its arguments and what it did.  A format is written as a sequence of    *)
(* pieces, each literal text or a directive with its argument; vsprintf    *)
(* reads the bytes they make.                                              *)
(***************************************************************************)
EXTENDS Strings, FiniteSets

CONSTANTS
    IntBits,        \* the bits of an int
    BufferSize,     \* the 1024 of vsnprintf's temp and of log_output's buf
    PrintfSize,     \* the 1024 of the linker printf's buffer
    Radices,        \* the inputs tried: radices of itoa,
    Memory,         \* addresses that memcpy copies within,
    Words,          \* strings to compare and names to look up,
    Counts,         \* numbers of bytes to compare,
    Environs,       \* environments,
    Formats,        \* formats of vsnprintf,
    Sizes,          \* sizes of its buffer,
    LogFormats,     \* formats of log messages,
    Paths, Lines, Funcs,    \* what __FILE__, __LINE__ and __func__ give to log_output,
    LinkerFormats   \* formats of the linker's printf

ASSUME FormattingAssumption ==
    /\ IntBits \in 2..LongBits
    /\ BufferSize \in Nat \ {0} /\ PrintfSize \in Nat \ {0, 1}
    /\ Memory \subseteq Nat /\ \A a, b \in Memory : a..b \subseteq Memory
    /\ Words \subseteq Seq(Chars) /\ Counts \subseteq Nat /\ Environs \subseteq Seq(Seq(Chars))
    /\ Sizes \subseteq Nat /\ Lines \subseteq Int
    /\ Paths \cup Funcs \subseteq Seq(Chars) \cup {Null}

VARIABLES
    current_log_level,
    call            \* the call just made; its fn is "none" between calls

vars == <<current_log_level, call>>

Levels == 0..2                  \* LOG_LEVEL_DEBUG, LOG_LEVEL_INFO, LOG_LEVEL_ERROR
Longs == (-PowerOf2[LongBits - 1])..(PowerOf2[LongBits - 1] - 1)

\* "DEBUG", "INFO", "ERROR"
log_level_str == [l \in Levels |->
    CASE l = 0 -> <<68, 69, 66, 85, 71>> [] l = 1 -> <<73, 78, 70, 79>> [] l = 2 -> <<69, 82, 82, 79, 82>>]

-----------------------------------------------------------------------------
(* Pieces of formats *)

get_utf8_char_length(c) ==
    CASE c \div 32 = 6 -> 2 [] c \div 16 = 14 -> 3 [] c \div 8 = 30 -> 4 [] OTHER -> 1

Percent == 37
Letter == [d |-> 100, l |-> 108, s |-> 115, x |-> 120, p |-> 112]

Text(bytes) == [kind |-> "text", bytes |-> bytes]
Directive(kind, arg) == [kind |-> kind, arg |-> arg]

\* Literal text is whole characters, none of them a '%'; starts are their offsets.
WellEncoded(bytes) ==
    \E starts \in SUBSET (0..Len(bytes)) :
        /\ 0 \in starts
        /\ \A i \in starts \ {Len(bytes)} :
            ByteAt(bytes, i) # Percent /\ i + get_utf8_char_length(ByteAt(bytes, i)) \in starts

Pieces ==
    [kind : {"text"}, bytes : {bytes \in Seq(Chars) : WellEncoded(bytes)}]
    \cup [kind : {"%"}] \cup [kind : {"d", "ld", "x"}, arg : Int] \cup [kind : {"s"}, arg : Seq(Chars)]

\* For the linker's printf literal text is bytes, and a string may be NULL.
LinkerPieces ==
    [kind : {"text"}, bytes : {<<c>> : c \in Chars}]
    \cup [kind : {"%"}] \cup [kind : {"d", "x"}, arg : Int] \cup [kind : {"s"}, arg : Seq(Chars) \cup {Null}]

ASSUME PiecesAssumption ==
    Formats \cup LogFormats \subseteq Seq(Pieces) /\ LinkerFormats \subseteq Seq(LinkerPieces)

\* The bytes that stand for a piece in the format
Written(piece) ==
    CASE piece.kind = "text" -> piece.bytes
      [] piece.kind = "ld" -> <<Percent, Letter.l, Letter.d>>
      [] piece.kind = "%" -> <<Percent, Percent>>
      [] OTHER -> <<Percent, Letter[piece.kind]>>

FormatOf(pieces) == FlattenSeq([i \in DOMAIN pieces |-> Written(pieces[i])])

HasArgument(piece) == piece.kind \notin {"text", "%"}

ArgsOf(pieces) ==
    FlattenSeq([i \in DOMAIN pieces |-> IF HasArgument(pieces[i]) THEN <<pieces[i].arg>> ELSE <<>>])

\* The conversions vsprintf calls for %d and %ld, and for %x, in the library lib:
\* "mini_libc" or "linker"
decimal(lib, n) == IF lib = "linker" THEN dl_itoa(n) ELSE itoa(n, 10, 1)
hex(lib, n) == IF lib = "linker" THEN utoa_hex(n % PowerOf2[LongBits]) ELSE itoa(n, 16, 0)

\* What a piece stands for in the output
Rendered(lib, piece) ==
    CASE piece.kind = "text" -> piece.bytes
      [] piece.kind = "%" -> <<Percent>>
      [] piece.kind = "s" -> piece.arg
      [] piece.kind = "d" -> decimal(lib, Signed(piece.arg, IntBits))
      [] piece.kind = "ld" -> decimal(lib, piece.arg)
      [] piece.kind = "x" -> hex(lib, piece.arg)

RenderedAll(lib, pieces) == FlattenSeq([i \in DOMAIN pieces |-> Rendered(lib, pieces[i])])

-----------------------------------------------------------------------------
(* printf.c *)

\* One round of the loop of vsprintf at offset i of the format, with args[a] the next
\* argument; rest[j][b] is the output from offset j and argument b on.  A '%' before a
\* byte it does not know is dropped; "%l" before anything but 'd' prints nothing and
\* takes no argument; the Nul ends a character that is cut off.
Round(lib, format, args, i, a, rest) ==
    LET byte(j) == ByteAt(format, j)
        end == Min({i + get_utf8_char_length(byte(i)), Len(format)})
    IN IF byte(i) = Nul THEN <<>>
       ELSE IF byte(i) # Percent THEN SubSeq(format, i + 1, end) \o rest[end][a]
       ELSE CASE byte(i + 1) = Letter.d -> decimal(lib, Signed(args[a], IntBits)) \o rest[i + 2][a + 1]
              [] byte(i + 1) = Letter.x -> hex(lib, args[a]) \o rest[i + 2][a + 1]
              [] byte(i + 1) = Letter.s -> args[a] \o rest[i + 2][a + 1]
              [] byte(i + 1) = Letter.l /\ byte(i + 2) = Letter.d -> decimal(lib, args[a]) \o rest[i + 3][a + 1]
              [] byte(i + 1) = Letter.l /\ byte(i + 2) # Letter.d -> rest[i + 2][a]
              [] OTHER -> <<byte(i + 1)>> \o rest[i + 2][a]

\* The loop, from the first byte and the first argument on
Formatted(lib, format, args) ==
    LET from[i \in Nat] == [a \in Nat |-> Round(lib, format, args, i, a, from)] IN from[0][1]

vsprintf(format, args) == Formatted("mini_libc", format, args)
dl_vsprintf(format, args) == Formatted("linker", format, args)

Refused == [ret |-> -1, buf |-> <<>>, overflow |-> FALSE]
Overflow == [ret |-> -1, buf |-> <<>>, overflow |-> TRUE]
Stored(text) == [ret |-> Len(text), buf |-> Append(text, Nul), overflow |-> FALSE]

\* The bug of forgetting the Nul when the length is tested.
StoreTight(text, size) ==
    IF size = 0 THEN Refused
    ELSE IF Len(text) >= BufferSize THEN Overflow
    ELSE IF Len(text) > size THEN Refused
    ELSE Stored(text)

\* What happens to a text on its way to a buffer of a size; buf is empty when
\* nothing is written to it.  The text goes to temp first, which has BufferSize
\* bytes and no test.
Store(text, size) ==
    IF size = 0 THEN Refused
    ELSE IF Len(text) >= BufferSize THEN Overflow
    ELSE IF Len(text) >= size THEN Refused
    ELSE Stored(text)

vsnprintf(size, format, args) == Store(vsprintf(format, args), size)
dl_vsnprintf(size, format, args) == Store(dl_vsprintf(format, args), size)

-----------------------------------------------------------------------------
(* logger.c *)

\* The writes of a call: an error message, a line, or whatever follows a store
\* beyond the end of temp
Error(message) == <<[fd |-> 2, message |-> message]>>
Line(text) == <<[fd |-> 1, text |-> text], [fd |-> 1, text |-> <<10>>]>>
Smashed == <<[fd |-> -1]>>

\* "[%s][%s:%d][%s] "
HeaderPieces(level, file, line, func) ==
    <<Text(<<91>>), Directive("s", log_level_str[level]), Text(<<93, 91>>),
      Directive("s", get_filename(file)), Text(<<58>>), Directive("d", line),
      Text(<<93, 91>>), Directive("s", func), Text(<<93, 32>>)>>

\* The bug of giving the whole size of the buffer for what follows the header.
LogContentUnlimited(header, pieces) == vsnprintf(BufferSize, FormatOf(pieces), ArgsOf(pieces))

\* The message, formatted behind the header into the bytes that remain
LogContent(header, pieces) ==
    vsnprintf(BufferSize - header.ret, FormatOf(pieces), ArgsOf(pieces))

\* log_output: what it writes, in order; a text that is written has lost its Nul.
\* The format is not NULL, and a header that fits leaves room for a byte at least,
\* so that the exit of logger.c:82-86 is never taken.
log_output(level, file, func, line, pieces) ==
    LET header_pieces == HeaderPieces(level, file, line, func)
        header == vsnprintf(BufferSize, FormatOf(header_pieces), ArgsOf(header_pieces))
        content == LogContent(header, pieces)
    IN IF file = Null \/ func = Null THEN Error("Invalid log parameters")
       ELSE IF level \notin Levels THEN Error("Invalid log level")
       ELSE IF level < current_log_level THEN <<>>
       ELSE IF header.overflow \/ (header.ret >= 0 /\ content.overflow) THEN Smashed
       ELSE IF header.ret < 0 THEN Error("Log header too long")
       ELSE IF content.ret < 0 THEN Error("Log content too long")
       ELSE Line(Front(header.buf) \o Front(content.buf))

-----------------------------------------------------------------------------
(* printf of the linker *)

\* The output of a directive: a NULL string prints nothing
dl_Rendered(piece) ==
    CASE piece.kind = "text" -> piece.bytes
      [] piece.kind = "%" -> <<Percent>>
      [] piece.kind = "s" -> IF piece.arg = Null THEN <<>> ELSE piece.arg
      [] piece.kind = "d" -> dl_itoa(Signed(piece.arg, IntBits))
      [] piece.kind = "x" -> utoa_hex(piece.arg % PowerOf2[IntBits])
      [] piece.kind = "p" -> utoa_hex(piece.arg % PowerOf2[LongBits])

\* The bug of copying of an argument what fits.
dl_piece_cut(buffer, piece) ==
    LET all == buffer \o dl_Rendered(piece)
    IN IF Len(all) < PrintfSize THEN all ELSE SubSeq(all, 1, PrintfSize - 1)

\* One round of printf's loop, for directives it knows.  The loop ends when one byte
\* is left, for the Nul; an argument that does not fit is left out; "0x" is stored
\* without a test.
dl_piece(buffer, piece) ==
    LET prefixed == IF piece.kind = "p" THEN buffer \o <<48, Letter.x>> ELSE buffer
        fits == \/ piece.kind \in {"text", "%"}
                \/ Len(prefixed) + Len(dl_Rendered(piece)) < PrintfSize - 1
    IN CASE Len(buffer) >= PrintfSize - 1 -> buffer
         [] Len(buffer) < PrintfSize - 1 /\ fits -> prefixed \o dl_Rendered(piece)
         [] OTHER -> prefixed

\* printf of the linker; every literal byte is a piece.  The Nul follows the
\* bytes in the buffer and is not written.
dl_printf(pieces) == FoldLeft(dl_piece, <<>>, pieces)

-----------------------------------------------------------------------------
(* Programs: one call after the other *)

\* The level starts as DEBUG, whatever the comment beside it says.
Init == current_log_level = 0 /\ call = [fn |-> "none"]

\* A function that keeps no state is called: c is the call.
Makes(c) == call.fn = "none" /\ call' = c /\ UNCHANGED current_log_level

CallItoa == \E num \in Longs, radix \in Radices, sign_flag \in {0, 1} :
    Makes([fn |-> "itoa", num |-> num, radix |-> radix, sign_flag |-> sign_flag,
           text |-> itoa(num, radix, sign_flag), dl_text |-> dl_itoa(num)])

CallMemcpy == \E dest, src \in Memory : \E n \in Memory :
    /\ dest + n \in Memory /\ src + n \in Memory
    /\ Makes([fn |-> "memcpy", dest |-> dest, src |-> src, n |-> n,
              after |-> memcpy([a \in Memory |-> a], dest, src, n),
              dl_after |-> dl_memcpy([a \in Memory |-> a], dest, src, n)])

CallStrncmp == \E s1, s2 \in Words : \E n \in Counts :
    Makes([fn |-> "strncmp", s1 |-> s1, s2 |-> s2, n |-> n,
           ret |-> strncmp(s1, s2, n)])

CallGetEnv == \E environ \in Environs, name \in Words :
    Makes([fn |-> "get_env", environ |-> environ, name |-> name,
           ret |-> get_env(environ, name)])

CallVsnprintf == \E pieces \in Formats, size \in Sizes :
    Makes([fn |-> "vsnprintf", pieces |-> pieces, size |-> size,
           did |-> vsnprintf(size, FormatOf(pieces), ArgsOf(pieces)),
           dl_did |-> dl_vsnprintf(size, FormatOf(pieces), ArgsOf(pieces))])

CallPrintf == \E pieces \in LinkerFormats :
    Makes([fn |-> "dl_printf", pieces |-> pieces, buffer |-> dl_printf(pieces)])

CallLog == \E level \in -1..3, file \in Paths, func \in Funcs, line \in Lines, pieces \in LogFormats :
    Makes([fn |-> "log_output", level |-> level, file |-> file, func |-> func, line |-> line, pieces |-> pieces,
           writes |-> log_output(level, file, func, line, pieces)])

\* set_log_level
CallSetLevel == \E level \in -1..3 :
    /\ call.fn = "none"
    /\ current_log_level' = IF level \in Levels THEN level ELSE current_log_level
    /\ call' = [fn |-> "set_log_level"]

Return == call.fn # "none" /\ call' = [fn |-> "none"] /\ UNCHANGED current_log_level

Next ==
    \/ CallItoa \/ CallMemcpy \/ CallStrncmp \/ CallGetEnv
    \/ CallVsnprintf \/ CallPrintf \/ CallLog \/ CallSetLevel
    \/ Return

Spec == Init /\ [][Next]_vars

-----------------------------------------------------------------------------
(* Properties *)

\* The number a text of digits stands for
ReadBack(text, radix) ==
    FoldLeft(LAMBDA n, c : n * radix + (IF c >= 97 THEN c - 87 ELSE c - 48), 0, text)

\* A number that is printed is read back: an unsigned one in every radix, of the
\* signed ones what each itoa can do, which of mini_libc's is the numbers that are
\* not negative, and of the linker's all but the least.
NumbersReadBack ==
    call.fn = "itoa" =>
        /\ call.radix \in 2..16 /\ (call.sign_flag = 0 \/ call.num >= 0) =>
            ReadBack(call.text, call.radix) = call.num % PowerOf2[LongBits]
        /\ call.num >= 0 => ReadBack(call.dl_text, 10) = call.num
        /\ call.num < 0 /\ -call.num \in Longs =>
            /\ Head(call.dl_text) = Minus
            /\ ReadBack(Tail(call.dl_text), 10) = -call.num

\* memcpy copies what the source held when it was called, and nothing else
\* changes: mini_libc's for areas that overlap in any way, the linker's unless the
\* destination begins inside the source.
CopiesAreExact ==
    call.fn = "memcpy" =>
        LET exact == [a \in Memory |->
                IF a \in call.dest..(call.dest + call.n - 1) THEN call.src + (a - call.dest) ELSE a]
        IN /\ call.after = exact
           /\ (call.dest <= call.src \/ call.dest >= call.src + call.n) => call.dl_after = exact

\* The first n bytes of a string
Prefix(s, n) == SubSeq(s, 1, IF n < Len(s) THEN n ELSE Len(s))

\* strncmp is 0 exactly for strings that agree in their first n bytes, and get_env
\* finds the variable of exactly that name, not of a name that begins or ends so.
LookupsAreExact ==
    /\ call.fn = "strncmp" =>
        (call.ret = 0 <=> Prefix(call.s1, call.n) = Prefix(call.s2, call.n))
    /\ call.fn = "get_env" =>
        LET found == {i \in DOMAIN call.environ :
                        Prefix(call.environ[i], Len(call.name) + 1) = Append(call.name, Equals)}
        IN IF found = {} THEN call.ret = Null
           ELSE \E i \in found :
                    /\ \A j \in found : i <= j
                    /\ call.environ[i] = call.name \o <<Equals>> \o call.ret

\* Both versions of vsnprintf give the whole text, with a Nul that is inside the
\* buffer, or refuse and leave the buffer alone; a text longer than temp is not
\* covered.
TextWholeOrRefused ==
    call.fn = "vsnprintf" =>
        LET Whole(did, text) ==
                Len(text) < BufferSize =>
                    did = IF Len(text) + 1 <= call.size THEN Stored(text) ELSE Refused
        IN /\ Whole(call.did, RenderedAll("mini_libc", call.pieces))
           /\ Whole(call.dl_did, RenderedAll("linker", call.pieces))

\* A log message whose level is valid and not below the one set last, or DEBUG when
\* none was set, comes out as one whole line with its header if the buffer has room
\* for both, and as one error message if the text fits the temporary buffer of
\* vsnprintf only.  A header or a text that does not fit that one either runs past it.
\* Any other message writes nothing, or one error message.
LogLineWholeOrRefused ==
    call.fn = "log_output" =>
        LET header == RenderedAll("mini_libc", HeaderPieces(call.level, call.file, call.line, call.func))
            content == RenderedAll("mini_libc", call.pieces)
            room == BufferSize - 1 - Len(header)
        IN IF call.file = Null \/ call.func = Null \/ call.level \notin Levels
           THEN Len(call.writes) = 1 /\ call.writes[1].fd = 2
           ELSE IF call.level < current_log_level THEN call.writes = <<>>
           ELSE IF room < 0 \/ Len(content) >= BufferSize THEN call.writes = Smashed
           ELSE IF Len(content) <= room THEN call.writes = Line(header \o content)
           ELSE call.writes = Error("Log content too long")

\* The linker's printf puts out every piece whole or not at all, all of them when
\* they fit with two bytes to spare, and the Nul is stored inside the buffer, for
\* formats without %p, which the linker does not use.
PiecesWholeOrSkipped ==
    call.fn = "dl_printf" =>
        LET pieces == call.pieces
            shown(kept) == FlattenSeq([i \in DOMAIN pieces |->
                                IF i \in kept THEN dl_Rendered(pieces[i]) ELSE <<>>])
        IN /\ \E kept \in SUBSET DOMAIN pieces : call.buffer = shown(kept)
           /\ Len(shown(DOMAIN pieces)) <= PrintfSize - 2 => call.buffer = shown(DOMAIN pieces)
           /\ Len(call.buffer) < PrintfSize
=============================================================================
