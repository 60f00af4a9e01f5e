---------------------------- MODULE MCFormatting ----------------------------
(* Inputs of Formatting for TLC. *)
EXTENDS Formatting

\* "a", "ab", "a=", "a=b", "ab=a" and the like
MCWords ==
    {<<>>} \cup {<<x>> : x \in {97, Equals}} \cup {<<97, x>> : x \in {97, 98, Equals}}
    \cup {<<97, x, y>> : x \in {98, Equals}, y \in {97, 98, Equals}}

MCEnvirons == BoundedSeq(MCWords, 2)

\* Literal text with a character of two bytes, numbers of one digit and of two,
\* a long that does not fit an int, and strings, one of which looks like a directive
MCPieces ==
    {Text(<<97>>), Text(<<195, 169>>), [kind |-> "%"],
     Directive("d", 7), Directive("d", 17), Directive("ld", 17), Directive("x", 26),
     Directive("s", <<>>), Directive("s", <<37, 100, 98>>)}

\* A string that is as long as the buffer
MCLong == Directive("s", [i \in 1..24 |-> 97])

MCFormats == BoundedSeq(MCPieces, 3) \cup {<<MCLong>>}

MCLogFormats == BoundedSeq({Text(<<195, 169>>), Directive("d", 17), Directive("s", <<98, 99>>), MCLong}, 3)

\* "f", "d/f", "/d/" and one whose header does not fit
MCPaths == {Null, <<100, Slash, 102>>, <<Slash, 100, Slash>>, <<102, 102, 102, 102, 102, 102>>,
            [i \in 1..10 |-> 102]}

MCFuncs == {Null, <<103>>}

MCLinkerPieces ==
    {Text(<<97>>), [kind |-> "%"], Directive("d", -3), Directive("x", 13),
     Directive("s", Null), Directive("s", <<98, 99, 100>>)}

MCLinkerFormats == BoundedSeq(MCLinkerPieces, 4)
=============================================================================
