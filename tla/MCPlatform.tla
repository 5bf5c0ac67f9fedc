----------------------------- MODULE MCPlatform -----------------------------
\* Constants for checking Platform with TLC.
EXTENDS Platform

CONSTANTS c1, c2

\* Programs of up to two characters; no argument, or one of up to three
\* characters and perhaps another one behind it.
DefPrograms == {s \in BoundedSeq(Chars, 2) : ProgramName(s)}
DefArgumentLists ==
    {<<>>} \cup {<<first>> : first \in BoundedSeq(Chars, 3)}
           \cup {<<first, second>> : first \in BoundedSeq(Chars, 3),
                                     second \in BoundedSeq(Chars, 1)}
=============================================================================
