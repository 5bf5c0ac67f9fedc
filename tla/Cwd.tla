--------------------------------- MODULE Cwd ---------------------------------
(***************************************************************************)
(* Working-directory reports: OSC 7 carries a file URI, OSC 9;9 a plain    *)
(* path.  A payload is a sequence of bytes, and the ANSI parser has cut it *)
(* at every ';' before it comes here, and cut off what it has no room for. *)
(***************************************************************************)
EXTENDS Integers, Sequences, FiniteSets, SequencesExt

CONSTANTS
    MaxOscParams,   \* parts the parser keeps of one OSC string
    MaxOscRaw       \* bytes it keeps of one, the ';' between its parts not counted

\* There is room for the numbers in front of a report.
OscAssumption == MaxOscParams \in Nat \ (0..2) /\ MaxOscRaw \in Nat \ (0..1)
ASSUME OscAssumption

Nul == 0
Percent == 37
Slash == 47
Colon == 58
Semicolon == 59

\* No path: the report is malformed.
NoPath == <<>>

IsAlpha(b) == b \in 65..90 \cup 97..122
Lower(b) == IF b \in 65..90 THEN b + 32 ELSE b
HexVal(b) == CASE b \in 48..57 -> b - 48
               [] b \in 97..102 -> b - 97 + 10
               [] b \in 65..70 -> b - 65 + 10
               [] OTHER -> -1
IsHex(b) == HexVal(b) >= 0

\* str::from_utf8: how long the character is that starts with a byte, 0 for a
\* byte that starts none, and what its second byte may be.
CharLength(lead) ==
    CASE lead < 128 -> 1
      [] lead \in 194..223 -> 2
      [] lead \in 224..239 -> 3
      [] lead \in 240..244 -> 4
      [] OTHER -> 0

Second(lead) ==
    CASE lead = 224 -> 160..191
      [] lead = 237 -> 128..159
      [] lead = 240 -> 144..191
      [] lead = 244 -> 128..143
      [] OTHER -> 128..191

CharAt(s, i) ==
    /\ CharLength(s[i]) > 0
    /\ i + CharLength(s[i]) - 1 <= Len(s)
    /\ \A k \in 1..(CharLength(s[i]) - 1) :
          s[i + k] \in (IF k = 1 THEN Second(s[i]) ELSE 128..191)

\* Every byte is in a character.
IsUtf8(s) ==
    \A i \in DOMAIN s : \E j \in 1..i : i < j + CharLength(s[j]) /\ CharAt(s, j)

\* params[from..].join(";")
Rejoined(params, from) ==
    FlattenSeq([i \in 1..(Len(params) - from + 1) |->
                   IF i = 1 THEN params[from] ELSE <<Semicolon>> \o params[from + i - 1]])

\* Mutant: an escape needs to end before the last byte.
TruncatedTooEarly(s, i) == i + 2 >= Len(s)

\* The two digits behind "%" are not there.
Truncated(s, i) == i + 2 > Len(s)

\* percent_decode, one byte at a time; the text is "bad" from a malformed escape on.
DecodeStep(state, s, i) ==
    IF state.skip > 0 THEN [state EXCEPT !.skip = @ - 1]
    ELSE IF s[i] # Percent THEN [state EXCEPT !.out = Append(@, s[i])]
    ELSE IF Truncated(s, i) THEN [state EXCEPT !.is = "bad"]
    ELSE IF IsHex(s[i + 1]) /\ IsHex(s[i + 2])
      THEN [out |-> Append(state.out, 16 * HexVal(s[i + 1]) + HexVal(s[i + 2])),
            skip |-> 2, is |-> state.is]
    ELSE [state EXCEPT !.is = "bad"]

\* The loop: where it stands after each byte.
DecodeStates(s) ==
    LET read[n \in 0..Len(s)] ==
            IF n = 0 THEN [out |-> <<>>, skip |-> 0, is |-> "good"]
            ELSE DecodeStep(read[n - 1], s, n)
    IN  read

PercentDecode(s) ==
    LET end == DecodeStates(s)[Len(s)]
    IN  IF end.is = "good" /\ IsUtf8(end.out) THEN end.out ELSE NoPath

Has(s, b) == \E i \in DOMAIN s : s[i] = b

\* "/C:/Users" is "C:/Users".
WithoutDriveSlash(path) ==
    IF Len(path) >= 3 /\ path[1] = Slash /\ IsAlpha(path[2]) /\ path[3] = Colon
      THEN Tail(path) ELSE path

LocalPath(path) == IF Has(path, Nul) THEN NoPath ELSE WithoutDriveSlash(path)

\* "file://"
Scheme == <<102, 105, 108, 101, 58, 47, 47>>

HasScheme(s) ==
    /\ Len(s) >= Len(Scheme)
    /\ \A i \in DOMAIN Scheme : Lower(s[i]) = Scheme[i]

FirstSlash(s) == CHOOSE i \in DOMAIN s : s[i] = Slash /\ \A j \in 1..(i - 1) : s[j] # Slash

\* The path behind the host, from its first slash on.
PathOf(rest) ==
    IF Has(rest, Slash)
      THEN LocalPath(PercentDecode(SubSeq(rest, FirstSlash(rest), Len(rest))))
      ELSE NoPath

ParseOsc7(payload) ==
    IF HasScheme(payload) THEN PathOf(SubSeq(payload, Len(Scheme) + 1, Len(payload)))
    ELSE NoPath

ParseOsc9(payload) == IF IsUtf8(payload) /\ ~Has(payload, Nul) THEN payload ELSE NoPath

-----------------------------------------------------------------------------
(* What a shell does: escape any bytes of the path, and those that a URI   *)
(* cannot hold as they are; what the parser does: cut at ';'.              *)

Digit(n) == IF n < 10 THEN 48 + n ELSE 55 + n
Escaped(b) == <<Percent, Digit(b \div 16), Digit(b % 16)>>
MustEscape(b) == b < 32 \/ b = Percent \/ b >= 128

Codes(path, escape) ==
    [i \in DOMAIN path |-> IF i \in escape \/ MustEscape(path[i]) THEN Escaped(path[i])
                           ELSE <<path[i]>>]

Encoded(path, escape) == FlattenSeq(Codes(path, escape))

\* One more byte for the parts of a text, none of them a control byte: "before"
\* parts of one byte each are in front of them.  A ';' ends a part while there
\* is room for one, any other byte is put while there is room for it.
CutStep(cut, b, before) ==
    IF b = Semicolon
      THEN IF before + Len(cut.parts) <= MaxOscParams
             THEN [parts |-> Append(cut.parts, <<>>), size |-> cut.size]
             ELSE cut
    ELSE IF cut.size < MaxOscRaw
      THEN [parts |-> Append(Front(cut.parts), Append(Last(cut.parts), b)),
            size |-> cut.size + 1]
      ELSE cut

CutStates(text, before) ==
    LET cut[n \in 0..Len(text)] ==
            IF n = 0 THEN [parts |-> << <<>> >>, size |-> before]
            ELSE CutStep(cut[n - 1], text[n], before)
    IN  cut

\* The parts that are dispatched: the last one, too, needs room.
Cut(text, before) ==
    LET parts == CutStates(text, before)[Len(text)].parts
    IN  IF before + Len(parts) <= MaxOscParams THEN parts
        ELSE SubSeq(parts, 1, MaxOscParams - before)

Semicolons(text) == {i \in DOMAIN text : text[i] = Semicolon}
Others(text) == DOMAIN text \ Semicolons(text)

\* A text of no control bytes that the parser has room for.
Fits(text, before) ==
    /\ \A i \in DOMAIN text : text[i] >= 32
    /\ before + Cardinality(Semicolons(text)) + 1 <= MaxOscParams
    /\ before + Cardinality(Others(text)) <= MaxOscRaw

\* What a report should come to.
Expected(path) == IF IsUtf8(path) THEN LocalPath(path) ELSE NoPath

Uri(path, host, escape) == Scheme \o host \o Encoded(path, escape)

\* A directory arrives under either kind of report ("7" is in front of one,
\* "9" and "9" of the other) if the parser has room for it, whatever the host,
\* however the path is escaped behind its first "/" and wherever its ';' cut it.
Arrives(path, host, escape) ==
    LET uri == Uri(path, host, escape)
    IN  /\ Fits(uri, 1) => ParseOsc7(Rejoined(Cut(uri, 1), 1)) = Expected(path)
        /\ Fits(path, 2) => ParseOsc9(Rejoined(Cut(path, 2), 1))
                               = (IF IsUtf8(path) THEN path ELSE NoPath)
=============================================================================
