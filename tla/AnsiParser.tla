----------------------------- MODULE AnsiParser ------------------------------
(***************************************************************************)
(* The state machine that splits the child's output into characters,       *)
(* controls and sequences (src/src/terminal/ansi_parser.rs).  A parser is  *)
(* a record; a handler takes one and a byte to the next one and to what it *)
(* says to the Performer.  Bytes come in chunks cut anywhere.              *)
(*                                                                         *)
(* A byte stands for a class whose members the handlers do not tell apart. *)
(* Beside the parser runs a reference, which never sees the cuts, nor the  *)
(* bytes the parser swallows behind some of them, and may at any ESC be    *)
(* exchanged for a new parser.                                             *)
(***************************************************************************)
EXTENDS Integers, SequencesExt

CONSTANTS
    Bytes,             \* the bytes the child sends
    MaxParam,          \* u16::MAX
    MaxParams, MaxIntermediates, MaxOscParams, MaxOscRaw,
    FreshPerChunk,     \* every chunk meets a new parser, as in HistoryScreen::feed
    MaxBytes           \* bound: bytes sent

Controls == {"BS", "BEL"}         \* 00-17, 19, 1C-1F
Spaces == {" ", "#"}              \* 20-2F
Digits == {"1", "9"}              \* 30-39
Privates == {"<", "?"}            \* 3C-3D, 3E-3F
Finals == {"m", "P", "X", "[", "]"}
Leads == {"C2", "C3", "E2"}       \* of a C1 control, a letter, a sign of three bytes
Continuation == "9C"              \* also the C1 string terminator
AllBytes == Controls \cup Spaces \cup Digits \cup Privates \cup Finals \cup Leads
                \cup {"CAN", "ESC", ":", ";", "DEL", Continuation}

Singles == AllBytes \ (Leads \cup {Continuation})

ASSUME ParserAssumption ==
    /\ Bytes \subseteq AllBytes
    /\ {MaxParam, MaxParams, MaxOscParams} \subseteq Nat \ {0}
    /\ {MaxIntermediates, MaxOscRaw, MaxBytes} \subseteq Nat
    /\ FreshPerChunk \in BOOLEAN

VARIABLES
    parser, says,        \* the parser, and what it said of the last byte
    reference, expected, \* the reference, and what it said
    since,               \* the bytes from the last ESC on, outside the ground state
    place,               \* where the last byte stands in partial_utf8
    bracket,             \* "closed", "open" after a hook, "broken" when used wrongly
    sent

vars == <<parser, says, reference, expected, since, place, bracket, sent>>

Fresh ==
    [state |-> "Ground", inter |-> <<>>, params |-> <<>>, param |-> 0,
     total |-> 0, ignoring |-> FALSE, sub |-> FALSE, raw |-> <<>>, ends |-> <<>>,
     lead |-> [need |-> 0, c1 |-> FALSE]]

Init ==
    /\ parser = Fresh /\ reference = Fresh
    /\ says = <<>> /\ expected = <<>>
    /\ since = <<>>
    /\ place = "none"
    /\ bracket = "closed"
    /\ sent = 0

-----------------------------------------------------------------------------
(* What the handlers are made of.                                          *)

Lesser(a, b) == IF a < b THEN a ELSE b

Go(p, state) == [p EXCEPT !.state = state]
Quiet(p) == [to |-> p, out |-> <<>>]
Say(p, what) == [to |-> p, out |-> <<what>>]
Execute(p, b) == Say(p, <<"execute", b>>)

\* Mutant: the flag of an overlong sequence outlives it.
ResetParamsOnly(p) == [p EXCEPT !.inter = <<>>, !.param = 0, !.params = <<>>, !.total = 0]

\* subparam_continuation is left as it is.
ResetParams(p) ==
    [p EXCEPT !.inter = <<>>, !.ignoring = FALSE, !.param = 0, !.params = <<>>, !.total = 0]

ToEscape(p) == Go(ResetParams(p), "Escape")

Full(p) == p.total >= MaxParams
Ignore(p) == [p EXCEPT !.ignoring = TRUE]

Pushed(p) == [p EXCEPT !.params = Append(@, <<p.param>>), !.total = @ + 1]

\* Params::extend: a sub-parameter joins the last group there is.
Extended(p) ==
    IF p.params = <<>> THEN Pushed(p)
    ELSE [p EXCEPT !.params[Len(p.params)] = Append(@, p.param), !.total = @ + 1]

Added(p) == IF Full(p) THEN Ignore(p) ELSE IF p.sub THEN Extended(p) ELSE Pushed(p)

\* Mutant: what has been read of a number stays for the next one.
ParamKept(p) == [Added(p) EXCEPT !.sub = FALSE]

Param(p) == [Added(p) EXCEPT !.param = 0, !.sub = FALSE]

Subparam(p) ==
    LET q == IF Full(p) THEN Ignore(p) ELSE [Extended(p) EXCEPT !.param = 0]
    IN  [q EXCEPT !.sub = TRUE]

Value(b) == IF b = "1" THEN 1 ELSE 9
ParamNext(p, b) ==
    [p EXCEPT !.param = Lesser(Lesser(@ * 10, MaxParam) + Value(b), MaxParam)]

Collect(p, b) ==
    IF Len(p.inter) < MaxIntermediates THEN [p EXCEPT !.inter = Append(@, b)]
    ELSE Ignore(p)

CsiDispatch(p, b) ==
    LET q == Param(p)
    IN  Say(Go(q, "Ground"), <<"csi", q.params, q.inter, q.ignoring, b>>)

EscDispatch(p, b) == Say(Go(p, "Ground"), <<"esc", p.inter, p.ignoring, b>>)

\* A last sub-parameter is pushed like any other, and the number stays.
Hook(p, b) ==
    LET q == IF Full(p) THEN Ignore(p) ELSE Pushed(p)
    IN  Say(Go(q, "DcsPassthrough"), <<"hook", q.params, q.inter, q.ignoring, b>>)

OscPut(p, b) == IF Len(p.raw) < MaxOscRaw THEN [p EXCEPT !.raw = Append(@, b)] ELSE p

OscPutParam(p) ==
    IF Len(p.ends) < MaxOscParams THEN [p EXCEPT !.ends = Append(@, Len(p.raw))] ELSE p

Slices(raw, ends) ==
    LET start(i) == IF i = 1 THEN 1 ELSE ends[i - 1] + 1
    IN  [i \in DOMAIN ends |-> SubSeq(raw, start(i), ends[i])]

OscEnd(p, b) ==
    LET q == OscPutParam(p)
    IN  Say([q EXCEPT !.raw = <<>>, !.ends = <<>>],
            <<"osc", Slices(q.raw, q.ends), b = "BEL">>)

\* After what r says, what a later handler says.
Then(r, s) == [to |-> s.to, out |-> r.out \o s.out]

-----------------------------------------------------------------------------
(* The handlers.                                                           *)

Anywhere(p, b) ==
    CASE b = "CAN" -> Execute(Go(p, "Ground"), b)
      [] b = "ESC" -> Quiet(ToEscape(p))
      [] OTHER -> Quiet(p)

\* A byte in the ground state that continues nothing.
GroundFirst(p, b) ==
    CASE b = "ESC" -> Quiet(ToEscape(p))
      [] b \in Leads ->
             Quiet([p EXCEPT !.lead = [need |-> IF b = "E2" THEN 2 ELSE 1, c1 |-> b = "C2"]])
      [] b \in Controls \cup {"CAN", Continuation} -> Execute(p, b)
      [] OTHER -> Say(p, <<"print", b>>)

\* UTF-8: an incomplete character is replaced and the byte that cut it short
\* counts.  A C1 control is obeyed when it came in one chunk and printed when
\* the chunk ended inside it, for ChunkEnd forgets that it is one.  (The byte
\* a chunk may lose behind its first character never gets here: see Swallow.)
Ground(p, b) ==
    LET none == [p EXCEPT !.lead = Fresh.lead]
    IN  IF p.lead.need = 0 THEN GroundFirst(p, b)
        ELSE IF b # Continuation THEN Then(Say(none, <<"print", "FFFD">>), GroundFirst(none, b))
        ELSE IF p.lead.need = 2 THEN Quiet([p EXCEPT !.lead.need = 1])
        ELSE IF p.lead.c1 THEN Execute(none, b) ELSE Say(none, <<"print", "char">>)

CsiEntry(p, b) ==
    CASE b \in Controls -> Execute(p, b)
      [] b \in Spaces -> Quiet(Go(Collect(p, b), "CsiIntermediate"))
      [] b \in Digits -> Quiet(Go(ParamNext(p, b), "CsiParam"))
      [] b = ":" -> Quiet(Go(Subparam(p), "CsiParam"))
      [] b = ";" -> Quiet(Go(Param(p), "CsiParam"))
      [] b \in Privates -> Quiet(Go(Collect(p, b), "CsiParam"))
      [] b \in Finals -> CsiDispatch(p, b)
      [] OTHER -> Anywhere(p, b)

CsiIgnore(p, b) ==
    CASE b \in Controls -> Execute(p, b)
      [] b \in Finals -> Quiet(Go(p, "Ground"))
      [] OTHER -> Anywhere(p, b)

CsiIntermediate(p, b) ==
    CASE b \in Controls -> Execute(p, b)
      [] b \in Spaces -> Quiet(Collect(p, b))
      [] b \in Digits \cup Privates \cup {":", ";"} -> Quiet(Go(p, "CsiIgnore"))
      [] b \in Finals -> CsiDispatch(p, b)
      [] OTHER -> Anywhere(p, b)

CsiParam(p, b) ==
    CASE b \in Controls -> Execute(p, b)
      [] b \in Spaces -> Quiet(Go(Collect(p, b), "CsiIntermediate"))
      [] b \in Digits -> Quiet(ParamNext(p, b))
      [] b = ":" -> Quiet(Subparam(p))
      [] b \in {";", "<"} -> Quiet(Param(p))
      [] b = "?" -> Quiet(Go(p, "CsiIgnore"))
      [] b \in Finals -> CsiDispatch(p, b)
      [] OTHER -> Anywhere(p, b)

DcsEntry(p, b) ==
    CASE b \in Spaces -> Quiet(Go(Collect(p, b), "DcsIntermediate"))
      [] b \in Digits -> Quiet(Go(ParamNext(p, b), "DcsParam"))
      [] b = ":" -> Quiet(Go(Subparam(p), "DcsParam"))
      [] b = ";" -> Quiet(Go(Param(p), "DcsParam"))
      [] b \in Privates -> Quiet(Go(Collect(p, b), "DcsParam"))
      [] b \in Finals -> Hook(p, b)
      [] OTHER -> Anywhere(p, b)

DcsIntermediate(p, b) ==
    CASE b \in Spaces -> Quiet(Collect(p, b))
      [] b \in Digits \cup Privates \cup {":", ";"} -> Quiet(Go(p, "DcsIgnore"))
      [] b \in Finals -> Hook(p, b)
      [] OTHER -> Anywhere(p, b)

DcsParam(p, b) ==
    CASE b \in Spaces -> Quiet(Go(Collect(p, b), "DcsIntermediate"))
      [] b \in Digits -> Quiet(ParamNext(p, b))
      [] b = ":" -> Quiet(Subparam(p))
      [] b = ";" -> Quiet(Param(p))
      [] b \in Privates -> Quiet(Go(p, "DcsIgnore"))
      [] b \in Finals -> Hook(p, b)
      [] OTHER -> Anywhere(p, b)

\* Mutant: a cancelled string is not unhooked.
DcsPassthroughCancel(p, b) ==
    CASE b = "CAN" -> Execute(Go(p, "Ground"), b)
      [] b = "ESC" -> Say(ToEscape(p), <<"unhook">>)
      [] b = Continuation -> Say(Go(p, "Ground"), <<"unhook">>)
      [] b \in Leads \cup {"DEL"} -> Quiet(p)
      [] OTHER -> Say(p, <<"put", b>>)

DcsPassthrough(p, b) ==
    CASE b = "CAN" -> Then(Say(p, <<"unhook">>), Execute(Go(p, "Ground"), b))
      [] b = "ESC" -> Say(ToEscape(p), <<"unhook">>)
      [] b = Continuation -> Say(Go(p, "Ground"), <<"unhook">>)
      [] b \in Leads \cup {"DEL"} -> Quiet(p)
      [] OTHER -> Say(p, <<"put", b>>)

\* A second ESC is swallowed.
Escape(p, b) ==
    CASE b \in Controls -> Execute(p, b)
      [] b \in Spaces -> Quiet(Go(Collect(p, b), "EscapeIntermediate"))
      [] b = "P" -> Quiet(Go(ResetParams(p), "DcsEntry"))
      [] b = "[" -> Quiet(Go(ResetParams(p), "CsiEntry"))
      [] b = "]" -> Quiet(Go([p EXCEPT !.raw = <<>>, !.ends = <<>>], "OscString"))
      [] b = "X" -> Quiet(Go(p, "SosPmApcString"))
      [] b \in {"m", ":", ";"} \cup Digits \cup Privates -> EscDispatch(p, b)
      [] b = "CAN" -> Execute(Go(p, "Ground"), b)
      [] OTHER -> Quiet(p)

EscapeIntermediate(p, b) ==
    CASE b \in Controls -> Execute(p, b)
      [] b \in Spaces -> Quiet(Collect(p, b))
      [] b \in Finals \cup Digits \cup Privates \cup {":", ";"} -> EscDispatch(p, b)
      [] OTHER -> Anywhere(p, b)

OscString(p, b) ==
    LET ended == OscEnd(p, b)
    IN  CASE b = "BEL" -> [ended EXCEPT !.to.state = "Ground"]
          [] b = "CAN" -> Then(ended, Execute(Go(ended.to, "Ground"), b))
          [] b = "ESC" -> [ended EXCEPT !.to = ToEscape(@)]
          [] b = ";" -> Quiet(OscPutParam(p))
          [] b \in Controls \ {"BEL"} -> Quiet(p)
          [] OTHER -> Quiet(OscPut(p, b))

Advance(p, b) ==
    CASE p.state = "Ground" -> Ground(p, b)
      [] p.state = "CsiEntry" -> CsiEntry(p, b)
      [] p.state = "CsiIgnore" -> CsiIgnore(p, b)
      [] p.state = "CsiIntermediate" -> CsiIntermediate(p, b)
      [] p.state = "CsiParam" -> CsiParam(p, b)
      [] p.state = "DcsEntry" -> DcsEntry(p, b)
      [] p.state = "DcsIntermediate" -> DcsIntermediate(p, b)
      [] p.state = "DcsParam" -> DcsParam(p, b)
      [] p.state = "DcsPassthrough" -> DcsPassthrough(p, b)
      [] p.state = "Escape" -> Escape(p, b)
      [] p.state = "EscapeIntermediate" -> EscapeIntermediate(p, b)
      [] p.state = "OscString" -> OscString(p, b)
      [] p.state \in {"DcsIgnore", "SosPmApcString"} -> Anywhere(p, b)

-----------------------------------------------------------------------------
Turn(b, now) ==
    IF b = "hook" THEN IF now = "closed" THEN "open" ELSE "broken"
    ELSE IF b \in {"put", "unhook"} /\ now # "open" THEN "broken"
    ELSE IF b = "unhook" THEN "closed"
    ELSE IF b # "put" /\ now = "open" THEN "broken"
    ELSE now

\* A byte makes the parser say two things at most.
Turns(out, now) ==
    IF out = <<>> THEN now
    ELSE IF Len(out) = 1 THEN Turn(out[1][1], now)
    ELSE Turn(out[2][1], Turn(out[1][1], now))

(* A character cut by the end of a chunk waits in partial_utf8.  The next  *)
(* chunk fills up the four bytes, and advance_partial_utf8 looks at all of *)
(* them.  When they are valid it takes the first character and no more;    *)
(* when a valid part ends inside them it prints the first character and    *)
(* takes the whole part.  So a single byte behind a character of two is    *)
(* lost when the fourth byte begins something longer.                      *)

Places == {"none", "lead", "held", "behind", "last", "lost"}

\* The place of b, and the lead the parser then waits with.
PlaceOf(b, lead) ==
    CASE b \in Leads /\ lead.need = 1 -> "lead"
      [] place = "held" /\ b = Continuation -> "behind"
      [] place = "behind" /\ b \in Singles -> "last"
      [] OTHER -> "none"

\* One byte of a chunk.
Byte(b) ==
    \E forget \in IF b = "ESC" THEN BOOLEAN ELSE {FALSE} :
        LET r == Advance(parser, b)
            e == Advance(IF forget THEN Fresh ELSE reference, b)
        IN  /\ sent < MaxBytes
            /\ place = "last" => b \in Singles
            /\ place = "lost" => b \notin Singles
            /\ sent' = sent + 1
            /\ parser' = r.to
            /\ says' = r.out
            /\ reference' = e.to
            /\ expected' = IF forget THEN r.out ELSE e.out
            /\ since' = IF b = "ESC" \/ parser.state = "Ground" THEN <<>> ELSE Append(since, b)
            /\ place' = PlaceOf(b, r.to.lead)
            /\ bracket' = Turns(r.out, bracket)

\* A single byte behind the character that was cut, whatever it is, and in the
\* same chunk a byte that is not one: the first is taken and not looked at.
Swallow ==
    /\ place = "behind"
    /\ Bytes \cap Singles # {}
    /\ sent + 1 < MaxBytes
    /\ place' = "lost"
    /\ sent' = sent + 1
    /\ says' = <<>> /\ expected' = <<>>
    /\ UNCHANGED <<parser, reference, since, bracket>>

\* The end of advance(); what is left of a character waits for the next call.
ChunkEnd ==
    /\ place # "lost"
    /\ parser' = IF FreshPerChunk THEN Fresh ELSE [parser EXCEPT !.lead.c1 = FALSE]
    /\ place' = IF place \in {"lead", "held"} /\ ~FreshPerChunk THEN "held" ELSE "none"
    /\ says' = <<>> /\ expected' = <<>>
    /\ UNCHANGED <<reference, since, bracket, sent>>

Next == (\E b \in Bytes : Byte(b)) \/ Swallow \/ ChunkEnd

Spec == Init /\ [][Next]_vars

-----------------------------------------------------------------------------
States == {"Ground", "Escape", "EscapeIntermediate", "CsiEntry", "CsiParam", "CsiIntermediate",
           "CsiIgnore", "DcsEntry", "DcsParam", "DcsIntermediate", "DcsIgnore",
           "DcsPassthrough", "OscString", "SosPmApcString"}

Parsers ==
    [state : States, inter : Seq(AllBytes),
     params : Seq(Seq(0..MaxParam) \ {<<>>}), total : 0..MaxParams, param : 0..MaxParam,
     ignoring : BOOLEAN, sub : BOOLEAN, raw : Seq(AllBytes), ends : Seq(0..MaxOscRaw),
     lead : [need : 0..2, c1 : BOOLEAN]]

\* The arrays of the code are of fixed length, and so are the numbers.
Sound(p) ==
    /\ p \in Parsers
    /\ Len(p.inter) <= MaxIntermediates
    /\ Len(p.raw) <= MaxOscRaw
    /\ Len(p.ends) <= MaxOscParams
    /\ \A i \in DOMAIN p.ends : p.ends[i] <= Len(p.raw)
    /\ p.lead.need > 0 => p.state = "Ground"
    /\ p.params = <<>> <=> p.total = 0

TypeOK == Sound(parser) /\ place \in Places

\* What reaches the Performer depends on the bytes alone: not on where the
\* chunks were cut, and, after an ESC, on nothing that came before it.  The one
\* byte that may be lost to a cut is the one Swallow takes, and it takes nothing
\* else with it.  (Bytes without a two-byte C1 control, which a cut turns into
\* a character.)
SameWhereverCut == says = expected

\* The strings of a DCS sequence come between a hook and its unhook, nothing
\* else does, and whatever ends the sequence, also CAN or ESC, unhooks it.
HooksAreClosed ==
    /\ TypeOK
    /\ bracket # "broken"
    /\ (bracket = "open") <=> (parser.state = "DcsPassthrough")

Skipped == Controls \cup Leads \cup {"DEL", Continuation}
Heard == SelectSeq(since, LAMBDA b : b \notin Skipped)
Separators == {":", ";", "<"}
Arguments ==
    LET from == IF Len(Heard) > 1 /\ Heard[2] \in Privates THEN 3 ELSE 2
    IN  SelectSeq(SubSeq(Heard, from, Len(Heard)), LAMBDA b : b \in Digits \cup Separators)
Marks == SelectSeq(Heard, LAMBDA b : b \in Spaces)
Collected == IF Len(Heard) > 1 /\ Heard[2] \in Privates THEN <<Heard[2]>> \o Marks ELSE Marks

\* The numbers of the sequence, as written.
Numbers ==
    FoldLeft(LAMBDA ns, b :
                 IF b \in Separators THEN Append(ns, 0)
                 ELSE [ns EXCEPT ![Len(ns)] = @ * 10 + Value(b)],
             <<0>>, Arguments)

Cut(s, n) == SubSeq(s, 1, Lesser(Len(s), n))

\* A control or device sequence arrives with the numbers and the private and
\* intermediate bytes that were sent since its ESC, saturated and cut at the
\* limits, and it is flagged exactly when something was cut.  (Groups of
\* sub-parameters may be joined, which the Performer does anyway.)
ArgumentsAreThoseSent ==
    [][\A i \in DOMAIN says' : says'[i][1] \in {"csi", "hook"} =>
           /\ FlattenSeq(says'[i][2]) =
                  Cut([k \in DOMAIN Numbers |-> Lesser(Numbers[k], MaxParam)], MaxParams)
           /\ says'[i][3] = Cut(Collected, MaxIntermediates)
           /\ says'[i][4] <=> (Len(Numbers) > MaxParams \/ Len(Collected) > MaxIntermediates)]_vars

Payload ==
    LET start == SelectInSeq(since, LAMBDA b : b = "]")
    IN  SelectSeq(SubSeq(since, start + 1, Len(since)), LAMBDA b : b \notin Controls)
Fields ==
    FoldLeft(LAMBDA fs, b : IF b = ";" THEN Append(fs, <<>>)
                            ELSE [fs EXCEPT ![Len(fs)] = Append(@, b)],
             <<<<>>>>, Payload)

\* A string of the operating system arrives as the fields that were sent, in
\* order; the ones beyond the limit are dropped, and a field is shortened only
\* when there was more text than the buffer holds.
StringsAreThoseSent ==
    [][\A i \in DOMAIN says' : says'[i][1] = "osc" =>
           LET got == says'[i][2]
               kept == Cut(Fields, MaxOscParams)
           IN  /\ Len(got) = Len(kept)
               /\ \A k \in DOMAIN got : IsPrefix(got[k], kept[k])
               /\ Len(FlattenSeq(Fields)) <= MaxOscRaw => got = kept]_vars

\* Within the limits a sequence arrives with all that was sent of it.
SentIsReceived == ArgumentsAreThoseSent /\ StringsAreThoseSent
==============================================================================
