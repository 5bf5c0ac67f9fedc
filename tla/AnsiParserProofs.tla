--------------------------- MODULE AnsiParserProofs ---------------------------
(***************************************************************************)
(* Proofs about AnsiParser, for bytes of every class, any limits and any   *)
(* length of the stream: that hooks are closed, and that what is said does *)
(* not depend on the cuts between chunks or on what came before an ESC.    *)
(***************************************************************************)
EXTENDS AnsiParser, SequenceTheorems, TLAPS

NoLead == [need |-> 0, c1 |-> FALSE]

\* A parser within a sequence that is not a string of the operating system:
\* nothing is left of a character or of an earlier string.
Reads(p) ==
    /\ Sound(p)
    /\ p.lead = NoLead
    /\ p.raw = <<>> /\ p.ends = <<>>

\* What holds of a parser between two bytes beside its types.
Kept(p) ==
    /\ Sound(p)
    /\ p.lead.need = 0 => p.lead.c1 = FALSE
    /\ p.lead.c1 => "C2" \in Bytes
    /\ p.state # "OscString" => p.raw = <<>> /\ p.ends = <<>>
    /\ p.state = "Escape" =>
           /\ p.inter = <<>> /\ p.params = <<>> /\ p.total = 0
           /\ p.param = 0 /\ p.ignoring = FALSE

Now(p) == IF p.state = "DcsPassthrough" THEN "open" ELSE "closed"

\* What a handler has to do with the parser and with the bracket.
Right(p, r) ==
    /\ Kept(r.to)
    /\ Turns(r.out, Now(p)) = Now(r.to)

\* The states in which a number may be read.
Reading == {"CsiEntry", "CsiParam", "CsiIntermediate", "DcsEntry", "DcsParam", "DcsIntermediate"}

\* Two parsers that will say the same.  The flag of a sub-parameter is not
\* reset with the parameters: it makes no difference until there is one.
Twins(p, q) ==
    /\ p \in Parsers /\ q \in Parsers
    /\ p.state = q.state /\ p.inter = q.inter /\ p.params = q.params
    /\ p.total = q.total /\ p.param = q.param /\ p.ignoring = q.ignoring
    /\ p.raw = q.raw /\ p.ends = q.ends /\ p.lead = q.lead

Alike(p, q) ==
    /\ Twins(p, q)
    /\ p.state \in Reading /\ p.params # <<>> => p.sub = q.sub

\* What two handlers have to do so that nobody can tell them apart.
Agree(r, s) == r.out = s.out /\ Alike(r.to, s.to)

-----------------------------------------------------------------------------
(* What the handlers are made of.                                          *)

\* What has been added to is not empty.
LEMMA AppendNonEmpty ==
    ASSUME NEW S, NEW s \in Seq(S), NEW e \in S
    PROVE  Append(s, e) \in Seq(S) \ {<<>>} /\ Len(Append(s, e)) = Len(s) + 1
<1>1. Append(s, e) \in Seq(S) /\ Len(Append(s, e)) = Len(s) + 1 /\ Len(s) \in Nat
    OBVIOUS
<1>2. Append(s, e) # <<>>
    BY <1>1, Len(<<>>) = 0
<1>. QED
    BY <1>1, <1>2

\* Going to another state.
LEMMA GoReads ==
    ASSUME NEW p, Reads(p), NEW s \in States
    PROVE  /\ Reads(Go(p, s)) /\ Go(p, s).state = s
           /\ s # "Escape" => Kept(Go(p, s))
<1>1. Go(p, s) \in Parsers
    BY DEF Reads, Sound, Parsers, Go
<1>. DEFINE q == Go(p, s)
<1>2. /\ q.state = s /\ q.inter = p.inter /\ q.params = p.params /\ q.total = p.total
      /\ q.raw = p.raw /\ q.ends = p.ends /\ q.lead = p.lead
    BY DEF Reads, Sound, Parsers, Go
<1>. HIDE DEF q
<1>3. Reads(q)
    BY <1>1, <1>2 DEF Reads, Sound, NoLead, q
<1>. QED
    BY <1>2, <1>3 DEF Reads, Kept, NoLead, q

\* A parser that reads, and is not at an ESC, is as it should be.
LEMMA ReadsKept ==
    ASSUME NEW p, Reads(p), p.state # "Escape"
    PROVE  Kept(p)
BY DEF Reads, Kept, NoLead

\* In the states of a sequence nothing is left over.
LEMMA KeptReads ==
    ASSUME NEW p, Kept(p), p.state \notin {"Ground", "OscString"}
    PROVE  Reads(p)
<1>1. p.lead \in [need : 0..2, c1 : BOOLEAN]
    BY DEF Kept, Sound, Parsers
<1>2. p.lead.need = 0 /\ p.lead.c1 = FALSE
    BY <1>1 DEF Kept, Sound
<1>3. p.lead = NoLead
    BY <1>1, <1>2 DEF NoLead
<1>. QED
    BY <1>3 DEF Kept, Reads

\* Collecting a byte.
LEMMA CollectReads ==
    ASSUME NEW p, Reads(p), NEW b \in AllBytes
    PROVE  Reads(Collect(p, b)) /\ Collect(p, b).state = p.state
<1>1. CASE Len(p.inter) < MaxIntermediates
    <2>1. Append(p.inter, b) \in Seq(AllBytes) /\ Len(Append(p.inter, b)) = Len(p.inter) + 1
        BY DEF Reads, Sound, Parsers
    <2>2. Collect(p, b) = [p EXCEPT !.inter = Append(p.inter, b)]
        BY <1>1 DEF Collect
    <2>3. Collect(p, b) \in Parsers
        BY <2>1, <2>2 DEF Reads, Sound, Parsers
    <2>4. Len(Append(p.inter, b)) <= MaxIntermediates
        BY <1>1, <2>1, ParserAssumption DEF Reads, Sound, Parsers, ParserAssumption
    <2>. QED
        BY <2>2, <2>3, <2>4 DEF Reads, Sound, Parsers
<1>2. CASE ~(Len(p.inter) < MaxIntermediates)
    <2>1. Collect(p, b) = [p EXCEPT !.ignoring = TRUE]
        BY <1>2 DEF Collect, Ignore
    <2>2. Collect(p, b) \in Parsers
        BY <2>1 DEF Reads, Sound, Parsers
    <2>. QED
        BY <2>1, <2>2 DEF Reads, Sound, Parsers
<1>. QED
    BY <1>1, <1>2

\* Forgetting a sequence.
LEMMA ResetReads ==
    ASSUME NEW p, Reads(p)
    PROVE  /\ Reads(ResetParams(p)) /\ ResetParams(p).state = p.state
           /\ Kept(ToEscape(p)) /\ Reads(ToEscape(p)) /\ ToEscape(p).state = "Escape"
<1>. DEFINE q == ResetParams(p)
<1>1. <<>> \in Seq(AllBytes) /\ <<>> \in Seq(Seq(0..MaxParam) \ {<<>>}) /\ Len(<<>>) = 0
    OBVIOUS
<1>2. MaxIntermediates \in Nat /\ 0 \in 0..MaxParam /\ 0 \in 0..MaxParams
    BY ParserAssumption DEF ParserAssumption
<1>3. q \in Parsers
    <2>1. p \in Parsers
        BY DEF Reads, Sound
    <2>2. [p EXCEPT !.inter = <<>>, !.params = <<>>] \in Parsers
        BY <1>1, <2>1 DEF Parsers
    <2>. DEFINE r == [p EXCEPT !.inter = <<>>, !.params = <<>>]
    <2>3. q = [r EXCEPT !.ignoring = FALSE, !.param = 0, !.total = 0]
        BY <2>1 DEF Parsers, ResetParams
    <2>. HIDE DEF q, r
    <2>4. [r EXCEPT !.ignoring = FALSE, !.param = 0, !.total = 0] \in Parsers
        BY <1>2, <2>2 DEF Parsers, r
    <2>. QED
        BY <2>3, <2>4
<1>4. /\ q.inter = <<>> /\ q.params = <<>> /\ q.total = 0
      /\ q.param = 0 /\ q.ignoring = FALSE
      /\ q.state = p.state /\ q.raw = p.raw /\ q.ends = p.ends /\ q.lead = p.lead
    BY DEF Reads, Sound, Parsers, ResetParams
<1>. HIDE DEF q
<1>5. Reads(q) /\ q.state = p.state
    BY <1>1, <1>2, <1>3, <1>4 DEF Reads, Sound
<1>6. Reads(ToEscape(p)) /\ ToEscape(p).state = "Escape"
    BY <1>5, GoReads DEF ToEscape, States, q
<1>7. Kept(ToEscape(p))
    BY <1>4, <1>5, <1>6 DEF q, ToEscape, Go, Reads, Sound, Parsers, Kept, NoLead
<1>. QED
    BY <1>5, <1>6, <1>7 DEF q

\* Ignoring the sequence.
LEMMA IgnoreReads ==
    ASSUME NEW p, Reads(p)
    PROVE  Reads(Ignore(p)) /\ Ignore(p).state = p.state
<1>1. Ignore(p) \in Parsers
    BY DEF Reads, Sound, Parsers, Ignore
<1>. QED
    BY <1>1 DEF Reads, Sound, Parsers, Ignore

\* Adding the number that has been read, to the list or to its last group.
LEMMA AddReads ==
    ASSUME NEW p, Reads(p), ~Full(p), NEW q \in {Pushed(p), Extended(p)}
    PROVE  Reads(q) /\ q.state = p.state
<1>. DEFINE Groups == Seq(0..MaxParam) \ {<<>>}
<1>1. p.params \in Seq(Groups) /\ p.param \in 0..MaxParam /\ p.total \in 0..MaxParams
    BY DEF Reads, Sound, Parsers
<1>2. p.total + 1 \in 0..MaxParams /\ p.total + 1 # 0
    BY <1>1, ParserAssumption DEF Full, ParserAssumption
<1>3. ASSUME NEW params \in Seq(Groups), params # <<>>,
             q = [p EXCEPT !.params = params, !.total = p.total + 1]
      PROVE  Reads(q) /\ q.state = p.state
    <2>1. q \in Parsers
        BY <1>2, <1>3 DEF Reads, Sound, Parsers
    <2>. QED
        BY <1>2, <1>3, <2>1 DEF Reads, Sound, Parsers
<1>4. CASE q = Pushed(p)
    <2>1. <<p.param>> \in Groups
        BY <1>1
    <2>2. Append(p.params, <<p.param>>) \in Seq(Groups) \ {<<>>}
        BY <1>1, <2>1
    <2>. QED
        BY <1>3, <1>4, <2>2 DEF Pushed
<1>5. CASE q = Extended(p) /\ p.params = <<>>
    BY <1>4, <1>5 DEF Extended
<1>6. CASE q = Extended(p) /\ p.params # <<>>
    <2>. DEFINE last == Len(p.params)
                group == Append(p.params[last], p.param)
                params == [p.params EXCEPT ![last] = group]
    <2>1. last \in 1..Len(p.params) /\ p.params[last] \in Groups
        BY <1>1, <1>6
    <2>2. group \in Groups
        <3>1. p.params[last] \in Seq(0..MaxParam)
            BY <2>1
        <3>. QED
            BY <1>1, <3>1, AppendNonEmpty
    <2>3. params \in Seq(Groups) /\ Len(params) = Len(p.params)
        BY <1>1, <2>1, <2>2, ExceptSeq
    <2>4. params # <<>>
        BY <2>1, <2>3
    <2>5. q = [p EXCEPT !.params = params, !.total = p.total + 1]
        BY <1>6, <1>1 DEF Extended
    <2>. HIDE DEF params
    <2>. QED
        BY <1>3, <2>3, <2>4, <2>5
<1>. QED
    BY <1>4, <1>5, <1>6

\* The end of a parameter, of a sub-parameter and of a list of either.
LEMMA ParamReads ==
    ASSUME NEW p, Reads(p)
    PROVE  /\ Reads(Param(p)) /\ Param(p).state = p.state
           /\ Reads(Subparam(p)) /\ Subparam(p).state = p.state
<1>0. 0 \in 0..MaxParam
    BY ParserAssumption DEF ParserAssumption
<1>1. ASSUME NEW q, Reads(q), q.state = p.state, NEW n \in 0..MaxParam, NEW s \in BOOLEAN
      PROVE  LET t == [q EXCEPT !.param = n, !.sub = s] IN Reads(t) /\ t.state = p.state
    <2>. DEFINE t == [q EXCEPT !.param = n, !.sub = s]
    <2>1. t \in Parsers
        BY <1>1 DEF Reads, Sound, Parsers
    <2>. QED
        BY <1>1, <2>1 DEF Reads, Sound, Parsers
<1>1a. ASSUME NEW q, Reads(q), q.state = p.state
       PROVE  Reads([q EXCEPT !.sub = TRUE]) /\ [q EXCEPT !.sub = TRUE].state = p.state
    <2>1. [q EXCEPT !.sub = TRUE] \in Parsers
        BY <1>1a DEF Reads, Sound, Parsers
    <2>. QED
        BY <1>1a, <2>1 DEF Reads, Sound, Parsers
<1>2. Reads(Ignore(p)) /\ Ignore(p).state = p.state
    BY IgnoreReads
<1>3. Reads(Added(p)) /\ Added(p).state = p.state
    BY <1>2, AddReads DEF Added
<1>4. Reads(Param(p)) /\ Param(p).state = p.state
    BY <1>0, <1>1, <1>3 DEF Param
<1>5. Reads(Subparam(p)) /\ Subparam(p).state = p.state
    <2>1. CASE Full(p)
        <3>1. Subparam(p) = [Ignore(p) EXCEPT !.sub = TRUE]
            BY <2>1 DEF Subparam
        <3>. QED
            BY <1>1a, <1>2, <3>1
    <2>2. CASE ~Full(p)
        <3>1. Reads(Extended(p)) /\ Extended(p).state = p.state
            BY <2>2, AddReads
        <3>. DEFINE q == [Extended(p) EXCEPT !.param = 0]
        <3>2. q \in Parsers
            BY <1>0, <3>1 DEF Reads, Sound, Parsers
        <3>3. Reads(q) /\ q.state = p.state
            BY <1>0, <3>1, <3>2 DEF Reads, Sound, Parsers
        <3>4. Subparam(p) = [q EXCEPT !.sub = TRUE]
            BY <2>2 DEF Subparam
        <3>. HIDE DEF q
        <3>. QED
            BY <1>1a, <3>3, <3>4
    <2>. QED
        BY <2>1, <2>2
<1>. QED
    BY <1>4, <1>5

\* A digit; the number saturates.
LEMMA DigitReads ==
    ASSUME NEW p, Reads(p), NEW b
    PROVE  Reads(ParamNext(p, b)) /\ ParamNext(p, b).state = p.state
<1>1. p.param \in 0..MaxParam /\ MaxParam \in Nat /\ Value(b) \in {1, 9}
    BY ParserAssumption DEF Reads, Sound, Parsers, ParserAssumption, Value
<1>. DEFINE n == Lesser(Lesser(p.param * 10, MaxParam) + Value(b), MaxParam)
<1>2. n \in 0..MaxParam
    BY <1>1 DEF Lesser
<1>3. ParamNext(p, b) = [p EXCEPT !.param = n]
    BY DEF ParamNext
<1>. HIDE DEF n
<1>4. ParamNext(p, b) \in Parsers
    BY <1>2, <1>3 DEF Reads, Sound, Parsers
<1>. QED
    BY <1>3, <1>4 DEF Reads, Sound, Parsers

-----------------------------------------------------------------------------
(* What a handler may do: going on in silence, or saying something that    *)
(* leaves the bracket as the new state wants it.                           *)

\* What two messages do to the bracket, one after the other.
LEMMA TurnsAre ==
    /\ \A now : Turns(<<>>, now) = now
    /\ \A m, now : Turns(<<m>>, now) = Turn(m[1], now)
    /\ \A m, n, now : Turns(<<m>> \o <<n>>, now) = Turn(n[1], Turn(m[1], now))
    /\ \A m : <<m>> \o <<>> = <<m>>
<1>1. ASSUME NEW m, NEW n
      PROVE  LET out == <<m>> \o <<n>> IN Len(out) = 2 /\ out[1] = m /\ out[2] = n /\ out # <<>>
    <2>1. <<m>> \in Seq({m, n}) /\ <<n>> \in Seq({m, n})
        OBVIOUS
    <2>2. Len(<<m>>) = 1 /\ Len(<<n>>) = 1 /\ <<m>>[1] = m /\ <<n>>[1] = n /\ Len(<<>>) = 0
        OBVIOUS
    <2>. QED
        BY <2>1, <2>2, ConcatProperties
<1>2. ASSUME NEW m
      PROVE  <<m>> \o <<>> = <<m>> /\ Len(<<m>>) = 1 /\ <<m>>[1] = m /\ <<m>> # <<>>
    <2>1. <<m>> \in Seq({m})
        OBVIOUS
    <2>. QED
        BY <2>1, ConcatEmptySeq
<1>3. \A now : Turns(<<>>, now) = now
    BY DEF Turns
<1>4. \A m, now : Turns(<<m>>, now) = Turn(m[1], now)
    BY <1>2 DEF Turns
<1>5. \A m, n, now : Turns(<<m>> \o <<n>>, now) = Turn(n[1], Turn(m[1], now))
    BY <1>1 DEF Turns
<1>. QED
    BY <1>2, <1>3, <1>4, <1>5

\* In silence, between states on the same side of the bracket.
LEMMA QuietRight ==
    ASSUME NEW p, NEW q, Kept(q), Now(q) = Now(p)
    PROVE  Right(p, Quiet(q))
BY TurnsAre DEF Right, Quiet

Plain == {"execute", "print", "csi", "esc", "osc"}

\* Saying something that has no bracket, outside of one.
LEMMA SayRight ==
    ASSUME NEW p, NEW q, Kept(q), Now(p) = "closed", Now(q) = "closed",
           NEW m, m[1] \in Plain
    PROVE  Right(p, Say(q, m))
<1>1. Turn(m[1], "closed") = "closed"
    BY DEF Turn, Plain
<1>. QED
    BY <1>1, TurnsAre DEF Right, Say

\* Executing a control.
LEMMA ExecuteRight ==
    ASSUME NEW p, NEW q, Kept(q), Now(p) = "closed", Now(q) = "closed", NEW b
    PROVE  Right(p, Execute(q, b))
<1>1. <<"execute", b>>[1] \in Plain
    BY DEF Plain
<1>. QED
    BY <1>1, SayRight DEF Execute

\* CAN and ESC end a sequence anywhere.
LEMMA AnywhereRight ==
    ASSUME NEW p, Reads(p), p.state \notin {"Escape", "DcsPassthrough"}, NEW b
    PROVE  Right(p, Anywhere(p, b))
<1>0. "Ground" \in States
    BY DEF States
<1>1. Kept(Go(p, "Ground")) /\ Now(Go(p, "Ground")) = "closed" /\ Now(p) = "closed"
    BY <1>0, GoReads DEF Now
<1>2. Kept(ToEscape(p)) /\ Now(ToEscape(p)) = "closed"
    BY ResetReads DEF Now
<1>3. Kept(p)
    BY ReadsKept
<1>. QED
    BY <1>1, <1>2, <1>3, ExecuteRight, QuietRight DEF Anywhere

\* The end of a control sequence and of an escape sequence.
LEMMA DispatchRight ==
    ASSUME NEW p, Reads(p), Now(p) = "closed", NEW b
    PROVE  Right(p, CsiDispatch(p, b)) /\ Right(p, EscDispatch(p, b))
<1>1. "Ground" \in States
    BY DEF States
<1>2. ASSUME NEW q, Reads(q), NEW m, m[1] \in Plain
      PROVE  Right(p, Say(Go(q, "Ground"), m))
    BY <1>1, <1>2, GoReads, SayRight DEF Now
<1>3. Reads(Param(p))
    BY ParamReads
<1>. DEFINE q == Param(p)
            csi == <<"csi", q.params, q.inter, q.ignoring, b>>
            esc == <<"esc", p.inter, p.ignoring, b>>
<1>4. csi[1] \in Plain /\ esc[1] \in Plain
    BY DEF Plain
<1>5. CsiDispatch(p, b) = Say(Go(q, "Ground"), csi) /\ EscDispatch(p, b) = Say(Go(p, "Ground"), esc)
    BY DEF CsiDispatch, EscDispatch
<1>. HIDE DEF q, csi, esc
<1>. QED
    BY <1>2, <1>3, <1>4, <1>5 DEF q

\* A device string begins.
LEMMA HookRight ==
    ASSUME NEW p, Reads(p), Now(p) = "closed", NEW b
    PROVE  Right(p, Hook(p, b))
<1>. DEFINE q == IF Full(p) THEN Ignore(p) ELSE Pushed(p)
            m == <<"hook", q.params, q.inter, q.ignoring, b>>
<1>1. "DcsPassthrough" \in States
    BY DEF States
<1>2. Reads(q)
    BY AddReads, IgnoreReads
<1>3. m[1] = "hook" /\ Hook(p, b) = Say(Go(q, "DcsPassthrough"), m)
    BY DEF Hook
<1>. HIDE DEF q, m
<1>4. Kept(Go(q, "DcsPassthrough")) /\ Now(Go(q, "DcsPassthrough")) = "open"
    BY <1>1, <1>2, GoReads DEF Now
<1>5. Turn("hook", "closed") = "open"
    BY DEF Turn
<1>. QED
    BY <1>3, <1>4, <1>5, TurnsAre DEF Right, Say

\* Going on in silence within a sequence that is not a device string.
LEMMA OnRight ==
    ASSUME NEW p, Reads(p), Now(p) = "closed", p.state # "Escape", NEW q, Reads(q)
    PROVE  /\ q.state = p.state => Right(p, Quiet(q))
           /\ \A s \in States \ {"Escape", "DcsPassthrough"} : Right(p, Quiet(Go(q, s)))
<1>1. ASSUME q.state = p.state
      PROVE  Right(p, Quiet(q))
    BY <1>1, ReadsKept, QuietRight DEF Now
<1>2. ASSUME NEW s \in States \ {"Escape", "DcsPassthrough"}
      PROVE  Right(p, Quiet(Go(q, s)))
    BY <1>2, GoReads, QuietRight DEF Now
<1>. QED
    BY <1>1, <1>2

\* The parts of a control or device sequence, each with the silence after it.
LEMMA PartsRight ==
    ASSUME NEW p, Reads(p), Now(p) = "closed", p.state # "Escape", NEW b \in AllBytes
    PROVE  /\ \A q \in {p, Collect(p, b), ParamNext(p, b), Param(p), Subparam(p)} :
                  /\ Right(p, Quiet(q))
                  /\ \A s \in States \ {"Escape", "DcsPassthrough"} : Right(p, Quiet(Go(q, s)))
           /\ Right(p, Execute(p, b)) /\ Right(p, Anywhere(p, b))
           /\ Right(p, CsiDispatch(p, b)) /\ Right(p, Hook(p, b))
<1>1. ASSUME NEW q \in {p, Collect(p, b), ParamNext(p, b), Param(p), Subparam(p)}
      PROVE  Reads(q) /\ q.state = p.state
    BY <1>1, CollectReads, DigitReads, ParamReads
<1>2. p.state # "DcsPassthrough"
    BY DEF Now
<1>. QED
    BY <1>1, <1>2, OnRight, ReadsKept, ExecuteRight, AnywhereRight, DispatchRight, HookRight

\* The states of a control sequence.
LEMMA CsiRight ==
    ASSUME NEW p, Kept(p), NEW b \in AllBytes
    PROVE  /\ p.state = "CsiEntry" => Right(p, CsiEntry(p, b))
           /\ p.state = "CsiIgnore" => Right(p, CsiIgnore(p, b))
           /\ p.state = "CsiIntermediate" => Right(p, CsiIntermediate(p, b))
           /\ p.state = "CsiParam" => Right(p, CsiParam(p, b))
<1>. SUFFICES ASSUME p.state \in {"CsiEntry", "CsiIgnore", "CsiIntermediate", "CsiParam"}
              PROVE  /\ Right(p, CsiEntry(p, b)) /\ Right(p, CsiIgnore(p, b))
                     /\ Right(p, CsiIntermediate(p, b)) /\ Right(p, CsiParam(p, b))
    OBVIOUS
<1>1. Reads(p) /\ Now(p) = "closed"
    BY KeptReads DEF Now
<1>2. {"CsiIntermediate", "CsiParam", "CsiIgnore", "Ground"} \subseteq States \ {"Escape", "DcsPassthrough"}
    BY DEF States
<1>3. Right(p, CsiEntry(p, b))
    BY <1>1, <1>2, PartsRight DEF CsiEntry
<1>4. Right(p, CsiIgnore(p, b))
    BY <1>1, <1>2, PartsRight DEF CsiIgnore
<1>5. Right(p, CsiIntermediate(p, b))
    BY <1>1, <1>2, PartsRight DEF CsiIntermediate
<1>6. Right(p, CsiParam(p, b))
    BY <1>1, <1>2, PartsRight DEF CsiParam
<1>. QED
    BY <1>3, <1>4, <1>5, <1>6

\* The states of a device sequence before its string.
LEMMA DcsRight ==
    ASSUME NEW p, Kept(p), NEW b \in AllBytes
    PROVE  /\ p.state = "DcsEntry" => Right(p, DcsEntry(p, b))
           /\ p.state = "DcsIntermediate" => Right(p, DcsIntermediate(p, b))
           /\ p.state = "DcsParam" => Right(p, DcsParam(p, b))
           /\ p.state \in {"DcsIgnore", "SosPmApcString"} => Right(p, Anywhere(p, b))
<1>. SUFFICES ASSUME p.state \in {"DcsEntry", "DcsIntermediate", "DcsParam",
                                  "DcsIgnore", "SosPmApcString"}
              PROVE  /\ Right(p, DcsEntry(p, b)) /\ Right(p, DcsIntermediate(p, b))
                     /\ Right(p, DcsParam(p, b)) /\ Right(p, Anywhere(p, b))
    OBVIOUS
<1>1. Reads(p) /\ Now(p) = "closed"
    BY KeptReads DEF Now
<1>2. {"DcsIntermediate", "DcsParam", "DcsIgnore"} \subseteq States \ {"Escape", "DcsPassthrough"}
    BY DEF States
<1>3. Right(p, DcsEntry(p, b))
    BY <1>1, <1>2, PartsRight DEF DcsEntry
<1>4. Right(p, DcsIntermediate(p, b))
    BY <1>1, <1>2, PartsRight DEF DcsIntermediate
<1>5. Right(p, DcsParam(p, b))
    BY <1>1, <1>2, PartsRight DEF DcsParam
<1>. QED
    BY <1>1, <1>3, <1>4, <1>5, PartsRight

\* The string of a device sequence.
LEMMA PassthroughRight ==
    ASSUME NEW p, Kept(p), p.state = "DcsPassthrough", NEW b
    PROVE  Right(p, DcsPassthrough(p, b))
<1>1. Reads(p) /\ Now(p) = "open"
    BY KeptReads DEF Now
<1>2. "Ground" \in States
    BY DEF States
<1>3. Kept(Go(p, "Ground")) /\ Now(Go(p, "Ground")) = "closed"
    BY <1>1, <1>2, GoReads DEF Now
<1>4. Kept(ToEscape(p)) /\ Now(ToEscape(p)) = "closed"
    BY <1>1, ResetReads DEF Now
<1>5. /\ Turn("unhook", "open") = "closed" /\ Turn("execute", "closed") = "closed"
      /\ Turn("put", "open") = "open"
    BY DEF Turn
<1>6. <<"unhook">>[1] = "unhook" /\ <<"execute", b>>[1] = "execute" /\ <<"put", b>>[1] = "put"
    OBVIOUS
<1>7. Right(p, Then(Say(p, <<"unhook">>), Execute(Go(p, "Ground"), b)))
    BY <1>1, <1>3, <1>5, <1>6, TurnsAre DEF Right, Then, Execute, Say
<1>8. Right(p, Say(ToEscape(p), <<"unhook">>)) /\ Right(p, Say(Go(p, "Ground"), <<"unhook">>))
    BY <1>1, <1>3, <1>4, <1>5, <1>6, TurnsAre DEF Right, Say
<1>9. Right(p, Quiet(p)) /\ Right(p, Say(p, <<"put", b>>))
    BY <1>1, <1>5, <1>6, TurnsAre DEF Right, Say, Quiet
<1>. QED
    BY <1>7, <1>8, <1>9 DEF DcsPassthrough

\* After an ESC.
LEMMA EscapeRight ==
    ASSUME NEW p, Kept(p), NEW b \in AllBytes
    PROVE  /\ p.state = "Escape" => Right(p, Escape(p, b))
           /\ p.state = "EscapeIntermediate" => Right(p, EscapeIntermediate(p, b))
<1>. SUFFICES ASSUME p.state \in {"Escape", "EscapeIntermediate"}
              PROVE  /\ p.state = "Escape" => Right(p, Escape(p, b))
                     /\ p.state = "EscapeIntermediate" => Right(p, EscapeIntermediate(p, b))
    OBVIOUS
<1>1. Reads(p) /\ Now(p) = "closed"
    BY KeptReads DEF Now
<1>2. {"EscapeIntermediate", "DcsEntry", "CsiEntry", "OscString", "SosPmApcString", "Ground"}
          \subseteq States
    BY DEF States
<1>3. ASSUME NEW q, Reads(q), NEW s \in States \ {"Escape", "DcsPassthrough"}
      PROVE  Right(p, Quiet(Go(q, s)))
    BY <1>1, <1>3, GoReads, QuietRight DEF Now
<1>4. Right(p, Quiet(p)) /\ Right(p, Execute(p, b)) /\ Right(p, EscDispatch(p, b))
    BY <1>1, QuietRight, ExecuteRight, DispatchRight
<1>5. p.state = "Escape" => Right(p, Escape(p, b))
    <2>1. [p EXCEPT !.raw = <<>>, !.ends = <<>>] = p
        BY <1>1 DEF Reads, Sound, Parsers
    <2>2. Right(p, Execute(Go(p, "Ground"), b))
        BY <1>1, <1>2, GoReads, ExecuteRight DEF Now
    <2>3. Reads(Collect(p, b)) /\ Reads(ResetParams(p))
        BY <1>1, CollectReads, ResetReads
    <2>. QED
        BY <1>1, <1>2, <1>3, <1>4, <2>1, <2>2, <2>3 DEF Escape
<1>6. p.state = "EscapeIntermediate" => Right(p, EscapeIntermediate(p, b))
    <2>1. ASSUME p.state = "EscapeIntermediate"
          PROVE  Right(p, Quiet(Collect(p, b))) /\ Right(p, Anywhere(p, b))
        BY <1>1, <2>1, PartsRight
    <2>. QED
        BY <1>4, <2>1 DEF EscapeIntermediate
<1>. QED
    BY <1>5, <1>6

\* The buffers of an operating-system string: what goes in, and its end.
LEMMA StringKept ==
    ASSUME NEW p, Kept(p), p.state = "OscString", NEW b \in AllBytes
    PROVE  /\ Kept(OscPut(p, b)) /\ OscPut(p, b).state = "OscString"
           /\ Kept(OscPutParam(p)) /\ OscPutParam(p).state = "OscString"
           /\ Reads(OscEnd(p, b).to) /\ OscEnd(p, b).to.state = "OscString"
<1>1. /\ p \in Parsers /\ p.lead = NoLead
      /\ p.raw \in Seq(AllBytes) /\ p.ends \in Seq(0..MaxOscRaw)
      /\ Len(p.raw) <= MaxOscRaw /\ Len(p.ends) <= MaxOscParams
    BY DEF Kept, Sound, Parsers, NoLead
<1>2. MaxOscRaw \in Nat /\ MaxOscParams \in Nat
    BY ParserAssumption DEF ParserAssumption
<1>3. ASSUME NEW q \in Parsers, q.state = p.state, q.inter = p.inter, q.params = p.params,
             q.total = p.total, q.lead = p.lead,
             Len(q.raw) <= MaxOscRaw, Len(q.ends) <= MaxOscParams,
             \A i \in DOMAIN q.ends : q.ends[i] <= Len(q.raw)
      PROVE  Kept(q) /\ q.state = "OscString"
    <2>1. Sound(q)
        BY <1>3 DEF Kept, Sound
    <2>. QED
        BY <1>1, <1>3, <2>1 DEF Kept, NoLead
<1>4. Kept(OscPut(p, b)) /\ OscPut(p, b).state = "OscString"
    <2>1. CASE Len(p.raw) < MaxOscRaw
        <3>. DEFINE raw == Append(p.raw, b)
        <3>1. raw \in Seq(AllBytes) /\ Len(raw) = Len(p.raw) + 1
            BY <1>1
        <3>. DEFINE q == [p EXCEPT !.raw = raw]
        <3>2. Len(p.raw) \in Nat /\ \A i \in DOMAIN p.ends : p.ends[i] \in Nat /\ p.ends[i] <= Len(p.raw)
            <4>1. \A i \in DOMAIN p.ends : p.ends[i] <= Len(p.raw)
                BY DEF Kept, Sound
            <4>2. \A i \in DOMAIN p.ends : p.ends[i] \in 0..MaxOscRaw
                BY <1>1, ElementOfSeq, LenProperties
            <4>. QED
                BY <1>1, <1>2, <4>1, <4>2
        <3>. HIDE DEF raw
        <3>3. \A i \in DOMAIN p.ends : p.ends[i] <= Len(raw)
            BY <3>1, <3>2
        <3>4. Len(raw) <= MaxOscRaw
            BY <1>2, <2>1, <3>1, <3>2
        <3>5. /\ q \in Parsers /\ q.state = p.state /\ q.inter = p.inter /\ q.params = p.params
              /\ q.total = p.total /\ q.raw = raw /\ q.ends = p.ends /\ q.lead = p.lead
            BY <1>1, <3>1 DEF Parsers
        <3>6. OscPut(p, b) = q
            BY <2>1 DEF OscPut, raw
        <3>. HIDE DEF q
        <3>. QED
            BY <1>1, <1>3, <3>3, <3>4, <3>5, <3>6
    <2>2. CASE ~(Len(p.raw) < MaxOscRaw)
        BY <2>2 DEF OscPut
    <2>. QED
        BY <2>1, <2>2
<1>5. Kept(OscPutParam(p)) /\ OscPutParam(p).state = "OscString"
    <2>1. CASE Len(p.ends) < MaxOscParams
        <3>. DEFINE ends == Append(p.ends, Len(p.raw))
        <3>1. Len(p.raw) \in 0..MaxOscRaw
            BY <1>1
        <3>2. /\ ends \in Seq(0..MaxOscRaw) /\ Len(ends) = Len(p.ends) + 1
              /\ \A i \in 1..Len(p.ends) : ends[i] = p.ends[i]
              /\ ends[Len(p.ends) + 1] = Len(p.raw)
            BY <1>1, <3>1, AppendProperties
        <3>3. \A i \in 1..Len(p.ends) : p.ends[i] <= Len(p.raw)
            BY <1>1 DEF Kept, Sound
        <3>4. \A i \in DOMAIN ends : ends[i] <= Len(p.raw)
            BY <1>1, <3>1, <3>2, <3>3
        <3>. DEFINE q == [p EXCEPT !.ends = ends]
        <3>5. OscPutParam(p) = q
            BY <2>1 DEF OscPutParam
        <3>. HIDE DEF ends
        <3>6. /\ q \in Parsers /\ q.state = p.state /\ q.inter = p.inter /\ q.params = p.params
              /\ q.total = p.total /\ q.raw = p.raw /\ q.ends = ends /\ q.lead = p.lead
            BY <1>1, <3>2 DEF Parsers
        <3>7. Len(ends) <= MaxOscParams
            BY <1>1, <1>2, <2>1, <3>2
        <3>. HIDE DEF q
        <3>. QED
            BY <1>1, <1>3, <3>4, <3>5, <3>6, <3>7
    <2>2. CASE ~(Len(p.ends) < MaxOscParams)
        BY <2>2 DEF OscPutParam
    <2>. QED
        BY <2>1, <2>2
<1>6. Reads(OscEnd(p, b).to) /\ OscEnd(p, b).to.state = "OscString"
    <2>. DEFINE q == OscPutParam(p)
                t == [q EXCEPT !.raw = <<>>, !.ends = <<>>]
    <2>1. q \in Parsers /\ q.state = "OscString" /\ q.lead = NoLead
        <3>1. q \in Parsers /\ q.state = "OscString"
            BY <1>5 DEF Kept, Sound
        <3>2. q.lead = p.lead
            BY <1>1 DEF OscPutParam, Parsers
        <3>. QED
            BY <1>1, <3>1, <3>2
    <2>2. <<>> \in Seq(AllBytes) /\ <<>> \in Seq(0..MaxOscRaw) /\ Len(<<>>) = 0
        OBVIOUS
    <2>3. Kept(q)
        BY <1>5
    <2>4. OscEnd(p, b).to = t
        BY DEF OscEnd, Say
    <2>. HIDE DEF q
    <2>5. t \in Parsers
        BY <2>1, <2>2 DEF Parsers
    <2>6. /\ t.state = "OscString" /\ t.inter = q.inter /\ t.params = q.params
          /\ t.total = q.total /\ t.raw = <<>> /\ t.ends = <<>> /\ t.lead = NoLead
        BY <2>1 DEF Parsers
    <2>. HIDE DEF t
    <2>7. Reads(t)
        BY <1>2, <2>2, <2>3, <2>5, <2>6 DEF Kept, Sound, Reads, NoLead
    <2>. QED
        BY <2>4, <2>6, <2>7
<1>. QED
    BY <1>4, <1>5, <1>6

\* A string of the operating system.
LEMMA StringRight ==
    ASSUME NEW p, Kept(p), p.state = "OscString", NEW b \in AllBytes
    PROVE  Right(p, OscString(p, b))
<1>. DEFINE ended == OscEnd(p, b)
            q == ended.to
            m == <<"osc", Slices(OscPutParam(p).raw, OscPutParam(p).ends), b = "BEL">>
<1>1. Reads(q) /\ q.state = "OscString"
    BY StringKept
<1>2. "Ground" \in States
    BY DEF States
<1>3. ended = Say(q, m) /\ m[1] = "osc" /\ <<"execute", b>>[1] = "execute"
    BY DEF OscEnd, Say
<1>4. Kept(Go(q, "Ground")) /\ Now(Go(q, "Ground")) = "closed" /\ Now(p) = "closed"
    BY <1>1, <1>2, GoReads DEF Now
<1>5. Kept(ToEscape(q)) /\ Now(ToEscape(q)) = "closed"
    BY <1>1, ResetReads DEF Now
<1>6. Turn("osc", "closed") = "closed" /\ Turn("execute", "closed") = "closed"
    BY DEF Turn
<1>. HIDE DEF q, m
<1>7. Right(p, Say(Go(q, "Ground"), m)) /\ Right(p, Say(ToEscape(q), m))
    BY <1>3, <1>4, <1>5, <1>6, TurnsAre DEF Right, Say
<1>8. /\ [ended EXCEPT !.to.state = "Ground"] = Say(Go(q, "Ground"), m)
      /\ [ended EXCEPT !.to = ToEscape(@)] = Say(ToEscape(q), m)
    BY <1>3 DEF Say, Go
<1>9. Right(p, Then(ended, Execute(Go(ended.to, "Ground"), b)))
    BY <1>3, <1>4, <1>6, TurnsAre DEF Right, Say, Then, Execute, q
<1>10. Right(p, Quiet(OscPutParam(p))) /\ Right(p, Quiet(p)) /\ Right(p, Quiet(OscPut(p, b)))
    BY StringKept, QuietRight DEF Now
<1>. HIDE DEF ended
<1>. QED
    BY <1>7, <1>8, <1>9, <1>10 DEF OscString, ended

\* A parser of the ground state whose character goes on, or is over.
LEMMA LeadKept ==
    ASSUME NEW p, Kept(p), p.state = "Ground",
           NEW lead \in [need : 0..2, c1 : BOOLEAN],
           lead.need = 0 => lead.c1 = FALSE, lead.c1 => "C2" \in Bytes
    PROVE  /\ Kept([p EXCEPT !.lead = lead])
           /\ [p EXCEPT !.lead = lead].state = "Ground"
           /\ [p EXCEPT !.lead = lead].lead = lead
<1>. DEFINE q == [p EXCEPT !.lead = lead]
<1>1. q \in Parsers
    BY DEF Kept, Sound, Parsers
<1>2. /\ q.state = "Ground" /\ q.inter = p.inter /\ q.params = p.params /\ q.total = p.total
      /\ q.raw = p.raw /\ q.ends = p.ends /\ q.lead = lead
    BY DEF Kept, Sound, Parsers
<1>. HIDE DEF q
<1>3. Sound(q)
    BY <1>1, <1>2 DEF Kept, Sound
<1>4. Kept(q)
    BY <1>2, <1>3 DEF Kept
<1>. QED
    BY <1>2, <1>4 DEF q

\* A byte that continues nothing says one thing at most.
LEMMA FirstSays ==
    ASSUME NEW p, Kept(p), p.state = "Ground", p.lead = NoLead, NEW b \in Bytes
    PROVE  LET r == GroundFirst(p, b)
           IN  /\ Kept(r.to) /\ Now(r.to) = "closed"
               /\ r.out = <<>> \/ \E m : r.out = <<m>> /\ m[1] \in Plain
<1>1. CASE b = "ESC"
    <2>1. Reads(p)
        BY DEF Kept, Reads
    <2>2. GroundFirst(p, b) = Quiet(ToEscape(p))
        BY <1>1 DEF GroundFirst, Leads, Controls, Continuation
    <2>. QED
        BY <2>1, <2>2, ResetReads DEF Now, Quiet
<1>2. CASE b \in Leads
    <2>. DEFINE lead == [need |-> IF b = "E2" THEN 2 ELSE 1, c1 |-> b = "C2"]
    <2>1. b # "ESC" /\ GroundFirst(p, b) = Quiet([p EXCEPT !.lead = lead])
        BY <1>2 DEF GroundFirst, Leads, Controls, Continuation
    <2>2. lead.need = (IF b = "E2" THEN 2 ELSE 1) /\ lead.c1 = (b = "C2")
        OBVIOUS
    <2>3. lead \in [need : 0..2, c1 : BOOLEAN]
        OBVIOUS
    <2>4. lead.need # 0
        BY <2>2
    <2>5. lead.c1 => "C2" \in Bytes
        BY <2>2
    <2>. DEFINE q == [p EXCEPT !.lead = lead]
    <2>. HIDE DEF lead
    <2>6. Kept(q) /\ q.state = "Ground"
        BY <2>3, <2>4, <2>5, LeadKept
    <2>. HIDE DEF q
    <2>7. GroundFirst(p, b).to = q /\ GroundFirst(p, b).out = <<>>
        BY <2>1 DEF Quiet, q
    <2>. QED
        BY <2>6, <2>7 DEF Now
<1>3. CASE b \in Controls \cup {"CAN", Continuation}
    <2>1. GroundFirst(p, b) = Say(p, <<"execute", b>>)
        BY <1>3 DEF GroundFirst, Execute, Controls, Continuation, Leads
    <2>2. <<"execute", b>>[1] \in Plain
        BY DEF Plain
    <2>. QED
        BY <2>1, <2>2 DEF Now, Say
<1>4. CASE b \notin {"ESC"} \cup Leads \cup Controls \cup {"CAN", Continuation}
    <2>1. GroundFirst(p, b) = Say(p, <<"print", b>>)
        BY <1>4 DEF GroundFirst
    <2>2. <<"print", b>>[1] \in Plain
        BY DEF Plain
    <2>. QED
        BY <2>1, <2>2 DEF Now, Say
<1>. QED
    BY <1>1, <1>2, <1>3, <1>4

\* The ground state, where a character may be under way.
LEMMA GroundRight ==
    ASSUME NEW p, Kept(p), p.state = "Ground", NEW b \in Bytes
    PROVE  Right(p, Ground(p, b))
<1>. DEFINE none == [p EXCEPT !.lead = Fresh.lead]
            broken == <<"print", "FFFD">>
<1>0. p.lead \in [need : 0..2, c1 : BOOLEAN]
    BY DEF Kept, Sound, Parsers
<1>1. Kept(none) /\ none.state = "Ground" /\ none.lead = NoLead /\ Now(none) = "closed"
    <2>1. /\ Fresh.lead = NoLead /\ NoLead \in [need : 0..2, c1 : BOOLEAN]
          /\ NoLead.c1 = FALSE /\ ~NoLead.c1
        BY DEF Fresh, NoLead
    <2>. DEFINE lead == Fresh.lead
    <2>. HIDE DEF lead
    <2>2. lead \in [need : 0..2, c1 : BOOLEAN] /\ lead.c1 = FALSE /\ ~lead.c1
        BY <2>1 DEF lead
    <2>3. Kept([p EXCEPT !.lead = lead]) /\ [p EXCEPT !.lead = lead].state = "Ground"
          /\ [p EXCEPT !.lead = lead].lead = lead
        BY <2>2, LeadKept
    <2>4. Kept(none) /\ none.state = "Ground" /\ none.lead = NoLead
        BY <2>1, <2>3 DEF lead
    <2>. QED
        BY <2>4 DEF Now
<1>2. Now(p) = "closed" /\ \A x \in Plain : Turn(x, "closed") = "closed"
    BY DEF Now, Plain, Turn
<1>3. CASE p.lead.need = 0
    <2>1. p.lead = NoLead
        BY <1>0, <1>3 DEF Kept, NoLead
    <2>2. Ground(p, b) = GroundFirst(p, b)
        BY <1>3 DEF Ground
    <2>. DEFINE r == GroundFirst(p, b)
    <2>3. /\ Kept(r.to) /\ Now(r.to) = "closed"
          /\ r.out = <<>> \/ \E m : r.out = <<m>> /\ m[1] \in Plain
        BY <2>1, FirstSays
    <2>. HIDE DEF r
    <2>4. Turns(r.out, "closed") = "closed"
        <3>1. CASE r.out = <<>>
            BY <3>1, TurnsAre
        <3>2. ASSUME NEW m, r.out = <<m>>, m[1] \in Plain
              PROVE  Turns(r.out, "closed") = "closed"
            BY <1>2, <3>2, TurnsAre
        <3>. QED
            BY <2>3, <3>1, <3>2
    <2>. QED
        BY <1>2, <2>2, <2>3, <2>4 DEF Right, r
<1>4. CASE p.lead.need # 0 /\ b # Continuation
    <2>. DEFINE r == GroundFirst(none, b)
    <2>1. Ground(p, b) = Then(Say(none, broken), r)
        BY <1>4 DEF Ground
    <2>2. /\ Kept(r.to) /\ Now(r.to) = "closed"
          /\ r.out = <<>> \/ \E m : r.out = <<m>> /\ m[1] \in Plain
        BY <1>1, FirstSays
    <2>3. broken[1] \in Plain
        BY DEF Plain
    <2>4. Ground(p, b).to = r.to /\ Ground(p, b).out = <<broken>> \o r.out
        BY <2>1 DEF Then, Say
    <2>. HIDE DEF r, broken
    <2>5. Turns(<<broken>> \o r.out, "closed") = "closed"
        <3>1. CASE r.out = <<>>
            <4>1. <<broken>> \o r.out = <<broken>>
                BY <3>1, TurnsAre
            <4>2. Turns(<<broken>>, "closed") = Turn(broken[1], "closed")
                BY TurnsAre
            <4>. QED
                BY <1>2, <2>3, <4>1, <4>2
        <3>2. ASSUME NEW m, r.out = <<m>>, m[1] \in Plain
              PROVE  Turns(<<broken>> \o r.out, "closed") = "closed"
            <4>1. Turns(<<broken>> \o <<m>>, "closed") = Turn(m[1], Turn(broken[1], "closed"))
                BY TurnsAre
            <4>. QED
                BY <1>2, <2>3, <3>2, <4>1
        <3>. QED
            BY <2>2, <3>1, <3>2
    <2>. QED
        BY <1>2, <2>2, <2>4, <2>5 DEF Right
<1>5. CASE p.lead.need = 2 /\ b = Continuation
    <2>. DEFINE lead == [need |-> 1, c1 |-> p.lead.c1]
    <2>1. lead \in [need : 0..2, c1 : BOOLEAN] /\ lead.need # 0 /\ (lead.c1 => "C2" \in Bytes)
        BY <1>0 DEF Kept
    <2>2. Ground(p, b) = Quiet([p EXCEPT !.lead.need = 1])
        BY <1>5 DEF Ground
    <2>3. [p.lead EXCEPT !.need = 1] = lead
        BY <1>0
    <2>4. Ground(p, b) = Quiet([p EXCEPT !.lead = lead])
        BY <2>2, <2>3
    <2>. DEFINE q == [p EXCEPT !.lead = lead]
    <2>. HIDE DEF lead
    <2>5. Kept(q) /\ q.state = "Ground"
        BY <2>1, LeadKept
    <2>. HIDE DEF q
    <2>. QED
        BY <1>2, <2>4, <2>5, QuietRight DEF Now, q
<1>6. CASE p.lead.need \notin {0, 2} /\ b = Continuation
    <2>1. Ground(p, b) = Execute(none, b) \/ Ground(p, b) = Say(none, <<"print", "char">>)
        BY <1>6 DEF Ground
    <2>2. <<"print", "char">>[1] \in Plain
        BY DEF Plain
    <2>. QED
        BY <1>1, <1>2, <2>1, <2>2, ExecuteRight, SayRight
<1>. QED
    BY <1>3, <1>4, <1>5, <1>6

\* Whatever the state, a byte leaves the parser and the bracket in order.
LEMMA AdvanceRight ==
    ASSUME NEW p, Kept(p), NEW b \in Bytes
    PROVE  Right(p, Advance(p, b))
<1>1. b \in AllBytes
    BY ParserAssumption DEF ParserAssumption
<1>2. p.state \in States
    BY DEF Kept, Sound, Parsers
<1>. QED
    BY <1>1, <1>2, GroundRight, CsiRight, DcsRight, PassthroughRight, EscapeRight, StringRight
       DEF Advance, States

-----------------------------------------------------------------------------
(* Every step keeps the parser, and the bracket while the parser is kept   *)
(* over the chunks.                                                        *)

\* A new parser.
LEMMA FreshKept == Kept(Fresh) /\ Now(Fresh) = "closed" /\ Fresh.state = "Ground"
<1>1. /\ <<>> \in Seq(AllBytes) /\ <<>> \in Seq(Seq(0..MaxParam) \ {<<>>})
      /\ <<>> \in Seq(0..MaxOscRaw) /\ Len(<<>>) = 0
    OBVIOUS
<1>2. /\ 0 \in 0..MaxParam /\ 0 \in 0..MaxParams
      /\ MaxIntermediates \in Nat /\ MaxOscRaw \in Nat /\ MaxOscParams \in Nat
    BY ParserAssumption DEF ParserAssumption
<1>3. Fresh \in Parsers
    BY <1>1, <1>2 DEF Fresh, Parsers, States
<1>. QED
    BY <1>1, <1>2, <1>3 DEF Fresh, Kept, Sound, Now

\* The end of a chunk forgets at most that a character is a control.
LEMMA ChunkKept ==
    ASSUME NEW p, Kept(p)
    PROVE  LET q == [p EXCEPT !.lead.c1 = FALSE]
           IN  Kept(q) /\ q.state = p.state /\ (p.lead.c1 = FALSE => q = p)
<1>. DEFINE lead == [p.lead EXCEPT !.c1 = FALSE]
            q == [p EXCEPT !.lead = lead]
<1>1. p \in Parsers /\ p.lead \in [need : 0..2, c1 : BOOLEAN]
    BY DEF Kept, Sound, Parsers
<1>2. [p EXCEPT !.lead.c1 = FALSE] = q
    OBVIOUS
<1>3. p.lead.c1 = FALSE => q = p
    <2>1. p.lead.c1 = FALSE => lead = p.lead
        BY <1>1
    <2>2. [p EXCEPT !.lead = p.lead] = p
        BY <1>1 DEF Parsers
    <2>. QED
        BY <2>1, <2>2
<1>4. Kept(q) /\ q.state = p.state
    <2>1. CASE p.state = "Ground"
        <3>1. lead \in [need : 0..2, c1 : BOOLEAN] /\ lead.c1 = FALSE /\ ~lead.c1
            BY <1>1
        <3>. HIDE DEF lead
        <3>. QED
            BY <2>1, <3>1, LeadKept
    <2>2. CASE p.state # "Ground"
        <3>1. p.lead.need = 0
            BY <1>1, <2>2 DEF Kept, Sound
        <3>. QED
            BY <1>3, <3>1 DEF Kept
    <2>. QED
        BY <2>1, <2>2
<1>. QED
    BY <1>2, <1>3, <1>4

\* Whatever a chunk meets, its parser is sound.
THEOREM TypeCorrect == Spec => []TypeOK
<1>. DEFINE Inv == Kept(parser) /\ place \in Places
<1>1. Init => Inv
    BY FreshKept DEF Init, Places
<1>2. Inv /\ [Next]_vars => Inv'
    <2>. SUFFICES ASSUME Inv, [Next]_vars
                  PROVE  Kept(parser') /\ place' \in Places
        OBVIOUS
    <2>1. ASSUME NEW b \in Bytes, Byte(b)
          PROVE  Kept(parser') /\ place' \in Places
        <3>1. Kept(parser')
            BY <2>1, AdvanceRight DEF Byte, Right
        <3>2. \A lead : PlaceOf(b, lead) \in Places
            BY DEF PlaceOf, Places
        <3>. QED
            BY <2>1, <3>1, <3>2 DEF Byte
    <2>2. CASE ChunkEnd
        BY <2>2, FreshKept, ChunkKept DEF ChunkEnd, Places
    <2>3. CASE Swallow
        BY <2>3 DEF Swallow, Places
    <2>4. CASE UNCHANGED vars
        BY <2>4 DEF vars
    <2>. QED
        BY <2>1, <2>2, <2>3, <2>4 DEF Next
<1>3. Inv => TypeOK
    BY DEF Kept, TypeOK
<1>. QED
    BY <1>1, <1>2, <1>3, PTL DEF Spec

\* A hook is closed before anything else is said, however its sequence ends,
\* when one parser is kept over the chunks.
THEOREM HooksClosed ==
    ASSUME FreshPerChunk = FALSE
    PROVE  Spec => []HooksAreClosed
<1>. DEFINE Inv == Kept(parser) /\ bracket = Now(parser)
<1>1. Init => Inv
    BY FreshKept DEF Init
<1>2. Inv /\ [Next]_vars => Inv'
    <2>. SUFFICES ASSUME Inv, [Next]_vars
                  PROVE  Kept(parser') /\ bracket' = Now(parser')
        OBVIOUS
    <2>1. ASSUME NEW b \in Bytes, Byte(b)
          PROVE  Kept(parser') /\ bracket' = Now(parser')
        BY <2>1, AdvanceRight DEF Byte, Right
    <2>2. CASE ChunkEnd
        <3>1. parser' = [parser EXCEPT !.lead.c1 = FALSE] /\ bracket' = bracket
            BY <2>2 DEF ChunkEnd
        <3>2. Kept(parser') /\ parser'.state = parser.state
            BY <3>1, ChunkKept
        <3>. QED
            BY <3>1, <3>2 DEF Now
    <2>3. CASE Swallow
        BY <2>3 DEF Swallow
    <2>4. CASE UNCHANGED vars
        BY <2>4 DEF vars
    <2>. QED
        BY <2>1, <2>2, <2>3, <2>4 DEF Next
<1>3. Inv /\ TypeOK => HooksAreClosed
    BY DEF HooksAreClosed, Now
<1>. QED
    BY <1>1, <1>2, <1>3, TypeCorrect, PTL DEF Spec

-----------------------------------------------------------------------------
(* Two parsers that are alike say the same and stay alike.                 *)

\* Going to another state.
LEMMA GoAlike ==
    ASSUME NEW p, NEW q, Alike(p, q), NEW s \in States,
           p.state \in Reading \/ p.params = <<>> \/ s \notin Reading
    PROVE  Alike(Go(p, s), Go(q, s))
<1>1. Go(p, s) \in Parsers /\ Go(q, s) \in Parsers
    BY DEF Alike, Twins, Parsers, Go
<1>2. Twins(Go(p, s), Go(q, s))
    BY <1>1 DEF Alike, Twins, Parsers, Go
<1>3. Go(p, s).state = s /\ Go(p, s).params = p.params /\ Go(p, s).sub = p.sub /\ Go(q, s).sub = q.sub
    BY DEF Alike, Twins, Parsers, Go
<1>. QED
    BY <1>2, <1>3 DEF Alike

\* Ignoring a sequence and collecting a byte.
LEMMA CollectAlike ==
    ASSUME NEW p, NEW q, Alike(p, q), Reads(p), Reads(q), NEW b \in AllBytes
    PROVE  Alike(Ignore(p), Ignore(q)) /\ Alike(Collect(p, b), Collect(q, b))
<1>1. Alike(Ignore(p), Ignore(q))
    <2>1. Ignore(p) \in Parsers /\ Ignore(q) \in Parsers
        BY IgnoreReads DEF Reads, Sound
    <2>. QED
        BY <2>1 DEF Alike, Twins, Parsers, Ignore
<1>2. CASE Len(p.inter) < MaxIntermediates
    <2>. DEFINE inter == Append(p.inter, b)
    <2>1. Collect(p, b) = [p EXCEPT !.inter = inter] /\ Collect(q, b) = [q EXCEPT !.inter = inter]
        BY <1>2 DEF Collect, Alike, Twins
    <2>2. Collect(p, b) \in Parsers /\ Collect(q, b) \in Parsers
        BY CollectReads DEF Reads, Sound
    <2>. HIDE DEF inter
    <2>3. Alike(Collect(p, b), Collect(q, b))
        BY <2>1, <2>2 DEF Alike, Twins, Parsers
    <2>. QED
        BY <1>1, <2>3
<1>3. CASE ~(Len(p.inter) < MaxIntermediates)
    <2>1. Collect(p, b) = Ignore(p) /\ Collect(q, b) = Ignore(q)
        BY <1>3 DEF Collect, Alike, Twins
    <2>. QED
        BY <1>1, <2>1
<1>. QED
    BY <1>2, <1>3

\* Adding a number: a list that has no parameter takes it either way.
LEMMA AddAlike ==
    ASSUME NEW p, NEW q, Alike(p, q), Reads(p), Reads(q), p.state \in Reading
    PROVE  /\ Twins(Added(p), Added(q))
           /\ Full(p) <=> Full(q)
           /\ ~Full(p) => Twins(Extended(p), Extended(q)) /\ Twins(Pushed(p), Pushed(q))
<1>1. Full(p) <=> Full(q)
    BY DEF Alike, Twins, Full
<1>2. ~Full(p) => Twins(Pushed(p), Pushed(q))
    <2>. SUFFICES ASSUME ~Full(p) PROVE Twins(Pushed(p), Pushed(q))
        OBVIOUS
    <2>1. Pushed(p) \in Parsers /\ Pushed(q) \in Parsers
        BY <1>1, AddReads DEF Reads, Sound
    <2>2. Append(p.params, <<p.param>>) = Append(q.params, <<q.param>>)
        BY DEF Alike, Twins
    <2>. QED
        BY <2>1, <2>2 DEF Alike, Twins, Parsers, Pushed
<1>3. ~Full(p) => Twins(Extended(p), Extended(q))
    <2>. SUFFICES ASSUME ~Full(p) PROVE Twins(Extended(p), Extended(q))
        OBVIOUS
    <2>1. CASE p.params = <<>>
        BY <1>2, <2>1 DEF Extended, Alike, Twins
    <2>2. CASE p.params # <<>>
        <3>. DEFINE more(r) == [r.params EXCEPT ![Len(r.params)] = Append(@, r.param)]
        <3>1. more(p) = more(q)
            BY DEF Alike, Twins
        <3>2. ASSUME NEW r, r.params # <<>>
              PROVE  Extended(r) = [r EXCEPT !.params = more(r), !.total = @ + 1]
            BY <3>2 DEF Extended
        <3>3. /\ Extended(p) = [p EXCEPT !.params = more(p), !.total = @ + 1]
              /\ Extended(q) = [q EXCEPT !.params = more(q), !.total = @ + 1]
            <4>1. p.params # <<>> /\ q.params # <<>>
                BY <2>2 DEF Alike, Twins
            <4>. HIDE DEF more
            <4>. QED
                BY <3>2, <4>1
        <3>4. Extended(p) \in Parsers /\ Extended(q) \in Parsers
            BY <1>1, AddReads DEF Reads, Sound
        <3>. HIDE DEF more
        <3>. QED
            BY <3>1, <3>3, <3>4 DEF Alike, Twins, Parsers
    <2>. QED
        BY <2>1, <2>2
<1>4. Twins(Added(p), Added(q))
    <2>1. CASE Full(p)
        <3>1. "CAN" \in AllBytes
            BY DEF AllBytes
        <3>2. Twins(Ignore(p), Ignore(q))
            BY <3>1, CollectAlike DEF Alike
        <3>. QED
            BY <1>1, <2>1, <3>2 DEF Added
    <2>2. CASE ~Full(p) /\ p.sub = q.sub
        BY <1>1, <1>2, <1>3, <2>2 DEF Added
    <2>3. CASE ~Full(p) /\ p.sub # q.sub
        <3>1. p.params = <<>> /\ q.params = <<>>
            BY <2>3 DEF Alike, Twins
        <3>2. Extended(p) = Pushed(p) /\ Extended(q) = Pushed(q)
            BY <3>1 DEF Extended
        <3>3. Added(p) = Pushed(p) /\ Added(q) = Pushed(q)
            BY <1>1, <2>3, <3>2 DEF Added
        <3>. QED
            BY <1>2, <2>3, <3>3
    <2>. QED
        BY <2>1, <2>2, <2>3
<1>. QED
    BY <1>1, <1>2, <1>3, <1>4

\* The end of a parameter or of a sub-parameter, and a digit.
LEMMA ParamAlike ==
    ASSUME NEW p, NEW q, Alike(p, q), Reads(p), Reads(q), p.state \in Reading, NEW b
    PROVE  /\ Alike(Param(p), Param(q)) /\ Alike(Subparam(p), Subparam(q))
           /\ Alike(ParamNext(p, b), ParamNext(q, b))
<1>1. ASSUME NEW r, NEW t, Twins(r, t), NEW s \in BOOLEAN
      PROVE  LET u == [r EXCEPT !.param = 0, !.sub = s]
                 v == [t EXCEPT !.param = 0, !.sub = s]
             IN  Alike(u, v)
    <2>1. 0 \in 0..MaxParam
        BY ParserAssumption DEF ParserAssumption
    <2>2. [r EXCEPT !.param = 0, !.sub = s] \in Parsers /\ [t EXCEPT !.param = 0, !.sub = s] \in Parsers
        BY <1>1, <2>1 DEF Twins, Parsers
    <2>. QED
        BY <1>1, <2>2 DEF Twins, Alike, Parsers
<1>2. Alike(Param(p), Param(q))
    BY <1>1, AddAlike DEF Param
<1>3. Alike(Subparam(p), Subparam(q))
    <2>1. ASSUME NEW r, NEW t, Twins(r, t)
          PROVE  Alike([r EXCEPT !.sub = TRUE], [t EXCEPT !.sub = TRUE])
        <3>1. [r EXCEPT !.sub = TRUE] \in Parsers /\ [t EXCEPT !.sub = TRUE] \in Parsers
            BY <2>1 DEF Twins, Parsers
        <3>. QED
            BY <2>1, <3>1 DEF Twins, Alike, Parsers
    <2>2. CASE Full(p)
        <3>1. "CAN" \in AllBytes
            BY DEF AllBytes
        <3>2. Twins(Ignore(p), Ignore(q)) /\ Full(q)
            BY <2>2, <3>1, AddAlike, CollectAlike DEF Alike
        <3>3. /\ Subparam(p) = [Ignore(p) EXCEPT !.sub = TRUE]
              /\ Subparam(q) = [Ignore(q) EXCEPT !.sub = TRUE]
            BY <2>2, <3>2 DEF Subparam
        <3>. QED
            BY <2>1, <3>2, <3>3
    <2>3. CASE ~Full(p)
        <3>1. Twins(Extended(p), Extended(q)) /\ ~Full(q)
            BY <2>3, AddAlike
        <3>. DEFINE e(r) == [Extended(r) EXCEPT !.param = 0]
        <3>2. Twins(e(p), e(q))
            <4>1. 0 \in 0..MaxParam
                BY ParserAssumption DEF ParserAssumption
            <4>2. e(p) \in Parsers /\ e(q) \in Parsers
                BY <3>1, <4>1 DEF Twins, Parsers
            <4>. QED
                BY <3>1, <4>2 DEF Twins, Parsers
        <3>3. Subparam(p) = [e(p) EXCEPT !.sub = TRUE] /\ Subparam(q) = [e(q) EXCEPT !.sub = TRUE]
            BY <2>3, <3>1 DEF Subparam
        <3>. HIDE DEF e
        <3>. QED
            BY <2>1, <3>2, <3>3
    <2>. QED
        BY <2>2, <2>3
<1>4. Alike(ParamNext(p, b), ParamNext(q, b))
    <2>. DEFINE n(r) == Lesser(Lesser(r.param * 10, MaxParam) + Value(b), MaxParam)
    <2>1. ParamNext(p, b) = [p EXCEPT !.param = n(p)] /\ ParamNext(q, b) = [q EXCEPT !.param = n(q)]
        BY DEF ParamNext
    <2>2. n(p) = n(q)
        BY DEF Alike, Twins
    <2>3. ParamNext(p, b) \in Parsers /\ ParamNext(q, b) \in Parsers
        BY DigitReads DEF Reads, Sound
    <2>. HIDE DEF n
    <2>. QED
        BY <2>1, <2>2, <2>3 DEF Alike, Twins, Parsers
<1>. QED
    BY <1>2, <1>3, <1>4

\* Forgetting a sequence.
LEMMA ResetAlike ==
    ASSUME NEW p, NEW q, Alike(p, q), Reads(p), Reads(q)
    PROVE  /\ Alike(ResetParams(p), ResetParams(q)) /\ ResetParams(p).params = <<>>
           /\ Alike(ToEscape(p), ToEscape(q))
<1>1. ResetParams(p) \in Parsers /\ ResetParams(q) \in Parsers
    BY ResetReads DEF Reads, Sound
<1>2. Alike(ResetParams(p), ResetParams(q)) /\ ResetParams(p).params = <<>>
    BY <1>1 DEF Alike, Twins, Parsers, ResetParams
<1>3. Alike(ToEscape(p), ToEscape(q))
    BY <1>2, GoAlike DEF ToEscape, States
<1>. QED
    BY <1>2, <1>3

\* The parts of a handler that say something.
LEMMA PartsAgree ==
    ASSUME NEW p, NEW q, Alike(p, q), Reads(p), Reads(q), NEW b
    PROVE  /\ Agree(Quiet(p), Quiet(q)) /\ Agree(Execute(p, b), Execute(q, b))
           /\ Agree(Anywhere(p, b), Anywhere(q, b))
           /\ Agree(EscDispatch(p, b), EscDispatch(q, b))
           /\ p.state \in Reading => /\ Agree(CsiDispatch(p, b), CsiDispatch(q, b))
                                     /\ Agree(Hook(p, b), Hook(q, b))
<1>1. "Ground" \in States \ Reading /\ "DcsPassthrough" \in States \ Reading
    BY DEF States, Reading
<1>2. ASSUME NEW r, NEW t, Alike(r, t), NEW m
      PROVE  Agree(Quiet(r), Quiet(t)) /\ Agree(Say(r, m), Say(t, m))
    BY <1>2 DEF Agree, Quiet, Say
<1>3. Alike(Go(p, "Ground"), Go(q, "Ground"))
    BY <1>1, GoAlike
<1>4. Agree(Execute(p, b), Execute(q, b))
    BY <1>2 DEF Execute
<1>5. Agree(Anywhere(p, b), Anywhere(q, b))
    BY <1>2, <1>3, ResetAlike DEF Anywhere, Execute
<1>6. Agree(EscDispatch(p, b), EscDispatch(q, b))
    <2>1. <<"esc", p.inter, p.ignoring, b>> = <<"esc", q.inter, q.ignoring, b>>
        BY DEF Alike, Twins
    <2>. QED
        BY <1>2, <1>3, <2>1 DEF EscDispatch
<1>7. ASSUME p.state \in Reading
      PROVE  Agree(CsiDispatch(p, b), CsiDispatch(q, b))
    <2>. DEFINE m(r) == <<"csi", r.params, r.inter, r.ignoring, b>>
    <2>1. Alike(Param(p), Param(q))
        BY <1>7, ParamAlike
    <2>2. m(Param(p)) = m(Param(q))
        BY <2>1 DEF Alike, Twins
    <2>3. Alike(Go(Param(p), "Ground"), Go(Param(q), "Ground"))
        BY <1>1, <2>1, GoAlike
    <2>4. \A r \in {p, q} : CsiDispatch(r, b) = Say(Go(Param(r), "Ground"), m(Param(r)))
        BY DEF CsiDispatch
    <2>. HIDE DEF m
    <2>. QED
        BY <1>2, <2>2, <2>3, <2>4
<1>8. ASSUME p.state \in Reading
      PROVE  Agree(Hook(p, b), Hook(q, b))
    <2>. DEFINE h(r) == IF Full(r) THEN Ignore(r) ELSE Pushed(r)
                m(r) == <<"hook", r.params, r.inter, r.ignoring, b>>
    <2>1. Twins(h(p), h(q))
        <3>1. "CAN" \in AllBytes
            BY DEF AllBytes
        <3>2. Twins(Ignore(p), Ignore(q))
            BY <3>1, CollectAlike DEF Alike
        <3>. QED
            BY <1>8, <3>2, AddAlike
    <2>2. \A r \in {p, q} : Hook(r, b) = Say(Go(h(r), "DcsPassthrough"), m(h(r)))
        BY DEF Hook
    <2>. HIDE DEF h
    <2>3. m(h(p)) = m(h(q))
        BY <2>1 DEF Twins
    <2>4. Alike(Go(h(p), "DcsPassthrough"), Go(h(q), "DcsPassthrough"))
        <3>1. Go(h(p), "DcsPassthrough") \in Parsers /\ Go(h(q), "DcsPassthrough") \in Parsers
            BY <1>1, <2>1 DEF Twins, Parsers, Go
        <3>2. Go(h(p), "DcsPassthrough").state = "DcsPassthrough"
            BY <2>1 DEF Twins, Parsers, Go
        <3>3. Twins(Go(h(p), "DcsPassthrough"), Go(h(q), "DcsPassthrough"))
            BY <2>1, <3>1 DEF Twins, Parsers, Go
        <3>. QED
            BY <1>1, <3>2, <3>3 DEF Alike
    <2>. HIDE DEF m
    <2>. QED
        BY <1>2, <2>2, <2>3, <2>4
<1>. QED
    BY <1>2, <1>4, <1>5, <1>6, <1>7, <1>8

\* The silent parts of a control or device sequence.
LEMMA SilentAgree ==
    ASSUME NEW p, NEW q, Alike(p, q), Reads(p), Reads(q), p.state \in Reading,
           NEW b \in AllBytes, NEW s \in States
    PROVE  /\ Agree(Quiet(Go(p, s)), Quiet(Go(q, s)))
           /\ Agree(Quiet(Collect(p, b)), Quiet(Collect(q, b)))
           /\ Agree(Quiet(Go(Collect(p, b), s)), Quiet(Go(Collect(q, b), s)))
           /\ Agree(Quiet(Param(p)), Quiet(Param(q)))
           /\ Agree(Quiet(Go(Param(p), s)), Quiet(Go(Param(q), s)))
           /\ Agree(Quiet(Subparam(p)), Quiet(Subparam(q)))
           /\ Agree(Quiet(Go(Subparam(p), s)), Quiet(Go(Subparam(q), s)))
           /\ Agree(Quiet(ParamNext(p, b)), Quiet(ParamNext(q, b)))
           /\ Agree(Quiet(Go(ParamNext(p, b), s)), Quiet(Go(ParamNext(q, b), s)))
<1>1. ASSUME NEW r, NEW t, Alike(r, t), r.state = p.state
      PROVE  Agree(Quiet(r), Quiet(t)) /\ Agree(Quiet(Go(r, s)), Quiet(Go(t, s)))
    BY <1>1, GoAlike DEF Agree, Quiet
<1>2. /\ Alike(Collect(p, b), Collect(q, b)) /\ Collect(p, b).state = p.state
      /\ Alike(Param(p), Param(q)) /\ Param(p).state = p.state
      /\ Alike(Subparam(p), Subparam(q)) /\ Subparam(p).state = p.state
      /\ Alike(ParamNext(p, b), ParamNext(q, b)) /\ ParamNext(p, b).state = p.state
    BY CollectAlike, CollectReads, ParamAlike, ParamReads, DigitReads
<1>. QED
    BY <1>1, <1>2

\* The states of a control or device sequence.
LEMMA SequencesAgree ==
    ASSUME NEW p, NEW q, Alike(p, q), Kept(p), Kept(q), NEW b \in AllBytes
    PROVE  /\ p.state = "CsiEntry" => Agree(CsiEntry(p, b), CsiEntry(q, b))
           /\ p.state = "CsiIntermediate" => Agree(CsiIntermediate(p, b), CsiIntermediate(q, b))
           /\ p.state = "CsiParam" => Agree(CsiParam(p, b), CsiParam(q, b))
           /\ p.state = "DcsEntry" => Agree(DcsEntry(p, b), DcsEntry(q, b))
           /\ p.state = "DcsIntermediate" => Agree(DcsIntermediate(p, b), DcsIntermediate(q, b))
           /\ p.state = "DcsParam" => Agree(DcsParam(p, b), DcsParam(q, b))
<1>. SUFFICES ASSUME p.state \in Reading
              PROVE  /\ Agree(CsiEntry(p, b), CsiEntry(q, b))
                     /\ Agree(CsiIntermediate(p, b), CsiIntermediate(q, b))
                     /\ Agree(CsiParam(p, b), CsiParam(q, b))
                     /\ Agree(DcsEntry(p, b), DcsEntry(q, b))
                     /\ Agree(DcsIntermediate(p, b), DcsIntermediate(q, b))
                     /\ Agree(DcsParam(p, b), DcsParam(q, b))
    BY DEF Reading
<1>1. Reads(p) /\ Reads(q)
    BY KeptReads DEF Alike, Twins, Reading
<1>2. {"CsiIntermediate", "CsiParam", "CsiIgnore", "DcsIntermediate", "DcsParam", "DcsIgnore"}
          \subseteq States
    BY DEF States
<1>3. /\ Agree(Execute(p, b), Execute(q, b)) /\ Agree(Anywhere(p, b), Anywhere(q, b))
      /\ Agree(CsiDispatch(p, b), CsiDispatch(q, b)) /\ Agree(Hook(p, b), Hook(q, b))
    BY <1>1, PartsAgree
<1>4. ASSUME NEW s \in States
      PROVE  /\ Agree(Quiet(Go(p, s)), Quiet(Go(q, s)))
             /\ Agree(Quiet(Collect(p, b)), Quiet(Collect(q, b)))
             /\ Agree(Quiet(Go(Collect(p, b), s)), Quiet(Go(Collect(q, b), s)))
             /\ Agree(Quiet(Param(p)), Quiet(Param(q)))
             /\ Agree(Quiet(Go(Param(p), s)), Quiet(Go(Param(q), s)))
             /\ Agree(Quiet(Subparam(p)), Quiet(Subparam(q)))
             /\ Agree(Quiet(Go(Subparam(p), s)), Quiet(Go(Subparam(q), s)))
             /\ Agree(Quiet(ParamNext(p, b)), Quiet(ParamNext(q, b)))
             /\ Agree(Quiet(Go(ParamNext(p, b), s)), Quiet(Go(ParamNext(q, b), s)))
    BY <1>1, SilentAgree
<1>5. Agree(CsiEntry(p, b), CsiEntry(q, b))
    BY <1>2, <1>3, <1>4 DEF CsiEntry, Controls, Spaces, Digits, Privates, Finals
<1>6. Agree(CsiIntermediate(p, b), CsiIntermediate(q, b))
    BY <1>2, <1>3, <1>4 DEF CsiIntermediate, Controls, Spaces, Digits, Privates, Finals
<1>7. Agree(CsiParam(p, b), CsiParam(q, b))
    BY <1>2, <1>3, <1>4 DEF CsiParam, Controls, Spaces, Digits, Privates, Finals
<1>8. Agree(DcsEntry(p, b), DcsEntry(q, b))
    BY <1>2, <1>3, <1>4 DEF DcsEntry, Controls, Spaces, Digits, Privates, Finals
<1>9. Agree(DcsIntermediate(p, b), DcsIntermediate(q, b))
    BY <1>2, <1>3, <1>4 DEF DcsIntermediate, Controls, Spaces, Digits, Privates, Finals
<1>10. Agree(DcsParam(p, b), DcsParam(q, b))
    BY <1>2, <1>3, <1>4 DEF DcsParam, Controls, Spaces, Digits, Privates, Finals
<1>. QED
    BY <1>5, <1>6, <1>7, <1>8, <1>9, <1>10

\* The states in which nothing is read, but those of a character or a string.
LEMMA OthersAgree ==
    ASSUME NEW p, NEW q, Alike(p, q), Kept(p), Kept(q), NEW b \in AllBytes
    PROVE  /\ p.state = "CsiIgnore" => Agree(CsiIgnore(p, b), CsiIgnore(q, b))
           /\ p.state = "DcsPassthrough" => Agree(DcsPassthrough(p, b), DcsPassthrough(q, b))
           /\ p.state = "Escape" => Agree(Escape(p, b), Escape(q, b))
           /\ p.state = "EscapeIntermediate" => Agree(EscapeIntermediate(p, b), EscapeIntermediate(q, b))
           /\ p.state \in {"DcsIgnore", "SosPmApcString"} => Agree(Anywhere(p, b), Anywhere(q, b))
<1>. SUFFICES ASSUME p.state \notin Reading \cup {"Ground", "OscString"}
              PROVE  /\ Agree(CsiIgnore(p, b), CsiIgnore(q, b))
                     /\ Agree(DcsPassthrough(p, b), DcsPassthrough(q, b))
                     /\ Agree(Escape(p, b), Escape(q, b))
                     /\ Agree(EscapeIntermediate(p, b), EscapeIntermediate(q, b))
                     /\ Agree(Anywhere(p, b), Anywhere(q, b))
    BY DEF Reading
<1>1. Reads(p) /\ Reads(q)
    BY KeptReads DEF Alike, Twins
<1>2. {"Ground", "EscapeIntermediate", "OscString", "SosPmApcString"} \subseteq States \ Reading
    BY DEF States, Reading
<1>3. {"DcsEntry", "CsiEntry"} \subseteq States
    BY DEF States
<1>4. ASSUME NEW r, NEW t, Alike(r, t), NEW m
      PROVE  Agree(Quiet(r), Quiet(t)) /\ Agree(Say(r, m), Say(t, m))
    BY <1>4 DEF Agree, Quiet, Say
<1>5. ASSUME NEW r, NEW t, Alike(r, t), NEW s \in States, s \notin Reading \/ r.params = <<>>
      PROVE  Alike(Go(r, s), Go(t, s))
    BY <1>5, GoAlike
<1>6. Agree(CsiIgnore(p, b), CsiIgnore(q, b))
    BY <1>1, <1>2, <1>4, <1>5, PartsAgree DEF CsiIgnore, Controls, Finals
<1>7. Agree(DcsPassthrough(p, b), DcsPassthrough(q, b))
    <2>1. Agree(Then(Say(p, <<"unhook">>), Execute(Go(p, "Ground"), b)),
                Then(Say(q, <<"unhook">>), Execute(Go(q, "Ground"), b)))
        BY <1>2, <1>5 DEF Agree, Then, Say, Execute
    <2>2. Alike(ToEscape(p), ToEscape(q)) /\ Alike(Go(p, "Ground"), Go(q, "Ground"))
        BY <1>1, <1>2, <1>5, ResetAlike
    <2>. QED
        BY <1>4, <2>1, <2>2 DEF DcsPassthrough, Continuation, Leads
<1>8. Agree(EscapeIntermediate(p, b), EscapeIntermediate(q, b))
    BY <1>1, <1>4, CollectAlike, PartsAgree
       DEF EscapeIntermediate, Controls, Spaces, Finals, Digits, Privates
<1>9. Agree(Escape(p, b), Escape(q, b))
    <2>1. /\ [p EXCEPT !.raw = <<>>, !.ends = <<>>] = p
          /\ [q EXCEPT !.raw = <<>>, !.ends = <<>>] = q
        BY <1>1, ZenonT(60) DEF Reads, Sound, Parsers
    <2>2. /\ Agree(Quiet(Go(ResetParams(p), "DcsEntry")), Quiet(Go(ResetParams(q), "DcsEntry")))
          /\ Agree(Quiet(Go(ResetParams(p), "CsiEntry")), Quiet(Go(ResetParams(q), "CsiEntry")))
        BY <1>1, <1>3, <1>4, <1>5, ResetAlike
    <2>3. Agree(Quiet(Go(Collect(p, b), "EscapeIntermediate")), Quiet(Go(Collect(q, b), "EscapeIntermediate")))
        BY <1>1, <1>2, <1>4, <1>5, CollectAlike
    <2>4. /\ Agree(Quiet(Go(p, "OscString")), Quiet(Go(q, "OscString")))
          /\ Agree(Quiet(Go(p, "SosPmApcString")), Quiet(Go(q, "SosPmApcString")))
          /\ Agree(Execute(Go(p, "Ground"), b), Execute(Go(q, "Ground"), b))
        BY <1>2, <1>4, <1>5 DEF Execute
    <2>. QED
        BY <1>1, <2>1, <2>2, <2>3, <2>4, PartsAgree
           DEF Escape, Controls, Spaces, Digits, Privates
<1>. QED
    BY <1>1, <1>6, <1>7, <1>8, <1>9, PartsAgree

\* A string of the operating system.
LEMMA StringAgree ==
    ASSUME NEW p, NEW q, Alike(p, q), Kept(p), Kept(q), p.state = "OscString", NEW b \in AllBytes
    PROVE  Agree(OscString(p, b), OscString(q, b))
<1>1. q.state = "OscString" /\ "OscString" \notin Reading /\ "Ground" \in States \ Reading
    BY DEF Alike, Twins, Reading, States
<1>2. \A r \in {p, q} : /\ OscPut(r, b) \in Parsers /\ OscPut(r, b).state = "OscString"
                        /\ OscPutParam(r) \in Parsers /\ OscPutParam(r).state = "OscString"
                        /\ OscEnd(r, b).to \in Parsers /\ Reads(OscEnd(r, b).to)
                        /\ OscEnd(r, b).to.state = "OscString"
    <2>1. \A r \in {p, q} : Kept(r) /\ r.state = "OscString"
        BY <1>1
    <2>. QED
        BY <2>1, StringKept, ZenonT(60) DEF Kept, Reads, Sound
<1>3. ASSUME NEW r, NEW t, Twins(r, t), r.state = "OscString"
      PROVE  Alike(r, t) /\ Agree(Quiet(r), Quiet(t))
    BY <1>1, <1>3 DEF Alike, Agree, Quiet
<1>4. Twins(OscPut(p, b), OscPut(q, b))
    <2>1. CASE Len(p.raw) < MaxOscRaw
        <3>. DEFINE raw == Append(p.raw, b)
        <3>1. OscPut(p, b) = [p EXCEPT !.raw = raw] /\ OscPut(q, b) = [q EXCEPT !.raw = raw]
            BY <2>1 DEF OscPut, Alike, Twins
        <3>. HIDE DEF raw
        <3>. QED
            BY <1>2, <3>1 DEF Alike, Twins, Parsers
    <2>2. CASE ~(Len(p.raw) < MaxOscRaw)
        BY <2>2 DEF OscPut, Alike, Twins
    <2>. QED
        BY <2>1, <2>2
<1>5. Twins(OscPutParam(p), OscPutParam(q))
    <2>1. CASE Len(p.ends) < MaxOscParams
        <3>. DEFINE ends == Append(p.ends, Len(p.raw))
        <3>1. OscPutParam(p) = [p EXCEPT !.ends = ends] /\ OscPutParam(q) = [q EXCEPT !.ends = ends]
            BY <2>1 DEF OscPutParam, Alike, Twins
        <3>. HIDE DEF ends
        <3>. QED
            BY <1>2, <3>1 DEF Alike, Twins, Parsers
    <2>2. CASE ~(Len(p.ends) < MaxOscParams)
        BY <2>2 DEF OscPutParam, Alike, Twins
    <2>. QED
        BY <2>1, <2>2
<1>6. OscEnd(p, b).out = OscEnd(q, b).out /\ Alike(OscEnd(p, b).to, OscEnd(q, b).to)
    <2>. DEFINE over(r) == [OscPutParam(r) EXCEPT !.raw = <<>>, !.ends = <<>>]
                m(r) == <<"osc", Slices(OscPutParam(r).raw, OscPutParam(r).ends), b = "BEL">>
    <2>1. \A r \in {p, q} : OscEnd(r, b) = Say(over(r), m(r))
        BY DEF OscEnd
    <2>2. m(p) = m(q)
        BY <1>5 DEF Twins
    <2>3. over(p) \in Parsers /\ over(q) \in Parsers
        BY <1>2, <2>1 DEF Say
    <2>4. Twins(over(p), over(q)) /\ over(p).state = "OscString"
        BY <1>2, <1>5, <2>3 DEF Twins, Parsers
    <2>. HIDE DEF over, m
    <2>. QED
        BY <1>3, <2>1, <2>2, <2>4 DEF Say
<1>. DEFINE e == OscEnd(p, b)
            f == OscEnd(q, b)
<1>7. Alike(Go(e.to, "Ground"), Go(f.to, "Ground")) /\ Alike(ToEscape(e.to), ToEscape(f.to))
    BY <1>1, <1>2, <1>6, GoAlike, ResetAlike
<1>8. Agree([e EXCEPT !.to.state = "Ground"], [f EXCEPT !.to.state = "Ground"])
    <2>1. \A r \in {p, q} : OscEnd(r, b) = [to |-> OscEnd(r, b).to, out |-> OscEnd(r, b).out]
        BY DEF OscEnd, Say
    <2>. HIDE DEF e, f
    <2>2. /\ [e EXCEPT !.to.state = "Ground"] = [to |-> Go(e.to, "Ground"), out |-> e.out]
          /\ [f EXCEPT !.to.state = "Ground"] = [to |-> Go(f.to, "Ground"), out |-> f.out]
        BY <2>1 DEF Go, e, f
    <2>. QED
        BY <1>6, <1>7, <2>2 DEF Agree, e, f
<1>9. Agree([e EXCEPT !.to = ToEscape(@)], [f EXCEPT !.to = ToEscape(@)])
    <2>1. \A r \in {p, q} : OscEnd(r, b) = [to |-> OscEnd(r, b).to, out |-> OscEnd(r, b).out]
        BY DEF OscEnd, Say
    <2>. HIDE DEF e, f
    <2>2. /\ [e EXCEPT !.to = ToEscape(@)] = [to |-> ToEscape(e.to), out |-> e.out]
          /\ [f EXCEPT !.to = ToEscape(@)] = [to |-> ToEscape(f.to), out |-> f.out]
        BY <2>1 DEF e, f
    <2>. QED
        BY <1>6, <1>7, <2>2 DEF Agree, e, f
<1>10. Agree(Then(e, Execute(Go(e.to, "Ground"), b)), Then(f, Execute(Go(f.to, "Ground"), b)))
    BY <1>6, <1>7 DEF Agree, Then, Execute, Say
<1>11. /\ Agree(Quiet(p), Quiet(q)) /\ Agree(Quiet(OscPutParam(p)), Quiet(OscPutParam(q)))
       /\ Agree(Quiet(OscPut(p, b)), Quiet(OscPut(q, b)))
    BY <1>2, <1>3, <1>4, <1>5 DEF Alike
<1>. HIDE DEF e, f
<1>. QED
    BY <1>8, <1>9, <1>10, <1>11 DEF OscString, Controls, e, f

\* The ground state, fed with anything but a two-byte control.
LEMMA GroundAgree ==
    ASSUME NEW p, NEW q, Alike(p, q), Kept(p), Kept(q), p.state = "Ground", NEW b \in Bytes
    PROVE  Agree(Ground(p, b), Ground(q, b))
<1>0. "Ground" \notin Reading /\ q.state = "Ground" /\ b \in AllBytes
    BY ParserAssumption DEF Alike, Twins, Reading, ParserAssumption
<1>1. ASSUME NEW r, NEW t, Alike(r, t), NEW m
      PROVE  Agree(Quiet(r), Quiet(t)) /\ Agree(Say(r, m), Say(t, m))
    BY <1>1 DEF Agree, Quiet, Say
<1>2. ASSUME NEW r, NEW t, Alike(r, t), r.state = "Ground", NEW lead \in [need : 0..2, c1 : BOOLEAN]
      PROVE  Alike([r EXCEPT !.lead = lead], [t EXCEPT !.lead = lead])
    <2>1. [r EXCEPT !.lead = lead] \in Parsers /\ [t EXCEPT !.lead = lead] \in Parsers
        BY <1>2 DEF Alike, Twins, Parsers
    <2>. QED
        BY <1>0, <1>2, <2>1 DEF Alike, Twins, Parsers
<1>3. ASSUME NEW r, NEW t, Alike(r, t), Kept(r), Kept(t), r.state = "Ground", r.lead = NoLead
      PROVE  Agree(GroundFirst(r, b), GroundFirst(t, b))
    <2>1. Reads(r) /\ Reads(t)
        BY <1>3 DEF Kept, Reads, Alike, Twins
    <2>2. Agree(Quiet(ToEscape(r)), Quiet(ToEscape(t)))
        BY <1>1, <1>3, <2>1, ResetAlike
    <2>. DEFINE lead == [need |-> IF b = "E2" THEN 2 ELSE 1, c1 |-> b = "C2"]
    <2>3. Agree(Quiet([r EXCEPT !.lead = lead]), Quiet([t EXCEPT !.lead = lead]))
        <3>1. lead \in [need : 0..2, c1 : BOOLEAN]
            OBVIOUS
        <3>. HIDE DEF lead
        <3>. QED
            BY <1>1, <1>2, <1>3, <3>1
    <2>4. Agree(Execute(r, b), Execute(t, b)) /\ Agree(Say(r, <<"print", b>>), Say(t, <<"print", b>>))
        BY <1>1, <1>3 DEF Execute
    <2>. QED
        BY <2>2, <2>3, <2>4 DEF GroundFirst, Leads, Controls, Continuation
<1>. DEFINE none(r) == [r EXCEPT !.lead = Fresh.lead]
<1>4. /\ Alike(none(p), none(q)) /\ Kept(none(p)) /\ Kept(none(q))
      /\ none(p).state = "Ground" /\ none(p).lead = NoLead
    <2>1. /\ Fresh.lead = NoLead /\ NoLead \in [need : 0..2, c1 : BOOLEAN]
          /\ NoLead.c1 = FALSE /\ ~NoLead.c1
        BY DEF Fresh, NoLead
    <2>. DEFINE lead == Fresh.lead
    <2>. HIDE DEF lead
    <2>2. lead \in [need : 0..2, c1 : BOOLEAN] /\ lead.c1 = FALSE /\ ~lead.c1
        BY <2>1 DEF lead
    <2>3. /\ Kept([p EXCEPT !.lead = lead]) /\ [p EXCEPT !.lead = lead].state = "Ground"
          /\ [p EXCEPT !.lead = lead].lead = lead
        BY <2>2, LeadKept
    <2>4. Kept([q EXCEPT !.lead = lead])
        BY <1>0, <2>2, LeadKept
    <2>5. Alike([p EXCEPT !.lead = lead], [q EXCEPT !.lead = lead])
        BY <1>2, <2>2
    <2>. QED
        BY <2>1, <2>3, <2>4, <2>5 DEF lead
<1>. HIDE DEF none
<1>5. CASE p.lead.need = 0
    <2>1. p.lead = NoLead /\ q.lead = p.lead
        BY <1>5 DEF Kept, Sound, Parsers, NoLead, Alike, Twins
    <2>2. Ground(p, b) = GroundFirst(p, b) /\ Ground(q, b) = GroundFirst(q, b)
        BY <1>5, <2>1 DEF Ground
    <2>. QED
        BY <1>3, <2>1, <2>2
<1>6. CASE p.lead.need # 0 /\ b # Continuation
    <2>1. q.lead = p.lead
        BY DEF Alike, Twins
    <2>2. /\ Ground(p, b) = Then(Say(none(p), <<"print", "FFFD">>), GroundFirst(none(p), b))
          /\ Ground(q, b) = Then(Say(none(q), <<"print", "FFFD">>), GroundFirst(none(q), b))
        BY <1>6, <2>1 DEF Ground, none
    <2>3. Agree(GroundFirst(none(p), b), GroundFirst(none(q), b))
        BY <1>3, <1>4
    <2>. QED
        BY <2>2, <2>3 DEF Agree, Then, Say
<1>7. CASE p.lead.need # 0 /\ b = Continuation
    <2>1. q.lead = p.lead
        BY DEF Alike, Twins
    <2>. DEFINE lead == [p.lead EXCEPT !.need = 1]
                waits(r) == [r EXCEPT !.lead = lead]
    <2>2. lead \in [need : 0..2, c1 : BOOLEAN]
        <3>1. p.lead \in [need : 0..2, c1 : BOOLEAN] /\ 1 \in 0..2
            BY DEF Kept, Sound, Parsers
        <3>. QED
            BY <3>1
    <2>3. [q EXCEPT !.lead.need = 1] = waits(q) /\ [p EXCEPT !.lead.need = 1] = waits(p)
        BY <2>1
    <2>. HIDE DEF lead
    <2>4. Agree(Quiet(waits(p)), Quiet(waits(q)))
        BY <1>1, <1>2, <2>2
    <2>5. Agree(Execute(none(p), b), Execute(none(q), b))
          /\ Agree(Say(none(p), <<"print", "char">>), Say(none(q), <<"print", "char">>))
        BY <1>1, <1>4 DEF Execute
    <2>. HIDE DEF waits
    <2>6. ASSUME NEW r \in {p, q}
          PROVE  Ground(r, b) = IF p.lead.need = 2 THEN Quiet(waits(r))
                                ELSE IF p.lead.c1 THEN Execute(none(r), b)
                                ELSE Say(none(r), <<"print", "char">>)
        BY <1>7, <2>1, <2>3, <2>6 DEF Ground, none
    <2>. QED
        BY <2>4, <2>5, <2>6
<1>. QED
    BY <1>5, <1>6, <1>7

\* Two parsers that are alike cannot be told apart by the next byte.
LEMMA AdvanceAgree ==
    ASSUME NEW p, NEW q, Alike(p, q), Kept(p), Kept(q), NEW b \in Bytes
    PROVE  Agree(Advance(p, b), Advance(q, b))
<1>1. b \in AllBytes
    BY ParserAssumption DEF ParserAssumption
<1>2. p.state \in States /\ q.state = p.state
    BY DEF Kept, Sound, Parsers, Alike, Twins
<1>. QED
    BY <1>1, <1>2, GroundAgree, SequencesAgree, OthersAgree, StringAgree DEF Advance, States

\* After an ESC every parser is as good as a new one.
LEMMA EscapeForgets ==
    ASSUME NEW p, Kept(p), "ESC" \in Bytes
    PROVE  Alike(Advance(p, "ESC").to, Advance(Fresh, "ESC").to)
<1>1. \A t \in Parsers : ToEscape(t).state = "Escape"
    BY DEF ToEscape, Go, ResetParams, Parsers
<1>2. ASSUME NEW r, Kept(r)
      PROVE  /\ Kept(Advance(r, "ESC").to) /\ Reads(Advance(r, "ESC").to)
             /\ Advance(r, "ESC").to.state = "Escape"
    <2>1. r.state \in States
        BY <1>2 DEF Kept, Sound, Parsers
    <2>2. Advance(r, "ESC").to.state = "Escape"
        <3>1. r \in Parsers
            BY <1>2 DEF Kept, Sound
        <3>2. \A t : GroundFirst(t, "ESC") = Quiet(ToEscape(t)) /\ Anywhere(t, "ESC") = Quiet(ToEscape(t))
            BY DEF GroundFirst, Leads, Controls, Continuation, Anywhere
        <3>3. CASE r.state = "Ground"
            <4>. DEFINE none == [r EXCEPT !.lead = Fresh.lead]
            <4>1. none \in Parsers
                <5>1. Fresh.lead \in [need : 0..2, c1 : BOOLEAN]
                    BY DEF Fresh
                <5>. QED
                    BY <3>1, <5>1 DEF Parsers
            <4>2. Ground(r, "ESC").to \in {ToEscape(r), ToEscape(none)}
                BY <3>2 DEF Ground, Continuation, Then, Say, Quiet
            <4>. HIDE DEF none
            <4>3. Ground(r, "ESC").to.state = "Escape"
                BY <1>1, <3>1, <4>1, <4>2
            <4>. QED
                BY <3>3, <4>3 DEF Advance
        <3>4. CASE r.state = "DcsPassthrough"
            <4>1. DcsPassthrough(r, "ESC") = Say(ToEscape(r), <<"unhook">>)
                BY DEF DcsPassthrough, Continuation, Leads
            <4>. QED
                BY <1>1, <3>1, <3>4, <4>1 DEF Advance, Say
        <3>5. CASE r.state = "Escape"
            <4>1. Escape(r, "ESC") = Quiet(r)
                BY DEF Escape, Controls, Spaces, Digits, Privates
            <4>. QED
                BY <3>5, <4>1 DEF Advance, Quiet
        <3>6. CASE r.state = "OscString"
            <4>. DEFINE ended == OscEnd(r, "ESC")
            <4>1. ended.to \in Parsers
                <5>1. "ESC" \in AllBytes
                    BY DEF AllBytes
                <5>. QED
                    BY <1>2, <3>6, <5>1, StringKept DEF Reads, Sound
            <4>2. OscString(r, "ESC") = [ended EXCEPT !.to = ToEscape(@)]
                BY DEF OscString, Controls
            <4>3. ended = [to |-> ended.to, out |-> ended.out]
                BY DEF OscEnd, Say
            <4>. HIDE DEF ended
            <4>4. OscString(r, "ESC").to = ToEscape(ended.to)
                BY <4>2, <4>3
            <4>. QED
                BY <1>1, <3>6, <4>1, <4>4 DEF Advance
        <3>7. CASE r.state \in States \ {"Ground", "DcsPassthrough", "Escape", "OscString"}
            <4>1. /\ CsiEntry(r, "ESC") = Anywhere(r, "ESC") /\ CsiIgnore(r, "ESC") = Anywhere(r, "ESC")
                  /\ CsiIntermediate(r, "ESC") = Anywhere(r, "ESC")
                  /\ CsiParam(r, "ESC") = Anywhere(r, "ESC")
                BY DEF CsiEntry, CsiIgnore, CsiIntermediate, CsiParam,
                       Controls, Spaces, Digits, Privates, Finals
            <4>2. /\ DcsEntry(r, "ESC") = Anywhere(r, "ESC")
                  /\ DcsIntermediate(r, "ESC") = Anywhere(r, "ESC")
                  /\ DcsParam(r, "ESC") = Anywhere(r, "ESC")
                  /\ EscapeIntermediate(r, "ESC") = Anywhere(r, "ESC")
                BY DEF DcsEntry, DcsIntermediate, DcsParam, EscapeIntermediate,
                       Controls, Spaces, Digits, Privates, Finals
            <4>3. Advance(r, "ESC") = Anywhere(r, "ESC")
                BY <3>7, <4>1, <4>2 DEF Advance, States
            <4>. QED
                BY <1>1, <3>1, <3>2, <4>3 DEF Quiet
        <3>. QED
            BY <2>1, <3>3, <3>4, <3>5, <3>6, <3>7
    <2>3. Kept(Advance(r, "ESC").to)
        BY <1>2, AdvanceRight DEF Right
    <2>. QED
        BY <2>2, <2>3, KeptReads
<1>3. ASSUME NEW r, Kept(r), Reads(r), r.state = "Escape"
      PROVE  /\ r \in Parsers /\ r.inter = <<>> /\ r.params = <<>> /\ r.total = 0
             /\ r.param = 0 /\ r.ignoring = FALSE /\ r.raw = <<>> /\ r.ends = <<>>
             /\ r.lead = NoLead
    BY <1>3 DEF Kept, Sound, Reads
<1>. QED
    BY <1>2, <1>3, FreshKept, ZenonT(60) DEF Alike, Twins

\* What is said of the bytes that are looked at depends neither on the cuts nor
\* on what came before an ESC, when one parser is kept over the chunks and no
\* two-byte control comes: the byte advance_partial_utf8() takes unseen behind a
\* character that was cut (Swallow) is all that a cut can change.
THEOREM CutsDoNotMatter ==
    ASSUME FreshPerChunk = FALSE, "C2" \notin Bytes
    PROVE  Spec => []SameWhereverCut
<1>. DEFINE Inv == /\ Kept(parser) /\ Kept(reference)
                   /\ Alike(parser, reference)
                   /\ SameWhereverCut
<1>1. Init => Inv
    BY FreshKept DEF Init, Alike, Twins, Kept, Sound, SameWhereverCut
<1>2. Inv /\ [Next]_vars => Inv'
    <2>. SUFFICES ASSUME Inv, [Next]_vars
                  PROVE  /\ Kept(parser') /\ Kept(reference')
                         /\ Alike(parser', reference') /\ says' = expected'
        BY DEF SameWhereverCut
    <2>1. ASSUME NEW b \in Bytes, Byte(b)
          PROVE  /\ Kept(parser') /\ Kept(reference')
                 /\ Alike(parser', reference') /\ says' = expected'
        <3>1. PICK forget \in IF b = "ESC" THEN BOOLEAN ELSE {FALSE} :
                  /\ parser' = Advance(parser, b).to
                  /\ says' = Advance(parser, b).out
                  /\ reference' = Advance(IF forget THEN Fresh ELSE reference, b).to
                  /\ expected' = IF forget THEN Advance(parser, b).out
                                 ELSE Advance(IF forget THEN Fresh ELSE reference, b).out
            BY <2>1 DEF Byte
        <3>2. Kept(parser') /\ Kept(reference')
            BY <3>1, AdvanceRight, FreshKept DEF Right
        <3>3. CASE forget
            <4>1. b = "ESC"
                BY <3>3
            <4>. QED
                BY <3>1, <3>2, <3>3, <4>1, EscapeForgets
        <3>4. CASE ~forget
            BY <3>1, <3>2, <3>4, AdvanceAgree DEF Agree
        <3>. QED
            BY <3>3, <3>4
    <2>2. CASE ChunkEnd
        <3>1. parser.lead.c1 = FALSE
            BY DEF Kept, Sound, Parsers
        <3>2. parser' = parser /\ reference' = reference /\ says' = expected'
            BY <2>2, <3>1, ChunkKept DEF ChunkEnd
        <3>. QED
            BY <3>2
    <2>3. CASE Swallow
        BY <2>3 DEF Swallow
    <2>4. CASE UNCHANGED vars
        BY <2>4 DEF vars, SameWhereverCut
    <2>. QED
        BY <2>1, <2>2, <2>3, <2>4 DEF Next
<1>3. Inv => SameWhereverCut
    OBVIOUS
<1>. QED
    BY <1>1, <1>2, <1>3, PTL DEF Spec
===============================================================================
