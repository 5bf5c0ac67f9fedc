--------------------------- MODULE WinCommandLine ---------------------------
(***************************************************************************)
(* The command line of spawn() on Windows.  CreateProcessW takes one       *)
(* string, so append_quoted_wide quotes every argument; the program that   *)
(* is started splits the string again.  Of a character only its class      *)
(* matters.                                                                *)
(***************************************************************************)
EXTENDS Naturals, SequencesExt

CONSTANTS
    Blank,       \* ' ', '\t', '\n' and '\v'
    Quote,       \* '"'
    Backslash,   \* '\'
    Letter       \* any other character

ASSUME CommandLineAssumption ==
    /\ Blank \notin {Quote, Backslash, Letter}
    /\ Quote \notin {Backslash, Letter}
    /\ Backslash # Letter

Chars == {Blank, Quote, Backslash, Letter}

Backslashes(n) == [i \in 1..n |-> Backslash]

Mem(c, s) == \E i \in 1..Len(s) : s[i] = c

\* One character inside quotes, after "slashes" pending backslashes: those in
\* front of a quote are doubled and the quote gets one of its own.
Escape(state, c) ==
    IF c = Backslash
      THEN [state EXCEPT !.slashes = @ + 1]
      ELSE [slashes |-> 0,
            text |-> state.text
                       \o Backslashes(IF c = Quote THEN 2 * state.slashes + 1
                                                   ELSE state.slashes)
                       \o <<c>>]

\* Mutant: backslashes at the end of an argument are not doubled.
CloseQuoteSingle(state) == state.text \o Backslashes(state.slashes) \o <<Quote>>

\* The closing quote, with the backslashes in front of it doubled.
CloseQuote(state) == state.text \o Backslashes(2 * state.slashes) \o <<Quote>>

\* The loop over the characters of an argument.
Unescaped == [slashes |-> 0, text |-> <<>>]
Escaped(arg) ==
    LET read[n \in 0..Len(arg)] == IF n = 0 THEN Unescaped ELSE Escape(read[n - 1], arg[n])
    IN  read[Len(arg)]

\* append_quoted_wide
Quoted(arg) ==
    IF arg # <<>> /\ ~Mem(Blank, arg) /\ ~Mem(Quote, arg)
      THEN arg
      ELSE <<Quote>> \o CloseQuote(Escaped(arg))

\* The command line spawn() builds: the program, then " " before each argument.
CommandLine(program, args) ==
    LET line[n \in 0..Len(args)] ==
            IF n = 0 THEN Quoted(program) ELSE line[n - 1] \o <<Blank>> \o Quoted(args[n])
    IN  line[Len(args)]

-----------------------------------------------------------------------------
(* How the program splits its command line: the rules of the C runtime and *)
(* of CommandLineToArgvW.                                                  *)

\* The program's own name knows no backslash: a quote toggles, a blank ends it.
SplitName(state, c) ==
    IF state.done THEN [state EXCEPT !.rest = Append(@, c)]
    ELSE IF c = Quote THEN [state EXCEPT !.quoted = ~@]
    ELSE IF c = Blank /\ ~state.quoted THEN [state EXCEPT !.done = TRUE]
    ELSE [state EXCEPT !.name = Append(@, c)]

\* Between two arguments.
Between(args) ==
    [args |-> args, word |-> <<>>, slashes |-> 0, quoted |-> FALSE, inside |-> FALSE]

\* An argument: 2n backslashes and a quote are n backslashes and a delimiter,
\* 2n+1 are n backslashes and a quote; elsewhere a backslash is itself.
SplitArgument(state, c) ==
    IF c = Backslash THEN [state EXCEPT !.slashes = @ + 1, !.inside = TRUE]
    ELSE IF c = Quote THEN
        IF state.slashes % 2 = 0
          THEN [state EXCEPT !.word = @ \o Backslashes(state.slashes \div 2),
                             !.slashes = 0, !.quoted = ~@, !.inside = TRUE]
          ELSE [state EXCEPT !.word = @ \o Backslashes(state.slashes \div 2) \o <<Quote>>,
                             !.slashes = 0]
    ELSE IF c = Blank /\ ~state.quoted THEN
        IF state.inside
          THEN Between(Append(state.args, state.word \o Backslashes(state.slashes)))
          ELSE state
    ELSE [state EXCEPT !.word = @ \o Backslashes(state.slashes) \o <<c>>,
                       !.slashes = 0, !.inside = TRUE]

ReadName(state, line) ==
    LET read[n \in 0..Len(line)] == IF n = 0 THEN state ELSE SplitName(read[n - 1], line[n])
    IN  read[Len(line)]

ReadArguments(state, text) ==
    LET read[n \in 0..Len(text)] == IF n = 0 THEN state ELSE SplitArgument(read[n - 1], text[n])
    IN  read[Len(text)]

NameState(line) == ReadName([name |-> <<>>, rest |-> <<>>, quoted |-> FALSE, done |-> FALSE], line)

\* The blank at the end finishes the last argument.
ArgumentState(text) == ReadArguments(Between(<<>>), Append(text, Blank))

Arrived(name, split) == <<name>> \o split.args

\* argv as the program sees it.
Split(line) == Arrived(NameState(line).name, ArgumentState(NameState(line).rest))

\* File names hold no quote, and spawn() is not given one that ends in a
\* backslash: the name's own rule would keep what CloseQuote doubles.
ProgramName(s) == s # <<>> /\ ~Mem(Quote, s) /\ s[Len(s)] # Backslash
=============================================================================
