# A verification of stitch-pty

This directory holds TLA+ models of [stitch-pty](../src/README.md), a Python
package written in Rust that spawns a program on a pseudo-terminal, lets Python
tasks read from it, write to it and end it, and keeps a VT100-style screen with
scrollback of what it printed.  The models are checked by TLC on small
instances.  Nearly all safety properties are also proved by TLAPS, for every
instance: those of the child, `terminate()`, spawning on both platforms and the
read path, and of the event log, the parser, the pen, the screen and the
scrollback.  What is only model-checked is listed under Proofs.

`PROJECT.json` ties every definition to the lines it models, every property to
a run and to a fault it catches, and every hazard to the properties about it.

## The system

| Part | State | Operations | Talks to |
|---|---|---|---|
| **Unix child process** `platform_unix.rs` | pid, `running`, `exit_status` behind one mutex shared by every clone | `wait`, `is_running`, `signal`, `kill`, `clone_killer`, Drop; a reaper thread | the kernel (`waitpid`, `kill`), sessions |
| **terminate()** `__init__.py`, `python_api.rs` | deadline of the Python loop, deadline of the Rust future | slices of 100 ms over a future that sends SIGTERM, waits, sends SIGKILL, waits | the child process |
| **Read path** `__init__.py`, `python_api.rs`, `platform_unix.rs` | the kernel's queue, a future per read, `_raw_chunks`, `_raw_bytes` | `read`, `read_timeout`, `interact`, `expect`, `raw_output` | kernel, asyncio, terminal |
| **Write path** (same files) | the kernel's input queue | `write`, `write_all` | kernel |
| **Unix spawn** `platform_unix.rs` | the descriptor tables of this process and of the children before exec | `open_pty`, `spawn`, the child's setup, the master's Drop | kernel, other threads of the Python process |
| **Windows backend** `platform_windows.rs` | pipe, console and process handles in two halves shared with reads and waits in flight; size, exit code | `open_pty`, `spawn`, read, `wait`, `kill`, `set_winsize`, Drops | Windows, the event loop that may drop any future |
| **Screen grid** `terminal/screen.rs` | rows of cells, wrap flags, cursor and its stack, margins, modes, dirty rows, parked primary screen | ~40 operations called by the parser; resize, reset, drains | parser, scrollback, front end |
| **Pen, modes, names, keyboard** `screen.rs`, `modes.rs`, `graphics.rs`, `charsets.rs` | attributes and colours, mode flags, saved cursors, character sets, titles, cursor style, keyboard modes | SGR, mode setting, DECSC/DECRC, switch of buffers, OSC and ESC dispatch, reset | parser, front end |
| **Working directory** `cwd.rs`, `parser.rs` | none: a function of the payload | OSC 7, OSC 9;9 | parser |
| **Scrollback** `terminal/history.rs` | lines with wrap flags, capacity | feed, resize (with reflow), reset, capacity, display windows | screen, Python bindings |
| **Event log** `screen.rs`, `history.rs`, `events.rs` | bounded vector of events, bell flag, growth counter | push, `take_bell`, `take_events`, reset | parser, front end |
| **ANSI parser** `terminal/ansi_parser.rs`, `parser.rs` | state, parameters, intermediates, partial UTF-8 | advance; dispatch to the screen | screen |
| Glue `platform.rs`, `errors.rs`, `winsize.rs`, `lib.rs` | none | choice of the backend, value types | |

A front end awaits `session.read()`.  The Rust future waits until the PTY master
is readable and calls `read(2)`; the Python task resumes with the bytes and,
without another await, feeds them to the terminal and records them in the raw
window.  The parser calls the screen for every character and sequence; lines
that scroll off a full primary screen wait in the screen until the feed ends
and are then captured into the scrollback.  The front end drains dirty rows and
events, and resizes.  On the other side a thread polls `waitpid` every 50 ms;
`wait()` polls the shared flag every 20 ms.  A session on Unix begins with
`openpty` and `fork` in one poll; on Windows the call awaits while each
pipe connects and while conhost is answered, and may be dropped there.

What is hard about it:

* *Concurrency*: the reaper thread, every `wait()`, `signal()` and Drop race on
  one child; `waitpid` succeeds once, for one of them.
* *Timeouts and cancellation*: a future that Python has given up on may still
  read bytes; `terminate()` abandons and restarts its future many times.
* *Resources*: descriptors are numbers that the kernel gives out again at once,
  `fork` copies all of them, and on Windows handles are closed by hand on every
  way out.
* *Limits*: the event log, the raw window and the scrollback all evict.
* *Long sequences of legal calls*: a cursor saved under one size and set of
  margins is restored under another; a grid parked behind the alternate screen
  outlives resizes; the pending-wrap column meets every operation; mode flags
  and what they switch are kept in different fields.

## Modules

| Module | Models | Built on |
|---|---|---|
| `ChildPromise` | abstract: a child ends once, one verdict is reached after that, every `wait()` reports it | |
| `ChildProcess` | the Unix child, its handles and the reaper thread | implements `ChildPromise` |
| `Terminate` | both loops of `terminate()` with a clock, cancellation, other waiters | extends `ChildProcess` |
| `PtyIo` | kernel queue, futures, tasks, raw window | |
| `UnixSpawn` | `open_pty` and `spawn` on Unix up to exec, descriptor by descriptor | |
| `WinSession` | `open_pty` and `spawn` on Windows and the session's two halves | extends `WinCommandLine` |
| `WinCommandLine` | the quoting of arguments, and how a program splits them again | |
| `Platform` | the bindings over whichever backend was built | extends `UnixSpawn`, `WinSession` |
| `EventLog` | events, bells, the drain | |
| `Screen` | the grid, every geometry-changing operation | |
| `Rendition` | pen, mode flags and their effects, saved cursors, charsets, names, style, keyboard | `Sgr`, `Cwd` |
| `Sgr` | parameters of `CSI m` and the colour tables, as functions | |
| `Cwd` | the payloads of OSC 7 and OSC 9;9, as functions | |
| `Reflow` | the join and split of `reflow()` as functions of rows and widths | extends `Screen` |
| `HistoryScreen` | feed, scrollback, resize of rows and of columns | extends `Reflow` |
| `AnsiParser` | the byte-level state machine, the data it collects, chunks | |
| `ChildProofs` | theorems about `ChildProcess` and `Terminate` | extends `Terminate` |
| `PlatformProofs` | theorems about both backends and the command line | extends `Platform`, `SequenceFacts` |
| `PtyIoProofs` | theorems about the read path | extends `PtyIo`, `SequenceFacts` |
| `EventLogProofs`, `AnsiParserProofs` | theorems about the module of that name | extend it |
| `RenditionProofs` | theorems about the pen, the modes, SGR and directory reports | extends `Rendition`, `SequenceFacts` |
| `ScreenProofs` | theorems about the screen, the reflow and the scrollback | extends `HistoryScreen`, `SequenceFacts` |
| `SequenceFacts` | induction over the naturals for a set, recursive functions, prefixes, suffixes and joined sequences: lemmas that know nothing of the system | |

A backend's parameters and what is assumed of them are in its own module.
`MC*` modules give names to the values a configuration uses.  Definitions named
in a "Mutant" comment are deliberate faults: substituting one for the
definition below it makes a run fail, which shows that the property there has
teeth.  They are part of no specification.

**ChildProcess.**  `child`, `status` and `pending` are the kernel's process, how
it ended and the signals on their way.  Signals go to the child's process group,
which exists from the child's own `setsid()` on (`Setsid`, `group`): `Send` before that
finds nobody, the code reports success, and the signal is gone; `lost` remembers
which.  The reaper thread has three steps, for
it holds the mutex in the first and the last and not around `waitpid`
(`ReaperWake`, `ReaperProbe`, `ReaperRecord`).  A handle is a
`UnixChildProcess` value: `BeginWait`/`EndWait` are the loop of `wait()`, where
only the turn that leaves the loop is a step; Drop is `BeginDrop`, `DropKill`,
`DropReap`.  A handle is not dropped while it is waited on, since the future
borrows it.

**Terminate.**  One tick of `now` is any unit of time; steps may be late without
limit, never early.  `py` and `inner` are the control states of the Python loop
and of the Rust future it awaits; giving up on a slice discards the future
wherever it is.

**PtyIo.**  Bytes are numbered in the order of writing, so "lost", "twice" and
"reordered" can be said of them.  The readers and whether they cancel are chosen
in `Init`.  A cancelled future that has not yet noticed is an orphan; it may
read once more.  The counter `_raw_bytes` is a variable beside the chunks, kept as
the code keeps it (`Slide`), and it alone says when the eviction stops; that it is
the size of the window is something to check.  A cap of 0 is among the caps
(`data[-0:]` is all of the last read); `None`, no cap, is not.

**UnixSpawn.**  `fds[None]` is the descriptor table of the Python process,
`fds[c]` that of the child of call `c`; an entry says which end of which PTY, or
which other file, a number refers to.  One action is one system call or one
failure.  Another thread opens and closes a file of its own, so that a number
closed twice would hit somebody.  The stage "leaked" is where the code loses a
descriptor (below).  Up to exec a child may die at any point; what it does
afterwards is `ChildProcess`.

**WinSession.**  `stage` is the progress of the call, with an action for every
stretch between two awaits and `CancelCall` at each of them.  `handles` are the
handles open; `users` is the reference count of the two halves spelled out: the
session, a read, a `wait()`.  The last one to leave a half runs its Drop.  The
pipe servers close themselves (tokio owns them), the other handles do not.
`canResize` says whether kernel32 has `ResizePseudoConsole`; without it a new size is
stored and nothing else happens.

**WinCommandLine.**  `CommandLine` appends what `append_quoted_wide` writes for each
argument; the splitting that `CommandLineToArgvW` documents is the reference.
Loops over characters are recursive functions (`Escaped`, `ReadArguments`), not
folds, since of those the proofs can follow each turn.  `Programs` and
`ArgumentLists` are what `spawn()` may be given; all that is assumed is that a
program's name is a file name (`ProgramName`).

**Platform.**  `platform` is the build; the other backend stays in an initial
state.  The functions are called once per call or session; nothing else is
shared between the backends.

**EventLog.**  The vector is a set of stamped events.  `heard`, `lastBell`,
`clock` and `since` only record history for the properties.

**Screen.**  Cells hold a narrow glyph, one with a combining mark, a wide glyph
or a blank.  Everything the code does to the geometry is kept literally,
including what looks odd: a scroll down that blanks what it should move, a wrap
on the last row that overwrites it, a cursor that stays on a wide glyph, IL and
DL that do nothing on the last row of the region.  Attributes, charsets, titles
and replies are left out; tab stops are any set of columns.  `saved` is the pair of
options `saved_buffer` and `saved_wrapped` as a sequence of at most one grid.  Only
`RestoreCursor` brings saved modes back, and of the modes only the four that
steer the geometry are kept.

**Rendition.**  What `Screen` leaves out and a sequence changes: a cursor here is
its pen, its hidden flag and its DECSC stack.  An action is a dispatched
sequence; `EnterAlt` and `ExitAlt` are used by the three alternate-screen modes.
`entered` remembers, for one property, the cursor with which `?1049h` switched.
`Sgr` and `Cwd` are functions, their loops recursive functions over the
parameters and the bytes, compared in the initial state with a reference: SGR groups with the last
word of any group on each aspect of the pen (`MeansWhatItSays`), a report with
the path that a shell escaped and the parser cut (`Arrives`).  Any UTF-8 is decoded,
characters of three and four bytes too.  `Cut` keeps the parser's limits, 16 parts
(`MaxOscParams`) and 1024 bytes (`MaxOscRaw`) of one OSC string; `Arrives` is about
texts there is room for (`Fits`), of which no byte is a control byte.

**Reflow.**  Pure operators on a *paper*, a sequence of rows with wrap flags:
split it at its hard breaks, join each logical line, trim it, cut it at the new
width without splitting a wide glyph, and put the cursor at the place of its
offset.  Its loops are recursive functions over the rows and the cells.  What the
code does with the padding before a wide glyph is kept as it
is (see below).

**HistoryScreen.**  A feed is any number of `Screen` operations followed by
`Capture`; nothing else runs between them, as `feed()` holds the object.  A
resize is three actions, the three branches of the code: `ResizeAlt` on the
alternate screen, `ResizeRows` and `ResizeColumns` on the primary one.

**AnsiParser.**  A byte stands for a class of bytes that no handler tells apart;
where two members of a class matter (two digits, two intermediates, `?` and
`<`) both are there.  A handler is a function from a parser and a byte to the
next parser and what the Performer is told (`says`).  Beside the parser runs a
*reference*: it never sees the ends of chunks and may at any ESC be replaced by a
new parser, so that equal outputs mean that neither the cuts nor anything
before the ESC can be felt.  `place` says where the parser stands with a character that
the end of a chunk cut: `advance_partial_utf8` fills its buffer of four from the next
chunk, and of a character of two bytes, one single byte and the start of something
longer it takes the first two together and looks at the first only.  `Swallow` is
that second byte, lost whatever it is; the reference does not get it either, so
that the comparison is about everything else.  `since` holds the bytes since the last ESC, from
which the properties compute what should have been reported; `bracket` follows
hook, put and unhook.  With `FreshPerChunk` a chunk meets a new parser, as in
`HistoryScreen::feed`; with `FALSE` it is the parser that `parser.rs` keeps.
`total` is the counter of values that the code compares with its limit, and
`Turns` says what the two messages a byte can cause at most do to the bracket.

## Runs

| Run | Question | Instance |
|---|---|---|
| `child` | do all watchers of one child agree, is nothing left behind, does everything return, is the promise kept? | 3 handles, 1 exit code, SIGTERM and SIGKILL (56,208 states) |
| `terminate` | does it wait for the grace period, always act, always return, is a death noticed? | grace 3, slice 2, slack 2, second wait 2, calls at time 0 and 1, clock to 9 (346,578 states) |
| `io` | is the stream conserved between readers, and what do timeouts leave intact? | 1 or 2 readers, with or without cancellations, reads of up to 3, window of 3, 5 bytes, 1 orphan (40,760 states) |
| `io_lossy_timeout` | is the stream conserved with timeouts? **no** | reads of up to 2, 4 bytes, 1 orphan |
| `spawn` | does everything have one owner, has a child its terminal only and its arguments, does a hangup arrive, is what a session tells true? | Unix: 2 calls, numbers 0 to 6, limit 7, one foreign file; Windows: exit codes 0 and 259, sizes 0, 24, 80 and 40000, program names of up to 2 characters, up to two arguments of up to 3 and 1 (58,571 states) |
| `events` | bells once, oldest lost first, truthful alternate-screen events? | a log of 3, 6 pushes |
| `screen` | can any sequence of operations break the grid or the parked screen, or change a row unheard? | 2x2 growing and shrinking, one narrow and one wide glyph, 5 operations (165,791 states) |
| `screen_deccolm` | ... with a real change of width by DECCOLM? **yes** | same |
| `rendition` | do flags and effects go together, does the pen survive the alternate screen, do SGR and directory reports mean what they say? | 5 sequences, 6 private modes, 3 SGR lists, 6 OSC reports; 14 SGR groups, up to 3 in a sequence, on 2 pens; paths of "/" and up to 3 of 10 bytes, every way of escaping them, 2 hosts, OSC strings of up to 4 parts and 17 bytes (231,410 states) |
| `history` | is the scrollback sound through feeds, resizes, reflows and capacities? | 2x2 resized to 1x2, 3x2, 2x1 and 1x3, capacities 0, 1 and 2, 6 operations |
| `parser` | does the split into sequences depend on the bytes alone, and report what was sent? | 6 bytes of those in `parser.cfg`, 2 parameters, 1 intermediate, small buffers (872,026 states) |
| `parser_cut` | ... when each chunk meets a new parser? **no** | the same, `FreshPerChunk` |

Some properties are conjunctions, since they answer one question: `CallsReturn`
(wait and Drop), `TerminateReturns` (returns, and the death is noticed),
`WellFormed` (type, rows as wide as the screen, cursor inside), `ReflowIsFaithful` (text, lines and
cursor), `SentIsReceived` (controls, devices, systems), and `BytesConserved` is
`ByteConserving` for readers that never cancel.  The type invariants are part of
`NeverGivesUp`, `EofIsTheEnd`, `HooksAreClosed`, `OnlyOwnersClose`,
`NothingIsOrphaned` and `DirectoryArrives`.

Why these bounds are enough to be worth something: three handles let two of them
race in Drop while a third waits, the most the code distinguishes (a thief, a
victim, a witness).  In `terminate` the grace period exceeds a
slice, so that futures are abandoned in every state, and the clock goes past
every deadline.  The log and the windows are smaller than what is pushed through
them, with chunks smaller than, equal to and larger than the cap.  With numbers
0 to 6 one call and the foreign file fit beside the standard descriptors and a
second call just about, so numbers are reused and also run out; two calls are
enough for a fork between another call's `openpty` and its close.  On a screen
of two rows and two columns every region, edge and pending wrap exists, five
operations suffice for each of "save, move, resize, restore" and "park, resize,
come back" with a drawing in front, and the mutants of `PROJECT.json` are all
caught within them.  Five sequences hold "set, switch, change, switch back,
look", and three SGR groups a colour between two attributes.  A reflow needs a line that wraps, a second line and a
change of width, for which six steps are enough with one narrow and one wide
glyph.  Six bytes hold a whole control, device or system sequence with a
separator and a cut in it, past every (shrunken) limit, and a cut character with all
that `Swallow` needs behind it.  The limits of an OSC string are those at which some of
the paths and escapes enumerated have room and others have not; among the bytes of
paths are those of characters of two and of three bytes.  `MaxSteps`, `MaxStack`,
`MaxClock`, `MaxBytes`, `MaxOrphans`, `LastCall`, `MaxTime`, `MaxFd`, `GroupCount`
and `PathLength` are bounds of the models and not of the code.  Deadlock is checked in
`events` and the parser runs only: a child that was never told to exit, a
session nobody reads or drops and a bounded counter may stop.

**Fairness.**  `ChildProcess`: the reaper thread and the tasks inside `wait()` or
Drop are operating-system threads or polled on one, and the kernel acts on a
pending SIGKILL; no child exits by itself or has to reach its `setsid()`, nobody has
to call anything.  `CallsReturn` therefore says of a Drop that it returns if its child
had its group when the SIGKILL was sent, and `TerminateReturns` that a death is noticed
unless the SIGKILL was lost (below).
`Terminate`: also the clock and the event loop.  `PtyIo`: readers read until they
get `b""`; a read that has bytes, or end of file, completes.  `Platform`: on Unix
each call runs on (`CallStep`), it is one poll without an await, and each child
runs its setup (`SetupStep`), which nobody stops; on Windows the runtime polls
the call and a `wait()` in flight, and Windows ends a process that
`TerminateProcess` was called on (`ProgramDies`).  No program has to exit by
itself and nobody has to drop a session.  Weak fairness is enough throughout.

## What the violations say

Each is a sentence of the documentation or of a comment, checked as it stands;
`PROJECT.json` quotes it.

* A read that timed out can still consume bytes which then go nowhere;
  concurrent reads are byte-conserving only without timeouts.
* DECCOLM (`CSI ? 3 h`/`l`) changes `columns` without touching the rows, so the
  next operation may index out of bounds.  `screen` therefore lets DECCOLM ask
  only for the width there already is.
* `feed()` makes a new parser for every chunk, so a sequence or a character cut
  by a chunk is not understood, although the parser is built and tested to go on
  where it stopped.

Other disagreements met while modelling, faithfully modelled and without a run
of their own:

* dropping a clone made by `clone_killer()` kills the child and may take its exit
  status, since every clone is a full `UnixChildProcess`
  (`platform_unix.rs:411,416` against `platform.rs:105-107`); nothing in the
  package calls it, and the Windows one copies raw handles that both close
  (`platform_windows.rs:188`);
* a signal sent before the child's `setsid()` (`platform_unix.rs:509`) finds no
  process group; the comment on ESRCH says that the group no longer exists and the
  process is dead, and the call reports success (`:399-402`).  The child lives on: a
  session dropped right after `spawn` polls `waitpid` in `Drop` for as long as the child
  cares to live (`:419`), and a `terminate()` whose every signal came too early
  returns over a living child.  `CallsReturn`, `NeverGivesUp` and `TerminateReturns` name the case;
* `openpty` succeeds and `fcntl` fails: nothing owns the two descriptors
  (`platform_unix.rs:455`); registering the master fails: the master stays open
  and a spawned child has no reaper (`:644`).  Both end in the stage "leaked";
* on Windows a call that fails or is cancelled leaves the handles of pipe
  clients and console open, and when it is cancelled while it answers conhost
  the program goes on without anybody to kill it (`platform_windows.rs:434,655`
  against the RAII section of `ARCHITECTURE.md`);
* `wait()` never ends for a program that exited with 259
  (`platform_windows.rs:288`), a window of more than 32767 is refused (`:370`), without
  `ResizePseudoConsole` `get_winsize` tells a size the console does not have (`:366-381`),
  an empty `env` inherits the parent's (`:619`), `interrupt()` signals the own
  console's group (`:267`) and the table of ConPTY functions is a `static mut`
  that two threads may fill (`:67`);
* a Python process without standard descriptors gets the slave on 0, 1 or 2, and
  the child closes it after `dup2`; the model's process has them;
* DECRC brings the mode flags back without what they switch
  (`screen.rs:705`); leaving the alternate screen by `?1049l` brings back a hidden
  cursor but not its flag, and `reset()` keeps a reversed blank.
  `EffectsFollowFlags` names these places;
* the components of a colour that is cut short act as attributes
  (`screen.rs:1017`);
* `draw` never consults the character sets, and designating G1 does not change
  the active one (`screen.rs:1208`); pushing a keyboard mode does not switch to
  it;
* a cursor report under origin mode subtracts the top margin from a row above it
  after `CSI 2;5r CSI ?6h` (`screen.rs:1083`);
* after `CSI r` the margins span the screen but are not `None`, and scrolling no
  longer feeds the scrollback (`screen.rs:936` against the comment above it);
* `scroll_down` walks in the wrong direction, so rows become blank that should
  move (`screen.rs:956` against `screen.rs:141`);
* a reflow with wide glyphs is not neutral: the pad before a wide glyph that
  does not fit counts as text in the next reflow; at width 1 a blank row
  precedes a wide glyph; a wide glyph in the last column swallows the leading
  blank of the row after it, for the skip is not forgotten at the line's end
  (`history.rs:480-483`).  `ReflowKeepsText` therefore says of such papers only
  that no glyph is lost or moved;
* a sub-parameter that follows `;` joins the group before it, `1;38:5` becoming
  one group (`ansi_parser.rs:27-34`); the Performer flattens groups, so nothing
  comes of it, and it also pays no attention to the flag of an overlong
  sequence;
* when a chunk ends inside a character of two bytes and its rest is followed by one
  single byte and the start of something longer, the single byte is lost, be it text, a
  control or ESC: of C3 and 9C 6D C3 the "m" is never seen (`ansi_parser.rs:233-241`
  prints one character and consumes all that was valid).  Only a parser kept over
  chunks can do it, as `AnsiParser` is built and tested to be; `HistoryScreen::feed` makes a new one each time;
* the parser keeps 16 parts and 1024 bytes of an OSC string and drops the rest in
  silence (`ansi_parser.rs:573,589`), so a directory beyond that is reported
  shortened, as another directory; `DirectoryArrives` is about those within;
* a C1 control sent as two bytes is printed when the chunk ends between them and
  obeyed otherwise; `parser.cfg` has no such bytes;
* a full event log drops a Bell and leaves `bell_pending`, so the two bell paths
  differ (`events.rs:9-11`);
* `HistoryScreen::reset` keeps `scrollback_grew` though pending events are said
  to be dropped (`screen.rs:263`);
* `raw_output` may hold less than the last `raw_output_cap` bytes, since whole
  chunks are evicted, and with a cap of 0 holds all of the last read, where no byte
  should be retained (`README.md:136,240`);
* the rows drained as dirty are said to be the modified ones, what to repaint
  (`README.md:299`, `ARCHITECTURE.md:243-244`, `terminal_api.rs:56-59`).  A scroll marks one
  row of the region it moves, IL and DL likewise not all of theirs, and a combining mark
  none (`screen.rs:724`): a front end has to repaint the whole scroll region when a row of it is
  marked.  `ChangesAreMarked` says what remains of the contract: a changed row is
  marked or was moved by a scroll in a region with a marked row, and no mark is
  lost before it is taken;
* a continuation row may scroll to the top and keep its flag, though row 0 is
  said never to have one (`screen.rs:138`);
* a wide glyph does not advance the cursor (`ARCHITECTURE.md:652`);
* shrinking discards written rows below the cursor, not only unused ones
  (`history.rs:385`);
* `terminate()` may return by its final `kill()` before `is_alive` turns false
  (`ARCHITECTURE.md:408`).

## Proofs

Every theorem is about the specification TLC checks, for all constants that
satisfy the module's assumption.  An invariant is rarely inductive as it stands;
each proof module defines the one that is, shows that the initial states have it
and that each action keeps it, one lemma or step per action, and derives the
rest.

**`ChildProofs`**, for any handles, exit codes and signals (`ChildAssumption`:
the original is one of the handles, SIGKILL one of the signals, codes, signals
and the two "none" values are distinct):

* `TypeCorrect`, `NoZombieBehindFlag`, `OneVerdict`, `LossHasACause`,
  `DropLeavesNothing`: types and the four invariants of run `child`; `WrittenOnce`: the action
  property `VerdictIsFinal`; `Refinement`: `ChildProcess` implements
  `ChildPromise`.
* `ImplementsChild`: whatever `Terminate` does is a behaviour of `ChildProcess`, so
  all of the above holds during a `terminate()`; `AlwaysActs` and `GraceIsKept` for
  any periods, slices and slack.

`IInv` adds how the reaper's position ties the kernel's process to the shared
fields (`ReaperInv`: it moves on only from a collected child, it is done exactly
when the flag is cleared, what it found is the true status), who collected the
child while the reaper has nothing (`ThiefInv`: some Drop that has returned), and
that an answer given is the field as it now is (`AnswerInv`, which needs that
the field never changes again).  The refinement maps `Exit` and `Deliver` to the end of
the process, `ReaperRecord` to the verdict, `EndWait` to an answer and every other
step to a stutter.  For `terminate()`, `ClockInv` relates the deadlines of both
loops to the start of the call and to the clock, and `StruckInv` says that a
future past its SIGKILL, or a call that returned, has a child that is dead or
cannot escape, or sent its SIGKILL before the child had a group.

**`PlatformProofs`**, for any number of calls and descriptors (`MaxFd < OpenMax`,
the kernel's own rule, without which `CloseRandomFds` would miss a number) and
any exit codes, sizes, programs and arguments:

* `OwnersOnly`, `LeftNothing`, `OwnTerminalOnly` on Unix, `NobodyOrphaned`,
  `ReportsTrue`, `ArgumentsKept` on Windows: the six invariants of run `spawn`.
* `ImplementsUnix`, `ImplementsWindows`: every step of `Platform` is a step of the
  backend that was built and a stutter of the other one, which is how the five
  that depend on steps follow from the backends' own invariants.

`UnixInv` says who owns each number of the Python process (`OthersInv`, `PairInv`:
a call has its master from `openpty` to the Drop and its slave to the close after
the fork, each under one number) and what a child has at each stage of its setup
(`ChildInv`: its pair above the standard numbers, and after `CloseRandomFds`
nothing else above them).  `WinInv` gives the handles at each stage of the call
(`CallInv`), ties the handles of a returned session to its users (`HalvesInv`), a
running program to somebody who kills it (`ProgramInv`), and the answer of
`wait()` to the exit code (`ReportInv`).

`ArgumentsKept` is about functions and not about steps: arguments of any length
are read back as they were.  What `append_quoted_wide` has written up to any
character, read between quotes, is the argument up to there less the backslashes
it holds back (`EscapeReadsBack`); a character that is no backslash brings them
with it, doubled before a quote, and the closing quote doubles them too
(`CloseReadsBack`).  An argument without quotes goes the same way (`BareReadsBack`),
the program's name by its simpler rule (`NameReadsBack`), and each further
argument extends the line behind a blank that ends the one before (`LineGrows`).

**`PtyIoProofs`**, for any finite set of readers, reads of any size and any number of bytes:

* `StreamConserved`, `LoneReaderInOrder`, `EndComesLast`, and for any cap, 0
  included, `WindowIsATail`: the four invariants of run `io`.

`IInv` says that what a reader holds and what the terminal was fed has been taken
from the kernel (`ChunkInv`, `FedInv`), that no byte is with two readers
(`ApartInv`) and that an end seen is the end (`EndInv`).  On top of it `StreamInv`:
nothing is fed twice (`OnceInv`), without cancellations every byte taken is
somewhere (`CoverInv`), and with one reader what is held comes after what was fed
(`OrderInv`).  `BytesConserved` counts, so its last step goes from "each once" to a
length.  `WindowInv` is what `_record_raw` keeps: the counter, which is added to and
subtracted from beside the chunks and alone drives the eviction, is their size; the
chunks are an end of what was fed, they fit, and unless they are all of it the last chunk
evicted had no room beside them, which bounds from below what the window holds.
With a cap of 0 the window holds the last read, which is as long as a read may be.

**`EventLogProofs`**, for a log of any positive size and any number of events: its
types and the three properties of run `events`.  `IInv` joins them and adds
that the log is finite and that stamps are given once and in order (`StampInv`).
`RoomMade` is the heart of it: what a full log gives up is older than all it
keeps, and one place is free after that; it needs that a set of stamps has a
least one, taken from the well-foundedness of `<`.  That the remaining
alternate-screen events still alternate follows from `TellAfterLoss` and
`TellAfterSwitch`.

**`RenditionProofs`**, for any sets of modes, lists and reports (`RenditionAssumption`:
parameters are numbers, groups are complete, paths are absolute, hosts have no
"/"; `OscAssumption`: an OSC string has room for the numbers in front of a report):

* `PenIsKept` and `FlagsAreFollowed`, the two action properties of run `rendition`.
  What is parked behind the alternate screen is what `entered` remembers
  (`ParkedInv`).
* `LastWordCounts` and `DirectoriesArrive`, its two invariants.  The first rests on
  `GroupsMeanWhatTheySay` and the second on `EveryDirectoryArrives`, which are about any
  number of groups, and about any path whose report has no control bytes and is within the
  parser's limits, whatever these are; the second also has the types of all
  variables, for which what DECSC has stacked and what is parked are pens too
  (`TypeInv`).

`GroupIsRead` takes the loop over one complete group, whatever stands before and
behind it: it stands at the next group with nothing left to skip, and the pen has
changed as the group says (`After`).  `OneWordMore` is the same step of the
reference, where the largest index that speaks of an aspect may or may not be the
new one; so both agree after each group.  That colours and attributes taken from a
parameter are all the group says is read off the tables (`GroupsAreWords`).

A path is escaped byte by byte, the codes are joined, and the decoder, at the
beginning of a code with none to skip, is behind it with that byte written
(`CodeIsRead`); `FlatPlace` says where in the text each code stands.  While
there is room, the parser has after each byte as many parts as there were ";" and
one, and as many bytes as there were others (`CutsAreCuts`), so that nothing is dropped
(`NothingLost`) and what was cut is joined to the same text again (`CutAndJoined`).  The scheme is found
in front of any text (`SchemeEnds`), and the host ends where the path begins,
since it has no "/" and the first byte of the path, which is one, is not escaped (`HostEnds`).

**`ScreenProofs`**, for screens of any size, any glyphs, counts and number of
operations:

* `AlwaysInPlace`, without any condition: the cursor, the scroll region and the
  dirty rows are on the screen.  It holds with `PlaceInv`, which adds the types of
  the saved cursors.
* While DECCOLM asks for the width there already is (`AnyDeccolm = FALSE`, since
  otherwise they are false, as run `screen_deccolm` shows): `AlwaysWellFormed`,
  `ParkedIsSafe`, `NoChangeUnheard`, the three properties of run `screen`; and
  `ScrollbackFits`, `ScrollbackOnlyGrows`, `WrittenLinesSurvive`, three of the four of
  run `history`, for any capacities and any resize, reflow included.

`Rectangular` says that rows and flags, those of the parked grid too, are exactly as
many and as wide as the screen; it needs `PlaceInv`, for a row outside of the
screen would be added to.  `ScrollbackInv` has the same of every line of the
scrollback and of those on their way to it, and that nothing is on its way
between feeds.  That a reflow returns lines of the new width and a cursor among
them goes through its two loops (`Readings`, `Sheets`): rows that are complete
have the width, the one being filled is shorter.  `WrittenLinesSurvive` rests on
the fact that a change of the rows pushes exactly the rows above the cursor that
no longer fit, or pulls back as many as there is room for.

**`AnsiParserProofs`**, for bytes of any of the classes and any limits:
`TypeCorrect` (`Sound`, in every state and through every handler), and when one
parser is kept over the chunks (`FreshPerChunk = FALSE`; `parser_cut` shows what
happens otherwise) `HooksClosed` and `CutsDoNotMatter`: of the bytes that are looked
at, no cut changes what is said.  What a cut does change is in the model, the one byte of `Swallow`.  `Kept` adds what an ESC
leaves behind: nothing.  `Now` tells from the state whether a hook is open, and
each handler turns the bracket accordingly (`Right`).  Two parsers are `Alike` when they
differ at most in the flag of a sub-parameter that no parameter has used; handlers
cannot tell such parsers apart (`Agree`), and a new one is like any other at an
ESC.  `CutsDoNotMatter` excludes the first byte of a C1 control sent as two
(`"C2" \notin Bytes`), which a cut does change.

Only model-checked:

* liveness (`DeathIsNoticed`, `CallsReturn`, `TerminateReturns`, `EverythingArrives`,
  `HangupReachesMaster`, `SessionEnds`): fairness and ENABLED are beyond the provers
  used here;
* `ReflowIsFaithful`: the text, the logical lines and the cursor through a reflow,
  of which only the shape is proved;
* `SentIsReceived`: what is reported is what was sent, up to the limits.

The library's induction theorems take an operator as a parameter, which the
provers at hand cannot instantiate.  Where a proof needs induction over data, it
takes the least element of a set of naturals (`SetInduction`) and, for a recursive
function, that it exists and is followed step by step (`Recursion`,
`AlongRecursion`, `SameRecursion`); the operators concerned are therefore written
as recursive functions over an interval.

## Not modelled

* The write path: `write` hands the buffer to the kernel and keeps nothing.
* `interact` and `expect`: loops over `read` and `write` that keep no state
  between calls; that `interact` can block against an echoing child is a property of the kernel's queues.
* Replies to the host (cursor and device reports): they change nothing in the
  terminal.
* The glyph table of `charsets.rs`, which `draw` never consults, and rendering.
* On Windows `clone_killer()`, which nothing calls, `interrupt()`, the environment block and the bytes
  that pass through the pipes (the Python side of reading is `PtyIo`).
* Reuse of process ids: `signal()` after the child has been reaped may reach
  another group (`platform_unix.rs:392`).
* Error conversion, module glue and the example programs.

`PROJECT.json` gives a reason for each.

## Plan

Done, in this order: the child process, `terminate()`, the read path, the event
log, the screen, the scrollback, reflow, the parser; then spawning on both
platforms, the pen and modes; then the proofs above.  What remains worth doing:

1. Proofs: of `ReflowIsFaithful` that every glyph comes out once and in order;
   `SentIsReceived` for the control sequences, which needs an invariant that ties
   the parser's fields to `since`.
2. The identity of logical lines under IL, DL, EL and margins; replies to the
   host, with the rows they report.
3. `write_all` and `interact` against a child that echoes, with bounded queues.
