----------------------------- MODULE Terminate ------------------------------
(***************************************************************************)
(* PtySession.terminate(grace) of python/stitch_pty/__init__.py over       *)
(* PtyChild::terminate of python_api.rs over the Unix child process: the   *)
(* Python loop gives the Rust future slices of 100 ms, abandons it when a  *)
(* slice is over, and starts it again.  Time is counted in ticks; a step   *)
(* may come arbitrarily late, never early.                                 *)
(***************************************************************************)
EXTENDS Naturals, ChildProcess

CONSTANTS
    TERM,      \* SIGTERM
    Grace,     \* grace_period
    Slice,     \* the 0.1 s of asyncio.wait_for
    Slack,     \* the 2.0 s the Python loop adds to the grace period
    KillWait,  \* the 2 s the Rust future waits after its SIGKILL
    LastCall,  \* bound: terminate() is not called later than this
    MaxTime    \* bound: the clock stops here

ASSUME TerminateAssumption ==
    /\ TERM \in Signals \ {KILL}
    /\ {Grace, Slice, Slack, KillWait, LastCall, MaxTime} \subseteq Nat
    /\ Slice > 0

VARIABLES
    now,            \* the clock
    py,             \* where the Python task is
    start,          \* when terminate() was called
    deadline,       \* `deadline` of the Python loop
    sliceEnd,       \* when wait_for gives up on the current future
    inner,          \* where the Rust future is
    innerDeadline   \* `deadline`, then `kill_deadline`, of the Rust future

childVars == vars
pyVars == <<py, start, deadline, sliceEnd>>
innerVars == <<inner, innerDeadline>>
termVars == <<childVars, now, pyVars, innerVars>>

TermInit ==
    /\ Init
    /\ now = 0
    /\ py = "idle"
    /\ start = 0 /\ deadline = 0 /\ sliceEnd = 0
    /\ inner = "none" /\ innerDeadline = 0

Earlier(a, b) == IF a < b THEN a ELSE b

-----------------------------------------------------------------------------
(* The Python task.                                                        *)

Call ==
    /\ py \in {"idle", "returned", "cancelled"}
    /\ now <= LastCall
    /\ py' = "loop"
    /\ start' = now
    /\ deadline' = now + Grace + Slack
    /\ UNCHANGED <<childVars, now, sliceEnd, innerVars>>

\* Mutant: the loop gives up without the final kill().
GiveUpSilently ==
    /\ py = "loop"
    /\ now >= deadline
    /\ py' = "returned"
    /\ UNCHANGED <<childVars, now, start, deadline, sliceEnd, innerVars>>

\* `remaining <= 0`: kill() and return, whatever became of the child.
GiveUp ==
    /\ py = "loop"
    /\ now >= deadline
    /\ Signal(Main, KILL)
    /\ py' = "returned"
    /\ UNCHANGED <<now, start, deadline, sliceEnd, innerVars>>

\* Mutant: the deadline is computed anew on every turn of the loop.
BeginSliceAnew ==
    /\ py = "loop"
    /\ now < deadline
    /\ py' = "await"
    /\ sliceEnd' = now + Earlier(deadline - now, Slice)
    /\ deadline' = now + Grace + Slack
    /\ inner' = "term"
    /\ UNCHANGED <<childVars, now, start, innerDeadline>>

\* Otherwise a new future, for a slice of what remains.
BeginSlice ==
    /\ py = "loop"
    /\ now < deadline
    /\ py' = "await"
    /\ sliceEnd' = now + Earlier(deadline - now, Slice)
    /\ inner' = "term"
    /\ UNCHANGED <<childVars, now, start, deadline, innerDeadline>>

SliceDone ==
    /\ py = "await"
    /\ inner = "ok"
    /\ py' = "returned"
    /\ inner' = "none"
    /\ UNCHANGED <<childVars, now, start, deadline, sliceEnd, innerDeadline>>

\* TimeoutError: the future is cancelled, also one that has just finished.
SliceOver ==
    /\ py = "await"
    /\ now >= sliceEnd
    /\ py' = "loop"
    /\ inner' = "none"
    /\ UNCHANGED <<childVars, now, start, deadline, sliceEnd, innerDeadline>>

\* The caller cancels the task that awaits terminate().
Cancel ==
    /\ py = "await"
    /\ py' = "cancelled"
    /\ inner' = "none"
    /\ UNCHANGED <<childVars, now, start, deadline, sliceEnd, innerDeadline>>

-----------------------------------------------------------------------------
(* The Rust future.                                                        *)

InnerTerm ==
    /\ inner = "term"
    /\ Signal(Main, TERM)
    /\ inner' = "grace"
    /\ innerDeadline' = now + Grace
    /\ UNCHANGED <<now, pyVars>>

\* Mutant: one look at is_running() instead of a loop until the deadline.
InnerGraceOnce ==
    /\ inner = "grace"
    /\ inner' = IF running THEN "kill" ELSE "ok"
    /\ UNCHANGED <<childVars, now, pyVars, innerDeadline>>

InnerGrace ==
    /\ inner = "grace"
    /\ ~running \/ now >= innerDeadline
    /\ inner' = IF running THEN "kill" ELSE "ok"
    /\ UNCHANGED <<childVars, now, pyVars, innerDeadline>>

InnerKill ==
    /\ inner = "kill"
    /\ Signal(Main, KILL)
    /\ inner' = "reap"
    /\ innerDeadline' = now + KillWait
    /\ UNCHANGED <<now, pyVars>>

InnerReap ==
    /\ inner = "reap"
    /\ ~running \/ now >= innerDeadline
    /\ inner' = "ok"
    /\ UNCHANGED <<childVars, now, pyVars, innerDeadline>>

-----------------------------------------------------------------------------
(* The child, its reaper and another task's wait() run on meanwhile.       *)

ChildStep ==
    /\ \/ \E c \in Codes : Exit(c)
       \/ \E s \in Signals : Deliver(s) \/ Ignore(s)
       \/ Setsid
       \/ ReaperStep
       \/ BeginWait(Main)
       \/ EndWait(Main)
    /\ UNCHANGED <<now, pyVars, innerVars>>

Tick ==
    /\ now < MaxTime
    /\ now' = now + 1
    /\ UNCHANGED <<childVars, pyVars, innerVars>>

PyStep == GiveUp \/ BeginSlice \/ SliceDone \/ SliceOver
InnerStep == InnerTerm \/ InnerGrace \/ InnerKill \/ InnerReap

TermNext == Call \/ PyStep \/ Cancel \/ InnerStep \/ ChildStep \/ Tick

TermSpec == TermInit /\ [][TermNext]_termVars

\* Time passes, the event loop and the runtime's threads get to run, the
\* reaper polls and the kernel acts on SIGKILL.  Nobody has to call or to
\* cancel terminate(), and no child has to heed SIGTERM.
TermFairness ==
    /\ WF_termVars(Tick)
    /\ WF_termVars(PyStep)
    /\ WF_termVars(InnerStep)
    /\ WF_termVars(ReaperStep /\ UNCHANGED <<now, pyVars, innerVars>>)
    /\ WF_termVars(Deliver(KILL) /\ UNCHANGED <<now, pyVars, innerVars>>)

TermFairSpec == TermSpec /\ TermFairness

-----------------------------------------------------------------------------
CallTypeOK ==
    /\ TypeOK
    /\ now \in 0..MaxTime
    /\ py \in {"idle", "loop", "await", "returned", "cancelled"}
    /\ {start, deadline, innerDeadline} \subseteq Nat
    /\ sliceEnd \in 0..deadline
    /\ inner \in {"none", "term", "grace", "kill", "reap", "ok"}

\* "Wait for graceful exit, then SIGKILL": no SIGKILL before the grace
\* period of the call in progress is over, however often the future is
\* abandoned and started again.
KillOnlyAfterGrace ==
    [][(KILL \in pending' \ pending) => (now >= start + Grace)]_termVars

\* terminate() does not return with the child neither dead nor about to be
\* killed, unless the SIGKILL came before the child's setsid() and was lost;
\* and no slice outlasts the deadline of the call (CallTypeOK).
NeverGivesUp ==
    /\ CallTypeOK
    /\ py = "returned" => Doomed \/ KILL \in lost

\* Every terminate() that is not cancelled returns, and the child it was
\* called on is eventually reported dead, unless the SIGKILL was lost.
TerminateReturns ==
    /\ (py = "loop") ~> (py \in {"returned", "cancelled"})
    /\ (py = "returned" /\ KILL \notin lost) ~> ~running
=============================================================================
