----------------------------- MODULE ChildProofs -----------------------------
(***************************************************************************)
(* Proofs about ChildProcess, for any number of handles and any exit codes *)
(* and signals: type correctness, the safety invariants the TLC runs       *)
(* check, the finality of the verdict and the refinement of ChildPromise.  *)
(* And about Terminate on top of it, for any grace period, slice, slack    *)
(* and clock: SIGKILL waits for the grace period of the call in progress,  *)
(* and no call returns with its child alive and no SIGKILL sent.           *)
(***************************************************************************)
EXTENDS Terminate, TLAPS

\* Somebody's Drop has returned after collecting the child.
SomeDropped == \E h \in Handles : handle[h] = "dropped"

\* The kernel's and the reaper's side: a status exists once the child is
\* dead, and the reaper only moves on from a child that was collected.
ReaperInv ==
    /\ child = "alive" <=> status = NoStatus
    /\ reaper \in {"record", "done"} => child = "reaped"
    /\ running <=> reaper # "done"
    /\ found # NoStatus => found = status
    /\ exitStatus # NoStatus => (~running /\ exitStatus = status)

\* A child that the reaper has not (yet) a status of was collected by a Drop.
ThiefInv ==
    /\ child = "reaped" =>
          \/ SomeDropped
          \/ reaper = "record" /\ found # NoStatus
          \/ reaper = "done" /\ exitStatus # NoStatus
    /\ SomeDropped => child = "reaped"

AnswerInv ==
    \A h \in Handles :
        answer[h] # NoAnswer => (~running /\ answer[h] = exitStatus)

IInv == TypeOK /\ ReaperInv /\ ThiefInv /\ AnswerInv

-----------------------------------------------------------------------------
\* Initially nothing has happened to the child.
LEMMA InitEstablishes == Init => IInv
  BY ChildAssumption
  DEF Init, IInv, TypeOK, ReaperInv, ThiefInv, AnswerInv, SomeDropped, Statuses

\* Every step keeps the four parts of the invariant.
LEMMA NextPreserves == IInv /\ [Next]_vars => IInv'
<1> SUFFICES ASSUME IInv, [Next]_vars
             PROVE  IInv'
    OBVIOUS
<1> USE ChildAssumption
    DEF IInv, TypeOK, ReaperInv, ThiefInv, AnswerInv, SomeDropped, Statuses,
        kernelVars, groupVars, sharedVars, reaperVars
<1>1. ASSUME NEW c \in Codes, Exit(c) PROVE IInv'
    BY <1>1 DEF Exit, Die
<1>2. ASSUME NEW s \in Signals, Deliver(s) PROVE IInv'
    BY <1>2 DEF Deliver, Die
<1>3. ASSUME NEW s \in Signals, Ignore(s) PROVE IInv'
    BY <1>3 DEF Ignore
<1>4. CASE ReaperWake
    BY <1>4 DEF ReaperWake
<1>5. CASE ReaperProbe
    BY <1>5 DEF ReaperProbe
<1>6. CASE ReaperRecord
    BY <1>6 DEF ReaperRecord
<1>7. ASSUME NEW h \in Handles, BeginWait(h) PROVE IInv'
    BY <1>7 DEF BeginWait
<1>8. ASSUME NEW h \in Handles, EndWait(h) PROVE IInv'
    BY <1>8 DEF EndWait
<1>9. ASSUME NEW h \in Handles, NEW s \in Signals, Signal(h, s) PROVE IInv'
    BY <1>9 DEF Signal, Send
<1>10. ASSUME NEW h \in Handles, NEW k \in Handles, CloneKiller(h, k) PROVE IInv'
    BY <1>10 DEF CloneKiller
<1>11. ASSUME NEW h \in Handles, BeginDrop(h) PROVE IInv'
    BY <1>11 DEF BeginDrop
<1>12. ASSUME NEW h \in Handles, DropKill(h) PROVE IInv'
    BY <1>12 DEF DropKill, Send
<1>13. ASSUME NEW h \in Handles, DropReap(h) PROVE IInv'
    BY <1>13 DEF DropReap
<1>14. CASE Setsid
    BY <1>14 DEF Setsid
<1>15. CASE UNCHANGED vars
    BY <1>15 DEF vars
<1> QED
    BY <1>1, <1>2, <1>3, <1>4, <1>5, <1>6, <1>7, <1>8, <1>9, <1>10, <1>11,
       <1>12, <1>13, <1>14, <1>15
    DEF Next, ReaperStep, HandleStep

\* The strengthened invariant holds in every reachable state.
THEOREM Invariant == Spec => []IInv
  BY InitEstablishes, NextPreserves, PTL DEF Spec

\* Every variable keeps its type.
THEOREM TypeCorrect == Spec => []TypeOK
<1>1. IInv => TypeOK
    BY DEF IInv
<1> QED
    BY <1>1, Invariant, PTL

-----------------------------------------------------------------------------
\* is_running() = FALSE is never said of a child that is alive or a zombie.
THEOREM NoZombieBehindFlag == Spec => []NotRunningMeansReaped
<1>1. IInv => NotRunningMeansReaped
    BY DEF IInv, TypeOK, ReaperInv, NotRunningMeansReaped
<1> QED
    BY <1>1, Invariant, PTL

\* Every completed wait() reported the same, true verdict.
THEOREM OneVerdict == Spec => []AnswersAgree
<1>1. IInv => AnswersAgree
    BY DEF IInv, TypeOK, ReaperInv, AnswerInv, AnswersAgree
<1> QED
    BY <1>1, Invariant, PTL

\* Only a Drop that collected the child can cost its watchers the status.
THEOREM LossHasACause == Spec => []StatusLostOnlyToDrop
<1>1. IInv => StatusLostOnlyToDrop
    BY DEF IInv, TypeOK, ReaperInv, ThiefInv, SomeDropped, StatusLostOnlyToDrop
<1> QED
    BY <1>1, Invariant, PTL

\* A Drop that has returned leaves neither a process nor a zombie.
THEOREM DropLeavesNothing == Spec => []DroppedMeansReaped
<1>1. IInv => DroppedMeansReaped
    BY DEF IInv, ThiefInv, SomeDropped, DroppedMeansReaped
<1> QED
    BY <1>1, Invariant, PTL

\* No step writes the shared state after the reaper's one write: the reaper
\* is the only writer, and it has stopped once the flag is FALSE.
THEOREM WrittenOnce == Spec => VerdictIsFinal
<1>1. IInv /\ [Next]_vars => [~running => UNCHANGED sharedVars]_vars
  <2> SUFFICES ASSUME IInv, ~running, Next
               PROVE  UNCHANGED sharedVars
      OBVIOUS
  <2>1. reaper = "done"
      BY DEF IInv, ReaperInv
  <2>2. CASE ReaperStep
      BY <2>1, <2>2 DEF ReaperStep, ReaperWake, ReaperProbe, ReaperRecord, sharedVars
  <2>3. CASE ~ReaperStep
      BY <2>3 DEF Next, HandleStep, Exit, Deliver, Ignore, Setsid, BeginWait, EndWait,
         Signal, CloneKiller, BeginDrop, DropKill, DropReap, sharedVars
  <2> QED
      BY <2>2, <2>3
<1> QED
    BY <1>1, Invariant, PTL DEF Spec, VerdictIsFinal

-----------------------------------------------------------------------------
\* The threads together implement the one-verdict child of ChildPromise.
THEOREM Refinement == Spec => ImplementsPromise
<1>1. Init => Promise!Init
    BY DEF Init, Promise!Init
<1>2. IInv /\ [Next]_vars => [Promise!Next]_Promise!vars
  <2> SUFFICES ASSUME IInv, [Next]_vars
               PROVE  [Promise!Next]_Promise!vars
      OBVIOUS
  <2> USE DEF kernelVars, sharedVars, reaperVars, Promise!vars
  <2>1. ASSUME NEW c \in Codes, Exit(c) PROVE Promise!End(c)
      BY <2>1 DEF Exit, Die, Promise!End, IInv, ReaperInv
  <2>2. ASSUME NEW s \in Signals, Deliver(s) PROVE Promise!End(s)
      BY <2>2 DEF Deliver, Die, Promise!End, IInv, ReaperInv
  <2>3. CASE ReaperRecord
    <3>1. Promise!Conclude(exitStatus')
        BY <2>3 DEF ReaperRecord, Promise!Conclude, IInv, ReaperInv
    <3>2. exitStatus' \in {status, NoStatus}
        BY <2>3 DEF ReaperRecord, IInv, ReaperInv
    <3> QED
        BY <3>1, <3>2 DEF Promise!Next
  <2>4. ASSUME NEW h \in Handles, EndWait(h) PROVE Promise!Answer(h)
      BY <2>4 DEF EndWait, Promise!Answer
  <2>5. CASE ReaperWake \/ ReaperProbe \/ Setsid
      BY <2>5 DEF ReaperWake, ReaperProbe, Setsid
  <2>6. ASSUME NEW s \in Signals, Ignore(s) PROVE UNCHANGED Promise!vars
      BY <2>6 DEF Ignore
  <2>7. ASSUME NEW h \in Handles,
               \/ BeginWait(h)
               \/ \E s \in Signals : Signal(h, s)
               \/ \E k \in Handles : CloneKiller(h, k)
               \/ BeginDrop(h) \/ DropKill(h) \/ DropReap(h)
        PROVE  UNCHANGED Promise!vars
      BY <2>7 DEF BeginWait, Signal, Send, CloneKiller, BeginDrop, DropKill, DropReap
  <2>8. CASE UNCHANGED vars
      BY <2>8 DEF vars
  <2> QED
      BY <2>1, <2>2, <2>3, <2>4, <2>5, <2>6, <2>7, <2>8
      DEF Next, ReaperStep, HandleStep, Promise!Next, Statuses
<1> QED
    BY <1>1, <1>2, Invariant, PTL DEF Spec, ImplementsPromise, Promise!Spec
-----------------------------------------------------------------------------
(* terminate().                                                            *)

\* The types of what Terminate adds to the child.
CallType ==
    /\ now \in 0..MaxTime
    /\ py \in {"idle", "loop", "await", "returned", "cancelled"}
    /\ {start, deadline, innerDeadline} \subseteq Nat
    /\ sliceEnd \in 0..deadline
    /\ inner \in {"none", "term", "grace", "kill", "reap", "ok"}

\* There is a future only while the task awaits it, and both keep to the
\* deadlines of the call in progress.
ClockInv ==
    /\ start <= now
    /\ deadline <= start + Grace + Slack
    /\ py \in {"loop", "await"} => deadline = start + Grace + Slack
    /\ inner # "none" => py = "await"
    /\ inner = "grace" => innerDeadline >= start + Grace
    /\ inner = "kill" => now >= start + Grace

\* The child is dead, or a SIGKILL was sent: it cannot escape that one, unless
\* it was sent too early.
Struck == Doomed \/ KILL \in lost

StruckInv == (inner \in {"reap", "ok"} \/ py = "returned") => Struck

TermInv == IInv /\ CallType /\ ClockInv /\ StruckInv

-----------------------------------------------------------------------------
(* The child underneath.                                                   *)

\* kill(2) on the child can only doom it, and SIGKILL strikes.
LEMMA SignalStep ==
    ASSUME NEW s \in Signals, Signal(Main, s)
    PROVE  /\ Next
           /\ pending' \subseteq pending \cup {s}
           /\ Struck => Struck'
           /\ s = KILL => Struck'
           /\ UNCHANGED running
<1>1. Main \in Handles
    BY ChildAssumption DEF ChildAssumption
<1>2. Next
    BY <1>1 DEF Next, HandleStep
<1>. QED
    BY <1>2 DEF Signal, Send, sharedVars, Struck, Doomed

\* What happens to the child meanwhile neither undooms nor kills it.
LEMMA MeanwhileStep ==
    ASSUME ChildStep
    PROVE  /\ Next
           /\ pending' \subseteq pending
           /\ Struck => Struck'
<1>1. Next
    BY ChildAssumption DEF ChildAssumption, ChildStep, Next, HandleStep
<1>2. pending' \subseteq pending /\ (Struck => Struck')
    BY DEF ChildStep, Exit, Deliver, Die, Ignore, Setsid, ReaperStep, ReaperWake, ReaperProbe,
           ReaperRecord, BeginWait, EndWait, kernelVars, groupVars, Struck, Doomed
<1>. QED
    BY <1>1, <1>2

\* A step of the task, the future or the clock alone leaves the child as it was.
LEMMA UntouchedStep ==
    ASSUME IInv, UNCHANGED childVars
    PROVE  IInv' /\ (Struck => Struck')
<1>1. IInv'
    BY NextPreserves DEF childVars
<1>. QED
    BY <1>1 DEF childVars, vars, kernelVars, groupVars, Struck, Doomed

\* A child that is not running is dead.
LEMMA NotRunningIsStruck ==
    ASSUME IInv, ~running
    PROVE  Struck
<1>. QED
    BY DEF IInv, TypeOK, ReaperInv, Struck, Doomed

-----------------------------------------------------------------------------
\* The invariant holds at the start.
LEMMA TermInitEstablishes == TermInit => TermInv
<1>. SUFFICES ASSUME TermInit PROVE TermInv
    OBVIOUS
<1>1. Init
    BY DEF TermInit
<1>2. IInv
    BY <1>1, InitEstablishes
<1>3. CallType /\ ClockInv /\ StruckInv
    BY TerminateAssumption DEF TerminateAssumption, TermInit, CallType, ClockInv, StruckInv
<1>. QED
    BY <1>2, <1>3 DEF TermInv

\* The Python task preserves it.
LEMMA PyPreserves ==
    ASSUME TermInv, Call \/ PyStep \/ Cancel
    PROVE  TermInv'
<1>. USE TerminateAssumption DEF TerminateAssumption, TermInv, pyVars, innerVars
<1>0. UNCHANGED childVars => IInv' /\ (Struck => Struck')
    BY UntouchedStep
<1>1. CASE Call
    BY <1>0, <1>1 DEF Call, CallType, ClockInv, StruckInv
<1>2. CASE GiveUp
    <2>1. /\ IInv'
          /\ Struck'
        <3>1. KILL \in Signals
            BY ChildAssumption DEF ChildAssumption
        <3>2. Signal(Main, KILL)
            BY <1>2 DEF GiveUp
        <3>. QED
            BY <3>1, <3>2, SignalStep, NextPreserves
    <2>. QED
        BY <1>2, <2>1 DEF GiveUp, CallType, ClockInv, StruckInv
<1>3. CASE BeginSlice
    <2>1. sliceEnd' \in 0..deadline
        BY <1>3 DEF BeginSlice, CallType, Earlier
    <2>. QED
        BY <1>0, <1>3, <2>1 DEF BeginSlice, CallType, ClockInv, StruckInv
<1>4. CASE SliceDone
    BY <1>0, <1>4 DEF SliceDone, CallType, ClockInv, StruckInv
<1>5. CASE SliceOver
    BY <1>0, <1>5 DEF SliceOver, CallType, ClockInv, StruckInv
<1>6. CASE Cancel
    BY <1>0, <1>6 DEF Cancel, CallType, ClockInv, StruckInv
<1>. QED
    BY <1>1, <1>2, <1>3, <1>4, <1>5, <1>6 DEF PyStep

\* So does the Rust future.
LEMMA InnerPreserves ==
    ASSUME TermInv, InnerStep
    PROVE  TermInv'
<1>. USE TerminateAssumption DEF TerminateAssumption, TermInv, pyVars, innerVars
<1>0. UNCHANGED childVars => IInv' /\ (Struck => Struck')
    BY UntouchedStep
<1>1. CASE InnerTerm
    <2>1. Signal(Main, TERM)
        BY <1>1 DEF InnerTerm
    <2>2. IInv' /\ (Struck => Struck')
        BY <2>1, SignalStep, NextPreserves
    <2>. QED
        BY <1>1, <2>2 DEF InnerTerm, CallType, ClockInv, StruckInv
<1>2. CASE InnerGrace
    <2>1. ~running => Struck
        BY NotRunningIsStruck
    <2>2. running => now >= innerDeadline
        BY <1>2 DEF InnerGrace
    <2>. QED
        BY <1>0, <1>2, <2>1, <2>2 DEF InnerGrace, CallType, ClockInv, StruckInv
<1>3. CASE InnerKill
    <2>1. Signal(Main, KILL) /\ KILL \in Signals
        BY <1>3, ChildAssumption DEF InnerKill, ChildAssumption
    <2>2. IInv' /\ Struck'
        BY <2>1, SignalStep, NextPreserves
    <2>. QED
        BY <1>3, <2>2 DEF InnerKill, CallType, ClockInv, StruckInv
<1>4. CASE InnerReap
    BY <1>0, <1>4 DEF InnerReap, CallType, ClockInv, StruckInv
<1>. QED
    BY <1>1, <1>2, <1>3, <1>4 DEF InnerStep

\* And every other step.
LEMMA TermNextPreserves == TermInv /\ [TermNext]_termVars => TermInv'
<1>. SUFFICES ASSUME TermInv, [TermNext]_termVars PROVE TermInv'
    OBVIOUS
<1>. USE TerminateAssumption DEF TerminateAssumption, pyVars, innerVars
<1>0. UNCHANGED childVars => IInv' /\ (Struck => Struck')
    BY UntouchedStep DEF TermInv
<1>1. CASE UNCHANGED termVars
    BY <1>0, <1>1 DEF termVars, TermInv, CallType, ClockInv, StruckInv
<1>2. CASE Call \/ PyStep \/ Cancel
    BY <1>2, PyPreserves
<1>3. CASE InnerStep
    BY <1>3, InnerPreserves
<1>4. CASE ChildStep
    <2>1. IInv' /\ (Struck => Struck')
        BY <1>4, MeanwhileStep, NextPreserves DEF TermInv
    <2>. QED
        BY <1>4, <2>1 DEF ChildStep, TermInv, CallType, ClockInv, StruckInv
<1>5. CASE Tick
    BY <1>0, <1>5 DEF Tick, TermInv, CallType, ClockInv, StruckInv
<1>. QED
    BY <1>1, <1>2, <1>3, <1>4, <1>5 DEF TermNext

\* It holds throughout.
LEMMA TermInvariantHolds == TermSpec => []TermInv
<1>. QED
    BY TermInitEstablishes, TermNextPreserves, PTL DEF TermSpec

-----------------------------------------------------------------------------
(* The theorems.                                                           *)

\* All that terminate() does to its child is what ChildProcess lets a caller
\* do, so everything proved of the child above holds under it, too.
THEOREM ImplementsChild == TermSpec => Spec
<1>1. TermInit => Init
    BY DEF TermInit
<1>2. [TermNext]_termVars => [Next]_vars
    <2>. SUFFICES ASSUME TermNext, ~UNCHANGED vars PROVE Next
        BY DEF termVars, childVars
    <2>1. GiveUp \/ InnerTerm \/ InnerKill \/ ChildStep
        BY DEF TermNext, PyStep, InnerStep, Call, BeginSlice, SliceDone, SliceOver, Cancel,
               InnerGrace, InnerReap, Tick, childVars
    <2>2. {KILL, TERM} \subseteq Signals
        BY ChildAssumption, TerminateAssumption DEF ChildAssumption, TerminateAssumption
    <2>. QED
        BY <2>1, <2>2, SignalStep, MeanwhileStep DEF GiveUp, InnerTerm, InnerKill
<1>. QED
    BY <1>1, <1>2, PTL DEF TermSpec, Spec

\* terminate() does not return with the child neither dead nor about to be
\* killed, however its slices and its future end (terminate() in __init__.py),
\* unless its SIGKILL came before the child's setsid().
THEOREM AlwaysActs == TermSpec => []NeverGivesUp
<1>1. TermInv => NeverGivesUp
    <2>. SUFFICES ASSUME TermInv PROVE NeverGivesUp
        OBVIOUS
    <2>1. TypeOK
        BY DEF TermInv, IInv
    <2>. QED
        BY <2>1 DEF TermInv, CallType, StruckInv, Struck, CallTypeOK, NeverGivesUp
<1>. QED
    BY <1>1, TermInvariantHolds, PTL

\* No SIGKILL is sent before the grace period of the call in progress is over,
\* however often its future is abandoned and started again.
THEOREM GraceIsKept == TermSpec => KillOnlyAfterGrace
<1>1. TermInv /\ [TermNext]_termVars => [(KILL \in pending' \ pending) => (now >= start + Grace)]_termVars
    <2>. SUFFICES ASSUME TermInv, TermNext, KILL \in pending' \ pending PROVE now >= start + Grace
        OBVIOUS
    <2>. USE TerminateAssumption DEF TerminateAssumption, TermInv
    <2>1. CASE GiveUp
        BY <2>1 DEF GiveUp, CallType, ClockInv
    <2>2. CASE InnerKill
        BY <2>2 DEF InnerKill, ClockInv
    <2>3. CASE InnerTerm
        BY <2>3, SignalStep DEF InnerTerm
    <2>4. CASE ChildStep
        BY <2>4, MeanwhileStep
    <2>5. CASE UNCHANGED childVars
        BY <2>5 DEF childVars, vars, kernelVars
    <2>6. CASE Call \/ BeginSlice \/ SliceDone \/ SliceOver \/ Cancel \/ InnerGrace \/ InnerReap \/ Tick
        BY <2>5, <2>6 DEF Call, BeginSlice, SliceDone, SliceOver, Cancel, InnerGrace, InnerReap, Tick
    <2>. QED
        BY <2>1, <2>2, <2>3, <2>4, <2>6 DEF TermNext, PyStep, InnerStep
<1>. QED
    BY <1>1, TermInvariantHolds, PTL DEF TermSpec, KillOnlyAfterGrace
=============================================================================
