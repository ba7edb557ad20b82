---------------------------- MODULE PauseProofs ----------------------------
(***************************************************************************)
(* The invariants of Pause, however often the settings are changed.        *)
(***************************************************************************)
EXTENDS Pause, TLAPS

TypeOK ==
    /\ dopause \in BOOLEAN /\ do_pause_ack \in BOOLEAN /\ pause_ack \in BOOLEAN
    /\ back \in Resetting \cup {"block"}
    /\ next \in {"free", "change", "dialog"}
    /\ saved \in Nat /\ read \in Nat /\ built \in Nat /\ late \in Nat

\* A request is answered once.
OneAnswer == ~(pause_ack /\ do_pause_ack)

\* Until the block that pc_run() was called for begins, a pause of the user
\* interface has seen none.
FirstBlock == cpu \in {"run", "reset", "begin"} /\ dopause => late = 0

\* The reset under way sees the settings as they are, or will be repeated.
ReadsSaved == Underway /\ ~hard_reset_pending /\ ui # "save" => read = saved

IInv ==
    /\ TypeOK /\ AckIsFresh /\ OneAnswer
    /\ PauseHolds /\ FirstBlock
    /\ ResetApplies /\ ReadsSaved

-----------------------------------------------------------------------------
(* The invariant is inductive. *)

\* The steps of the emulation thread keep the invariant.
LEMMA CpuKeeps ==
    ASSUME IInv, CpuStep
    PROVE  IInv'
<1> USE DEF IInv, TypeOK, AckIsFresh, OneAnswer, PauseHolds, FirstBlock, ResetApplies,
            ReadsSaved, Underway, Resetting, CpuGoes, flags, run, call, machine
<1>1. CASE Run  BY <1>1 DEF Run
<1>2. CASE Pass  BY <1>2 DEF Pass
<1>3. CASE ThreadEnds  BY <1>3 DEF ThreadEnds
<1>4. CASE StartReset("run", "reset")  BY <1>4 DEF StartReset
<1>5. CASE StartReset("idle", "idle_reset")  BY <1>5 DEF StartReset
<1>6. CASE ~hard_reset_pending /\ StartBlock("run")  BY <1>6 DEF StartBlock
<1>7. CASE EndRun  BY <1>7 DEF EndRun
<1>8. CASE NoReset  BY <1>8 DEF NoReset
<1>9. CASE IdleAck  BY <1>9 DEF IdleAck, Ack
<1>10. CASE EndBlock  BY <1>10 DEF EndBlock, Ack
<1>11. CASE GuestResets  BY <1>11 DEF GuestResets
<1>12. CASE PowerOff  BY <1>12 DEF PowerOff
<1>13. CASE WarnEnds  BY <1>13 DEF WarnEnds
<1>14. ASSUME NEW at \in Resetting \cup {"block"}, Warn(at) PROVE IInv'
  BY <1>14 DEF Warn
<1>15. CASE EndReset("reset", "begin")  BY <1>15 DEF EndReset, Mixed
<1>16. CASE EndReset("idle_reset", "idle_ack")  BY <1>16 DEF EndReset, Mixed
<1>17. CASE StartBlock("begin")  BY <1>17 DEF StartBlock
<1> QED
  BY CpuStep, <1>1, <1>2, <1>3, <1>4, <1>5, <1>6, <1>7, <1>8, <1>9, <1>10, <1>11, <1>12,
     <1>13, <1>14, <1>15, <1>16, <1>17 DEF CpuStep, LoopStep

\* The steps of the user interface keep the invariant.
LEMMA UiKeeps ==
    ASSUME IInv, UiStep
    PROVE  IInv'
<1> USE DEF IInv, TypeOK, AckIsFresh, OneAnswer, PauseHolds, FirstBlock, ResetApplies,
            ReadsSaved, Underway, Resetting, UiGoes, Calls, flags, run, call, machine
<1>1. CASE PlatPause  BY <1>1 DEF PlatPause
<1>2. CASE Ask  BY <1>2 DEF Ask
<1>3. CASE SetAndWait  BY <1>3 DEF SetAndWait
<1>4. CASE Set
  <2>1. dopause' = TRUE \/ dopause' = FALSE  BY <1>4, Zenon DEF Set
  <2>2. UiGoes("set", next) /\ pause_ack' = FALSE /\ late' = 0
        /\ UNCHANGED <<do_pause_ack, run, call, saved>>
    BY <1>4 DEF Set
  <2>3. TypeOK'  BY <2>1, <2>2
  <2>4. AckIsFresh' /\ OneAnswer' /\ PauseHolds' /\ FirstBlock'  BY <2>2
  <2>5. ResetApplies' /\ ReadsSaved'  BY <2>2
  <2> QED  BY <2>3, <2>4, <2>5
<1>5. CASE Spin  BY <1>5 DEF Spin
<1>6. CASE Pressed  BY <1>6 DEF Pressed, SetBack
<1>7. CASE Saved  BY <1>7 DEF Saved, SetBack
<1>8. CASE Toggle  BY <1>8 DEF Toggle
<1>9. ASSUME NEW place \in {"change", "dialog"}, PauseFor(place) PROVE IInv'
  BY <1>9 DEF PauseFor
<1>10. CASE Cancel  BY <1>10 DEF Cancel, SetBack
<1>11. CASE Save  BY <1>11 DEF Save
<1>12. CASE HardReset  BY <1>12 DEF HardReset
<1>13. CASE Close  BY <1>13 DEF Close
<1>14. CASE Quit  BY <1>14 DEF Quit
<1>15. CASE ShowMessage  BY <1>15 DEF ShowMessage
<1> QED
  BY UiStep, <1>1, <1>2, <1>3, <1>4, <1>5, <1>6, <1>7, <1>8, <1>9, <1>10, <1>11, <1>12,
     <1>13, <1>14, <1>15 DEF UiStep, PauseStep

\* The invariant holds in every reachable state.
THEOREM Invariance == Spec => []IInv
<1>1. Init => IInv
  <2> SUFFICES ASSUME Init PROVE IInv
    OBVIOUS
  <2>1. TypeOK  BY DEF Init, TypeOK, Resetting
  <2>2. AckIsFresh /\ OneAnswer /\ FirstBlock
    BY DEF Init, AckIsFresh, OneAnswer, FirstBlock
  <2>3. PauseHolds  BY DEF Init, PauseHolds
  <2>4. ResetApplies /\ ReadsSaved  BY DEF Init, ResetApplies, ReadsSaved
  <2> QED  BY <2>1, <2>2, <2>3, <2>4 DEF IInv
<1>2. IInv /\ [Next]_vars => IInv'
  <2> SUFFICES ASSUME IInv, [Next]_vars PROVE IInv'
    OBVIOUS
  <2>1. CASE CpuStep  BY <2>1, CpuKeeps
  <2>2. CASE UiStep  BY <2>2, UiKeeps
  <2>3. CASE UNCHANGED vars
    BY <2>3 DEF vars, flags, run, call, machine, IInv, TypeOK, AckIsFresh, OneAnswer,
                PauseHolds, FirstBlock, ResetApplies, ReadsSaved, Underway, Resetting
  <2> QED  BY <2>1, <2>2, <2>3 DEF Next
<1> QED  BY <1>1, <1>2, PTL DEF Spec

-----------------------------------------------------------------------------
(* The properties. *)

\* No answer and no request of the pause handshake outlives its do_pause().
THEOREM AcksAreFresh == Spec => []AckIsFresh
<1>1. IInv => AckIsFresh  BY DEF IInv
<1> QED  BY <1>1, Invariance, PTL

\* Under a pause the emulation thread begins at most the block that it had
\* already called pc_run() for.
THEOREM PausesHold == Spec => []PauseHolds
<1>1. IInv => PauseHolds  BY DEF IInv
<1> QED  BY <1>1, Invariance, PTL

\* No request for a hard reset is lost: when none is left, the machine is built
\* from the settings as they are.
THEOREM ResetsApply == Spec => []ResetApplies
<1>1. IInv => ResetApplies  BY DEF IInv
<1> QED  BY <1>1, Invariance, PTL

-----------------------------------------------------------------------------
(* The answer that do_pause() waits for. *)

Asking == ui \in {"set_wait", "spin"}

\* Without an automation client the answer to a do_pause() of the user interface is not
\* lost, although warning() writes pause_ack: until do_pause() has seen it, it is still
\* to be given or has been given, or a warning() waits for its box.
AnswerKept == Asking /\ ~automation => do_pause_ack \/ pause_ack \/ cpu = "warn"

\* A warning() whose box is gone began before the request, which it does not answer.
AInv == AnswerKept /\ (Asking /\ ~automation /\ cpu = "told" => do_pause_ack)

\* Every step of both threads keeps the answer.
LEMMA AnswerStep == IInv /\ AInv /\ [Next]_vars => AInv'
<1> SUFFICES ASSUME IInv, AInv, [Next]_vars PROVE AInv'
  OBVIOUS
<1> USE DEF AInv, AnswerKept, Asking
<1>1. CASE CpuStep
  <2> USE DEF CpuGoes, flags, Resetting
  <2>1. CASE Run \/ Pass \/ ThreadEnds \/ EndRun \/ NoReset  BY <2>1 DEF Run, Pass, ThreadEnds, EndRun, NoReset
  <2>2. CASE StartReset("run", "reset") \/ StartReset("idle", "idle_reset")  BY <2>2 DEF StartReset
  <2>3. CASE StartBlock("run") \/ StartBlock("begin")  BY <2>3 DEF StartBlock
  <2>4. CASE IdleAck \/ EndBlock  BY <2>4 DEF IdleAck, EndBlock, Ack
  <2>5. CASE GuestResets \/ PowerOff  BY <2>5 DEF GuestResets, PowerOff
  <2>6. CASE WarnEnds  BY <2>6 DEF WarnEnds, IInv, TypeOK
  <2>7. ASSUME NEW at \in Resetting \cup {"block"}, Warn(at) PROVE AInv'
    BY <2>7 DEF Warn
  <2>8. CASE EndReset("reset", "begin") \/ EndReset("idle_reset", "idle_ack")  BY <2>8 DEF EndReset
  <2> QED
    BY <1>1, <2>1, <2>2, <2>3, <2>4, <2>5, <2>6, <2>7, <2>8
    DEF CpuStep, LoopStep
<1>2. CASE UiStep
  <2> USE DEF UiGoes, Calls, flags
  <2>1. CASE PlatPause  BY <2>1 DEF PlatPause, IInv, TypeOK
  <2>2. CASE Ask \/ SetAndWait  BY <2>2 DEF Ask, SetAndWait
  <2>3. CASE Set \/ Spin  BY <2>3 DEF Set, Spin, IInv, TypeOK
  <2>4. CASE Pressed \/ Saved \/ Cancel  BY <2>4 DEF Pressed, Saved, Cancel, SetBack
  <2>5. CASE Toggle \/ Save \/ HardReset \/ Close \/ Quit  BY <2>5 DEF Toggle, Save, HardReset, Close, Quit
  <2>6. ASSUME NEW place \in {"change", "dialog"}, PauseFor(place) PROVE AInv'
    BY <2>6 DEF PauseFor
  <2>7. CASE ShowMessage  BY <2>7 DEF ShowMessage
  <2> QED
    BY <1>2, <2>1, <2>2, <2>3, <2>4, <2>5, <2>6, <2>7
    DEF UiStep, PauseStep
<1>3. CASE UNCHANGED vars
  BY <1>3 DEF vars, flags
<1> QED  BY <1>1, <1>2, <1>3 DEF Next

\* do_pause() on the user interface's thread waits for an answer that will come, unless
\* a warning() waits for that same thread: what PauseReturns rests on, and that of its
\* exceptions the lost answer is due to automation clients alone.
THEOREM AnswersKept == Spec => []AnswerKept
<1>1. Init => AInv
  BY DEF Init, AInv, AnswerKept, Asking
<1>2. AInv => AnswerKept
  BY DEF AInv
<1> QED  BY <1>1, <1>2, AnswerStep, Invariance, PTL DEF Spec
=============================================================================
