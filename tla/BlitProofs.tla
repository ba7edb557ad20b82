----------------------------- MODULE BlitProofs -----------------------------
(***************************************************************************)
(* Proofs about Blit: for every set of frames, and whether or not the user *)
(* interface waits before it changes the blit function, the emulation      *)
(* thread never draws into the buffer that is being copied, the two        *)
(* threads implement a slot for one frame, and neither sleeps on an event  *)
(* that nobody is going to set.                                            *)
(***************************************************************************)
EXTENDS Blit, TLAPS

\* A blit was announced and the blit thread has not copied the frame.
Announced == wake_blit_thread \/ blit \in {"reset", "call", "copy"}

\* The blit thread is between its wake-up and the end of the loop's body.
Working == Announced \/ blit \in {"signal_buffer", "finish"}

\* What the flags say of where the threads are. Only the wake-up that closes the
\* monitor comes without a frame (emu = "join").
IInv ==
    /\ TypeOK
    /\ Announced => buffer_in_use \/ emu = "join"
    /\ Working => busy \/ emu = "join"
    /\ blit \in {"call", "copy", "signal_buffer", "finish"}
         => ~wake_blit_thread \/ emu = "join"
    /\ emu \in {"reset_buffer", "draw"} => ~buffer_in_use
    /\ emu \in {"reset_blit", "post"} => ~busy
    /\ emu = "wake" => busy /\ buffer_in_use /\ ~Working
    /\ thread_run <=> emu \notin {"wake_close", "join"}
    /\ busy => params \in Frames

\* The initial state satisfies the invariant.
LEMMA InitInv == Init => IInv
  BY BlitAssumption DEF Init, IInv, TypeOK, Announced, Working

\* A step of the emulation thread preserves the invariant.
LEMMA EmuInv == IInv /\ (EmuStep \/ Close) => IInv'
<1> SUFFICES ASSUME IInv, EmuStep \/ Close PROVE IInv'
  OBVIOUS
<1> USE DEF IInv, TypeOK, Announced, Working, EmuGoes, Flags, Events
<1>1. ASSUME StartFrame PROVE IInv'
  BY <1>1 DEF StartFrame
<1>2. ASSUME TestBuffer PROVE IInv'
  BY <1>2 DEF TestBuffer
<1>3. ASSUME WaitBuffer PROVE IInv'
  BY <1>3 DEF WaitBuffer
<1>4. ASSUME ResetBuffer PROVE IInv'
  BY <1>4 DEF ResetBuffer
<1>5. ASSUME Drawn PROVE IInv'
  BY <1>5 DEF Drawn
<1>6. ASSUME Empty PROVE IInv'
  BY <1>6 DEF Empty
<1>7. ASSUME TestBlit PROVE IInv'
  BY <1>7 DEF TestBlit
<1>8. ASSUME WaitBlit PROVE IInv'
  BY <1>8 DEF WaitBlit
<1>9. ASSUME ResetBlit PROVE IInv'
  BY <1>9 DEF ResetBlit
<1>10. ASSUME NEW f \in Frames, Post(f) PROVE IInv'
  BY <1>10 DEF Post
<1>11. ASSUME Wake PROVE IInv'
  BY <1>11 DEF Wake
<1>12. ASSUME Close PROVE IInv'
  <2>1. /\ emu = "idle" /\ emu' = "wake_close" /\ ~thread_run'
        /\ UNCHANGED <<busy, buffer_in_use, params, wake_blit_thread, blit_complete,
                       buffer_not_in_use, blitmx, blit, ui, blit_func, screen>>
    BY <1>12 DEF Close
  <2>2. TypeOK'
    BY <2>1, <1>12 DEF Close
  <2> QED  BY <2>1, <2>2
<1>13. ASSUME WakeClose PROVE IInv'
  BY <1>13 DEF WakeClose
<1>14. ASSUME Reopen PROVE IInv'
  BY <1>14, BlitAssumption DEF Reopen
<1> QED
  BY <1>1, <1>2, <1>3, <1>4, <1>5, <1>6, <1>7, <1>8, <1>9, <1>10, <1>11, <1>12, <1>13,
     <1>14 DEF EmuStep

\* A step of the blit thread preserves the invariant.
LEMMA BlitInv == IInv /\ BlitStep => IInv'
<1> SUFFICES ASSUME IInv, BlitStep PROVE IInv'
  OBVIOUS
<1> USE DEF IInv, TypeOK, Announced, Working, BlitGoes, Flags, Events
<1>1. ASSUME CheckRun PROVE IInv'
  BY <1>1 DEF CheckRun
<1>2. ASSUME Woken PROVE IInv'
  BY <1>2 DEF Woken
<1>3. ASSUME ResetWake PROVE IInv'
  BY <1>3 DEF ResetWake
<1>4. ASSUME Call PROVE IInv'
  BY <1>4 DEF Call
<1>5. ASSUME Copy PROVE IInv'
  BY <1>5 DEF Copy
<1>6. ASSUME SignalBuffer PROVE IInv'
  BY <1>6 DEF SignalBuffer
<1>7. ASSUME Finish PROVE IInv'
  BY <1>7 DEF Finish
<1>8. ASSUME Signal PROVE IInv'
  BY <1>8 DEF Signal
<1> QED
  BY <1>1, <1>2, <1>3, <1>4, <1>5, <1>6, <1>7, <1>8 DEF BlitStep

\* A step of the user interface, which touches none of the flags, preserves the
\* invariant.
LEMMA UiInv == IInv /\ UiStep => IInv'
<1> SUFFICES ASSUME IInv, UiStep PROVE IInv'
  OBVIOUS
<1> USE DEF IInv, TypeOK, Announced, Working, UiGoes
<1>1. ASSUME UiTakes PROVE IInv'
  BY <1>1 DEF UiTakes
<1>2. ASSUME UiRemoves PROVE IInv'
  <2>1. TypeOK'
    <3>1. \A x \in {busy, buffer_in_use, thread_run, wake_blit_thread, blit_complete,
                    buffer_not_in_use, blit_func}' : x \in BOOLEAN
      BY <1>2, Zenon DEF UiRemoves
    <3> QED
      BY <1>2, <3>1, Zenon DEF UiRemoves
  <2> QED
    BY <1>2, <2>1 DEF UiRemoves
<1>3. ASSUME UiSets PROVE IInv'
  BY <1>3 DEF UiSets
<1> QED
  BY <1>1, <1>2, <1>3 DEF UiStep

\* The inductive invariant holds in every reachable state.
THEOREM Invariance == Spec => []IInv
<1>1. IInv /\ [Next]_vars => IInv'
  <2> SUFFICES ASSUME IInv, [Next]_vars PROVE IInv'
    OBVIOUS
  <2>1. ASSUME UNCHANGED vars PROVE IInv'
    BY <2>1 DEF vars, IInv, TypeOK, Announced, Working
  <2> QED
    BY <2>1, EmuInv, BlitInv, UiInv DEF Next
<1> QED
  BY InitInv, <1>1, PTL DEF Spec

\* The flags, events and program counters keep their types.
THEOREM TypeCorrect == Spec => []TypeOK
<1>1. IInv => TypeOK
  BY DEF IInv
<1> QED
  BY Invariance, <1>1, PTL

\* video_wait_for_buffer_monitor() keeps the emulation thread from drawing while the
\* blit function copies, whatever the renderer switch does.
THEOREM NeverTears == Spec => []NoTearing
<1>1. IInv => NoTearing
  BY DEF IInv, NoTearing, Announced
<1> QED
  BY Invariance, <1>1, PTL

\* Every step of the three threads is a step of the one-frame slot, or none.
LEMMA StepSimulation == IInv /\ [Next]_vars => [Slot!Next]_(Slot!vars)
<1> SUFFICES ASSUME IInv, [Next]_vars PROVE [Slot!Next]_(Slot!vars)
  OBVIOUS
<1> USE BlitAssumption DEF IInv, TypeOK, Announced, Working, Slot!vars, Slot!Next, Flags, Events
<1>1. ASSUME NEW f \in Frames, Post(f) PROVE Slot!Post(f)
  BY <1>1 DEF Post, EmuGoes, Slot!Post
<1>2. ASSUME Copy PROVE Slot!Show \/ Slot!Drop \/ Slot!ShowAgain \/ UNCHANGED Slot!vars
  BY <1>2 DEF Copy, BlitGoes, Slot!Show, Slot!Drop, Slot!ShowAgain
<1>3. ASSUME Call PROVE Slot!Drop \/ UNCHANGED Slot!vars
  BY <1>3 DEF Call, BlitGoes, Slot!Drop
<1>4. ASSUME Close PROVE Slot!Close
  BY <1>4 DEF Close, EmuGoes, Slot!Close
<1>5. ASSUME Reopen PROVE Slot!Reopen
  BY <1>5 DEF Reopen, Slot!Reopen
<1>6. ASSUME \/ StartFrame \/ TestBuffer \/ WaitBuffer \/ ResetBuffer \/ Drawn \/ Empty
             \/ TestBlit \/ WaitBlit \/ ResetBlit \/ Wake \/ WakeClose
      PROVE UNCHANGED Slot!vars
  BY <1>6 DEF StartFrame, TestBuffer, WaitBuffer, ResetBuffer, Drawn, Empty, TestBlit,
              WaitBlit, ResetBlit, Wake, WakeClose, EmuGoes
<1>7. ASSUME \/ CheckRun \/ Woken \/ ResetWake \/ SignalBuffer \/ Finish \/ Signal
      PROVE UNCHANGED Slot!vars
  BY <1>7 DEF CheckRun, Woken, ResetWake, SignalBuffer, Finish, Signal, BlitGoes
<1>8. ASSUME UiStep PROVE UNCHANGED Slot!vars
  BY <1>8 DEF UiStep, UiTakes, UiRemoves, UiSets, UiGoes
<1>9. ASSUME UNCHANGED vars PROVE UNCHANGED Slot!vars
  BY <1>9 DEF vars
<1> QED
  BY <1>1, <1>2, <1>3, <1>4, <1>5, <1>6, <1>7, <1>8, <1>9 DEF Next, EmuStep, BlitStep

\* The flags and events of video.c implement a slot for one frame: no frame is posted
\* over another one, and none is shown twice before the monitor is closed.
THEOREM Refinement == Spec => ImplementsSlot
<1>1. Init => Slot!Init
  BY DEF Init, Slot!Init
<1> QED
  BY <1>1, Invariance, StepSimulation, PTL DEF Spec, ImplementsSlot, Slot!Spec

-----------------------------------------------------------------------------
(* Wake-ups.                                                               *)

\* No wake-up is lost, although each event is reset outside any lock: while
\* blit_thread() sleeps, a posted frame is about to be announced and no monitor is
\* waiting to be closed; while the emulation thread waits for a blit, the blit thread
\* is on its way to set blit_complete, and while it waits for the buffer, to set
\* buffer_not_in_use. The last needs a user interface that changes the blit function
\* only between frames: video_blit_complete_monitor() is the blit function's to call.
WakeupsKept ==
    /\ blit = "wait" /\ ~wake_blit_thread => emu # "join" /\ (busy => emu = "wake")
    /\ emu = "wait_blit" /\ ~blit_complete
         => blit # "exited" /\ (Working \/ blit = "signal")
    /\ CleanSwitch /\ emu = "wait_buffer" /\ ~buffer_not_in_use
         => blit # "exited" /\ (Announced \/ blit = "signal_buffer")

\* Who sets what another waits for, and who holds the mutex meanwhile.
WInv ==
    /\ emu = "join" /\ blit = "wait" => wake_blit_thread
    /\ blit = "exited" => ~thread_run
    /\ busy => Working \/ emu \in {"wake", "join"}
    /\ emu = "wait_blit" => busy \/ blit_complete \/ blit = "signal"
    /\ ui = "idle" <=> blitmx # "ui"
    /\ blit_func <=> ui # "open"
    /\ blitmx = "emu" <=> emu \notin {"idle", "wake_close", "join"}
    /\ CleanSwitch =>
         /\ ui # "idle" => ~busy
         /\ buffer_in_use => Announced \/ emu \in {"wake", "join"}
         /\ emu = "wait_buffer" =>
              buffer_in_use \/ buffer_not_in_use \/ blit = "signal_buffer"

\* Every step of a thread preserves it.
LEMMA WakeStep == IInv /\ WInv /\ [Next]_vars => WInv'
<1> SUFFICES ASSUME IInv, WInv, [Next]_vars PROVE WInv'
  OBVIOUS
<1> USE DEF IInv, TypeOK, WInv, Announced, Working, Flags, Events
<1>1. ASSUME StartFrame PROVE WInv'
  BY <1>1 DEF StartFrame, EmuGoes
<1>2. ASSUME TestBuffer PROVE WInv'
  BY <1>2 DEF TestBuffer, EmuGoes
<1>3. ASSUME WaitBuffer PROVE WInv'
  BY <1>3 DEF WaitBuffer, EmuGoes
<1>4. ASSUME ResetBuffer PROVE WInv'
  BY <1>4 DEF ResetBuffer, EmuGoes
<1>5. ASSUME Drawn PROVE WInv'
  BY <1>5 DEF Drawn, EmuGoes
<1>6. ASSUME Empty PROVE WInv'
  BY <1>6 DEF Empty, EmuGoes
<1>7. ASSUME TestBlit PROVE WInv'
  BY <1>7 DEF TestBlit, EmuGoes
<1>8. ASSUME WaitBlit PROVE WInv'
  BY <1>8 DEF WaitBlit, EmuGoes
<1>9. ASSUME ResetBlit PROVE WInv'
  BY <1>9 DEF ResetBlit, EmuGoes
<1>10. ASSUME NEW f \in Frames, Post(f) PROVE WInv'
  BY <1>10 DEF Post, EmuGoes
<1>11. ASSUME Wake PROVE WInv'
  BY <1>11 DEF Wake, EmuGoes
<1>12. ASSUME Close PROVE WInv'
  BY <1>12 DEF Close, EmuGoes
<1>13. ASSUME WakeClose PROVE WInv'
  BY <1>13 DEF WakeClose, EmuGoes
<1>14. ASSUME Reopen PROVE WInv'
  BY <1>14 DEF Reopen
<1>15. ASSUME CheckRun PROVE WInv'
  BY <1>15 DEF CheckRun, BlitGoes
<1>16. ASSUME Woken PROVE WInv'
  BY <1>16 DEF Woken, BlitGoes
<1>17. ASSUME ResetWake PROVE WInv'
  BY <1>17 DEF ResetWake, BlitGoes
<1>18. ASSUME Call PROVE WInv'
  BY <1>18 DEF Call, BlitGoes
<1>19. ASSUME Copy PROVE WInv'
  BY <1>19 DEF Copy, BlitGoes
<1>20. ASSUME SignalBuffer PROVE WInv'
  BY <1>20 DEF SignalBuffer, BlitGoes
<1>21. ASSUME Finish PROVE WInv'
  BY <1>21 DEF Finish, BlitGoes
<1>22. ASSUME Signal PROVE WInv'
  BY <1>22 DEF Signal, BlitGoes
<1>23. ASSUME UiTakes PROVE WInv'
  BY <1>23 DEF UiTakes, UiGoes
<1>24. ASSUME UiRemoves PROVE WInv'
  BY <1>24 DEF UiRemoves, UiGoes
<1>25. ASSUME UiSets PROVE WInv'
  BY <1>25 DEF UiSets, UiGoes
<1>26. ASSUME UNCHANGED vars PROVE WInv'
  BY <1>26 DEF vars
<1> QED
  BY <1>1, <1>2, <1>3, <1>4, <1>5, <1>6, <1>7, <1>8, <1>9, <1>10, <1>11, <1>12,
     <1>13, <1>14, <1>15, <1>16, <1>17, <1>18, <1>19, <1>20, <1>21, <1>22,
     <1>23, <1>24, <1>25, <1>26
     DEF Next, EmuStep, BlitStep, UiStep

\* Whatever the order in which flags are read and events set and reset, a thread of the
\* hand-over sleeps only while another is on its way to wake it: what FrameLeaves and
\* CloseReturns rest on, for every set of frames.
THEOREM NoWakeupLost == Spec => []WakeupsKept
<1>1. Init => WInv
  BY DEF Init, WInv, Announced, Working
<1>2. IInv /\ WInv => WakeupsKept
  BY DEF IInv, TypeOK, WInv, WakeupsKept, Announced, Working
<1> QED
  BY <1>1, <1>2, WakeStep, Invariance, PTL DEF Spec
=============================================================================
