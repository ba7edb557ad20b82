----------------------------- MODULE FrameSlot -----------------------------
(***************************************************************************)
(* What the emulation thread and a monitor's blit thread promise together: *)
(* a slot for one frame. A frame is posted only into an empty slot, and it *)
(* is shown, or dropped, once before the next one is posted. The last one  *)
(* may be shown once more while the monitor is being closed.               *)
(***************************************************************************)
CONSTANTS Frames, NoFrame

VARIABLES slot,    \* the frame posted and not yet taken
          last,    \* the frame last posted
          screen,  \* the frame last handed to the user interface
          closing

vars == <<slot, last, screen, closing>>

Init == slot = NoFrame /\ last = NoFrame /\ screen = NoFrame /\ closing = FALSE

Post(f) ==
    /\ slot = NoFrame /\ ~closing
    /\ slot' = f /\ last' = f
    /\ UNCHANGED <<screen, closing>>

Show == slot # NoFrame /\ screen' = slot /\ slot' = NoFrame /\ UNCHANGED <<last, closing>>

Drop == slot # NoFrame /\ slot' = NoFrame /\ UNCHANGED <<last, screen, closing>>

Close == ~closing /\ closing' = TRUE /\ UNCHANGED <<slot, last, screen>>

ShowAgain == closing /\ slot = NoFrame /\ screen' = last /\ UNCHANGED <<slot, last, closing>>

\* The monitor is gone, with a frame still in the slot perhaps; there is a new one.
Reopen ==
    /\ closing
    /\ slot' = NoFrame /\ last' = NoFrame /\ screen' = NoFrame /\ closing' = FALSE

Next == (\E f \in Frames : Post(f)) \/ Show \/ Drop \/ Close \/ ShowAgain \/ Reopen

Spec == Init /\ [][Next]_vars
=============================================================================
