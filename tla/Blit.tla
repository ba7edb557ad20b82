-------------------------------- MODULE Blit --------------------------------
(***************************************************************************)
(* How a monitor's finished frames leave the emulation thread (video.c):   *)
(* the emulation thread draws into the target buffer and posts a blit, and *)
(* the monitor's blit thread copies the buffer for the user interface.     *)
(* They synchronise through the flags busy and buffer_in_use, plain        *)
(* integers read without a lock, and three manual-reset events             *)
(* (thread.cpp). One step here is one access to a flag or event that the   *)
(* other thread may be looking at.                                         *)
(*                                                                         *)
(* The user interface may change the blit function while it holds the      *)
(* mutex of startblit(), under which the emulation thread runs.            *)
(*                                                                         *)
(* A definition marked Variant is a wrong form of the one that follows it, *)
(* which mutation tests put in its place; no specification uses it.        *)
(***************************************************************************)
EXTENDS Naturals

CONSTANTS Frames,      \* the coordinates a blit is posted with
          NoFrame,
          CleanSwitch  \* does the user interface wait for the blit thread
                       \* before it takes the blit function away?

ASSUME BlitAssumption == NoFrame \notin Frames /\ CleanSwitch \in BOOLEAN

VARIABLES
    busy, buffer_in_use, thread_run, params,                 \* blit_data_t
    wake_blit_thread, blit_complete, buffer_not_in_use,      \* its events
    blit_func,    \* is there a blit function?
    blitmx,       \* who holds the mutex of startblit()
    emu, blit, ui, \* where the three threads are
    screen        \* history: the frame last copied

vars == <<busy, buffer_in_use, thread_run, params, wake_blit_thread, blit_complete,
          buffer_not_in_use, blit_func, blitmx, emu, blit, ui, screen>>

\* video_monitor_init(), and the blit function of the user interface.
Init ==
    /\ busy = FALSE /\ buffer_in_use = FALSE /\ thread_run = TRUE /\ params = NoFrame
    /\ wake_blit_thread = FALSE /\ blit_complete = FALSE /\ buffer_not_in_use = FALSE
    /\ blit_func = TRUE /\ blitmx = "free"
    /\ emu = "idle" /\ blit = "check" /\ ui = "idle"
    /\ screen = NoFrame

EmuGoes(from, to) ==
    /\ emu = from /\ emu' = to
    /\ UNCHANGED <<blit, ui, blit_func, screen>>

BlitGoes(from, to) ==
    /\ blit = from /\ blit' = to
    /\ UNCHANGED <<emu, ui, blit_func, blitmx, thread_run, params>>

Flags == <<busy, buffer_in_use>>
Events == <<wake_blit_thread, blit_complete, buffer_not_in_use>>

-----------------------------------------------------------------------------
(* The emulation thread.                                                   *)

\* pc_run() takes the mutex, and a video card starts to draw a frame.
StartFrame ==
    /\ EmuGoes("idle", "test_buffer")
    /\ blitmx = "free" /\ blitmx' = "emu"
    /\ UNCHANGED <<Flags, Events, thread_run, params>>

\* Variant: the first pass of the loop does not look at the flag.
TestBufferBlindly ==
    /\ EmuGoes("test_buffer", "reset_buffer")
    /\ UNCHANGED <<Flags, Events, thread_run, params, blitmx>>

\* video_wait_for_buffer_monitor()
TestBuffer ==
    /\ EmuGoes("test_buffer", IF buffer_in_use THEN "wait_buffer" ELSE "reset_buffer")
    /\ UNCHANGED <<Flags, Events, thread_run, params, blitmx>>

WaitBuffer ==
    /\ EmuGoes("wait_buffer", "test_buffer")
    /\ buffer_not_in_use
    /\ UNCHANGED <<Flags, Events, thread_run, params, blitmx>>

ResetBuffer ==
    /\ EmuGoes("reset_buffer", "draw")
    /\ buffer_not_in_use' = FALSE
    /\ UNCHANGED <<Flags, wake_blit_thread, blit_complete, thread_run, params, blitmx>>

\* The frame is complete.
Drawn ==
    /\ EmuGoes("draw", "test_blit")
    /\ UNCHANGED <<Flags, Events, thread_run, params, blitmx>>

\* A frame without width or height is not posted.
Empty ==
    /\ EmuGoes("draw", "idle")
    /\ blitmx' = "free"
    /\ UNCHANGED <<Flags, Events, thread_run, params>>

\* Variant: a blit is posted over the one before.
TestBlitBlindly ==
    /\ EmuGoes("test_blit", "reset_blit")
    /\ UNCHANGED <<Flags, Events, thread_run, params, blitmx>>

\* video_wait_for_blit_monitor()
TestBlit ==
    /\ EmuGoes("test_blit", IF busy THEN "wait_blit" ELSE "reset_blit")
    /\ UNCHANGED <<Flags, Events, thread_run, params, blitmx>>

WaitBlit ==
    /\ EmuGoes("wait_blit", "test_blit")
    /\ blit_complete
    /\ UNCHANGED <<Flags, Events, thread_run, params, blitmx>>

ResetBlit ==
    /\ EmuGoes("reset_blit", "post")
    /\ blit_complete' = FALSE
    /\ UNCHANGED <<Flags, wake_blit_thread, buffer_not_in_use, thread_run, params, blitmx>>

\* video_blit_memtoscreen_monitor(): the blit is described, then announced.
Post(f) ==
    /\ EmuGoes("post", "wake")
    /\ busy' = TRUE /\ buffer_in_use' = TRUE /\ params' = f
    /\ UNCHANGED <<Events, thread_run, blitmx>>

\* Variant: the blit thread is not told of the blit.
WakeNobody ==
    /\ EmuGoes("wake", "idle")
    /\ blitmx' = "free"
    /\ UNCHANGED <<Flags, Events, thread_run, params>>

Wake ==
    /\ EmuGoes("wake", "idle")
    /\ wake_blit_thread' = TRUE
    /\ blitmx' = "free"
    /\ UNCHANGED <<Flags, blit_complete, buffer_not_in_use, thread_run, params>>

\* video_monitor_close(), outside the mutex: the thread is told to end, woken and
\* joined.
Close ==
    /\ EmuGoes("idle", "wake_close")
    /\ thread_run' = FALSE
    /\ UNCHANGED <<Flags, Events, params, blitmx>>

\* Variant: the thread is joined without being woken.
JoinAsleep ==
    /\ EmuGoes("wake_close", "join")
    /\ UNCHANGED <<Flags, Events, thread_run, params, blitmx>>

WakeClose ==
    /\ EmuGoes("wake_close", "join")
    /\ wake_blit_thread' = TRUE
    /\ UNCHANGED <<Flags, blit_complete, buffer_not_in_use, thread_run, params, blitmx>>

\* The thread has ended and the monitor is freed; video_monitor_init() makes it
\* anew.
Reopen ==
    /\ emu = "join" /\ blit = "exited"
    /\ busy' = FALSE /\ buffer_in_use' = FALSE /\ thread_run' = TRUE /\ params' = NoFrame
    /\ wake_blit_thread' = FALSE /\ blit_complete' = FALSE /\ buffer_not_in_use' = FALSE
    /\ emu' = "idle" /\ blit' = "check" /\ screen' = NoFrame
    /\ UNCHANGED <<blit_func, blitmx, ui>>

-----------------------------------------------------------------------------
(* The blit thread.                                                        *)

CheckRun ==
    /\ BlitGoes("check", IF thread_run THEN "wait" ELSE "exited")
    /\ UNCHANGED <<Flags, Events, screen>>

Woken ==
    /\ BlitGoes("wait", "reset")
    /\ wake_blit_thread
    /\ UNCHANGED <<Flags, Events, screen>>

ResetWake ==
    /\ BlitGoes("reset", "call")
    /\ wake_blit_thread' = FALSE
    /\ UNCHANGED <<Flags, blit_complete, buffer_not_in_use, screen>>

\* if (blit_func)
Call ==
    /\ BlitGoes("call", IF blit_func THEN "copy" ELSE "finish")
    /\ UNCHANGED <<Flags, Events, screen>>

\* The blit function copies the frame, or drops it when the user interface still
\* holds the image, and calls video_blit_complete_monitor().
Copy ==
    /\ BlitGoes("copy", "signal_buffer")
    /\ screen' \in {params, screen}
    /\ buffer_in_use' = FALSE
    /\ UNCHANGED <<busy, Events>>

SignalBuffer ==
    /\ BlitGoes("signal_buffer", "finish")
    /\ buffer_not_in_use' = TRUE
    /\ UNCHANGED <<Flags, wake_blit_thread, blit_complete, screen>>

Finish ==
    /\ BlitGoes("finish", "signal")
    /\ busy' = FALSE
    /\ UNCHANGED <<buffer_in_use, Events, screen>>

Signal ==
    /\ BlitGoes("signal", "check")
    /\ blit_complete' = TRUE
    /\ UNCHANGED <<Flags, wake_blit_thread, buffer_not_in_use, screen>>

-----------------------------------------------------------------------------
(* The user interface: from one renderer to another.                       *)

UiGoes(from, to) ==
    /\ ui = from /\ ui' = to
    /\ UNCHANGED <<busy, buffer_in_use, thread_run, params, wake_blit_thread,
                   blit_complete, buffer_not_in_use, emu, blit, screen>>

UiTakes ==
    /\ UiGoes("idle", "close")
    /\ blitmx = "free" /\ blitmx' = "ui"
    /\ CleanSwitch => ~busy
    /\ UNCHANGED blit_func

\* vnc_close() removes the blit function.
UiRemoves ==
    /\ UiGoes("close", "open")
    /\ blit_func' = FALSE
    /\ UNCHANGED blitmx

UiSets ==
    /\ UiGoes("open", "idle")
    /\ blit_func' = TRUE
    /\ blitmx' = "free"

-----------------------------------------------------------------------------
EmuStep ==
    \/ StartFrame \/ TestBuffer \/ WaitBuffer \/ ResetBuffer \/ Drawn \/ Empty
    \/ TestBlit \/ WaitBlit \/ ResetBlit \/ (\E f \in Frames : Post(f)) \/ Wake
    \/ WakeClose \/ Reopen

BlitStep ==
    \/ CheckRun \/ Woken \/ ResetWake \/ Call \/ Copy \/ SignalBuffer \/ Finish \/ Signal

UiStep == UiTakes \/ UiRemoves \/ UiSets

Next == EmuStep \/ Close \/ BlitStep \/ UiStep

Spec == Init /\ [][Next]_vars

\* The threads run: a flag is read, an event waited for until it is set, and the
\* user interface gives the mutex back. Nothing is assumed about who gets it.
FairSpec ==
    /\ Spec
    /\ WF_vars(BlitStep)
    /\ WF_vars(UiRemoves \/ UiSets)
    /\ WF_vars(EmuStep)

-----------------------------------------------------------------------------
\* Type invariant.
TypeOK ==
    /\ \A x \in {busy, buffer_in_use, thread_run, wake_blit_thread, blit_complete,
                 buffer_not_in_use, blit_func} : x \in BOOLEAN
    /\ params \in Frames \cup {NoFrame} /\ screen \in Frames \cup {NoFrame}
    /\ blitmx \in {"free", "emu", "ui"}
    /\ emu \in {"idle", "test_buffer", "wait_buffer", "reset_buffer", "draw", "test_blit",
                "wait_blit", "reset_blit", "post", "wake", "wake_close", "join"}
    /\ blit \in {"check", "wait", "reset", "call", "copy", "signal_buffer", "finish",
                 "signal", "exited"}
    /\ ui \in {"idle", "close", "open"}

\* The emulation thread never draws into the buffer that the blit thread copies,
\* although neither event is reset under a lock (video.c:271).
NoTearing == ~(emu = "draw" /\ blit = "copy")

\* A posted frame is in the slot until the blit thread has taken it.
Slot == INSTANCE FrameSlot
    WITH slot <- IF busy /\ blit \notin {"signal_buffer", "finish"} THEN params ELSE NoFrame,
         last <- params, closing <- ~thread_run

\* Each frame is posted only after the one before was taken, with coordinates that
\* do not change under the blit function, and is shown or dropped once. (The
\* wake-up that closes a monitor makes blit_thread() blit the last one again.)
ImplementsSlot == Slot!Spec

\* No wake-up is lost: a frame under way reaches the blit thread.
FrameLeaves == emu = "test_buffer" ~> emu = "idle"

\* video_monitor_close() returns: the thread is never left asleep.
CloseReturns == emu = "join" ~> emu = "idle"
=============================================================================
