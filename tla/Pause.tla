------------------------------- MODULE Pause -------------------------------
(***************************************************************************)
(* How the user interface stops the emulation thread and has the machine   *)
(* reset: do_pause(), ack_pause(), pc_run() and hard_reset_pending         *)
(* (86box.c), the emulation thread's loop (qt/qt_main.cpp) and the callers *)
(* in the Qt user interface. The threads share plain and volatile          *)
(* integers, without a lock; one step here is one access that the other    *)
(* thread can tell. Stores take effect in program order.                   *)
(*                                                                         *)
(* warning(), called by a device, runs do_pause() on the emulation thread  *)
(* as well, and waits for the user interface to show its box, unless an    *)
(* automation client is connected.                                         *)
(*                                                                         *)
(* A definition marked Variant is a wrong form of the one that follows it, *)
(* which mutation tests put in its place; no specification uses it.        *)
(***************************************************************************)
EXTENDS Naturals

CONSTANT MaxSaves   \* so often the settings are changed

ASSUME PauseAssumption == MaxSaves \in Nat

VARIABLES
    dopause, do_pause_ack, pause_ack, hard_reset_pending, cpu_thread_run,
    automation,  \* AUTOMATION_ACTIVE
    cpu,         \* where the emulation thread is
    back,        \* where warning() was called from
    ui,          \* where the user interface's thread is
    p,           \* the argument of plat_pause()
    next,        \* where plat_pause() returns to
    was,         \* dopause before the operation
    saved,       \* the version of the settings
    read,        \* their version when the reset under way began
    built,       \* the version the machine is built from
    late         \* blocks begun since the user interface paused

flags == <<dopause, do_pause_ack, pause_ack>>
run == <<hard_reset_pending, cpu_thread_run>>
call == <<p, next, was>>
machine == <<read, built>>
vars == <<flags, run, automation, cpu, back, ui, call, saved, machine, late>>

Mixed == 0   \* the machine was built while the settings changed

\* The window is up; the machine is built, and runs.
Init ==
    /\ dopause = FALSE /\ do_pause_ack = FALSE /\ pause_ack = FALSE
    /\ hard_reset_pending = FALSE /\ cpu_thread_run = TRUE
    /\ automation \in BOOLEAN
    /\ cpu = "loop" /\ back = "block"
    /\ ui = "free" /\ p = 0 /\ next = "free" /\ was = FALSE
    /\ saved = 1 /\ read = 1 /\ built = 1 /\ late = 0

CpuGoes(from, to) ==
    /\ cpu = from /\ cpu' = to
    /\ UNCHANGED <<automation, ui, call, saved>>

UiGoes(from, to) ==
    /\ ui = from /\ ui' = to
    /\ UNCHANGED <<automation, cpu, back, machine>>

-----------------------------------------------------------------------------
(* The emulation thread. *)

\* ack_pause()
Ack ==
    /\ do_pause_ack' = FALSE
    /\ pause_ack' = (pause_ack \/ do_pause_ack)
    /\ UNCHANGED dopause

\* Variant: the loop does not look at dopause.
RunAnyway ==
    /\ CpuGoes("loop", "run") /\ cpu_thread_run
    /\ UNCHANGED <<flags, run, back, machine, late>>

\* It is time for a block: pc_run() is called.
Run ==
    /\ CpuGoes("loop", "run") /\ cpu_thread_run /\ ~dopause
    /\ UNCHANGED <<flags, run, back, machine, late>>

\* It is not time yet, or the machine is paused.
Pass ==
    /\ CpuGoes("loop", "idle") /\ cpu_thread_run
    /\ UNCHANGED <<flags, run, back, machine, late>>

ThreadEnds ==
    /\ CpuGoes("loop", "gone") /\ ~cpu_thread_run
    /\ UNCHANGED <<flags, run, back, machine, late>>

\* The pending reset is begun, in pc_run() or in the loop.
StartReset(from, to) ==
    /\ CpuGoes(from, to) /\ hard_reset_pending
    /\ hard_reset_pending' = FALSE
    /\ read' = saved
    /\ UNCHANGED <<flags, cpu_thread_run, back, built, late>>

\* Variant: the flag is cleared once the reset is done.
EndResetAndRequest(from, to) ==
    /\ CpuGoes(from, to)
    /\ built' = IF read = saved THEN saved ELSE Mixed
    /\ hard_reset_pending' = FALSE
    /\ UNCHANGED <<flags, cpu_thread_run, back, read, late>>

\* pc_reset_hard_close() and pc_reset_hard_init() are done.
EndReset(from, to) ==
    /\ CpuGoes(from, to)
    /\ built' = IF read = saved THEN saved ELSE Mixed
    /\ UNCHANGED <<flags, run, back, read, late>>

\* Without a pending reset, or after it, the block begins.
StartBlock(from) ==
    /\ CpuGoes(from, "block")
    /\ late' = IF dopause THEN late + 1 ELSE late
    /\ UNCHANGED <<flags, run, back, machine>>

EndBlock ==
    /\ CpuGoes("block", "tail")
    /\ Ack
    /\ UNCHANGED <<run, back, machine, late>>

\* mouse_process(), joystick_process(), and back to the loop.
EndRun ==
    /\ CpuGoes("tail", "loop")
    /\ UNCHANGED <<flags, run, back, machine, late>>

NoReset ==
    /\ CpuGoes("idle", "idle_ack") /\ ~hard_reset_pending
    /\ UNCHANGED <<flags, run, back, machine, late>>

\* Variant: the loop without a call of ack_pause(), as unix/sdl_main.c has it.
IdleSilently ==
    /\ CpuGoes("idle_ack", "loop")
    /\ UNCHANGED <<flags, run, back, machine, late>>

IdleAck ==
    /\ CpuGoes("idle_ack", "loop")
    /\ IF dopause THEN Ack ELSE UNCHANGED flags
    /\ UNCHANGED <<run, back, machine, late>>

\* A device, or an automation client between blocks, asks for a reset.
GuestResets ==
    /\ cpu \in {"block", "loop"}
    /\ hard_reset_pending' = TRUE
    /\ UNCHANGED <<flags, cpu_thread_run, automation, cpu, back, ui, call, saved, machine, late>>

\* plat_power_off()
PowerOff ==
    /\ cpu = "block"
    /\ cpu_thread_run' = FALSE
    /\ UNCHANGED <<flags, hard_reset_pending, automation, cpu, back, ui, call, saved, machine, late>>

\* warning(): do_pause(2).
Warn(from) ==
    /\ CpuGoes(from, IF automation THEN "told" ELSE "warn")
    /\ back' = from
    /\ dopause' = TRUE /\ pause_ack' = FALSE
    /\ UNCHANGED <<do_pause_ack, run, machine, late>>

\* ... and do_pause(0).
WarnEnds ==
    /\ CpuGoes("told", back)
    /\ dopause' = FALSE /\ pause_ack' = FALSE
    /\ UNCHANGED <<do_pause_ack, run, back, machine, late>>

Resetting == {"reset", "idle_reset"}

LoopStep ==
    \/ Run \/ Pass \/ ThreadEnds
    \/ StartReset("run", "reset") \/ StartReset("idle", "idle_reset")
    \/ (~hard_reset_pending /\ StartBlock("run"))
    \/ EndRun \/ NoReset \/ IdleAck

CpuStep ==
    \/ LoopStep \/ EndBlock \/ GuestResets \/ PowerOff \/ WarnEnds
    \/ \E at \in Resetting \cup {"block"} : Warn(at)
    \/ EndReset("reset", "begin") \/ EndReset("idle_reset", "idle_ack")
    \/ StartBlock("begin")

-----------------------------------------------------------------------------
(* The user interface's thread. *)

\* plat_pause(arg) is called and will return to place.
Calls(arg, place) == p' = arg /\ next' = place

\* Pause in the menu.
Toggle ==
    /\ UiGoes("free", "plat")
    /\ Calls(IF dopause THEN 0 ELSE 1, "free")
    /\ UNCHANGED <<flags, run, was, saved, late>>

\* The power button, and the settings, pause the machine and then set it back.
PauseFor(place) ==
    /\ UiGoes("free", "plat")
    /\ Calls(1, place) /\ was' = dopause
    /\ UNCHANGED <<flags, run, saved, late>>

\* plat_pause() returns at once if nothing changes.
PlatPause ==
    LET arg == IF cpu = "gone" /\ p = 1 THEN 2 ELSE p IN
    /\ UiGoes("plat", IF (arg # 0) = dopause THEN next ELSE "ask")
    /\ p' = arg
    /\ UNCHANGED <<flags, run, next, was, saved, late>>

\* do_pause() asks for an answer if the machine was not paused.
Ask ==
    /\ UiGoes("ask", IF p = 1 /\ ~dopause THEN "set_wait" ELSE "set")
    /\ do_pause_ack' = IF p = 1 /\ ~dopause THEN TRUE ELSE do_pause_ack
    /\ UNCHANGED <<dopause, pause_ack, run, call, saved, late>>

SetAndWait ==
    /\ UiGoes("set_wait", "spin")
    /\ dopause' = TRUE /\ late' = 0
    /\ UNCHANGED <<do_pause_ack, pause_ack, run, call, saved>>

Set ==
    /\ UiGoes("set", next)
    /\ dopause' = (p # 0) /\ pause_ack' = FALSE /\ late' = 0
    /\ UNCHANGED <<do_pause_ack, run, call, saved>>

\* Variant: the answer is left in place.
SpinKeepsAck ==
    /\ UiGoes("spin", next)
    /\ pause_ack
    /\ UNCHANGED <<flags, run, call, saved, late>>

Spin ==
    /\ UiGoes("spin", next)
    /\ pause_ack /\ pause_ack' = FALSE
    /\ UNCHANGED <<dopause, do_pause_ack, run, call, saved, late>>

SetBack(from) ==
    /\ UiGoes(from, "plat")
    /\ Calls(IF was THEN 1 ELSE 0, "free")
    /\ UNCHANGED <<flags, was, saved, late>>

\* device_power_button() is done.
Pressed == SetBack("change") /\ UNCHANGED run

Cancel == SetBack("dialog") /\ UNCHANGED run

\* settings.save(): the configuration is no longer the machine's.
Save ==
    /\ UiGoes("dialog", "save")
    /\ saved <= MaxSaves /\ saved' = saved + 1
    /\ UNCHANGED <<flags, run, call, late>>

\* pc_reset_hard()
Saved ==
    /\ SetBack("save")
    /\ hard_reset_pending' = TRUE /\ UNCHANGED cpu_thread_run

\* Hard reset in the menu.
HardReset ==
    /\ UiGoes("free", "free")
    /\ hard_reset_pending' = TRUE
    /\ UNCHANGED <<flags, cpu_thread_run, call, saved, late>>

\* The window is closed; the event loop runs until the emulation thread ends.
Close ==
    /\ UiGoes("free", "free")
    /\ cpu_thread_run' = FALSE
    /\ UNCHANGED <<flags, hard_reset_pending, call, saved, late>>

Quit ==
    /\ UiGoes("free", "done") /\ cpu = "gone"
    /\ UNCHANGED <<flags, run, call, saved, late>>

\* showMessage_(): the event loop, the settings' one too, shows the box of
\* warning(), and the user dismisses it.
ShowMessage ==
    /\ ui \in {"free", "dialog"}
    /\ cpu = "warn" /\ cpu' = "told"
    /\ UNCHANGED <<flags, run, automation, back, ui, call, saved, machine, late>>

PauseStep == PlatPause \/ Ask \/ SetAndWait \/ Set \/ Spin \/ Pressed \/ Saved

UiStep ==
    \/ PauseStep \/ Toggle \/ (\E place \in {"change", "dialog"} : PauseFor(place))
    \/ Cancel \/ Save \/ HardReset \/ Close \/ Quit \/ ShowMessage

Next == CpuStep \/ UiStep

Spec == Init /\ [][Next]_vars

\* Both threads go on. A block and a reset end though a device may warn again
\* and again, and the time for a block comes. The user need not do anything,
\* not even dismiss a box.
Fairness ==
    /\ WF_vars(PauseStep) /\ WF_vars(LoopStep) /\ WF_vars(WarnEnds)
    /\ SF_vars(Run) /\ SF_vars(EndBlock)
    /\ SF_vars(EndReset("reset", "begin")) /\ SF_vars(EndReset("idle_reset", "idle_ack"))
    /\ WF_vars(StartBlock("begin"))

FairSpec == Spec /\ Fairness

-----------------------------------------------------------------------------
(* Properties. *)

\* An answer never outlives the do_pause() it is for, and neither does a
\* request, although warning() writes pause_ack from the emulation thread: if
\* one did, the next pause would return while the machine runs.
AckIsFresh == ui \notin {"set_wait", "spin"} => ~pause_ack /\ ~do_pause_ack

\* A pause holds until the user interface or a warning() ends it: the block
\* that pc_run() was already called for may still begin, even after do_pause()
\* has returned, but no other.
PauseHolds == late <= 1

\* No request for a hard reset is lost, though the flag is cleared and set
\* without a lock and the settings may be saved in the middle of a reset: unless
\* a reset is pending, under way or about to be asked for, the machine is built
\* from the settings as they are.
Underway == cpu \in Resetting \/ (cpu \in {"warn", "told"} /\ back \in Resetting)

ResetApplies ==
    ~hard_reset_pending /\ ~Underway /\ ui # "save" => built = saved

\* do_pause() returns, unless a warning() waits for its box or has taken the
\* answer away, or the emulation thread ended after plat_pause() looked at it.
PauseReturns ==
    ui = "spin" ~> \/ ui # "spin"
                   \/ cpu \in {"warn", "gone"}
                   \/ ~do_pause_ack /\ ~pause_ack
=============================================================================
