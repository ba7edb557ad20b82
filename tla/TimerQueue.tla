---------------------------- MODULE TimerQueue ----------------------------
(***************************************************************************)
(* The emulated machine's timers (timer.c, timer.h): every device keeps    *)
(* its time with pc_timer_t's in one list sorted by deadline, and the CPU  *)
(* loop compares the time-stamp counter with the cached deadline of the    *)
(* list's head after each instruction or compiled block.                   *)
(*                                                                         *)
(* The doubly linked list is the sequence queue; TIMER_ENABLED is the set  *)
(* enabled and TIMER_SPLIT the set split, kept apart from the list as in   *)
(* the code. Time stamps are unsigned integers of a machine word,          *)
(* compared by the sign of their difference: stamps are 0 .. 2*Half-1.     *)
(* There is one emulation thread, and timer callbacks run in it: pc says   *)
(* what that thread is doing.                                              *)
(*                                                                         *)
(* A definition marked Variant is a wrong form of the one that follows it, *)
(* which mutation tests put in its place; no specification uses it.        *)
(***************************************************************************)
EXTENDS Integers, Sequences

CONSTANTS
    MidiPoll, SoundPoll, \* the timers sound_reset() keeps enabled for ever
    Devices,             \* timers driven through timer_set_delay_u64() and timer_advance_u64()
    BigTimers,           \* timers driven through timer_on_auto() and timer_stop()
    NoTimer,             \* no callback is running
    Half,                \* half the number of time stamps (2^63 in the code)
    Frac,                \* values of the fraction of a time stamp (2^32 in the code)
    PollDelay,           \* what the two permanent callbacks advance themselves by
    Delays,              \* delays devices ask for, in fixed point
    Periods,             \* periods devices ask for, in microseconds
    MAX_USEC,            \* longest period armed in one go, in microseconds
    TIMER_USEC,          \* cycles per microsecond
    MaxDelay,            \* bound on one delay, in cycles
    MaxStep,             \* bound on the cycles of one instruction or block
    RearmWhileRunning    \* may timer_on_auto() meet a timer with a part of its period left?

VARIABLES
    tsc, timer_target, timer_inited,
    queue,               \* timer_head and the next links
    ts, frac,            \* ts_integer, ts_frac
    enabled, split, in_callback, period,
    pc,                  \* "off", "run", "process", "callback", "fault"
    cb,                  \* the timer whose callback is running
    due                  \* history: when the period last asked for really ends

vars == <<tsc, timer_target, timer_inited, queue, ts, frac, enabled, split,
          in_callback, period, pc, cb, due>>

Permanent == {MidiPoll, SoundPoll}
Timers == Permanent \cup Devices \cup BigTimers
M == 2 * Half
Stamps == 0 .. M - 1
(* Fixed point: whole cycles and a fraction. *)
Delay == [int : 0 .. MaxDelay - 1, frac : 0 .. Frac - 1]

(***************************************************************************)
(* Timers are of one kind. A delay, or one instruction, is far shorter     *)
(* than half the range of a time stamp (a delay is a 32:32 fixed-point     *)
(* number, and MAX_USEC64 bounds one part of a period); no period is zero. *)
(***************************************************************************)
ASSUME TimersAssumption ==
    /\ MidiPoll # SoundPoll
    /\ Devices \cap BigTimers = {}
    /\ Permanent \cap (Devices \cup BigTimers) = {}
    /\ NoTimer \notin Timers

ASSUME RangeAssumption ==
    /\ Half \in Nat /\ Frac \in Nat \ {0}
    /\ MaxDelay \in Nat \ {0} /\ MaxStep \in Nat \ {0}
    /\ MaxDelay + MaxStep < Half
    /\ Delays \subseteq Delay
    /\ PollDelay \in [Permanent -> Delay]
    /\ \A t \in Permanent : PollDelay[t].int > 0
    /\ MAX_USEC \in Nat \ {0} /\ TIMER_USEC \in Nat \ {0}
    /\ Periods \subseteq Nat \ {0}
    /\ \A p \in 1 .. MAX_USEC : p * TIMER_USEC \in 1 .. MaxDelay - 1
    /\ \A p \in Periods : p * TIMER_USEC < M
    /\ RearmWhileRunning \in BOOLEAN

-----------------------------------------------------------------------------
(* Time stamps: unsigned, of fixed width.                                  *)

\* Variant: a sum that overflows is not cut to the word.
WrapWide(x) == IF x < 0 THEN x + M ELSE x

\* The unsigned word that x wraps to, for a sum or difference x of two words.
Wrap(x) == IF x >= M THEN x - M ELSE IF x < 0 THEN x + M ELSE x

\* (int64_t)(a - b)
SignedDiff(a, b) == IF Wrap(a - b) >= Half THEN Wrap(a - b) - M ELSE Wrap(a - b)

\* TIMER_VAL_LESS_THAN_VAL: a is at or before b
LessThan(a, b) == SignedDiff(a, b) <= 0

\* Cycles until t is due; negative when it is overdue.
Remaining(t) == SignedDiff(ts[t], tsc)

\* The 32-bit sum of two fractions, and the carry as the code computes it.
FracSum(f, g) == IF f + g >= Frac THEN f + g - Frac ELSE f + g
Carry(f, g) == IF FracSum(f, g) < g THEN 1 ELSE 0

-----------------------------------------------------------------------------
(* The list.                                                               *)

Linked(q) == {q[i] : i \in 1 .. Len(q)}

\* Variant: always at the end.
PlaceLast(q, s) == Len(q) + 1

\* Where a timer with stamp s goes: in front of the first node it expires
\* before or together with, else at the end.
Place(q, s) ==
    LET later == {i \in 1 .. Len(q) : LessThan(s, ts[q[i]])}
    IN  IF later = {} THEN Len(q) + 1
        ELSE CHOOSE i \in later : \A j \in later : i <= j

LinkAt(q, k, t) ==
    [i \in 1 .. Len(q) + 1 |-> IF i < k THEN q[i] ELSE IF i = k THEN t ELSE q[i - 1]]

Unlink(q, t) ==
    LET k == CHOOSE i \in 1 .. Len(q) : q[i] = t
    IN  [i \in 1 .. Len(q) - 1 |-> IF i < k THEN q[i] ELSE q[i + 1]]

\* Variant: the cached deadline is not brought forward.
EnableKeepsTarget(q, en, t, s, f) ==
    LET rest == IF t \in en THEN Unlink(q, t) ELSE q
    IN  /\ queue' = LinkAt(rest, Place(rest, s), t)
        /\ enabled' = en \cup {t}
        /\ in_callback' = in_callback \ (en \cap {t})
        /\ ts' = [ts EXCEPT ![t] = s]
        /\ frac' = [frac EXCEPT ![t] = f]
        /\ UNCHANGED timer_target

\* timer_enable(t) once t's stamp has become s, f, in list q with flags en. A
\* timer already enabled is first disabled, which also ends its in_callback.
timer_enable(q, en, t, s, f) ==
    LET rest == IF t \in en THEN Unlink(q, t) ELSE q
        k == Place(rest, s)
    IN  /\ queue' = LinkAt(rest, k, t)
        /\ enabled' = en \cup {t}
        /\ in_callback' = in_callback \ (en \cap {t})
        /\ ts' = [ts EXCEPT ![t] = s]
        /\ frac' = [frac EXCEPT ![t] = f]
        /\ timer_target' = IF k = 1 THEN s ELSE timer_target

\* Variant: the timer leaves the list and stays flagged enabled.
DisableKeepsFlag(t) ==
    /\ queue' = IF timer_inited /\ t \in enabled THEN Unlink(queue, t) ELSE queue
    /\ UNCHANGED <<enabled, in_callback>>

\* The deadline cached in timer_target is left as it is.
timer_disable(t) ==
    IF timer_inited /\ t \in enabled
    THEN /\ queue' = Unlink(queue, t)
         /\ enabled' = enabled \ {t}
         /\ in_callback' = in_callback \ {t}
    ELSE UNCHANGED <<queue, enabled, in_callback>>

timer_set_delay_u64(q, en, t, d) ==
    timer_enable(q, en, t, Wrap(tsc + d.int), d.frac)

\* Variant: the deadline does not move.
AdvanceByNothing(q, en, t, d) == timer_enable(q, en, t, ts[t], frac[t])

timer_advance_u64(q, en, t, d) ==
    timer_enable(q, en, t, Wrap(ts[t] + d.int + Carry(frac[t], d.frac)),
                 FracSum(frac[t], d.frac))

-----------------------------------------------------------------------------
(* Periods longer than MAX_USEC are counted in parts.                      *)

timer_do_period(q, en, t, p, start) ==
    LET d == [int |-> p * TIMER_USEC, frac |-> 0]
    IN  IF start THEN timer_set_delay_u64(q, en, t, d) ELSE timer_advance_u64(q, en, t, d)

\* Variant: the part that is armed stays in the period.
AdvanceExKeepsPart(q, en, t, p, start) ==
    IF p > MAX_USEC
    THEN /\ timer_do_period(q, en, t, MAX_USEC, start)
         /\ period' = [period EXCEPT ![t] = p]
         /\ split' = split \cup {t}
    ELSE /\ timer_do_period(q, en, t, p, start)
         /\ period' = [period EXCEPT ![t] = 0]
         /\ split' = split \ {t}

\* timer_advance_ex(t, start) with timer->period = p. (p is never 0 here.)
timer_advance_ex(q, en, t, p, start) ==
    IF p > MAX_USEC
    THEN /\ timer_do_period(q, en, t, MAX_USEC, start)
         /\ period' = [period EXCEPT ![t] = p - MAX_USEC]
         /\ split' = split \cup {t}
    ELSE /\ timer_do_period(q, en, t, p, start)
         /\ period' = [period EXCEPT ![t] = 0]
         /\ split' = split \ {t}

\* The history variable is kept for armed timers only.
Forget(t) == due' = [due EXCEPT ![t] = 0]

-----------------------------------------------------------------------------
Init == /\ tsc = 0 /\ timer_target = 0 /\ timer_inited = FALSE
        /\ queue = <<>> /\ enabled = {} /\ split = {} /\ in_callback = {}
        /\ ts = [t \in Timers |-> 0]
        /\ frac = [t \in Timers |-> 0]
        /\ period = [t \in Timers |-> 0]
        /\ due = [t \in Timers |-> 0]
        /\ pc = "off" /\ cb = NoTimer

\* pc_reset_hard_init(): timer_init(), then every device's timer_add(), which
\* clears the timer; the two permanent ones are started with delay 0.
PowerOn ==
    /\ pc = "off"
    /\ tsc' = 0 /\ timer_target' = 0 /\ timer_inited' = TRUE
    /\ queue' = <<SoundPoll, MidiPoll>>
    /\ enabled' = Permanent
    /\ split' = {} /\ in_callback' = {}
    /\ ts' = [t \in Timers |-> 0]
    /\ frac' = [t \in Timers |-> 0]
    /\ period' = [t \in Timers |-> 0]
    /\ due' = [t \in Timers |-> 0]
    /\ pc' = "run"
    /\ UNCHANGED cb

\* pc_reset_hard_close(): timer_close() resets the timers in the list only.
PowerOff ==
    /\ pc = "run"
    /\ queue' = <<>>
    /\ enabled' = enabled \ Linked(queue)
    /\ split' = split \ Linked(queue)
    /\ in_callback' = in_callback \ Linked(queue)
    /\ period' = [t \in Timers |-> IF t \in Linked(queue) THEN 0 ELSE period[t]]
    /\ timer_target' = 0 /\ timer_inited' = FALSE
    /\ pc' = "off"
    /\ UNCHANGED <<tsc, ts, frac, cb, due>>

\* An instruction, or a compiled block, of n cycles, and the loop's check.
CpuStep(n) ==
    /\ pc = "run"
    /\ tsc' = Wrap(tsc + n)
    /\ pc' = IF LessThan(timer_target, tsc') /\ queue # <<>> THEN "process" ELSE "run"
    /\ UNCHANGED <<timer_target, timer_inited, queue, ts, frac, enabled, split,
                   in_callback, period, cb, due>>

\* A device's write handler calls timer_process() itself.
DeviceProcesses ==
    /\ pc = "run" /\ queue # <<>>
    /\ pc' = "process"
    /\ UNCHANGED <<tsc, timer_target, timer_inited, queue, ts, frac, enabled, split,
                   in_callback, period, cb, due>>

\* Variant: the head is taken whether due or not.
HeadAlwaysDue == queue # <<>>

HeadDue == queue # <<>> /\ LessThan(ts[queue[1]], tsc)

\* timer_remove_head() writes through the new head, so the list must not
\* become empty.
AfterRemoveHead(next) == IF Len(queue) = 1 THEN "fault" ELSE next

\* timer_process(): a due timer is taken off the list and its callback starts.
CallBack ==
    /\ pc = "process" /\ HeadDue
    /\ queue[1] \notin split
    /\ queue' = Tail(queue)
    /\ enabled' = enabled \ {queue[1]}
    /\ in_callback' = in_callback \cup {queue[1]}
    /\ cb' = queue[1]
    /\ pc' = AfterRemoveHead("callback")
    /\ Forget(queue[1])
    /\ UNCHANGED <<tsc, timer_target, timer_inited, ts, frac, split, period>>

\* timer_process(): a due timer whose period has more parts is armed again.
NextPart ==
    /\ pc = "process" /\ HeadDue
    /\ queue[1] \in split
    /\ timer_advance_ex(Tail(queue), enabled \ {queue[1]}, queue[1], period[queue[1]], FALSE)
    /\ pc' = AfterRemoveHead("process")
    /\ UNCHANGED <<tsc, timer_inited, cb, due>>

\* Variant: a permanent timer's callback may forget to re-arm it.
ReturnsUnarmed ==
    /\ pc = "callback"
    /\ in_callback' = in_callback \ {cb}
    /\ cb' = NoTimer
    /\ pc' = "process"
    /\ UNCHANGED <<tsc, timer_target, timer_inited, queue, ts, frac, enabled, split,
                   period, due>>

\* timer_process(): the callback returns. A permanent timer's callback has
\* re-armed the timer by then.
CallbackReturns ==
    /\ pc = "callback"
    /\ cb \in Permanent => cb \in enabled
    /\ in_callback' = in_callback \ {cb}
    /\ cb' = NoTimer
    /\ pc' = "process"
    /\ UNCHANGED <<tsc, timer_target, timer_inited, queue, ts, frac, enabled, split,
                   period, due>>

\* timer_process(): no due timer is left; the next deadline is cached, read
\* through the head.
ProcessEnds ==
    /\ pc = "process" /\ ~HeadDue
    /\ IF queue = <<>> THEN pc' = "fault" /\ UNCHANGED timer_target
       ELSE pc' = "run" /\ timer_target' = ts[queue[1]]
    /\ UNCHANGED <<tsc, timer_inited, queue, ts, frac, enabled, split, in_callback,
                   period, cb, due>>

\* midi_poll_ex(), sound_poll(): the callback's first statement.
PollAdvances ==
    /\ pc = "callback" /\ cb \in Permanent \ enabled
    /\ timer_advance_u64(queue, enabled, cb, PollDelay[cb])
    /\ UNCHANGED <<tsc, timer_inited, split, period, pc, cb, due>>

-----------------------------------------------------------------------------
(* Devices call the timer functions while the CPU executes an instruction  *)
(* and from timer callbacks.                                               *)

DeviceRuns == pc = "run" \/ (pc = "callback" /\ cb \notin Permanent \ enabled)

SetDelay(t, d) ==
    /\ DeviceRuns
    /\ timer_set_delay_u64(queue, enabled, t, d)
    /\ UNCHANGED <<tsc, timer_inited, split, period, pc, cb, due>>

\* A device's callback resumes its recurring timer.
Advance(d) ==
    /\ pc = "callback" /\ cb \in Devices \cap in_callback
    /\ Remaining(cb) <= 0
    /\ timer_advance_u64(queue, enabled, cb, d)
    /\ UNCHANGED <<tsc, timer_inited, split, period, pc, cb, due>>

Disable(t) ==
    /\ DeviceRuns
    /\ timer_disable(t)
    /\ Forget(t)
    /\ UNCHANGED <<tsc, timer_target, timer_inited, ts, frac, split, period, pc, cb>>

\* timer_on_auto(t, p): from now, but from the last deadline when called by t's
\* own callback.
OnAuto(t, p) ==
    /\ DeviceRuns
    /\ RearmWhileRunning \/ (period[t] = 0 /\ t \notin in_callback \cap enabled)
    /\ timer_advance_ex(queue, enabled, t, p, period[t] <= 0 /\ t \notin in_callback)
    /\ due' = [due EXCEPT ![t] =
                  Wrap((IF t \in in_callback THEN ts[t] ELSE tsc) + p * TIMER_USEC)]
    /\ UNCHANGED <<tsc, timer_inited, pc, cb>>

\* timer_stop(t), also timer_on_auto(t, 0)
Stop(t) ==
    /\ DeviceRuns
    /\ queue' = IF t \in enabled THEN Unlink(queue, t) ELSE queue
    /\ enabled' = enabled \ {t}
    /\ split' = split \ {t}
    /\ in_callback' = in_callback \ {t}
    /\ period' = [period EXCEPT ![t] = 0]
    /\ Forget(t)
    /\ UNCHANGED <<tsc, timer_target, timer_inited, ts, frac, pc, cb>>

\* Variant: the timers keep their old time stamps.
SetNewTscOnly(v) ==
    /\ pc = "run"
    /\ tsc' = v
    /\ UNCHANGED <<timer_target, timer_inited, queue, ts, frac, enabled, split,
                   in_callback, period, pc, cb, due>>

\* timer_set_new_tsc(v): the guest writes the time-stamp counter. Every timer in
\* the list keeps its distance; the stamps of the others are left as they are.
SetNewTsc(v) ==
    LET moved(s) == Wrap(v + SignedDiff(s, tsc))
    IN  /\ pc = "run"
        /\ tsc' = v
        /\ ts' = [t \in Timers |-> IF t \in Linked(queue) THEN moved(ts[t]) ELSE ts[t]]
        /\ timer_target' = IF queue = <<>> THEN timer_target ELSE moved(ts[queue[1]])
        /\ due' = [t \in Timers |-> IF t \in BigTimers \cap enabled
                                   THEN Wrap(v + Wrap(due[t] - tsc)) ELSE due[t]]
        /\ UNCHANGED <<timer_inited, queue, frac, enabled, split, in_callback, period,
                       pc, cb>>

Emulation == CallBack \/ NextPart \/ CallbackReturns \/ ProcessEnds \/ PollAdvances

Next == \/ PowerOn \/ PowerOff \/ DeviceProcesses
        \/ Emulation
        \/ \E n \in 1 .. MaxStep : CpuStep(n)
        \/ \E t \in Devices, d \in Delays : SetDelay(t, d)
        \/ \E d \in Delays : Advance(d)
        \/ \E t \in Devices \cup BigTimers : Disable(t)
        \/ \E t \in BigTimers, p \in Periods : OnAuto(t, p)
        \/ \E t \in BigTimers : Stop(t)
        \/ \E v \in Stamps : SetNewTsc(v)

Spec == Init /\ [][Next]_vars

\* The emulation thread keeps running: callbacks return, and an instruction
\* that makes devices process timers nevertheless completes.
FairSpec == /\ Spec
            /\ WF_vars(Emulation)
            /\ SF_vars(\E n \in 1 .. MaxStep : CpuStep(n))
            /\ WF_vars(PowerOn)

-----------------------------------------------------------------------------
\* Type invariant.
TypeOK ==
    /\ tsc \in Stamps /\ timer_target \in Stamps /\ timer_inited \in BOOLEAN
    /\ queue \in Seq(Timers)
    /\ ts \in [Timers -> Stamps] /\ frac \in [Timers -> 0 .. Frac - 1]
    /\ enabled \subseteq Timers /\ split \subseteq BigTimers /\ in_callback \subseteq Timers
    /\ period \in [Timers -> Nat] /\ due \in [Timers -> Stamps]
    /\ pc \in {"off", "run", "process", "callback", "fault"}
    /\ cb \in Timers \cup {NoTimer}

\* timer_enable()'s fatal() and timer_disable()'s deliberate crash are never
\* reached: a timer is in the list, once, exactly when it is flagged enabled.
LinkedIffEnabled ==
    /\ Linked(queue) = enabled
    /\ \A i, j \in 1 .. Len(queue) : queue[i] = queue[j] => i = j

\* The list is sorted by deadline as the wrapping comparison orders them,
\* through wrap-around of the counter and through guest writes to it.
Sorted ==
    \A i, j \in 1 .. Len(queue) : i < j => Remaining(queue[i]) <= Remaining(queue[j])

\* "Timestamp of nearest enabled timer" (timer.h:53): while the CPU executes, the
\* cached deadline is never later than the head's, even after timer_disable(),
\* timer_stop() or a counter write, so that no timer is noticed late.
TargetNotLate ==
    pc = "run" /\ queue # <<>> => SignedDiff(timer_target, tsc) <= Remaining(queue[1])

\* timer_process() and timer_remove_head() follow timer_head without a test;
\* the two timers that sound_reset() starts keep it from ever being NULL.
NoFault == pc # "fault"

\* A period of any length ends when it was asked to end: the part of it that is
\* armed and the part still in timer->period add up to the time remaining.
PeriodExact ==
    \A t \in BigTimers \cap enabled : Wrap(ts[t] + period[t] * TIMER_USEC) = due[t]

\* A callback is called for the timer that is due, the most overdue one first,
\* and never twice for one arming; the CPU resumes only with nothing due.
Clock == INSTANCE AlarmClock
    WITH armed <- enabled, phase <- pc, firing <- cb,
         left <- [t \in Timers |-> IF t \in enabled THEN Remaining(t) ELSE 0]

ImplementsClock == Clock!Spec

\* timer_process() terminates (callbacks that re-arm their timer ask for a
\* positive delay), and the machine goes on executing.
ProcessTerminates == pc = "process" ~> pc = "run"

\* The sound and MIDI poll callbacks are called again and again.
PollsForever == \A t \in Permanent : (pc = "run") ~> (cb = t \/ pc = "off")
=============================================================================
