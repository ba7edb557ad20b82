---------------------------- MODULE AlarmClock ----------------------------
(***************************************************************************)
(* What the timer subsystem of timer.c promises to the devices and to the  *)
(* CPU loop, with no list, no cached deadline and no time-stamp counter: a *)
(* set of armed alarms, each with the number of cycles left until it is    *)
(* due (negative once it is overdue).                                      *)
(*                                                                         *)
(* - The CPU goes on executing only while nothing is due.                  *)
(* - Alarms go off one at a time, one that is due, and always the one that *)
(*   is most overdue; an alarm going off is no longer armed.               *)
(* - Processing ends only when nothing is due.                             *)
(***************************************************************************)
EXTENDS Integers

CONSTANTS Timers,      \* the alarms
          MaxStep,     \* most cycles the CPU runs between two looks at the clock
          NoTimer      \* "no alarm is going off"

VARIABLES armed, left, phase, firing

vars == <<armed, left, phase, firing>>

Due(t) == t \in armed /\ left[t] <= 0

Earliest(t) == \A u \in armed : left[t] <= left[u]

Init == /\ armed = {}
        /\ left = [t \in Timers |-> 0]
        /\ phase = "off"
        /\ firing = NoTimer

\* The machine is set up: some alarms are already armed.
PowerOn == /\ phase = "off"
           /\ armed' \in SUBSET Timers
           /\ left' = [t \in Timers |-> 0]
           /\ phase' = "run"
           /\ UNCHANGED firing

PowerOff == /\ phase = "run"
            /\ armed' = {}
            /\ left' = [t \in Timers |-> 0]
            /\ phase' = "off"
            /\ UNCHANGED firing

\* The CPU executes for n cycles, and stops to process what came due.
Tick(n) == /\ phase = "run"
           /\ left' = [t \in Timers |-> IF t \in armed THEN left[t] - n ELSE 0]
           /\ \/ phase' = "run" /\ \A t \in armed : left'[t] > 0
              \/ phase' = "process"
           /\ UNCHANGED <<armed, firing>>

\* A device write makes the CPU process alarms at once.
Look == /\ phase = "run"
        /\ phase' = "process"
        /\ UNCHANGED <<armed, left, firing>>

\* Alarms are set and cancelled by devices, during execution or from the
\* handler of an alarm that is going off.
Arm(t) == /\ phase \in {"run", "callback"}
          /\ armed' = armed \cup {t}
          /\ left'[t] \in Int
          /\ left' = [left EXCEPT ![t] = left'[t]]
          /\ UNCHANGED <<phase, firing>>

Cancel(t) == /\ phase \in {"run", "callback"}
             /\ armed' = armed \ {t}
             /\ left' = [left EXCEPT ![t] = 0]
             /\ UNCHANGED <<phase, firing>>

GoOff(t) == /\ phase = "process"
            /\ Due(t) /\ Earliest(t)
            /\ armed' = armed \ {t}
            /\ left' = [left EXCEPT ![t] = 0]
            /\ phase' = "callback"
            /\ firing' = t

\* An alarm set for longer than the clock can count is due again later,
\* silently.
Extend(t) == /\ phase = "process"
             /\ Due(t) /\ Earliest(t)
             /\ left'[t] \in Int /\ left'[t] > left[t]
             /\ left' = [left EXCEPT ![t] = left'[t]]
             /\ UNCHANGED <<armed, phase, firing>>

HandlerReturns == /\ phase = "callback"
                  /\ phase' = "process"
                  /\ firing' = NoTimer
                  /\ UNCHANGED <<armed, left>>

Resume == /\ phase = "process"
          /\ \A t \in armed : ~Due(t)
          /\ phase' = "run"
          /\ UNCHANGED <<armed, left, firing>>

Next == \/ PowerOn \/ PowerOff \/ Look \/ HandlerReturns \/ Resume
        \/ \E n \in 1..MaxStep : Tick(n)
        \/ \E t \in Timers : Arm(t) \/ Cancel(t) \/ GoOff(t) \/ Extend(t)

Spec == Init /\ [][Next]_vars
=============================================================================
