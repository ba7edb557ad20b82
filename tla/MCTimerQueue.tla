--------------------------- MODULE MCTimerQueue ---------------------------
(* One device timer and one big timer beside the two permanent ones. *)
EXTENDS TimerQueue, TLC

CONSTANTS Dev, Big

MCDevices == {Dev}
MCBigTimers == {Big}
D(i, f) == [int |-> i, frac |-> f]
MCPollDelay == (SoundPoll :> D(1, 1)) @@ (MidiPoll :> D(2, 0))
MCDelays == {D(0, 0), D(2, 0)}
LiveDelays == {D(1, 1), D(2, 0)}
=============================================================================
