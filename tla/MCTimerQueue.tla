---------------------------- MODULE MCTimerQueue -----------------------------
(* TimerQueue for TLC: a repeating timer and one-shot timers.               *)
EXTENDS TimerQueue

CONSTANTS repeating, oneShot, another

MCInterval == [t \in Timers |-> IF t = repeating THEN 2 ELSE 0]
=============================================================================
