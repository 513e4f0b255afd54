--------------------------------- MODULE Clock ---------------------------------
(***************************************************************************)
(* Date.now(), shared by the parts of the system that wait for a time:     *)
(* Durable Object alarms, the cron, rate limits and access tokens.         *)
(***************************************************************************)
EXTENDS Naturals, FiniteSets

CONSTANT MaxClock  \* bound: the model's time ends here

ASSUME ClockAssumption == MaxClock \in Nat \ {0}

VARIABLE clock

ClockInit == clock = 0

Tick == clock < MaxClock /\ clock' = clock + 1

\* A moment to come that the model's time still reaches.
After(delay) == clock + delay
Reached(t) == t <= clock
InTime(delay) == After(delay) <= MaxClock

Earliest(S) == CHOOSE t \in S : \A u \in S : t <= u
================================================================================
