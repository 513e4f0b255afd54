------------------------------- MODULE Clockwork -------------------------------
(***************************************************************************)
(* The parts of the engine that time drives, under one clock: the host's   *)
(* Durable Object, the cron's reminders, the rate limiter and the OAuth    *)
(* tokens. They meet nowhere else (each has tables, objects and providers  *)
(* of its own), so a behaviour follows one part, fixed when it begins,     *)
(* while the others stand still: the product of all four would tell no     *)
(* more about any.                                                         *)
(***************************************************************************)
EXTENDS HostCalendar, Reminders, RateLimiter, Tokens

VARIABLE part  \* the part this behaviour is about

works == <<clock, hostVars, cronVars, limitVars, tokenVars, part>>

Init ==
  /\ ClockInit /\ HostInit /\ CronInit /\ LimitInit /\ TokenInit
  /\ part \in {"host", "cron", "limits", "tokens"}
  /\ part = "tokens" \/ (row.refresh = 1 /\ rotation = CHOOSE r \in Rotations : TRUE)

\* A step of the host's object, its guests and its lessees.
Host(A) == part = "host" /\ A /\ UNCHANGED <<clock, cronVars, limitVars, tokenVars, part>>
Cron == part = "cron" /\ CronNext /\ UNCHANGED <<clock, hostVars, limitVars, tokenVars, part>>
Limits == part = "limits" /\ LimitNext /\ UNCHANGED <<clock, hostVars, cronVars, tokenVars, part>>
Connection == part = "tokens" /\ TokenNext /\ UNCHANGED <<clock, hostVars, cronVars, limitVars, part>>
Time == Tick /\ UNCHANGED <<hostVars, cronVars, limitVars, tokenVars, part>>

Next == Host(HostNext) \/ Cron \/ Limits \/ Connection \/ Time

\* Time passes, the runtime runs due alarms and what they began, and the cron
\* comes round.
Fairness ==
  /\ WF_works(Time)
  /\ WF_works(Host(AlarmFires))
  /\ WF_works(Host(AlarmMirrors))
  /\ WF_works(Host(ExpireHolds))

Spec == Init /\ [][Next]_works /\ Fairness

TypeOK == clock \in Times /\ HostTypeOK /\ CronTypeOK /\ LimitTypeOK /\ TokenTypeOK
================================================================================
