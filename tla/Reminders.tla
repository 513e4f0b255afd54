------------------------------- MODULE Reminders -------------------------------
(***************************************************************************)
(* The cron's reminder task: every Interval it looks for the confirmed     *)
(* meetings that start within one Interval from a day, then from an hour,  *)
(* after the time it was scheduled for, and sends one mail for each.       *)
(* Cloudflare may run a tick late, not at all, or twice; a failing send    *)
(* ends the task, which nothing tries again.                               *)
(***************************************************************************)
EXTENDS Clock, Sequences

CONSTANTS
  Meetings,
  StartOf,    \* StartOf[b]: bookings.start_utc
  Interval,   \* five minutes
  Leads,      \* <<a day, an hour>>, in the order the task takes them
  CronFaults  \* which of "skip", "repeat" and "send" may happen

ASSUME RemindersAssumption ==
  /\ StartOf \in [Meetings -> Nat]
  /\ Interval \in Nat \ {0}
  /\ Leads \in Seq(Nat) \ {<<>>}
  /\ CronFaults \subseteq {"skip", "repeat", "send"}

VARIABLES
  meeting,   \* meeting[b]: "none", "confirmed", "ended", or "unowned" when its
             \* event type or host is gone
  since,     \* since[b]: when b was confirmed
  nextCron,  \* the scheduledTime of the next tick
  run,       \* the locals of sendReminders
  mails,     \* mails[b][i]: reminders of lead i handed to the queue
  missed,    \* history: scheduledTimes that were skipped or ended early
  repeated   \* history: scheduledTimes that were run twice

cronVars == <<meeting, since, nextCron, run, mails, missed, repeated>>

NoRun == [at |-> "idle", now |-> 0, lead |-> 1, due |-> {}]

CronInit ==
  /\ meeting = [b \in Meetings |-> "none"]
  /\ since = [b \in Meetings |-> 0]
  /\ nextCron = 0
  /\ run = NoRun
  /\ mails = [b \in Meetings |-> [i \in DOMAIN Leads |-> 0]]
  /\ missed = {} /\ repeated = {}

-----------------------------------------------------------------------------
(* What the guests and hosts do meanwhile. *)

ConfirmMeeting(b) ==
  /\ meeting[b] = "none" /\ clock < StartOf[b]
  /\ meeting' = [meeting EXCEPT ![b] = "confirmed"]
  /\ since' = [since EXCEPT ![b] = clock]
  /\ UNCHANGED <<nextCron, run, mails, missed, repeated>>

EndMeeting(b) ==
  /\ meeting[b] = "confirmed"
  /\ \E s \in {"ended", "unowned"} : meeting' = [meeting EXCEPT ![b] = s]
  /\ UNCHANGED <<since, nextCron, run, mails, missed, repeated>>

-----------------------------------------------------------------------------
(* The cron. *)

Begin(t) == run' = [NoRun EXCEPT !.at = "ask", !.now = t]

CronFires ==
  /\ run.at = "idle" /\ Reached(nextCron)
  /\ Begin(nextCron)
  /\ nextCron' = nextCron + Interval
  /\ UNCHANGED <<meeting, since, mails, missed, repeated>>

CronSkips ==
  /\ "skip" \in CronFaults /\ Reached(nextCron)
  /\ nextCron' = nextCron + Interval
  /\ missed' = missed \cup {nextCron}
  /\ UNCHANGED <<meeting, since, run, mails, repeated>>

CronRepeats ==
  /\ "repeat" \in CronFaults /\ run.at = "idle" /\ nextCron >= Interval
  /\ nextCron - Interval \notin repeated
  /\ Begin(nextCron - Interval)
  /\ repeated' = repeated \cup {nextCron - Interval}
  /\ UNCHANGED <<meeting, since, nextCron, mails, missed>>

\* Slip: the window includes its end.
DueUntil(from, to) == {b \in Meetings : meeting[b] \in {"confirmed", "unowned"} /\ StartOf[b] \in from..to}

\* start_utc >= from AND start_utc < to. A booking keeps its status when its
\* event type or host goes.
DueBetween(from, to) ==
  {b \in Meetings : meeting[b] \in {"confirmed", "unowned"} /\ from <= StartOf[b] /\ StartOf[b] < to}

AskDue ==
  /\ run.at = "ask"
  /\ LET from == run.now + Leads[run.lead] IN
       run' = [run EXCEPT !.at = "send", !.due = DueBetween(from, from + Interval)]
  /\ UNCHANGED <<meeting, since, nextCron, mails, missed, repeated>>

\* In the order of their starts; a row without event type or host is passed over.
Remind(b) ==
  /\ run.at = "send" /\ b \in run.due
  /\ \A a \in run.due : StartOf[b] <= StartOf[a]
  /\ run' = [run EXCEPT !.due = @ \ {b}]
  /\ mails' = IF meeting[b] = "unowned" THEN mails ELSE [mails EXCEPT ![b][run.lead] = @ + 1]
  /\ UNCHANGED <<meeting, since, nextCron, missed, repeated>>

\* The first failing read or send leaves the loop; runScheduledTasks logs it.
RemindFails ==
  /\ "send" \in CronFaults /\ run.at # "idle"
  /\ run' = NoRun
  /\ missed' = missed \cup {run.now}
  /\ UNCHANGED <<meeting, since, nextCron, mails, repeated>>

\* Slip: one lead too many.
PastLastLead ==
  /\ run.at = "send" /\ run.due = {}
  /\ run' = IF run.lead > Len(Leads) THEN NoRun ELSE [run EXCEPT !.at = "ask", !.lead = @ + 1]
  /\ UNCHANGED <<meeting, since, nextCron, mails, missed, repeated>>

NextLead ==
  /\ run.at = "send" /\ run.due = {}
  /\ run' = IF run.lead = Len(Leads) THEN NoRun ELSE [run EXCEPT !.at = "ask", !.lead = @ + 1]
  /\ UNCHANGED <<meeting, since, nextCron, mails, missed, repeated>>

CronNext ==
  \/ \E b \in Meetings : ConfirmMeeting(b) \/ EndMeeting(b) \/ Remind(b)
  \/ CronFires \/ CronSkips \/ CronRepeats
  \/ AskDue \/ RemindFails \/ NextLead

-----------------------------------------------------------------------------
(* Properties. *)

CronTypeOK ==
  /\ meeting \in [Meetings -> {"none", "confirmed", "ended", "unowned"}]
  /\ since \in [Meetings -> 0..MaxClock]
  /\ nextCron \in Nat
  /\ run \in [at: {"idle", "ask", "send"}, now: Nat, lead: DOMAIN Leads, due: SUBSET Meetings]
  /\ mails \in [Meetings -> [DOMAIN Leads -> Nat]]
  /\ missed \subseteq Nat /\ repeated \subseteq Nat

\* The ticks at most one Interval before the time to remind of b.
TicksFor(b, i) == {t \in 0..StartOf[b] : t <= StartOf[b] - Leads[i] /\ StartOf[b] - Leads[i] < t + Interval}

\* "A booking is picked up exactly once": never twice, however late the ticks
\* run, unless Cloudflare runs one twice; and, if the tick before the time to
\* remind was not lost, once that tick and any still running are over, a booking
\* that had stood since before it has had its mail.
RemindedOnce ==
  \A b \in Meetings : \A i \in DOMAIN Leads :
    TicksFor(b, i) \cap repeated = {} =>
      /\ mails[b][i] <= 1
      /\ /\ meeting[b] = "confirmed" /\ run.at = "idle"
         /\ nextCron + Leads[i] > StartOf[b] /\ StartOf[b] >= since[b] + Leads[i] + Interval
         /\ TicksFor(b, i) \cap missed = {}
         => mails[b][i] = 1
================================================================================
