---------------------------- MODULE ClockworkProofs ----------------------------
(***************************************************************************)
(* For any holds, lessees, meetings, calls, durations and faults: what is  *)
(* promised of the parts that time drives. Each part's invariant is proved *)
(* for its own steps beside a clock that ticks, and then for the composed  *)
(* behaviours, which follow one part.                                      *)
(*                                                                         *)
(* LeaseExcludes needs TrustInv: a grant lost with the object writes a row *)
(* that must not end before the one it replaces. AlarmCovers is not        *)
(* inductive either: while alarm() waits for D1 it holds by `waking`       *)
(* alone, and an object that dies there is tried again only if no alarm    *)
(* was set meanwhile, so CoverInv says what such an alarm covers.          *)
(* RemindedOnce needs to know where the running tick is: OnceInv that a    *)
(* mail not yet due was not sent, SentInv that one not yet sent is still   *)
(* ahead of the run that will send it, PaceInv that the cron is never      *)
(* early. RateKept speaks of the calls let through; BucketInv says what    *)
(* they leave in the bucket. TokenKept holds because of who may still have *)
(* a token the provider honours (HonourInv).                               *)
(***************************************************************************)
EXTENDS Clockwork, WellFoundedInduction, TLAPS

LEMMA Minimum ==
  ASSUME NEW S \in SUBSET Nat, S # {}
  PROVE  Earliest(S) \in S /\ \A t \in S : Earliest(S) <= t
<1>1. PICK t \in S : \A u \in S : ~(<<u, t>> \in OpToRel(<, Nat))
  BY NatLessThanWellFounded, WFMin
<1>2. \A u \in S : ~(u < t)
  BY <1>1 DEF OpToRel
<1>3. \A u \in S : t <= u
  BY <1>2, SMT
<1> QED
  BY <1>3 DEF Earliest

TypeInv == HostTypeOK /\ clock \in Times

\* scheduleNextAlarm: an alarm no later than anything pending.
LEMMA NextAlarmCovers ==
  ASSUME NEW current \in Times, NEW H \in [Holds -> Times], NEW L, L.until \in Times
  PROVE  /\ NextAlarm(current, H, L) \in Times
         /\ \A h \in Holds : H[h] # 0 => NextAlarm(current, H, L) # 0 /\ NextAlarm(current, H, L) <= H[h]
         /\ L.until # 0 => NextAlarm(current, H, L) # 0 /\ NextAlarm(current, H, L) <= L.until
<1> DEFINE P == Pending(H, L)
<1>1. P \subseteq Times /\ P \subseteq Nat /\ 0 \notin P
  BY DEF Pending, Times
<1>2. \A h \in Holds : H[h] # 0 => H[h] \in P
  BY DEF Pending
<1>3. L.until # 0 => L.until \in P
  BY DEF Pending
<1>4. P # {} => Earliest(P) \in P /\ \A t \in P : Earliest(P) <= t
  BY <1>1, Minimum
<1> HIDE DEF P
<1>5. NextAlarm(current, H, L) = IF P = {} THEN current
        ELSE IF current = 0 \/ current > Earliest(P) THEN Earliest(P) ELSE current
  BY DEF NextAlarm, P
<1>6. NextAlarm(current, H, L) \in Times
  BY <1>1, <1>4, <1>5
<1>7. ASSUME NEW t \in P
      PROVE  NextAlarm(current, H, L) # 0 /\ NextAlarm(current, H, L) <= t
  <2>1. Earliest(P) \in Nat \ {0} /\ Earliest(P) <= t /\ t \in Nat
    BY <1>1, <1>4
  <2>2. current \in Nat
    BY DEF Times
  <2> QED
    BY <1>5, <2>1, <2>2
<1> QED
  BY <1>2, <1>3, <1>6, <1>7

-----------------------------------------------------------------------------
(* Types. *)

LEMMA CreateTypes ==
  ASSUME TypeInv, NEW h \in Holds, NEW ttl \in HoldTTLs, CreateHold(h, ttl), UNCHANGED clock
  PROVE  TypeInv'
<1>1. After(Clamped(ttl)) \in Times
  BY HostAssumption, ClockAssumption
  DEF CreateHold, InTime, After, Clamped, Times, TypeInv
<1>2. held' \in [Holds -> Times]
  BY <1>1 DEF CreateHold, TypeInv, HostTypeOK
<1>3. NextAlarm(alarm, held', lease) \in Times
  BY <1>2, NextAlarmCovers DEF TypeInv, HostTypeOK
<1>4. alarm' \in Times /\ stranded' \subseteq Holds \cup {"lease"}
  BY <1>3 DEF CreateHold, Scheduled, Evicted, TypeInv, HostTypeOK
<1>5. told' \in [Holds -> Times] /\ guest' \in [Holds -> {"new", "granted", "placed", "leaving", "gone"}]
  BY <1>2 DEF CreateHold, TypeInv, HostTypeOK
<1> QED
  BY <1>2, <1>4, <1>5 DEF CreateHold, TypeInv, HostTypeOK

LEMMA AcquireTypes ==
  ASSUME TypeInv, NEW c \in Lessees, Acquire(c), UNCHANGED clock
  PROVE  TypeInv'
<1>1. After(LeaseTTL) \in Times
  BY HostAssumption, ClockAssumption DEF Acquire, InTime, After, Times, TypeInv
<1>2. lease' \in [by: Lessees \cup {Nobody}, until: Times]
  BY <1>1 DEF Acquire
<1>3. NextAlarm(alarm, held, lease') \in Times
  BY <1>2, NextAlarmCovers DEF TypeInv, HostTypeOK
<1>4. /\ alarm' \in Times /\ stranded' \subseteq Holds \cup {"lease"}
      /\ trust' \in [Lessees -> Times]
  BY <1>1, <1>3 DEF Acquire, Scheduled, Evicted, TypeInv, HostTypeOK
<1> QED
  BY <1>2, <1>4 DEF Acquire, TypeInv, HostTypeOK

LEMMA FireTypes ==
  ASSUME TypeInv, AlarmFires, UNCHANGED clock
  PROVE  TypeInv'
<1>1. 0 \in Times /\ NoLease \in [by: Lessees \cup {Nobody}, until: Times]
  BY ClockAssumption DEF Times, NoLease
<1>2. held' \in [Holds -> Times] /\ lease' \in [by: Lessees \cup {Nobody}, until: Times]
  BY <1>1 DEF AlarmFires, TypeInv, HostTypeOK
<1>3. NextAlarm(0, held', lease') \in Times
  BY <1>1, <1>2, NextAlarmCovers
<1>4. expired' \subseteq Holds /\ waking' \in BOOLEAN
  BY DEF AlarmFires
<1>5. alarm' \in Times
  BY <1>1, <1>3 DEF AlarmFires
<1> QED
  BY <1>2, <1>4, <1>5 DEF AlarmFires, TypeInv, HostTypeOK

LEMMA MirrorTypes ==
  ASSUME TypeInv, AlarmMirrors, UNCHANGED clock
  PROVE  TypeInv'
<1>1. NextAlarm(alarm, held, lease) \in Times
  BY NextAlarmCovers DEF TypeInv, HostTypeOK
<1>2. rows' \in [Holds -> Times]
  BY ClockAssumption DEF AlarmMirrors, TypeInv, HostTypeOK, Times
<1> QED
  BY <1>1, <1>2 DEF AlarmMirrors, TypeInv, HostTypeOK

LEMMA TypesStep ==
  ASSUME TypeInv, [HostStep]_<<clock, hostVars>>
  PROVE  TypeInv'
<1> USE ClockAssumption DEF TypeInv, HostTypeOK, Times
<1>0. CASE UNCHANGED <<clock, hostVars>>
  BY <1>0 DEF hostVars
<1>1. CASE Tick /\ UNCHANGED hostVars
  BY <1>1 DEF Tick, hostVars
<1>2. CASE HostNext /\ UNCHANGED clock
  <2>1. ASSUME NEW h \in Holds, NEW ttl \in HoldTTLs, CreateHold(h, ttl)
        PROVE  TypeInv'
    BY <1>2, <2>1, CreateTypes
  <2>2. ASSUME NEW h \in Holds, PlaceHold(h)
        PROVE  TypeInv'
    BY <1>2, <2>2 DEF PlaceHold
  <2>3. ASSUME NEW h \in Holds, LeaveHold(h)
        PROVE  TypeInv'
    BY <1>2, <2>3 DEF LeaveHold
  <2>4. ASSUME NEW h \in Holds, LeaveRows(h) \/ BookHold(h)
        PROVE  TypeInv'
    BY <1>2, <2>4 DEF LeaveRows, BookHold
  <2>5. ASSUME NEW c \in Lessees, Acquire(c)
        PROVE  TypeInv'
    BY <1>2, <2>5, AcquireTypes
  <2>6. ASSUME NEW c \in Lessees, Release(c)
        PROVE  TypeInv'
    BY <1>2, <2>6 DEF Release, NoLease
  <2>7. CASE AlarmFires
    BY <1>2, <2>7, FireTypes
  <2>8. CASE AlarmMirrors
    BY <1>2, <2>8, MirrorTypes
  <2>9. CASE AlarmDies
    BY <1>2, <2>9 DEF AlarmDies
  <2>10. CASE ExpireHolds
    BY <1>2, <2>10 DEF ExpireHolds
  <2> QED
    BY <1>2, <2>1, <2>2, <2>3, <2>4, <2>5, <2>6, <2>7, <2>8, <2>9, <2>10 DEF HostNext
<1> QED
  BY <1>0, <1>1, <1>2 DEF HostStep

-----------------------------------------------------------------------------
(* Leases. *)

\* A lease never reaches further than one granted now would.
TrustInv == \A c \in Lessees : trust[c] <= clock + LeaseTTL

LeaseInv == LeaseExcludes /\ TrustInv

LEMMA AcquireLease ==
  ASSUME TypeInv, LeaseInv, NEW c \in Lessees, Acquire(c), UNCHANGED clock
  PROVE  LeaseInv'
<1>1. lease' = [by |-> c, until |-> clock + LeaseTTL] /\ clock' = clock
  BY DEF Acquire, After
<1>2. trust' = trust \/ trust' = [trust EXCEPT ![c] = clock + LeaseTTL]
  BY DEF Acquire, After
<1>3. clock \in Nat /\ LeaseTTL \in Nat /\ trust \in [Lessees -> Nat] /\ lease.until \in Nat
  BY HostAssumption DEF TypeInv, HostTypeOK, Times
<1>4. \A d \in Lessees : d # c => ~(trust[d] > clock)
  BY <1>3, HostAssumption DEF Acquire, LeaseInv, LeaseExcludes
<1>5. TrustInv'
  BY <1>1, <1>2, <1>3 DEF LeaseInv, TrustInv
<1>6. LeaseExcludes'
  BY <1>1, <1>2, <1>3, <1>4, <1>5 DEF LeaseInv, LeaseExcludes, TrustInv
<1> QED
  BY <1>5, <1>6 DEF LeaseInv

LEMMA LeaseStep ==
  ASSUME TypeInv, LeaseInv, [HostStep]_<<clock, hostVars>>
  PROVE  LeaseInv'
<1>0. clock \in Nat /\ LeaseTTL \in Nat /\ trust \in [Lessees -> Nat] /\ lease.until \in Nat
  BY HostAssumption DEF TypeInv, HostTypeOK, Times
<1>1. CASE UNCHANGED <<clock, lease, trust>>
  BY <1>1 DEF LeaseInv, LeaseExcludes, TrustInv
<1>2. CASE Tick /\ UNCHANGED hostVars
  BY <1>0, <1>2 DEF Tick, hostVars, LeaseInv, LeaseExcludes, TrustInv
<1>3. ASSUME NEW c \in Lessees, Release(c), UNCHANGED clock
      PROVE  LeaseInv'
  <2>1. trust' = [trust EXCEPT ![c] = 0] /\ clock' = clock
    BY <1>3 DEF Release
  <2>2. lease.by # c => lease' = lease
    BY <1>3 DEF Release
  <2> QED
    BY <1>0, <2>1, <2>2 DEF LeaseInv, LeaseExcludes, TrustInv
<1>4. CASE AlarmFires /\ UNCHANGED clock
  <2>1. trust' = trust /\ clock' = clock /\ (lease' = lease \/ lease.until <= clock)
    BY <1>4 DEF AlarmFires, Over, Reached
  <2> QED
    BY <1>0, <2>1 DEF LeaseInv, LeaseExcludes, TrustInv
<1>5. CASE HostNext /\ UNCHANGED clock
  BY <1>1, <1>3, <1>4, <1>5, AcquireLease
  DEF HostNext, CreateHold, PlaceHold, LeaveHold, LeaveRows, BookHold, AlarmMirrors, AlarmDies, ExpireHolds
<1>6. CASE UNCHANGED <<clock, hostVars>>
  BY <1>1, <1>6 DEF hostVars
<1> QED
  BY <1>2, <1>5, <1>6 DEF HostStep

-----------------------------------------------------------------------------
(* The alarm. *)

\* What does not lean on `waking` once an alarm is set.
Safe(t) == Over(alarm) \/ (alarm # 0 /\ alarm <= t) \/ (waking /\ alarm = 0)

CoverInv ==
  /\ waking => clock > 0
  /\ \A h \in Holds : held[h] = 0 \/ h \in stranded \/ Safe(held[h])
  /\ lease.until = 0 \/ "lease" \in stranded \/ Safe(lease.until)

\* A method that reaches scheduleNextAlarm covers everything.
LEMMA Rearmed ==
  ASSUME held' \in [Holds -> Times], lease'.until \in Times, NEW current \in Times,
         alarm' = NextAlarm(current, held', lease'), waking' => clock' > 0
  PROVE  CoverInv'
<1>1. \A h \in Holds : held'[h] # 0 => alarm' # 0 /\ alarm' <= held'[h]
  BY NextAlarmCovers
<1>2. lease'.until # 0 => alarm' # 0 /\ alarm' <= lease'.until
  BY NextAlarmCovers
<1> QED
  BY <1>1, <1>2 DEF CoverInv, Safe

LEMMA CreateCovers ==
  ASSUME TypeInv, TypeInv', CoverInv, UNCHANGED clock,
         NEW h \in Holds, NEW ttl \in HoldTTLs, CreateHold(h, ttl)
  PROVE  CoverInv'
<1>1. waking' = waking /\ lease' = lease /\ clock' = clock
  BY DEF CreateHold
<1>2. CASE Scheduled(held', lease)
  BY <1>1, <1>2, Rearmed DEF Scheduled, TypeInv, HostTypeOK, CoverInv
<1>3. CASE Evicted(h)
  <2>1. h \in stranded' /\ stranded \subseteq stranded' /\ alarm' = alarm
    BY <1>3 DEF Evicted
  <2>2. \A g \in Holds : g # h => held'[g] = held[g]
    BY DEF CreateHold, TypeInv, HostTypeOK
  <2> QED
    BY <1>1, <2>1, <2>2 DEF CoverInv, Safe, Over, Reached
<1> QED
  BY <1>2, <1>3 DEF CreateHold

LEMMA AcquireCovers ==
  ASSUME TypeInv, TypeInv', CoverInv, UNCHANGED clock, NEW c \in Lessees, Acquire(c)
  PROVE  CoverInv'
<1>1. waking' = waking /\ held' = held /\ clock' = clock
  BY DEF Acquire
<1>2. CASE Scheduled(held, lease')
  BY <1>1, <1>2, Rearmed DEF Scheduled, TypeInv, HostTypeOK, CoverInv
<1>3. CASE Evicted("lease")
  BY <1>1, <1>3 DEF Evicted, CoverInv, Safe, Over, Reached
<1> QED
  BY <1>2, <1>3 DEF Acquire

LEMMA FireCovers ==
  ASSUME TypeInv, TypeInv', CoverInv, UNCHANGED clock, AlarmFires
  PROVE  CoverInv'
<1>1. clock > 0 /\ clock' = clock /\ 0 \in Times
  BY ClockAssumption DEF AlarmFires, Over, Reached, TypeInv, HostTypeOK, Times
<1>2. CASE waking'
  BY <1>1, <1>2 DEF AlarmFires, CoverInv, Safe
<1>3. CASE ~waking'
  BY <1>1, <1>3, Rearmed DEF AlarmFires, TypeInv, HostTypeOK
<1> QED
  BY <1>2, <1>3

\* An object that dies while it mirrors is tried again, at once or at the alarm
\* another method set meanwhile.
LEMMA DieCovers ==
  ASSUME TypeInv, CoverInv, UNCHANGED clock, AlarmDies
  PROVE  CoverInv'
<1>1. clock' = clock /\ clock > 0 /\ UNCHANGED <<held, lease, stranded>> /\ ~waking'
  BY DEF AlarmDies, CoverInv
<1>2. CASE alarm = 0
  <2>1. Over(alarm)'
    BY <1>1, <1>2 DEF AlarmDies, Over, Reached, TypeInv, Times
  <2> QED
    BY <1>1, <2>1 DEF CoverInv, Safe
<1>3. CASE alarm # 0
  BY <1>1, <1>3 DEF AlarmDies, CoverInv, Safe, Over, Reached
<1> QED
  BY <1>2, <1>3

LEMMA CoverStep ==
  ASSUME TypeInv, TypeInv', CoverInv, [HostStep]_<<clock, hostVars>>
  PROVE  CoverInv'
<1>1. CASE UNCHANGED <<clock, held, lease, alarm, waking, stranded>>
  BY <1>1 DEF CoverInv, Safe, Over, Reached
<1>2. CASE Tick /\ UNCHANGED hostVars
  BY <1>2 DEF Tick, hostVars, CoverInv, Safe, Over, Reached, TypeInv, HostTypeOK, Times
<1>3. ASSUME NEW h \in Holds, LeaveHold(h), UNCHANGED clock
      PROVE  CoverInv'
  <2>1. \A g \in Holds : held'[g] = 0 \/ held'[g] = held[g]
    BY <1>3 DEF LeaveHold, TypeInv, HostTypeOK
  <2> QED
    BY <1>3, <2>1 DEF LeaveHold, CoverInv, Safe, Over, Reached
<1>4. ASSUME NEW c \in Lessees, Release(c), UNCHANGED clock
      PROVE  CoverInv'
  <2>1. lease'.until = 0 \/ lease' = lease
    BY <1>4 DEF Release, NoLease
  <2> QED
    BY <1>4, <2>1 DEF Release, CoverInv, Safe, Over, Reached
<1>5. CASE AlarmMirrors /\ UNCHANGED clock
  BY <1>5, Rearmed DEF AlarmMirrors, TypeInv, HostTypeOK
<1>6. CASE HostNext /\ UNCHANGED clock
  BY <1>1, <1>3, <1>4, <1>5, <1>6, CreateCovers, AcquireCovers, FireCovers, DieCovers
  DEF HostNext, PlaceHold, LeaveRows, BookHold, ExpireHolds
<1>7. CASE UNCHANGED <<clock, hostVars>>
  BY <1>1, <1>7 DEF hostVars
<1> QED
  BY <1>2, <1>6, <1>7 DEF HostStep

-----------------------------------------------------------------------------
(* Reminders. *)

\* Of a meeting and a lead whose ticks ran at most once.
Once(b, i) == TicksFor(b, i) \cap repeated = {}

\* The time to remind has passed: no tick to come is for it.
Passed(b, i) == nextCron + Leads[i] > StartOf[b]

\* The run of a tick of b's is under way and still has to get to it.
Ahead(b, i) ==
  /\ run.at # "idle" /\ run.now \in TicksFor(b, i)
  /\ run.lead < i \/ (run.lead = i /\ (run.at = "ask" \/ b \in run.due))

PaceInv ==
  /\ nextCron <= clock + Interval
  /\ run.at # "idle" => run.now + Interval <= nextCron
  /\ run.at = "send" => \A b \in run.due : run.now \in TicksFor(b, run.lead)

OnceInv ==
  \A b \in Meetings, i \in DOMAIN Leads : Once(b, i) =>
    /\ mails[b][i] <= 1
    /\ ~Passed(b, i) \/ Ahead(b, i) => mails[b][i] = 0

SentInv ==
  \A b \in Meetings, i \in DOMAIN Leads :
    /\ Once(b, i) /\ TicksFor(b, i) \cap missed = {} /\ Passed(b, i)
    /\ meeting[b] = "confirmed" /\ StartOf[b] >= since[b] + Leads[i] + Interval
    => mails[b][i] = 1 \/ Ahead(b, i)

CronInv == CronTypeOK /\ clock \in Nat /\ clock <= MaxClock /\ PaceInv /\ OnceInv /\ SentInv

CronStep == (CronNext /\ UNCHANGED clock) \/ (Tick /\ UNCHANGED cronVars)

LEMMA TickFacts ==
  ASSUME NEW b \in Meetings, NEW i \in DOMAIN Leads
  PROVE  /\ Leads[i] \in Nat /\ StartOf[b] \in Nat /\ Interval \in Nat \ {0}
         /\ i \in 1..Len(Leads) /\ Len(Leads) \in Nat \ {0}
         /\ \A t \in Nat : t \in TicksFor(b, i)
                             <=> t + Leads[i] <= StartOf[b] /\ StartOf[b] < t + Leads[i] + Interval
<1>1. Leads[i] \in Nat /\ StartOf[b] \in Nat /\ Interval \in Nat \ {0}
  BY RemindersAssumption
<1>2. i \in 1..Len(Leads) /\ Len(Leads) \in Nat \ {0}
  BY RemindersAssumption
<1> QED
  BY <1>1, <1>2 DEF TicksFor

\* What the run knows of time and of leads.
LEMMA RunFacts ==
  ASSUME CronInv
  PROVE  /\ run.now \in Nat /\ run.lead \in DOMAIN Leads /\ run.lead \in 1..Len(Leads) /\ Len(Leads) \in Nat
         /\ 1 \in DOMAIN Leads /\ nextCron \in Nat /\ clock \in Nat /\ Interval \in Nat \ {0}
         /\ \A b \in Meetings, i \in DOMAIN Leads : mails[b][i] \in Nat
  BY RemindersAssumption DEF CronInv, CronTypeOK

LEMMA CronTypes ==
  ASSUME CronInv, [CronStep]_<<clock, cronVars>>
  PROVE  CronTypeOK' /\ clock' \in Nat /\ clock' <= MaxClock
<1> DEFINE Runs == [at: {"idle", "ask", "send"}, now: Nat, lead: DOMAIN Leads, due: SUBSET Meetings]
           Counts == [DOMAIN Leads -> Nat]
<1>1. /\ CronTypeOK /\ clock \in Nat /\ clock <= MaxClock
      /\ run \in Runs /\ nextCron \in Nat /\ mails \in [Meetings -> Counts]
      /\ NoRun \in Runs /\ Interval \in Nat
      /\ \A t \in Nat : [NoRun EXCEPT !.at = "ask", !.now = t] \in Runs
      /\ \A from, to : DueBetween(from, to) \subseteq Meetings
  BY RunFacts DEF CronInv, CronTypeOK, NoRun, DueBetween
<1>0. /\ nextCron \in Nat /\ Interval \in Nat /\ clock \in 0..MaxClock /\ clock \in Nat
      /\ missed \subseteq Nat /\ repeated \subseteq Nat
      /\ meeting \in [Meetings -> {"none", "confirmed", "ended", "unowned"}] /\ since \in [Meetings -> 0..MaxClock]
      /\ run.lead \in 1..Len(Leads) /\ DOMAIN Leads = 1..Len(Leads) /\ Len(Leads) \in Nat
  BY RunFacts, RemindersAssumption, ClockAssumption DEF CronInv, CronTypeOK
<1>2. ASSUME CronNext, UNCHANGED clock
      PROVE  CronTypeOK'
  <2>1. ASSUME NEW b \in Meetings, ConfirmMeeting(b) \/ EndMeeting(b)
        PROVE  CronTypeOK'
    <3>1. /\ meeting' \in [Meetings -> {"none", "confirmed", "ended", "unowned"}]
          /\ since' \in [Meetings -> 0..MaxClock]
          /\ UNCHANGED <<nextCron, run, mails, missed, repeated>>
      BY <1>0, <2>1 DEF ConfirmMeeting, EndMeeting
    <3> QED
      BY <1>1, <3>1 DEF CronTypeOK
  <2>2. ASSUME run' \in Runs, nextCron' \in Nat, UNCHANGED <<meeting, since>>,
               mails' \in [Meetings -> Counts], missed' \subseteq Nat, repeated' \subseteq Nat
        PROVE  CronTypeOK'
    BY <1>1, <2>2 DEF CronTypeOK
  <2>4. ASSUME NEW b \in Meetings, Remind(b)
        PROVE  CronTypeOK'
    <3>1. mails[b] \in Counts /\ run.lead \in DOMAIN Leads
      BY <1>1
    <3>2. [mails[b] EXCEPT ![run.lead] = @ + 1] \in Counts
      BY <3>1
    <3>3. mails' = mails \/ mails' = [mails EXCEPT ![b] = [mails[b] EXCEPT ![run.lead] = @ + 1]]
      BY <2>4 DEF Remind
    <3>4. run' \in Runs
      BY <1>1, <2>4 DEF Remind
    <3> HIDE DEF Runs, Counts
    <3> QED
      BY <1>0, <1>1, <2>2, <2>4, <3>2, <3>3, <3>4 DEF Remind
  <2> HIDE DEF Counts
  <2>5. CASE AskDue
    <3>1. run' \in Runs
      BY <1>1, <2>5 DEF AskDue
    <3> QED
      BY <1>0, <1>1, <2>2, <2>5, <3>1 DEF AskDue
  <2>6. CASE NextLead
    <3>1. run.lead # Len(Leads) => run.lead + 1 \in DOMAIN Leads
      BY <1>0
    <3>2. run' \in Runs
      BY <1>1, <2>6, <3>1 DEF NextLead
    <3> QED
      BY <1>0, <1>1, <2>2, <2>6, <3>2 DEF NextLead
  <2>7. run.now \in Nat
    BY <1>1
  <2> HIDE DEF Runs
  <2>8. CASE CronFires
    <3>1. /\ nextCron' \in Nat /\ run' = [NoRun EXCEPT !.at = "ask", !.now = nextCron]
          /\ UNCHANGED <<meeting, since, mails, missed, repeated>>
      BY <1>0, <2>8 DEF CronFires, Begin
    <3>2. run' \in Runs
      BY <1>0, <1>1, <3>1
    <3> QED
      BY <1>0, <1>1, <2>2, <3>1, <3>2
  <2>9. CASE CronSkips
    <3>1. /\ nextCron' \in Nat /\ missed' \subseteq Nat
          /\ UNCHANGED <<meeting, since, mails, run, repeated>>
      BY <1>0, <2>9 DEF CronSkips
    <3> QED
      BY <1>0, <1>1, <2>2, <3>1
  <2>10. CASE CronRepeats
    <3>1. nextCron - Interval \in Nat
      BY <1>0, <2>10 DEF CronRepeats
    <3>2. /\ repeated' = repeated \cup {nextCron - Interval}
          /\ run' = [NoRun EXCEPT !.at = "ask", !.now = nextCron - Interval]
          /\ UNCHANGED <<meeting, since, mails, missed, nextCron>>
      BY <2>10 DEF CronRepeats, Begin
    <3>3. run' \in Runs /\ repeated' \subseteq Nat
      BY <1>0, <1>1, <3>1, <3>2
    <3> QED
      BY <1>0, <1>1, <2>2, <3>2, <3>3
  <2>11. CASE RemindFails
    <3>1. /\ missed' \subseteq Nat /\ run' \in Runs
          /\ UNCHANGED <<meeting, since, mails, nextCron, repeated>>
      BY <1>0, <1>1, <2>7, <2>11 DEF RemindFails
    <3> QED
      BY <1>0, <1>1, <2>2, <3>1
  <2> QED
    BY <1>2, <2>1, <2>4, <2>5, <2>6, <2>8, <2>9, <2>10, <2>11 DEF CronNext
<1> HIDE DEF Runs, Counts
<1>3. CASE CronNext /\ UNCHANGED clock
  BY <1>1, <1>2, <1>3
<1>4. CASE Tick /\ UNCHANGED cronVars
  <2>1. clock' \in Nat /\ clock' <= MaxClock
    BY <1>0, <1>4, ClockAssumption DEF Tick
  <2> QED
    BY <1>1, <1>4, <2>1 DEF cronVars, CronTypeOK
<1>5. CASE UNCHANGED <<clock, cronVars>>
  BY <1>1, <1>5 DEF cronVars, CronTypeOK
<1> QED
  BY <1>3, <1>4, <1>5 DEF CronStep

\* The clock, the guests and the hosts: nobody is confirmed so early that the
\* tick for him has been.
LEMMA MeetingsStep ==
  ASSUME CronInv, UNCHANGED <<nextCron, run, mails, missed, repeated>>, clock' >= clock, clock' \in Nat,
         \A b \in Meetings : (meeting'[b] = "confirmed") =>
           (meeting[b] = "confirmed" /\ since'[b] = since[b]) \/ since'[b] = clock
  PROVE  PaceInv' /\ OnceInv' /\ SentInv'
<1> USE RunFacts DEF CronInv
<1>1. PaceInv'
  BY DEF PaceInv
<1>2. OnceInv'
  BY DEF OnceInv, Once, Passed, Ahead
<1>3. ASSUME NEW b \in Meetings, NEW i \in DOMAIN Leads, since'[b] = clock,
             StartOf[b] >= since'[b] + Leads[i] + Interval
      PROVE  ~Passed(b, i)
  BY <1>3, TickFacts DEF PaceInv, Passed
<1>4. SentInv'
  BY <1>3 DEF SentInv, Once, Passed, Ahead
<1> QED
  BY <1>1, <1>2, <1>4

LEMMA FiresStep ==
  ASSUME CronInv, CronFires, UNCHANGED clock
  PROVE  PaceInv' /\ OnceInv' /\ SentInv'
<1> USE RunFacts DEF CronInv
<1>1. /\ run.at = "idle" /\ nextCron <= clock /\ nextCron' = nextCron + Interval
      /\ run' = [NoRun EXCEPT !.at = "ask", !.now = nextCron]
      /\ UNCHANGED <<meeting, since, mails, missed, repeated>>
  BY DEF CronFires, Begin, Reached
<1>2. run'.at = "ask" /\ run'.now = nextCron /\ run'.lead = 1
  BY <1>1 DEF NoRun
<1>3. PaceInv'
  BY <1>1, <1>2 DEF PaceInv
<1>4. ASSUME NEW b \in Meetings, NEW i \in DOMAIN Leads
      PROVE  /\ nextCron \in TicksFor(b, i) => ~Passed(b, i) /\ Ahead(b, i)'
             /\ Passed(b, i)' => Passed(b, i) \/ nextCron \in TicksFor(b, i)
             /\ Passed(b, i) => Passed(b, i)'
             /\ Ahead(b, i)' => nextCron \in TicksFor(b, i)
             /\ ~Ahead(b, i)
  BY <1>1, <1>2, TickFacts DEF Passed, Ahead
<1>5. OnceInv'
  BY <1>1, <1>4 DEF OnceInv, Once
<1>6. SentInv'
  BY <1>1, <1>4 DEF SentInv, Once
<1> QED
  BY <1>3, <1>5, <1>6

LEMMA SkipsStep ==
  ASSUME CronInv, CronSkips, UNCHANGED clock
  PROVE  PaceInv' /\ OnceInv' /\ SentInv'
<1> USE RunFacts DEF CronInv
<1>1. /\ nextCron <= clock /\ nextCron' = nextCron + Interval /\ missed' = missed \cup {nextCron}
      /\ UNCHANGED <<meeting, since, mails, run, repeated>>
  BY DEF CronSkips, Reached
<1>2. PaceInv'
  BY <1>1 DEF PaceInv
<1>3. ASSUME NEW b \in Meetings, NEW i \in DOMAIN Leads
      PROVE  /\ Passed(b, i)' => Passed(b, i) \/ nextCron \in TicksFor(b, i)
             /\ Passed(b, i) => Passed(b, i)'
             /\ Ahead(b, i)' <=> Ahead(b, i)
  <2>1. Ahead(b, i)' <=> Ahead(b, i)
    BY <1>1 DEF Ahead
  <2>2. nextCron + Interval + Leads[i] > StartOf[b] => nextCron + Leads[i] > StartOf[b] \/ nextCron \in TicksFor(b, i)
    BY TickFacts
  <2>3. nextCron + Leads[i] > StartOf[b] => nextCron + Interval + Leads[i] > StartOf[b]
    BY TickFacts
  <2> QED
    BY <1>1, <2>1, <2>2, <2>3 DEF Passed
<1>4. OnceInv'
  BY <1>1, <1>3 DEF OnceInv, Once
<1>5. SentInv'
  BY <1>1, <1>3 DEF SentInv, Once
<1> QED
  BY <1>2, <1>4, <1>5

LEMMA RepeatsStep ==
  ASSUME CronInv, CronRepeats, UNCHANGED clock
  PROVE  PaceInv' /\ OnceInv' /\ SentInv'
<1> USE RunFacts DEF CronInv
<1> DEFINE t == nextCron - Interval
<1>1. /\ run.at = "idle" /\ t \in Nat /\ t + Interval = nextCron /\ repeated' = repeated \cup {t}
      /\ run' = [NoRun EXCEPT !.at = "ask", !.now = t]
      /\ UNCHANGED <<clock, meeting, since, mails, missed, nextCron>>
  BY DEF CronRepeats, Begin
<1> HIDE DEF t
<1>2. run'.at = "ask" /\ run'.now = t
  BY <1>1 DEF NoRun
<1>3. PaceInv'
  BY <1>1, <1>2 DEF PaceInv
<1>4. ASSUME NEW b \in Meetings, NEW i \in DOMAIN Leads
      PROVE  /\ Once(b, i)' => Once(b, i) /\ ~Ahead(b, i)'
             /\ ~Ahead(b, i)
             /\ Passed(b, i)' <=> Passed(b, i)
  BY <1>1, <1>2 DEF Passed, Ahead, Once
<1>5. OnceInv'
  BY <1>1, <1>4 DEF OnceInv
<1>6. SentInv'
  BY <1>1, <1>4 DEF SentInv
<1> QED
  BY <1>3, <1>5, <1>6

LEMMA AskStep ==
  ASSUME CronInv, AskDue, UNCHANGED clock
  PROVE  PaceInv' /\ OnceInv' /\ SentInv'
<1> USE RunFacts DEF CronInv
<1> DEFINE from == run.now + Leads[run.lead]
<1>1. /\ run.at = "ask" /\ run' = [run EXCEPT !.at = "send", !.due = DueBetween(from, from + Interval)]
      /\ UNCHANGED <<clock, meeting, since, mails, missed, nextCron, repeated>>
  BY DEF AskDue
<1>2. /\ run'.at = "send" /\ run'.now = run.now /\ run'.lead = run.lead
      /\ run'.due = DueBetween(from, from + Interval)
  BY <1>1 DEF CronTypeOK
<1>3. ASSUME NEW b \in Meetings
      PROVE  /\ b \in run'.due => run.now \in TicksFor(b, run.lead)
             /\ run.now \in TicksFor(b, run.lead) /\ meeting[b] = "confirmed" => b \in run'.due
  BY <1>2, TickFacts DEF DueBetween
<1>4. run'.due \subseteq Meetings
  BY <1>2 DEF DueBetween
<1> HIDE DEF from
<1>5. PaceInv'
  BY <1>1, <1>2, <1>3, <1>4 DEF PaceInv
<1>6. ASSUME NEW b \in Meetings, NEW i \in DOMAIN Leads
      PROVE  /\ Ahead(b, i)' => Ahead(b, i)
             /\ Ahead(b, i) /\ meeting[b] = "confirmed" => Ahead(b, i)'
             /\ Passed(b, i)' <=> Passed(b, i)
             /\ Once(b, i)' <=> Once(b, i)
  BY <1>1, <1>2, <1>3 DEF Passed, Ahead, Once
<1>7. OnceInv'
  BY <1>1, <1>6 DEF OnceInv
<1>8. SentInv'
  BY <1>1, <1>6 DEF SentInv
<1> QED
  BY <1>5, <1>7, <1>8

LEMMA RemindStep ==
  ASSUME CronInv, NEW c \in Meetings, Remind(c), UNCHANGED clock
  PROVE  PaceInv' /\ OnceInv' /\ SentInv'
<1> USE RunFacts DEF CronInv
<1>1. /\ run.at = "send" /\ c \in run.due /\ run' = [run EXCEPT !.due = @ \ {c}]
      /\ UNCHANGED <<clock, meeting, since, missed, nextCron, repeated>>
  BY DEF Remind
<1>2. run'.at = "send" /\ run'.now = run.now /\ run'.lead = run.lead /\ run'.due = run.due \ {c}
  BY <1>1 DEF CronTypeOK
<1>3. PaceInv'
  BY <1>1, <1>2 DEF PaceInv
<1>4. ASSUME NEW b \in Meetings, NEW i \in DOMAIN Leads
      PROVE  /\ mails'[b][i] = mails[b][i]
                  \/ (b = c /\ i = run.lead /\ mails'[b][i] = mails[b][i] + 1 /\ meeting[b] # "unowned")
             /\ b = c /\ i = run.lead => mails'[b][i] = mails[b][i] + 1 \/ meeting[b] = "unowned"
  <2>1. mails \in [Meetings -> [DOMAIN Leads -> Nat]] /\ mails[c] \in [DOMAIN Leads -> Nat]
    BY DEF CronTypeOK
  <2>2. mails' = IF meeting[c] = "unowned" THEN mails
                 ELSE [mails EXCEPT ![c] = [mails[c] EXCEPT ![run.lead] = mails[c][run.lead] + 1]]
    BY DEF Remind
  <2> QED
    <3> HIDE RunFacts DEF CronInv
    <3>1. CASE meeting[c] = "unowned"
      BY <2>2, <3>1
    <3>2. CASE meeting[c] # "unowned"
      <4>1. mails'[c] = [mails[c] EXCEPT ![run.lead] = mails[c][run.lead] + 1] /\ (b # c => mails'[b] = mails[b])
        BY <2>1, <2>2, <3>2
      <4> QED
        BY <2>1, <3>2, <4>1
    <3> QED
      BY <3>1, <3>2
<1>5. Ahead(c, run.lead) /\ ~Ahead(c, run.lead)'
  BY <1>1, <1>2 DEF Ahead, PaceInv
<1>6. Passed(c, run.lead)
  <2>1. run.now \in TicksFor(c, run.lead) /\ run.now + Interval <= nextCron /\ run.lead \in DOMAIN Leads
    BY <1>1 DEF PaceInv
  <2> QED
    BY <2>1, TickFacts DEF Passed
<1>7. ASSUME NEW b \in Meetings, NEW i \in DOMAIN Leads
      PROVE  /\ Ahead(b, i)' => Ahead(b, i)
             /\ Ahead(b, i) => Ahead(b, i)' \/ (b = c /\ i = run.lead)
             /\ Passed(b, i)' <=> Passed(b, i)
             /\ Once(b, i)' <=> Once(b, i)
  BY <1>1, <1>2 DEF Passed, Ahead, Once
<1>8. OnceInv'
  <2> SUFFICES ASSUME NEW b \in Meetings, NEW i \in DOMAIN Leads, Once(b, i)
               PROVE  /\ mails'[b][i] <= 1
                      /\ ~Passed(b, i) \/ Ahead(b, i)' => mails'[b][i] = 0
    BY <1>7 DEF OnceInv
  <2>1. mails[b][i] \in Nat /\ mails[b][i] <= 1 /\ (~Passed(b, i) \/ Ahead(b, i) => mails[b][i] = 0)
    BY DEF OnceInv
  <2>2. CASE b = c /\ i = run.lead
    <3>1. Ahead(b, i) /\ ~Ahead(b, i)' /\ Passed(b, i)
      BY <1>2, <1>5, <1>6, <2>2
    <3>2. mails'[b][i] = mails[b][i] \/ mails'[b][i] = mails[b][i] + 1
      BY <1>4
    <3> QED
      BY <2>1, <3>1, <3>2
  <2>3. CASE ~(b = c /\ i = run.lead)
    BY <1>4, <1>7, <2>1, <2>3
  <2> QED
    BY <2>2, <2>3
<1>9. SentInv'
  <2> SUFFICES ASSUME NEW b \in Meetings, NEW i \in DOMAIN Leads,
                      Once(b, i), TicksFor(b, i) \cap missed = {}, Passed(b, i), meeting[b] = "confirmed",
                      StartOf[b] >= since[b] + Leads[i] + Interval
               PROVE  mails'[b][i] = 1 \/ Ahead(b, i)'
    BY <1>1, <1>7 DEF SentInv
  <2>1. CASE b = c /\ i = run.lead
    BY <1>4, <1>5, <2>1 DEF OnceInv
  <2>2. CASE ~(b = c /\ i = run.lead)
    BY <1>4, <1>7, <2>2 DEF SentInv
  <2> QED
    BY <2>1, <2>2
<1> QED
  BY <1>3, <1>8, <1>9

LEMMA FailsStep ==
  ASSUME CronInv, RemindFails, UNCHANGED clock
  PROVE  PaceInv' /\ OnceInv' /\ SentInv'
<1> USE RunFacts DEF CronInv
<1>1. /\ run'.at = "idle" /\ missed' = missed \cup {run.now}
      /\ UNCHANGED <<clock, meeting, since, mails, nextCron, repeated>>
  BY DEF RemindFails, NoRun
<1>2. PaceInv'
  BY <1>1 DEF PaceInv
<1>3. ASSUME NEW b \in Meetings, NEW i \in DOMAIN Leads
      PROVE  /\ ~Ahead(b, i)'
             /\ Ahead(b, i) => TicksFor(b, i) \cap missed' # {}
             /\ Passed(b, i)' <=> Passed(b, i)
             /\ Once(b, i)' <=> Once(b, i)
  BY <1>1 DEF Passed, Ahead, Once
<1>4. OnceInv'
  BY <1>1, <1>3 DEF OnceInv
<1>5. SentInv'
  BY <1>1, <1>3 DEF SentInv
<1> QED
  BY <1>2, <1>4, <1>5

LEMMA NextLeadStep ==
  ASSUME CronInv, NextLead, UNCHANGED clock
  PROVE  PaceInv' /\ OnceInv' /\ SentInv'
<1> USE RunFacts DEF CronInv
<1>1. /\ run.at = "send" /\ run.due = {}
      /\ run' = IF run.lead = Len(Leads) THEN NoRun ELSE [run EXCEPT !.at = "ask", !.lead = @ + 1]
      /\ UNCHANGED <<clock, meeting, since, mails, missed, nextCron, repeated>>
  BY DEF NextLead
<1>2. \/ run.lead = Len(Leads) /\ run'.at = "idle"
      \/ run'.at = "ask" /\ run'.now = run.now /\ run'.lead = run.lead + 1
  BY <1>1 DEF NoRun, CronTypeOK
<1>3. PaceInv'
  BY <1>1, <1>2 DEF PaceInv
<1>4. ASSUME NEW b \in Meetings, NEW i \in DOMAIN Leads
      PROVE  /\ Ahead(b, i)' <=> Ahead(b, i)
             /\ Passed(b, i)' <=> Passed(b, i)
             /\ Once(b, i)' <=> Once(b, i)
  BY <1>1, <1>2, TickFacts DEF Passed, Ahead, Once
<1>5. OnceInv'
  BY <1>1, <1>4 DEF OnceInv
<1>6. SentInv'
  BY <1>1, <1>4 DEF SentInv
<1> QED
  BY <1>3, <1>5, <1>6

LEMMA CronKeeps ==
  ASSUME CronInv, [CronStep]_<<clock, cronVars>>
  PROVE  CronInv'
<1>1. CronTypeOK' /\ clock' \in Nat /\ clock' <= MaxClock
  BY CronTypes
<1> SUFFICES PaceInv' /\ OnceInv' /\ SentInv'
  BY <1>1 DEF CronInv
<1>2. ASSUME UNCHANGED <<meeting, since, nextCron, run, mails, missed, repeated>>, clock' >= clock
      PROVE  PaceInv' /\ OnceInv' /\ SentInv'
  <2>1. \A b \in Meetings : meeting'[b] = "confirmed" => meeting[b] = "confirmed" /\ since'[b] = since[b]
    BY <1>2
  <2> QED
    BY <1>1, <1>2, <2>1, MeetingsStep
<1>0. clock \in Nat
  BY DEF CronInv
<1>3. CASE CronNext /\ UNCHANGED clock
  <2>1. ASSUME NEW b \in Meetings, ConfirmMeeting(b) \/ EndMeeting(b)
        PROVE  PaceInv' /\ OnceInv' /\ SentInv'
    <3>1. UNCHANGED <<nextCron, run, mails, missed, repeated>>
      BY <2>1 DEF ConfirmMeeting, EndMeeting
    <3>2. ASSUME NEW c \in Meetings, meeting'[c] = "confirmed"
          PROVE  (meeting[c] = "confirmed" /\ since'[c] = since[c]) \/ since'[c] = clock
      BY <2>1, <3>2 DEF ConfirmMeeting, EndMeeting, CronInv, CronTypeOK
    <3>3. clock' \in Nat /\ clock' >= clock
      BY <1>0, <1>3
    <3> QED
      BY <3>1, <3>2, <3>3, MeetingsStep
  <2> QED
    BY <1>3, <2>1, RemindStep, FiresStep, SkipsStep, RepeatsStep, AskStep, FailsStep, NextLeadStep DEF CronNext
<1>4. CASE Tick /\ UNCHANGED cronVars
  BY <1>0, <1>2, <1>4 DEF Tick, cronVars
<1>5. CASE UNCHANGED <<clock, cronVars>>
  BY <1>0, <1>2, <1>5 DEF cronVars
<1> QED
  BY <1>3, <1>4, <1>5 DEF CronStep

LEMMA CronBegins == ClockInit /\ CronInit => CronInv
<1> SUFFICES ASSUME ClockInit, CronInit
             PROVE  CronInv
  OBVIOUS
<1>1. 1 \in DOMAIN Leads /\ Interval \in Nat
  BY RemindersAssumption
<1>2. CronTypeOK /\ clock \in Nat /\ clock <= MaxClock
  BY <1>1, ClockAssumption DEF ClockInit, CronInit, CronTypeOK, NoRun
<1>3. PaceInv
  BY <1>1 DEF ClockInit, CronInit, PaceInv, NoRun
<1>4. OnceInv
  BY DEF CronInit, OnceInv
<1>5. SentInv
  BY DEF CronInit, SentInv
<1> QED
  BY <1>2, <1>3, <1>4, <1>5 DEF CronInv

-----------------------------------------------------------------------------
(* The rate limiter. *)

\* What was let through since a call, and what is left, is no more than what
\* there was and what refilled.
BucketInv ==
  /\ \A i \in DOMAIN grants :
       /\ grants[i] <= bucket.at
       /\ (Len(grants) - i + 1) * Window + bucket.credits <= Full + (bucket.at - grants[i]) * Limit
  /\ ~stored /\ grants # <<>> => bucket.at + Window <= clock

LimitInv == LimitTypeOK /\ clock \in Times /\ bucket.at <= clock /\ BucketInv /\ RateKept

LimitStep == (LimitNext /\ UNCHANGED clock) \/ (Tick /\ UNCHANGED limitVars)

\* What a length of time refills.
LEMMA RefillFacts ==
  /\ Full \in Nat /\ Window <= Full /\ Window \in Nat \ {0}
  /\ \A t \in Nat : t * Limit \in Nat /\ (t >= Window => t * Limit >= Full)
  /\ \A x, y, z \in Int : (x - y) * Limit + (y - z) * Limit = (x - z) * Limit
  /\ \A n \in Int : n * Window \in Int /\ (n + 1) * Window = n * Window + Window
  /\ 0 * Limit = 0 /\ 0 * Window = 0 /\ \A n \in Int : n * Limit \in Int
<1>1. Limit \in Nat /\ Limit >= 1 /\ Window \in Nat \ {0}
  BY LimiterAssumption
<1>2. Full \in Nat /\ Window <= Full
  BY <1>1 DEF Full
<1>3. ASSUME NEW t \in Nat
      PROVE  t * Limit \in Nat /\ (t >= Window => t * Limit >= Full)
  <2>1. t * Limit \in Nat
    BY <1>1
  <2>2. ASSUME t >= Window
        PROVE  t * Limit >= Full
    <3>1. (t - Window) * Limit >= 0 /\ t * Limit = (t - Window) * Limit + Window * Limit
      BY <1>1, <2>2
    <3>2. Window * Limit = Full /\ Window * Limit \in Nat /\ (t - Window) * Limit \in Int
      BY <1>1 DEF Full
    <3> QED
      BY <2>1, <3>1, <3>2
  <2> QED
    BY <2>1, <2>2
<1>4. \A x, y, z \in Int : (x - y) * Limit + (y - z) * Limit = (x - z) * Limit
  BY <1>1
<1>5. \A n \in Int : n * Window \in Int /\ (n + 1) * Window = n * Window + Window
  BY <1>1
<1>6. 0 * Limit = 0 /\ 0 * Window = 0 /\ \A n \in Int : n * Limit \in Int
  BY <1>1
<1> QED
  BY <1>1, <1>2, <1>3, <1>4, <1>5, <1>6

LEMMA ConsumeStep ==
  ASSUME LimitInv, Consume, UNCHANGED clock
  PROVE  LimitInv'
<1> DEFINE n == Len(grants)
<1>1. /\ bucket.credits \in Nat /\ bucket.credits <= Full /\ bucket.at \in Nat /\ bucket.at <= clock
      /\ clock \in Nat /\ clock \in 0..MaxClock /\ n \in Nat /\ DOMAIN grants = 1..n
      /\ \A i \in 1..n : grants[i] \in Nat /\ grants[i] <= bucket.at
      /\ grants \in Seq(0..MaxClock) /\ clock' = clock
  <2>1. /\ bucket \in [credits: 0..Full, at: 0..MaxClock] /\ grants \in Seq(0..MaxClock)
        /\ clock \in 0..MaxClock /\ bucket.at <= clock /\ Full \in Nat /\ MaxClock \in Nat
        /\ \A i \in DOMAIN grants : grants[i] <= bucket.at
    BY ClockAssumption, RefillFacts DEF LimitInv, LimitTypeOK, Times, BucketInv
  <2>2. n \in Nat /\ DOMAIN grants = 1..n /\ \A i \in 1..n : grants[i] \in 0..MaxClock
    BY <2>1
  <2> QED
    BY <2>1, <2>2
<1>2. /\ Refilled \in Nat /\ Refilled <= Full
      /\ stored => Refilled <= bucket.credits + (clock - bucket.at) * Limit
      /\ ~stored => Refilled = Full
  <2>1. (clock - bucket.at) * Limit \in Nat
    <3>1. clock - bucket.at \in Nat
      BY <1>1
    <3> QED
      BY <3>1, RefillFacts
  <2>2. Full \in Nat
    BY RefillFacts
  <2> QED
    BY <1>1, <2>1, <2>2 DEF Refilled
\* What was let through since call i, if nothing were taken now.
<1>3. ASSUME NEW i \in 1..n
      PROVE  (n - i + 1) * Window + Refilled <= Full + (clock - grants[i]) * Limit
  <2> DEFINE taken == (n - i + 1) * Window
             before == (bucket.at - grants[i]) * Limit
             since_ == (clock - bucket.at) * Limit
  <2>1. /\ taken \in Int /\ before \in Int /\ since_ \in Nat /\ Full \in Nat
        /\ since_ + before = (clock - grants[i]) * Limit
        /\ clock - bucket.at >= Window => since_ >= Full
    <3>1. /\ n - i + 1 \in Int /\ bucket.at - grants[i] \in Int /\ clock - bucket.at \in Nat
          /\ clock \in Int /\ bucket.at \in Int /\ grants[i] \in Int
      BY <1>1
    <3>2. taken \in Int /\ before \in Int /\ Full \in Nat
      BY <3>1, RefillFacts
    <3>3. since_ \in Nat /\ (clock - bucket.at >= Window => since_ >= Full)
      BY <3>1, RefillFacts
    <3>4. since_ + before = (clock - grants[i]) * Limit
      <4>1. \A x, y, z \in Int : (x - y) * Limit + (y - z) * Limit = (x - z) * Limit
        BY RefillFacts
      <4> QED
        BY <3>1, <4>1
    <3> HIDE DEF taken, before, since_
    <3> QED
      BY <3>2, <3>3, <3>4
  <2>2. taken + bucket.credits <= Full + before
    BY <1>1 DEF LimitInv, BucketInv
  <2>3. ~stored => clock - bucket.at >= Window
    <3>1. Window \in Nat /\ (~stored => bucket.at + Window <= clock)
      BY <1>1, LimiterAssumption DEF LimitInv, BucketInv
    <3> QED
      BY <1>1, <3>1
  <2>4. stored => Refilled <= bucket.credits + since_
    BY <1>2
  <2> HIDE DEF taken, before, since_
  <2>5. taken + Refilled <= Full + (since_ + before)
    BY <1>1, <1>2, <2>1, <2>2, <2>3, <2>4
  <2> QED
    BY <2>1, <2>5 DEF taken
<1>4. /\ bucket' = [credits |-> IF Refilled >= Window THEN Refilled - Window ELSE Refilled, at |-> clock]
      /\ grants' = IF Refilled >= Window THEN Append(grants, clock) ELSE grants
      /\ stored'
      /\ sweep' = IF sweep = 0 THEN clock + IdleAge ELSE sweep
  BY DEF Consume
<1>5. Window \in Nat \ {0} /\ Full \in Nat /\ IdleAge \in Nat
  BY RefillFacts, LimiterAssumption
<1>6. bucket'.at = clock /\ bucket'.credits = IF Refilled >= Window THEN Refilled - Window ELSE Refilled
  BY <1>4
<1>7. LimitTypeOK' /\ clock' \in Times /\ (bucket.at <= clock)'
  <2>1. bucket' \in [credits: 0..Full, at: 0..MaxClock]
    BY <1>1, <1>2, <1>4, <1>5
  <2>2. sweep' \in Nat
    BY <1>1, <1>4, <1>5 DEF LimitInv, LimitTypeOK
  <2>3. grants' \in Seq(0..MaxClock)
    <3>1. grants \in Seq(0..MaxClock) /\ clock \in 0..MaxClock
      BY <1>1
    <3>2. Append(grants, clock) \in Seq(0..MaxClock)
      BY <3>1
    <3> QED
      BY <1>4, <3>1, <3>2
  <2> QED
    BY <1>1, <1>4, <1>6, <2>1, <2>2, <2>3 DEF LimitTypeOK, Times
<1>8. CASE Refilled < Window
  <2>1. grants' = grants /\ bucket'.credits = Refilled
    BY <1>2, <1>4, <1>5, <1>6, <1>8
  <2>2. BucketInv'
    <3>1. \A i \in 1..n : grants[i] <= clock
      BY <1>1
    <3> QED
      BY <1>1, <1>3, <1>4, <1>6, <2>1, <3>1 DEF BucketInv
  <2>3. RateKept'
    BY <2>1 DEF LimitInv, RateKept
  <2> QED
    BY <1>7, <2>2, <2>3 DEF LimitInv
<1>9. CASE Refilled >= Window
  <2>1. /\ grants' = Append(grants, clock) /\ bucket'.credits = Refilled - Window
        /\ Len(grants') = n + 1 /\ DOMAIN grants' = 1..(n + 1)
        /\ grants'[n + 1] = clock /\ \A i \in 1..n : grants'[i] = grants[i]
    BY <1>1, <1>4, <1>6, <1>9
  <2>2. ASSUME NEW i \in 1..n
        PROVE  /\ (n + 1 - i + 1) * Window + (Refilled - Window) <= Full + (clock - grants'[i]) * Limit
               /\ (n + 1 - i + 1) * Window <= Full + (clock - grants'[i]) * Limit
    <3>1. n - i + 1 \in Int /\ n + 1 - i + 1 = (n - i + 1) + 1 /\ clock - grants[i] \in Int
      BY <1>1
    <3>2. (n + 1 - i + 1) * Window = (n - i + 1) * Window + Window /\ (n - i + 1) * Window \in Int
      BY <3>1, RefillFacts
    <3>3. (clock - grants[i]) * Limit \in Int /\ grants'[i] = grants[i]
      BY <2>1, <3>1, RefillFacts
    <3> QED
      BY <1>2, <1>3, <1>5, <1>9, <3>2, <3>3
  <2>3. /\ (n + 1 - (n + 1) + 1) * Window = Window
        /\ (clock - clock) * Limit = 0
    <3>1. n + 1 - (n + 1) + 1 = 0 + 1 /\ clock - clock = 0
      BY <1>1
    <3> QED
      BY <3>1, <1>5, RefillFacts
  <2>4. BucketInv'
    <3>1. ASSUME NEW i \in 1..(n + 1)
          PROVE  /\ grants'[i] <= clock
                 /\ (n + 1 - i + 1) * Window + (Refilled - Window) <= Full + (clock - grants'[i]) * Limit
      <4>1. CASE i = n + 1
        BY <1>1, <1>2, <1>5, <2>1, <2>3, <4>1
      <4>2. CASE i \in 1..n
        BY <1>1, <2>1, <2>2, <4>2
      <4> QED
        BY <1>1, <4>1, <4>2
    <3> QED
      BY <1>4, <1>6, <2>1, <3>1 DEF BucketInv
  <2>5. RateKept'
    <3> SUFFICES ASSUME NEW i \in 1..(n + 1), NEW j \in 1..(n + 1), i <= j
                 PROVE  (j - i + 1) * Window <= Full + (grants'[j] - grants'[i]) * Limit
      BY <2>1 DEF RateKept
    <3>1. CASE j \in 1..n
      <4>1. i \in 1..n /\ grants'[i] = grants[i] /\ grants'[j] = grants[j] /\ DOMAIN grants = 1..n
        BY <1>1, <2>1, <3>1
      <4> QED
        BY <3>1, <4>1 DEF LimitInv, RateKept
    <3>2. CASE j = n + 1 /\ i \in 1..n
      BY <2>1, <2>2, <3>2
    <3>3. CASE j = n + 1 /\ i = n + 1
      BY <1>2, <1>5, <1>9, <2>1, <2>3, <3>3
    <3> QED
      BY <1>1, <3>1, <3>2, <3>3
  <2> QED
    BY <1>7, <2>4, <2>5 DEF LimitInv
<1> QED
  BY <1>2, <1>5, <1>8, <1>9

LEMMA LimitKeeps ==
  ASSUME LimitInv, [LimitStep]_<<clock, limitVars>>
  PROVE  LimitInv'
<1>1. ASSUME UNCHANGED <<bucket, grants>>, clock' \in Times, clock <= clock', sweep' \in Nat, stored' \in BOOLEAN,
             stored' = stored \/ bucket.at + Window <= clock'
      PROVE  LimitInv'
  <2>0. Window \in Nat /\ bucket.at \in Nat /\ clock \in Nat /\ clock' \in Nat
    BY <1>1, LimiterAssumption DEF LimitInv, LimitTypeOK, Times
  <2>1. LimitTypeOK' /\ (bucket.at <= clock)'
    BY <1>1, <2>0 DEF LimitInv, LimitTypeOK
  <2>2. RateKept'
    BY <1>1 DEF LimitInv, RateKept
  <2>3. BucketInv'
    BY <1>1, <2>0 DEF LimitInv, BucketInv
  <2> QED
    BY <1>1, <2>1, <2>2, <2>3 DEF LimitInv
<1>2. sweep \in Nat /\ stored \in BOOLEAN /\ clock \in Times /\ clock \in Nat /\ bucket.at \in Nat
  BY DEF LimitInv, LimitTypeOK, Times
<1>3. CASE LimitNext /\ UNCHANGED clock
  <2>1. CASE Consume
    BY <1>3, <2>1, ConsumeStep
  <2>2. CASE Sweep
    <3>1. /\ UNCHANGED <<bucket, grants>> /\ sweep' = 0
          /\ stored' = (stored /\ bucket.at + IdleAge >= clock)
      BY <2>2 DEF Sweep
    <3>2. stored' = stored \/ bucket.at + Window <= clock
      BY <1>2, <3>1, LimiterAssumption
    <3> QED
      BY <1>1, <1>2, <1>3, <3>1, <3>2
  <2> QED
    BY <1>3, <2>1, <2>2 DEF LimitNext
<1>4. CASE Tick /\ UNCHANGED limitVars
  BY <1>1, <1>2, <1>4, ClockAssumption DEF Tick, limitVars, Times
<1>5. CASE UNCHANGED <<clock, limitVars>>
  BY <1>1, <1>2, <1>5 DEF limitVars
<1> QED
  BY <1>3, <1>4, <1>5 DEF LimitStep

LEMMA LimitBegins == ClockInit /\ LimitInit => LimitInv
<1> SUFFICES ASSUME ClockInit, LimitInit
             PROVE  LimitInv
  OBVIOUS
<1>1. 0 \in Times /\ Full \in Nat /\ 0 \in 0..Full /\ 0 \in 0..MaxClock
  BY ClockAssumption, RefillFacts DEF Times
<1>2. bucket \in [credits: 0..Full, at: 0..MaxClock] /\ bucket.at = 0 /\ stored = FALSE /\ sweep = 0 /\ clock = 0
  BY <1>1 DEF ClockInit, LimitInit
<1>3. grants = <<>> /\ grants \in Seq(0..MaxClock) /\ DOMAIN grants = {}
  BY DEF LimitInit
<1> QED
  <2>1. LimitTypeOK
    BY <1>2, <1>3 DEF LimitTypeOK
  <2>2. BucketInv /\ RateKept
    BY <1>3 DEF BucketInv, RateKept
  <2> QED
    BY <1>1, <1>2, <2>1, <2>2 DEF LimitInv

-----------------------------------------------------------------------------
(* Tokens. *)

\* A provider that replaces its tokens honours one: the row's, or the one on its
\* way to the row, which nobody else can have.
ReplaceInv ==
  \E t \in 1..minted :
    /\ honoured = {t}
    /\ \A w \in Callers : call[w].at = "store" =>
         /\ row.refresh # t
         /\ \A v \in Callers : call[v].conn.refresh # t /\ (v # w => call[v].at # "store")

HonourInv ==
  forgotten \/ honoured = {} \/
    /\ row.refresh \in honoured \/ \E w \in Callers : call[w].at = "store"
    /\ \A w \in Callers : call[w].at = "store" => call[w].next.refresh \in honoured
    /\ rotation = "replace" => ReplaceInv

\* No token is known before it is minted.
MintInv ==
  /\ row.refresh <= minted
  /\ \A t \in honoured : t <= minted
  /\ \A w \in Callers : call[w].conn.refresh <= minted /\ call[w].next.refresh <= minted

TokenInv == TokenTypeOK /\ clock \in Times /\ MintInv /\ HonourInv

TokenStep == (TokenNext /\ UNCHANGED clock) \/ (Tick /\ UNCHANGED tokenVars)

TokenPairs == [refresh: 0..MaxMint, expiresAt: 0..(MaxClock + TokenLife)]
CallRecords == [at: {"idle", "ensure", "refresh", "store", "use", "reconnect"},
                conn: TokenPairs, next: TokenPairs, force: BOOLEAN]

LEMMA TokenFacts ==
  ASSUME TokenInv
  PROVE  /\ row \in TokenPairs /\ call \in [Callers -> CallRecords] /\ minted \in 1..MaxMint /\ minted \in Nat
         /\ NoCall \in CallRecords /\ NoCall.at = "idle" /\ NoCall.conn.refresh = 0 /\ NoCall.next.refresh = 0
         /\ honoured \subseteq 1..MaxMint
         /\ [refresh |-> 0, expiresAt |-> 0] \in TokenPairs
         /\ \A n \in 0..MaxMint : [refresh |-> n, expiresAt |-> After(TokenLife)] \in TokenPairs
<1>1. MaxMint \in Nat /\ MaxClock \in Nat /\ TokenLife \in Nat /\ clock \in 0..MaxClock
  BY TokensAssumption, ClockAssumption DEF TokenInv, Times
<1>2. After(TokenLife) \in 0..(MaxClock + TokenLife) /\ 0 \in 0..MaxMint /\ 0 \in 0..(MaxClock + TokenLife)
  BY <1>1 DEF After
<1>3. [refresh |-> 0, expiresAt |-> 0] \in TokenPairs
  BY <1>2 DEF TokenPairs
<1>4. NoCall \in CallRecords /\ NoCall.at = "idle" /\ NoCall.conn.refresh = 0 /\ NoCall.next.refresh = 0
  BY <1>3 DEF NoCall, CallRecords
<1>5. row \in TokenPairs /\ call \in [Callers -> CallRecords] /\ minted \in 1..MaxMint /\ honoured \subseteq 1..MaxMint
  BY DEF TokenInv, TokenTypeOK, TokenPairs, CallRecords
<1>6. \A n \in 0..MaxMint : [refresh |-> n, expiresAt |-> After(TokenLife)] \in TokenPairs
  BY <1>2 DEF TokenPairs
<1> QED
  BY <1>1, <1>3, <1>4, <1>5, <1>6

\* What one step of a provider call leaves of the locals of all.
LEMMA OneCaller ==
  ASSUME TokenInv, NEW w \in Callers, NEW c \in CallRecords, call' = [call EXCEPT ![w] = c]
  PROVE  /\ call' \in [Callers -> CallRecords] /\ call'[w] = c
         /\ \A v \in Callers \ {w} : call'[v] = call[v]
  BY TokenFacts

\* A step that refreshes nothing and writes nothing.
LEMMA Abides ==
  ASSUME TokenInv, UNCHANGED <<row, rotation, honoured, minted, forgotten, clock>>, health' \in {"ok", "needs_reconnect"},
         NEW w \in Callers, NEW c \in CallRecords, call' = [call EXCEPT ![w] = c],
         call[w].at # "store", c.at # "store",
         c.conn \in {call[w].conn, row, NoCall.conn}, c.next \in {call[w].next, NoCall.next}
  PROVE  TokenInv'
<1>1. /\ call' \in [Callers -> CallRecords] /\ call'[w] = c
      /\ \A v \in Callers \ {w} : call'[v] = call[v]
  BY OneCaller
<1>2. TokenTypeOK' /\ clock' \in Times
  BY <1>1 DEF TokenInv, TokenTypeOK, TokenPairs, CallRecords
<1>3. /\ c.conn.refresh \in {call[w].conn.refresh, row.refresh, 0}
      /\ c.next.refresh \in {call[w].next.refresh, 0}
  BY TokenFacts
<1>4. MintInv'
  <2>1. \A v \in Callers : call'[v].conn.refresh <= minted /\ call'[v].next.refresh <= minted
    BY <1>1, <1>3, TokenFacts DEF TokenInv, MintInv
  <2> QED
    BY <2>1 DEF TokenInv, MintInv
<1>5. \A v \in Callers : /\ call'[v].at = "store" <=> call[v].at = "store"
                         /\ call'[v].at = "store" => call'[v].next = call[v].next
  BY <1>1
<1>6. ReplaceInv => ReplaceInv'
  <2> SUFFICES ASSUME NEW t \in 1..minted, honoured = {t},
                      \A v \in Callers : call[v].at = "store" =>
                        /\ row.refresh # t
                        /\ \A u \in Callers : call[u].conn.refresh # t /\ (u # v => call[u].at # "store")
               PROVE  \A v \in Callers : call'[v].at = "store" =>
                        /\ row.refresh # t
                        /\ \A u \in Callers : call'[u].conn.refresh # t /\ (u # v => call'[u].at # "store")
    BY DEF ReplaceInv
  <2>1. t # 0
    BY TokenFacts
  <2> QED
    BY <1>1, <1>3, <1>5, <2>1
<1>7. HonourInv'
  BY <1>5, <1>6 DEF TokenInv, HonourInv
<1> QED
  BY <1>2, <1>4, <1>7 DEF TokenInv

LEMMA MintsTypes ==
  ASSUME TokenInv, NEW w \in Callers, Mints(w)
  PROVE  /\ minted' = minted + 1 /\ minted' \in 1..MaxMint
         /\ honoured' \subseteq 1..MaxMint
         /\ \A t \in honoured' : t <= minted'
         /\ NewToken(w) \in 0..MaxMint /\ NewToken(w) <= minted'
<1>1. MaxMint \in Nat /\ minted \in 1..MaxMint /\ minted < MaxMint /\ minted' = minted + 1
  BY TokenFacts, TokensAssumption DEF Mints
<1>2. honoured' \subseteq honoured \cup {minted + 1}
  BY TokensAssumption DEF Mints, TokenInv, TokenTypeOK
<1>3. \A t \in honoured : t <= minted /\ t \in 1..MaxMint
  BY TokenFacts DEF TokenInv, MintInv
<1>4. call[w].conn.refresh \in honoured
  BY DEF Mints
<1>5. NewToken(w) = minted + 1 \/ NewToken(w) = call[w].conn.refresh
  BY DEF NewToken
<1> QED
  BY <1>1, <1>2, <1>3, <1>4, <1>5

LEMMA RefreshStep ==
  ASSUME TokenInv, NEW w \in Callers, Refresh(w), UNCHANGED clock
  PROVE  TokenInv'
<1> DEFINE pair == [refresh |-> NewToken(w), expiresAt |-> After(TokenLife)]
           c == [call[w] EXCEPT !.at = "store", !.next = pair]
<1>1. /\ minted' = minted + 1 /\ minted' \in 1..MaxMint /\ honoured' \subseteq 1..MaxMint
      /\ \A t \in honoured' : t <= minted'
      /\ NewToken(w) \in 0..MaxMint /\ NewToken(w) <= minted'
      /\ minted \in Nat
  BY MintsTypes, TokenFacts DEF Refresh
<1>2. /\ pair \in TokenPairs /\ c \in CallRecords
      /\ c.at = "store" /\ c.next.refresh = NewToken(w) /\ c.conn = call[w].conn
  BY <1>1, TokenFacts DEF CallRecords
<1>3. call' = [call EXCEPT ![w] = c] /\ UNCHANGED <<row, health, rotation, forgotten, clock>>
  BY DEF Refresh
<1>4. /\ call[w].at = "refresh" /\ call[w].conn.refresh \in honoured
      /\ honoured' = CASE rotation = "keep" -> honoured
                       [] rotation = "renew" -> honoured \cup {minted + 1}
                       [] rotation = "replace" -> (honoured \ {call[w].conn.refresh}) \cup {minted + 1}
      /\ rotation \in {"keep", "renew", "replace"}
  BY TokensAssumption DEF Refresh, Mints, TokenInv, TokenTypeOK
<1> HIDE DEF c, pair
<1>5. /\ call' \in [Callers -> CallRecords] /\ call'[w] = c
      /\ \A v \in Callers \ {w} : call'[v] = call[v]
  BY <1>2, <1>3, OneCaller
<1>6. TokenTypeOK' /\ clock' \in Times
  BY <1>1, <1>3, <1>5 DEF TokenInv, TokenTypeOK, TokenPairs, CallRecords
<1>7. MintInv'
  <2>1. row.refresh <= minted' /\ \A v \in Callers : call[v].conn.refresh <= minted' /\ call[v].next.refresh <= minted'
    BY <1>1, TokenFacts DEF TokenInv, MintInv, TokenPairs, CallRecords
  <2>2. \A v \in Callers : call'[v].conn.refresh <= minted' /\ call'[v].next.refresh <= minted'
    BY <1>1, <1>2, <1>5, <2>1
  <2> QED
    BY <1>1, <1>3, <2>1, <2>2 DEF MintInv
<1>8. ASSUME ~forgotten
      PROVE  HonourInv'
  <2>1. HonourInv /\ honoured # {}
    BY <1>4 DEF TokenInv
  <2>2. \A v \in Callers : call[v].at = "store" => call[v].next.refresh \in honoured
    BY <1>8, <2>1 DEF HonourInv
  <2>3. CASE rotation # "replace"
    <3>1. honoured \subseteq honoured' /\ NewToken(w) \in honoured'
      BY <1>4, <2>3 DEF NewToken
    <3>2. \A v \in Callers : call'[v].at = "store" => call'[v].next.refresh \in honoured'
      BY <1>2, <1>5, <2>2, <3>1
    <3> QED
      BY <1>2, <1>3, <1>5, <2>3, <3>2 DEF HonourInv
  <2>4. CASE rotation = "replace"
    <3>1. PICK t \in 1..minted :
            /\ honoured = {t}
            /\ \A v \in Callers : call[v].at = "store" =>
                 /\ row.refresh # t
                 /\ \A u \in Callers : call[u].conn.refresh # t /\ (u # v => call[u].at # "store")
      BY <1>8, <2>1, <2>4 DEF HonourInv, ReplaceInv
    <3>2. \A v \in Callers : call[v].at # "store"
      BY <1>4, <3>1
    <3>3. honoured' = {minted'} /\ NewToken(w) = minted'
      BY <1>1, <1>4, <2>4, <3>1 DEF NewToken
    <3>4. \A v \in Callers : call'[v].at = "store" <=> v = w
      BY <1>2, <1>5, <3>2
    <3>5. row'.refresh # minted' /\ \A u \in Callers : call'[u].conn.refresh # minted'
      <4>1. row.refresh <= minted /\ row.refresh \in Nat
        BY TokenFacts DEF TokenInv, MintInv, TokenPairs
      <4>2. ASSUME NEW u \in Callers
            PROVE  call'[u].conn.refresh # minted'
        <5>1. call[u].conn.refresh <= minted /\ call[u].conn.refresh \in Nat
          BY TokenFacts DEF TokenInv, MintInv, TokenPairs, CallRecords
        <5>2. call'[u].conn = call[u].conn
          BY <1>2, <1>5
        <5> QED
          BY <1>1, <5>1, <5>2
      <4> QED
        BY <1>1, <1>3, <4>1, <4>2
    <3>6. ReplaceInv'
      <4>1. minted' \in 1..minted'
        BY <1>1
      <4> QED
        BY <3>3, <3>4, <3>5, <4>1 DEF ReplaceInv
    <3> QED
      BY <1>2, <1>5, <3>3, <3>4, <3>6 DEF HonourInv
  <2> QED
    BY <2>3, <2>4
<1>9. forgotten => HonourInv'
  BY <1>3 DEF HonourInv
<1> QED
  BY <1>6, <1>7, <1>8, <1>9 DEF TokenInv

LEMMA StoreStep ==
  ASSUME TokenInv, NEW w \in Callers, StoreTokens(w), UNCHANGED clock
  PROVE  TokenInv'
<1>1. /\ call[w].at = "store" /\ UNCHANGED <<health, rotation, honoured, minted, clock>>
      /\ minted \in Nat
  BY TokenFacts DEF StoreTokens
<1>2. CASE forgotten' /\ UNCHANGED row /\ call' = [call EXCEPT ![w] = NoCall]
  <2>1. /\ call' \in [Callers -> CallRecords] /\ call'[w] = NoCall
        /\ \A v \in Callers \ {w} : call'[v] = call[v]
    BY <1>2, OneCaller, TokenFacts
  <2>2. TokenTypeOK' /\ clock' \in Times
    BY <1>1, <1>2, <2>1 DEF TokenInv, TokenTypeOK, TokenPairs, CallRecords, StoreTokens
  <2>3. \A v \in Callers : call'[v].conn.refresh <= minted /\ call'[v].next.refresh <= minted
    BY <2>1, TokenFacts DEF TokenInv, MintInv
  <2>4. MintInv' /\ HonourInv'
    BY <1>1, <1>2, <2>3 DEF TokenInv, MintInv, HonourInv
  <2> QED
    BY <2>2, <2>4 DEF TokenInv
<1>3. CASE row' = call[w].next /\ UNCHANGED forgotten /\ call' = [call EXCEPT ![w].at = "use"]
  <2> DEFINE c == [call[w] EXCEPT !.at = "use"]
  <2>1. c \in CallRecords /\ c.at = "use" /\ c.conn = call[w].conn /\ c.next = call[w].next /\ row' \in TokenPairs
    BY <1>3, TokenFacts DEF CallRecords
  <2>2. call' = [call EXCEPT ![w] = c]
    BY <1>3
  <2> HIDE DEF c
  <2>3. /\ call' \in [Callers -> CallRecords] /\ call'[w] = c
        /\ \A v \in Callers \ {w} : call'[v] = call[v]
    BY <2>1, <2>2, OneCaller
  <2>4. TokenTypeOK' /\ clock' \in Times
    BY <1>1, <1>3, <2>1, <2>3 DEF TokenInv, TokenTypeOK, TokenPairs, CallRecords
  <2>5. \A v \in Callers : call'[v].conn = call[v].conn /\ call'[v].next = call[v].next
    BY <2>1, <2>3
  <2>6. MintInv'
    BY <1>1, <1>3, <2>5 DEF TokenInv, MintInv
  <2>7. \A v \in Callers : call'[v].at = "store" <=> call[v].at = "store" /\ v # w
    BY <2>1, <2>3
  <2>8. HonourInv'
    <3> SUFFICES ASSUME ~forgotten, honoured # {}
                 PROVE  HonourInv'
      BY <1>1, <1>3 DEF HonourInv
    <3>1. row'.refresh \in honoured
      BY <1>1, <1>3 DEF TokenInv, HonourInv
    <3>2. \A v \in Callers : call'[v].at = "store" => call'[v].next.refresh \in honoured
      BY <2>5, <2>7 DEF TokenInv, HonourInv
    <3>3. rotation = "replace" => ReplaceInv'
      <4>1. rotation = "replace" => ReplaceInv
        BY DEF TokenInv, HonourInv
      <4>2. ReplaceInv => \A v \in Callers : call'[v].at # "store"
        BY <1>1, <2>7 DEF ReplaceInv
      <4>3. ReplaceInv => \E t \in 1..minted : honoured = {t}
        BY DEF ReplaceInv
      <4> QED
        BY <1>1, <4>1, <4>2, <4>3 DEF ReplaceInv
    <3> QED
      BY <1>1, <3>1, <3>2, <3>3 DEF HonourInv
  <2> QED
    BY <2>4, <2>6, <2>8 DEF TokenInv
<1> QED
  BY <1>2, <1>3 DEF StoreTokens

LEMMA TokenKeeps ==
  ASSUME TokenInv, [TokenStep]_<<clock, tokenVars>>
  PROVE  TokenInv'
<1>1. ASSUME NEW w \in Callers, UNCHANGED clock
      PROVE  /\ Load(w) \/ Ensure(w) \/ InvalidGrant(w) \/ Use(w) \/ Reconnect(w) => TokenInv'
             /\ RefreshFails(w) => TokenInv'
  <2>0. call[w] \in CallRecords /\ row \in TokenPairs /\ NoCall \in CallRecords /\ NoCall.at = "idle"
    BY TokenFacts
  <2>1. ASSUME NEW c \in CallRecords, call' = [call EXCEPT ![w] = c], call[w].at # "store", c.at # "store",
               UNCHANGED <<row, rotation, honoured, minted, forgotten>>, health' \in {"ok", "needs_reconnect"},
               c.conn \in {call[w].conn, row, NoCall.conn}, c.next \in {call[w].next, NoCall.next}
        PROVE  TokenInv'
    BY <1>1, <2>1, Abides
  <2>2. health \in {"ok", "needs_reconnect"}
    BY DEF TokenInv, TokenTypeOK
  <2>3. CASE Load(w)
    <3> DEFINE c == [NoCall EXCEPT !.at = "ensure", !.conn = row]
    <3>1. c \in CallRecords /\ c.at = "ensure" /\ c.conn = row /\ c.next = NoCall.next
      BY <2>0 DEF CallRecords, NoCall
    <3>2. call' = [call EXCEPT ![w] = c] /\ call[w].at = "idle" /\ UNCHANGED <<row, health, rotation, honoured, minted, forgotten>>
      BY <2>3 DEF Load
    <3> HIDE DEF c
    <3> QED
      BY <2>1, <2>2, <3>1, <3>2
  <2>4. ASSUME NEW there \in {"ensure", "use", "reconnect", "refresh"}, call[w].at # "store",
               call' = [call EXCEPT ![w].at = there], UNCHANGED <<row, health, rotation, honoured, minted, forgotten>>
        PROVE  TokenInv'
    <3> DEFINE c == [call[w] EXCEPT !.at = there]
    <3>1. c \in CallRecords /\ c.at = there /\ c.conn = call[w].conn /\ c.next = call[w].next
      BY <2>0 DEF CallRecords
    <3>2. call' = [call EXCEPT ![w] = c]
      BY <2>4
    <3> HIDE DEF c
    <3> QED
      BY <2>1, <2>2, <2>4, <3>1, <3>2
  <2>5. CASE Ensure(w) \/ InvalidGrant(w)
    <3>1. \E there \in {"use", "reconnect", "refresh"} : call' = [call EXCEPT ![w].at = there]
      BY <2>5 DEF Ensure, InvalidGrant
    <3>2. call[w].at # "store" /\ UNCHANGED <<row, health, rotation, honoured, minted, forgotten>>
      BY <2>5 DEF Ensure, InvalidGrant
    <3> QED
      BY <2>4, <3>1, <3>2
  <2>6. ASSUME call' = [call EXCEPT ![w] = NoCall], call[w].at # "store", health' \in {"ok", "needs_reconnect"},
               UNCHANGED <<row, rotation, honoured, minted, forgotten>>
        PROVE  TokenInv'
    BY <2>0, <2>1, <2>6
  <2>7. CASE Use(w)
    <3>1. /\ \/ call' = [call EXCEPT ![w] = NoCall]
             \/ call' = [call EXCEPT ![w].at = "reconnect"]
             \/ call' = [call EXCEPT ![w].at = "ensure", ![w].force = TRUE]
          /\ call[w].at = "use" /\ UNCHANGED <<row, health, rotation, honoured, minted, forgotten>>
      BY <2>7 DEF Use
    <3>2. CASE call' = [call EXCEPT ![w].at = "ensure", ![w].force = TRUE]
      <4> DEFINE c == [call[w] EXCEPT !.at = "ensure", !.force = TRUE]
      <4>1. c \in CallRecords /\ c.at = "ensure" /\ c.conn = call[w].conn /\ c.next = call[w].next
        BY <2>0 DEF CallRecords
      <4>2. call' = [call EXCEPT ![w] = c]
        BY <3>2
      <4> HIDE DEF c
      <4> QED
        BY <2>1, <2>2, <3>1, <4>1, <4>2
    <3> QED
      BY <2>2, <2>4, <2>6, <3>1, <3>2
  <2>8. CASE Reconnect(w)
    <3>1. /\ call' = [call EXCEPT ![w] = NoCall] /\ call[w].at = "reconnect" /\ health' \in {"ok", "needs_reconnect"}
          /\ UNCHANGED <<row, rotation, honoured, minted, forgotten>>
      BY <2>2, <2>8 DEF Reconnect
    <3> QED
      BY <2>6, <3>1
  <2>9. CASE RefreshFails(w)
    <3>1. /\ call' = [call EXCEPT ![w] = NoCall] /\ call[w].at = "refresh" /\ UNCHANGED <<row, health, rotation>>
          /\ UNCHANGED <<honoured, minted, forgotten>> \/ (Mints(w) /\ forgotten' = TRUE)
      BY <2>9 DEF RefreshFails
    <3>2. CASE Mints(w) /\ forgotten' = TRUE
      <4>1. /\ minted' = minted + 1 /\ minted' \in 1..MaxMint /\ honoured' \subseteq 1..MaxMint /\ minted \in Nat
            /\ \A t \in honoured' : t <= minted'
        BY <3>2, MintsTypes, TokenFacts
      <4>2. /\ call' \in [Callers -> CallRecords] /\ call'[w] = NoCall
            /\ \A v \in Callers \ {w} : call'[v] = call[v]
        BY <3>1, OneCaller, TokenFacts
      <4>3. TokenTypeOK' /\ clock' \in Times
        BY <1>1, <3>1, <3>2, <4>1, <4>2 DEF TokenInv, TokenTypeOK, TokenPairs, CallRecords
      <4>4. row.refresh <= minted' /\ \A v \in Callers : call[v].conn.refresh <= minted' /\ call[v].next.refresh <= minted'
        BY <4>1, TokenFacts DEF TokenInv, MintInv, TokenPairs, CallRecords
      <4>5. \A v \in Callers : call'[v].conn.refresh <= minted' /\ call'[v].next.refresh <= minted'
        BY <4>1, <4>2, <4>4, TokenFacts
      <4>6. MintInv' /\ HonourInv'
        BY <3>1, <3>2, <4>1, <4>4, <4>5 DEF MintInv, HonourInv
      <4> QED
        BY <4>3, <4>6 DEF TokenInv
    <3> QED
      BY <2>2, <2>6, <3>1, <3>2
  <2> QED
    BY <2>3, <2>5, <2>7, <2>8, <2>9
<1>2. ASSUME Withdraw, UNCHANGED clock
      PROVE  TokenInv'
  BY <1>2 DEF Withdraw, TokenInv, TokenTypeOK, MintInv, HonourInv
<1>3. ASSUME UNCHANGED tokenVars, clock' \in Times
      PROVE  TokenInv'
  BY <1>3 DEF tokenVars, TokenInv, TokenTypeOK, MintInv, HonourInv, ReplaceInv
<1>4. CASE TokenNext /\ UNCHANGED clock
  BY <1>1, <1>2, <1>4, RefreshStep, StoreStep DEF TokenNext
<1>5. CASE Tick /\ UNCHANGED tokenVars
  BY <1>3, <1>5, ClockAssumption DEF Tick, Times, TokenInv
<1>6. CASE UNCHANGED <<clock, tokenVars>>
  BY <1>3, <1>6 DEF TokenInv
<1> QED
  BY <1>4, <1>5, <1>6 DEF TokenStep

LEMMA TokenBegins == ClockInit /\ TokenInit => TokenInv
<1> SUFFICES ASSUME ClockInit, TokenInit
             PROVE  TokenInv
  OBVIOUS
<1>1. MaxMint \in Nat \ {0} /\ TokenLife \in Nat /\ MaxClock \in Nat /\ Rotations \subseteq {"keep", "renew", "replace"}
  BY TokensAssumption, ClockAssumption
<1>2. row \in TokenPairs /\ row.refresh \in {0, 1} /\ [refresh |-> 0, expiresAt |-> 0] \in TokenPairs
  BY <1>1 DEF TokenInit, TokenPairs
<1>3. NoCall \in CallRecords /\ NoCall.at = "idle" /\ NoCall.conn.refresh = 0 /\ NoCall.next.refresh = 0
  BY <1>2 DEF NoCall, CallRecords
<1>4. /\ honoured = {row.refresh} \ {0} /\ minted = 1 /\ call = [w \in Callers |-> NoCall]
      /\ health = "ok" /\ rotation \in Rotations /\ forgotten = FALSE /\ clock \in Times
  BY <1>1 DEF TokenInit, ClockInit, Times
<1>5. TokenTypeOK
  <2>1. call \in [Callers -> CallRecords] /\ row \in TokenPairs /\ forgotten \in BOOLEAN
    BY <1>2, <1>3, <1>4
  <2>2. honoured \subseteq 1..MaxMint /\ minted \in 1..MaxMint
    BY <1>1, <1>2, <1>4
  <2> QED
    BY <1>4, <2>1, <2>2 DEF TokenTypeOK, TokenPairs, CallRecords
<1>6. MintInv
  BY <1>2, <1>3, <1>4 DEF MintInv
<1>7. HonourInv
  BY <1>1, <1>2, <1>3, <1>4 DEF HonourInv, ReplaceInv
<1> QED
  BY <1>4, <1>5, <1>6, <1>7 DEF TokenInv

-----------------------------------------------------------------------------
(* The theorems. *)

\* The object of the host alone, under the clock.
IInv == TypeInv /\ LeaseInv /\ CoverInv

LEMMA HostBegins == ClockInit /\ HostInit => IInv
<1> SUFFICES ASSUME ClockInit, HostInit
             PROVE  IInv
  OBVIOUS
<1>1. 0 \in Times
  BY ClockAssumption DEF Times
<1>2. NoLease \in [by: Lessees \cup {Nobody}, until: Times]
  BY <1>1 DEF NoLease
<1>3. TypeInv
  BY <1>1, <1>2 DEF ClockInit, HostInit, TypeInv, HostTypeOK
<1>4. LeaseInv
  BY HostAssumption DEF ClockInit, HostInit, LeaseInv, LeaseExcludes, TrustInv
<1>5. CoverInv
  BY DEF HostInit, CoverInv, NoLease
<1> QED
  BY <1>3, <1>4, <1>5 DEF IInv

LEMMA HostKeeps ==
  ASSUME IInv, [HostStep]_<<clock, hostVars>>
  PROVE  IInv'
  BY TypesStep, LeaseStep, CoverStep DEF IInv

\* The four parts of the engine that time drives.
WorksInv == IInv /\ CronInv /\ LimitInv /\ TokenInv

\* A step of the whole is a step of one part, beside which the others stand
\* still, or a tick for all.
LEMMA OnePartSteps ==
  ASSUME [Next]_works
  PROVE  /\ [HostStep]_<<clock, hostVars>> /\ [CronStep]_<<clock, cronVars>>
         /\ [LimitStep]_<<clock, limitVars>> /\ [TokenStep]_<<clock, tokenVars>>
<1>1. CASE Host(HostNext)
  BY <1>1 DEF Host, HostStep
<1>2. CASE Cron
  BY <1>2 DEF Cron, CronStep
<1>3. CASE Limits
  BY <1>3 DEF Limits, LimitStep
<1>4. CASE Connection
  BY <1>4 DEF Connection, TokenStep
<1>5. CASE Time
  BY <1>5 DEF Time, HostStep, CronStep, LimitStep, TokenStep
<1>6. CASE UNCHANGED works
  BY <1>6 DEF works
<1> QED
  BY <1>1, <1>2, <1>3, <1>4, <1>5, <1>6 DEF Next

LEMMA WorksInvariant == Spec => []WorksInv
<1>1. Init => WorksInv
  BY HostBegins, CronBegins, LimitBegins, TokenBegins DEF Init, WorksInv
<1>2. WorksInv /\ [Next]_works => WorksInv'
  BY OnePartSteps, HostKeeps, CronKeeps, LimitKeeps, TokenKeeps DEF WorksInv
<1> QED
  BY <1>1, <1>2, PTL DEF Spec

\* The host's object by itself, whoever drives it, does what the composition
\* has it do.
THEOREM HostStandsAlone == Spec => HostSpec
<1>1. Init => ClockInit /\ HostInit
  BY DEF Init
<1>2. [Next]_works => [HostStep]_<<clock, hostVars>>
  BY OnePartSteps
<1> QED
  BY <1>1, <1>2, PTL DEF Spec, HostSpec

\* Every variable of the four parts keeps its type.
THEOREM ClockworkTypes == Spec => []TypeOK
<1>1. WorksInv => TypeOK
  BY DEF WorksInv, IInv, TypeInv, CronInv, LimitInv, TokenInv, TypeOK
<1> QED
  BY <1>1, WorksInvariant, PTL

\* A granted lease excludes all others until its time is over, whatever is
\* released late, swept or lost with the object (host-calendar.ts, acquireLease).
THEOREM LeaseIsExclusive == Spec => []LeaseExcludes
<1>1. WorksInv => LeaseExcludes
  BY DEF WorksInv, IInv, LeaseInv
<1> QED
  BY <1>1, WorksInvariant, PTL

\* Nothing that expires is left without an alarm, unless the object died before
\* it could set one (host-calendar.ts, scheduleNextAlarm and alarm).
THEOREM AlarmAlwaysCovers == Spec => []AlarmCovers
<1>1. ASSUME WorksInv PROVE AlarmCovers
  BY <1>1 DEF WorksInv, IInv, CoverInv, Safe, AlarmCovers
<1> QED
  BY <1>1, WorksInvariant, PTL

\* Nobody is reminded twice, and nobody is passed over, but for the ticks that
\* were repeated, skipped or broken off (scheduled.ts, sendReminders).
THEOREM RemindedAtItsTime == Spec => []RemindedOnce
<1>1. ASSUME CronInv PROVE RemindedOnce
  <2> SUFFICES ASSUME NEW b \in Meetings, NEW i \in DOMAIN Leads, Once(b, i)
               PROVE  /\ mails[b][i] <= 1
                      /\ /\ meeting[b] = "confirmed" /\ run.at = "idle"
                         /\ Passed(b, i) /\ StartOf[b] >= since[b] + Leads[i] + Interval
                         /\ TicksFor(b, i) \cap missed = {}
                         => mails[b][i] = 1
    BY DEF RemindedOnce, Once, Passed
  <2>1. run.at = "idle" => ~Ahead(b, i)
    BY DEF Ahead
  <2> QED
    BY <1>1, <2>1 DEF CronInv, OnceInv, SentInv
<1>2. WorksInv => RemindedOnce
  BY <1>1 DEF WorksInv
<1> QED
  BY <1>2, WorksInvariant, PTL

\* In any stretch of time a bucket lets through no more than its limit and what
\* refilled meanwhile (rate-limiter.ts, consume and alarm).
THEOREM RateIsKept == Spec => []RateKept
<1>1. WorksInv => RateKept
  BY DEF WorksInv, LimitInv
<1> QED
  BY <1>1, WorksInvariant, PTL

\* The refresh token in the row is one the provider honours, once no answer is
\* on its way to the row and none was lost (oauth.ts, ensureAccessToken).
THEOREM TokenIsKept == Spec => []TokenKept
<1>1. WorksInv => TokenKept
  BY DEF WorksInv, TokenInv, HonourInv, TokenKept
<1> QED
  BY <1>1, WorksInvariant, PTL
================================================================================
