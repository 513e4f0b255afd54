------------------------------ MODULE HostCalendar ------------------------------
(***************************************************************************)
(* The Durable Object of one host: advisory holds, mirrored into D1's      *)
(* slot_holds, and the short lease of collective bookings. One alarm       *)
(* serves both. A method of the object runs alone except while it awaits   *)
(* something other than its own storage, which only alarm() and            *)
(* releaseHold do (a D1 statement): other methods may run then.            *)
(***************************************************************************)
EXTENDS Clock

CONSTANTS
  Holds,      \* hold ids: crypto.randomToken() never returns one twice
  Lessees,    \* lease ids, one for each booking request that takes a lease
  HoldTTLs,   \* what guests ask for, ttlMs
  MinHold,    \* 30 seconds
  MaxHold,    \* MAX_HOLD_MS
  LeaseTTL,   \* LEASE_TTL_MS
  Nobody,
  HostFaults  \* which of "evict" (the object) and "d1" (its database) may fail

ASSUME HostAssumption ==
  /\ HoldTTLs \subseteq Nat
  /\ MinHold \in Nat \ {0} /\ MaxHold \in Nat /\ MinHold <= MaxHold
  /\ LeaseTTL \in Nat \ {0}
  /\ Nobody \notin Lessees
  /\ HostFaults \subseteq {"evict", "d1"}

VARIABLES
  held,      \* the object's table holds: expires_at, 0 where there is no row
  lease,     \* the object's row lease
  alarm,     \* the time the alarm is set to, 0 for none
  waking,    \* alarm() awaits its D1 batch
  expired,   \* ... which deletes the rows of these holds
  rows,      \* D1's slot_holds: expires_at, 0 where there is no row
  guest,     \* guest[h]: how far the request for hold h has come
  told,      \* told[h]: the expiresAt createHold returned
  trust,     \* history: trust[c] is when the lease c was granted and has not
             \* given back runs out
  stranded   \* history: rows written by a method that died before setAlarm

hostVars == <<held, lease, alarm, waking, expired, rows, guest, told, trust, stranded>>

NoLease == [by |-> Nobody, until |-> 0]

HostInit ==
  /\ held = [h \in Holds |-> 0]
  /\ lease = NoLease
  /\ alarm = 0 /\ waking = FALSE /\ expired = {}
  /\ rows = [h \in Holds |-> 0]
  /\ guest = [h \in Holds |-> "new"]
  /\ told = [h \in Holds |-> 0]
  /\ trust = [c \in Lessees |-> 0]
  /\ stranded = {}

-----------------------------------------------------------------------------
(* scheduleNextAlarm, which ends createHold, acquireLease and alarm. *)

Pending(H, L) == ({H[h] : h \in Holds} \cup {L.until}) \ {0}

\* "Wake at the earliest pending expiry; nothing pending means no alarm."
NextAlarm(current, H, L) ==
  IF Pending(H, L) = {} THEN current
  ELSE IF current = 0 \/ current > Earliest(Pending(H, L)) THEN Earliest(Pending(H, L))
  ELSE current

\* The method ran to its end, or the object was evicted before setAlarm.
Scheduled(H, L) == alarm' = NextAlarm(alarm, H, L) /\ UNCHANGED stranded
Evicted(item) == "evict" \in HostFaults /\ stranded' = stranded \cup {item} /\ UNCHANGED alarm

-----------------------------------------------------------------------------
(* Holds. *)

Clamped(ttl) == IF ttl < MinHold THEN MinHold ELSE IF ttl > MaxHold THEN MaxHold ELSE ttl

CreateHold(h, ttl) ==
  /\ guest[h] = "new" /\ InTime(Clamped(ttl))
  /\ held' = [held EXCEPT ![h] = After(Clamped(ttl))]
  /\ \/ /\ Scheduled(held', lease)
        /\ told' = [told EXCEPT ![h] = held'[h]]
        /\ guest' = [guest EXCEPT ![h] = "granted"]
     \/ /\ Evicted(h)
        /\ guest' = [guest EXCEPT ![h] = "gone"]
        /\ UNCHANGED told
  /\ UNCHANGED <<lease, waking, expired, rows, trust>>

\* The coordinator writes the rows the slot engine reads, however late: the
\* object may have let the hold expire meanwhile.
PlaceHold(h) ==
  /\ guest[h] = "granted"
  /\ \/ /\ rows' = [rows EXCEPT ![h] = told[h]]
        /\ guest' = [guest EXCEPT ![h] = "placed"]
     \/ /\ "d1" \in HostFaults
        /\ guest' = [guest EXCEPT ![h] = "gone"]
        /\ UNCHANGED rows
  /\ UNCHANGED <<held, lease, alarm, waking, expired, told, trust, stranded>>

\* releaseHold: the object's own row first, then, best-effort, the one in D1.
LeaveHold(h) ==
  /\ guest[h] = "placed"
  /\ held' = [held EXCEPT ![h] = 0]
  /\ guest' = [guest EXCEPT ![h] = "leaving"]
  /\ UNCHANGED <<lease, alarm, waking, expired, rows, told, trust, stranded>>

LeaveRows(h) ==
  /\ guest[h] = "leaving"
  /\ \/ rows' = [rows EXCEPT ![h] = 0]
     \/ "d1" \in HostFaults /\ UNCHANGED rows
  /\ guest' = [guest EXCEPT ![h] = "gone"]
  /\ UNCHANGED <<held, lease, alarm, waking, expired, told, trust, stranded>>

\* A committed booking drops the rows in D1 only: the object's stays.
BookHold(h) ==
  /\ guest[h] = "placed"
  /\ \/ rows' = [rows EXCEPT ![h] = 0]
     \/ "d1" \in HostFaults /\ UNCHANGED rows
  /\ guest' = [guest EXCEPT ![h] = "gone"]
  /\ UNCHANGED <<held, lease, alarm, waking, expired, told, trust, stranded>>

-----------------------------------------------------------------------------
(* Leases. *)

\* A lease is refused, with no change, while another's stands. The grant may be
\* lost with the object.
Acquire(c) ==
  /\ lease.until <= clock \/ lease.by = c
  /\ InTime(LeaseTTL)
  /\ lease' = [by |-> c, until |-> After(LeaseTTL)]
  /\ \/ /\ Scheduled(held, lease')
        /\ trust' = [trust EXCEPT ![c] = After(LeaseTTL)]
     \/ Evicted("lease") /\ UNCHANGED trust
  /\ UNCHANGED <<held, waking, expired, rows, guest, told>>

\* Slip: DELETE FROM lease WHERE id = 1.
ReleaseAnyones(c) ==
  /\ lease' = NoLease
  /\ trust' = [trust EXCEPT ![c] = 0]
  /\ UNCHANGED <<held, alarm, waking, expired, rows, guest, told, stranded>>

\* At any time, also long after the lease ran out and went to another.
Release(c) ==
  /\ lease' = IF lease.by = c THEN NoLease ELSE lease
  /\ trust' = [trust EXCEPT ![c] = 0]
  /\ UNCHANGED <<held, alarm, waking, expired, rows, guest, told, stranded>>

-----------------------------------------------------------------------------
(* The alarm and the cron. *)

Over(t) == t # 0 /\ Reached(t)

\* getAlarm answers null while the handler runs. With no hold to mirror it ends
\* in one step.
AlarmFires ==
  /\ Over(alarm) /\ ~waking
  /\ expired' = {h \in Holds : Over(held[h])}
  /\ held' = [h \in Holds |-> IF h \in expired' THEN 0 ELSE held[h]]
  /\ lease' = IF Over(lease.until) THEN NoLease ELSE lease
  /\ waking' = (expired' # {})
  /\ alarm' = IF waking' THEN 0 ELSE NextAlarm(0, held', lease')
  /\ UNCHANGED <<rows, guest, told, trust, stranded>>

\* Slip: the handler does not re-arm.
MirrorOnly ==
  /\ waking
  /\ rows' = [h \in Holds |-> IF h \in expired THEN 0 ELSE rows[h]]
  /\ waking' = FALSE /\ expired' = {}
  /\ UNCHANGED <<held, lease, alarm, guest, told, trust, stranded>>

AlarmMirrors ==
  /\ waking
  /\ \/ rows' = [h \in Holds |-> IF h \in expired THEN 0 ELSE rows[h]]
     \/ "d1" \in HostFaults /\ UNCHANGED rows
  /\ waking' = FALSE /\ expired' = {}
  /\ alarm' = NextAlarm(alarm, held, lease)
  /\ UNCHANGED <<held, lease, guest, told, trust, stranded>>

\* The runtime tries the handler again, unless it has set an alarm meanwhile.
AlarmDies ==
  /\ waking /\ "evict" \in HostFaults
  /\ waking' = FALSE /\ expired' = {}
  /\ alarm' = IF alarm = 0 THEN clock ELSE alarm
  /\ UNCHANGED <<held, lease, rows, guest, told, trust, stranded>>

\* "This catches rows whose DO alarm was lost."
ExpireHolds ==
  /\ \E h \in Holds : Over(rows[h])
  /\ rows' = [h \in Holds |-> IF Over(rows[h]) THEN 0 ELSE rows[h]]
  /\ UNCHANGED <<held, lease, alarm, waking, expired, guest, told, trust, stranded>>

HostNext ==
  \/ \E h \in Holds : \/ \E ttl \in HoldTTLs : CreateHold(h, ttl)
                      \/ PlaceHold(h) \/ LeaveHold(h) \/ LeaveRows(h) \/ BookHold(h)
  \/ \E c \in Lessees : Acquire(c) \/ Release(c)
  \/ AlarmFires \/ AlarmMirrors \/ AlarmDies \/ ExpireHolds

HostStep ==
  \/ HostNext /\ UNCHANGED clock
  \/ Tick /\ UNCHANGED hostVars

HostSpec == ClockInit /\ HostInit /\ [][HostStep]_<<clock, hostVars>>

-----------------------------------------------------------------------------
(* Properties. *)

Times == 0..MaxClock

HostTypeOK ==
  /\ held \in [Holds -> Times] /\ rows \in [Holds -> Times] /\ told \in [Holds -> Times]
  /\ lease \in [by: Lessees \cup {Nobody}, until: Times]
  /\ alarm \in Times /\ waking \in BOOLEAN /\ expired \subseteq Holds
  /\ guest \in [Holds -> {"new", "granted", "placed", "leaving", "gone"}]
  /\ trust \in [Lessees -> Times]
  /\ stranded \subseteq Holds \cup {"lease"}

\* One alarm serves everything that expires: whatever is written, released or
\* let go while a handler waits for D1, each row the object still has is
\* covered by an alarm that is due, or that comes no later than its expiry (or
\* by the handler that will re-arm), unless the object died between the row and
\* its setAlarm.
AlarmCovers ==
  LET Covered(t) == t = 0 \/ waking \/ Over(alarm) \/ (alarm # 0 /\ alarm <= t) IN
    /\ \A h \in Holds : Covered(held[h]) \/ h \in stranded
    /\ Covered(lease.until) \/ "lease" \in stranded

\* "A short exclusive lease": a request that was granted the host and has not
\* given it back has it until its time is over, although expired leases of
\* others are still being released, taken over and swept.
LeaseExcludes == \A c \in Lessees : trust[c] > clock => lease.by = c /\ lease.until >= trust[c]

\* "So the table cannot grow without bound": in the end every hold is gone for
\* good from D1 (by alarm, cron, booking or release, however late its rows were
\* placed) and from the object, unless it died before setAlarm.
HoldsGo == <>[](\A h \in Holds : rows[h] = 0 /\ (held[h] = 0 \/ h \in stranded))
=================================================================================
