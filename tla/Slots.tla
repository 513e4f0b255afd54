--------------------------------- MODULE Slots ---------------------------------
(***************************************************************************)
(* Two readings of one calendar. A listing (src/engine.ts, computeSlots)   *)
(* loads what is busy near the range a guest looks at and grids the open   *)
(* windows; the commit path (buildHostInputs, isSlotStillValid) loads what *)
(* is busy near one start and tests it alone. Booking page, REST and MCP   *)
(* differ only in the range they ask for.                                  *)
(*                                                                         *)
(* Both read fresh: the 60-second free/busy cache and replica lag are left *)
(* out, and so are holds, which both read as they read lock rows.          *)
(***************************************************************************)
EXTENDS Clock, Zone, Sequences, SequencesExt

CONSTANTS
  None,         \* a column that is null, a row that is missing
  Hosts,
  EventTypes,   \* event_types rows, with their rosters
  Bucket,       \* minutes in a bucket of slot_locks
  Week,         \* days in a week
  Setups,       \* hours and outside calendars the hosts may have, together
  Ranges,       \* ranges that a listing is asked for
  Starts,       \* starts that a booking is asked for
  MaxBookings   \* bound: bookings made

EventTypeRow ==
  [kind: {"personal", "round_robin", "collective"}, roster: SUBSET Hosts,
   before: Nat, dur: Nat \ {0}, after: Nat, interval: (Nat \ {0}) \cup {None},
   notice: Nat, horizon: Nat, cap: Nat \cup {None}]

\* Windows of a local date are in minutes since its midnight. A weekly schedule
\* has them for each day of the week, an override for one date.
HoursRow(row) ==
  /\ row.zone \in ZoneRow /\ DOMAIN row.weekly = 0 .. (Week - 1) /\ DOMAIN row.overrides \subseteq Int
  /\ \A d \in DOMAIN row.weekly : row.weekly[d] \subseteq (0..Day) \X (0..Day)
  /\ \A d \in DOMAIN row.overrides : row.overrides[d] \subseteq (0..Day) \X (0..Day)

Interval == [start: Int, end: Int]

\* Event types are kept in multiples of five minutes (REST and dashboard).
ASSUME SlotsAssumption ==
  /\ EventTypes \subseteq EventTypeRow /\ None \notin Nat /\ IsFiniteSet(Hosts)
  /\ Bucket \in Nat \ {0} /\ Week \in Nat \ {0} /\ MaxBookings \in Nat
  /\ Ranges \subseteq Interval /\ Starts \subseteq Int
  /\ \A e \in EventTypes :
       /\ e.roster # {}
       /\ \A minutes \in {e.before, e.dur, e.after, e.interval} \ {None} : minutes % Bucket = 0
  /\ \A s \in Setups :
       /\ DOMAIN s.hours = Hosts /\ \A h \in Hosts : s.hours[h] # None => HoursRow(s.hours[h])
       /\ DOMAIN s.outside = Hosts /\ \A h \in Hosts : s.outside[h] \subseteq Interval

VARIABLES
  hours,     \* hours[h]: the availability row of h, or None
  outside,   \* outside[h]: busy intervals in the calendars h connected
  booked     \* confirmed bookings: [event, start, hosts]

slotVars == <<hours, outside, booked, clock>>

SlotsInit ==
  /\ \E s \in Setups : hours = s.hours /\ outside = s.outside
  /\ booked = {}
  /\ ClockInit

-----------------------------------------------------------------------------
(* Intervals, half open. *)

Overlaps(a, b) == a.start < b.end /\ b.start < a.end
Within(inner, outer) == outer.start <= inner.start /\ inner.end <= outer.end
Clear(interval, others) == \A o \in others : ~Overlaps(interval, o)

\* Whatever overlaps or touches becomes one.
MergeIntervals(S) ==
  LET absorb(next, out) ==
        LET met == {m \in out : m.start <= next.end /\ next.start <= m.end} \cup {next}
        IN  (out \ met) \cup {[start |-> Min({m.start : m \in met}), end |-> Max({m.end : m \in met})]}
  IN  FoldSet(absorb, {}, S)

IntersectIntervals(A, B) ==
  LET meet(a, b) == [start |-> Max({a.start, b.start}), end |-> Min({a.end, b.end})]
  IN  {meet(p[1], p[2]) : p \in {q \in A \X B : Overlaps(q[1], q[2])}}

IntersectAll(sets) ==
  LET first == CHOOSE h \in DOMAIN sets : TRUE
  IN  FoldSet(LAMBDA h, acc : IntersectIntervals(sets[h], acc), sets[first], DOMAIN sets \ {first})

\* Start floored, end ceiled: every bucket the interval touches.
IntervalToBuckets(i) == {Bucket * k : k \in (i.start \div Bucket) .. ((i.end - 1) \div Bucket)}

Footprint(e, t) == [start |-> t - e.before, end |-> t + e.dur + e.after]

-----------------------------------------------------------------------------
(* What D1 and the providers answer about a host. *)

BookingsOf(h) == {b \in booked : h \in b.hosts}
Locks(h) == UNION {IntervalToBuckets(Footprint(b.event, b.start)) : b \in BookingsOf(h)}
Met(b) == [start |-> b.start, end |-> b.start + b.event.dur]

\* busyBuckets, getBusy and combineBusy: lock rows by their start, calendar
\* events by overlap.
Busy(h, range) ==
  {[start |-> b, end |-> b + Bucket] : b \in {c \in Locks(h) : range.start <= c /\ c < range.end}}
    \cup {x \in outside[h] : Overlaps(x, range)}

\* perDayCounts: bookings within the range, by the host's local date.
CountListed(h, date, range) ==
  Cardinality({b \in BookingsOf(h) :
                 Overlaps(Met(b), range) /\ LocalDate(hours[h].zone, b.start) = date})

\* countForHostOnDate: bookings that start on the host's local date.
CountOnDate(h, date) ==
  LET day == DayRange(hours[h].zone, date)
  IN  Cardinality({b \in BookingsOf(h) : day.start <= b.start /\ b.start < day.end})

Full(e, count) == e.cap # None /\ count >= e.cap

InPolicy(e, t) == clock + e.notice <= t /\ t <= clock + e.horizon * Day

-----------------------------------------------------------------------------
(* The listing. *)

\* A date override replaces the day, possibly by nothing.
DayWindows(row, date) ==
  IF date \in DOMAIN row.overrides THEN row.overrides[date] ELSE row.weekly[date % Week]

\* The schedule over the range and a day on each side of it.
OpenWindows(row, range) ==
  LET dates == LocalDate(row.zone, range.start - Day) .. LocalDate(row.zone, range.end + Day)
      resolved(d, w) == [start |-> LocalTimeToInstant(row.zone, d, w[1]),
                         end |-> LocalTimeToInstant(row.zone, d, w[2])]
      windows == UNION {{resolved(d, w) : w \in DayWindows(row, d)} : d \in dates}
  IN  MergeIntervals({w \in windows : w.start < w.end})

\* A mutant: windows cut at the range, as they once were.
Clipped(row, range) == IntersectIntervals(OpenWindows(row, range), {range})

\* Windows keep their own ends: neither the range nor anything busy cuts them.
FreeIntervals(row, range) == OpenWindows(row, range)

\* The grid starts at the window's start, snapped up to a bucket.
Candidates(e, w) ==
  LET anchor == ((w.start + Bucket - 1) \div Bucket) * Bucket
      step == IF e.interval = None THEN e.dur ELSE e.interval
      grid == {anchor + k * step : k \in 0 .. ((w.end - w.start) \div step)}
  IN  {t \in grid : Within(Footprint(e, t), w)}

\* A mutant: busy time is read for the range alone.
RangeAlone(e, range) == range

\* All that a candidate which starts in the range can occupy.
BusyRange(e, range) == [start |-> range.start - e.before, end |-> range.end + e.dur + e.after]

\* The filters a candidate passes after the grid, for one host.
Takes(h, e, range) ==
  LET busy == Busy(h, BusyRange(e, range))
  IN  {t \in range.start .. (range.end - 1) :
         /\ InPolicy(e, t)
         /\ ~Full(e, CountListed(h, LocalDate(hours[h].zone, t), range))
         /\ Clear(Footprint(e, t), busy)}

\* Hosts without an availability row are dropped from the listing.
Listed(e) == {h \in e.roster : hours[h] # None}

\* A collective grids the time its hosts share, and needs all of them; the
\* others grid each host.
ComputeSlots(e, range) ==
  LET free == [h \in Listed(e) |-> FreeIntervals(hours[h], range)]
      gridded == [h \in Listed(e) |-> IF e.kind = "collective" THEN IntersectAll(free) ELSE free[h]]
      starts(h) == (UNION {Candidates(e, w) : w \in gridded[h]}) \cap Takes(h, e, range)
      offers == UNION {{<<t, h>> : t \in starts(h)} : h \in Listed(e)}
      slots == {[start |-> o[1], hosts |-> {p[2] : p \in {q \in offers : q[1] = o[1]}}] : o \in offers}
  IN  {s \in slots : e.kind = "collective" => s.hosts = Listed(e)}

-----------------------------------------------------------------------------
(* The commit path. *)

IsSlotStillValid(h, e, t) ==
  LET footprint == Footprint(e, t)
      look == [start |-> footprint.start - Day, end |-> footprint.end + Day]
  IN  /\ t % Bucket = 0
      /\ InPolicy(e, t)
      /\ ~Full(e, CountOnDate(h, LocalDate(hours[h].zone, t)))
      /\ \E w \in FreeIntervals(hours[h], look) : Within(footprint, w)
      /\ Clear(footprint, Busy(h, footprint))

\* prepareBooking: a collective takes its whole roster or nothing, the others
\* one host (which one a rotation picks is not told apart here).
Participants(e, t) ==
  LET valid == {h \in e.roster : hours[h] # None /\ IsSlotStillValid(h, e, t)}
  IN  IF e.kind = "collective" THEN {e.roster} \cap {valid} ELSE {{h} : h \in valid}

\* The batch: every bucket of every participant is still unlocked.
Accepted(e, t) ==
  {H \in Participants(e, t) : \A h \in H : IntervalToBuckets(Footprint(e, t)) \cap Locks(h) = {}}

Book(e, t) ==
  /\ Cardinality(booked) < MaxBookings
  /\ \E H \in Accepted(e, t) :
       booked' = booked \cup {[event |-> e, start |-> t, hosts |-> H]}
  /\ UNCHANGED <<hours, outside, clock>>

Pass == Tick /\ UNCHANGED <<hours, outside, booked>>

SlotsNext ==
  \/ \E e \in EventTypes, t \in Starts : Book(e, t)
  \/ Pass

Spec == SlotsInit /\ [][SlotsNext]_slotVars

-----------------------------------------------------------------------------
(* Properties. *)

\* The range holds the whole local day of t, for every listed host.
WholeDay(e, t, range) ==
  \A h \in Listed(e) :
    DaysOnce(hours[h].zone) /\ Within(DayRange(hours[h].zone, LocalDate(hours[h].zone, t)), range)

\* A slot is never offered that a click would find refused: with nothing
\* changed in between, each host a slot is listed for passes the re-check and
\* the batch finds its buckets free. Outside the promise: an event type with a
\* daily cap on a day the range holds in part (perDayCounts sees only bookings
\* of the range) or where a date comes twice, and a collective with a host that
\* has no availability row.
ListedCanBeBooked ==
  \A e \in EventTypes : (e.kind # "collective" \/ Listed(e) = e.roster) =>
    LET promised(range) == {s \in ComputeSlots(e, range) : e.cap = None \/ WholeDay(e, s.start, range)}
    IN  \A slot \in UNION {promised(range) : range \in Ranges} :
          slot.hosts \subseteq UNION Accepted(e, slot.start)

\* What a listing of the wider range knows to be one window, begun before the
\* first date that a listing of the narrower one looks at.
BeganEarlier(e, narrow, wide) ==
  UNION {{w \in FreeIntervals(hours[h], wide) :
            LocalDate(hours[h].zone, w.start) < LocalDate(hours[h].zone, narrow.start - Day)} :
         h \in Listed(e)}

\* A meeting at t, with its buffer, is over on a date that a listing of the
\* narrower range looks at.
EndsInSight(e, t, narrow) ==
  \A h \in Listed(e) :
    LocalDate(hours[h].zone, Footprint(e, t).end - 1) <= LocalDate(hours[h].zone, narrow.end + Day)

\* Two guests who look at ranges that overlap are shown the same times, with
\* the same hosts, where they overlap: a month page, a week over REST and a
\* day over MCP never advertise different grids. Outside: time open without a
\* break since before the day a listing looks back, meetings so long that they
\* end after the day it looks ahead (24 hours and 12 more of buffer are legal),
\* capped event types on days the narrower range holds in part, and clocks on
\* which a date comes twice.
ListingsAgree ==
  \A e \in EventTypes : (\A h \in Listed(e) : DaysOnce(hours[h].zone)) =>
    LET listing == [range \in Ranges |-> ComputeSlots(e, range)]
    IN  \A narrow \in Ranges, wide \in Ranges :
          Within(narrow, wide) =>
            LET earlier == BeganEarlier(e, narrow, wide)
                shared(slots) ==
                  {s \in slots :
                     /\ narrow.start <= s.start /\ s.start < narrow.end
                     /\ \A w \in earlier : ~(w.start <= s.start /\ s.start < w.end)
                     /\ EndsInSight(e, s.start, narrow)
                     /\ e.cap = None \/ WholeDay(e, s.start, narrow)}
            IN  shared(listing[narrow]) = shared(listing[wide])

\* Every wall clock of every day resolves to the first instant at which the
\* host's clock shows that time or a later one: the transition when the time
\* is skipped, its first occurrence when it happens twice.
WallClockResolved ==
  \A zone \in {hours[h].zone : h \in {g \in Hosts : hours[g] # None}} :
    \A date \in {LocalDate(zone, t) : t \in Starts}, time \in 0 .. (Day - 1) :
      LET target == date * Day + time
          instant == LocalTimeToInstant(zone, date, time)
      IN  /\ WallClock(zone, instant) >= target
          /\ \A t \in (target - 2 * Day) .. (instant - 1) : WallClock(zone, t) < target
================================================================================
