--------------------------------- MODULE Pages ---------------------------------
(***************************************************************************)
(* The pages of one event type, as a visitor walks through them: a month   *)
(* of the owner's, a day of her own, the form, the answer; and the listing *)
(* an agent asks of REST or MCP. A page is a URL: the server keeps nothing *)
(* of the visit, so that what is shown is as old as the page.              *)
(*                                                                         *)
(* Slots and Coordinator say what is bookable. Here it is a set of starts, *)
(* of which each page computes its part, from the dates of its own zone.   *)
(***************************************************************************)
EXTENDS Zone, Sequences

CONSTANTS
  Zones,        \* zones of owners and visitors
  MonthStarts,  \* first dates of consecutive months
  ShortMonth,   \* the 28 of clampMonth
  Horizons,     \* maxHorizonDays
  Starts,       \* bound: starts the schedule yields
  MaxStarts,    \* bound: how many of them are free at once
  LastTick,     \* bound: the clock
  Spans,        \* what an agent may ask for, in minutes
  DefaultSpan,  \* of a listing whose end is not given
  MaxSpan,      \* MAX_SLOT_RANGE_MS
  Limits,       \* limit of get_available_slots
  Unknown       \* a query parameter that is absent or no IANA zone

\* The padding by a day is for zones at most a day apart. The months follow one
\* another, and go on to the end of every horizon.
ASSUME PagesAssumption ==
  /\ Zones \subseteq ZoneRow /\ Unknown \notin Zones
  /\ \A z, y \in Zones : \A a \in {z.before, z.after}, b \in {y.before, y.after} : a - b <= Day
  /\ Starts \subseteq Int /\ LastTick \in Nat /\ Horizons \subseteq Nat
  /\ Spans \subseteq Nat /\ DefaultSpan \in Nat /\ Limits \subseteq Nat
  /\ ShortMonth \in Nat \ {0} /\ MonthStarts \in Seq(Int) \ {<<>>}
  /\ \A m \in 1..Len(MonthStarts) : \A n \in m..Len(MonthStarts) :
       MonthStarts[n] - MonthStarts[m] >= ShortMonth * (n - m)
  /\ \A z \in Zones : \A t \in Starts \cup 0..LastTick : MonthStarts[1] <= LocalDate(z, t)
  /\ \A z \in Zones, t \in 0..LastTick, horizon \in Horizons, m \in 1..Len(MonthStarts) :
       MonthStarts[m] <= LocalDate(z, t) => m + (horizon + ShortMonth - 1) \div ShortMonth < Len(MonthStarts)

VARIABLES
  site,    \* the event type: its owner's zone, its horizon, what is free, the time
  visitor  \* the page a visitor has before her

pageVars == <<site, visitor>>

Away == [at |-> "away", zone |-> Unknown, month |-> 0, date |-> 0, start |-> 0, shown |-> {}]

PagesInit == site = Unknown /\ visitor = Away

Published == site # Unknown

Publish ==
  /\ ~Published
  /\ \E zone \in Zones, horizon \in Horizons, now \in 0..LastTick,
        free \in {S \in SUBSET Starts : Cardinality(S) <= MaxStarts} :
       site' = [zone |-> zone, horizon |-> horizon, now |-> now, free |-> free]
  /\ UNCHANGED visitor

-----------------------------------------------------------------------------
(* What is bookable, and the part of it that a range of instants holds. *)

OnOffer == {t \in site.free : site.now <= t /\ t <= site.now + site.horizon * Day}

ForEventType(range) == {t \in OnOffer : range.start <= t /\ t < range.end}

OnDate(times, zone, date) == {t \in times : LocalDate(zone, t) = date}

-----------------------------------------------------------------------------
(* The booking page. *)

MonthOf(date) == Max({m \in 1..Len(MonthStarts) : MonthStarts[m] <= date})
MonthDays(m) == MonthStarts[m] .. (MonthStarts[m + 1] - 1)

CurrentMonth == MonthOf(LocalDate(site.zone, site.now))

\* ceil(horizon / 28) months on, at most.
ClampMonth(m) ==
  LET last == CurrentMonth + (site.horizon + ShortMonth - 1) \div ShortMonth
  IN  Max({CurrentMonth, Min({m, last})})

MonthRange(m) ==
  [start |-> LocalTimeToInstant(site.zone, MonthStarts[m], 0),
   end |-> LocalTimeToInstant(site.zone, MonthStarts[m + 1], 0)]

\* A mutant: the owner's month as it is.
Bare(range) == range

\* The visitor's dates are not the owner's.
Padded(range) == [start |-> range.start - Day, end |-> range.end + Day]

MonthSlots(m) == ForEventType(Padded(MonthRange(m)))

\* The days of the grid that are links.
DaysWithSlots(m, zone) == {LocalDate(zone, t) : t \in MonthSlots(m)} \cap MonthDays(m)

\* The day's list is cut out of one month.
DaySlots(m, date, zone) == OnDate(MonthSlots(ClampMonth(m)), zone, date)

ResolveGuestTimezone(param, cf) ==
  IF param # Unknown THEN param ELSE IF cf # Unknown THEN cf ELSE site.zone

ShowMonth(zone, m) ==
  visitor' = [visitor EXCEPT !.at = "month", !.zone = zone, !.month = ClampMonth(m), !.shown = {}]

ShowMonthAndDay(zone, m, date) ==
  visitor' = [visitor EXCEPT !.at = "day", !.zone = zone, !.month = ClampMonth(m),
                !.date = date, !.shown = DaySlots(m, date, zone)]

\* A date without a month decides the month.
ShowDay(zone, date) == ShowMonthAndDay(zone, MonthOf(date), date)

\* From a link that may carry a zone. Cloudflare may know one, by where the
\* request comes from.
Arrive ==
  /\ Published /\ visitor.at = "away"
  /\ \E param, cf \in Zones \cup {Unknown} :
       visitor' = [Away EXCEPT !.at = "month", !.month = CurrentMonth,
                     !.zone = ResolveGuestTimezone(param, cf)]
  /\ UNCHANGED site

\* The two arrows of the grid. The month is clamped as of then.
TurnMonth ==
  /\ visitor.at \in {"month", "day"}
  /\ \E delta \in {-1, 1} : ShowMonth(visitor.zone, visitor.month + delta)
  /\ UNCHANGED site

\* The picker of zones posts the page's month with its date, or the form's start.
ChangeZone ==
  /\ \E zone \in Zones :
       \/ visitor.at = "month" /\ ShowMonth(zone, visitor.month)
       \/ visitor.at = "day" /\ ShowMonthAndDay(zone, visitor.month, visitor.date)
       \/ visitor.at = "confirm" /\ visitor' = [visitor EXCEPT !.zone = zone]
  /\ UNCHANGED site

PickDay ==
  /\ visitor.at \in {"month", "day"}
  /\ \E date \in DaysWithSlots(visitor.month, visitor.zone) : ShowDay(visitor.zone, date)
  /\ UNCHANGED site

\* The confirm form, for a start that was free when the page was made.
PickTime ==
  /\ visitor.at = "day"
  /\ \E t \in visitor.shown :
       visitor' = [visitor EXCEPT !.at = "confirm", !.start = t, !.shown = {}]
  /\ UNCHANGED site

\* The form's link back has no zone in it.
Back ==
  /\ visitor.at = "confirm"
  /\ \E cf \in Zones \cup {Unknown} :
       ShowDay(ResolveGuestTimezone(Unknown, cf), LocalDate(visitor.zone, visitor.start))
  /\ UNCHANGED site

Taken(t) == site' = [site EXCEPT !.free = @ \ {t}]

\* A form with errors, and a visitor who is one too many for the rate limiter,
\* leave everything as it is: the form carries its start and its zone with it.
Confirm ==
  /\ visitor.at = "confirm"
  /\ IF visitor.start \in OnOffer
     THEN Taken(visitor.start) /\ visitor' = [visitor EXCEPT !.at = "booked"]
     ELSE UNCHANGED site /\ visitor' = [visitor EXCEPT !.at = "taken"]

\* "Here is other free time on that day", in the zone of the form.
SlotTakenPage ==
  /\ visitor.at = "taken"
  /\ ShowDay(visitor.zone, LocalDate(visitor.zone, visitor.start))
  /\ UNCHANGED site

-----------------------------------------------------------------------------
(* The manage page of a booking, which keeps the zone it was made in. *)

HostDayRange(date) == DayRange(site.zone, date)

PickerSlots(date, zone) == OnDate(ForEventType(Padded(HostDayRange(date))), zone, date)

\* Her own day first, and then any date she asks for. The move is Lifecycle's.
Manage ==
  /\ visitor.at \in {"booked", "picker"}
  /\ \E date \in {LocalDate(visitor.zone, visitor.start)} \cup MonthDays(CurrentMonth) :
       visitor' = [visitor EXCEPT !.at = "picker", !.month = ClampMonth(MonthOf(date)),
                     !.shown = PickerSlots(date, visitor.zone)]
  /\ UNCHANGED site

-----------------------------------------------------------------------------
(* REST and MCP, for whoever owns the event type or is on its team. *)

\* Either end may be left out. A range may be refused.
Froms == {site.now} \cup Starts
AnySpan == Spans \cup {DefaultSpan}

RangeAsked(from, span) == [start |-> from, end |-> from + span]
Allowed(range) == range.start < range.end /\ range.end - range.start <= MaxSpan

\* A mutant: the limit meets a list in the wrong order.
LastOf(times, limit) == {t \in times : Cardinality({s \in times : t < s}) < limit}

FirstOf(times, limit) == {t \in times : Cardinality({s \in times : s < t}) < limit}

\* GET /slots gives the whole of it.
ListSlots(from, span) ==
  /\ visitor.at = "away" /\ Allowed(RangeAsked(from, span))
  /\ visitor' = [Away EXCEPT !.at = "rest", !.shown = ForEventType(RangeAsked(from, span))]
  /\ UNCHANGED site

GetAvailableSlots(from, span, limit) ==
  /\ visitor.at = "away" /\ Allowed(RangeAsked(from, span))
  /\ visitor' = [Away EXCEPT !.at = "mcp",
                   !.shown = FirstOf(ForEventType(RangeAsked(from, span)), limit)]
  /\ UNCHANGED site

\* An answer, and no page.
Try(t) == (IF t \in OnOffer THEN Taken(t) ELSE UNCHANGED site) /\ visitor' = Away

PostBooking == visitor.at = "rest" /\ \E t \in visitor.shown : Try(t)
CreateBooking == visitor.at = "mcp" /\ \E t \in visitor.shown : Try(t)

-----------------------------------------------------------------------------
Leave == visitor.at # "away" /\ visitor' = Away /\ UNCHANGED site

\* Others book, and the owner's hours change.
OthersBook == Published /\ (\E t \in site.free : Taken(t)) /\ UNCHANGED visitor

Tick ==
  /\ Published /\ site.now < LastTick
  /\ site' = [site EXCEPT !.now = @ + 1]
  /\ UNCHANGED visitor

PagesNext ==
  \/ Publish
  \/ Arrive \/ TurnMonth \/ ChangeZone \/ PickDay
  \/ PickTime \/ Back \/ Confirm \/ SlotTakenPage \/ Manage
  \/ Published /\ \E from \in Froms, span \in AnySpan :
       ListSlots(from, span) \/ \E limit \in Limits : GetAvailableSlots(from, span, limit)
  \/ PostBooking \/ CreateBooking
  \/ Leave \/ OthersBook \/ Tick

-----------------------------------------------------------------------------
(* Properties. *)

\* On a date of the visitor's, the grid has a link iff there is something to
\* book, and the day's page and the picker list just that.
Agrees(date, zone, month) ==
  LET there == OnDate(OnOffer, zone, date)
  IN  /\ date \in MonthDays(month) => (date \in DaysWithSlots(month, zone) <=> there # {})
      /\ DaySlots(MonthOf(date), date, zone) = there
      /\ PickerSlots(date, zone) = there

\* The link back from the form forgets the zone.
ZonesAhead == IF visitor.at = "confirm" THEN Zones ELSE {visitor.zone}

\* "The calendar can never show a day as available that then turns out to have
\* nothing": wherever a visit has come to, in whatever zone and month, each
\* date of the grid before her agrees with the pages behind it. So does the date
\* of the time she chose, to which she may go back from the form, is sent when
\* the time is gone, and where the picker of her booking begins.
PagesAgree ==
  /\ visitor.at \in {"month", "day", "picker"} =>
       \A date \in MonthDays(visitor.month) : Agrees(date, visitor.zone, visitor.month)
  /\ visitor.at \in {"confirm", "taken", "booked", "picker"} =>
       \A zone \in ZonesAhead : Agrees(LocalDate(visitor.zone, visitor.start), zone, visitor.month)

\* The dates of a zone that have starts and that the range holds from midnight
\* to midnight.
DatesHeld(zone, range) ==
  {date \in {LocalDate(zone, t) : t \in Starts} :
     range.start <= DayRange(zone, date).start /\ DayRange(zone, date).end <= range.end}

AsOnThePage(times, zone, date) == OnDate(times, zone, date) = DaySlots(MonthOf(date), date, zone)

\* An agent, who reads a listing as dates of a zone, is told of each date just
\* what a visitor of the page finds there: by REST for the dates that the range
\* holds whole, by MCP for those before the date at which its limit cut the
\* list off. Outside: zones in which a date comes twice.
AnswersAgree ==
  [][Published /\ visitor.at = "away" /\ visitor'.at \in {"rest", "mcp"} =>
       \A from \in Froms, span \in AnySpan, zone \in {z \in Zones : DaysOnce(z)} :
         \A date \in DatesHeld(zone, RangeAsked(from, span)) :
           /\ ListSlots(from, span) => AsOnThePage(visitor'.shown, zone, date)
           /\ \A limit \in Limits :
                /\ GetAvailableSlots(from, span, limit)
                /\ \E t \in visitor'.shown : date < LocalDate(zone, t)
                => AsOnThePage(visitor'.shown, zone, date)]_pageVars
================================================================================
