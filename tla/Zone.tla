--------------------------------- MODULE Zone ---------------------------------
(***************************************************************************)
(* core/time/zone.ts: which instant is a wall-clock time, in a zone whose  *)
(* offset changes once. Instants and wall clocks are counted in minutes of *)
(* the model, Day of them to a day; a wall clock is the number a reader    *)
(* would write down for it as if it were UTC. Rules of real zones change   *)
(* months apart, so one change is all that a resolution ever meets.        *)
(***************************************************************************)
EXTENDS Integers, FiniteSets, FiniteSetsExt

CONSTANT Day  \* minutes in a day

ASSUME DayAssumption == Day \in Nat \ {0}

\* An IANA zone around its next change: the offset before it and from it on.
ZoneRow == [before: (-Day) .. Day, after: (-Day) .. Day, at: Int]

Offset(zone, t) == IF t < zone.at THEN zone.before ELSE zone.after
WallClock(zone, t) == t + Offset(zone, t)
LocalDate(zone, t) == WallClock(zone, t) \div Day

\* Bisection for the minute at which the offset stops being that of lo.
FindTransition(zone, lo, hi) ==
  LET search[span \in Int \X Int] ==
        LET low == span[1]
            high == span[2]
            mid == low + (high - low) \div 2
        IN  IF high - low <= 1 THEN high
            ELSE search[IF Offset(zone, mid) = Offset(zone, lo) THEN <<mid, high>> ELSE <<low, mid>>]
  IN  search[<<lo, hi>>]

\* The offsets a day before and after are tried; a guess counts only if it
\* reads back as the wall clock asked for.
Guesses(zone, target) ==
  {target - Offset(zone, target - Day), target - Offset(zone, target + Day)}

\* A mutant: the wall clock is trusted to exist.
Unverified(zone, target) == Min(Guesses(zone, target))

\* The first of two occurrences; the transition when there is none.
WallClockToInstant(zone, target) ==
  LET valid == {c \in Guesses(zone, target) : WallClock(zone, c) = target}
  IN  IF valid # {} THEN Min(valid)
      ELSE FindTransition(zone, Min(Guesses(zone, target)), Max(Guesses(zone, target)))

\* A time of day past midnight rolls into the next date.
LocalTimeToInstant(zone, date, time) == WallClockToInstant(zone, date * Day + time)

DayRange(zone, date) ==
  [start |-> LocalTimeToInstant(zone, date, 0), end |-> LocalTimeToInstant(zone, date + 1, 0)]

\* Clocks are not turned back from after midnight to before it, so that no local
\* date comes twice. No zone has done so since 2011 (Newfoundland); at midnight
\* itself, as in Cairo, the repeated hour ends the date.
DaysOnce(zone) == LocalDate(zone, zone.at - 1) <= LocalDate(zone, zone.at)
===============================================================================
