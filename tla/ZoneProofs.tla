------------------------------- MODULE ZoneProofs -------------------------------
(***************************************************************************)
(* For any zone with one change: what a wall clock resolves to, and how    *)
(* far the days of two zones lie apart. The bisection and the recursion    *)
(* over a set of intervals are functions that TLA+ defines by an equation; *)
(* that one solves it is shown first, and then what it must be, by the     *)
(* least argument at which it would not.                                   *)
(***************************************************************************)
EXTENDS Zone, WellFoundedInduction, TLAPS

\* Every set of numbers has a least.
LEMMA LeastOf ==
  ASSUME NEW S \in SUBSET Nat, S # {}
  PROVE  \E t \in S : \A u \in S : t <= u
<1>1. PICK t \in S : \A u \in S : ~(<<u, t>> \in OpToRel(<, Nat))
  BY NatLessThanWellFounded, WFMin
<1>2. \A u \in S : ~(u < t)
  BY <1>1 DEF OpToRel
<1> QED
  BY <1>2

\* The bisection ends at the change, wherever it starts on both sides of it.
LEMMA TransitionFound ==
  ASSUME NEW zone \in ZoneRow, NEW lo \in Int, NEW hi \in Int, lo < zone.at, zone.at <= hi, zone.before # zone.after
  PROVE  FindTransition(zone, lo, hi) = zone.at
<1> DEFINE Half(span) == LET low == span[1]
                             high == span[2]
                             mid == low + (high - low) \div 2
                         IN IF Offset(zone, mid) = Offset(zone, lo) THEN <<mid, high>> ELSE <<low, mid>>
           Body(s, span) == IF span[2] - span[1] <= 1 THEN span[2] ELSE s[Half(span)]
           found == [span \in Int \X Int |->
                      IF span[2] - span[1] <= 1 \/ span[2] <= zone.at THEN span[2]
                      ELSE IF zone.at <= span[1] THEN span[1] + 1 ELSE zone.at]
           search == CHOOSE s : s = [span \in Int \X Int |-> Body(s, span)]
<1>0. zone.at \in Int /\ zone.before \in Int /\ zone.after \in Int
  BY DayAssumption DEF ZoneRow
<1>1. ASSUME NEW low \in Int, NEW high \in Int, high - low > 1
      PROVE  \E mid \in Int : /\ low < mid /\ mid < high
                              /\ Half(<<low, high>>) = IF mid < zone.at THEN <<mid, high>> ELSE <<low, mid>>
  <2>1. low + (high - low) \div 2 \in Int /\ low < low + (high - low) \div 2 /\ low + (high - low) \div 2 < high
    BY <1>1
  <2>2. Offset(zone, low + (high - low) \div 2) = Offset(zone, lo) <=> low + (high - low) \div 2 < zone.at
    BY <1>0, <2>1 DEF Offset
  <2> QED
    BY <2>1, <2>2
<1> HIDE DEF Half
<1>2. ASSUME NEW span \in Int \X Int
      PROVE  found[span] = Body(found, span)
  <2>1. CASE span[2] - span[1] <= 1
    BY <2>1
  <2>2. CASE span[2] - span[1] > 1
    <3>0. PICK low \in Int, high \in Int : span = <<low, high>> /\ low = span[1] /\ high = span[2]
      OBVIOUS
    <3>1. PICK mid \in Int : /\ span[1] < mid /\ mid < span[2]
                              /\ Half(span) = IF mid < zone.at THEN <<mid, span[2]>> ELSE <<span[1], mid>>
      BY <1>1, <2>2, <3>0
    <3>2. Half(span) \in Int \X Int 
      BY <3>1
    <3> QED
      BY <1>0, <2>2, <3>1, <3>2
  <2> QED
    BY <2>1, <2>2
<1>3. found = [span \in Int \X Int |-> Body(found, span)]
  BY <1>2
<1> HIDE DEF found
<1>4. search = [span \in Int \X Int |-> Body(search, span)]
  BY <1>3
<1>5. FindTransition(zone, lo, hi) = search[<<lo, hi>>]
  BY DEF FindTransition, Half
<1> HIDE DEF search
<1>6. ASSUME NEW low \in Int, NEW high \in Int
      PROVE  search[<<low, high>>] = IF high - low <= 1 THEN high ELSE search[Half(<<low, high>>)]
  BY <1>4
<1> DEFINE Missed == {n \in Nat : \E low, high \in Int :
                        n = high - low /\ low < zone.at /\ zone.at <= high /\ search[<<low, high>>] # zone.at}
<1>7. Missed = {}
  <2> SUFFICES ASSUME Missed # {}
               PROVE  FALSE
    OBVIOUS
  <2>1. PICK n \in Missed : \A m \in Missed : n <= m
    BY LeastOf
  <2>2. PICK low \in Int, high \in Int :
          n = high - low /\ low < zone.at /\ zone.at <= high /\ search[<<low, high>>] # zone.at
    BY <2>1
  <2>3. ASSUME NEW x \in Int, NEW y \in Int, x < zone.at, zone.at <= y, y - x < n
        PROVE  search[<<x, y>>] = zone.at
    <3> SUFFICES ASSUME search[<<x, y>>] # zone.at
                 PROVE  FALSE
      OBVIOUS
    <3>0. y - x \in Nat /\ n \in Nat
      BY <1>0, <2>1, <2>3
    <3>1. y - x \in Missed
      <4>1. \E low1, high1 \in Int : y - x = high1 - low1 /\ low1 < zone.at /\ zone.at <= high1 /\ search[<<low1, high1>>] # zone.at
        BY <2>3
      <4> QED
        BY <3>0, <4>1
    <3> HIDE DEF Missed
    <3> QED
      BY <2>1, <2>3, <3>0, <3>1
  <2> HIDE DEF Missed
  <2>4. high - low > 1
    BY <1>0, <1>6, <2>2
  <2>5. PICK mid \in Int : /\ low < mid /\ mid < high
                           /\ Half(<<low, high>>) = IF mid < zone.at THEN <<mid, high>> ELSE <<low, mid>>
    BY <1>1, <2>4
  <2>6. search[<<low, high>>] = search[IF mid < zone.at THEN <<mid, high>> ELSE <<low, mid>>]
    BY <1>6, <2>4, <2>5
  <2>7. search[<<mid, high>>] = zone.at \/ ~(mid < zone.at)
    BY <2>2, <2>3, <2>5
  <2>8. search[<<low, mid>>] = zone.at \/ mid < zone.at
    BY <1>0, <2>2, <2>3, <2>5
  <2> QED
    BY <2>2, <2>6, <2>7, <2>8
<1> QED
  <2>1. hi - lo \in Nat
    BY <1>0
  <2> QED
    BY <1>5, <1>7, <2>1

LEMMA TwoNumbers ==
  ASSUME NEW a \in Int, NEW b \in Int
  PROVE  Min({a, b}) = (IF a <= b THEN a ELSE b) /\ Max({a, b}) = (IF a <= b THEN b ELSE a)
  BY DEF Min, Max

LEMMA OneNumber ==
  ASSUME NEW a \in Int
  PROVE  Min({a}) = a /\ Max({a}) = a
  BY DEF Min, Max

\* r is the first instant at which a clock on the wall shows the target or more.
FirstReached(zone, target, r) ==
  r \in Int /\ WallClock(zone, r) >= target /\ \A t \in Int : t < r => WallClock(zone, t) < target

\* wallClockToInstant: through repeated hours and across skipped ones.
LEMMA WallClockFound ==
  ASSUME NEW zone \in ZoneRow, NEW target \in Int
  PROVE  FirstReached(zone, target, WallClockToInstant(zone, target))
<1> DEFINE early == target - Offset(zone, target - Day)
           late == target - Offset(zone, target + Day)
           valid == {c \in Guesses(zone, target) : WallClock(zone, c) = target}
           r == WallClockToInstant(zone, target)
<1>1. /\ zone.at \in Int /\ zone.before \in Int /\ zone.after \in Int /\ Day \in Int
      /\ zone.before <= Day /\ -Day <= zone.before /\ zone.after <= Day /\ -Day <= zone.after
  BY DayAssumption DEF ZoneRow
<1>2. early \in Int /\ late \in Int /\ Guesses(zone, target) = {early, late}
  BY <1>1 DEF Offset, Guesses
<1>3. valid # {} => r = Min(valid)
  BY DEF WallClockToInstant
<1>4. valid = {} => r = FindTransition(zone, Min({early, late}), Max({early, late}))
  BY <1>2 DEF WallClockToInstant
<1>5. CASE target + Day < zone.at
  <2>1. early = target - zone.before /\ late = early
    BY <1>1, <1>5 DEF Offset
  <2>2. WallClock(zone, early) = target
    BY <1>1, <1>5, <2>1 DEF Offset, WallClock
  <2>3. valid = {early}
    BY <1>2, <2>1, <2>2
  <2>4. r = early
    BY <1>2, <1>3, <2>3, OneNumber
  <2> QED
    BY <1>1, <1>2, <1>5, <2>1, <2>2, <2>4 DEF FirstReached, Offset, WallClock
<1>6. CASE zone.at <= target - Day
  <2>1. early = target - zone.after /\ late = early
    BY <1>1, <1>6 DEF Offset
  <2>2. WallClock(zone, early) = target
    BY <1>1, <1>6, <2>1 DEF Offset, WallClock
  <2>3. valid = {early}
    BY <1>2, <2>1, <2>2
  <2>4. r = early
    BY <1>2, <1>3, <2>3, OneNumber
  <2> QED
    BY <1>1, <1>2, <1>6, <2>1, <2>2, <2>4 DEF FirstReached, Offset, WallClock
<1>7. CASE target - Day < zone.at /\ zone.at <= target + Day
  <2>1. early = target - zone.before /\ late = target - zone.after
    BY <1>1, <1>7 DEF Offset
  <2>2. CASE early < zone.at
    <3>1. WallClock(zone, early) = target
      BY <1>1, <2>1, <2>2 DEF Offset, WallClock
    <3>2. late < zone.at => (late = early \/ late \notin valid)
      BY <1>1, <2>1 DEF Offset, WallClock
    <3>3. valid = {early} \/ (valid = {early, late} /\ zone.at <= late)
      BY <1>1, <1>2, <3>1, <3>2
    <3>4. r = early
      BY <1>1, <1>2, <1>3, <2>2, <3>3, OneNumber, TwoNumbers
    <3> QED
      BY <1>1, <1>2, <2>1, <2>2, <3>1, <3>4 DEF FirstReached, Offset, WallClock
  <2>3. CASE zone.at <= early /\ zone.at <= late
    <3>1. WallClock(zone, late) = target
      BY <1>1, <2>1, <2>3 DEF Offset, WallClock
    <3>2. early = late \/ early \notin valid
      BY <1>1, <2>1, <2>3 DEF Offset, WallClock
    <3>3. valid = {late}
      BY <1>2, <3>1, <3>2
    <3>4. r = late
      BY <1>2, <1>3, <3>3, OneNumber
    <3> QED
      BY <1>1, <1>2, <2>1, <2>3, <3>1, <3>4 DEF FirstReached, Offset, WallClock
  <2>4. CASE zone.at <= early /\ late < zone.at
    <3>1. early \notin valid /\ late \notin valid
      BY <1>1, <2>1, <2>4 DEF Offset, WallClock
    <3>2. valid = {}
      BY <1>2, <3>1
    <3>3. r = FindTransition(zone, late, early)
      BY <1>1, <1>2, <1>4, <2>4, <3>2, TwoNumbers
    <3>4. r = zone.at
      BY <1>1, <1>2, <2>1, <2>4, <3>3, TransitionFound
    <3> QED
      BY <1>1, <1>2, <2>1, <2>4, <3>4 DEF FirstReached, Offset, WallClock
  <2> QED
    BY <1>1, <1>2, <2>2, <2>3, <2>4
<1> QED
  BY <1>1, <1>5, <1>6, <1>7
-----------------------------------------------------------------------------
(* The days of two zones. *)

\* No two offsets of the two are more than a day apart.
DayApart(y, z) == \A a \in {y.before, y.after}, b \in {z.before, z.after} : a - b <= Day /\ b - a <= Day

LEMMA OffsetsAreClose ==
  ASSUME NEW y \in ZoneRow, NEW z \in ZoneRow, DayApart(y, z), NEW s \in Int, NEW t \in Int
  PROVE  Offset(y, s) \in Int /\ Offset(z, t) \in Int /\ Offset(y, s) - Offset(z, t) <= Day /\ Offset(z, t) - Offset(y, s) <= Day
  BY DayAssumption DEF ZoneRow, DayApart, Offset

\* On a date of z, or after it, a day after the date of y has begun; before a
\* date of z, a day before the date of y.
LEMMA PaddingCovers ==
  ASSUME NEW y \in ZoneRow, NEW z \in ZoneRow, DayApart(y, z), NEW date \in Int, NEW t \in Int
  PROVE  /\ LocalTimeToInstant(y, date, 0) \in Int
         /\ date <= LocalDate(z, t) => LocalTimeToInstant(y, date, 0) - Day <= t
         /\ LocalDate(z, t) < date => t < LocalTimeToInstant(y, date, 0) + Day
<1> PICK r : r = LocalTimeToInstant(y, date, 0)
  OBVIOUS
<1>1. date * Day \in Int /\ Day \in Int
  BY DayAssumption
<1>2. FirstReached(y, date * Day, r)
  BY <1>1, WallClockFound DEF LocalTimeToInstant
<1>3. r \in Int /\ r + Offset(y, r) >= date * Day /\ \A s \in Int : s < r => s + Offset(y, s) < date * Day
  BY <1>2 DEF FirstReached, WallClock
<1>4. Offset(z, t) \in Int /\ (date <= LocalDate(z, t) <=> date * Day <= t + Offset(z, t))
  BY DayAssumption, OffsetsAreClose DEF LocalDate, WallClock
<1>5. date <= LocalDate(z, t) => r - Day <= t
  <2> SUFFICES ASSUME date * Day <= t + Offset(z, t), t < r - Day
               PROVE  FALSE
    BY <1>1, <1>3, <1>4
  <2>1. t + Day \in Int /\ t + Day < r
    BY <1>1, <1>3
  <2>2. t + Day + Offset(y, t + Day) < date * Day
    BY <1>3, <2>1
  <2>3. Offset(y, t + Day) \in Int /\ Offset(z, t) - Offset(y, t + Day) <= Day
    BY <2>1, OffsetsAreClose
  <2> QED
    BY <1>1, <1>4, <2>2, <2>3
<1>6. LocalDate(z, t) < date => t < r + Day
  <2>1. LocalDate(z, t) \in Int
    BY <1>4, DayAssumption DEF LocalDate, WallClock
  <2>2. Offset(y, r) \in Int /\ Offset(y, r) - Offset(z, t) <= Day
    BY <1>3, OffsetsAreClose
  <2> QED
    BY <1>1, <1>3, <1>4, <2>1, <2>2
<1> QED
  BY <1>3, <1>5, <1>6

\* What begins within n days of now begins before a date further off is a day old.
LEMMA HorizonCovers ==
  ASSUME NEW y \in ZoneRow, DayApart(y, y), NEW now \in Int, NEW n \in Nat, NEW date \in Int,
         LocalDate(y, now) + n < date, NEW t \in Int, t <= now + n * Day
  PROVE  t < LocalTimeToInstant(y, date, 0) + Day
<1> PICK r : r = LocalTimeToInstant(y, date, 0)
  OBVIOUS
<1>1. date * Day \in Int /\ Day \in Nat \ {0} /\ n * Day \in Int
  BY DayAssumption
<1>2. FirstReached(y, date * Day, r)
  BY <1>1, WallClockFound DEF LocalTimeToInstant
<1>3. r \in Int /\ r + Offset(y, r) >= date * Day
  BY <1>2 DEF FirstReached, WallClock
<1>4. Offset(y, now) \in Int /\ Offset(y, r) \in Int /\ Offset(y, r) - Offset(y, now) <= Day
  BY <1>3, OffsetsAreClose
<1>5. now + Offset(y, now) + n * Day < date * Day
  <2>1. PICK x \in Int : x = now + Offset(y, now)
    BY <1>4
  <2>2. x \div Day + n < date
    BY <2>1 DEF LocalDate, WallClock
  <2>3. PICK q \in Int : q = x \div Day /\ x < q * Day + Day
    BY <1>1
  <2>4. (q + n + 1) * Day <= date * Day
    BY <1>1, <2>2, <2>3
  <2>5. (q + n + 1) * Day = q * Day + n * Day + Day
    BY <1>1
  <2> QED
    BY <1>1, <2>1, <2>3, <2>4, <2>5
<1> QED
  BY <1>1, <1>3, <1>4, <1>5

-----------------------------------------------------------------------------
(* Dates. *)

LEMMA DateOrder ==
  ASSUME NEW v \in Int, NEW d \in Int
  PROVE  /\ v \div Day \in Int
         /\ d <= v \div Day <=> d * Day <= v
         /\ v \div Day <= d <=> v < d * Day + Day
<1>1. Day \in Nat \ {0}
  BY DayAssumption
<1>2. PICK q \in Int : q = v \div Day /\ q * Day <= v /\ v < q * Day + Day
  BY <1>1
<1>3. d <= q => d * Day <= q * Day
  BY <1>1
<1>4. d > q => q * Day + Day <= d * Day
  <2> SUFFICES ASSUME d > q
               PROVE  q * Day + Day <= d * Day
    OBVIOUS
  <2>1. (q + 1) * Day <= d * Day
    BY <1>1
  <2> QED
    BY <1>1, <2>1
<1>5. q <= d => q * Day <= d * Day
  BY <1>1
<1>6. q > d => d * Day + Day <= q * Day
  <2> SUFFICES ASSUME q > d
               PROVE  d * Day + Day <= q * Day
    OBVIOUS
  <2>1. (d + 1) * Day <= q * Day
    BY <1>1
  <2> QED
    BY <1>1, <2>1
<1>7. PICK a \in Int, b \in Int : a = d * Day /\ b = q * Day
  BY <1>1
<1> QED
  BY <1>1, <1>2, <1>3, <1>4, <1>5, <1>6, <1>7

LEMMA WallIs ==
  ASSUME NEW zone \in ZoneRow, NEW t \in Int
  PROVE  /\ Offset(zone, t) \in Int /\ -Day <= Offset(zone, t) /\ Offset(zone, t) <= Day
         /\ WallClock(zone, t) \in Int /\ WallClock(zone, t) = t + Offset(zone, t)
         /\ LocalDate(zone, t) \in Int
<1>1. Offset(zone, t) \in Int /\ -Day <= Offset(zone, t) /\ Offset(zone, t) <= Day
  BY DayAssumption DEF ZoneRow, Offset
<1> QED
  BY <1>1, DateOrder DEF WallClock, LocalDate

\* An end of a window, and within which bounds.
LEMMA ResolvedIs ==
  ASSUME NEW zone \in ZoneRow, NEW d \in Int, NEW time \in 0..Day
  PROVE  LET r == LocalTimeToInstant(zone, d, time)
         IN  /\ FirstReached(zone, d * Day + time, r)
             /\ d * Day - Day <= r /\ r <= d * Day + 2 * Day
<1>1. PICK target \in Int : target = d * Day + time
  BY DayAssumption
<1>2. PICK r : r = LocalTimeToInstant(zone, d, time)
  OBVIOUS
<1>3. FirstReached(zone, target, r)
  BY <1>1, <1>2, WallClockFound DEF LocalTimeToInstant
<1>4. target - Day <= r
  BY <1>3, WallIs, DayAssumption DEF FirstReached
<1>5. ~(target + Day < r)
  <2>1. target + Day \in Int
    BY DayAssumption
  <2>2. WallClock(zone, target + Day) >= target
    BY <2>1, WallIs, DayAssumption
  <2> QED
    BY <1>3, <2>1, <2>2, WallIs DEF FirstReached
<1>6. r \in Int /\ time \in Int /\ 0 <= time /\ time <= Day /\ Day \in Int
  BY <1>3, DayAssumption DEF FirstReached
<1>7. PICK a \in Int : a = d * Day
  BY DayAssumption
<1> QED
  BY <1>1, <1>2, <1>3, <1>4, <1>5, <1>6, <1>7

\* On clocks that do not turn back over midnight dates follow one another.
LEMMA DatesInOrder ==
  ASSUME NEW zone \in ZoneRow, DaysOnce(zone),
         NEW s \in Int, NEW t \in Int, s <= t
  PROVE  LocalDate(zone, s) <= LocalDate(zone, t)
<1>1. zone.at \in Int /\ zone.at - 1 \in Int
  BY DEF ZoneRow
<1>2. ASSUME NEW u \in Int, NEW v \in Int, u <= v, (u < zone.at) = (v < zone.at)
      PROVE  LocalDate(zone, u) <= LocalDate(zone, v)
  <2>1. Offset(zone, u) = Offset(zone, v)
    BY <1>2 DEF Offset
  <2>2. WallClock(zone, u) <= WallClock(zone, v) /\ WallClock(zone, u) \in Int /\ WallClock(zone, v) \in Int
    BY <1>2, <2>1, WallIs
  <2>3. PICK d \in Int : d = LocalDate(zone, u) /\ d = WallClock(zone, u) \div Day
    BY WallIs DEF LocalDate
  <2>4. d * Day <= WallClock(zone, u)
    BY <2>2, <2>3, DateOrder
  <2>5. d * Day \in Int
    BY DayAssumption
  <2>6. d * Day <= WallClock(zone, v)
    BY <2>2, <2>4, <2>5
  <2> QED
    BY <2>2, <2>3, <2>6, DateOrder DEF LocalDate
<1>3. CASE s < zone.at /\ ~(t < zone.at)
  <2>1. LocalDate(zone, s) <= LocalDate(zone, zone.at - 1)
    BY <1>1, <1>2, <1>3
  <2>2. LocalDate(zone, zone.at) <= LocalDate(zone, t)
    BY <1>1, <1>2, <1>3
  <2> QED
    BY <1>1, <2>1, <2>2, WallIs DEF DaysOnce
<1>4. CASE (s < zone.at) = (t < zone.at)
  BY <1>2, <1>4
<1> QED
  BY <1>1, <1>3, <1>4

\* What lies in a date's range of instants is what the clock shows that date at.
LEMMA DayRangeIs ==
  ASSUME NEW zone \in ZoneRow, DaysOnce(zone),
         NEW date \in Int, NEW t \in Int
  PROVE  /\ DayRange(zone, date) \in [start: Int, end: Int]
         /\ DayRange(zone, date).start <= t /\ t < DayRange(zone, date).end <=> LocalDate(zone, t) = date
<1>1. PICK s \in Int : s = LocalTimeToInstant(zone, date, 0) /\ FirstReached(zone, date * Day + 0, s)
  BY ResolvedIs, DayAssumption DEF FirstReached
<1>2. PICK e \in Int : e = LocalTimeToInstant(zone, date + 1, 0) /\ FirstReached(zone, (date + 1) * Day + 0, e)
  BY ResolvedIs, DayAssumption DEF FirstReached
<1>3. DayRange(zone, date) = [start |-> s, end |-> e]
  BY <1>1, <1>2 DEF DayRange
<1>4. date * Day + 0 = date * Day /\ (date + 1) * Day + 0 = date * Day + Day /\ (date + 1) * Day = date * Day + Day
      /\ date * Day \in Int /\ Day \in Int
  BY DayAssumption
<1>5. s <= t <=> date <= LocalDate(zone, t)
  <2>1. ASSUME s <= t
        PROVE  date <= LocalDate(zone, t)
    <3>1. date <= LocalDate(zone, s)
      BY <1>1, <1>4, WallIs, DateOrder DEF FirstReached, LocalDate
    <3> QED
      BY <2>1, <3>1, DatesInOrder, WallIs
  <2>2. ASSUME t < s
        PROVE  ~(date <= LocalDate(zone, t))
    <3>1. WallClock(zone, t) < date * Day /\ WallClock(zone, t) \in Int
      BY <1>1, <1>4, <2>2, WallIs DEF FirstReached
    <3> QED
      BY <1>4, <3>1, DateOrder DEF LocalDate
  <2> QED
    BY <2>1, <2>2
<1>6. e <= t <=> date < LocalDate(zone, t)
  <2>1. ASSUME e <= t
        PROVE  date < LocalDate(zone, t)
    <3>2. (date + 1) * Day <= WallClock(zone, e) /\ WallClock(zone, e) \in Int /\ date + 1 \in Int
      BY <1>2, <1>4, WallIs DEF FirstReached
    <3>1. date + 1 <= LocalDate(zone, e)
      BY <3>2, DateOrder DEF LocalDate
    <3> QED
      BY <2>1, <3>1, DatesInOrder, WallIs
  <2>2. ASSUME t < e
        PROVE  ~(date < LocalDate(zone, t))
    <3>1. WallClock(zone, t) < date * Day + Day /\ WallClock(zone, t) \in Int
      BY <1>2, <1>4, <2>2, WallIs DEF FirstReached
    <3>2. LocalDate(zone, t) <= date
      BY <3>1, DateOrder DEF LocalDate
    <3> QED
      BY <3>2, WallIs
  <2> QED
    BY <2>1, <2>2
<1>7. LocalDate(zone, t) \in Int
  BY WallIs
<1> QED
  BY <1>3, <1>5, <1>6, <1>7
================================================================================
