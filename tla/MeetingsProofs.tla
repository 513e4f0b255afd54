----------------------------- MODULE MeetingsProofs -----------------------------
(***************************************************************************)
(* For any number of requests, moves and mails: what the guest is told     *)
(* adds up to what the rows say, her calendar shows it once the last word  *)
(* has arrived, and her link opens as long as the meeting stands. For any  *)
(* months, zones and visits: the pages agree on what can be booked.        *)
(*                                                                         *)
(* What the mails do not say yet, a request that is still under way is     *)
(* about to: HeardInv for a booking that stands, EndInv for one that has   *)
(* ended, MoveInv for one that has been given a successor. A duplicate has *)
(* not been told of before its own request does (SecretInv).               *)
(*                                                                         *)
(* A mail that knew its booking's line has the UID of the first booking    *)
(* and counts the moves (MailOK); the calendar has an entry only of a mail *)
(* (EntryOK). A booking has one successor, so that two lines which both    *)
(* end at the first booking are one, and the last word has the highest     *)
(* SEQUENCE. The pages agree because padding and clamping take in every    *)
(* instant of a date of the visitor's (PaddingCovers, MonthHolds).         *)
(***************************************************************************)
EXTENDS Meetings, ZoneProofs, FiniteSetTheorems, TLAPS

BookingRow ==
  [status : {"confirmed", "cancelled", "rescheduled"}, of : Nat, to : Nat, link : {"issued", "rotated"}]
Handling ==
  [at : {"idle", "cancel", "move", "mark", "undo", "rotate", "mail"}, kind : {"cancel", "move"},
   byGuest : BOOLEAN, old : Nat, new : Nat]

Requested(b) == \E m \in mails : m.about = b /\ m.method = "REQUEST"
CalledOff(b) == \E m \in mails : m.about = b /\ m.method = "CANCEL"
Replaced(b) == \E m \in mails : rows[m.about].of = b

\* What a request knows of its bookings.
HandlerOK(j) ==
  /\ j.at # "idle" => j.old \in Bookings
  /\ j.at \in {"move", "mark", "undo"} => j.kind = "move"
  /\ j.at = "cancel" => j.kind = "cancel"
  /\ j.new # Nothing <=> j.kind = "move" /\ j.at \in {"mark", "undo", "rotate", "mail"}
  /\ j.new # Nothing => j.new \in Bookings /\ rows[j.new].of = j.old
  /\ j.at \in {"undo", "rotate", "mail"} => j.old \notin Standing

GuestTypeOK ==
  /\ rows \in Seq(BookingRow)
  /\ \A b \in Bookings : rows[b].of < b
  /\ handler \in [Handlers -> Handling]
  /\ \A m \in mails : m.about \in Bookings /\ m.method \in {"REQUEST", "CANCEL"}

OwnNew == \A h, i \in Handlers : handler[h].new = handler[i].new => h = i \/ handler[h].new = Nothing

CancelInv == \A b \in Standing : ~CalledOff(b)
SecretInv == \A h \in Handlers : handler[h].new # Nothing => ~Requested(handler[h].new)

\* A request is about to end what n replaces, to tell of n, to tell that b ended.
Marking(n) == \E h \in Handlers : handler[h].at = "mark" /\ handler[h].new = n
Carrying(n) == \E h \in Handlers : handler[h].new = n
Telling(b) == \E h \in Handlers : handler[h].at \in {"rotate", "mail"} /\ handler[h].old = b

MoveOK(n) == rows[n].of \notin Standing \/ Marking(n)
HeardOK(b) == Requested(b) \/ Carrying(b)
EndOK(b) == CalledOff(b) \/ Replaced(b) \/ Telling(b) \/ (~Requested(b) /\ ~Carrying(b))

MoveInv == \A n \in Bookings : MoveOK(n)
HeardInv == \A b \in Standing : HeardOK(b)
EndInv == \A b \in Bookings \ Standing : EndOK(b)

TellInv == MoveInv /\ HeardInv /\ EndInv

GuestInv ==
  /\ GuestTypeOK /\ (\A h \in Handlers : HandlerOK(handler[h]))
  /\ OwnNew /\ CancelInv /\ SecretInv /\ LinkOutlives
  /\ brokenOff \in BOOLEAN /\ (~brokenOff => TellInv)
-----------------------------------------------------------------------------
(* What a step does to the rows and to the requests. *)

LEMMA BookingIs ==
  ASSUME GuestTypeOK, NEW b \in Bookings
  PROVE  /\ b \in Nat \ {0} /\ rows[b] \in BookingRow /\ rows[b].of \in 0..(b - 1)
         /\ b \in Standing <=> rows[b].status = "confirmed"
<1>1. Len(rows) \in Nat /\ rows[b] \in BookingRow /\ rows[b].of < b
  BY DEF GuestTypeOK, Bookings
<1> QED
  BY <1>1 DEF Bookings, Standing, BookingRow

\* A row is updated: its place on the line stays.
LEMMA RowStep ==
  ASSUME GuestTypeOK, NEW b \in Bookings, NEW r \in BookingRow, r.of = rows[b].of,
         rows' = [rows EXCEPT ![b] = r]
  PROVE  /\ rows' \in Seq(BookingRow) /\ Bookings' = Bookings
         /\ \A c \in Bookings : rows'[c].of = rows[c].of /\ (c # b => rows'[c] = rows[c])
         /\ rows'[b] = r
         /\ \A c \in Bookings : c \in Standing' <=> IF c = b THEN r.status = "confirmed" ELSE c \in Standing
<1>1. rows \in Seq(BookingRow) /\ b \in 1..Len(rows)
  BY DEF GuestTypeOK, Bookings
<1>2. rows' \in Seq(BookingRow) /\ Len(rows') = Len(rows) /\ rows'[b] = r /\ \A c \in Bookings : c # b => rows'[c] = rows[c]
  BY <1>1 DEF Bookings
<1>3. Bookings' = Bookings /\ \A c \in Bookings : rows'[c].of = rows[c].of
  BY <1>2 DEF Bookings
<1> QED
  BY <1>2, <1>3 DEF Standing

\* cancelWithLockRelease and markRescheduled end what stands, and nothing else.
LEMMA EndingStep ==
  ASSUME GuestTypeOK, NEW b \in Bookings, NEW how \in {"cancelled", "rescheduled"}, NEW to \in Nat,
         rows' = EndBooking(b, how, to)
  PROVE  /\ rows' \in Seq(BookingRow) /\ Bookings' = Bookings
         /\ \A c \in Bookings : rows'[c].of = rows[c].of /\ rows'[c].link = rows[c].link
         /\ Standing' = Standing \ {b}
<1>1. CASE b \in Standing
  <2>1. PICK r \in BookingRow : r = [rows[b] EXCEPT !.status = how, !.to = to] /\ r.of = rows[b].of
                                /\ r.link = rows[b].link /\ r.status = how
    <3>1. rows[b] \in BookingRow
      BY BookingIs
    <3> DEFINE r == [rows[b] EXCEPT !.status = how, !.to = to]
    <3>2. r \in BookingRow /\ r.of = rows[b].of /\ r.link = rows[b].link /\ r.status = how
      BY <3>1 DEF BookingRow
    <3> HIDE DEF r
    <3>3. r = [rows[b] EXCEPT !.status = how, !.to = to]
      BY DEF r
    <3> QED
      BY <3>2, <3>3
  <2>2. rows' = [rows EXCEPT ![b] = r]
    BY <1>1, <2>1 DEF EndBooking, GuestTypeOK
  <2>3. /\ rows' \in Seq(BookingRow) /\ Bookings' = Bookings
        /\ \A c \in Bookings : rows'[c].of = rows[c].of /\ (c # b => rows'[c] = rows[c])
        /\ rows'[b] = r
        /\ \A c \in Bookings : c \in Standing' <=> IF c = b THEN r.status = "confirmed" ELSE c \in Standing
    BY <2>1, <2>2, RowStep
  <2>4. Standing' \subseteq Bookings /\ Standing \subseteq Bookings
    BY <2>3 DEF Standing
  <2>5. \A c \in Bookings : c \in Standing' <=> c \in Standing \ {b}
    BY <2>1, <2>3
  <2> QED
    BY <2>1, <2>3, <2>4, <2>5
<1>2. CASE b \notin Standing
  BY <1>2 DEF EndBooking, GuestTypeOK, Standing, Bookings
<1> QED
  BY <1>1, <1>2

LEMMA InsertStep ==
  ASSUME GuestTypeOK, NEW of \in Bookings \cup {Nothing}, NewBooking(of)
  PROVE  /\ rows' \in Seq(BookingRow) /\ Bookings' = Bookings \cup {Len(rows')} /\ Len(rows') \notin Bookings
         /\ Len(rows') # Nothing /\ rows'[Len(rows')].of = of /\ rows'[Len(rows')].link = "issued"
         /\ of < Len(rows') /\ \A b \in Bookings : rows'[b] = rows[b]
         /\ Standing' = Standing \cup {Len(rows')}
<1>1. PICK r \in BookingRow : /\ rows' = Append(rows, r) /\ r.of = of /\ r.link = "issued" /\ r.status = "confirmed"
  <2>1. of \in Nat
    BY DEF Bookings, Nothing
  <2> QED
    BY <2>1 DEF NewBooking, BookingRow, Nothing
<1>2. rows \in Seq(BookingRow) /\ Len(rows) \in Nat
  BY DEF GuestTypeOK
<1>3. /\ rows' \in Seq(BookingRow) /\ Len(rows') = Len(rows) + 1 /\ rows'[Len(rows')] = r
      /\ \A b \in 1..Len(rows) : rows'[b] = rows[b]
  BY <1>1, <1>2
<1>4. Bookings' = Bookings \cup {Len(rows')} /\ Len(rows') \notin Bookings /\ Len(rows') # Nothing /\ of < Len(rows')
  BY <1>2, <1>3 DEF Bookings, Nothing
<1>5. Standing' = Standing \cup {Len(rows')}
  BY <1>1, <1>3, <1>4 DEF Standing, Bookings
<1> QED
  BY <1>1, <1>3, <1>4, <1>5 DEF Bookings

LEMMA HandlerStep ==
  ASSUME GuestTypeOK, NEW h \in Handlers, NEW j \in Handling, handler' = [handler EXCEPT ![h] = j]
  PROVE  handler' \in [Handlers -> Handling] /\ \A i \in Handlers : handler'[i] = IF i = h THEN j ELSE handler[i]
  BY DEF GuestTypeOK

LEMMA RestingIs ==
  Resting \in Handling /\ Resting.at = "idle" /\ Resting.new = Nothing
  BY DEF Resting, Handling, Nothing

LEMMA GoOnIs ==
  ASSUME GuestTypeOK, NEW h \in Handlers,
         NEW at \in {"idle", "cancel", "move", "mark", "undo", "rotate", "mail"}, GoOn(h, at)
  PROVE  \E j \in Handling : /\ handler' = [handler EXCEPT ![h] = j] /\ j.at = at /\ j.kind = handler[h].kind
                             /\ j.old = handler[h].old /\ j.new = handler[h].new
<1> DEFINE j == [handler[h] EXCEPT !.at = at]
<1>1. j \in Handling /\ j.at = at /\ j.kind = handler[h].kind /\ j.old = handler[h].old /\ j.new = handler[h].new
  BY DEF GuestTypeOK, Handling
<1>2. handler' = [handler EXCEPT ![h] = j]
  BY DEF GoOn, GuestTypeOK
<1> HIDE DEF j
<1> QED
  BY <1>1, <1>2

\* Bookings are added and end; what a request knows of its own stays true.
LEMMA StillKnown ==
  ASSUME NEW j \in Handling, HandlerOK(j), Bookings \subseteq Bookings',
         \A c \in Bookings : rows'[c].of = rows[c].of /\ (c \in Standing' => c \in Standing)
  PROVE  HandlerOK(j)'
  BY DEF HandlerOK

LEMMA HandlerIs ==
  ASSUME GuestInv, NEW h \in Handlers
  PROVE  GuestTypeOK /\ handler[h] \in Handling /\ HandlerOK(handler[h])
  BY DEF GuestInv, GuestTypeOK

\* One request goes on: what the others are about to do, they still are.
LEMMA OthersGoOn ==
  ASSUME NEW h \in Handlers, NEW j, \A i \in Handlers : handler'[i] = IF i = h THEN j ELSE handler[i], NEW b
  PROVE  /\ Marking(b) => Marking(b)' \/ (handler[h].at = "mark" /\ handler[h].new = b)
         /\ j.at = "mark" /\ j.new = b => Marking(b)'
         /\ Carrying(b) => Carrying(b)' \/ handler[h].new = b
         /\ Carrying(b)' => Carrying(b) \/ j.new = b
         /\ j.new = b => Carrying(b)'
         /\ Telling(b) => Telling(b)' \/ (handler[h].at \in {"rotate", "mail"} /\ handler[h].old = b)
         /\ j.at \in {"rotate", "mail"} /\ j.old = b => Telling(b)'
<1>1. handler'[h] = j
  OBVIOUS
<1>2. Marking(b) => Marking(b)' \/ (handler[h].at = "mark" /\ handler[h].new = b)
  BY DEF Marking
<1>3. j.at = "mark" /\ j.new = b => Marking(b)'
  BY <1>1 DEF Marking
<1>4. Carrying(b) => Carrying(b)' \/ handler[h].new = b
  BY DEF Carrying
<1>5. Carrying(b)' => Carrying(b) \/ j.new = b
  BY DEF Carrying
<1>6. j.new = b => Carrying(b)'
  BY <1>1 DEF Carrying
<1>7. Telling(b) => Telling(b)' \/ (handler[h].at \in {"rotate", "mail"} /\ handler[h].old = b)
  BY DEF Telling
<1>8. j.at \in {"rotate", "mail"} /\ j.old = b => Telling(b)'
  BY <1>1 DEF Telling
<1> QED
  BY <1>2, <1>3, <1>4, <1>5, <1>6, <1>7, <1>8

\* A request that only thinks: rows and mails stay, and it is at no booking.
LEMMA ThinkStep ==
  ASSUME GuestInv, NEW h \in Handlers, NEW j \in Handling, handler' = [handler EXCEPT ![h] = j],
         UNCHANGED <<rows, mails>>, HandlerOK(j), j.new = Nothing, j.at \notin {"mark", "rotate", "mail"},
         brokenOff' = TRUE \/ (brokenOff' = brokenOff /\ handler[h].at \in {"idle", "cancel", "move"})
  PROVE  GuestInv'
<1>1. /\ handler' \in [Handlers -> Handling] /\ \A i \in Handlers : handler'[i] = IF i = h THEN j ELSE handler[i]
      /\ GuestTypeOK /\ HandlerOK(handler[h])
  BY HandlerIs, HandlerStep
<1>2. Bookings' = Bookings /\ Standing' = Standing
      /\ \A b : (Requested(b)' <=> Requested(b)) /\ (CalledOff(b)' <=> CalledOff(b)) /\ (Replaced(b)' <=> Replaced(b))
  BY DEF Bookings, Standing, Requested, CalledOff, Replaced
<1>3. GuestTypeOK'
  BY <1>1, <1>2 DEF GuestTypeOK
<1>4. ASSUME NEW i \in Handlers
      PROVE  HandlerOK(handler[i])'
  <2>1. PICK k \in Handling : k = handler'[i] /\ HandlerOK(k)
    BY <1>1, HandlerIs
  <2>2. HandlerOK(k)'
    BY <1>2, <2>1, StillKnown
  <2> QED
    BY <2>1, <2>2 DEF HandlerOK
<1>5. OwnNew'
  BY <1>1 DEF GuestInv, OwnNew
<1>6. CancelInv' /\ SecretInv' /\ LinkOutlives'
  BY <1>1, <1>2 DEF GuestInv, CancelInv, SecretInv, LinkOutlives, LinkOpens
<1>7. brokenOff' \in BOOLEAN /\ (~brokenOff' => TellInv')
  <2>1. CASE brokenOff' = TRUE
    BY <2>1
  <2>2. CASE brokenOff' = brokenOff /\ handler[h].at \in {"idle", "cancel", "move"}
    <3>1. handler[h].new = Nothing
      BY <1>1, <2>2 DEF HandlerOK
    <3>2. SUFFICES ASSUME TellInv
                   PROVE  TellInv'
      BY <2>2 DEF GuestInv
    <3>3. ASSUME NEW b \in Bookings
          PROVE  /\ Marking(b) => Marking(b)'
                 /\ Carrying(b)' <=> Carrying(b)
                 /\ Telling(b) => Telling(b)'
      <4>1. b # Nothing
        BY DEF Bookings, Nothing
      <4> QED
        BY <1>1, <2>2, <3>1, <4>1, OthersGoOn
    <3>4. MoveInv' /\ HeardInv'
      BY <1>2, <3>2, <3>3 DEF TellInv, MoveInv, HeardInv, MoveOK, HeardOK, Standing
    <3>5. EndInv'
      BY <1>2, <3>2, <3>3 DEF TellInv, EndInv, EndOK
    <3> QED
      BY <3>4, <3>5 DEF TellInv
  <2> QED
    BY <2>1, <2>2
<1> QED
  BY <1>3, <1>4, <1>5, <1>6, <1>7 DEF GuestInv

LEMMA LookStep ==
  ASSUME GuestInv, NEW h \in Handlers, Look(h)
  PROVE  GuestInv'
<1>1. PICK b \in Standing, kind \in {"cancel", "move"}, byGuest \in BOOLEAN :
        handler' = [handler EXCEPT ![h] = [Resting EXCEPT !.at = kind, !.kind = kind, !.byGuest = byGuest, !.old = b]]
  BY DEF Look
<1>2. PICK j \in Handling :
        handler' = [handler EXCEPT ![h] = j] /\ j.at = kind /\ j.kind = kind /\ j.old = b /\ j.new = Nothing
  <2> DEFINE j == [Resting EXCEPT !.at = kind, !.kind = kind, !.byGuest = byGuest, !.old = b]
  <2>1. b \in Nat
    BY DEF Standing, Bookings
  <2>2. j \in Handling /\ j.at = kind /\ j.kind = kind /\ j.old = b /\ j.new = Nothing
    BY <2>1 DEF Resting, Handling, Nothing
  <2> HIDE DEF j
  <2>3. handler' = [handler EXCEPT ![h] = j]
    BY <1>1 DEF j
  <2> QED
    BY <2>2, <2>3
<1>3. HandlerOK(j)
  BY <1>2 DEF HandlerOK, Standing
<1> QED
  BY <1>2, <1>3, ThinkStep DEF Look, InStage

LEMMA StopStep ==
  ASSUME GuestInv, NEW h \in Handlers, Rest(h), UNCHANGED <<rows, mails>>,
         brokenOff' = TRUE \/ (brokenOff' = brokenOff /\ handler[h].at \in {"idle", "cancel", "move"})
  PROVE  GuestInv'
<1>1. HandlerOK(Resting) /\ Resting.at \notin {"mark", "rotate", "mail"}
  BY RestingIs DEF HandlerOK
<1> QED
  BY <1>1, RestingIs, ThinkStep DEF Rest

\* b ends, of whatever request; a row's place on the line and its link stay.
LEMMA AfterEnding ==
  ASSUME GuestInv, NEW b \in Bookings, NEW h \in Handlers, NEW j \in Handling, handler' = [handler EXCEPT ![h] = j],
         rows' \in Seq(BookingRow), Bookings' = Bookings, Standing' = Standing \ {b},
         \A c \in Bookings : rows'[c].of = rows[c].of /\ rows'[c].link = rows[c].link,
         UNCHANGED mails, HandlerOK(j)', j.new \in {Nothing, handler[h].new}
  PROVE  /\ GuestTypeOK' /\ (\A i \in Handlers : HandlerOK(handler[i])')
         /\ OwnNew' /\ CancelInv' /\ SecretInv' /\ LinkOutlives'
         /\ \A i \in Handlers : handler'[i] = IF i = h THEN j ELSE handler[i]
         /\ \A c : (Requested(c)' <=> Requested(c)) /\ (CalledOff(c)' <=> CalledOff(c)) /\ (Replaced(c)' <=> Replaced(c))
<1>1. /\ handler' \in [Handlers -> Handling] /\ \A i \in Handlers : handler'[i] = IF i = h THEN j ELSE handler[i]
      /\ GuestTypeOK
  BY HandlerIs, HandlerStep
<1>2. \A c : (Requested(c)' <=> Requested(c)) /\ (CalledOff(c)' <=> CalledOff(c)) /\ (Replaced(c)' <=> Replaced(c))
  BY <1>1 DEF Requested, CalledOff, Replaced, GuestTypeOK
<1>3. GuestTypeOK'
  BY <1>1 DEF GuestTypeOK
<1>4. ASSUME NEW i \in Handlers
      PROVE  HandlerOK(handler[i])'
  <2>1. CASE i = h
    BY <1>1, <2>1 DEF HandlerOK
  <2>2. CASE i # h
    <3>1. PICK k \in Handling : k = handler[i] /\ HandlerOK(k) /\ handler'[i] = k
      BY <1>1, <2>2, HandlerIs
    <3>2. HandlerOK(k)'
      BY <3>1, StillKnown
    <3> QED
      BY <3>1, <3>2 DEF HandlerOK
  <2> QED
    BY <2>1, <2>2
<1>5. OwnNew'
  BY <1>1 DEF GuestInv, OwnNew
<1>6. CancelInv' /\ SecretInv'
  BY <1>1, <1>2 DEF GuestInv, CancelInv, SecretInv
<1>7. LinkOutlives'
  BY DEF GuestInv, LinkOutlives, LinkOpens, Standing
<1> QED
  BY <1>1, <1>2, <1>3, <1>4, <1>5, <1>6, <1>7

LEMMA CancelItStep ==
  ASSUME GuestInv, NEW h \in Handlers, CancelIt(h)
  PROVE  GuestInv'
<1>1. /\ GuestTypeOK /\ handler[h] \in Handling /\ handler[h].at = "cancel" /\ handler[h].kind = "cancel"
      /\ handler[h].old \in Bookings /\ handler[h].new = Nothing
  BY HandlerIs DEF CancelIt, InStage, HandlerOK
<1>2. PICK b \in Bookings : b = handler[h].old
  BY <1>1
<1>3. /\ rows' \in Seq(BookingRow) /\ Bookings' = Bookings /\ Standing' = Standing \ {b}
      /\ \A c \in Bookings : rows'[c].of = rows[c].of /\ rows'[c].link = rows[c].link
  BY <1>1, <1>2, EndingStep DEF CancelIt, Nothing
<1>4. CASE b \notin Standing
  <2>1. rows' = rows
    BY <1>2, <1>4 DEF CancelIt, EndBooking
  <2> QED
    BY <1>1, <1>2, <1>4, <2>1, StopStep DEF CancelIt
<1>5. CASE b \in Standing
  <2>1. PICK j \in Handling : /\ handler' = [handler EXCEPT ![h] = j] /\ j.at \in {"rotate", "mail"}
                             /\ j.kind = "cancel" /\ j.old = b /\ j.new = Nothing
    <3>1. PICK at \in {"rotate", "mail"} : GoOn(h, at)
      BY <1>2, <1>5 DEF CancelIt, NextStage
    <3> QED
      BY <1>1, <1>2, <3>1, GoOnIs
  <2>2. HandlerOK(j)'
    BY <1>3, <2>1 DEF HandlerOK
  <2>3. UNCHANGED <<mails, brokenOff>>
    BY DEF CancelIt
  <2>4. /\ GuestTypeOK' /\ (\A i \in Handlers : HandlerOK(handler[i])')
        /\ OwnNew' /\ CancelInv' /\ SecretInv' /\ LinkOutlives'
        /\ \A i \in Handlers : handler'[i] = IF i = h THEN j ELSE handler[i]
        /\ \A c : (Requested(c)' <=> Requested(c)) /\ (CalledOff(c)' <=> CalledOff(c)) /\ (Replaced(c)' <=> Replaced(c))
    BY <1>3, <2>1, <2>2, <2>3, AfterEnding
  <2>5. ASSUME TellInv
        PROVE  TellInv'
    <3>1. ASSUME NEW c \in Bookings
          PROVE  /\ Marking(c) => Marking(c)'
                 /\ Carrying(c)' <=> Carrying(c)
                 /\ Telling(c) => Telling(c)'
                 /\ c = b => Telling(c)'
      <4>1. c # Nothing
        BY DEF Bookings, Nothing
      <4> QED
        BY <1>1, <2>1, <2>4, <4>1, OthersGoOn
    <3>2. MoveInv'
      BY <1>3, <2>5, <3>1 DEF TellInv, MoveInv, MoveOK
    <3>3. HeardInv'
      BY <1>3, <2>4, <2>5, <3>1 DEF TellInv, HeardInv, HeardOK, Standing
    <3>5. EndInv'
      BY <1>3, <2>4, <2>5, <3>1 DEF TellInv, EndInv, EndOK
    <3> QED
      BY <3>2, <3>3, <3>5 DEF TellInv
  <2> QED
    BY <2>3, <2>4, <2>5 DEF GuestInv
<1> QED
  BY <1>4, <1>5

LEMMA MarkMovedStep ==
  ASSUME GuestInv, NEW h \in Handlers, MarkMoved(h)
  PROVE  GuestInv'
<1>1. /\ GuestTypeOK /\ handler[h] \in Handling /\ handler[h].at = "mark" /\ handler[h].kind = "move"
      /\ handler[h].old \in Bookings /\ handler[h].new # Nothing
      /\ handler[h].new \in Bookings /\ rows[handler[h].new].of = handler[h].old
  BY HandlerIs DEF MarkMoved, InStage, HandlerOK
<1>2. PICK b \in Bookings, n \in Bookings : b = handler[h].old /\ n = handler[h].new
  BY <1>1
<1>3. n \in Nat /\ rows' = EndBooking(b, "rescheduled", n)
  BY <1>1, <1>2 DEF MarkMoved, Bookings
<1>4. /\ rows' \in Seq(BookingRow) /\ Bookings' = Bookings /\ Standing' = Standing \ {b}
      /\ \A c \in Bookings : rows'[c].of = rows[c].of /\ rows'[c].link = rows[c].link
  BY <1>1, <1>3, EndingStep
<1>5. PICK j \in Handling : /\ handler' = [handler EXCEPT ![h] = j]
                           /\ j.at \in {"rotate", "mail", "undo"} /\ (b \in Standing => j.at \in {"rotate", "mail"})
                           /\ j.kind = "move" /\ j.old = b /\ j.new = n
  <2>1. PICK at \in {"rotate", "mail", "undo"} :
          GoOn(h, at) /\ (b \in Standing => at \in {"rotate", "mail"})
    BY <1>2 DEF MarkMoved, NextStage
  <2>2. at \in {"idle", "cancel", "move", "mark", "undo", "rotate", "mail"}
    OBVIOUS
  <2>3. PICK j \in Handling : /\ handler' = [handler EXCEPT ![h] = j] /\ j.at = at /\ j.kind = handler[h].kind
                             /\ j.old = handler[h].old /\ j.new = handler[h].new
    BY <1>1, <2>1, <2>2, GoOnIs
  <2> QED
    BY <1>1, <1>2, <2>1, <2>3
<1>6. HandlerOK(j)'
  <2>1. n # Nothing /\ rows'[n].of = b /\ b \notin Standing'
    BY <1>1, <1>2, <1>4
  <2> QED
    BY <1>4, <1>5, <2>1 DEF HandlerOK
<1>7. UNCHANGED <<mails, brokenOff>>
  BY DEF MarkMoved
<1>8. /\ GuestTypeOK' /\ (\A i \in Handlers : HandlerOK(handler[i])')
      /\ OwnNew' /\ CancelInv' /\ SecretInv' /\ LinkOutlives'
      /\ \A i \in Handlers : handler'[i] = IF i = h THEN j ELSE handler[i]
      /\ \A c : (Requested(c)' <=> Requested(c)) /\ (CalledOff(c)' <=> CalledOff(c)) /\ (Replaced(c)' <=> Replaced(c))
  BY <1>2, <1>4, <1>5, <1>6, <1>7, AfterEnding
<1>9. ASSUME TellInv
      PROVE  TellInv'
  <2>1. ASSUME NEW c \in Bookings
        PROVE  /\ Marking(c) => Marking(c)' \/ c = n
               /\ Carrying(c)' <=> Carrying(c)
               /\ Telling(c) => Telling(c)'
               /\ c = b /\ b \in Standing => Telling(c)'
    <3>1. j.new = handler[h].new /\ handler[h].at \notin {"rotate", "mail"} /\ (handler[h].new = c => c = n)
      BY <1>1, <1>2, <1>5
    <3>2. handler[h].new = c => Carrying(c)
      BY DEF Carrying
    <3> QED
      BY <1>5, <1>8, <3>1, <3>2, OthersGoOn
  <2>2. MoveInv'
    <3>1. rows[n].of = b
      BY <1>1, <1>2
    <3>2. ASSUME NEW c \in Bookings
          PROVE  MoveOK(c)'
      BY <1>4, <1>9, <2>1, <3>1 DEF TellInv, MoveInv, MoveOK
    <3> QED
      BY <1>4, <3>2 DEF MoveInv
  <2>3. HeardInv'
    BY <1>4, <1>8, <1>9, <2>1 DEF TellInv, HeardInv, HeardOK, Standing
  <2>4. EndInv'
    BY <1>4, <1>8, <1>9, <2>1 DEF TellInv, EndInv, EndOK
  <2> QED
    BY <2>2, <2>3, <2>4 DEF TellInv
<1> QED
  BY <1>7, <1>8, <1>9 DEF GuestInv

\* Nobody was told of the duplicate, and now nobody will be.
LEMMA UndoStep ==
  ASSUME GuestInv, NEW h \in Handlers, Undo(h)
  PROVE  GuestInv'
<1>1. /\ GuestTypeOK /\ handler[h] \in Handling /\ handler[h].at = "undo"
      /\ handler[h].new # Nothing /\ handler[h].new \in Bookings
  BY HandlerIs DEF Undo, InStage, HandlerOK
<1>2. PICK n \in Bookings : n = handler[h].new
  BY <1>1
<1>3. /\ rows' \in Seq(BookingRow) /\ Bookings' = Bookings /\ Standing' = Standing \ {n}
      /\ \A c \in Bookings : rows'[c].of = rows[c].of /\ rows'[c].link = rows[c].link
  BY <1>1, <1>2, EndingStep DEF Undo, Nothing
<1>4. HandlerOK(Resting)' /\ handler' = [handler EXCEPT ![h] = Resting] /\ UNCHANGED <<mails, brokenOff>>
  BY RestingIs DEF HandlerOK, Undo, Rest
<1>5. /\ GuestTypeOK' /\ (\A i \in Handlers : HandlerOK(handler[i])')
      /\ OwnNew' /\ CancelInv' /\ SecretInv' /\ LinkOutlives'
      /\ \A i \in Handlers : handler'[i] = IF i = h THEN Resting ELSE handler[i]
      /\ \A c : (Requested(c)' <=> Requested(c)) /\ (CalledOff(c)' <=> CalledOff(c)) /\ (Replaced(c)' <=> Replaced(c))
  BY <1>3, <1>4, RestingIs, AfterEnding
<1>6. ASSUME TellInv
      PROVE  TellInv'
  <2>1. ASSUME NEW c \in Bookings
        PROVE  /\ Marking(c) => Marking(c)'
               /\ Carrying(c) => Carrying(c)' \/ c = n
               /\ Carrying(c)' => Carrying(c)
               /\ Telling(c) => Telling(c)'
    <3>1. c # Nothing
      BY DEF Bookings, Nothing
    <3> QED
      BY <1>1, <1>2, <1>5, <3>1, RestingIs, OthersGoOn
  <2>2. MoveInv'
    BY <1>3, <1>6, <2>1 DEF TellInv, MoveInv, MoveOK
  <2>3. HeardInv'
    BY <1>3, <1>5, <1>6, <2>1 DEF TellInv, HeardInv, HeardOK, Standing
  <2>4. ~Requested(n)' /\ ~Carrying(n)'
    <3>1. ~Requested(n)
      BY <1>1, <1>2 DEF GuestInv, SecretInv
    <3>2. ASSUME NEW i \in Handlers
          PROVE  handler'[i].new # n
      <4>1. CASE i = h
        BY <1>1, <1>2, <1>5, <4>1, RestingIs
      <4>2. CASE i # h
        BY <1>1, <1>2, <1>5, <4>2 DEF GuestInv, OwnNew
      <4> QED
        BY <4>1, <4>2
    <3> QED
      BY <1>5, <3>1, <3>2 DEF Carrying
  <2>5. EndInv'
    BY <1>3, <1>5, <1>6, <2>1, <2>4 DEF TellInv, EndInv, EndOK
  <2> QED
    BY <2>2, <2>3, <2>5 DEF TellInv
<1> QED
  BY <1>4, <1>5, <1>6 DEF GuestInv

\* The first booking: there was nothing before it.
LEMMA BookFirstStep ==
  ASSUME GuestInv, BookFirst
  PROVE  GuestInv'
<1>1. Bookings = {} /\ Standing = {} /\ mails = {} /\ GuestTypeOK
  BY DEF GuestInv, GuestTypeOK, BookFirst, Bookings, Standing
<1>2. ASSUME NEW i \in Handlers
      PROVE  handler[i] \in Handling /\ handler[i].at = "idle" /\ handler[i].new = Nothing
  BY <1>1, HandlerIs DEF HandlerOK
<1>3. PICK n : n = Len(rows')
  OBVIOUS
<1>4. /\ rows' \in Seq(BookingRow) /\ Bookings' = {n} /\ n # Nothing /\ rows'[n].of = Nothing
      /\ rows'[n].link = "issued" /\ Nothing < n /\ Standing' = {n}
  BY <1>1, <1>3, InsertStep DEF BookFirst
<1>5. PICK x : mails' = {x} /\ x.about = n /\ x.method = "REQUEST"
  <2> DEFINE x == [about |-> n, method |-> "REQUEST", uid |-> n, seq |-> 0, lag |-> FALSE]
  <2>1. x.about = n /\ x.method = "REQUEST"
    OBVIOUS
  <2>2. mails' = {x}
    BY <1>1, <1>3 DEF BookFirst
  <2> HIDE DEF x
  <2> QED
    BY <2>1, <2>2
<1>6. handler' = handler /\ brokenOff' = brokenOff
  BY DEF BookFirst
<1>7. GuestTypeOK'
  BY <1>1, <1>4, <1>5, <1>6 DEF GuestTypeOK
<1>8. \A i \in Handlers : HandlerOK(handler[i])'
  BY <1>2, <1>6 DEF HandlerOK
<1>9. OwnNew' /\ CancelInv' /\ SecretInv' /\ LinkOutlives'
  BY <1>2, <1>4, <1>5, <1>6 DEF OwnNew, CancelInv, SecretInv, LinkOutlives, LinkOpens, CalledOff
<1>10. TellInv'
  <2>1. MoveInv'
    BY <1>4 DEF MoveInv, MoveOK
  <2>2. HeardInv'
    BY <1>4, <1>5 DEF HeardInv, HeardOK, Requested
  <2>3. EndInv'
    BY <1>4 DEF EndInv
  <2> QED
    BY <2>1, <2>2, <2>3 DEF TellInv
<1> QED
  BY <1>6, <1>7, <1>8, <1>9, <1>10 DEF GuestInv

\* The booking that moves another is carried by its request until it is told.
LEMMA BookNewStep ==
  ASSUME GuestInv, NEW h \in Handlers, BookNew(h)
  PROVE  GuestInv'
<1>1. /\ GuestTypeOK /\ handler[h] \in Handling /\ handler[h].at = "move" /\ handler[h].kind = "move"
      /\ handler[h].old \in Bookings /\ handler[h].new = Nothing
  BY HandlerIs DEF BookNew, InStage, HandlerOK
<1> PICK n : n = Len(rows')
  OBVIOUS
<1>2. PICK b \in Bookings : b = handler[h].old /\ n = Len(rows')
  BY <1>1
<1>3. /\ rows' \in Seq(BookingRow) /\ Bookings' = Bookings \cup {n} /\ n \notin Bookings
      /\ n # Nothing /\ rows'[n].of = b /\ rows'[n].link = "issued" /\ b < n
      /\ (\A c \in Bookings : rows'[c] = rows[c]) /\ Standing' = Standing \cup {n}
  BY <1>1, <1>2, InsertStep DEF BookNew
<1>4. PICK j \in Handling : /\ handler' = [handler EXCEPT ![h] = j] /\ j.at = "mark" /\ j.kind = "move"
                           /\ j.old = b /\ j.new = n
  <2> DEFINE j == [handler[h] EXCEPT !.at = "mark", !.new = n]
  <2>1. n \in Nat
    BY <1>3 DEF Bookings
  <2>2. j \in Handling /\ j.at = "mark" /\ j.kind = "move" /\ j.old = b /\ j.new = n
    BY <1>1, <1>2, <2>1 DEF Handling
  <2>3. handler' = [handler EXCEPT ![h] = j]
    BY <1>1, <1>2 DEF BookNew, GuestTypeOK
  <2> HIDE DEF j
  <2> QED
    BY <2>2, <2>3
<1>5. /\ handler' \in [Handlers -> Handling] /\ \A i \in Handlers : handler'[i] = IF i = h THEN j ELSE handler[i]
  BY <1>1, <1>4, HandlerStep
<1>6. UNCHANGED <<mails, brokenOff>>
  BY DEF BookNew
<1>7. GuestTypeOK'
  BY <1>1, <1>3, <1>5, <1>6 DEF GuestTypeOK
<1>8. ASSUME NEW i \in Handlers
      PROVE  HandlerOK(handler[i])'
  <2>1. CASE i = h
    BY <1>3, <1>4, <1>5, <2>1 DEF HandlerOK
  <2>2. CASE i # h
    <3>1. PICK k \in Handling : k = handler[i] /\ HandlerOK(k) /\ handler'[i] = k
      BY <1>5, <2>2, HandlerIs
    <3>2. HandlerOK(k)'
      BY <1>3, <3>1, StillKnown
    <3> QED
      BY <3>1, <3>2 DEF HandlerOK
  <2> QED
    BY <2>1, <2>2
<1>9. \A i \in Handlers : handler[i].new \in Bookings \cup {Nothing}
  BY HandlerIs DEF HandlerOK
<1>10. \A m \in mails : m.about \in Bookings
  BY <1>1 DEF GuestTypeOK
<1>11. ~Requested(n)' /\ ~CalledOff(n)'
  BY <1>3, <1>6, <1>10 DEF Requested, CalledOff
<1>12. \A c : (Requested(c)' <=> Requested(c)) /\ (CalledOff(c)' <=> CalledOff(c)) /\ (Replaced(c)' <=> Replaced(c))
  BY <1>3, <1>6, <1>10 DEF Requested, CalledOff, Replaced
<1>13. OwnNew'
  BY <1>3, <1>4, <1>5, <1>9 DEF GuestInv, OwnNew
<1>14. CancelInv' /\ SecretInv'
  BY <1>3, <1>4, <1>5, <1>11, <1>12 DEF GuestInv, CancelInv, SecretInv
<1>15. LinkOutlives'
  BY <1>3 DEF GuestInv, LinkOutlives, LinkOpens, Standing
<1>16. ASSUME TellInv
       PROVE  TellInv'
  <2>1. ASSUME NEW c \in Bookings
        PROVE  /\ Marking(c) => Marking(c)'
               /\ Carrying(c)' <=> Carrying(c)
               /\ Telling(c) => Telling(c)'
    <3>1. c # Nothing /\ c # n
      BY <1>3 DEF Bookings, Nothing
    <3> QED
      BY <1>1, <1>4, <1>5, <3>1, OthersGoOn
  <2>2. Marking(n)' /\ Carrying(n)'
    BY <1>4, <1>5, OthersGoOn
  <2>3. MoveInv'
    <3>1. ASSUME NEW c \in Bookings
          PROVE  MoveOK(c)'
      <4>1. rows[c].of # n
        BY <1>1, <1>3, BookingIs DEF Bookings
      <4> QED
        BY <1>3, <1>16, <2>1, <4>1 DEF TellInv, MoveInv, MoveOK
    <3>2. MoveOK(n)'
      BY <2>2 DEF MoveOK
    <3> QED
      BY <1>3, <3>1, <3>2 DEF MoveInv
  <2>4. HeardInv'
    BY <1>3, <1>12, <1>16, <2>1, <2>2 DEF TellInv, HeardInv, HeardOK, Standing
  <2>5. EndInv'
    BY <1>3, <1>12, <1>16, <2>1 DEF TellInv, EndInv, EndOK
  <2> QED
    BY <2>3, <2>4, <2>5 DEF TellInv
<1> QED
  BY <1>6, <1>7, <1>8, <1>13, <1>14, <1>15, <1>16 DEF GuestInv

\* Only the link of what has ended is spent.
LEMMA RotateStep ==
  ASSUME GuestInv, NEW h \in Handlers, Rotate(h)
  PROVE  GuestInv'
<1>1. /\ GuestTypeOK /\ handler[h] \in Handling /\ handler[h].at = "rotate" /\ HandlerOK(handler[h])
      /\ handler[h].old \in Bookings /\ handler[h].old \notin Standing
  BY HandlerIs DEF Rotate, InStage, HandlerOK
<1>2. PICK b \in Bookings : b = handler[h].old
  BY <1>1
<1>3. PICK r \in BookingRow : /\ rows' = [rows EXCEPT ![b] = r] /\ r.of = rows[b].of /\ r.status = rows[b].status
  <2>1. rows[b] \in BookingRow
    BY <1>1, BookingIs
  <2> DEFINE r == [rows[b] EXCEPT !.link = "rotated"]
  <2>2. r \in BookingRow /\ r.of = rows[b].of /\ r.status = rows[b].status
    BY <2>1 DEF BookingRow
  <2>3. rows' = [rows EXCEPT ![b] = r]
    BY <1>1, <1>2 DEF Rotate, GuestTypeOK
  <2> HIDE DEF r
  <2> QED
    BY <2>2, <2>3
<1>4. /\ rows' \in Seq(BookingRow) /\ Bookings' = Bookings
      /\ \A c \in Bookings : rows'[c].of = rows[c].of /\ (c # b => rows'[c] = rows[c])
      /\ \A c \in Bookings : c \in Standing' <=> IF c = b THEN r.status = "confirmed" ELSE c \in Standing
  BY <1>1, <1>3, RowStep
<1>5. Standing' = Standing
  <2>1. r.status # "confirmed"
    BY <1>1, <1>2, <1>3, BookingIs
  <2>2. Standing' \subseteq Bookings /\ Standing \subseteq Bookings
    BY <1>4 DEF Standing
  <2> QED
    BY <1>1, <1>2, <1>4, <2>1, <2>2
<1>6. PICK j \in Handling : /\ handler' = [handler EXCEPT ![h] = j] /\ j.at = "mail" /\ j.kind = handler[h].kind
                           /\ j.old = handler[h].old /\ j.new = handler[h].new
  BY <1>1, GoOnIs DEF Rotate
<1>7. /\ handler' \in [Handlers -> Handling] /\ \A i \in Handlers : handler'[i] = IF i = h THEN j ELSE handler[i]
  BY <1>1, <1>6, HandlerStep
<1>8. UNCHANGED <<mails, brokenOff>>
  BY DEF Rotate
<1>9. GuestTypeOK'
  BY <1>1, <1>4, <1>7, <1>8 DEF GuestTypeOK
<1>10. ASSUME NEW i \in Handlers
       PROVE  HandlerOK(handler[i])'
  <2>1. PICK k \in Handling : k = handler'[i] /\ HandlerOK(k)
    <3>1. CASE i = h
      BY <1>1, <1>6, <1>7, <3>1 DEF HandlerOK
    <3>2. CASE i # h
      BY <1>7, <3>2, HandlerIs
    <3> QED
      BY <3>1, <3>2
  <2>2. HandlerOK(k)'
    BY <1>4, <1>5, <2>1, StillKnown
  <2> QED
    BY <2>1, <2>2 DEF HandlerOK
<1>11. \A c : (Requested(c)' <=> Requested(c)) /\ (CalledOff(c)' <=> CalledOff(c)) /\ (Replaced(c)' <=> Replaced(c))
  BY <1>1, <1>4, <1>8 DEF Requested, CalledOff, Replaced, GuestTypeOK
<1>12. OwnNew' /\ CancelInv' /\ SecretInv'
  BY <1>5, <1>6, <1>7, <1>11 DEF GuestInv, OwnNew, CancelInv, SecretInv
<1>13. LinkOutlives'
  BY <1>1, <1>2, <1>4, <1>5 DEF GuestInv, LinkOutlives, LinkOpens, Standing
<1>14. ASSUME TellInv
       PROVE  TellInv'
  <2>1. ASSUME NEW c \in Bookings
        PROVE  /\ Marking(c) => Marking(c)'
               /\ Carrying(c)' <=> Carrying(c)
               /\ Telling(c) => Telling(c)'
    <3>1. handler[h].new = c => Carrying(c)
      BY DEF Carrying
    <3> QED
      BY <1>1, <1>6, <1>7, <3>1, OthersGoOn
  <2>2. MoveInv'
    BY <1>4, <1>5, <1>14, <2>1 DEF TellInv, MoveInv, MoveOK
  <2>3. HeardInv'
    BY <1>5, <1>11, <1>14, <2>1 DEF TellInv, HeardInv, HeardOK, Standing
  <2>4. EndInv'
    BY <1>4, <1>5, <1>11, <1>14, <2>1 DEF TellInv, EndInv, EndOK
  <2> QED
    BY <2>2, <2>3, <2>4 DEF TellInv
<1> QED
  BY <1>8, <1>9, <1>10, <1>12, <1>13, <1>14 DEF GuestInv

\* What a mail to the guest is about, whatever the replica knew of the chain.
LEMMA NotifyIs ==
  ASSUME NEW b, NEW method, Notify(b, method)
  PROVE  \E x : mails' = mails \cup {x} /\ x.about = b /\ x.method = method
<1>1. PICK replica : mails' = mails \cup {Attachment(b, method, replica)}
  BY DEF Notify
<1>2. Attachment(b, method, replica).about = b /\ Attachment(b, method, replica).method = method
  BY DEF Attachment
<1> QED
  BY <1>1, <1>2

\* One more mail, about a booking that its request has carried here.
LEMMA AfterMail ==
  ASSUME GuestInv, NEW h \in Handlers, NEW x, mails' = mails \cup {x}, Rest(h), UNCHANGED <<rows, brokenOff>>,
         handler[h].at = "mail", x.about \in Bookings,
         \/ x.about = handler[h].new /\ x.method = "REQUEST" /\ rows[x.about].of = handler[h].old
         \/ x.about = handler[h].old /\ x.method = "CANCEL" /\ handler[h].new = Nothing
              /\ handler[h].old \notin Standing
  PROVE  GuestInv'
<1>1. /\ handler' \in [Handlers -> Handling] /\ GuestTypeOK /\ Nothing \notin Bookings
      /\ \A i \in Handlers : handler'[i] = IF i = h THEN Resting ELSE handler[i]
  <2>1. handler' = [handler EXCEPT ![h] = Resting]
    BY DEF Rest
  <2>2. GuestTypeOK /\ Nothing \notin Bookings
    BY HandlerIs DEF Nothing, Bookings
  <2> QED
    BY <2>1, <2>2, RestingIs, HandlerStep
<1>2. Bookings' = Bookings /\ Standing' = Standing
  BY DEF Bookings, Standing
<1>3. ASSUME NEW c
      PROVE  /\ Requested(c)' <=> Requested(c) \/ (x.about = c /\ x.method = "REQUEST")
             /\ CalledOff(c)' <=> CalledOff(c) \/ (x.about = c /\ x.method = "CANCEL")
             /\ Replaced(c)' <=> Replaced(c) \/ rows[x.about].of = c
  BY DEF Requested, CalledOff, Replaced
<1>4. GuestTypeOK'
  BY <1>1, <1>2 DEF GuestTypeOK
<1>5. ASSUME NEW i \in Handlers
      PROVE  HandlerOK(handler[i])'
  <2>1. PICK k \in Handling : k = handler'[i] /\ HandlerOK(k)
    <3>1. HandlerOK(Resting)
      BY RestingIs DEF HandlerOK
    <3> QED
      BY <1>1, <3>1, HandlerIs, RestingIs
  <2>2. HandlerOK(k)'
    BY <1>2, <2>1, StillKnown
  <2> QED
    BY <2>1, <2>2 DEF HandlerOK
<1>6. OwnNew'
  BY <1>1, RestingIs DEF GuestInv, OwnNew
<1>7. CancelInv'
  BY <1>2, <1>3 DEF GuestInv, CancelInv
<1>8. SecretInv'
  <2>1. ASSUME NEW i \in Handlers, NEW c, handler'[i].new = c, c # Nothing
        PROVE  ~Requested(c)'
    <3>1. i # h /\ handler[i].new = c
      BY <1>1, <2>1, RestingIs
    <3>2. ~Requested(c) /\ handler[h].new # c
      BY <2>1, <3>1 DEF GuestInv, SecretInv, OwnNew
    <3> QED
      BY <1>3, <3>2
  <2> QED
    BY <2>1 DEF SecretInv
<1>9. LinkOutlives'
  BY <1>2 DEF GuestInv, LinkOutlives, LinkOpens
<1>10. ASSUME TellInv
       PROVE  TellInv'
  <2>1. ASSUME NEW c \in Bookings
        PROVE  /\ Marking(c) => Marking(c)'
               /\ Carrying(c) => Carrying(c)' \/ handler[h].new = c
               /\ Carrying(c)' => Carrying(c)
               /\ Telling(c) => Telling(c)' \/ handler[h].old = c
               /\ handler[h].new = c => Carrying(c)
    <3>1. handler[h].new = c => Carrying(c)
      BY DEF Carrying
    <3> QED
      BY <1>1, <3>1, RestingIs, OthersGoOn
  <2>2. MoveInv'
    BY <1>2, <1>10, <2>1 DEF TellInv, MoveInv, MoveOK
  <2>3. ASSUME NEW c \in Standing
        PROVE  HeardOK(c)'
    <3>1. c \in Bookings /\ HeardOK(c)
      BY <1>10 DEF Standing, TellInv, HeardInv
    <3> QED
      BY <1>1, <1>3, <2>1, <3>1 DEF HeardOK
  <2>4. ASSUME NEW c \in Bookings \ Standing
        PROVE  EndOK(c)'
    <3>1. EndOK(c)
      BY <1>10 DEF TellInv, EndInv
    <3> QED
      BY <1>3, <2>1, <3>1 DEF EndOK
  <2> QED
    BY <1>2, <2>2, <2>3, <2>4 DEF TellInv, HeardInv, EndInv
<1> QED
  BY <1>4, <1>5, <1>6, <1>7, <1>8, <1>9, <1>10 DEF GuestInv

LEMMA MailStep ==
  ASSUME GuestInv, NEW h \in Handlers, Mail(h)
  PROVE  GuestInv'
<1>1. /\ handler[h] \in Handling /\ HandlerOK(handler[h]) /\ handler[h].at = "mail"
  BY HandlerIs DEF Mail, InStage
<1>2. CASE handler[h].kind = "move"
  <2>1. PICK x : mails' = mails \cup {x} /\ x.about = handler[h].new /\ x.method = "REQUEST"
    BY <1>2, NotifyIs DEF Mail
  <2>2. handler[h].new \in Bookings /\ rows[handler[h].new].of = handler[h].old
    BY <1>1, <1>2 DEF HandlerOK
  <2> QED
    BY <1>1, <2>1, <2>2, AfterMail DEF Mail
<1>3. CASE handler[h].kind # "move"
  <2>1. PICK x : mails' = mails \cup {x} /\ x.about = handler[h].old /\ x.method = "CANCEL"
    BY <1>3, NotifyIs DEF Mail
  <2>2. handler[h].old \in Bookings /\ handler[h].new = Nothing /\ handler[h].old \notin Standing
    BY <1>1, <1>3 DEF HandlerOK
  <2> QED
    BY <1>1, <2>1, <2>2, AfterMail DEF Mail
<1> QED
  BY <1>2, <1>3
-----------------------------------------------------------------------------
(* Every step of the guest's part. *)

\* Nothing GuestInv speaks of is moved by a mail client, or by another part.
LEMMA GuestRests ==
  ASSUME GuestInv, UNCHANGED <<rows, handler, mails, brokenOff>>
  PROVE  GuestInv'
  BY DEF GuestInv, GuestTypeOK, HandlerOK, OwnNew, CancelInv, SecretInv, LinkOutlives, LinkOpens, TellInv,
     MoveInv, HeardInv, EndInv, MoveOK, HeardOK, EndOK, Marking, Carrying, Telling, Requested, CalledOff,
     Replaced, Bookings, Standing

LEMMA GuestKeeps ==
  GuestInv /\ [Next]_meetingVars => GuestInv'
<1> SUFFICES ASSUME GuestInv, [Next]_meetingVars
             PROVE  GuestInv'
  OBVIOUS
<1>1. CASE BookFirst
  BY <1>1, BookFirstStep
<1>2. ASSUME NEW h \in Handlers, Look(h)
      PROVE  GuestInv'
  BY <1>2, LookStep
<1>3. ASSUME NEW h \in Handlers, CancelIt(h)
      PROVE  GuestInv'
  BY <1>3, CancelItStep
<1>4. ASSUME NEW h \in Handlers, BookNew(h)
      PROVE  GuestInv'
  BY <1>4, BookNewStep
<1>5. ASSUME NEW h \in Handlers, NoneBooked(h)
      PROVE  GuestInv'
  BY <1>5, StopStep DEF NoneBooked, InStage
<1>6. ASSUME NEW h \in Handlers, MarkMoved(h)
      PROVE  GuestInv'
  BY <1>6, MarkMovedStep
<1>7. ASSUME NEW h \in Handlers, Undo(h)
      PROVE  GuestInv'
  BY <1>7, UndoStep
<1>8. ASSUME NEW h \in Handlers, Rotate(h)
      PROVE  GuestInv'
  BY <1>8, RotateStep
<1>9. ASSUME NEW h \in Handlers, Mail(h)
      PROVE  GuestInv'
  BY <1>9, MailStep
<1>10. ASSUME NEW h \in Handlers, BreakOff(h)
       PROVE  GuestInv'
  <2>1. Rest(h) /\ UNCHANGED <<rows, mails>> /\ brokenOff' = TRUE
    BY <1>10 DEF BreakOff
  <2>2. brokenOff' = TRUE \/ (brokenOff' = brokenOff /\ handler[h].at \in {"idle", "cancel", "move"})
    BY <2>1
  <2> QED
    BY <2>1, <2>2, StopStep
<1>11. ASSUME NEW m \in mails, Deliver(m)
       PROVE  GuestInv'
  BY <1>11, GuestRests DEF Deliver
<1>12. CASE InvitationsNext
  BY <1>1, <1>2, <1>3, <1>4, <1>5, <1>6, <1>7, <1>8, <1>9, <1>10, <1>11, <1>12 DEF InvitationsNext
<1>13. CASE UNCHANGED invitationVars
  BY <1>13, GuestRests DEF invitationVars
<1> QED
  BY <1>12, <1>13 DEF Next, Tables, Guest, Visit, meetingVars

LEMMA GuestBegins ==
  Init => GuestInv
<1> SUFFICES ASSUME InvitationsInit
             PROVE  GuestInv
  BY DEF Init
<1>1. Bookings = {} /\ Standing = {} /\ rows \in Seq(BookingRow)
  BY DEF InvitationsInit, Bookings, Standing
<1>2. \A i \in Handlers : handler[i] = Resting
  BY DEF InvitationsInit
<1>3. GuestTypeOK
  BY <1>1, RestingIs DEF InvitationsInit, GuestTypeOK
<1>4. \A i \in Handlers : HandlerOK(handler[i])
  BY <1>2, RestingIs DEF HandlerOK
<1>5. OwnNew /\ CancelInv /\ SecretInv /\ LinkOutlives /\ TellInv
  BY <1>1, <1>2, RestingIs DEF OwnNew, CancelInv, SecretInv, LinkOutlives, TellInv, MoveInv, HeardInv, EndInv
<1> QED
  BY <1>3, <1>4, <1>5 DEF GuestInv, InvitationsInit

\* GuestInv holds of whatever part a behaviour follows.
THEOREM GuestInvariant ==
  Spec => []GuestInv
<1> QED
  BY GuestBegins, GuestKeeps, PTL DEF Spec

\* However the moves and cancellations by guest and host cross, and wherever
\* one of them breaks off, the link of a meeting that stands has not been
\* rotated: manage.ts rotates only after the statement that ended the booking.
THEOREM LinkAlwaysOutlives ==
  Spec => []LinkOutlives
<1>1. GuestInv => LinkOutlives
  BY DEF GuestInv
<1> QED
  BY <1>1, GuestInvariant, PTL

\* With every request at an end and none broken off, the mails the guest was
\* sent name as announced, and neither called off nor replaced, exactly the
\* booking that stands: for any number of requests, moves and duplicates.
THEOREM AlwaysToldTheSame ==
  Spec => []ToldTheSame
<1>1. ASSUME GuestInv
      PROVE  ToldTheSame
  <2> SUFFICES ASSUME ~brokenOff, Quiet
               PROVE  Announced = Standing
    BY DEF ToldTheSame
  <2>1. GuestTypeOK /\ CancelInv /\ MoveInv /\ HeardInv /\ EndInv
    BY <1>1 DEF GuestInv, TellInv
  <2>2. \A h \in Handlers : handler[h].at = "idle" /\ handler[h].new = Nothing
    BY <1>1, HandlerIs DEF Quiet, InStage, HandlerOK
  <2>3. \A b \in Bookings : ~Marking(b) /\ ~Carrying(b) /\ ~Telling(b)
    BY <2>2 DEF Marking, Carrying, Telling, Bookings, Nothing
  <2>4. ASSUME NEW b
        PROVE  b \in Announced <=> Requested(b) /\ ~CalledOff(b) /\ ~Replaced(b)
    BY DEF Announced, Requested, CalledOff, Replaced
  <2>5. ASSUME NEW b \in Standing
        PROVE  Requested(b) /\ ~CalledOff(b) /\ ~Replaced(b)
    <3>1. b \in Bookings
      BY DEF Standing
    <3>2. Requested(b) /\ ~CalledOff(b)
      BY <2>1, <2>3, <3>1 DEF HeardInv, HeardOK, CancelInv
    <3>3. \A n \in Bookings : rows[n].of # b
      BY <2>1, <2>3 DEF MoveInv, MoveOK
    <3>4. ~Replaced(b)
      BY <2>1, <3>3 DEF Replaced, GuestTypeOK
    <3> QED
      BY <3>2, <3>4
  <2>6. ASSUME NEW b \in Announced
        PROVE  b \in Standing
    <3>1. b \in Bookings
      BY <2>1, <2>4 DEF Requested, GuestTypeOK
    <3> QED
      BY <2>1, <2>3, <2>4, <3>1 DEF EndInv, EndOK
  <2> QED
    BY <2>4, <2>5, <2>6
<1> QED
  BY <1>1, GuestInvariant, PTL

-----------------------------------------------------------------------------
(* The line of a booking: it is what its equation says, it never changes, and  *)
(* it ends at the first booking.                                               *)

Hop(rs, line, b) == IF b = 0 \/ rs[b].of = Nothing THEN <<>> ELSE <<rs[b].of>> \o line[rs[b].of]
Line(rs) == CHOOSE line : line = [b \in 0..Len(rs) |-> Hop(rs, line, b)]
Table(rs) == rs \in Seq(BookingRow) /\ \A b \in 1..Len(rs) : rs[b].of < b

LEMMA TableIs ==
  ASSUME NEW rs, Table(rs)
  PROVE  Len(rs) \in Nat /\ \A b \in 1..Len(rs) : b \in Nat \ {0} /\ rs[b].of \in 0..(b - 1)
<1>1. ASSUME NEW b \in 1..Len(rs)
      PROVE  rs[b].of \in Nat /\ rs[b].of < b
  <2>1. rs[b] \in BookingRow /\ rs[b].of < b
    BY DEF Table
  <2> QED
    BY <2>1 DEF BookingRow
<1>2. Len(rs) \in Nat
  BY DEF Table
<1>3. ASSUME NEW b \in 1..Len(rs)
      PROVE  b \in Nat \ {0} /\ rs[b].of \in 0..(b - 1)
  BY <1>1, <1>2
<1> QED
  BY <1>2, <1>3

LEMMA LineExists ==
  ASSUME NEW rs, Table(rs), NEW n \in 0..Len(rs)
  PROVE  \E g : g = [b \in 0..n |-> Hop(rs, g, b)]
<1> DEFINE Bad == {k \in 0..Len(rs) : ~\E g : g = [b \in 0..k |-> Hop(rs, g, b)]}
<1>1. SUFFICES ASSUME Bad # {}
               PROVE  FALSE
  OBVIOUS
<1>2. PICK k \in Bad : \A m \in Bad : k <= m
  <2>1. Bad \in SUBSET Nat
    BY TableIs
  <2> HIDE DEF Bad
  <2> QED
    BY <1>1, <2>1, LeastOf
<1>3. k \in 0..Len(rs) /\ k \in Nat /\ Len(rs) \in Nat /\ ~\E g : g = [b \in 0..k |-> Hop(rs, g, b)]
  BY TableIs
<1>4. k # 0
  <2> SUFFICES ASSUME k = 0
               PROVE  FALSE
    OBVIOUS
  <2> DEFINE g == [b \in 0..k |-> <<>>]
  <2>1. \A b \in 0..k : Hop(rs, g, b) = <<>>
    BY DEF Hop
  <2>2. g = [b \in 0..k |-> Hop(rs, g, b)]
    BY <2>1
  <2> QED
    BY <1>3, <2>2
<1>5. PICK g : g = [b \in 0..(k - 1) |-> Hop(rs, g, b)]
  <2>1. k - 1 \notin Bad /\ k - 1 \in 0..Len(rs)
    BY <1>2, <1>3, <1>4
  <2> QED
    BY <2>1
<1> DEFINE f == [b \in 0..k |-> IF b = k THEN Hop(rs, g, k) ELSE g[b]]
<1>6. ASSUME NEW b \in 0..k
      PROVE  f[b] = Hop(rs, f, b)
  <2>1. f[b] = Hop(rs, g, b)
    <3>1. b # k => b \in 0..(k - 1)
      BY <1>3
    <3> HIDE DEF Bad
    <3> QED
      BY <1>5, <3>1
  <2>2. CASE b = 0 \/ rs[b].of = Nothing
    BY <2>1, <2>2 DEF Hop
  <2>3. CASE b # 0 /\ rs[b].of # Nothing
    <3>1. rs[b].of \in 0..(k - 1) /\ rs[b].of \in 0..k /\ rs[b].of # k
      <4>1. b \in 1..Len(rs)
        BY <1>3, <2>3
      <4>2. rs[b].of \in 0..(b - 1)
        BY <4>1, TableIs
      <4> QED
        BY <1>3, <4>2
    <3>2. f[rs[b].of] = g[rs[b].of]
      BY <3>1
    <3> QED
      BY <2>1, <3>2 DEF Hop
  <2> QED
    BY <2>2, <2>3
<1>7. f = [b \in 0..k |-> Hop(rs, f, b)]
  BY <1>6
<1> HIDE DEF f
<1> QED
  BY <1>3, <1>7

LEMMA LineSolves ==
  ASSUME NEW rs, Table(rs)
  PROVE  \A b \in 0..Len(rs) : Line(rs)[b] = Hop(rs, Line(rs), b)
<1>1. Len(rs) \in 0..Len(rs)
  BY TableIs
<1>2. \E g : g = [b \in 0..Len(rs) |-> Hop(rs, g, b)]
  BY <1>1, LineExists
<1>3. Line(rs) = [b \in 0..Len(rs) |-> Hop(rs, Line(rs), b)]
  BY <1>2 DEF Line
<1> QED
  BY <1>3

\* The line of b: its elements, how it begins and where it ends.
LineOK(rs, b) ==
  /\ Line(rs)[b] \in Seq(Nat)
  /\ \A i \in 1..Len(Line(rs)[b]) : Line(rs)[b][i] \in 1..(b - 1)
  /\ Len(Line(rs)[b]) = 0 => rs[b].of = Nothing
  /\ Len(Line(rs)[b]) > 0 => rs[Line(rs)[b][Len(Line(rs)[b])]].of = Nothing

LEMMA LineIs ==
  ASSUME NEW rs, Table(rs), NEW b \in 1..Len(rs)
  PROVE  LineOK(rs, b)
<1> DEFINE Bad == {k \in 1..Len(rs) : ~LineOK(rs, k)}
<1>1. SUFFICES ASSUME Bad # {}
               PROVE  FALSE
  OBVIOUS
<1>2. PICK k \in Bad : \A m \in Bad : k <= m
  <2>1. Bad \in SUBSET Nat
    BY TableIs
  <2> HIDE DEF Bad
  <2> QED
    BY <1>1, <2>1, LeastOf
<1>3. k \in 1..Len(rs) /\ k \in 0..Len(rs) /\ k \in Nat \ {0} /\ rs[k].of \in 0..(k - 1) /\ ~LineOK(rs, k)
  BY TableIs
<1>4. Line(rs)[k] = Hop(rs, Line(rs), k)
  BY <1>3, LineSolves
<1>5. CASE rs[k].of = Nothing
  <2>1. Line(rs)[k] = <<>>
    BY <1>4, <1>5 DEF Hop
  <2> QED
    BY <1>3, <1>5, <2>1 DEF LineOK
<1>6. CASE rs[k].of # Nothing
  <2>1. PICK d \in 1..(k - 1) : d = rs[k].of
    BY <1>3, <1>6 DEF Nothing
  <2>2. LineOK(rs, d)
    <3>1. d \in 1..Len(rs) /\ ~(k <= d)
      BY <1>3, TableIs
    <3> QED
      BY <1>2, <3>1
  <2>3. PICK s \in Seq(Nat) : s = Line(rs)[d]
    BY <2>2 DEF LineOK
  <2>4. Line(rs)[k] = <<d>> \o s
    BY <1>3, <1>4, <1>6, <2>1, <2>3 DEF Hop
  <2>5. PICK q \in Seq(Nat) : q = <<d>> \o s /\ Len(q) = Len(s) + 1 /\ q[1] = d
                              /\ \A i \in 1..Len(s) : q[i + 1] = s[i]
    <3> DEFINE q == <<d>> \o s
    <3>1. d \in Nat /\ Len(s) \in Nat /\ <<d>> \in Seq(Nat) /\ Len(<<d>>) = 1 /\ <<d>>[1] = d
      OBVIOUS
    <3>2. q \in Seq(Nat) /\ Len(q) = Len(s) + 1 /\ q[1] = d
      BY <3>1
    <3>3. \A i \in 1..Len(s) : q[i + 1] = s[i]
      BY <3>1
    <3> HIDE DEF q
    <3>4. q = <<d>> \o s
      BY DEF q
    <3> QED
      BY <3>2, <3>3, <3>4
  <2>6. Line(rs)[k] = q /\ Len(s) \in Nat
    BY <2>4, <2>5
  <2>7. ASSUME NEW i \in 1..Len(q)
        PROVE  q[i] \in 1..(k - 1)
    <3>1. CASE i = 1
      BY <2>5, <3>1
    <3>2. CASE i # 1
      <4>1. i - 1 \in 1..Len(s) /\ (i - 1) + 1 = i
        BY <2>5, <2>6, <3>2
      <4>2. q[i] = s[i - 1] /\ s[i - 1] \in 1..(d - 1)
        BY <2>2, <2>3, <2>5, <4>1 DEF LineOK
      <4> QED
        BY <1>3, <4>2
    <3> QED
      BY <3>1, <3>2
  <2>8. rs[q[Len(q)]].of = Nothing
    <3>1. CASE Len(s) = 0
      BY <2>2, <2>3, <2>5, <3>1 DEF LineOK
    <3>2. CASE Len(s) > 0
      <4>1. Len(s) \in 1..Len(s)
        BY <2>6, <3>2
      <4>2. q[Len(q)] = s[Len(s)]
        BY <2>5, <4>1
      <4> QED
        BY <2>2, <2>3, <3>2, <4>2 DEF LineOK
    <3> QED
      BY <2>6, <3>1, <3>2
  <2>9. Len(q) # 0
    BY <2>5, <2>6
  <2> QED
    BY <1>3, <2>6, <2>7, <2>8, <2>9 DEF LineOK
<1> QED
  BY <1>5, <1>6

\* What is inserted later does not change the line of a booking.
LEMMA LineStays ==
  ASSUME NEW rs, NEW rt, Table(rs), Table(rt), Len(rs) <= Len(rt),
         \A b \in 1..Len(rs) : rt[b].of = rs[b].of
  PROVE  \A b \in 1..Len(rs) : Line(rt)[b] = Line(rs)[b]
<1> DEFINE Bad == {k \in 1..Len(rs) : Line(rt)[k] # Line(rs)[k]}
<1>1. SUFFICES ASSUME Bad # {}
               PROVE  FALSE
  OBVIOUS
<1>2. PICK k \in Bad : \A m \in Bad : k <= m
  <2>1. Bad \in SUBSET Nat
    BY TableIs
  <2> HIDE DEF Bad
  <2> QED
    BY <1>1, <2>1, LeastOf
<1>3. /\ k \in 1..Len(rs) /\ k \in 0..Len(rs) /\ k \in 0..Len(rt) /\ k \in Nat \ {0}
      /\ rs[k].of \in 0..(k - 1) /\ rt[k].of = rs[k].of /\ Line(rt)[k] # Line(rs)[k]
  BY TableIs
<1>4. Line(rs)[k] = Hop(rs, Line(rs), k) /\ Line(rt)[k] = Hop(rt, Line(rt), k)
  BY <1>3, LineSolves
<1>5. CASE rs[k].of = Nothing
  BY <1>3, <1>4, <1>5 DEF Hop
<1>6. CASE rs[k].of # Nothing
  <2>1. PICK d \in 1..(k - 1) : d = rs[k].of
    BY <1>3, <1>6 DEF Nothing
  <2>2. d \in 1..Len(rs) /\ ~(k <= d)
    BY <1>3, TableIs
  <2>3. Line(rt)[d] = Line(rs)[d]
    BY <1>2, <2>2
  <2> QED
    BY <1>3, <1>4, <2>1, <2>3 DEF Hop
<1> QED
  BY <1>5, <1>6

-----------------------------------------------------------------------------
(* What the guest's calendar keeps of the mails, and what they say of a line. *)

Entry == [seq : Nat, shows : Nat, known : BOOLEAN]
Extra(method) == IF method = "CANCEL" THEN 1 ELSE 0

\* Only the first booking moves nothing; only what was moved has a successor.
RowsInv ==
  \A b \in Bookings : (rows[b].of = Nothing => b = 1) /\ (rows[b].status # "rescheduled" => rows[b].to = Nothing)

CancellingOK(j) == j.kind = "cancel" /\ j.at \in {"rotate", "mail"} => rows[j.old].status = "cancelled"

\* A mail that knew the line has the UID of the first booking and counts moves.
MailOK(m) ==
  /\ m.seq \in Nat
  /\ m.method = "CANCEL" => rows[m.about].status = "cancelled"
  /\ ~m.lag /\ Len(Lineage[m.about]) <= MaxHops + 1 =>
       m.uid = 1 /\ m.seq = Len(Lineage[m.about]) + Extra(m.method)

Shown(m) == IF m.method = "CANCEL" THEN Nothing ELSE m.about
EntryOK(uid) ==
  IF calendar[uid].known
    THEN \E m \in mails : m.uid = uid /\ m.seq = calendar[uid].seq /\ Shown(m) = calendar[uid].shows
    ELSE calendar[uid].shows = Nothing

CalendarInv ==
  /\ RowsInv
  /\ \A h \in Handlers : CancellingOK(handler[h])
  /\ \A m \in mails : MailOK(m)
  /\ calendar \in [1..MaxBookings -> Entry] /\ \A uid \in 1..MaxBookings : EntryOK(uid)

LEMMA LineageIs ==
  ASSUME GuestTypeOK
  PROVE  Table(rows) /\ Lineage = Line(rows) /\ Bookings = 1..Len(rows)
<1>1. Lineage = Line(rows)
  BY DEF Lineage, Line, Hop
<1> QED
  BY <1>1 DEF GuestTypeOK, Table, Bookings

\* Bookings are added; what was cancelled stays so.
RowsGrow ==
  /\ Bookings \subseteq Bookings'
  /\ \A b \in Bookings : rows'[b].of = rows[b].of /\ (rows[b].status = "cancelled" => rows'[b].status = "cancelled")

LEMMA LineageStays ==
  ASSUME GuestTypeOK, GuestTypeOK', RowsGrow, NEW b \in Bookings
  PROVE  Lineage'[b] = Lineage[b]
<1>1. Table(rows) /\ Lineage = Line(rows) /\ Bookings = 1..Len(rows)
  BY LineageIs
<1>2. Table(rows') /\ Lineage' = Line(rows') /\ Bookings' = 1..Len(rows')
  <2>1. Lineage' = Line(rows')
    BY DEF Lineage, Line, Hop
  <2> QED
    BY <2>1 DEF GuestTypeOK, Table, Bookings
<1>3. Len(rows) <= Len(rows')
  <2>1. Len(rows) \in Nat /\ Len(rows') \in Nat
    BY <1>1, <1>2, TableIs
  <2>2. Len(rows) # 0 => Len(rows) \in Bookings'
    BY <1>1, <2>1 DEF RowsGrow
  <2> QED
    BY <1>2, <2>1, <2>2
<1>4. \A c \in 1..Len(rows) : rows'[c].of = rows[c].of
  BY <1>1 DEF RowsGrow
<1> QED
  BY <1>1, <1>2, <1>3, <1>4, LineStays

\* A request goes on, rows are added and end, mails are added: the calendar is
\* still kept.
LEMMA CalendarStep ==
  ASSUME GuestInv, GuestTypeOK', CalendarInv, RowsGrow, RowsInv',
         NEW h \in Handlers, NEW j, \A i \in Handlers : handler'[i] = IF i = h THEN j ELSE handler[i],
         CancellingOK(j)', mails \subseteq mails', \A m \in mails' \ mails : MailOK(m)', UNCHANGED calendar
  PROVE  CalendarInv'
<1>1. GuestTypeOK
  BY DEF GuestInv
<1>2. ASSUME NEW i \in Handlers
      PROVE  CancellingOK(handler[i])'
  <2>1. CASE i = h
    BY <2>1 DEF CancellingOK
  <2>2. CASE i # h
    <3>1. PICK k \in Handling : k = handler[i] /\ k = handler'[i] /\ HandlerOK(k) /\ CancellingOK(k)
      BY <2>2, HandlerIs DEF CalendarInv
    <3>2. k.at \in {"rotate", "mail"} => k.old \in Bookings
      BY <3>1 DEF HandlerOK
    <3>3. CancellingOK(k)'
      BY <3>1, <3>2 DEF CancellingOK, RowsGrow
    <3> QED
      BY <3>1, <3>3 DEF CancellingOK
  <2> QED
    BY <2>1, <2>2
<1>3. ASSUME NEW m \in mails
      PROVE  MailOK(m)'
  <2>1. m.about \in Bookings /\ MailOK(m)
    BY <1>1 DEF GuestTypeOK, CalendarInv
  <2>2. Lineage'[m.about] = Lineage[m.about]
    BY <1>1, <2>1, LineageStays
  <2> QED
    BY <2>1, <2>2 DEF MailOK, RowsGrow
<1>4. \A m \in mails' : MailOK(m)'
  BY <1>3
<1>5. ASSUME NEW uid \in 1..MaxBookings
      PROVE  EntryOK(uid)'
  <2>1. EntryOK(uid)
    BY DEF CalendarInv
  <2> QED
    BY <2>1 DEF EntryOK
<1> QED
  BY <1>2, <1>4, <1>5 DEF CalendarInv

LEMMA EndedRow ==
  ASSUME GuestTypeOK, RowsInv, NEW b \in Bookings, NEW how \in {"cancelled", "rescheduled"}, NEW to \in Nat,
         how = "rescheduled" \/ to = Nothing, rows' = EndBooking(b, how, to)
  PROVE  RowsGrow /\ RowsInv' /\ (b \in Standing => rows'[b].status = how)
<1>1. CASE b \notin Standing
  <2>1. rows' = rows
    BY <1>1 DEF EndBooking
  <2> QED
    BY <1>1, <2>1 DEF RowsGrow, RowsInv, Bookings
<1>2. CASE b \in Standing
  <2>1. rows \in Seq(BookingRow) /\ b \in 1..Len(rows) /\ rows[b] \in BookingRow
    BY BookingIs DEF GuestTypeOK, Bookings
  <2>2. PICK r : r = [rows[b] EXCEPT !.status = how, !.to = to] /\ r.of = rows[b].of /\ r.status = how /\ r.to = to
    <3> DEFINE r == [rows[b] EXCEPT !.status = how, !.to = to]
    <3>1. r.of = rows[b].of /\ r.status = how /\ r.to = to
      BY <2>1 DEF BookingRow
    <3> HIDE DEF r
    <3>2. r = [rows[b] EXCEPT !.status = how, !.to = to]
      BY DEF r
    <3> QED
      BY <3>1, <3>2
  <2>3. rows' = [rows EXCEPT ![b] = r]
    BY <1>2, <2>1, <2>2 DEF EndBooking
  <2>4. Len(rows') = Len(rows) /\ rows'[b] = r /\ \A c \in Bookings : c # b => rows'[c] = rows[c]
    BY <2>1, <2>3 DEF Bookings
  <2>5. Bookings' = Bookings
    BY <2>4 DEF Bookings
  <2>6. rows[b].status = "confirmed"
    BY <1>2 DEF Standing
  <2>7. RowsGrow
    BY <2>2, <2>4, <2>5, <2>6 DEF RowsGrow
  <2>8. ASSUME NEW c \in Bookings
        PROVE  (rows'[c].of = Nothing => c = 1) /\ (rows'[c].status # "rescheduled" => rows'[c].to = Nothing)
    <3>1. CASE c = b
      BY <2>2, <2>4, <3>1 DEF RowsInv
    <3>2. CASE c # b
      BY <2>4, <3>2 DEF RowsInv
    <3> QED
      BY <3>1, <3>2
  <2> QED
    BY <2>2, <2>4, <2>5, <2>7, <2>8 DEF RowsInv
<1> QED
  BY <1>1, <1>2

LEMMA InsertedRow ==
  ASSUME GuestTypeOK, RowsInv, NEW of \in Bookings \cup {Nothing}, of = Nothing => rows = <<>>, NewBooking(of)
  PROVE  RowsGrow /\ RowsInv'
<1>1. PICK r : /\ rows' = Append(rows, r) /\ r.of = of /\ r.to = Nothing
  BY DEF NewBooking
<1>2. rows \in Seq(BookingRow) /\ Len(rows) \in Nat
  BY DEF GuestTypeOK
<1>3. Len(rows') = Len(rows) + 1 /\ rows'[Len(rows')] = r /\ \A b \in 1..Len(rows) : rows'[b] = rows[b]
  BY <1>1, <1>2
<1>4. Bookings' = Bookings \cup {Len(rows')} /\ \A b \in Bookings : rows'[b] = rows[b]
  BY <1>2, <1>3 DEF Bookings
<1>5. of = Nothing => Len(rows') = 1
  BY <1>2, <1>3
<1> QED
  BY <1>1, <1>3, <1>4, <1>5 DEF RowsGrow, RowsInv

\* buildAttachment: however much of the chain the replica knew, the mail has a
\* sequence; if it knew enough, that of the whole line.
LEMMA AttachmentIs ==
  ASSUME GuestTypeOK, RowsInv, NEW b \in Bookings, NEW method \in {"REQUEST", "CANCEL"}, NEW replica \in Nat,
         NEW x, x = Attachment(b, method, replica)
  PROVE  /\ x.about = b /\ x.method = method /\ x.seq \in Nat
         /\ ~x.lag /\ Len(Lineage[b]) <= MaxHops + 1 => x.uid = 1 /\ x.seq = Len(Lineage[b]) + Extra(method)
<1>1. Table(rows) /\ Lineage = Line(rows) /\ Bookings = 1..Len(rows)
  BY LineageIs
<1>2. PICK s \in Seq(Nat) : s = Lineage[b]
  BY <1>1, LineIs DEF LineOK
<1>3. PICK n \in Nat : n = Len(s)
  BY <1>2
<1>4. PICK loaded : loaded = LoadChain(b, replica)
  OBVIOUS
<1> DEFINE known == {k \in 0..n : k <= MaxHops /\ \A i \in 1..k : s[i] <= replica}
<1>5. loaded \in known /\ \A k \in known : k <= loaded
  <2>1. \E k \in known : \A m \in known : m <= k
    <3> DEFINE rest == {n - k : k \in known}
    <3>1. 0 \in known /\ \A k \in known : k \in Nat /\ k <= n
      BY InvitationsAssumption
    <3> HIDE DEF known
    <3>2. rest \in SUBSET Nat /\ rest # {}
      BY <3>1
    <3>3. PICK t \in rest : \A u \in rest : t <= u
      BY <3>2, LeastOf
    <3>4. PICK k \in known : t = n - k
      BY <3>3
    <3>5. ASSUME NEW m \in known
          PROVE  m <= k
      <4>1. n - m \in rest
        OBVIOUS
      <4>2. t <= n - m
        BY <3>3, <4>1
      <4> HIDE DEF rest
      <4> QED
        BY <3>1, <3>4, <4>2
    <3> QED
      BY <3>4, <3>5
  <2>2. loaded = CHOOSE k \in known : \A m \in known : m <= k
    BY <1>2, <1>3, <1>4 DEF LoadChain
  <2> HIDE DEF known
  <2> QED
    BY <2>1, <2>2
<1>6. loaded \in 0..n /\ loaded \in Nat /\ loaded <= MaxHops /\ MaxHops \in Nat
  BY <1>5, InvitationsAssumption
<1>7. PICK hops : hops = Hops(b, loaded)
  OBVIOUS
<1>8. hops = (IF loaded < n THEN loaded + 1 ELSE loaded) /\ hops \in Nat
  BY <1>2, <1>3, <1>6, <1>7 DEF Hops
<1>9. /\ x.about = b /\ x.method = method /\ x.uid = IcsUid(b, loaded) /\ x.seq = IcsSequence(b, loaded, method)
      /\ x.lag = Lags(b, replica)
  BY <1>4 DEF Attachment
<1>10. x.seq = hops + Extra(method)
  BY <1>7, <1>9 DEF IcsSequence, Extra
<1>11. ASSUME ~x.lag, n <= MaxHops + 1
       PROVE  hops = n
  <2>1. \A i \in 1..n : ~(s[i] > replica)
    BY <1>2, <1>3, <1>9, <1>11 DEF Lags
  <2>2. CASE n <= MaxHops
    <3>1. \A i \in 1..n : s[i] <= replica
      BY <1>2, <1>3, <2>1
    <3>2. n \in known
      BY <2>2, <3>1
    <3> QED
      BY <1>5, <1>6, <1>8, <3>2
  <2>3. CASE n = MaxHops + 1
    <3>0. \A i \in 1..n : s[i] \in Nat
      BY <1>2, <1>3
    <3>1. \A i \in 1..MaxHops : i \in 1..n /\ s[i] \in Nat
      BY <1>6, <2>3, <3>0
    <3>2. MaxHops \in known
      BY <1>6, <2>1, <2>3, <3>1
    <3> QED
      BY <1>5, <1>6, <1>8, <2>3, <3>2
  <2> HIDE DEF known
  <2> QED
    BY <1>3, <1>6, <1>11, <2>2, <2>3
<1>12. ASSUME hops = n
       PROVE  x.uid = 1
  <2>1. x.uid = IF n = 0 THEN b ELSE s[n]
    BY <1>2, <1>7, <1>9, <1>12 DEF IcsUid
  <2>2. LineOK(rows, b) /\ s = Line(rows)[b]
    BY <1>1, <1>2, LineIs
  <2>3. CASE n = 0
    BY <1>1, <1>3, <2>1, <2>2, <2>3 DEF LineOK, RowsInv
  <2>4. CASE n # 0
    <3>1. rows[s[n]].of = Nothing /\ n \in 1..n
      BY <1>3, <2>2, <2>4 DEF LineOK
    <3>2. s[n] \in 1..(b - 1)
      BY <1>3, <2>2, <3>1 DEF LineOK
    <3>3. s[n] \in Bookings
      BY <1>1, <3>2, TableIs
    <3> QED
      BY <2>1, <2>4, <3>1, <3>3 DEF RowsInv
  <2> QED
    BY <2>3, <2>4
<1>13. x.seq \in Nat
  BY <1>8, <1>10 DEF Extra
<1> QED
  BY <1>2, <1>3, <1>9, <1>10, <1>11, <1>12, <1>13

\* A step of a request.
LEMMA CalendarActs ==
  ASSUME GuestInv, GuestTypeOK', CalendarInv, NEW h \in Handlers,
         \/ Look(h) \/ CancelIt(h) \/ BookNew(h) \/ NoneBooked(h) \/ MarkMoved(h) \/ Undo(h)
         \/ Rotate(h) \/ Mail(h) \/ BreakOff(h)
  PROVE  CalendarInv'
<1>1. GuestTypeOK /\ RowsInv /\ handler[h] \in Handling /\ HandlerOK(handler[h]) /\ CancellingOK(handler[h])
  BY HandlerIs DEF CalendarInv
<1>2. ASSUME UNCHANGED rows
      PROVE  RowsGrow /\ RowsInv'
  BY <1>1, <1>2 DEF RowsGrow, RowsInv, Bookings
<1>3. ASSUME Rest(h)
      PROVE  (\A i \in Handlers : handler'[i] = IF i = h THEN Resting ELSE handler[i]) /\ CancellingOK(Resting)'
  <2>1. handler' = [handler EXCEPT ![h] = Resting]
    BY <1>3 DEF Rest
  <2> QED
    BY <1>1, <2>1, RestingIs, HandlerStep DEF CancellingOK
<1>4. CASE Look(h)
  <2>1. PICK b \in Standing, kind \in {"cancel", "move"}, byGuest \in BOOLEAN :
          handler' = [handler EXCEPT ![h] = [Resting EXCEPT !.at = kind, !.kind = kind, !.byGuest = byGuest, !.old = b]]
    BY <1>4 DEF Look
  <2>2. PICK j : j = [Resting EXCEPT !.at = kind, !.kind = kind, !.byGuest = byGuest, !.old = b] /\ j.at = kind
    <3> DEFINE j == [Resting EXCEPT !.at = kind, !.kind = kind, !.byGuest = byGuest, !.old = b]
    <3>1. j.at = kind
      BY DEF Resting
    <3> HIDE DEF j
    <3>2. j = [Resting EXCEPT !.at = kind, !.kind = kind, !.byGuest = byGuest, !.old = b]
      BY DEF j
    <3> QED
      BY <3>1, <3>2
  <2>3. \A i \in Handlers : handler'[i] = IF i = h THEN j ELSE handler[i]
    BY <1>1, <2>1, <2>2 DEF GuestTypeOK
  <2>4. CancellingOK(j)'
    BY <2>2 DEF CancellingOK
  <2> QED
    BY <1>2, <1>4, <2>3, <2>4, CalendarStep DEF Look
<1>5. CASE NoneBooked(h) \/ BreakOff(h)
  BY <1>2, <1>3, <1>5, CalendarStep DEF NoneBooked, BreakOff
<1>6. CASE CancelIt(h)
  <2>1. handler[h].at = "cancel" /\ handler[h].kind = "cancel" /\ handler[h].old \in Bookings
    BY <1>1, <1>6 DEF CancelIt, InStage, HandlerOK
  <2>2. RowsGrow /\ RowsInv' /\ (handler[h].old \in Standing => rows'[handler[h].old].status = "cancelled")
    BY <1>1, <1>6, <2>1, EndedRow DEF CancelIt, Nothing
  <2>3. CASE handler[h].old \in Standing
    <3>1. PICK at \in {"rotate", "mail"} : GoOn(h, at)
      BY <1>6, <2>3 DEF CancelIt, NextStage
    <3>2. PICK j \in Handling : handler' = [handler EXCEPT ![h] = j] /\ j.old = handler[h].old
      BY <1>1, <3>1, GoOnIs
    <3>3. \A i \in Handlers : handler'[i] = IF i = h THEN j ELSE handler[i]
      BY <1>1, <3>2, HandlerStep
    <3>4. CancellingOK(j)'
      BY <2>2, <2>3, <3>2 DEF CancellingOK
    <3> QED
      BY <1>6, <2>2, <3>3, <3>4, CalendarStep DEF CancelIt
  <2>4. CASE handler[h].old \notin Standing
    BY <1>3, <1>6, <2>2, <2>4, CalendarStep DEF CancelIt
  <2> QED
    BY <2>3, <2>4
<1>7. CASE BookNew(h)
  <2>1. handler[h].old \in Bookings /\ NewBooking(handler[h].old)
    BY <1>1, <1>7 DEF BookNew, InStage, HandlerOK
  <2>2. RowsGrow /\ RowsInv'
    <3>1. handler[h].old # Nothing
      BY <2>1 DEF Bookings, Nothing
    <3> QED
      BY <1>1, <2>1, <3>1, InsertedRow
  <2>3. PICK j : j = [handler[h] EXCEPT !.at = "mark", !.new = Len(rows')] /\ j.at = "mark"
    <3> DEFINE j == [handler[h] EXCEPT !.at = "mark", !.new = Len(rows')]
    <3>1. j.at = "mark"
      BY <1>1 DEF Handling
    <3> HIDE DEF j
    <3>2. j = [handler[h] EXCEPT !.at = "mark", !.new = Len(rows')]
      BY DEF j
    <3> QED
      BY <3>1, <3>2
  <2>4. \A i \in Handlers : handler'[i] = IF i = h THEN j ELSE handler[i]
    BY <1>1, <1>7, <2>3 DEF BookNew, GuestTypeOK
  <2>5. CancellingOK(j)'
    BY <2>3 DEF CancellingOK
  <2> QED
    BY <1>7, <2>2, <2>4, <2>5, CalendarStep DEF BookNew
<1>8. CASE MarkMoved(h)
  <2>1. handler[h].at = "mark" /\ handler[h].kind = "move" /\ handler[h].old \in Bookings /\ handler[h].new \in Nat
    BY <1>1, <1>8 DEF MarkMoved, InStage, HandlerOK, Handling
  <2>2. RowsGrow /\ RowsInv'
    BY <1>1, <1>8, <2>1, EndedRow DEF MarkMoved
  <2>3. PICK at \in {"rotate", "mail", "undo"} : GoOn(h, at)
    BY <1>8 DEF MarkMoved, NextStage
  <2>4. PICK j \in Handling : handler' = [handler EXCEPT ![h] = j] /\ j.kind = "move"
    BY <1>1, <2>1, <2>3, GoOnIs
  <2>5. \A i \in Handlers : handler'[i] = IF i = h THEN j ELSE handler[i]
    BY <1>1, <2>4, HandlerStep
  <2>6. CancellingOK(j)'
    BY <2>4 DEF CancellingOK
  <2> QED
    BY <1>8, <2>2, <2>5, <2>6, CalendarStep DEF MarkMoved
<1>9. CASE Undo(h)
  <2>1. handler[h].new \in Bookings
    BY <1>1, <1>9 DEF Undo, InStage, HandlerOK
  <2>2. RowsGrow /\ RowsInv'
    BY <1>1, <1>9, <2>1, EndedRow DEF Undo, Nothing
  <2> QED
    BY <1>3, <1>9, <2>2, CalendarStep DEF Undo
<1>10. CASE Rotate(h)
  <2>1. handler[h].at = "rotate" /\ handler[h].old \in Bookings
    BY <1>1, <1>10 DEF Rotate, InStage, HandlerOK
  <2>2. RowsGrow /\ RowsInv' /\ \A b \in Bookings : rows'[b].status = rows[b].status
    <3>1. rows \in Seq(BookingRow) /\ Bookings = 1..Len(rows) /\ rows[handler[h].old] \in BookingRow
      BY <1>1, <2>1, BookingIs DEF GuestTypeOK, Bookings
    <3>2. rows' = [rows EXCEPT ![handler[h].old].link = "rotated"]
      BY <1>10 DEF Rotate
    <3>3. Len(rows') = Len(rows)
      BY <3>1, <3>2
    <3>4. \A b \in Bookings : rows'[b].status = rows[b].status /\ rows'[b].of = rows[b].of /\ rows'[b].to = rows[b].to
      BY <2>1, <3>1, <3>2 DEF BookingRow
    <3>5. Bookings' = Bookings
      BY <3>1, <3>3 DEF Bookings
    <3> QED
      BY <1>1, <3>4, <3>5 DEF RowsGrow, RowsInv
  <2>3. PICK j \in Handling : handler' = [handler EXCEPT ![h] = j] /\ j.kind = handler[h].kind /\ j.old = handler[h].old
    BY <1>1, <1>10, GoOnIs DEF Rotate
  <2>4. \A i \in Handlers : handler'[i] = IF i = h THEN j ELSE handler[i]
    BY <1>1, <2>3, HandlerStep
  <2>5. CancellingOK(j)'
    BY <1>1, <2>1, <2>2, <2>3 DEF CancellingOK
  <2> QED
    BY <1>10, <2>2, <2>4, <2>5, CalendarStep DEF Rotate
<1>11. CASE Mail(h)
  <2>1. PICK b \in Bookings, method \in {"REQUEST", "CANCEL"} :
          Notify(b, method) /\ (method = "CANCEL" => rows[b].status = "cancelled")
    <3>1. handler[h].at = "mail"
      BY <1>11 DEF Mail, InStage
    <3>2. CASE handler[h].kind = "move"
      <4>1. handler[h].new \in Bookings
        BY <1>1, <3>1, <3>2 DEF HandlerOK
      <4> QED
        BY <1>11, <3>2, <4>1 DEF Mail
    <3>3. CASE handler[h].kind = "cancel"
      <4>1. handler[h].old \in Bookings /\ rows[handler[h].old].status = "cancelled"
        BY <1>1, <3>1, <3>3 DEF HandlerOK, CancellingOK
      <4> QED
        BY <1>11, <3>3, <4>1 DEF Mail
    <3> QED
      BY <1>1, <3>2, <3>3 DEF Handling
  <2>2. PICK replica \in Nat : mails' = mails \cup {Attachment(b, method, replica)}
    BY <2>1 DEF Notify
  <2> PICK x : x = Attachment(b, method, replica)
    OBVIOUS
  <2>3. /\ x.about = b /\ x.method = method /\ x.seq \in Nat
        /\ ~x.lag /\ Len(Lineage[b]) <= MaxHops + 1 => x.uid = 1 /\ x.seq = Len(Lineage[b]) + Extra(method)
    BY <1>1, AttachmentIs
  <2>4. MailOK(x)
    BY <2>1, <2>3 DEF MailOK
  <2>5. rows' = rows
    BY <1>11 DEF Mail
  <2>6. Lineage' = Lineage
    BY <2>5 DEF Lineage
  <2>7. MailOK(x)'
    BY <2>4, <2>5, <2>6 DEF MailOK
  <2> QED
    BY <1>2, <1>3, <1>11, <2>2, <2>5, <2>7, CalendarStep DEF Mail
<1> QED
  BY <1>4, <1>5, <1>6, <1>7, <1>8, <1>9, <1>10, <1>11

LEMMA CalendarBooks ==
  ASSUME GuestInv, GuestTypeOK', CalendarInv, BookFirst
  PROVE  CalendarInv'
<1>1. GuestTypeOK /\ RowsInv /\ rows = <<>> /\ NewBooking(Nothing) /\ UNCHANGED <<handler, calendar>>
  BY DEF GuestInv, CalendarInv, BookFirst
<1>2. RowsGrow /\ RowsInv'
  BY <1>1, InsertedRow
<1>3. mails = {} /\ Bookings = {}
  BY <1>1 DEF GuestTypeOK, Bookings
<1>4. Len(rows') = 1 /\ rows'[1].of = Nothing
  BY <1>1 DEF NewBooking
<1>5. PICK x : mails' = {x} /\ x.about = 1 /\ x.method = "REQUEST" /\ x.uid = 1 /\ x.seq = 0
  <2> DEFINE x == [about |-> 1, method |-> "REQUEST", uid |-> 1, seq |-> 0, lag |-> FALSE]
  <2>1. mails' = {x}
    BY <1>3, <1>4 DEF BookFirst
  <2>2. x.about = 1 /\ x.method = "REQUEST" /\ x.uid = 1 /\ x.seq = 0
    OBVIOUS
  <2> HIDE DEF x
  <2> QED
    BY <2>1, <2>2
<1>6. Lineage'[1] = <<>>
  <2>1. Table(rows') /\ Lineage' = Line(rows')
    <3>1. Lineage' = Line(rows')
      BY DEF Lineage, Line, Hop
    <3> QED
      BY <3>1 DEF GuestTypeOK, Table, Bookings
  <2>2. Line(rows')[1] = Hop(rows', Line(rows'), 1)
    BY <1>4, <2>1, LineSolves
  <2> QED
    BY <1>4, <2>1, <2>2 DEF Hop
<1>7. MailOK(x)'
  BY <1>5, <1>6 DEF MailOK, Extra
<1>8. \A h \in Handlers : CancellingOK(handler[h])'
  <2>1. ASSUME NEW h \in Handlers
        PROVE  handler[h].at = "idle"
    BY <1>3, HandlerIs DEF HandlerOK
  <2> QED
    BY <1>1, <2>1 DEF CancellingOK
<1>9. ASSUME NEW uid \in 1..MaxBookings
      PROVE  EntryOK(uid)'
  BY <1>1, <1>3 DEF CalendarInv, EntryOK
<1> QED
  BY <1>1, <1>2, <1>5, <1>7, <1>8, <1>9 DEF CalendarInv

\* The mail client keeps what is not older than what it has.
LEMMA CalendarTakes ==
  ASSUME GuestInv, CalendarInv, NEW m \in mails, Deliver(m)
  PROVE  CalendarInv'
<1>1. UNCHANGED <<rows, handler, mails>> /\ m.about \in Nat /\ m.seq \in Nat
  BY DEF GuestInv, GuestTypeOK, Deliver, CalendarInv, MailOK, Bookings
<1>2. PICK kept \in Entry : /\ kept.known = TRUE /\ kept.seq = m.seq /\ kept.shows = Shown(m)
                            /\ calendar' = [calendar EXCEPT ![m.uid] = kept]
  <2> DEFINE kept == [seq |-> m.seq, known |-> TRUE, shows |-> IF m.method = "CANCEL" THEN Nothing ELSE m.about]
  <2>1. calendar' = [calendar EXCEPT ![m.uid] = kept]
    BY DEF Deliver
  <2>2. kept \in Entry /\ kept.known = TRUE /\ kept.seq = m.seq /\ kept.shows = Shown(m)
    BY <1>1 DEF Entry, Shown, Nothing
  <2> HIDE DEF kept
  <2> QED
    BY <2>1, <2>2
<1>3. calendar \in [1..MaxBookings -> Entry]
  BY DEF CalendarInv
<1>4. calendar' \in [1..MaxBookings -> Entry]
      /\ \A uid \in 1..MaxBookings : calendar'[uid] = IF uid = m.uid THEN kept ELSE calendar[uid]
  BY <1>2, <1>3
<1>5. ASSUME NEW uid \in 1..MaxBookings
      PROVE  EntryOK(uid)'
  <2>1. CASE uid = m.uid
    BY <1>1, <1>2, <1>4, <2>1 DEF EntryOK
  <2>2. CASE uid # m.uid
    BY <1>1, <1>4, <2>2 DEF CalendarInv, EntryOK
  <2> QED
    BY <2>1, <2>2
<1>6. RowsInv' /\ \A n \in mails' : MailOK(n)'
  BY <1>1 DEF CalendarInv, RowsInv, Bookings, MailOK, Lineage
<1>7. \A h \in Handlers : CancellingOK(handler[h])'
  BY <1>1 DEF CalendarInv, CancellingOK
<1> QED
  BY <1>4, <1>5, <1>6, <1>7 DEF CalendarInv

LEMMA CalendarKeeps ==
  GuestInv /\ GuestInv' /\ CalendarInv /\ [Next]_meetingVars => CalendarInv'
<1> SUFFICES ASSUME GuestInv, GuestInv', CalendarInv, [Next]_meetingVars
             PROVE  CalendarInv'
  OBVIOUS
<1>1. GuestTypeOK'
  BY DEF GuestInv
<1>2. CASE InvitationsNext
  BY <1>1, <1>2, CalendarBooks, CalendarActs, CalendarTakes DEF InvitationsNext
<1>3. CASE UNCHANGED invitationVars
  <2>1. rows' = rows /\ handler' = handler /\ mails' = mails /\ calendar' = calendar
    BY <1>3 DEF invitationVars
  <2>2. RowsInv'
    BY <2>1 DEF CalendarInv, RowsInv, Bookings
  <2>3. \A h \in Handlers : CancellingOK(handler[h])'
    BY <2>1 DEF CalendarInv, CancellingOK
  <2>4. Lineage' = Lineage
    BY <2>1 DEF Lineage
  <2>5. \A m \in mails' : MailOK(m)'
    BY <2>1, <2>4 DEF CalendarInv, MailOK
  <2>6. \A uid \in 1..MaxBookings : EntryOK(uid)'
    BY <2>1 DEF CalendarInv, EntryOK
  <2> QED
    BY <2>1, <2>2, <2>3, <2>5, <2>6 DEF CalendarInv
<1> QED
  BY <1>2, <1>3 DEF Next, Tables, Guest, Visit, meetingVars

LEMMA CalendarBegins ==
  Init => CalendarInv
<1> SUFFICES ASSUME InvitationsInit
             PROVE  CalendarInv
  BY DEF Init
<1>1. Bookings = {} /\ mails = {}
  BY DEF InvitationsInit, Bookings
<1>2. \A h \in Handlers : CancellingOK(handler[h])
  BY RestingIs DEF InvitationsInit, CancellingOK
<1>3. calendar \in [1..MaxBookings -> Entry] /\ \A uid \in 1..MaxBookings : EntryOK(uid)
  BY DEF InvitationsInit, Entry, EntryOK, Nothing
<1> QED
  BY <1>1, <1>2, <1>3 DEF CalendarInv, RowsInv

LEMMA CalendarInvariant ==
  Spec => [](GuestInv /\ CalendarInv)
<1> QED
  BY GuestBegins, GuestKeeps, CalendarBegins, CalendarKeeps, PTL DEF Spec

-----------------------------------------------------------------------------
(* Two lines from the first booking, each of whose members replaced the one    *)
(* before it, are one line: a booking has one successor.                       *)

\* The member of b's line i moves after the first booking.
Nth(b, i) == IF i = Len(Lineage[b]) THEN b ELSE Lineage[b][Len(Lineage[b]) - i]

LEMMA NthIs ==
  ASSUME GuestTypeOK, RowsInv, NEW b \in Bookings
  PROVE  /\ Len(Lineage[b]) \in Nat /\ Nth(b, 0) = 1 /\ Root(b) = 1
         /\ OnTheLine(b) => \A i \in 0..(Len(Lineage[b]) - 1) : rows[Nth(b, i)].to = Nth(b, i + 1)
         /\ \A i \in 1..Len(Lineage[b]) : Nth(b, i) # Nothing
<1>1. Table(rows) /\ Lineage = Line(rows) /\ Bookings = 1..Len(rows) /\ LineOK(rows, b)
  BY LineageIs, LineIs
<1>2. PICK s \in Seq(Nat) : s = Lineage[b] /\ Len(s) \in Nat
  BY <1>1 DEF LineOK
<1>3. PICK n \in Nat : n = Len(s)
  BY <1>2
<1>4. \A i \in 1..n : s[i] \in 1..(b - 1)
  BY <1>1, <1>2, <1>3 DEF LineOK
<1>5. Len(Lineage[b]) \in Nat
  BY <1>2
<1>6. CASE n = 0
  <2>1. b = 1
    BY <1>1, <1>2, <1>3, <1>6 DEF LineOK, RowsInv
  <2>2. Lineage[b] = <<>>
    <3>1. rows[b].of = Nothing /\ b \in 0..Len(rows)
      BY <1>1, <1>2, <1>3, <1>6, TableIs DEF LineOK
    <3> QED
      BY <1>1, <3>1, LineSolves DEF Hop
  <2> QED
    BY <1>2, <1>3, <1>6, <2>1, <2>2 DEF Nth, Root
<1>7. CASE n # 0
  <2>1. n \in 1..n /\ s[n] \in 1..(b - 1)
    BY <1>3, <1>4, <1>7
  <2>2. rows[s[n]].of = Nothing
    BY <1>1, <1>2, <1>3, <1>7 DEF LineOK
  <2>3. s[n] = 1
    BY <1>1, <2>1, <2>2, TableIs DEF RowsInv
  <2>4. Nth(b, 0) = 1 /\ Root(b) = 1
    BY <1>2, <1>3, <1>7, <2>3 DEF Nth, Root
  <2>5. ASSUME NEW i \in 1..n
        PROVE  Nth(b, i) # Nothing
    <3>1. CASE i = n
      BY <1>1, <1>2, <1>3, <3>1 DEF Nth, Nothing
    <3>2. CASE i # n
      <4>1. n - i \in 1..n
        BY <3>2
      <4> QED
        BY <1>2, <1>3, <1>4, <3>2, <4>1 DEF Nth, Nothing
    <3> QED
      BY <3>1, <3>2
  <2>6. ASSUME OnTheLine(b), NEW i \in 0..(n - 1)
        PROVE  rows[Nth(b, i)].to = Nth(b, i + 1)
    <3>1. n - i \in 1..n /\ i # n /\ i \in Int
      BY <2>6
    <3>2. Nth(b, i) = s[n - i]
      BY <1>2, <1>3, <3>1 DEF Nth
    <3>3. rows[s[n - i]].to = IF n - i = 1 THEN b ELSE s[(n - i) - 1]
      BY <1>2, <1>3, <2>6, <3>1 DEF OnTheLine
    <3>4. (n - i = 1 <=> i + 1 = n) /\ (n - i) - 1 = n - (i + 1)
      BY <3>1
    <3>5. Nth(b, i + 1) = IF i + 1 = n THEN b ELSE s[n - (i + 1)]
      BY <1>2, <1>3 DEF Nth
    <3> QED
      BY <3>2, <3>3, <3>4, <3>5
  <2> QED
    BY <1>2, <1>3, <1>5, <2>4, <2>5, <2>6
<1> QED
  BY <1>5, <1>6, <1>7

LEMMA LinesAgree ==
  ASSUME GuestTypeOK, RowsInv, NEW b \in Bookings, NEW c \in Bookings, OnTheLine(b), OnTheLine(c),
         NEW n \in Nat, n <= Len(Lineage[b]), n <= Len(Lineage[c])
  PROVE  Nth(b, n) = Nth(c, n)
<1> DEFINE Bad == {i \in 0..n : Nth(b, i) # Nth(c, i)}
<1>1. SUFFICES ASSUME Bad # {}
               PROVE  FALSE
  OBVIOUS
<1>2. PICK k \in Bad : \A m \in Bad : k <= m
  <2>1. Bad \in SUBSET Nat
    OBVIOUS
  <2> HIDE DEF Bad
  <2> QED
    BY <1>1, <2>1, LeastOf
<1>3. k \in 0..n /\ Nth(b, k) # Nth(c, k)
  OBVIOUS
<1>4. k # 0
  BY <1>3, NthIs
<1>5. k - 1 \in 0..n /\ (k - 1) + 1 = k /\ ~(k <= k - 1)
  BY <1>3, <1>4
<1>6. Nth(b, k - 1) = Nth(c, k - 1)
  BY <1>2, <1>5
<1>7. k - 1 \in 0..(Len(Lineage[b]) - 1) /\ k - 1 \in 0..(Len(Lineage[c]) - 1)
  <2>1. Len(Lineage[b]) \in Nat /\ Len(Lineage[c]) \in Nat
    BY NthIs
  <2> QED
    BY <1>3, <1>4, <2>1
<1>8. rows[Nth(b, k - 1)].to = Nth(b, (k - 1) + 1) /\ rows[Nth(c, k - 1)].to = Nth(c, (k - 1) + 1)
  BY <1>7, NthIs
<1> QED
  BY <1>3, <1>5, <1>6, <1>8

\* A booking without a successor is the last of every such line.
LEMMA LastOnLine ==
  ASSUME GuestTypeOK, RowsInv, NEW b \in Bookings, NEW c \in Bookings, OnTheLine(b), OnTheLine(c),
         rows[b].to = Nothing
  PROVE  /\ Len(Lineage[c]) <= Len(Lineage[b])
         /\ Len(Lineage[c]) = Len(Lineage[b]) => c = b
<1>1. Len(Lineage[b]) \in Nat /\ Len(Lineage[c]) \in Nat
  BY NthIs
<1>2. PICK n \in Nat, m \in Nat : n = Len(Lineage[b]) /\ m = Len(Lineage[c])
  BY <1>1
<1>3. Nth(b, n) = b /\ Nth(c, m) = c
  BY <1>2 DEF Nth
<1>4. ASSUME n <= m
      PROVE  Nth(c, n) = b
  BY <1>2, <1>3, <1>4, LinesAgree
<1>5. ~(n < m)
  <2> SUFFICES ASSUME n < m
               PROVE  FALSE
    OBVIOUS
  <2>1. n \in 0..(Len(Lineage[c]) - 1) /\ n + 1 \in 1..Len(Lineage[c])
    BY <1>2
  <2>2. rows[Nth(c, n)].to = Nth(c, n + 1) /\ Nth(c, n + 1) # Nothing
    BY <2>1, NthIs
  <2> QED
    BY <1>4, <2>2
<1> QED
  BY <1>2, <1>3, <1>4, <1>5

\* Once the last word on a meeting has reached the guest's calendar it shows
\* that and nothing else, whatever was lost, repeated or reordered: for any
\* number of requests, moves and mails.
THEOREM CalendarAlwaysFollows ==
  Spec => []CalendarFollows
<1>1. ASSUME GuestInv, CalendarInv
      PROVE  CalendarFollows
  <2>1. GuestTypeOK /\ RowsInv
    BY <1>1 DEF GuestInv, CalendarInv
  <2>2. \A b \in Bookings : Root(b) = 1 /\ b # Nothing
    BY <2>1, NthIs DEF Bookings, Nothing
  <2>3. \A m \in mails : m.about \in Bookings /\ m.method \in {"REQUEST", "CANCEL"} /\ MailOK(m)
    BY <1>1, <2>1 DEF GuestTypeOK, CalendarInv
  <2> SUFFICES ASSUME NEW m \in mails, LastWord(m), Orderly(1), calendar[m.uid].known, calendar[m.uid].seq >= m.seq
               PROVE  Seen(1) = IF m.method = "CANCEL" THEN {} ELSE {m.about}
    BY <2>2, <2>3 DEF CalendarFollows
  <2>4. ASSUME NEW n \in mails
        PROVE  n.uid = 1 /\ n.seq = Len(Lineage[n.about]) + Extra(n.method) /\ OnTheLine(n.about)
    <3>1. ~n.lag /\ Len(Lineage[n.about]) <= MaxHops + 1 /\ OnTheLine(n.about)
      BY <2>2, <2>3 DEF Orderly
    <3> QED
      BY <2>3, <3>1 DEF MailOK
  <2>5. 1 \in 1..MaxBookings
    BY InvitationsAssumption
  <2>6. PICK n \in mails : n.seq = calendar[1].seq /\ Shown(n) = calendar[1].shows
    <3>1. EntryOK(1) /\ calendar[1].known
      BY <1>1, <2>4, <2>5 DEF CalendarInv
    <3> QED
      BY <3>1 DEF EntryOK
  <2>7. \A uid \in 1..MaxBookings : uid # 1 => calendar[uid].shows = Nothing
    <3>1. ASSUME NEW uid \in 1..MaxBookings, uid # 1
          PROVE  calendar[uid].shows = Nothing
      <4>1. EntryOK(uid)
        BY <1>1 DEF CalendarInv
      <4> QED
        BY <2>4, <3>1, <4>1 DEF EntryOK
    <3> QED
      BY <3>1
  <2>8. Seen(1) = {Shown(n)} \cap Bookings
    <3>1. \A b \in Bookings : b \in {calendar[uid].shows : uid \in 1..MaxBookings} <=> b = Shown(n)
      BY <2>2, <2>5, <2>6, <2>7
    <3> QED
      BY <2>2, <3>1 DEF Seen
  <2>9. /\ m.about \in Bookings /\ n.about \in Bookings /\ OnTheLine(m.about) /\ OnTheLine(n.about)
        /\ Len(Lineage[m.about]) \in Nat /\ Len(Lineage[n.about]) \in Nat
    BY <2>1, <2>3, <2>4, NthIs
  <2>10. n.seq >= m.seq
    BY <2>4, <2>6
  <2>11. Len(Lineage[n.about]) + Extra(n.method) >= Len(Lineage[m.about]) + Extra(m.method)
    BY <2>4, <2>10
  <2>12. rows[m.about].to = Nothing
    <3>1. rows[m.about].status # "rescheduled"
      BY <2>3 DEF LastWord, MailOK, Standing
    <3> QED
      BY <2>1, <2>9, <3>1 DEF RowsInv
  <2>13. /\ Len(Lineage[n.about]) <= Len(Lineage[m.about])
         /\ Len(Lineage[n.about]) = Len(Lineage[m.about]) => n.about = m.about
    BY <2>1, <2>9, <2>12, LastOnLine
  <2>14. CASE m.method = "CANCEL"
    <3>1. n.method = "CANCEL"
      <4>1. Extra(m.method) = 1 /\ (n.method # "CANCEL" => Extra(n.method) = 0)
        BY <2>14 DEF Extra
      <4> QED
        BY <2>9, <2>11, <2>13, <4>1
    <3>2. Shown(n) = Nothing
      BY <3>1 DEF Shown
    <3> QED
      BY <2>2, <2>8, <2>14, <3>2
  <2>15. CASE m.method = "REQUEST"
    <3>1. m.about \in Standing /\ rows[m.about].status = "confirmed"
      BY <2>15 DEF LastWord, Standing
    <3>2. n.method = "REQUEST"
      <4> SUFFICES ASSUME n.method = "CANCEL"
                   PROVE  FALSE
        BY <2>3
      <4>1. rows[n.about].status = "cancelled"
        BY <2>3 DEF MailOK
      <4>2. rows[n.about].to = Nothing
        BY <2>1, <2>9, <4>1 DEF RowsInv
      <4>3. Len(Lineage[m.about]) <= Len(Lineage[n.about])
        BY <2>1, <2>9, <4>2, LastOnLine
      <4>4. n.about = m.about
        BY <2>9, <2>13, <4>3
      <4> QED
        BY <3>1, <4>1, <4>4
    <3>3. n.about = m.about
      <4>1. Extra(n.method) = 0 /\ Extra(m.method) = 0
        BY <2>15, <3>2 DEF Extra
      <4> QED
        BY <2>9, <2>11, <2>13, <4>1
    <3> QED
      BY <2>8, <2>9, <2>15, <3>2, <3>3 DEF Shown
  <2> QED
    BY <2>3, <2>14, <2>15
<1> QED
  BY <1>1, CalendarInvariant, PTL

-----------------------------------------------------------------------------
\* Whatever part a behaviour follows, it drives the tables by the statements of
\* repositories.ts alone: what is proved of BookingStore holds of it.
THEOREM MeetingsUseTheStore ==
  Spec => StoreSpec
<1>1. Init => StoreInit
  BY DEF Init
<1>2. [Next]_meetingVars => [StoreNext]_storeVars
  BY DEF Next, Tables, Guest, Visit, meetingVars
<1> QED
  BY <1>1, <1>2, PTL DEF Spec, StoreSpec
-----------------------------------------------------------------------------
(* The pages. *)

Sites == [zone : Zones, horizon : Horizons, now : 0..LastTick, free : SUBSET Starts]
Months == 1..(Len(MonthStarts) - 1)

\* A page with a month knows a zone and a site; the pages of a booking its start.
PageOK(v) ==
  /\ v.at \notin {"away", "rest", "mcp"} => v.zone \in Zones /\ v.month \in Months
  /\ v.at \in {"confirm", "booked", "taken", "picker"} => v.start \in Starts
  /\ v.at # "away" => site \in Sites

PageRow ==
  [at : {"away", "month", "day", "confirm", "booked", "taken", "picker", "rest", "mcp"}, zone : Zones \cup {Unknown},
   month : Int, date : Int, start : Int, shown : SUBSET Starts]

PagesInv == site \in Sites \cup {Unknown} /\ visitor \in PageRow /\ PageOK(visitor)

LEMMA SiteIs ==
  ASSUME site \in Sites
  PROVE  /\ site.zone \in Zones /\ site.zone \in ZoneRow /\ site.horizon \in Horizons /\ site.horizon \in Nat
         /\ site.now \in 0..LastTick /\ site.now \in Int /\ site.free \subseteq Starts /\ site.free \subseteq Int
         /\ OnOffer \subseteq Int /\ Day \in Nat \ {0}
         /\ \A y, z \in Zones : y \in ZoneRow /\ z \in ZoneRow /\ DayApart(y, z)
<1>1. /\ site.zone \in Zones /\ site.horizon \in Horizons
      /\ site.now \in 0..LastTick /\ site.free \subseteq Starts
  BY DEF Sites
<1>2. Zones \subseteq ZoneRow /\ Starts \subseteq Int /\ Horizons \subseteq Nat /\ LastTick \in Nat
  BY PagesAssumption
<1>3. ASSUME NEW y \in Zones, NEW z \in Zones
      PROVE  DayApart(y, z)
  <2>1. \A a \in {z.before, z.after}, b \in {y.before, y.after} : a - b <= Day
    BY PagesAssumption
  <2>2. \A a \in {y.before, y.after}, b \in {z.before, z.after} : a - b <= Day
    BY PagesAssumption
  <2> QED
    BY <2>1, <2>2 DEF DayApart
<1>4. OnOffer \subseteq site.free
  BY DEF OnOffer
<1>5. site.now \in Int
  BY <1>1, <1>2
<1>6. Day \in Nat \ {0}
  BY DayAssumption
<1>7. site.zone \in ZoneRow /\ site.horizon \in Nat /\ site.free \subseteq Int /\ OnOffer \subseteq Int
  BY <1>1, <1>2, <1>4
<1> QED
  BY <1>1, <1>2, <1>3, <1>5, <1>6, <1>7

LEMMA DateIs ==
  ASSUME NEW z \in ZoneRow, NEW t \in Int
  PROVE  LocalDate(z, t) \in Int
  BY DayAssumption DEF ZoneRow, LocalDate, WallClock, Offset

LEMMA MonthsAre ==
  /\ Len(MonthStarts) \in Nat \ {0} /\ ShortMonth \in Nat \ {0}
  /\ \A m \in 1..Len(MonthStarts) : MonthStarts[m] \in Int
  /\ \A m \in 1..Len(MonthStarts), n \in 1..Len(MonthStarts) : m <= n => MonthStarts[m] <= MonthStarts[n]
<1>1. Len(MonthStarts) \in Nat \ {0} /\ ShortMonth \in Nat \ {0} /\ \A m \in 1..Len(MonthStarts) : MonthStarts[m] \in Int
  BY PagesAssumption
<1>2. ASSUME NEW m \in 1..Len(MonthStarts), NEW n \in 1..Len(MonthStarts), m <= n
      PROVE  MonthStarts[m] <= MonthStarts[n]
  <2>1. n \in m..Len(MonthStarts)
    BY <1>1, <1>2
  <2>2. MonthStarts[n] - MonthStarts[m] >= ShortMonth * (n - m)
    BY <2>1, PagesAssumption
  <2>3. ShortMonth * (n - m) >= 0
    BY <1>1, <1>2
  <2> QED
    BY <1>1, <2>2, <2>3
<1> QED
  BY <1>1, <1>2

\* The month of a date begins no later, and the next one after it.
LEMMA MonthOfIs ==
  ASSUME NEW date \in Int, MonthStarts[1] <= date
  PROVE  /\ MonthOf(date) \in 1..Len(MonthStarts) /\ MonthStarts[MonthOf(date)] <= date
         /\ \A m \in 1..Len(MonthStarts) : m > MonthOf(date) => date < MonthStarts[m]
<1> DEFINE S == {m \in 1..Len(MonthStarts) : MonthStarts[m] <= date}
           T == {Len(MonthStarts) - m : m \in S}
<1>1. Len(MonthStarts) \in Nat \ {0}
  BY MonthsAre
<1>2. 1 \in S
  BY <1>1
<1>3. T \subseteq Nat /\ T # {}
  BY <1>1, <1>2
<1>4. PICK t \in T : \A u \in T : t <= u
  BY <1>3, LeastOf
<1>5. PICK n \in S : t = Len(MonthStarts) - n
  BY <1>4
<1>6. \A m \in S : Len(MonthStarts) - m \in T
  OBVIOUS
<1>7. ASSUME NEW m \in S
      PROVE  n >= m
  <2>1. t <= Len(MonthStarts) - m
    BY <1>4, <1>6
  <2>2. n \in 1..Len(MonthStarts) /\ m \in 1..Len(MonthStarts)
    OBVIOUS
  <2> HIDE DEF S, T
  <2> QED
    BY <1>1, <1>5, <2>1, <2>2
<1>8. MonthOf(date) = Max(S)
  BY DEF MonthOf
<1>9. MonthOf(date) \in S /\ \A m \in S : MonthOf(date) >= m
  BY <1>5, <1>7, <1>8 DEF Max
<1>10. MonthOf(date) \in 1..Len(MonthStarts) /\ MonthStarts[MonthOf(date)] <= date
  BY <1>9
<1>11. ASSUME NEW m \in 1..Len(MonthStarts), m > MonthOf(date)
       PROVE  date < MonthStarts[m]
  <2>1. m \notin S
    BY <1>1, <1>9, <1>10, <1>11
  <2>2. MonthStarts[m] \in Int
    BY MonthsAre
  <2> QED
    BY <2>1, <2>2
<1> QED
  BY <1>10, <1>11

\* Where clampMonth may lead.
Last == CurrentMonth + (site.horizon + ShortMonth - 1) \div ShortMonth

LEMMA MonthsCover ==
  ASSUME NEW h \in Nat, NEW s \in Nat \ {0}
  PROVE  \E q \in Nat : q = (h + s - 1) \div s /\ h <= s * q
<1>1. PICK q \in Int : q = (h + s - 1) \div s
  OBVIOUS
<1>2. h + s - 1 \in Int /\ h + s - 1 >= 0
  OBVIOUS
<1>3. s * q <= h + s - 1 /\ h + s - 1 < s * q + s
  BY <1>1, <1>2
<1>4. q >= 0
  BY <1>1, <1>2
<1> QED
  BY <1>1, <1>3, <1>4

LEMMA ClampIs ==
  ASSUME site \in Sites, NEW m \in Int
  PROVE  /\ CurrentMonth \in Months /\ Last \in Months /\ CurrentMonth <= Last
         /\ ClampMonth(m) = IF m < CurrentMonth THEN CurrentMonth ELSE IF m > Last THEN Last ELSE m
         /\ ClampMonth(m) \in Months
<1>1. site.zone \in Zones /\ site.now \in 0..LastTick /\ site.horizon \in Horizons /\ site.horizon \in Nat
      /\ LocalDate(site.zone, site.now) \in Int
  BY SiteIs, DateIs
<1>2. Len(MonthStarts) \in Nat \ {0} /\ ShortMonth \in Nat \ {0}
  BY MonthsAre
<1>3. MonthStarts[1] <= LocalDate(site.zone, site.now)
  BY <1>1, PagesAssumption
<1>4. CurrentMonth \in 1..Len(MonthStarts) /\ MonthStarts[CurrentMonth] <= LocalDate(site.zone, site.now)
  BY <1>1, <1>3, MonthOfIs DEF CurrentMonth
<1>5. Last < Len(MonthStarts)
  BY <1>1, <1>4, PagesAssumption DEF Last
<1>6. (site.horizon + ShortMonth - 1) \div ShortMonth \in Nat
  BY <1>1, <1>2
<1>7. CurrentMonth \in Months /\ Last \in Months /\ CurrentMonth <= Last
  BY <1>2, <1>4, <1>5, <1>6 DEF Last, Months
<1>8. ClampMonth(m) = Max({CurrentMonth, Min({m, Last})})
  BY DEF ClampMonth, Last
<1>9. CurrentMonth \in Int /\ Last \in Int
  BY <1>7 DEF Months
<1>10. Min({m, Last}) = IF m <= Last THEN m ELSE Last
  BY <1>9, TwoNumbers
<1>11. ClampMonth(m) = IF m < CurrentMonth THEN CurrentMonth ELSE IF m > Last THEN Last ELSE m
  BY <1>7, <1>8, <1>9, <1>10, TwoNumbers
<1> QED
  BY <1>7, <1>9, <1>11 DEF Months

\* What a page cuts out of a range of the owner's days is all there is on a date
\* of the visitor's, if that date lies within the range ...
LEMMA RangeHolds ==
  ASSUME site \in Sites, NEW zone \in Zones, NEW from \in Int, NEW to \in Int, NEW t \in OnOffer,
         from <= LocalDate(zone, t), LocalDate(zone, t) < to
  PROVE  t \in ForEventType(Padded([start |-> LocalTimeToInstant(site.zone, from, 0),
                                    end |-> LocalTimeToInstant(site.zone, to, 0)]))
<1>1. zone \in ZoneRow /\ site.zone \in ZoneRow /\ DayApart(site.zone, zone) /\ t \in Int
  BY SiteIs
<1>2. LocalTimeToInstant(site.zone, from, 0) - Day <= t /\ t < LocalTimeToInstant(site.zone, to, 0) + Day
  BY <1>1, PaddingCovers
<1> QED
  BY <1>2 DEF ForEventType, Padded

\* ... and, as what is past or beyond the horizon is not offered, also of the
\* month to which clampMonth brings the visitor.
LEMMA MonthHolds ==
  ASSUME site \in Sites, NEW zone \in Zones, NEW t \in OnOffer, MonthStarts[1] <= LocalDate(zone, t)
  PROVE  t \in MonthSlots(ClampMonth(MonthOf(LocalDate(zone, t))))
<1>1. /\ zone \in ZoneRow /\ site.zone \in ZoneRow /\ DayApart(site.zone, zone) /\ DayApart(site.zone, site.zone)
      /\ t \in Int /\ site.now \in Int /\ site.horizon \in Nat /\ site.zone \in Zones /\ site.now \in 0..LastTick
  BY SiteIs
<1>2. PICK date \in Int : date = LocalDate(zone, t)
  BY <1>1, DateIs
<1>3. PICK today \in Int : today = LocalDate(site.zone, site.now)
  BY <1>1, DateIs
<1>4. /\ MonthOf(date) \in 1..Len(MonthStarts) /\ MonthStarts[MonthOf(date)] <= date
      /\ \A m \in 1..Len(MonthStarts) : m > MonthOf(date) => date < MonthStarts[m]
  BY <1>2, MonthOfIs
<1>5. /\ CurrentMonth \in 1..Len(MonthStarts) /\ MonthStarts[CurrentMonth] <= today
      /\ \A m \in 1..Len(MonthStarts) : m > CurrentMonth => today < MonthStarts[m]
  BY <1>1, <1>3, MonthOfIs, PagesAssumption DEF CurrentMonth
<1>6. PICK k \in Months : k = ClampMonth(MonthOf(date))
  BY <1>4, ClampIs
<1>7. /\ k = IF MonthOf(date) < CurrentMonth THEN CurrentMonth ELSE IF MonthOf(date) > Last THEN Last ELSE MonthOf(date)
      /\ CurrentMonth <= Last
  BY <1>4, <1>6, ClampIs
<1>8. /\ k \in 1..Len(MonthStarts) /\ k + 1 \in 1..Len(MonthStarts)
      /\ MonthStarts[k] \in Int /\ MonthStarts[k + 1] \in Int
  BY MonthsAre DEF Months
<1>9. LocalTimeToInstant(site.zone, MonthStarts[k], 0) - Day <= t
  <2>1. CASE k <= MonthOf(date)
    <3>1. MonthStarts[k] <= date
      BY <1>4, <1>8, <2>1, MonthsAre
    <3> QED
      BY <1>1, <1>2, <1>8, <3>1, PaddingCovers
  <2>2. CASE k > MonthOf(date)
    <3>1. k = CurrentMonth
      BY <1>4, <1>5, <1>7, <1>8, <2>2
    <3>2. LocalTimeToInstant(site.zone, MonthStarts[k], 0) - Day <= site.now
      BY <1>1, <1>3, <1>5, <1>8, <3>1, PaddingCovers
    <3>3. LocalTimeToInstant(site.zone, MonthStarts[k], 0) \in Int /\ site.now <= t
      BY <1>1, <1>8, PaddingCovers DEF OnOffer
    <3> QED
      BY <1>1, <3>2, <3>3, DayAssumption
  <2> QED
    BY <1>4, <1>8, <2>1, <2>2
<1>10. t < LocalTimeToInstant(site.zone, MonthStarts[k + 1], 0) + Day
  <2>1. CASE k >= MonthOf(date)
    <3>1. date < MonthStarts[k + 1]
      BY <1>4, <1>8, <2>1
    <3> QED
      BY <1>1, <1>2, <1>8, <3>1, PaddingCovers
  <2>2. CASE k < MonthOf(date)
    <3>1. k = Last
      BY <1>4, <1>5, <1>7, <1>8, <2>2
    <3>2. PICK q \in Nat : q = (site.horizon + ShortMonth - 1) \div ShortMonth /\ site.horizon <= ShortMonth * q
      BY <1>1, MonthsAre, MonthsCover
    <3>3. k + 1 = CurrentMonth + 1 + q /\ CurrentMonth + 1 \in 1..Len(MonthStarts) /\ k + 1 \in (CurrentMonth + 1)..Len(MonthStarts)
      <4>1. PICK c \in 1..Len(MonthStarts) : c = CurrentMonth
        BY <1>5
      <4>2. k = c + q
        BY <3>1, <3>2, <4>1 DEF Last
      <4>3. Len(MonthStarts) \in Nat
        BY MonthsAre
      <4> QED
        BY <1>8, <3>2, <4>1, <4>2, <4>3
    <3>4. MonthStarts[k + 1] - MonthStarts[CurrentMonth + 1] >= ShortMonth * ((k + 1) - (CurrentMonth + 1))
      BY <3>3, PagesAssumption
    <3>5. (k + 1) - (CurrentMonth + 1) = q
      BY <1>5, <3>2, <3>3
    <3>6. today < MonthStarts[CurrentMonth + 1] /\ MonthStarts[CurrentMonth + 1] \in Int
      BY <1>5, <3>3, MonthsAre
    <3>7. today + site.horizon < MonthStarts[k + 1]
      <4>1. PICK p \in Int : p = ShortMonth * q
        BY MonthsAre
      <4>2. MonthStarts[k + 1] - MonthStarts[CurrentMonth + 1] >= p /\ site.horizon <= p
        BY <3>2, <3>4, <3>5, <4>1
      <4> QED
        BY <1>1, <1>8, <3>6, <4>2
    <3>8. t <= site.now + site.horizon * Day
      BY DEF OnOffer
    <3> QED
      BY <1>1, <1>3, <1>8, <3>7, <3>8, HorizonCovers
  <2> QED
    BY <1>4, <1>8, <2>1, <2>2
<1> QED
  BY <1>2, <1>6, <1>9, <1>10 DEF MonthSlots, ForEventType, Padded, MonthRange

\* Whatever a page of the site shows, it shows of what is on offer.
LEMMA AllAgree ==
  ASSUME site \in Sites, NEW zone \in Zones, NEW date \in Int, MonthStarts[1] <= date, NEW month \in Months
  PROVE  Agrees(date, zone, month)
<1>1. \A m : MonthSlots(m) \subseteq OnOffer
  BY DEF MonthSlots, ForEventType
<1>2. /\ zone \in ZoneRow /\ site.zone \in ZoneRow /\ OnOffer \subseteq Int
  BY SiteIs
<1>3. month + 1 \in 1..Len(MonthStarts) /\ month \in 1..Len(MonthStarts)
      /\ MonthStarts[month] \in Int /\ MonthStarts[month + 1] \in Int
  BY MonthsAre DEF Months
<1>4. ASSUME date \in MonthDays(month)
      PROVE  date \in DaysWithSlots(month, zone) <=> OnDate(OnOffer, zone, date) # {}
  <2>1. MonthStarts[month] <= date /\ date < MonthStarts[month + 1]
    BY <1>3, <1>4 DEF MonthDays
  <2>2. ASSUME NEW t \in OnOffer, LocalDate(zone, t) = date
        PROVE  t \in MonthSlots(month)
    BY <1>3, <2>1, <2>2, RangeHolds DEF MonthSlots, MonthRange
  <2>3. date \in DaysWithSlots(month, zone) <=> \E t \in MonthSlots(month) : LocalDate(zone, t) = date
    BY <1>4 DEF DaysWithSlots
  <2> QED
    BY <1>1, <2>2, <2>3 DEF OnDate
<1>5. DaySlots(MonthOf(date), date, zone) = OnDate(OnOffer, zone, date)
  <2>1. ASSUME NEW t \in OnOffer, LocalDate(zone, t) = date
        PROVE  t \in MonthSlots(ClampMonth(MonthOf(date)))
    BY <2>1, MonthHolds
  <2> QED
    BY <1>1, <2>1 DEF DaySlots, OnDate
<1>6. PickerSlots(date, zone) = OnDate(OnOffer, zone, date)
  <2>1. ASSUME NEW t \in OnOffer, LocalDate(zone, t) = date
        PROVE  t \in ForEventType(Padded(HostDayRange(date)))
    BY <2>1, RangeHolds DEF HostDayRange, DayRange
  <2>2. ForEventType(Padded(HostDayRange(date))) \subseteq OnOffer
    BY DEF ForEventType
  <2> QED
    BY <2>1, <2>2 DEF PickerSlots, OnDate
<1> QED
  BY <1>4, <1>5, <1>6 DEF Agrees

\* What a page lists was free when it was made.
LEMMA ListsAreFree ==
  ASSUME site \in Sites
  PROVE  /\ \A range : ForEventType(range) \subseteq Starts
         /\ \A m, date, zone : DaySlots(m, date, zone) \subseteq Starts
         /\ \A date, zone : PickerSlots(date, zone) \subseteq Starts
         /\ \A range, limit : FirstOf(ForEventType(range), limit) \subseteq Starts
<1>1. OnOffer \subseteq Starts
  BY SiteIs DEF OnOffer
<1>2. \A range : ForEventType(range) \subseteq Starts
  BY <1>1 DEF ForEventType
<1> QED
  BY <1>2 DEF DaySlots, MonthSlots, OnDate, PickerSlots, FirstOf

LEMMA DatesAre ==
  /\ \A z \in Zones, t \in Starts : LocalDate(z, t) \in Int /\ MonthStarts[1] <= LocalDate(z, t)
  /\ \A m \in Months : \A date \in MonthDays(m) : date \in Int /\ MonthStarts[1] <= date
<1>1. ASSUME NEW z \in Zones, NEW t \in Starts
      PROVE  LocalDate(z, t) \in Int /\ MonthStarts[1] <= LocalDate(z, t)
  <2>1. z \in ZoneRow /\ t \in Int
    BY PagesAssumption
  <2> QED
    BY <2>1, DateIs, PagesAssumption
<1>2. ASSUME NEW m \in Months, NEW date \in MonthDays(m)
      PROVE  date \in Int /\ MonthStarts[1] <= date
  <2>1. m \in 1..Len(MonthStarts) /\ m + 1 \in 1..Len(MonthStarts) /\ 1 \in 1..Len(MonthStarts)
    BY MonthsAre DEF Months
  <2>2. MonthStarts[1] <= MonthStarts[m] /\ MonthStarts[1] \in Int /\ MonthStarts[m] \in Int /\ MonthStarts[m + 1] \in Int
    BY <2>1, MonthsAre
  <2> QED
    BY <2>2 DEF MonthDays
<1> QED
  BY <1>1, <1>2

LEMMA MonthOfInt ==
  ASSUME NEW date \in Int, MonthStarts[1] <= date
  PROVE  MonthOf(date) \in Int
  BY MonthOfIs, MonthsAre

\* Every page is a page of the site, in a month and a zone that there are.
LEMMA MonthIsShown ==
  ASSUME site \in Sites, visitor \in PageRow, NEW zone \in Zones, NEW m \in Int, ShowMonth(zone, m), site' = site
  PROVE  PagesInv'
<1>1. ClampMonth(m) \in Months /\ ClampMonth(m) \in Int
  BY ClampIs, MonthsAre DEF Months
<1> QED
  BY <1>1 DEF ShowMonth, PagesInv, PageRow, PageOK

LEMMA DayIsShown ==
  ASSUME site \in Sites, visitor \in PageRow, NEW zone \in Zones, NEW m \in Int, NEW date \in Int,
         ShowMonthAndDay(zone, m, date), site' = site
  PROVE  PagesInv'
<1>1. ClampMonth(m) \in Months /\ ClampMonth(m) \in Int
  BY ClampIs, MonthsAre DEF Months
<1>2. DaySlots(m, date, zone) \subseteq Starts
  BY ListsAreFree
<1> QED
  BY <1>1, <1>2 DEF ShowMonthAndDay, PagesInv, PageRow, PageOK

LEMMA ZoneIsGuessed ==
  ASSUME site \in Sites, NEW param \in Zones \cup {Unknown}, NEW cf \in Zones \cup {Unknown}
  PROVE  ResolveGuestTimezone(param, cf) \in Zones
  BY SiteIs DEF ResolveGuestTimezone

\* Booking one time leaves a site.
LEMMA SiteStays ==
  ASSUME site \in Sites, \/ \E t : Taken(t)
                         \/ site' = site
  PROVE  site' \in Sites
  BY DEF Sites, Taken

LEMMA PagesStep ==
  PagesInv /\ [PagesNext]_pageVars => PagesInv'
<1> SUFFICES ASSUME PagesInv, [PagesNext]_pageVars
             PROVE  PagesInv'
  OBVIOUS
<1>1. visitor \in PageRow /\ PageOK(visitor) /\ site \in Sites \cup {Unknown}
  BY DEF PagesInv
<1>2. Away \in PageRow
  BY DEF Away, PageRow
<1>3. visitor.at # "away" => site \in Sites
  BY <1>1 DEF PageOK
<1>4. Published => site \in Sites
  BY <1>1 DEF Published
<1>5. ASSUME UNCHANGED pageVars
      PROVE  PagesInv'
  BY <1>5 DEF PagesInv, pageVars, PageOK
<1>6. ASSUME Publish
      PROVE  PagesInv'
  <2>1. site' \in Sites
    BY <1>6 DEF Publish, Sites
  <2>2. visitor' = visitor
    BY <1>6 DEF Publish
  <2> QED
    BY <1>1, <2>1, <2>2 DEF PagesInv, PageOK
<1>7. ASSUME Arrive
      PROVE  PagesInv'
  <2>1. site \in Sites /\ site' = site
    BY <1>4, <1>7 DEF Arrive
  <2>2. PICK param \in Zones \cup {Unknown}, cf \in Zones \cup {Unknown} :
          visitor' = [Away EXCEPT !.at = "month", !.month = CurrentMonth, !.zone = ResolveGuestTimezone(param, cf)]
    BY <1>7 DEF Arrive
  <2>3. PICK zone \in Zones : zone = ResolveGuestTimezone(param, cf)
    BY <2>1, ZoneIsGuessed
  <2>4. CurrentMonth \in Months /\ CurrentMonth \in Int
    <3>1. CurrentMonth \in Months
      BY <2>1, ClampIs
    <3> QED
      BY <3>1, MonthsAre DEF Months
  <2>5. visitor' = [at |-> "month", zone |-> zone, month |-> CurrentMonth, date |-> 0, start |-> 0, shown |-> {}]
    BY <2>2, <2>3 DEF Away
  <2>6. visitor' \in PageRow
    BY <2>4, <2>5 DEF PageRow
  <2>7. site' \in Sites /\ visitor'.at = "month" /\ visitor'.zone \in Zones /\ visitor'.month \in Months
    BY <2>1, <2>4, <2>5
  <2> QED
    BY <2>6, <2>7 DEF PagesInv, PageOK
<1>8. ASSUME TurnMonth
      PROVE  PagesInv'
  <2>1. site \in Sites /\ site' = site /\ visitor.zone \in Zones /\ visitor.month \in Int
    BY <1>1, <1>3, <1>8 DEF TurnMonth, PageOK, PageRow
  <2>2. PICK delta \in {-1, 1} : ShowMonth(visitor.zone, visitor.month + delta)
    BY <1>8 DEF TurnMonth
  <2>3. visitor.month + delta \in Int
    BY <2>1
  <2> QED
    BY <1>1, <2>1, <2>2, <2>3, MonthIsShown
<1>9. ASSUME ChangeZone
      PROVE  PagesInv'
  <2>1. site' = site /\ visitor.month \in Int /\ visitor.date \in Int
    BY <1>1, <1>9 DEF ChangeZone, PageRow
  <2>2. PICK zone \in Zones :
          \/ visitor.at = "month" /\ ShowMonth(zone, visitor.month)
          \/ visitor.at = "day" /\ ShowMonthAndDay(zone, visitor.month, visitor.date)
          \/ visitor.at = "confirm" /\ visitor' = [visitor EXCEPT !.zone = zone]
    BY <1>9 DEF ChangeZone
  <2>3. site \in Sites
    BY <1>3, <2>2
  <2>4. CASE visitor.at = "month" /\ ShowMonth(zone, visitor.month)
    BY <1>1, <2>1, <2>3, <2>4, MonthIsShown
  <2>5. CASE visitor.at = "day" /\ ShowMonthAndDay(zone, visitor.month, visitor.date)
    BY <1>1, <2>1, <2>3, <2>5, DayIsShown
  <2>6. CASE visitor.at = "confirm" /\ visitor' = [visitor EXCEPT !.zone = zone]
    BY <1>1, <2>1, <2>3, <2>6 DEF PagesInv, PageOK, PageRow
  <2> QED
    BY <2>2, <2>4, <2>5, <2>6
<1>10. ASSUME PickDay
       PROVE  PagesInv'
  <2>1. site \in Sites /\ site' = site /\ visitor.zone \in Zones /\ visitor.month \in Months
    BY <1>1, <1>3, <1>10 DEF PickDay, PageOK
  <2>2. PICK date \in MonthDays(visitor.month) : ShowDay(visitor.zone, date)
    BY <1>10 DEF PickDay, DaysWithSlots
  <2>3. date \in Int /\ MonthOf(date) \in Int
    BY <2>1, DatesAre, MonthOfInt
  <2> QED
    BY <1>1, <2>1, <2>2, <2>3, DayIsShown DEF ShowDay
<1>11. ASSUME PickTime
       PROVE  PagesInv'
  <2>1. site \in Sites /\ site' = site /\ visitor.shown \subseteq Starts /\ visitor.zone \in Zones /\ visitor.month \in Months
    BY <1>1, <1>3, <1>11 DEF PickTime, PageOK, PageRow
  <2>2. PICK t \in visitor.shown : visitor' = [visitor EXCEPT !.at = "confirm", !.start = t, !.shown = {}]
    BY <1>11 DEF PickTime
  <2>3. t \in Starts /\ t \in Int
    BY <2>1, PagesAssumption
  <2> QED
    BY <1>1, <2>1, <2>2, <2>3 DEF PagesInv, PageOK, PageRow
<1>12. ASSUME Back
       PROVE  PagesInv'
  <2>1. site \in Sites /\ site' = site /\ visitor.zone \in Zones /\ visitor.start \in Starts
    BY <1>1, <1>3, <1>12 DEF Back, PageOK
  <2>2. PICK cf \in Zones \cup {Unknown} :
          ShowDay(ResolveGuestTimezone(Unknown, cf), LocalDate(visitor.zone, visitor.start))
    BY <1>12 DEF Back
  <2>3. ResolveGuestTimezone(Unknown, cf) \in Zones
    BY <2>1, ZoneIsGuessed
  <2>4. LocalDate(visitor.zone, visitor.start) \in Int /\ MonthOf(LocalDate(visitor.zone, visitor.start)) \in Int
    BY <2>1, DatesAre, MonthOfInt
  <2> QED
    BY <1>1, <2>1, <2>2, <2>3, <2>4, DayIsShown DEF ShowDay
<1>13. ASSUME Confirm
       PROVE  PagesInv'
  <2>1. site \in Sites
    BY <1>3, <1>13 DEF Confirm
  <2>2. site' \in Sites
    BY <1>13, <2>1, SiteStays DEF Confirm
  <2>3. PICK at \in {"booked", "taken"} : visitor' = [visitor EXCEPT !.at = at]
    BY <1>13 DEF Confirm
  <2>4. visitor.at = "confirm"
    BY <1>13 DEF Confirm
  <2> QED
    BY <1>1, <2>2, <2>3, <2>4 DEF PagesInv, PageOK, PageRow
<1>14. ASSUME SlotTakenPage
       PROVE  PagesInv'
  <2>1. site \in Sites /\ site' = site /\ visitor.zone \in Zones /\ visitor.start \in Starts
    BY <1>1, <1>3, <1>14 DEF SlotTakenPage, PageOK
  <2>2. LocalDate(visitor.zone, visitor.start) \in Int /\ MonthOf(LocalDate(visitor.zone, visitor.start)) \in Int
    BY <2>1, DatesAre, MonthOfInt
  <2> QED
    BY <1>1, <1>14, <2>1, <2>2, DayIsShown DEF SlotTakenPage, ShowDay
<1>15. ASSUME Manage
       PROVE  PagesInv'
  <2>1. site \in Sites /\ site' = site /\ visitor.zone \in Zones /\ visitor.start \in Starts
    BY <1>1, <1>3, <1>15 DEF Manage, PageOK
  <2>2. PICK date \in {LocalDate(visitor.zone, visitor.start)} \cup MonthDays(CurrentMonth) :
          visitor' = [visitor EXCEPT !.at = "picker", !.month = ClampMonth(MonthOf(date)),
                        !.shown = PickerSlots(date, visitor.zone)]
    BY <1>15 DEF Manage
  <2>3. CurrentMonth \in Months
    BY <2>1, ClampIs
  <2>4. MonthOf(date) \in Int
    BY <2>1, <2>3, DatesAre, MonthOfInt
  <2>5. ClampMonth(MonthOf(date)) \in Months
    BY <2>1, <2>4, ClampIs
  <2>6. ClampMonth(MonthOf(date)) \in Int
    BY <2>5, MonthsAre DEF Months
  <2>7. PickerSlots(date, visitor.zone) \subseteq Starts
    BY <2>1, ListsAreFree
  <2> QED
    BY <1>1, <2>1, <2>2, <2>5, <2>6, <2>7 DEF PagesInv, PageOK, PageRow
<1>16. ASSUME Published, NEW from, NEW span,
              ListSlots(from, span) \/ \E limit \in Limits : GetAvailableSlots(from, span, limit)
       PROVE  PagesInv'
  <2>1. site \in Sites /\ site' = site
    BY <1>4, <1>16 DEF ListSlots, GetAvailableSlots
  <2>2. PICK at \in {"rest", "mcp"}, S \in SUBSET Starts : visitor' = [Away EXCEPT !.at = at, !.shown = S]
    <3>1. CASE ListSlots(from, span)
      BY <2>1, <3>1, ListsAreFree DEF ListSlots
    <3>2. CASE \E limit \in Limits : GetAvailableSlots(from, span, limit)
      <4>1. PICK limit \in Limits :
              visitor' = [Away EXCEPT !.at = "mcp", !.shown = FirstOf(ForEventType(RangeAsked(from, span)), limit)]
        BY <3>2 DEF GetAvailableSlots
      <4> QED
        BY <2>1, <4>1, ListsAreFree
    <3> QED
      BY <1>16, <3>1, <3>2
  <2>3. visitor' = [at |-> at, zone |-> Unknown, month |-> 0, date |-> 0, start |-> 0, shown |-> S]
    BY <2>2 DEF Away
  <2>4. visitor' \in PageRow
    BY <2>3 DEF PageRow
  <2>5. site' \in Sites /\ visitor'.at \in {"rest", "mcp"}
    BY <2>1, <2>3
  <2> QED
    BY <2>4, <2>5 DEF PagesInv, PageOK
<1>17. ASSUME PostBooking \/ CreateBooking
       PROVE  PagesInv'
  <2>1. site \in Sites
    BY <1>3, <1>17 DEF PostBooking, CreateBooking
  <2>2. PICK t : Try(t)
    BY <1>17 DEF PostBooking, CreateBooking
  <2>3. site' \in Sites /\ visitor' = Away
    BY <2>1, <2>2, SiteStays DEF Try
  <2> QED
    BY <1>2, <2>3 DEF PagesInv, PageOK, Away
<1>18. ASSUME Leave
       PROVE  PagesInv'
  BY <1>1, <1>2, <1>18 DEF Leave, PagesInv, PageOK, Away
<1>19. ASSUME OthersBook
       PROVE  PagesInv'
  <2>1. site' \in Sites /\ visitor' = visitor
    BY <1>4, <1>19, SiteStays DEF OthersBook
  <2> QED
    BY <1>1, <2>1 DEF PagesInv, PageOK
<1>20. ASSUME Tick
       PROVE  PagesInv'
  <2>1. site \in Sites /\ site.now < LastTick /\ LastTick \in Nat /\ visitor' = visitor
    BY <1>4, <1>20, PagesAssumption DEF Tick
  <2>2. site.now + 1 \in 0..LastTick
    BY <2>1, SiteIs
  <2>3. site' \in Sites
    BY <1>20, <2>1, <2>2 DEF Tick, Sites
  <2> QED
    BY <1>1, <2>1, <2>3 DEF PagesInv, PageOK
<1> QED
  BY <1>5, <1>6, <1>7, <1>8, <1>9, <1>10, <1>11, <1>12, <1>13, <1>14, <1>15, <1>16, <1>17, <1>18, <1>19, <1>20
     DEF PagesNext

\* What a range holds whole of a date is all that is on offer there.
LEMMA HeldIs ==
  ASSUME site \in Sites, NEW zone \in Zones, DaysOnce(zone), NEW from \in Froms, NEW span \in AnySpan,
         NEW date \in DatesHeld(zone, RangeAsked(from, span))
  PROVE  /\ OnDate(ForEventType(RangeAsked(from, span)), zone, date) = OnDate(OnOffer, zone, date)
         /\ DaySlots(MonthOf(date), date, zone) = OnDate(OnOffer, zone, date)
         /\ date \in Int
<1> DEFINE range == RangeAsked(from, span)
<1>1. date \in Int /\ MonthStarts[1] <= date
  BY DatesAre DEF DatesHeld
<1>2. zone \in ZoneRow /\ OnOffer \subseteq Int
  BY SiteIs
<1>3. range.start \in Int /\ range.end \in Int
  <2>1. Starts \subseteq Int /\ Spans \subseteq Nat /\ DefaultSpan \in Nat /\ site.now \in Int
    BY SiteIs, PagesAssumption
  <2>2. from \in Int
    BY <2>1 DEF Froms
  <2>3. span \in Nat
    BY <2>1 DEF AnySpan
  <2> QED
    BY <2>2, <2>3 DEF RangeAsked
<1>4. range.start <= DayRange(zone, date).start /\ DayRange(zone, date).end <= range.end
  BY DEF DatesHeld
<1> HIDE DEF range
<1>5. ASSUME NEW t \in OnOffer, LocalDate(zone, t) = date
      PROVE  t \in ForEventType(range)
  <2>1. PICK start \in Int, end \in Int : DayRange(zone, date) = [start |-> start, end |-> end]
    BY <1>1, <1>2, DayRangeIs
  <2>2. start <= t /\ t < end /\ t \in Int
    BY <1>1, <1>2, <1>5, <2>1, DayRangeIs
  <2>3. range.start <= t /\ t < range.end
    BY <1>3, <1>4, <2>1, <2>2
  <2> QED
    BY <2>3 DEF ForEventType
<1>6. OnDate(ForEventType(range), zone, date) = OnDate(OnOffer, zone, date)
  BY <1>5 DEF OnDate, ForEventType
<1>7. DaySlots(MonthOf(date), date, zone) = OnDate(OnOffer, zone, date)
  <2>1. PICK month \in Months : TRUE
    BY <1>1, MonthOfInt, ClampIs
  <2> QED
    BY <1>1, <2>1, AllAgree DEF Agrees
<1> QED
  BY <1>1, <1>6, <1>7 DEF range

\* The first of a list begin with its beginning.
LEMMA FirstAreFirst ==
  ASSUME NEW S \in SUBSET Int, IsFiniteSet(S), NEW limit \in Nat, NEW t \in S, NEW u \in FirstOf(S, limit), t < u
  PROVE  t \in FirstOf(S, limit)
<1> DEFINE Below(x) == {s \in S : s < x}
<1>1. u \in S /\ u \in Int /\ t \in Int /\ Cardinality(Below(u)) < limit
  BY DEF FirstOf
<1>2. Below(t) \subseteq Below(u) /\ Below(u) \subseteq S
  <2>1. ASSUME NEW s \in S, s < t
        PROVE  s < u
    <3>1. s \in Int
      BY <2>1
    <3> QED
      BY <1>1, <2>1, <3>1
  <2> QED
    BY <2>1
<1> HIDE DEF Below
<1>3. IsFiniteSet(Below(u)) /\ IsFiniteSet(Below(t)) /\ Cardinality(Below(t)) <= Cardinality(Below(u))
  BY <1>2, FS_Subset
<1>4. Cardinality(Below(u)) \in Nat /\ Cardinality(Below(t)) \in Nat
  BY <1>3, FS_CardinalityType
<1>5. Cardinality(Below(t)) < limit
  BY <1>1, <1>3, <1>4
<1> QED
  BY <1>5 DEF FirstOf, Below

\* What is on offer lies between now and the horizon.
LEMMA FiniteOffer ==
  ASSUME site \in Sites, NEW range
  PROVE  ForEventType(range) \in SUBSET Int /\ IsFiniteSet(ForEventType(range))
<1>1. site.now \in Int /\ site.horizon \in Nat /\ Day \in Nat /\ site.free \subseteq Int
  BY SiteIs
<1>2. PICK end \in Int : end = site.now + site.horizon * Day
  BY <1>1
<1>3. ForEventType(range) \subseteq site.now .. end
  BY <1>1, <1>2 DEF ForEventType, OnOffer
<1>4. IsFiniteSet(site.now .. end)
  BY <1>1, <1>2, FS_Interval
<1>5. IsFiniteSet(ForEventType(range))
  BY <1>3, <1>4, FS_Subset
<1> QED
  BY <1>1, <1>3, <1>5

\* "The calendar can never show a day as available that then turns out to have
\* nothing": on each date of any page, in any month and any zone, the grid's
\* link, the day's list, the picker and what can be booked agree, whatever has
\* been booked since and however late the visitor comes back to the page.
THEOREM PagesAlwaysAgree ==
  Spec => []PagesAgree
<1>1. Init => PagesInv
  BY DEF Init, PagesInit, PagesInv, PageOK, PageRow, Away
<1>2. PagesInv /\ [Next]_meetingVars => PagesInv'
  BY PagesStep DEF Next, Tables, Guest, Visit, meetingVars, pageVars
<1>3. ASSUME PagesInv
      PROVE  PagesAgree
  <2>1. visitor \in PageRow /\ PageOK(visitor)
    BY <1>3 DEF PagesInv
  <2>2. ASSUME visitor.at \in {"month", "day", "picker"}, NEW date \in MonthDays(visitor.month)
        PROVE  Agrees(date, visitor.zone, visitor.month)
    <3>1. site \in Sites /\ visitor.zone \in Zones /\ visitor.month \in Months
      BY <2>1, <2>2 DEF PageOK
    <3> QED
      BY <3>1, DatesAre, AllAgree
  <2>3. ASSUME visitor.at \in {"confirm", "taken", "booked", "picker"}, NEW zone \in ZonesAhead
        PROVE  Agrees(LocalDate(visitor.zone, visitor.start), zone, visitor.month)
    <3>1. site \in Sites /\ visitor.zone \in Zones /\ visitor.month \in Months /\ visitor.start \in Starts
      BY <2>1, <2>3 DEF PageOK
    <3>2. zone \in Zones
      BY <2>3, <3>1 DEF ZonesAhead
    <3> QED
      BY <3>1, <3>2, DatesAre, AllAgree
  <2> QED
    BY <2>2, <2>3 DEF PagesAgree
<1> QED
  BY <1>1, <1>2, <1>3, PTL DEF Spec

\* An agent is told of a date just what a visitor of the page finds there: of
\* each date that the range asked over REST holds whole, and over MCP of each
\* such date before the one at which the limit cut the list off.
THEOREM AnswersAlwaysAgree ==
  Spec => AnswersAgree
<1> DEFINE Told(from, span, zone, date) ==
             /\ ListSlots(from, span) => AsOnThePage(visitor'.shown, zone, date)
             /\ \A limit \in Limits :
                  /\ GetAvailableSlots(from, span, limit)
                  /\ \E t \in visitor'.shown : date < LocalDate(zone, t)
                  => AsOnThePage(visitor'.shown, zone, date)
<1>1. Init => PagesInv
  BY DEF Init, PagesInit, PagesInv, PageOK, PageRow, Away
<1>2. PagesInv /\ [Next]_meetingVars => PagesInv'
  BY PagesStep DEF Next, Tables, Guest, Visit, meetingVars, pageVars
<1>3. ASSUME PagesInv, Published, NEW from \in Froms, NEW span \in AnySpan, NEW zone \in Zones, DaysOnce(zone),
             NEW date \in DatesHeld(zone, RangeAsked(from, span))
      PROVE  Told(from, span, zone, date)
  <2> DEFINE listed == ForEventType(RangeAsked(from, span))
  <2>1. site \in Sites
    BY <1>3 DEF PagesInv, Published
  <2>2. /\ OnDate(listed, zone, date) = OnDate(OnOffer, zone, date)
        /\ DaySlots(MonthOf(date), date, zone) = OnDate(OnOffer, zone, date) /\ date \in Int
    BY <1>3, <2>1, HeldIs
  <2>3. zone \in ZoneRow /\ listed \in SUBSET Int /\ IsFiniteSet(listed)
    BY <1>3, <2>1, SiteIs, FiniteOffer
  <2>4. ASSUME ListSlots(from, span)
        PROVE  AsOnThePage(visitor'.shown, zone, date)
    <3>1. visitor'.shown = listed
      BY <2>4 DEF ListSlots, Away
    <3> QED
      BY <2>2, <3>1 DEF AsOnThePage
  <2>5. ASSUME NEW limit \in Limits, GetAvailableSlots(from, span, limit),
               NEW last \in visitor'.shown, date < LocalDate(zone, last)
        PROVE  AsOnThePage(visitor'.shown, zone, date)
    <3>1. visitor'.shown = FirstOf(listed, limit) /\ limit \in Nat
      BY <2>5, PagesAssumption DEF GetAvailableSlots, Away
    <3>2. FirstOf(listed, limit) \subseteq listed
      BY DEF FirstOf
    <3>3. last \in FirstOf(listed, limit) /\ last \in Int
      BY <2>3, <2>5, <3>1, <3>2
    <3> HIDE DEF listed
    <3>4. ASSUME NEW t \in listed, LocalDate(zone, t) = date
          PROVE  t \in FirstOf(listed, limit)
      <4>1. t \in Int
        BY <2>3
      <4>2. ~(last <= t)
        <5>1. last <= t => LocalDate(zone, last) <= LocalDate(zone, t)
          BY <1>3, <2>3, <3>3, <4>1, DatesInOrder
        <5>2. LocalDate(zone, last) \in Int
          BY <2>3, <3>3, WallIs
        <5> QED
          BY <2>2, <2>5, <3>4, <5>1, <5>2
      <4>3. t < last
        BY <3>3, <4>1, <4>2
      <4> QED
        BY <2>3, <3>1, <3>3, <4>3, FirstAreFirst
    <3>5. OnDate(FirstOf(listed, limit), zone, date) = OnDate(listed, zone, date)
      BY <3>2, <3>4 DEF OnDate
    <3> QED
      BY <2>2, <3>1, <3>5 DEF AsOnThePage
  <2> QED
    BY <2>4, <2>5
<1>4. PagesInv /\ [Next]_meetingVars =>
        [Published /\ visitor.at = "away" /\ visitor'.at \in {"rest", "mcp"} =>
           \A from \in Froms, span \in AnySpan, zone \in {z \in Zones : DaysOnce(z)} :
             \A date \in DatesHeld(zone, RangeAsked(from, span)) : Told(from, span, zone, date)]_pageVars
  BY <1>3
<1> QED
  BY <1>1, <1>2, <1>4, PTL DEF Spec, AnswersAgree
=================================================================================
