------------------------------ MODULE Invitations ------------------------------
(***************************************************************************)
(* What a guest holds of a meeting: the invitations in her calendar and    *)
(* the manage links in her mailbox, while she and the host move and cancel *)
(* it. Every mail carries an .ics whose UID and SEQUENCE are read off the  *)
(* reschedule chain, from a replica; the queue loses, repeats and reorders *)
(* mails. The slots are those of BookingStore and are left out here.       *)
(***************************************************************************)
EXTENDS Naturals, Sequences, FiniteSets

CONSTANTS
  Handlers,    \* requests that cancel or move, one after the other in each
  MaxHops,     \* loadChain: reads, 20 in the code
  MaxBookings  \* bound: the first booking, its moves, and their duplicates

ASSUME InvitationsAssumption == MaxHops \in Nat /\ MaxBookings \in Nat \ {0}

VARIABLES
  rows,      \* the bookings of one meeting in the order D1 committed them
  handler,   \* the locals of each request
  mails,     \* what was enqueued; the queue may deliver each any number of times
  calendar,  \* what the guest's calendar keeps under each UID
  brokenOff  \* history: a request broke off

invitationVars == <<rows, handler, mails, calendar, brokenOff>>

Nothing == 0
Bookings == 1..Len(rows)
Standing == {b \in Bookings : rows[b].status = "confirmed"}

Resting == [at |-> "idle", kind |-> "cancel", byGuest |-> FALSE, old |-> Nothing, new |-> Nothing]

InvitationsInit ==
  /\ rows = <<>>
  /\ handler = [h \in Handlers |-> Resting]
  /\ mails = {}
  /\ calendar = [uid \in 1..MaxBookings |-> [seq |-> 0, shows |-> Nothing, known |-> FALSE]]
  /\ brokenOff = FALSE

\* INSERT INTO bookings, with the hash of the manage token just issued.
NewBooking(of) ==
  /\ Len(rows) < MaxBookings
  /\ rows' = Append(rows, [status |-> "confirmed", of |-> of, to |-> Nothing, link |-> "issued"])

EndBooking(b, status, to) ==
  IF b \in Standing THEN [rows EXCEPT ![b].status = status, ![b].to = to] ELSE rows

-----------------------------------------------------------------------------
(* notify.ts and ics.ts. *)

\* The predecessors of every booking, the nearest first.
Lineage ==
  LET line[b \in 0..Len(rows)] ==
        IF b = 0 \/ rows[b].of = Nothing THEN <<>> ELSE <<rows[b].of>> \o line[rows[b].of]
  IN line

\* How many of them are read from a replica that has the first `replica` rows:
\* it stops at the first that it does not know.
LoadChain(b, replica) ==
  LET known == {n \in 0..Len(Lineage[b]) : n <= MaxHops /\ \A i \in 1..n : Lineage[b][i] <= replica}
  IN CHOOSE n \in known : \A m \in known : m <= n

\* The walk goes one hop further than what was read: to the id of the absent one.
Hops(b, loaded) == IF loaded < Len(Lineage[b]) THEN loaded + 1 ELSE loaded

IcsUid(b, loaded) == IF Hops(b, loaded) = 0 THEN b ELSE Lineage[b][Hops(b, loaded)]

\* Slip: a CANCEL with the SEQUENCE of the REQUEST it revokes.
SequenceSame(b, loaded, method) == Hops(b, loaded)

IcsSequence(b, loaded, method) == Hops(b, loaded) + (IF method = "CANCEL" THEN 1 ELSE 0)

\* History: the replica lacks a predecessor.
Lags(b, replica) == \E i \in 1..Len(Lineage[b]) : Lineage[b][i] > replica

\* buildAttachment, with what the replica knew of the chain.
Attachment(b, method, replica) ==
  LET loaded == LoadChain(b, replica)
  IN [about |-> b, method |-> method, uid |-> IcsUid(b, loaded),
      seq |-> IcsSequence(b, loaded, method), lag |-> Lags(b, replica)]

\* The message to the guest. A queue.send that fails is only logged: that is a
\* mail that never comes.
Notify(b, method) == \E replica \in 0..Len(rows) : mails' = mails \cup {Attachment(b, method, replica)}

\* A booking that moves nothing: book() sends "Confirmed" after its commit. The
\* chain is known to be empty, so that no replica is asked.
BookFirst ==
  /\ rows = <<>>
  /\ NewBooking(Nothing)
  /\ mails' = mails \cup {[about |-> Len(rows'), method |-> "REQUEST", uid |-> Len(rows'), seq |-> 0, lag |-> FALSE]}
  /\ UNCHANGED <<handler, calendar, brokenOff>>

-----------------------------------------------------------------------------
(* The handlers of the manage page, the REST API and the MCP server. *)

InStage(h, at) == handler[h].at = at
GoOn(h, at) == handler' = [handler EXCEPT ![h].at = at]
Rest(h) == handler' = [handler EXCEPT ![h] = Resting]

\* byManageToken: a link opens the booking whose row still has its hash.
LinkOpens(b) == rows[b].link = "issued"

\* The guest needs the link, the host's key does not; both need it confirmed.
Look(h) ==
  /\ InStage(h, "idle")
  /\ \E b \in Standing, kind \in {"cancel", "move"}, byGuest \in BOOLEAN :
       /\ byGuest => LinkOpens(b)
       /\ handler' = [handler EXCEPT ![h] =
            [Resting EXCEPT !.at = kind, !.kind = kind, !.byGuest = byGuest, !.old = b]]
  /\ UNCHANGED <<rows, mails, calendar, brokenOff>>

\* rotateManageToken, by the guest's handlers only.
NextStage(h) == IF handler[h].byGuest THEN "rotate" ELSE "mail"

CancelIt(h) ==
  /\ InStage(h, "cancel")
  /\ rows' = EndBooking(handler[h].old, "cancelled", Nothing)
  /\ IF handler[h].old \in Standing THEN GoOn(h, NextStage(h)) ELSE Rest(h)
  /\ UNCHANGED <<mails, calendar, brokenOff>>

\* Slip: "Confirmed" also for a booking that moves another.
BookNewAloud(h) ==
  /\ InStage(h, "move")
  /\ NewBooking(handler[h].old)
  /\ handler' = [handler EXCEPT ![h].at = "mark", ![h].new = Len(rows')]
  /\ mails' = mails \cup {[about |-> Len(rows'), method |-> "REQUEST", uid |-> Len(rows'), seq |-> 0, lag |-> FALSE]}
  /\ UNCHANGED <<calendar, brokenOff>>

\* book() with rescheduleOf, which sends no mail.
BookNew(h) ==
  /\ InStage(h, "move")
  /\ NewBooking(handler[h].old)
  /\ handler' = [handler EXCEPT ![h].at = "mark", ![h].new = Len(rows')]
  /\ UNCHANGED <<mails, calendar, brokenOff>>

NoneBooked(h) == InStage(h, "move") /\ Rest(h) /\ UNCHANGED <<rows, mails, calendar, brokenOff>>

MarkMoved(h) ==
  /\ InStage(h, "mark")
  /\ rows' = EndBooking(handler[h].old, "rescheduled", handler[h].new)
  /\ GoOn(h, IF handler[h].old \in Standing THEN NextStage(h) ELSE "undo")
  /\ UNCHANGED <<mails, calendar, brokenOff>>

\* The duplicate goes without a word to the guest, who was never told of it.
Undo(h) ==
  /\ InStage(h, "undo")
  /\ rows' = EndBooking(handler[h].new, "cancelled", Nothing)
  /\ Rest(h)
  /\ UNCHANGED <<mails, calendar, brokenOff>>

\* Slip: the rotation is for the booking just made.
RotateNew(h) ==
  /\ InStage(h, "rotate")
  /\ LET b == IF handler[h].new = Nothing THEN handler[h].old ELSE handler[h].new IN
       rows' = [rows EXCEPT ![b].link = "rotated"]
  /\ GoOn(h, "mail")
  /\ UNCHANGED <<mails, calendar, brokenOff>>

Rotate(h) ==
  /\ InStage(h, "rotate")
  /\ rows' = [rows EXCEPT ![handler[h].old].link = "rotated"]
  /\ GoOn(h, "mail")
  /\ UNCHANGED <<mails, calendar, brokenOff>>

\* The event type is still there: without it a cancellation tells nobody.
\* icsCancelSuppressed never applies: the row was confirmed when it was read.
Mail(h) ==
  /\ InStage(h, "mail")
  /\ IF handler[h].kind = "move" THEN Notify(handler[h].new, "REQUEST") ELSE Notify(handler[h].old, "CANCEL")
  /\ Rest(h)
  /\ UNCHANGED <<rows, calendar, brokenOff>>

\* The Worker is evicted, or D1 throws.
BreakOff(h) == ~InStage(h, "idle") /\ brokenOff' = TRUE /\ Rest(h) /\ UNCHANGED <<rows, mails, calendar>>

-----------------------------------------------------------------------------
(* The guest's mail client. *)

\* Between requests: what a request does is not moved by what is delivered, so
\* that every order of mails has its place here.
Quiet == \A h \in Handlers : InStage(h, "idle")

\* RFC 5546: a lower SEQUENCE than the one kept is old. Of two mails with the
\* same one a client may believe either.
Deliver(m) ==
  /\ Quiet
  /\ LET kept == calendar[m.uid] IN
       /\ kept.known => m.seq >= kept.seq
       /\ calendar' = [calendar EXCEPT ![m.uid] =
            [seq |-> m.seq, known |-> TRUE, shows |-> IF m.method = "CANCEL" THEN Nothing ELSE m.about]]
  /\ UNCHANGED <<rows, handler, mails, brokenOff>>

InvitationsNext ==
  \/ BookFirst
  \/ \E h \in Handlers :
       \/ Look(h) \/ CancelIt(h) \/ BookNew(h) \/ NoneBooked(h) \/ MarkMoved(h) \/ Undo(h)
       \/ Rotate(h) \/ Mail(h) \/ BreakOff(h)
  \/ \E m \in mails : Deliver(m)

-----------------------------------------------------------------------------
(* Properties. *)

Root(b) == IF Lineage[b] = <<>> THEN b ELSE Lineage[b][Len(Lineage[b])]

\* The last word on a meeting: it was called off, or it stands as m says.
LastWord(m) == m.method = "CANCEL" \/ m.about \in Standing

\* b replaced what it was made to move.
OnTheLine(b) ==
  \A i \in 1..Len(Lineage[b]) :
    rows[Lineage[b][i]].to = IF i = 1 THEN b ELSE Lineage[b][i - 1]

\* No mail on the meeting was written off a replica that lagged behind two moves
\* of it or after more moves than loadChain follows, and none is about a
\* duplicate that a broken-off move had left and somebody acted on.
Orderly(root) ==
  \A m \in mails : Root(m.about) = root =>
    ~m.lag /\ Len(Lineage[m.about]) <= MaxHops + 1 /\ OnTheLine(m.about)

\* What the guest's calendar shows of a meeting, under any UID.
Seen(root) == {calendar[uid].shows : uid \in 1..MaxBookings} \cap {b \in Bookings : Root(b) = root}

\* "Same UID plus a higher SEQUENCE" - "I now have two meetings", "the guest
\* silently losing the meeting": once the last word on a meeting has reached the
\* guest's calendar it shows that and nothing else, whichever of the mails
\* before it were lost, come twice or arrive after it, and however moves and
\* cancellations by guest and host had crossed.
CalendarFollows ==
  \A m \in mails :
    LastWord(m) /\ Orderly(Root(m.about)) /\ calendar[m.uid].known /\ calendar[m.uid].seq >= m.seq
      => Seen(Root(m.about)) = IF m.method = "CANCEL" THEN {} ELSE {m.about}

\* What the mails add up to in any order: a booking was announced, and neither
\* called off nor replaced.
Announced ==
  {m.about : m \in {n \in mails : n.method = "REQUEST"}} \
    ({m.about : m \in {n \in mails : n.method = "CANCEL"}} \cup {rows[m.about].of : m \in mails})

\* "Two contradictory emails for one action", a meeting nobody hears of, a
\* duplicate that somebody does: with every request at an end and none broken
\* off, the mails to the guest add up to the meeting that stands.
ToldTheSame == ~brokenOff /\ Quiet => Announced = Standing

\* Rotation ends the links of what has ended, and no other: the guest of a
\* meeting that stands is never left with a link that a lost race has spent.
LinkOutlives == \A b \in Standing : LinkOpens(b)
================================================================================
