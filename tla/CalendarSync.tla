----------------------------- MODULE CalendarSync -----------------------------
(***************************************************************************)
(* The queue consumer's calendar.sync jobs: the events they put on and     *)
(* take off the hosts' Google and Microsoft calendars, and the map of      *)
(* event ids kept in the booking row. The queue is at-least-once and       *)
(* unordered; a job reads the row, calls the providers one connection at a *)
(* time and writes the whole map back, and other jobs, the routes and the  *)
(* hosts may act between any two of its awaits. The code consumes updates  *)
(* but nothing sends one: they are left out.                               *)
(***************************************************************************)
EXTENDS Naturals, FiniteSets

CONSTANTS
  Bookings,
  Conns,          \* calendar connections with a calendar to write to
  ConnsOf,        \* ConnsOf[b]: the connections of the hosts of booking b
  Workers,        \* consumer invocations that may run at one time
  MaxDeliveries,  \* bound: max_retries of the queue and its duplicates
  Outages         \* which of "provider", "reply" and "store" may fail

ASSUME SyncAssumption ==
  /\ ConnsOf \in [Bookings -> SUBSET Conns]
  /\ MaxDeliveries \in Nat \ {0}
  /\ Outages \subseteq {"provider", "reply", "store"}

VARIABLES
  status,  \* bookings.status; a cancelled or moved booking is "ended"
  typed,   \* typed[b]: b's event type still exists
  ids,     \* ids[b][c]: external_event_ids_json, 0 where c has no entry
  sync,    \* calendar_connections.sync_status
  events,  \* what is on the providers' calendars: <<connection, booking, id>>
  grant,   \* grant[c]: the provider still honours the refresh token
  sent,    \* messages the routes have sent
  acked,   \* messages some delivery of which was acknowledged
  tries,   \* tries[m]: deliveries of m so far
  work,    \* work[w]: the locals of a consumer invocation
  lost     \* history: <<b, c>> where a call failed or its id was not stored

rowVars == <<status, typed, ids, sync>>
providerVars == <<events, grant>>
queueVars == <<sent, acked, tries>>
syncVars == <<rowVars, providerVars, queueVars, work, lost>>

Messages == {"create", "delete"} \X Bookings
NoIds == [c \in Conns |-> 0]

\* msg and n: the message and which delivery of it this is; snap: booking's map
\* as it was read; made: createdIds; todo: the connections still to call.
Idle == [at |-> "idle", msg |-> <<>>, n |-> 0, snap |-> NoIds, made |-> NoIds, todo |-> {}]

SyncInit ==
  /\ status = [b \in Bookings |-> "none"]
  /\ typed = [b \in Bookings |-> TRUE]
  /\ ids = [b \in Bookings |-> NoIds]
  /\ sync = [c \in Conns |-> "ok"]
  /\ events = {}
  /\ grant = [c \in Conns |-> TRUE]
  /\ sent = {} /\ acked = {}
  /\ tries = [m \in Messages |-> 0]
  /\ work = [w \in Workers |-> Idle]
  /\ lost = {}

-----------------------------------------------------------------------------
(* What the requests and the hosts do meanwhile. *)

Commit(b) ==
  /\ status[b] = "none"
  /\ status' = [status EXCEPT ![b] = "confirmed"]
  /\ UNCHANGED <<typed, ids, sync, providerVars, queueVars, work, lost>>

End(b) ==
  /\ status[b] = "confirmed"
  /\ status' = [status EXCEPT ![b] = "ended"]
  /\ UNCHANGED <<typed, ids, sync, providerVars, queueVars, work, lost>>

\* Both sends come after the write they tell of, in requests of their own: the
\* delete may be sent first.
Send(m) ==
  /\ m \notin sent
  /\ status[m[2]] \in (IF m[1] = "create" THEN {"confirmed", "ended"} ELSE {"ended"})
  /\ sent' = sent \cup {m}
  /\ UNCHANGED <<rowVars, providerVars, acked, tries, work, lost>>

DropEventType(b) ==
  /\ typed[b]
  /\ typed' = [typed EXCEPT ![b] = FALSE]
  /\ UNCHANGED <<status, ids, sync, providerVars, queueVars, work, lost>>

Revoke(c) ==
  /\ grant[c]
  /\ grant' = [grant EXCEPT ![c] = FALSE]
  /\ UNCHANGED <<rowVars, events, queueVars, work, lost>>

-----------------------------------------------------------------------------
(* One delivery. *)

At(w, here) == work[w].at = here
Action(w) == work[w].msg[1]
Booking(w) == work[w].msg[2]
Finished(w) == work' = [work EXCEPT ![w] = Idle]

\* Slip: the delivery after the last retry is still made.
DeliverOnceMore(w, m) ==
  /\ At(w, "idle") /\ m \in sent /\ tries[m] <= MaxDeliveries
  /\ tries' = [tries EXCEPT ![m] = @ + 1]
  /\ work' = [work EXCEPT ![w] = [Idle EXCEPT !.at = "read", !.msg = m, !.n = tries'[m]]]
  /\ UNCHANGED <<rowVars, providerVars, sent, acked, lost>>

\* A first delivery, a retry, or a duplicate of a message that was acknowledged.
Deliver(w, m) ==
  /\ At(w, "idle") /\ m \in sent /\ tries[m] < MaxDeliveries
  /\ tries' = [tries EXCEPT ![m] = @ + 1]
  /\ work' = [work EXCEPT ![w] = [Idle EXCEPT !.at = "read", !.msg = m, !.n = tries'[m]]]
  /\ UNCHANGED <<rowVars, providerVars, sent, acked, lost>>

Acknowledge(w) ==
  /\ acked' = acked \cup {work[w].msg}
  /\ Finished(w)
  /\ UNCHANGED <<rowVars, providerVars, sent, tries, lost>>

\* Goes on with the row as it is now.
TakeSnapshot(w) ==
  /\ work' = [work EXCEPT ![w].at = "list", ![w].snap = ids[Booking(w)], ![w].made = ids[Booking(w)]]
  /\ UNCHANGED <<rowVars, providerVars, queueVars, lost>>

\* Slip: a create that is delivered late is carried out.
ReadBookingOnly(w) == At(w, "read") /\ TakeSnapshot(w)

\* "A create that is still retrying when the booking gets cancelled must not
\* land": the status is tested once, here.
ReadBooking(w) ==
  /\ At(w, "read")
  /\ IF Action(w) = "create" /\ status[Booking(w)] # "confirmed" THEN Acknowledge(w) ELSE TakeSnapshot(w)

\* Slip: at-least-once delivery forgotten.
WantedAgain(w, c) == Action(w) = "create" \/ work[w].snap[c] # 0

\* A create passes over what has an id already, a delete over what has none.
Wanted(w, c) == (Action(w) = "create") <=> (work[w].snap[c] = 0)

Call(w) ==
  /\ work' = [work EXCEPT ![w].at = "call",
                          ![w].todo = {c \in ConnsOf[Booking(w)] : sync[c] = "ok" /\ Wanted(w, c)}]
  /\ UNCHANGED <<rowVars, providerVars, queueVars, lost>>

\* Slip: a missing event type ends every job.
ListForType(w) ==
  /\ At(w, "list")
  /\ IF typed[Booking(w)] THEN Call(w) ELSE Acknowledge(w)

\* The event type, which only a create needs, and the connections in order.
List(w) ==
  /\ At(w, "list")
  /\ IF Action(w) = "create" /\ ~typed[Booking(w)] THEN Acknowledge(w) ELSE Call(w)

Event(w, c) == <<c, Booking(w), IF Action(w) = "create" THEN work[w].n ELSE work[w].snap[c]>>
Happens(w, c) == events' = IF Action(w) = "create" THEN events \cup {Event(w, c)} ELSE events \ {Event(w, c)}
Onward(w, c) == [work EXCEPT ![w].todo = @ \ {c}]

\* The provider answers: a created event has an id, and a deleted one is gone
\* (404 and 410 count as deleted).
Succeeds(w, c) ==
  /\ At(w, "call") /\ c \in work[w].todo /\ grant[c]
  /\ Happens(w, c)
  /\ work' = [Onward(w, c) EXCEPT ![w].made[c] = IF Action(w) = "create" THEN work[w].n ELSE 0]
  /\ UNCHANGED <<rowVars, grant, queueVars, lost>>

\* A dead grant is recorded, unless that write fails too.
Refused(w, c) ==
  /\ At(w, "call") /\ c \in work[w].todo /\ ~grant[c]
  /\ \/ sync' = [sync EXCEPT ![c] = "needs_reconnect"]
     \/ "store" \in Outages /\ UNCHANGED sync
  /\ work' = Onward(w, c)
  /\ lost' = lost \cup {<<Booking(w), c>>}
  /\ UNCHANGED <<status, typed, ids, providerVars, queueVars>>

\* Any other error of one connection is logged and the loop goes on: the call
\* may have been carried out all the same.
ProviderFails(w, c) ==
  /\ At(w, "call") /\ c \in work[w].todo /\ grant[c]
  /\ \/ "provider" \in Outages /\ UNCHANGED events
     \/ "reply" \in Outages /\ Happens(w, c)
  /\ work' = Onward(w, c)
  /\ lost' = lost \cup {<<Booking(w), c>>}
  /\ UNCHANGED <<rowVars, grant, queueVars>>

\* The whole map is written, if this job changed it, and the message acknowledged
\* (unless the consumer dies between the two).
Save(w) ==
  /\ At(w, "call") /\ work[w].todo = {}
  /\ ids' = IF work[w].made = work[w].snap THEN ids ELSE [ids EXCEPT ![Booking(w)] = work[w].made]
  /\ \/ acked' = acked \cup {work[w].msg}
     \/ "store" \in Outages /\ UNCHANGED acked
  /\ Finished(w)
  /\ UNCHANGED <<status, typed, sync, providerVars, sent, tries, lost>>

\* A statement throws (message.retry) or the consumer dies: the ids of the
\* events it made are nowhere.
StoreFails(w) ==
  /\ "store" \in Outages /\ ~At(w, "idle")
  /\ lost' = lost \cup {<<Booking(w), c>> : c \in {d \in Conns : work[w].made[d] \notin {0, work[w].snap[d]}}}
  /\ Finished(w)
  /\ UNCHANGED <<rowVars, providerVars, queueVars>>

Consume(w) ==
  \/ ReadBooking(w) \/ List(w) \/ Save(w)
  \/ \E c \in Conns : Succeeds(w, c) \/ Refused(w, c) \/ ProviderFails(w, c)

SyncNext ==
  \/ \E b \in Bookings : Commit(b) \/ End(b) \/ DropEventType(b)
  \/ \E c \in Conns : Revoke(c)
  \/ \E m \in Messages : Send(m) \/ \E w \in Workers : Deliver(w, m)
  \/ \E w \in Workers : Consume(w) \/ StoreFails(w)

\* The queue delivers what is not acknowledged, and a delivery that does not
\* fail runs to its end.
SyncFairness ==
  /\ \A m \in Messages : WF_syncVars(m \notin acked /\ \E w \in Workers : Deliver(w, m))
  /\ \A w \in Workers : WF_syncVars(Consume(w))

SyncSpec == SyncInit /\ [][SyncNext]_syncVars
SyncFairSpec == SyncSpec /\ SyncFairness

-----------------------------------------------------------------------------
(* Properties. *)

SyncTypeOK ==
  /\ status \in [Bookings -> {"none", "confirmed", "ended"}]
  /\ typed \in [Bookings -> BOOLEAN]
  /\ ids \in [Bookings -> [Conns -> 0..MaxDeliveries]]
  /\ sync \in [Conns -> {"ok", "needs_reconnect"}]
  /\ events \subseteq Conns \X Bookings \X (1..MaxDeliveries)
  /\ grant \in [Conns -> BOOLEAN]
  /\ sent \subseteq Messages /\ acked \subseteq sent
  /\ tries \in [Messages -> 0..MaxDeliveries]
  /\ work \in [Workers -> [at: {"idle", "read", "list", "call"}, msg: Messages \cup {<<>>}, n: 0..MaxDeliveries,
                           snap: [Conns -> 0..MaxDeliveries], made: [Conns -> 0..MaxDeliveries], todo: SUBSET Conns]]
  /\ lost \subseteq Bookings \X Conns

EventsOf(b, c) == {e \in events : e[1] = c /\ e[2] = b}
Busy(b) == \E w \in Workers : ~At(w, "idle") /\ Booking(w) = b

\* No call for b on c went wrong, nor could one have been passed over.
Sound(b, c) == c \in ConnsOf[b] /\ <<b, c>> \notin lost /\ sync[c] = "ok"

\* However often the create job of a standing booking is delivered, when it is
\* done the host has one event, and it is the one the row knows.
EventForEach ==
  \A b \in Bookings, c \in Conns :
    status[b] = "confirmed" /\ typed[b] /\ <<"create", b>> \in acked /\ ~Busy(b) /\ Sound(b, c) =>
      EventsOf(b, c) = {<<c, b, ids[b][c]>>}

\* Once the delete job of a booking is done and nothing is at work on it, none
\* of its events is left, whether its create came before, after or not at all.
NoPhantom ==
  \A b \in Bookings, c \in Conns :
    status[b] = "ended" /\ <<"delete", b>> \in acked /\ ~Busy(b) /\ Sound(b, c) => EventsOf(b, c) = {}

\* A delete job that was sent does its work for good, through redeliveries and
\* the failures of other connections, unless all its deliveries failed.
DeletesArrive ==
  \A b \in Bookings, c \in Conns :
    <<"delete", b>> \in sent ~>
      [](\/ EventsOf(b, c) = {} \/ ~Sound(b, c)
         \/ tries[<<"delete", b>>] = MaxDeliveries /\ <<"delete", b>> \notin acked)
=============================================================================
