------------------------------- MODULE Deliveries -------------------------------
(***************************************************************************)
(* What others are told of a booking: the guest by mail, the subscribers   *)
(* by their webhooks. A request hands one message for each to the queue;   *)
(* the consumer takes them in batches, and acknowledges or retries each by *)
(* itself. A deployment with no queue delivers inside the request.         *)
(*                                                                         *)
(* An endpoint is sent to while its row is there, as a replica knows it.   *)
(***************************************************************************)
EXTENDS Naturals, FiniteSets

CONSTANTS
  Subscribers,  \* hosts who register webhooks
  Hooks,        \* ids of webhooks; an id is never used twice
  Deaf,         \* hooks whose endpoint answers with an error
  Guest,        \* who is told by mail
  Kinds,        \* events one may subscribe to
  MaxNews,      \* bound: what there is to tell
  BatchSize,    \* max_batch_size
  MaxRetries,   \* max_retries
  MaxTroubles   \* bound: batches that fail as a whole

ASSUME DeliveriesAssumption ==
  /\ Deaf \subseteq Hooks /\ Guest \notin Hooks
  /\ MaxRetries \in Nat /\ BatchSize \in Nat \ {0} /\ MaxNews \in Nat
  /\ MaxTroubles \in 0..MaxRetries

VARIABLES
  webhooks,  \* rows in D1: who gets which events
  replica,   \* the same as a replica has them
  bound,     \* env.TASKS: there is a queue
  news,      \* how much there was to tell
  queued,    \* messages that wait, with the retries they had
  batch,     \* messages in the consumer's hands
  heard,     \* who has been told what
  troubles

deliveryVars == <<webhooks, replica, bound, news, queued, batch, heard, troubles>>

\* An id that is still to come, or has been deleted, has no row.
NoRow(was) == [is |-> was, owner |-> {}, events |-> {}]
Rows == [is : {"there"}, owner : {{u} : u \in Subscribers}, events : (SUBSET Kinds) \ {{}}]
Present(rows, h) == rows[h].is = "there"

DeliveriesInit ==
  /\ webhooks = [h \in Hooks |-> NoRow("to come")]
  /\ replica = webhooks
  /\ bound \in BOOLEAN
  /\ news = 0 /\ troubles = 0
  /\ queued = {} /\ batch = {} /\ heard = {}

-----------------------------------------------------------------------------
(* Requests. *)

\* POST /webhooks, of a new id; nothing is ever changed in a row.
Register(h) ==
  /\ webhooks[h].is = "to come"
  /\ \E row \in Rows : webhooks' = [webhooks EXCEPT ![h] = row]
  /\ UNCHANGED <<replica, bound, news, queued, batch, heard, troubles>>

\* DELETE /webhooks/:id.
Unregister(h) ==
  /\ Present(webhooks, h)
  /\ webhooks' = [webhooks EXCEPT ![h] = NoRow("deleted")]
  /\ UNCHANGED <<replica, bound, news, queued, batch, heard, troubles>>

CatchUp ==
  /\ replica' = webhooks
  /\ UNCHANGED <<webhooks, bound, news, queued, batch, heard, troubles>>

\* The hooks of every host who takes part.
Subscribed(rows, hosts, kind) == {h \in Hooks : rows[h].owner \cap hosts # {} /\ kind \in rows[h].events}

\* A host whose hooks cannot be read, and a send that fails, are passed over.
\* Without a queue the send is the delivery.
NotifyWebhooks ==
  /\ news < MaxNews
  /\ \E hosts \in (SUBSET Subscribers) \ {{}}, kind \in Kinds, rows \in {webhooks, replica} :
       \E sent \in SUBSET (Subscribed(rows, hosts, kind) \cup {Guest}) :
         IF bound
         THEN /\ queued' = queued \cup
                   {[to |-> r, item |-> news + 1, tries |-> 0, settled |-> webhooks = replica] : r \in sent}
              /\ UNCHANGED heard
         ELSE /\ heard' = heard \cup {<<r, news + 1>> : r \in sent \ Deaf}
              /\ UNCHANGED queued
  /\ news' = news + 1
  /\ UNCHANGED <<webhooks, replica, bound, batch, troubles>>

-----------------------------------------------------------------------------
(* The consumer. *)

TakeBatch ==
  /\ batch = {}
  /\ \E some \in (SUBSET queued) \ {{}} :
       /\ Cardinality(some) <= BatchSize
       /\ batch' = some /\ queued' = queued \ some
  /\ UNCHANGED <<webhooks, replica, bound, news, heard, troubles>>

\* After max_retries a message goes to the dead letters, where nobody looks.
Again(messages) ==
  queued \cup {[m EXCEPT !.tries = @ + 1] : m \in {n \in messages : n.tries < MaxRetries}}

Ack(m) == batch' = batch \ {m} /\ UNCHANGED queued

\* Slip: what one message throws ends the loop, and fails the batch.
RetryAll(m) == batch' = {} /\ queued' = Again(batch)

Retry(m) == batch' = batch \ {m} /\ queued' = Again({m})

\* Anything but a 2xx throws.
DeliverTo(m) ==
  IF m.to \in Deaf THEN Retry(m) /\ UNCHANGED heard
  ELSE Ack(m) /\ heard' = heard \cup {<<m.to, m.item>>}

\* A message for a row that is gone is done with.
HandleOne(m) ==
  /\ \/ m.to = Guest /\ DeliverTo(m)
     \/ /\ m.to \in Hooks
        /\ \E rows \in {webhooks, replica} :
             IF Present(rows, m.to) THEN DeliverTo(m) ELSE Ack(m) /\ UNCHANGED heard
  /\ UNCHANGED <<webhooks, replica, bound, news, troubles>>

HandleQueueBatch == \E m \in batch : HandleOne(m)

\* The deployment lacks a key, or the consumer is evicted: what is left of the
\* batch comes again.
BatchFails ==
  /\ batch # {} /\ troubles < MaxTroubles
  /\ queued' = Again(batch) /\ batch' = {}
  /\ troubles' = troubles + 1
  /\ UNCHANGED <<webhooks, replica, bound, news, heard>>

DeliveriesNext ==
  \/ \E h \in Hooks : Register(h) \/ Unregister(h)
  \/ CatchUp
  \/ NotifyWebhooks
  \/ TakeBatch \/ HandleQueueBatch \/ BatchFails

\* Queues hands out what waits, and the consumer runs.
DeliveriesFairness == WF_deliveryVars(TakeBatch) /\ WF_deliveryVars(HandleQueueBatch)

-----------------------------------------------------------------------------
(* Properties. *)

InTheQueue(r, i) == \E m \in queued \cup batch : m.to = r /\ m.item = i /\ m.settled

\* "One bad webhook endpoint must not hold up everyone else's confirmation
\* emails": a message that the queue took reaches the guest, or a subscriber
\* whose endpoint answers and whose row every replica had by then, unless the
\* row is deleted first; whoever else is in its batches, and as long as fewer
\* batches fail as a whole than it has tries.
OthersHear ==
  \A r \in (Hooks \ Deaf) \cup {Guest}, i \in 1..MaxNews :
    InTheQueue(r, i) ~> (<<r, i>> \in heard \/ (r \in Hooks /\ ~Present(webhooks, r)))
================================================================================
