------------------------------ MODULE OutsideProofs ------------------------------
(***************************************************************************)
(* For any bookings, connections, calendars, pictures and requests: with   *)
(* one consumer the calendars hold what the rows say, a listing or a       *)
(* commit knows of every busy event that was there, and a profile never    *)
(* points at a photo that R2 does not have.                                *)
(*                                                                         *)
(* The events of a booking are those its row has the ids of, or, while a   *)
(* job is at work on it, the job's own map (Tracked); what a job passes    *)
(* over or has called is done (JobOK), and what was acknowledged stays so  *)
(* (DoneInv). Two consumers may write over each other's maps: the run      *)
(* phantom shows it, and OneConsumer excludes it here.                     *)
(***************************************************************************)
EXTENDS Outside, FiniteSetTheorems, SequenceTheorems, TLAPS

-----------------------------------------------------------------------------
(* The hosts' calendars. *)

OneConsumer == \A v, w \in Workers : v = w

Numbers == 1..MaxDeliveries

\* A job that has read the row of b, and may change what is on the calendars.
Engaged(w, b) == work[w].at \in {"list", "call"} /\ work[w].msg[2] = b

Gone(b, c) == \A n \in Numbers : <<c, b, n>> \notin events

\* A map of ids that tells of every event whose call was not lost.
Tracked(map, b) ==
  \A c \in Conns : <<b, c>> \notin lost =>
    /\ \A n \in Numbers : <<c, b, n>> \in events => n = map[c]
    /\ status[b] # "ended" /\ map[c] # 0 => <<c, b, map[c]>> \in events

\* A job reads the row once; where it has no call left to make, it is done.
JobOK(j) ==
  /\ j.at # "idle" => j.msg \in sent /\ j.n # 0
  /\ j.at \in {"list", "call"} => j.snap = ids[j.msg[2]] /\ Tracked(j.made, j.msg[2])
  /\ j.at = "list" => j.made = j.snap
  /\ j.at = "call" =>
       /\ \A c \in j.todo : j.made[c] = j.snap[c] /\ ((j.msg[1] = "create") <=> (j.snap[c] = 0))
       /\ j.msg[1] = "create" => \A c \in Conns : j.snap[c] \in {0, j.made[c]}
       /\ \A c \in Conns : Sound(j.msg[2], c) /\ c \notin j.todo =>
            IF j.msg[1] = "create" THEN j.made[c] # 0 ELSE Gone(j.msg[2], c)

\* A delete is sent when the booking has ended, which it does for good.
SentInv ==
  \A b \in Bookings :
    /\ <<"create", b>> \in sent => status[b] # "none"
    /\ <<"delete", b>> \in sent => status[b] = "ended"

\* What was acknowledged was done, and no create undoes it.
DoneInv ==
  \A b \in Bookings :
    /\ <<"create", b>> \in acked /\ status[b] = "confirmed" /\ typed[b] =>
         \A c \in Conns : Sound(b, c) => ids[b][c] # 0 /\ \A w \in Workers : Engaged(w, b) => work[w].made[c] # 0
    /\ <<"delete", b>> \in acked =>
         /\ \A c \in Conns : Sound(b, c) => Gone(b, c)
         /\ \A w \in Workers : Engaged(w, b) => work[w].msg[1] = "delete"

SyncInv ==
  /\ SyncTypeOK /\ SentInv /\ DoneInv
  /\ \A w \in Workers : JobOK(work[w])
  /\ \A b \in Bookings : (\A w \in Workers : ~Engaged(w, b)) => Tracked(ids[b], b)

Maps == [Conns -> 0..MaxDeliveries]
JobRows ==
  [at: {"idle", "read", "list", "call"}, msg: Messages \cup {<<>>}, n: 0..MaxDeliveries,
   snap: Maps, made: Maps, todo: SUBSET Conns]

LEMMA MessageIs ==
  ASSUME NEW m \in Messages
  PROVE  m[1] \in {"create", "delete"} /\ m[2] \in Bookings /\ m = <<m[1], m[2]>>
  BY DEF Messages

LEMMA IdleIs == Idle \in JobRows /\ Idle.at = "idle" /\ NoIds \in Maps
  BY SyncAssumption DEF Idle, JobRows, NoIds, Maps

LEMMA JobIs ==
  ASSUME SyncInv, NEW w \in Workers, work[w].at # "idle"
  PROVE  /\ work[w] \in JobRows /\ work[w].msg \in sent /\ work[w].msg \in Messages
         /\ work[w].msg[1] \in {"create", "delete"} /\ work[w].msg[2] \in Bookings
         /\ work[w].msg = <<work[w].msg[1], work[w].msg[2]>> /\ work[w].n \in Numbers
<1>1. work[w] \in JobRows /\ work[w].msg \in sent /\ sent \subseteq Messages /\ work[w].n # 0
  BY DEF SyncInv, SyncTypeOK, JobOK, JobRows, Maps
<1>2. work[w].n \in Numbers
  BY <1>1, SyncAssumption DEF JobRows, Numbers
<1> QED
  BY <1>1, <1>2, MessageIs

\* A map goes on telling of the events while none comes or goes.
LEMMA StillTracked ==
  ASSUME NEW map, NEW b, Tracked(map, b), UNCHANGED events, lost \subseteq lost',
         status'[b] # "ended" => status[b] # "ended"
  PROVE  Tracked(map, b)'
  BY DEF Tracked

\* Whoever is not at work on the calendars changes no job, no map and no event.
LEMMA Meanwhile ==
  ASSUME SyncInv, UNCHANGED <<ids, sync, events, lost, work>>, sent \subseteq sent', acked' = acked,
         \A b \in Bookings : /\ status'[b] # "ended" => status[b] # "ended"
                             /\ status'[b] = "confirmed" /\ status[b] # "confirmed" => <<"create", b>> \notin sent
                             /\ typed'[b] => typed[b]
  PROVE  /\ \A w \in Workers : JobOK(work[w])'
         /\ \A b \in Bookings : (\A w \in Workers : ~Engaged(w, b)') => Tracked(ids[b], b)'
         /\ DoneInv'
<1>1. ASSUME NEW w \in Workers
      PROVE  JobOK(work[w])'
  <2>1. PICK j : j = work[w]
    OBVIOUS
  <2>2. JobOK(j)
    BY <2>1 DEF SyncInv
  <2>3. j.at \in {"list", "call"} => Tracked(j.made, j.msg[2])'
    <3>1. SUFFICES ASSUME j.at \in {"list", "call"}
                   PROVE  Tracked(j.made, j.msg[2])'
      OBVIOUS
    <3>2. j.msg[2] \in Bookings /\ Tracked(j.made, j.msg[2])
      BY <2>1, <2>2, <3>1, JobIs DEF JobOK
    <3> QED
      BY <3>2, StillTracked
  <2>4. JobOK(j)'
    <3>1. \A b, c : Sound(b, c)' <=> Sound(b, c)
      BY DEF Sound
    <3> QED
      BY <2>2, <2>3, <3>1 DEF JobOK, Gone
  <2> QED
    BY <2>1, <2>4 DEF JobOK
<1>2. ASSUME NEW b \in Bookings, \A w \in Workers : ~Engaged(w, b)'
      PROVE  Tracked(ids[b], b)'
  <2>1. \A w \in Workers : ~Engaged(w, b)
    BY <1>2 DEF Engaged
  <2>2. PICK map : map = ids[b]
    OBVIOUS
  <2>3. Tracked(map, b)'
    BY <2>1, <2>2, StillTracked DEF SyncInv
  <2> QED
    BY <2>2, <2>3 DEF Tracked
<1>3. DoneInv'
  <2>1. \A b, c : (Sound(b, c)' <=> Sound(b, c)) /\ (Gone(b, c)' <=> Gone(b, c))
    BY DEF Sound, Gone
  <2>2. \A w \in Workers, b \in Bookings : Engaged(w, b)' <=> Engaged(w, b)
    BY DEF Engaged
  <2>3. acked \subseteq sent
    BY DEF SyncInv, SyncTypeOK
  <2> QED
    BY <2>1, <2>2, <2>3 DEF SyncInv, DoneInv
<1> QED
  BY <1>1, <1>2, <1>3

LEMMA EnvironmentStep ==
  ASSUME SyncInv,
         \/ \E b \in Bookings : Commit(b) \/ End(b) \/ DropEventType(b)
         \/ \E c \in Conns : Revoke(c)
         \/ \E m \in Messages : Send(m)
  PROVE  SyncInv'
<1>1. SyncTypeOK'
  <2>1. SyncTypeOK
    BY DEF SyncInv
  <2>2. CASE \E b \in Bookings : Commit(b) \/ End(b)
    BY <2>1, <2>2 DEF SyncTypeOK, Commit, End, providerVars, queueVars
  <2>3. CASE \E b \in Bookings : DropEventType(b)
    BY <2>1, <2>3 DEF SyncTypeOK, DropEventType, providerVars, queueVars
  <2>4. CASE \E c \in Conns : Revoke(c)
    BY <2>1, <2>4 DEF SyncTypeOK, Revoke, rowVars, queueVars
  <2>5. CASE \E m \in Messages : Send(m)
    BY <2>1, <2>5 DEF SyncTypeOK, Send, rowVars, providerVars
  <2> QED
    BY <2>2, <2>3, <2>4, <2>5
<1>2. /\ UNCHANGED <<ids, sync, events, lost, work>> /\ sent \subseteq sent' /\ acked' = acked
      /\ \A b \in Bookings : /\ status'[b] # "ended" => status[b] # "ended"
                             /\ status'[b] = "confirmed" /\ status[b] # "confirmed" => <<"create", b>> \notin sent
                             /\ typed'[b] => typed[b]
  <2>1. status \in [Bookings -> {"none", "confirmed", "ended"}] /\ typed \in [Bookings -> BOOLEAN] /\ SentInv
    BY DEF SyncInv, SyncTypeOK
  <2> QED
    BY <2>1 DEF Commit, End, DropEventType, Revoke, Send, rowVars, providerVars, queueVars, SentInv
<1>3. SentInv'
  <2>1. status \in [Bookings -> {"none", "confirmed", "ended"}] /\ SentInv
    BY DEF SyncInv, SyncTypeOK
  <2>2. CASE \E m \in Messages : Send(m)
    <3>1. PICK m \in Messages : Send(m)
      BY <2>2
    <3>2. m = <<m[1], m[2]>> /\ m[1] \in {"create", "delete"} /\ m[2] \in Bookings
      BY MessageIs
    <3>3. /\ sent' = sent \cup {<<m[1], m[2]>>} /\ status' = status
          /\ status[m[2]] \in (IF m[1] = "create" THEN {"confirmed", "ended"} ELSE {"ended"})
      BY <3>1, <3>2 DEF Send, rowVars
    <3> QED
      BY <2>1, <3>2, <3>3 DEF SentInv
  <2>3. CASE ~\E m \in Messages : Send(m)
    BY <2>1, <2>3 DEF Commit, End, DropEventType, Revoke, rowVars, providerVars, queueVars, SentInv
  <2> QED
    BY <2>2, <2>3
<1>4. /\ \A w \in Workers : JobOK(work[w])'
      /\ \A b \in Bookings : (\A w \in Workers : ~Engaged(w, b)') => Tracked(ids[b], b)'
      /\ DoneInv'
  BY <1>2, Meanwhile
<1> QED
  BY <1>1, <1>2, <1>3, <1>4 DEF SyncInv

\* There is one consumer: whatever it does is all that is done.
LEMMA OneJob ==
  ASSUME OneConsumer, SyncInv, NEW w \in Workers, NEW j \in JobRows, work' = [work EXCEPT ![w] = j]
  PROVE  /\ work' \in [Workers -> JobRows]
         /\ JobOK(j)' => \A v \in Workers : JobOK(work[v])'
         /\ \A v \in Workers : v = w /\ work'[v] = j
         /\ \A v \in Workers : \A b : Engaged(v, b)' <=> (j.at \in {"list", "call"} /\ j.msg[2] = b)
         /\ \A v \in Workers : \A b : Engaged(v, b) <=> (work[w].at \in {"list", "call"} /\ work[w].msg[2] = b)
<1>1. work \in [Workers -> JobRows]
  BY DEF SyncInv, SyncTypeOK, JobRows, Maps
<1>2. work' \in [Workers -> JobRows] /\ work'[w] = j
  BY <1>1
<1>3. \A v \in Workers : v = w /\ work'[v] = j
  BY <1>2 DEF OneConsumer
<1>4. JobOK(j)' => \A v \in Workers : JobOK(work[v])'
  BY <1>3 DEF JobOK
<1>5. /\ \A v \in Workers : \A b : Engaged(v, b)' <=> (j.at \in {"list", "call"} /\ j.msg[2] = b)
      /\ \A v \in Workers : \A b : Engaged(v, b) <=> (work[w].at \in {"list", "call"} /\ work[w].msg[2] = b)
  BY <1>3 DEF Engaged, OneConsumer
<1> QED
  BY <1>2, <1>3, <1>4, <1>5

\* A job is taken or left off, and touches neither rows nor calendars.
LEMMA TakeStep ==
  ASSUME OneConsumer, SyncInv, NEW w \in Workers, NEW m \in Messages, Deliver(w, m)
  PROVE  SyncInv'
<1>1. /\ SyncTypeOK /\ work[w] \in JobRows /\ work[w].at = "idle" /\ m \in sent /\ tries[m] \in 0..MaxDeliveries
      /\ tries[m] < MaxDeliveries /\ MaxDeliveries \in Nat
  BY SyncAssumption DEF Deliver, At, SyncInv, SyncTypeOK, JobRows, Maps
<1>2. /\ tries' = [tries EXCEPT ![m] = @ + 1] /\ tries' \in [Messages -> 0..MaxDeliveries] /\ tries'[m] \in Numbers
      /\ work' = [work EXCEPT ![w] = [Idle EXCEPT !.at = "read", !.msg = m, !.n = tries'[m]]]
      /\ UNCHANGED <<status, typed, ids, sync, events, grant, sent, acked, lost>>
  BY <1>1 DEF Deliver, rowVars, providerVars, SyncTypeOK, Numbers
<1>3. PICK j \in JobRows : work' = [work EXCEPT ![w] = j] /\ j.at = "read" /\ j.msg = m /\ j.n \in Numbers
  <2> DEFINE j == [Idle EXCEPT !.at = "read", !.msg = m, !.n = tries'[m]]
  <2>1. j \in JobRows /\ j.at = "read" /\ j.msg = m /\ j.n = tries'[m]
    BY <1>2, IdleIs DEF Idle, JobRows, Numbers
  <2> QED
    BY <1>2, <2>1
<1>4. JobOK(j)'
  BY <1>1, <1>2, <1>3 DEF JobOK, Numbers
<1>5. /\ work' \in [Workers -> JobRows]
      /\ \A v \in Workers : JobOK(work[v])'
      /\ \A v \in Workers : \A b : ~Engaged(v, b)' /\ ~Engaged(v, b)
  BY <1>1, <1>3, <1>4, OneJob
<1>6. SyncTypeOK' /\ SentInv'
  BY <1>1, <1>2, <1>5 DEF SyncTypeOK, SyncInv, SentInv, JobRows, Maps
<1>7. DoneInv'
  <2>1. \A b, c : (Sound(b, c)' <=> Sound(b, c)) /\ (Gone(b, c)' <=> Gone(b, c))
    BY <1>2 DEF Sound, Gone
  <2> QED
    BY <1>2, <1>5, <2>1 DEF SyncInv, DoneInv
<1>8. \A b \in Bookings : Tracked(ids[b], b)'
  BY <1>2, <1>5 DEF SyncInv, Tracked
<1> QED
  BY <1>5, <1>6, <1>7, <1>8 DEF SyncInv

\* Nothing is left to do for a create that comes too late, or whose event type
\* is gone.
LEMMA PassStep ==
  ASSUME OneConsumer, SyncInv, NEW w \in Workers, Acknowledge(w), work[w].at \in {"read", "list"},
         Action(w) = "create", status[Booking(w)] # "confirmed" \/ ~typed[Booking(w)]
  PROVE  SyncInv'
<1>1. /\ SyncTypeOK /\ work[w] \in JobRows /\ work[w].msg \in sent
      /\ work[w].msg = <<"create", work[w].msg[2]>> /\ work[w].msg[2] \in Bookings
  BY JobIs DEF SyncInv, Action
<1>2. /\ acked' = acked \cup {work[w].msg} /\ work' = [work EXCEPT ![w] = Idle]
      /\ UNCHANGED <<status, typed, ids, sync, events, grant, sent, tries, lost>>
  BY DEF Acknowledge, Finished, rowVars, providerVars
<1>3. JobOK(Idle)'
  BY IdleIs DEF JobOK
<1>4. /\ work' \in [Workers -> JobRows]
      /\ \A v \in Workers : JobOK(work[v])'
      /\ \A v \in Workers : \A b : ~Engaged(v, b)'
      /\ \A v \in Workers : \A b : Engaged(v, b) <=> (work[w].at \in {"list", "call"} /\ work[w].msg[2] = b)
  BY <1>2, <1>3, IdleIs, OneJob
<1>5. SyncTypeOK' /\ SentInv'
  BY <1>1, <1>2, <1>4 DEF SyncTypeOK, SyncInv, SentInv, JobRows, Maps
<1>6. DoneInv'
  <2>1. \A b, c : (Sound(b, c)' <=> Sound(b, c)) /\ (Gone(b, c)' <=> Gone(b, c))
    BY <1>2 DEF Sound, Gone
  <2>2. \A b \in Bookings : /\ <<"delete", b>> \in acked' => <<"delete", b>> \in acked
                            /\ <<"create", b>> \in acked' => <<"create", b>> \in acked \/ b = work[w].msg[2]
    BY <1>1, <1>2
  <2> QED
    BY <1>2, <1>4, <2>1, <2>2 DEF SyncInv, DoneInv, Booking
<1>7. ASSUME NEW b \in Bookings
      PROVE  Tracked(ids[b], b)'
  <2>1. Tracked(ids[b], b)
    <3>1. CASE work[w].at = "list" /\ work[w].msg[2] = b
      <4>1. JobOK(work[w])
        BY DEF SyncInv
      <4> QED
        BY <3>1, <4>1 DEF JobOK
    <3>2. CASE ~(work[w].at = "list" /\ work[w].msg[2] = b)
      BY <1>4, <3>2 DEF SyncInv
    <3> QED
      BY <3>1, <3>2
  <2> QED
    BY <1>2, <2>1 DEF Tracked
<1> QED
  BY <1>4, <1>5, <1>6, <1>7 DEF SyncInv

LEMMA SnapshotStep ==
  ASSUME OneConsumer, SyncInv, NEW w \in Workers, TakeSnapshot(w), work[w].at = "read",
         Action(w) = "create" => status[Booking(w)] = "confirmed"
  PROVE  SyncInv'
<1>1. PICK b \in Bookings :
        /\ SyncTypeOK /\ work[w] \in JobRows /\ work[w].msg \in sent /\ b = work[w].msg[2]
        /\ work[w].msg = <<work[w].msg[1], b>> /\ work[w].msg[1] \in {"create", "delete"} /\ work[w].n \in Numbers
  BY JobIs DEF SyncInv
<1>2. /\ work' = [work EXCEPT ![w].at = "list", ![w].snap = ids[b], ![w].made = ids[b]]
      /\ UNCHANGED <<status, typed, ids, sync, events, grant, sent, acked, tries, lost>>
  BY <1>1 DEF TakeSnapshot, Booking, rowVars, providerVars, queueVars
<1>3. PICK j \in JobRows :
        /\ work' = [work EXCEPT ![w] = j] /\ j.at = "list" /\ j.msg = work[w].msg /\ j.n = work[w].n
        /\ j.snap = ids[b] /\ j.made = ids[b]
  <2> DEFINE j == [work[w] EXCEPT !.at = "list", !.snap = ids[b], !.made = ids[b]]
  <2>1. ids[b] \in Maps /\ work \in [Workers -> JobRows]
    BY <1>1 DEF SyncTypeOK, Maps, JobRows
  <2>2. j \in JobRows /\ j.at = "list" /\ j.msg = work[w].msg /\ j.n = work[w].n /\ j.snap = ids[b] /\ j.made = ids[b]
    BY <1>1, <2>1 DEF JobRows
  <2>3. work' = [work EXCEPT ![w] = j]
    BY <1>2, <2>1
  <2> HIDE DEF j
  <2> QED
    BY <2>2, <2>3
<1>4. /\ work' \in [Workers -> JobRows]
      /\ JobOK(j)' => \A v \in Workers : JobOK(work[v])'
      /\ \A v \in Workers : v = w /\ work'[v] = j
      /\ \A v \in Workers : \A a : Engaged(v, a)' <=> a = b
      /\ \A v \in Workers : \A a : ~Engaged(v, a)
  <2>1. /\ work' \in [Workers -> JobRows]
        /\ JobOK(j)' => \A v \in Workers : JobOK(work[v])'
        /\ \A v \in Workers : v = w /\ work'[v] = j
        /\ \A v \in Workers : \A a : Engaged(v, a)' <=> (j.at \in {"list", "call"} /\ j.msg[2] = a)
        /\ \A v \in Workers : \A a : Engaged(v, a) <=> (work[w].at \in {"list", "call"} /\ work[w].msg[2] = a)
    BY <1>3, OneJob
  <2>2. j.at \in {"list", "call"} /\ j.msg[2] = b /\ work[w].at \notin {"list", "call"}
    BY <1>1, <1>3
  <2> QED
    BY <2>1, <2>2
<1>5. \A a \in Bookings : Tracked(ids[a], a)'
  <2>1. \A a \in Bookings : Tracked(ids[a], a)
    BY <1>4 DEF SyncInv
  <2> QED
    BY <1>2, <2>1 DEF Tracked
<1>6. JobOK(j)'
  <2>1. Tracked(j.made, j.msg[2])'
    BY <1>1, <1>2, <1>3, <1>5 DEF Tracked
  <2> QED
    BY <1>1, <1>2, <1>3, <2>1 DEF JobOK, Numbers
<1>7. SyncTypeOK' /\ SentInv'
  BY <1>1, <1>2, <1>4 DEF SyncTypeOK, SyncInv, SentInv, JobRows, Maps
<1>8. DoneInv'
  <2>1. \A a, c : (Sound(a, c)' <=> Sound(a, c)) /\ (Gone(a, c)' <=> Gone(a, c))
    BY <1>2 DEF Sound, Gone
  <2>2. <<"delete", b>> \in acked => j.msg[1] = "delete"
    BY <1>1, <1>3 DEF SyncInv, SyncTypeOK, SentInv, Action, Booking
  <2>3. \A v \in Workers : work'[v].made = ids[b] /\ work'[v].msg[1] = j.msg[1]
    BY <1>3, <1>4
  <2>4. DoneInv
    BY DEF SyncInv
  <2>5. ASSUME NEW a \in Bookings, <<"create", a>> \in acked, status[a] = "confirmed", typed[a], NEW c \in Conns, Sound(a, c)
        PROVE  ids[a][c] # 0 /\ \A v \in Workers : Engaged(v, a)' => work'[v].made[c] # 0
    <3>1. ids[a][c] # 0
      BY <2>4, <2>5 DEF DoneInv
    <3> QED
      BY <1>4, <2>3, <3>1
  <2>6. ASSUME NEW a \in Bookings, <<"delete", a>> \in acked
        PROVE  /\ \A c \in Conns : Sound(a, c) => Gone(a, c)
               /\ \A v \in Workers : Engaged(v, a)' => work'[v].msg[1] = "delete"
    <3>1. \A c \in Conns : Sound(a, c) => Gone(a, c)
      BY <2>4, <2>6 DEF DoneInv
    <3> QED
      BY <1>4, <2>2, <2>3, <2>6, <3>1
  <2> QED
    BY <1>2, <2>1, <2>5, <2>6 DEF DoneInv
<1> QED
  BY <1>4, <1>5, <1>6, <1>7, <1>8 DEF SyncInv

LEMMA CallStep ==
  ASSUME OneConsumer, SyncInv, NEW w \in Workers, Call(w), work[w].at = "list"
  PROVE  SyncInv'
<1>1. PICK b \in Bookings :
        /\ SyncTypeOK /\ work[w] \in JobRows /\ work[w].msg \in sent /\ b = work[w].msg[2]
        /\ work[w].msg[1] \in {"create", "delete"} /\ work[w].n \in Numbers
  BY JobIs DEF SyncInv
<1>2. /\ work' = [work EXCEPT ![w].at = "call", ![w].todo = {c \in ConnsOf[b] : sync[c] = "ok" /\ Wanted(w, c)}]
      /\ UNCHANGED <<status, typed, ids, sync, events, grant, sent, acked, tries, lost>>
  BY <1>1 DEF Call, Booking, rowVars, providerVars, queueVars
<1>3. PICK j \in JobRows :
        /\ work' = [work EXCEPT ![w] = j] /\ j.at = "call" /\ j.msg = work[w].msg /\ j.n = work[w].n
        /\ j.snap = work[w].snap /\ j.made = work[w].made
        /\ j.todo = {c \in ConnsOf[b] : sync[c] = "ok" /\ Wanted(w, c)}
  <2> DEFINE j == [work[w] EXCEPT !.at = "call", !.todo = {c \in ConnsOf[b] : sync[c] = "ok" /\ Wanted(w, c)}]
  <2>1. {c \in ConnsOf[b] : sync[c] = "ok" /\ Wanted(w, c)} \in SUBSET Conns /\ work \in [Workers -> JobRows]
    BY <1>1, SyncAssumption DEF SyncTypeOK, Maps, JobRows
  <2>2. /\ j \in JobRows /\ j.at = "call" /\ j.msg = work[w].msg /\ j.n = work[w].n
        /\ j.snap = work[w].snap /\ j.made = work[w].made
        /\ j.todo = {c \in ConnsOf[b] : sync[c] = "ok" /\ Wanted(w, c)}
    BY <1>1, <2>1 DEF JobRows
  <2>3. work' = [work EXCEPT ![w] = j]
    BY <1>2, <2>1
  <2> HIDE DEF j
  <2> QED
    BY <2>2, <2>3
<1>4. /\ work' \in [Workers -> JobRows]
      /\ JobOK(j)' => \A v \in Workers : JobOK(work[v])'
      /\ \A v \in Workers : v = w /\ work'[v] = j
      /\ \A v \in Workers : \A a : Engaged(v, a)' <=> (j.at \in {"list", "call"} /\ j.msg[2] = a)
      /\ \A v \in Workers : \A a : Engaged(v, a) <=> (work[w].at \in {"list", "call"} /\ work[w].msg[2] = a)
  BY <1>3, OneJob
<1>5. /\ work[w].snap = ids[b] /\ work[w].made = ids[b] /\ ids[b] \in Maps
      /\ Tracked(ids[b], b)
  BY <1>1 DEF SyncInv, JobOK, SyncTypeOK, Maps
<1>6. \A a, c : (Sound(a, c)' <=> Sound(a, c)) /\ (Gone(a, c)' <=> Gone(a, c))
  BY <1>2 DEF Sound, Gone
<1>7. JobOK(j)'
  <2>1. Tracked(j.made, j.msg[2])'
    BY <1>1, <1>2, <1>3, <1>5 DEF Tracked
  <2>2. \A c \in j.todo : (j.msg[1] = "create") <=> (j.snap[c] = 0)
    BY <1>3 DEF Wanted, Action
  <2>3. ASSUME NEW c \in Conns, Sound(b, c), c \notin j.todo
        PROVE  IF j.msg[1] = "create" THEN j.made[c] # 0 ELSE Gone(b, c)
    <3>1. c \in ConnsOf[b] /\ sync[c] = "ok" /\ <<b, c>> \notin lost /\ ~Wanted(w, c)
      BY <1>3, <2>3 DEF Sound
    <3>2. CASE j.msg[1] = "create"
      BY <1>3, <1>5, <3>1, <3>2 DEF Wanted, Action
    <3>3. CASE j.msg[1] # "create"
      <4>1. ids[b][c] = 0
        BY <1>3, <1>5, <3>1, <3>3 DEF Wanted, Action
      <4>2. \A n \in Numbers : <<c, b, n>> \in events => n = 0
        BY <1>5, <3>1, <4>1 DEF Tracked
      <4>3. Gone(b, c)
        BY <4>2, SyncAssumption DEF Gone, Numbers
      <4> QED
        BY <3>3, <4>3
    <3> QED
      BY <3>2, <3>3
  <2>4. j.msg \in sent' /\ j.n # 0 /\ j.snap = ids'[j.msg[2]] /\ j.made = j.snap /\ j.msg[2] = b
    BY <1>1, <1>2, <1>3, <1>5 DEF Numbers
  <2> QED
    BY <1>3, <1>6, <2>1, <2>2, <2>3, <2>4 DEF JobOK
<1>8. SyncTypeOK' /\ SentInv'
  BY <1>1, <1>2, <1>4 DEF SyncTypeOK, SyncInv, SentInv, JobRows, Maps
<1>9. \A v \in Workers : /\ work'[v].made = work[v].made /\ work'[v].msg = work[v].msg
                         /\ \A a : Engaged(v, a)' <=> Engaged(v, a)
  BY <1>1, <1>3, <1>4
<1>10. DoneInv'
  <2>1. DoneInv
    BY DEF SyncInv
  <2>2. ASSUME NEW a \in Bookings, <<"create", a>> \in acked, status[a] = "confirmed", typed[a], NEW c \in Conns, Sound(a, c)
        PROVE  ids[a][c] # 0 /\ \A v \in Workers : Engaged(v, a)' => work'[v].made[c] # 0
    <3>1. ids[a][c] # 0 /\ \A v \in Workers : Engaged(v, a) => work[v].made[c] # 0
      BY <2>1, <2>2 DEF DoneInv
    <3> QED
      BY <1>9, <3>1
  <2>3. ASSUME NEW a \in Bookings, <<"delete", a>> \in acked
        PROVE  /\ \A c \in Conns : Sound(a, c) => Gone(a, c)
               /\ \A v \in Workers : Engaged(v, a)' => work'[v].msg[1] = "delete"
    <3>1. /\ \A c \in Conns : Sound(a, c) => Gone(a, c)
          /\ \A v \in Workers : Engaged(v, a) => work[v].msg[1] = "delete"
      BY <2>1, <2>3 DEF DoneInv
    <3> QED
      BY <1>9, <3>1
  <2> QED
    BY <1>2, <1>6, <2>2, <2>3 DEF DoneInv
<1>11. \A a \in Bookings : (\A v \in Workers : ~Engaged(v, a)') => Tracked(ids[a], a)'
  BY <1>2, <1>9 DEF SyncInv, Tracked
<1> QED
  BY <1>4, <1>7, <1>8, <1>10, <1>11 DEF SyncInv

\* The one call of a job for b, to c, that goes on as j.
Calls(w, b, c, j) ==
  /\ work[w].at = "call" /\ b = work[w].msg[2] /\ c \in work[w].todo
  /\ work' = [work EXCEPT ![w] = j]
  /\ j.at = "call" /\ j.msg = work[w].msg /\ j.n = work[w].n /\ j.snap = work[w].snap /\ j.todo = work[w].todo \ {c}
  /\ \A d \in Conns \ {c} : j.made[d] = work[w].made[d]
  /\ UNCHANGED <<status, typed, ids, sent, acked, tries, grant>>

\* Only b's events on c are concerned, and a delete makes none.
Concerns(b, c, j) ==
  /\ events' \subseteq Conns \X Bookings \X Numbers
  /\ j.msg[1] # "create" => events' \subseteq events
  /\ \A d \in Conns, a \in Bookings, n \in Numbers :
       d # c \/ a # b => (<<d, a, n>> \in events' <=> <<d, a, n>> \in events)

\* The call was lost, or the job knows the outcome.
Learned(b, c, j) ==
  \/ <<b, c>> \in lost'
  \/ /\ j.msg[1] = "create" /\ j.made[c] = j.n
     /\ \A n \in Numbers : <<c, b, n>> \in events' <=> (<<c, b, n>> \in events \/ n = j.n)
  \/ /\ j.msg[1] # "create" /\ j.made[c] = 0
     /\ \A n \in Numbers : <<c, b, n>> \in events' <=> (<<c, b, n>> \in events /\ n # j.snap[c])

LEMMA CalledStep ==
  ASSUME OneConsumer, SyncInv, NEW w \in Workers, NEW b \in Bookings, NEW c \in Conns, NEW j \in JobRows,
         Calls(w, b, c, j), Concerns(b, c, j), Learned(b, c, j),
         sync' \in [Conns -> {"ok", "needs_reconnect"}], \A d \in Conns : sync'[d] = "ok" => sync[d] = "ok",
         lost \subseteq lost', lost' \subseteq Bookings \X Conns
  PROVE  SyncInv'
<1> USE DEF Calls, Concerns, Learned
<1>1. /\ SyncTypeOK /\ work[w] \in JobRows /\ work[w].msg \in sent /\ work[w].n \in Numbers
      /\ work[w].msg[1] \in {"create", "delete"} /\ work[w].msg = <<work[w].msg[1], b>>
      /\ JobOK(work[w]) /\ c \in Conns
  BY JobIs DEF SyncInv, JobRows
<1>2. /\ work' \in [Workers -> JobRows]
      /\ JobOK(j)' => \A v \in Workers : JobOK(work[v])'
      /\ \A v \in Workers : v = w /\ work'[v] = j
      /\ \A v \in Workers : \A a : Engaged(v, a)' <=> (j.at \in {"list", "call"} /\ j.msg[2] = a)
      /\ \A v \in Workers : \A a : Engaged(v, a) <=> (work[w].at \in {"list", "call"} /\ work[w].msg[2] = a)
  BY OneJob
<1>3. \A v \in Workers : \A a : (Engaged(v, a)' <=> a = b) /\ (Engaged(v, a) <=> a = b)
  BY <1>2
<1>4. \A a, d : d \in Conns => (Sound(a, d)' => Sound(a, d))
  BY DEF Sound
<1>5. SyncTypeOK' /\ SentInv'
  BY <1>1, <1>2 DEF SyncTypeOK, SyncInv, SentInv, JobRows, Maps, Numbers
<1>6. /\ Tracked(work[w].made, b) /\ work[w].made[c] = work[w].snap[c] /\ work[w].snap = ids[b]
      /\ (j.msg[1] = "create") <=> (work[w].snap[c] = 0)
      /\ \A d \in Conns : Sound(b, d) /\ d \notin work[w].todo =>
           IF j.msg[1] = "create" THEN work[w].made[d] # 0 ELSE Gone(b, d)
  BY <1>1 DEF JobOK
<1>7. j.msg[1] # "create" => status[b] = "ended"
  <2>1. j.msg[1] # "create" => <<"delete", b>> \in sent
    BY <1>1
  <2> QED
    BY <2>1 DEF SyncInv, SentInv
<1>8. Tracked(j.made, b)'
  <2>1. ASSUME NEW d \in Conns, <<b, d>> \notin lost', d # c
        PROVE  /\ \A n \in Numbers : <<d, b, n>> \in events' => n = j.made[d]
               /\ status'[b] # "ended" /\ j.made[d] # 0 => <<d, b, j.made[d]>> \in events'
    <3>1. /\ \A n \in Numbers : <<d, b, n>> \in events => n = j.made[d]
          /\ status[b] # "ended" /\ j.made[d] # 0 => <<d, b, j.made[d]>> \in events
      BY <1>6, <2>1 DEF Tracked
    <3>2. j.made[d] # 0 => j.made[d] \in Numbers
      BY SyncAssumption DEF JobRows, Maps, Numbers
    <3> QED
      BY <2>1, <3>1, <3>2
  <2>2. ASSUME <<b, c>> \notin lost'
        PROVE  /\ \A n \in Numbers : <<c, b, n>> \in events' => n = j.made[c]
               /\ status'[b] # "ended" /\ j.made[c] # 0 => <<c, b, j.made[c]>> \in events'
    <3>1. \A n \in Numbers : <<c, b, n>> \in events => n = work[w].made[c]
      BY <1>1, <1>6, <2>2 DEF Tracked
    <3>2. CASE j.msg[1] = "create"
      BY <1>1, <1>6, <2>2, <3>1, <3>2 DEF Numbers
    <3>3. CASE j.msg[1] # "create"
      BY <1>6, <1>7, <2>2, <3>1, <3>3
    <3> QED
      BY <3>2, <3>3
  <2> QED
    BY <2>1, <2>2 DEF Tracked
<1>9. ASSUME NEW d \in Conns, Sound(b, d)', d \notin j.todo
      PROVE  IF j.msg[1] = "create" THEN j.made[d] # 0 ELSE Gone(b, d)'
  <2>1. CASE d = c
    <3>1. <<b, c>> \notin lost' /\ <<b, c>> \notin lost
      BY <1>9, <2>1 DEF Sound
    <3>2. \A n \in Numbers : <<c, b, n>> \in events => n = work[w].made[c]
      BY <1>1, <1>6, <3>1 DEF Tracked
    <3> QED
      BY <1>1, <1>6, <2>1, <3>1, <3>2 DEF Gone, Numbers
  <2>2. CASE d # c
    <3>1. Sound(b, d) /\ d \notin work[w].todo
      BY <1>4, <1>9, <2>2
    <3> QED
      BY <1>6, <2>2, <3>1 DEF Gone
  <2> QED
    BY <2>1, <2>2
<1>10. JobOK(j)'
  <2>1. \A d \in j.todo : d \in Conns /\ j.made[d] = j.snap[d] /\ ((j.msg[1] = "create") <=> (j.snap[d] = 0))
    BY <1>1 DEF JobOK, JobRows
  <2>2. ASSUME j.msg[1] = "create", NEW d \in Conns
        PROVE  j.snap[d] \in {0, j.made[d]}
    <3>1. work[w].snap[d] \in {0, work[w].made[d]} /\ work[w].snap[c] = 0
      BY <1>1, <1>6, <2>2 DEF JobOK
    <3> QED
      BY <3>1
  <2> QED
    BY <1>1, <1>6, <1>8, <1>9, <2>1, <2>2 DEF JobOK, Numbers
<1>11. DoneInv'
  <2>1. ASSUME NEW a \in Bookings, <<"create", a>> \in acked, status[a] = "confirmed", typed[a],
               NEW d \in Conns, Sound(a, d)'
        PROVE  ids[a][d] # 0 /\ \A v \in Workers : Engaged(v, a)' => work'[v].made[d] # 0
    <3>1. ids[a][d] # 0 /\ \A v \in Workers : Engaged(v, a) => work[v].made[d] # 0
      <4>1. Sound(a, d) /\ DoneInv
        BY <1>4, <2>1 DEF SyncInv
      <4> QED
        BY ONLY <2>1, <4>1 DEF DoneInv
    <3>2. a = b => j.made[d] # 0
      <4>1. CASE d = c
        BY <1>1, <1>6, <1>7, <2>1, <3>1, <4>1 DEF Sound, Numbers
      <4>2. CASE d # c
        BY <1>2, <1>3, <3>1, <4>2
      <4> QED
        BY <4>1, <4>2
    <3> QED
      BY <1>2, <1>3, <3>1, <3>2
  <2>2. ASSUME NEW a \in Bookings, <<"delete", a>> \in acked
        PROVE  /\ \A d \in Conns : Sound(a, d)' => Gone(a, d)'
               /\ \A v \in Workers : Engaged(v, a)' => work'[v].msg[1] = "delete"
    <3>1. /\ \A d \in Conns : Sound(a, d) => Gone(a, d)
          /\ \A v \in Workers : Engaged(v, a) => work[v].msg[1] = "delete"
      BY <2>2 DEF SyncInv, DoneInv
    <3>2. \A v \in Workers : Engaged(v, a)' => work'[v].msg[1] = "delete"
      BY <1>2, <1>3, <3>1
    <3>3. \A d \in Conns : Gone(a, d) => Gone(a, d)'
      <4>1. CASE a = b
        <5>1. j.msg[1] # "create"
          BY <1>2, <1>3, <3>2, <4>1
        <5> QED
          BY <5>1 DEF Gone
      <4>2. CASE a # b
        BY <4>2 DEF Gone
      <4> QED
        BY <4>1, <4>2
    <3> QED
      BY <1>4, <3>1, <3>2, <3>3
  <2>3. acked' = acked /\ status' = status /\ typed' = typed /\ ids' = ids
    OBVIOUS
  <2>4. ASSUME NEW a \in Bookings
        PROVE  /\ <<"create", a>> \in acked' /\ status'[a] = "confirmed" /\ typed'[a] =>
                    \A d \in Conns : Sound(a, d)' => ids'[a][d] # 0 /\ \A v \in Workers : Engaged(v, a)' => work'[v].made[d] # 0
               /\ <<"delete", a>> \in acked' =>
                    /\ \A d \in Conns : Sound(a, d)' => Gone(a, d)'
                    /\ \A v \in Workers : Engaged(v, a)' => work'[v].msg[1] = "delete"
    <3>1. typed'[a] <=> typed[a]
      BY <2>3
    <3> QED
      BY <2>1, <2>2, <2>3, <3>1
  <2> QED
    BY ONLY <2>4 DEF DoneInv
<1>12. ASSUME NEW a \in Bookings, a # b
       PROVE  Tracked(ids[a], a)'
  <2>1. Tracked(ids[a], a) /\ ids[a] \in Maps
    BY <1>1, <1>3, <1>12 DEF SyncInv, SyncTypeOK, Maps
  <2>2. \A d \in Conns : ids[a][d] # 0 => ids[a][d] \in Numbers
    BY <2>1, SyncAssumption DEF Maps, Numbers
  <2> QED
    BY <1>12, <2>1, <2>2 DEF Tracked
<1>13. \A a \in Bookings : (\A v \in Workers : ~Engaged(v, a)') => Tracked(ids[a], a)'
  BY <1>3, <1>12
<1> QED
  BY <1>2, <1>5, <1>10, <1>11, <1>13 DEF SyncInv

\* An event is made or taken off for one booking on one connection.
LEMMA HappensTo ==
  ASSUME SyncInv, NEW w \in Workers, work[w].at = "call", NEW c \in work[w].todo, Happens(w, c),
         NEW b \in Bookings, b = work[w].msg[2]
  PROVE  /\ events' \subseteq Conns \X Bookings \X Numbers
         /\ work[w].msg[1] # "create" => events' \subseteq events
         /\ \A d \in Conns, a \in Bookings, n \in Numbers :
              d # c \/ a # b => (<<d, a, n>> \in events' <=> <<d, a, n>> \in events)
         /\ \A n \in Numbers : <<c, b, n>> \in events' <=>
              IF work[w].msg[1] = "create" THEN <<c, b, n>> \in events \/ n = work[w].n
              ELSE <<c, b, n>> \in events /\ n # work[w].snap[c]
<1>1. /\ work[w] \in JobRows /\ work[w].n \in Numbers /\ c \in Conns
      /\ events \subseteq Conns \X Bookings \X Numbers
  BY JobIs DEF SyncInv, SyncTypeOK, JobRows, Numbers
<1>2. CASE work[w].msg[1] = "create"
  <2>1. events' = events \cup {<<c, b, work[w].n>>}
    BY <1>2 DEF Happens, Event, Action, Booking
  <2> QED
    BY <1>1, <1>2, <2>1
<1>3. CASE work[w].msg[1] # "create"
  <2>1. events' = events \ {<<c, b, work[w].snap[c]>>}
    BY <1>3 DEF Happens, Event, Action, Booking
  <2> QED
    BY <1>1, <1>3, <2>1
<1> QED
  BY <1>2, <1>3

LEMMA SucceedsStep ==
  ASSUME OneConsumer, SyncInv, NEW w \in Workers, NEW c \in Conns, Succeeds(w, c)
  PROVE  SyncInv'
<1>1. PICK b \in Bookings :
        /\ SyncTypeOK /\ work[w] \in JobRows /\ b = work[w].msg[2] /\ work[w].n \in Numbers
        /\ work[w].at = "call" /\ c \in work[w].todo
  BY JobIs DEF SyncInv, Succeeds, At
<1> DEFINE id == IF work[w].msg[1] = "create" THEN work[w].n ELSE 0
           j == [work[w] EXCEPT !.todo = @ \ {c}, !.made[c] = id]
<1>2. /\ j \in JobRows /\ j.at = "call" /\ j.msg = work[w].msg /\ j.n = work[w].n /\ j.snap = work[w].snap
      /\ j.todo = work[w].todo \ {c} /\ j.made[c] = id /\ \A d \in Conns \ {c} : j.made[d] = work[w].made[d]
  <2>1. work[w].made \in Maps /\ id \in 0..MaxDeliveries
    BY <1>1, SyncAssumption DEF JobRows, Numbers
  <2>2. /\ [work[w].made EXCEPT ![c] = id] \in Maps /\ [work[w].made EXCEPT ![c] = id][c] = id
        /\ \A d \in Conns \ {c} : [work[w].made EXCEPT ![c] = id][d] = work[w].made[d]
    BY <2>1 DEF Maps
  <2> HIDE DEF id
  <2> QED
    BY <1>1, <2>1, <2>2 DEF JobRows
<1>3. work' = [work EXCEPT ![w] = j]
  <2>1. work \in [Workers -> JobRows]
    BY <1>1 DEF SyncTypeOK, JobRows, Maps
  <2> QED
    BY <2>1 DEF Succeeds, Onward, Action
<1> HIDE DEF j
<1>4. Happens(w, c) /\ UNCHANGED <<status, typed, ids, sync, grant, sent, acked, tries, lost>>
  BY DEF Succeeds, rowVars, queueVars
<1>5. PICK k \in JobRows :
        /\ work' = [work EXCEPT ![w] = k] /\ k.at = "call" /\ k.msg = work[w].msg /\ k.n = work[w].n
        /\ k.snap = work[w].snap /\ k.todo = work[w].todo \ {c} /\ k.made[c] = id
        /\ \A d \in Conns \ {c} : k.made[d] = work[w].made[d]
  BY <1>2, <1>3
<1>6. /\ sync' \in [Conns -> {"ok", "needs_reconnect"}] /\ lost' \subseteq Bookings \X Conns
  BY <1>1, <1>4 DEF SyncTypeOK
<1>7. Concerns(b, c, k)
  BY <1>1, <1>4, <1>5, HappensTo DEF Concerns
<1>8. Learned(b, c, k)
  <2>1. \A n \in Numbers : <<c, b, n>> \in events' <=>
          IF work[w].msg[1] = "create" THEN <<c, b, n>> \in events \/ n = work[w].n
          ELSE <<c, b, n>> \in events /\ n # work[w].snap[c]
    BY <1>1, <1>4, HappensTo
  <2> QED
    BY <1>5, <2>1 DEF Learned
<1> HIDE DEF id
<1>9. Calls(w, b, c, k)
  BY <1>1, <1>4, <1>5 DEF Calls
<1> QED
  BY <1>4, <1>6, <1>7, <1>8, <1>9, CalledStep

\* A call that goes wrong is lost, whether it was carried out or not.
LEMMA FailsStep ==
  ASSUME OneConsumer, SyncInv, NEW w \in Workers, NEW c \in Conns, Refused(w, c) \/ ProviderFails(w, c)
  PROVE  SyncInv'
<1>1. PICK b \in Bookings :
        /\ SyncTypeOK /\ work[w] \in JobRows /\ b = work[w].msg[2] /\ work[w].n \in Numbers
        /\ work[w].at = "call" /\ c \in work[w].todo
  BY JobIs DEF SyncInv, Refused, ProviderFails, At
<1>2. PICK j \in JobRows :
        /\ j.at = "call" /\ j.msg = work[w].msg /\ j.n = work[w].n /\ j.snap = work[w].snap
        /\ j.todo = work[w].todo \ {c} /\ j.made = work[w].made /\ work' = [work EXCEPT ![w] = j]
  <2> DEFINE j == [work[w] EXCEPT !.todo = @ \ {c}]
  <2>1. /\ j \in JobRows /\ j.at = "call" /\ j.msg = work[w].msg /\ j.n = work[w].n /\ j.snap = work[w].snap
        /\ j.todo = work[w].todo \ {c} /\ j.made = work[w].made
    BY <1>1 DEF JobRows
  <2>2. work' = [work EXCEPT ![w] = j]
    <3>1. work \in [Workers -> JobRows]
      BY <1>1 DEF SyncTypeOK, JobRows, Maps
    <3> QED
      BY <3>1 DEF Refused, ProviderFails, Onward
  <2> HIDE DEF j
  <2> QED
    BY <2>1, <2>2
<1>3. /\ UNCHANGED <<status, typed, ids, grant, sent, acked, tries>> /\ lost' = lost \cup {<<b, c>>}
      /\ UNCHANGED events \/ Happens(w, c)
      /\ sync' = sync \/ sync' = [sync EXCEPT ![c] = "needs_reconnect"]
  BY <1>1 DEF Refused, ProviderFails, rowVars, queueVars, providerVars, Booking
<1>4. /\ sync' \in [Conns -> {"ok", "needs_reconnect"}] /\ \A d \in Conns : sync'[d] = "ok" => sync[d] = "ok"
      /\ lost \subseteq lost' /\ lost' \subseteq Bookings \X Conns /\ <<b, c>> \in lost'
  <2>1. sync \in [Conns -> {"ok", "needs_reconnect"}] /\ lost \subseteq Bookings \X Conns
    BY <1>1 DEF SyncTypeOK
  <2>2. sync' \in [Conns -> {"ok", "needs_reconnect"}] /\ \A d \in Conns : sync'[d] = "ok" => sync[d] = "ok"
    BY <1>3, <2>1
  <2> QED
    BY <1>1, <1>3, <2>1, <2>2
<1>5. Concerns(b, c, j)
  <2>1. CASE UNCHANGED events
    BY <1>1, <1>2, <2>1 DEF SyncTypeOK, Numbers, Concerns
  <2>2. CASE Happens(w, c)
    BY <1>1, <1>2, <2>2, HappensTo DEF Concerns
  <2> QED
    BY <1>3, <2>1, <2>2
<1>6. Learned(b, c, j)
  BY <1>4 DEF Learned
<1>7. Calls(w, b, c, j)
  BY <1>1, <1>2, <1>3 DEF Calls
<1> QED
  BY <1>4, <1>5, <1>6, <1>7, CalledStep

\* The map of the job becomes the row's, and nothing is left to call.
LEMMA SaveStep ==
  ASSUME OneConsumer, SyncInv, NEW w \in Workers, Save(w)
  PROVE  SyncInv'
<1>1. PICK b \in Bookings :
        /\ SyncTypeOK /\ work[w] \in JobRows /\ b = work[w].msg[2] /\ work[w].msg = <<work[w].msg[1], b>>
        /\ work[w].msg[1] \in {"create", "delete"} /\ work[w].msg \in sent
        /\ work[w].at = "call" /\ work[w].todo = {} /\ JobOK(work[w])
  BY JobIs DEF SyncInv, Save, At
<1>2. PICK map \in Maps : map = work[w].made
  BY <1>1 DEF JobRows
<1>3. /\ work[w].snap = ids[b] /\ Tracked(map, b)
      /\ \A c \in Conns : Sound(b, c) => IF work[w].msg[1] = "create" THEN map[c] # 0 ELSE Gone(b, c)
  BY <1>1, <1>2 DEF JobOK
<1>4. /\ UNCHANGED <<status, typed, sync, events, grant, sent, tries, lost>>
      /\ acked \subseteq acked' /\ acked' \subseteq acked \cup {work[w].msg}
      /\ work' = [work EXCEPT ![w] = Idle]
      /\ ids' = [ids EXCEPT ![b] = map]
  <2>1. ids \in [Bookings -> Maps]
    BY <1>1 DEF SyncTypeOK, Maps
  <2>2. ids' = IF map = ids[b] THEN ids ELSE [ids EXCEPT ![b] = map]
    BY <1>1, <1>2, <1>3 DEF Save, Booking
  <2>3. ids' = [ids EXCEPT ![b] = map]
    BY <2>1, <2>2
  <2> QED
    BY <2>3 DEF Save, Finished, rowVars, providerVars
<1>5. /\ work' \in [Workers -> JobRows]
      /\ \A v \in Workers : JobOK(work[v])'
      /\ \A v \in Workers : \A a : ~Engaged(v, a)'
      /\ \A v \in Workers : \A a : Engaged(v, a) <=> a = b
  <2>1. JobOK(Idle)'
    BY IdleIs DEF JobOK
  <2>2. /\ \A v \in Workers : \A a : Engaged(v, a)' <=> (Idle.at \in {"list", "call"} /\ Idle.msg[2] = a)
        /\ \A v \in Workers : \A a : Engaged(v, a) <=> (work[w].at \in {"list", "call"} /\ work[w].msg[2] = a)
    BY <1>4, IdleIs, OneJob
  <2> QED
    BY <1>1, <1>4, <2>1, <2>2, IdleIs, OneJob
<1>6. \A a, c : (Sound(a, c)' <=> Sound(a, c)) /\ (Gone(a, c)' <=> Gone(a, c))
  BY <1>4 DEF Sound, Gone
<1>7. ids \in [Bookings -> Maps] /\ ids'[b] = map /\ \A a \in Bookings \ {b} : ids'[a] = ids[a]
  BY <1>1, <1>4 DEF SyncTypeOK, Maps
<1>8. SyncTypeOK' /\ SentInv'
  <2>1. ids' \in [Bookings -> Maps]
    BY <1>4, <1>7
  <2> QED
    BY <1>1, <1>4, <1>5, <2>1 DEF SyncTypeOK, SyncInv, SentInv, JobRows, Maps
<1>9. DoneInv'
  <2>1. DoneInv /\ SentInv
    BY DEF SyncInv
  <2>2. ASSUME NEW a \in Bookings, <<"create", a>> \in acked', status[a] = "confirmed", typed[a], NEW c \in Conns, Sound(a, c)
        PROVE  ids'[a][c] # 0
    <3>1. CASE a = b
      <4>1. work[w].msg[1] = "create"
        BY <1>1, <2>1, <2>2, <3>1 DEF SentInv
      <4> QED
        BY <1>3, <1>7, <2>2, <3>1, <4>1
    <3>2. CASE a # b
      <4>1. <<"create", a>> \in acked
        BY <1>1, <1>4, <2>2, <3>2
      <4>2. ids[a][c] # 0
        BY ONLY <2>1, <2>2, <4>1 DEF DoneInv
      <4> QED
        BY <1>7, <2>2, <3>2, <4>2
    <3> QED
      BY <3>1, <3>2
  <2>3. ASSUME NEW a \in Bookings, <<"delete", a>> \in acked', NEW c \in Conns, Sound(a, c)
        PROVE  Gone(a, c)
    <3>1. CASE <<"delete", a>> \in acked
      BY <2>1, <2>3, <3>1 DEF DoneInv
    <3>2. CASE <<"delete", a>> = work[w].msg
      BY <1>1, <1>3, <2>3, <3>2
    <3> QED
      BY <1>4, <2>3, <3>1, <3>2
  <2>4. \A a \in Bookings : status'[a] = status[a] /\ (typed'[a] <=> typed[a])
    BY <1>4
  <2> QED
    BY <1>5, <1>6, <2>2, <2>3, <2>4 DEF DoneInv
<1>10. ASSUME NEW a \in Bookings
       PROVE  Tracked(ids[a], a)'
  <2>1. PICK here \in Maps : here = ids'[a]
    BY <1>2, <1>7
  <2>2. Tracked(here, a)
    BY <1>3, <1>5, <1>7, <2>1 DEF SyncInv
  <2>3. Tracked(here, a)'
    BY <1>4, <2>2, StillTracked
  <2> QED
    BY <2>1, <2>3 DEF Tracked
<1> QED
  BY <1>5, <1>8, <1>9, <1>10 DEF SyncInv

\* Where the row is not told of a call it is lost, but for an event of an ended
\* booking that is gone.
LEMMA StoreFailsStep ==
  ASSUME OneConsumer, SyncInv, NEW w \in Workers, StoreFails(w)
  PROVE  SyncInv'
<1>1. PICK b \in Bookings :
        /\ SyncTypeOK /\ work[w] \in JobRows /\ b = work[w].msg[2] /\ work[w].msg = <<work[w].msg[1], b>>
        /\ work[w].msg[1] \in {"create", "delete"} /\ work[w].msg \in sent /\ JobOK(work[w])
  BY JobIs DEF SyncInv, StoreFails, At
<1>2. /\ UNCHANGED <<status, typed, ids, sync, events, grant, sent, acked, tries>>
      /\ work' = [work EXCEPT ![w] = Idle]
      /\ lost' = lost \cup {<<b, c>> : c \in {d \in Conns : work[w].made[d] \notin {0, work[w].snap[d]}}}
  BY <1>1 DEF StoreFails, Finished, Booking, rowVars, providerVars, queueVars
<1>3. /\ work' \in [Workers -> JobRows]
      /\ \A v \in Workers : JobOK(work[v])'
      /\ \A v \in Workers : \A a : ~Engaged(v, a)'
      /\ \A v \in Workers : \A a : Engaged(v, a) <=> (work[w].at \in {"list", "call"} /\ work[w].msg[2] = a)
  <2>1. JobOK(Idle)'
    BY IdleIs DEF JobOK
  <2>2. \A v \in Workers : \A a : Engaged(v, a)' <=> (Idle.at \in {"list", "call"} /\ Idle.msg[2] = a)
    BY <1>2, IdleIs, OneJob
  <2> QED
    BY <1>2, <2>1, <2>2, IdleIs, OneJob
<1>4. lost \subseteq lost' /\ lost' \subseteq Bookings \X Conns
  BY <1>1, <1>2 DEF SyncTypeOK
<1>5. SyncTypeOK' /\ SentInv'
  BY <1>1, <1>2, <1>3, <1>4 DEF SyncTypeOK, SyncInv, SentInv, JobRows, Maps
<1>6. DoneInv'
  <2>1. DoneInv
    BY DEF SyncInv
  <2>2. \A a, c : (Sound(a, c)' => Sound(a, c)) /\ (Gone(a, c)' <=> Gone(a, c))
    BY <1>2, <1>4 DEF Sound, Gone
  <2>3. \A a \in Bookings : status'[a] = status[a] /\ (typed'[a] <=> typed[a])
    BY <1>2
  <2> QED
    BY <1>2, <1>3, <2>1, <2>2, <2>3 DEF DoneInv
<1>7. ASSUME NEW a \in Bookings
      PROVE  Tracked(ids[a], a)'
  <2>1. PICK here \in Maps : here = ids[a]
    BY <1>1 DEF SyncTypeOK, Maps
  <2>2. CASE \A v \in Workers : ~Engaged(v, a)
    <3>1. Tracked(here, a)
      BY <2>1, <2>2 DEF SyncInv
    <3>2. Tracked(here, a)'
      BY <1>2, <1>4, <3>1, StillTracked
    <3> QED
      BY <1>2, <2>1, <3>2 DEF Tracked
  <2>3. CASE \E v \in Workers : Engaged(v, a)
    <3>1. /\ a = b /\ work[w].at \in {"list", "call"} /\ work[w].snap = here /\ Tracked(work[w].made, a)
      BY <1>1, <1>3, <2>1, <2>3 DEF JobOK
    <3>2. ASSUME NEW c \in Conns, <<a, c>> \notin lost'
          PROVE  /\ \A n \in Numbers : <<c, a, n>> \in events => n = here[c]
                 /\ status[a] # "ended" /\ here[c] # 0 => <<c, a, here[c]>> \in events
      <4>1. work[w].made[c] \in {0, here[c]} /\ <<a, c>> \notin lost
        BY <1>2, <3>1, <3>2
      <4>2. /\ \A n \in Numbers : <<c, a, n>> \in events => n = work[w].made[c]
            /\ status[a] # "ended" /\ work[w].made[c] # 0 => <<c, a, work[w].made[c]>> \in events
        BY <3>1, <4>1 DEF Tracked
      <4>3. CASE work[w].made[c] = here[c]
        BY <4>2, <4>3
      <4>4. CASE work[w].made[c] # here[c]
        <5>1. work[w].made[c] = 0
          BY <4>1, <4>4
        <5>2. \A n \in Numbers : <<c, a, n>> \notin events
          BY <4>2, <5>1, SyncAssumption DEF Numbers
        <5>3. work[w].msg[1] # "create"
          BY <1>1, <3>1, <4>4, <5>1 DEF JobOK
        <5>4. status[a] = "ended"
          BY <1>1, <3>1, <5>3 DEF SyncInv, SentInv
        <5> QED
          BY <5>2, <5>4
      <4> QED
        BY <4>3, <4>4
    <3> QED
      BY <1>2, <2>1, <3>2 DEF Tracked
  <2> QED
    BY <2>2, <2>3
<1> QED
  BY <1>3, <1>5, <1>6, <1>7 DEF SyncInv

LEMMA SyncBegins == SyncInit => SyncInv
<1> SUFFICES ASSUME SyncInit
             PROVE  SyncInv
  OBVIOUS
<1>1. /\ \A w \in Workers : work[w] = Idle /\ \A b : ~Engaged(w, b)
      /\ \A b \in Bookings : status[b] = "none" /\ ids[b] = NoIds
      /\ events = {} /\ sent = {} /\ acked = {}
  BY IdleIs DEF SyncInit, Engaged
<1>2. SyncTypeOK
  BY IdleIs, SyncAssumption DEF SyncInit, SyncTypeOK, JobRows, Maps
<1>3. SentInv /\ DoneInv
  BY <1>1 DEF SentInv, DoneInv
<1>4. JobOK(Idle)
  BY IdleIs DEF JobOK
<1>5. \A b \in Bookings : Tracked(NoIds, b)
  BY <1>1 DEF Tracked, NoIds
<1> QED
  BY <1>1, <1>2, <1>3, <1>4, <1>5 DEF SyncInv

LEMMA SyncKeeps == OneConsumer /\ SyncInv /\ [SyncNext]_syncVars => SyncInv'
<1> SUFFICES ASSUME OneConsumer, SyncInv, [SyncNext]_syncVars
             PROVE  SyncInv'
  OBVIOUS
<1>1. CASE UNCHANGED syncVars
  <2>1. SyncTypeOK' /\ SentInv'
    BY <1>1 DEF SyncInv, SyncTypeOK, SentInv, syncVars, rowVars, providerVars, queueVars
  <2>2. \A b \in Bookings : status'[b] = status[b] /\ (typed'[b] <=> typed[b])
    BY <1>1 DEF syncVars, rowVars
  <2>3. UNCHANGED <<ids, sync, events, lost, work>> /\ sent \subseteq sent' /\ acked' = acked
    BY <1>1 DEF syncVars, rowVars, providerVars, queueVars
  <2> QED
    BY <2>1, <2>2, <2>3, Meanwhile DEF SyncInv
<1>2. CASE \/ \E b \in Bookings : Commit(b) \/ End(b) \/ DropEventType(b)
           \/ \E c \in Conns : Revoke(c)
           \/ \E m \in Messages : Send(m)
  BY <1>2, EnvironmentStep
<1>3. ASSUME NEW m \in Messages, NEW w \in Workers, Deliver(w, m)
      PROVE  SyncInv'
  BY <1>3, TakeStep
<1>4. ASSUME NEW w \in Workers, ReadBooking(w)
      PROVE  SyncInv'
  <2>1. work[w].at = "read"
    BY <1>4 DEF ReadBooking, At
  <2>2. CASE Action(w) = "create" /\ status[Booking(w)] # "confirmed"
    BY <1>4, <2>1, <2>2, PassStep DEF ReadBooking
  <2>3. CASE ~(Action(w) = "create" /\ status[Booking(w)] # "confirmed")
    BY <1>4, <2>1, <2>3, SnapshotStep DEF ReadBooking
  <2> QED
    BY <2>2, <2>3
<1>5. ASSUME NEW w \in Workers, List(w)
      PROVE  SyncInv'
  <2>1. work[w].at = "list"
    BY <1>5 DEF List, At
  <2>2. CASE Action(w) = "create" /\ ~typed[Booking(w)]
    BY <1>5, <2>1, <2>2, PassStep DEF List
  <2>3. CASE ~(Action(w) = "create" /\ ~typed[Booking(w)])
    BY <1>5, <2>1, <2>3, CallStep DEF List
  <2> QED
    BY <2>2, <2>3
<1>6. ASSUME NEW w \in Workers, Save(w) \/ StoreFails(w)
      PROVE  SyncInv'
  BY <1>6, SaveStep, StoreFailsStep
<1>7. ASSUME NEW w \in Workers, NEW c \in Conns, Succeeds(w, c) \/ Refused(w, c) \/ ProviderFails(w, c)
      PROVE  SyncInv'
  BY <1>7, SucceedsStep, FailsStep
<1> QED
  BY <1>1, <1>2, <1>3, <1>4, <1>5, <1>6, <1>7 DEF SyncNext, Consume

\* Nothing else in this module touches rows, queue or calendars.
LEMMA SyncHolds == OneConsumer /\ Spec => []SyncInv
<1> SUFFICES ASSUME OneConsumer
             PROVE  Spec => []SyncInv
  OBVIOUS
<1>1. Init => SyncInv
  BY SyncBegins DEF Init
<1>2. [Next]_outsideVars => [SyncNext]_syncVars
  BY DEF Next, outsideVars, Events, BusyTime, Photos, News, Time
<1>3. SyncInv /\ [Next]_outsideVars => SyncInv'
  BY <1>2, SyncKeeps
<1> QED
  BY <1>1, <1>3, PTL DEF Spec

\* Under one consumer, once the create job of a standing booking is done and
\* nothing is at work on it, each sound calendar has exactly the event whose id
\* the row keeps, whatever was redelivered, retried or lost before.
THEOREM EventAlwaysForEach == OneConsumer /\ Spec => []EventForEach
<1>1. ASSUME SyncInv
      PROVE  EventForEach
  <2> SUFFICES ASSUME NEW b \in Bookings, NEW c \in Conns,
                      status[b] = "confirmed", typed[b], <<"create", b>> \in acked, ~Busy(b), Sound(b, c)
               PROVE  EventsOf(b, c) = {<<c, b, ids[b][c]>>}
    BY DEF EventForEach
  <2>1. ids[b][c] # 0 /\ ids[b][c] \in Numbers
    <3>1. DoneInv /\ ids[b][c] \in 0..MaxDeliveries
      BY <1>1 DEF SyncInv, SyncTypeOK
    <3>2. ids[b][c] # 0
      BY ONLY <3>1, status[b] = "confirmed", typed[b], <<"create", b>> \in acked, Sound(b, c), b \in Bookings, c \in Conns DEF DoneInv
    <3> QED
      BY <3>1, <3>2, SyncAssumption DEF Numbers
  <2>2. Tracked(ids[b], b)
    BY <1>1 DEF SyncInv, Busy, Engaged, At, Booking
  <2>3. <<c, b, ids[b][c]>> \in events /\ \A n \in Numbers : <<c, b, n>> \in events => n = ids[b][c]
    BY <2>1, <2>2 DEF Tracked, Sound
  <2>4. events \subseteq Conns \X Bookings \X Numbers
    BY <1>1 DEF SyncInv, SyncTypeOK, Numbers
  <2>5. ASSUME NEW e \in events, e[1] = c, e[2] = b
        PROVE  e = <<c, b, ids[b][c]>>
    BY <2>3, <2>4, <2>5
  <2> QED
    BY <2>3, <2>5 DEF EventsOf
<1> QED
  BY <1>1, SyncHolds, PTL

\* Under one consumer, once the delete job of an ended booking is done and
\* nothing is at work on it, no event of it is left on a sound calendar,
\* whichever of its jobs came first.
THEOREM NoPhantomEver == OneConsumer /\ Spec => []NoPhantom
<1>1. ASSUME SyncInv
      PROVE  NoPhantom
  <2> SUFFICES ASSUME NEW b \in Bookings, NEW c \in Conns, <<"delete", b>> \in acked, Sound(b, c)
               PROVE  EventsOf(b, c) = {}
    BY DEF NoPhantom
  <2>1. Gone(b, c) /\ events \subseteq Conns \X Bookings \X Numbers
    BY <1>1 DEF SyncInv, SyncTypeOK, DoneInv, Numbers
  <2> QED
    BY <2>1 DEF EventsOf, Gone
<1> QED
  BY <1>1, SyncHolds, PTL

-----------------------------------------------------------------------------
(* Busy time. What a query that is under way has not learned is in a       *)
(* calendar it has yet to ask (AskInv); what the cache holds is as good as *)
(* an answer of the time it was put there (CacheInv). Whatever the host    *)
(* does meanwhile is too late for the reader to have to know of it.        *)

Entries == [span : Spans \cup {{}}, free : BOOLEAN, since : Nat]
Links ==
  [id : Nat, provider : Providers \cup {"none"}, email : BOOLEAN, read : SUBSET Calendars,
   sync : {"ok", "needs_reconnect"}, since : Nat]
Answer == SUBSET Range(Window)
Lookups ==
  [by : Readers, at : {"idle", "ask", "known"}, conn : Links, ask : Seq(Calendars \cup {Mailbox}),
   busy : Answer, began : Nat]

BusyTypeOK ==
  /\ clock \in Nat /\ edits \in Nat
  /\ diary \in [Calendars -> Entries]
  /\ link \in Links
  /\ freeBusy \in [of : Nat, busy : Answer, until : Nat]
  /\ reader \in Lookups

NowInv ==
  /\ reader.began <= clock /\ (Asking => reader.began = clock)
  /\ freeBusy.until <= clock + CacheTTL

\* The busy event in c was there before t, and c was asked for by then.
Stood(c, t) == c \in Watched /\ ~diary[c].free /\ diary[c].since < t /\ link.since < t

AskInv ==
  Asking => \A c \in Calendars : Stood(c, reader.began) =>
    Clamp(diary[c].span) \subseteq reader.busy \/ \E asked \in Range(reader.ask) : c \in Contents(asked)

CacheInv ==
  \A c \in Calendars, t \in 0..clock :
    freeBusy.until = t + CacheTTL /\ Stood(c, t) => Clamp(diary[c].span) \subseteq freeBusy.busy

BusyInv == BusyTypeOK /\ NowInv /\ AskInv /\ CacheInv /\ BusyIsSeen

\* A finite set put in a sequence is all of it there.
LEMMA Ordered ==
  ASSUME NEW S, IsFiniteSet(S)
  PROVE  SetToSeq(S) \in Seq(S) /\ Range(SetToSeq(S)) = S
<1> DEFINE orders == {f \in [1..Cardinality(S) -> S] : IsInjective(f)}
           s == SetToSeq(S)
<1>1. Cardinality(S) \in Nat /\ \E f \in [1..Cardinality(S) -> S] : IsInjective(f)
  BY FS_CardinalityType DEF ExistsBijection, Bijection, Injection
<1>2. s \in [1..Cardinality(S) -> S] /\ IsInjective(s)
  BY <1>1 DEF SetToSeq
<1> HIDE DEF s
<1>3. s \in Seq(S) /\ DOMAIN s = 1..Cardinality(S)
  BY <1>1, <1>2
<1>4. Cardinality(1..Cardinality(S)) = Cardinality(S)
  BY <1>1, FS_Interval
<1>5. s \in Surjection(1..Cardinality(S), S)
  BY <1>2, <1>4, FS_Injection DEF Injection
<1>6. Range(s) = S
  BY <1>3, <1>5 DEF Surjection, Range
<1> QED
  BY <1>3, <1>6 DEF s

\* The loop of getBusy leaves no calendar out: what it asks now, and what remains.
LEMMA ChunksCover ==
  ASSUME NEW S, reader.ask \in Seq(S), reader.ask # <<>>
  PROVE  /\ NextChunk \in Seq(S)
         /\ \A x \in Range(reader.ask) : x = Head(Chunk) \/ x \in Range(Tail(Chunk)) \/ x \in Range(NextChunk)
<1>1. PICK s \in Seq(S) : s = reader.ask /\ s # <<>>
  OBVIOUS
<1>2. PICK n \in 1..Len(s) : n = IF Len(s) < MaxPerQuery THEN Len(s) ELSE MaxPerQuery
  BY <1>1, FreeBusyAssumption
<1>3. /\ Chunk = SubSeq(s, 1, n) /\ Chunk \in Seq(S) /\ Len(Chunk) = n
      /\ \A i \in 1..n : Chunk[i] = s[i]
  BY <1>1, <1>2 DEF Chunk
<1>4. NextChunk = SubSeq(s, n + 1, Len(s))
  BY <1>1, <1>3 DEF NextChunk
<1>5. /\ NextChunk \in Seq(S) /\ Len(NextChunk) = Len(s) - n
      /\ \A i \in 1..(Len(s) - n) : NextChunk[i] = s[n + i]
  BY <1>2, <1>4
<1>6. /\ Head(Chunk) = s[1] /\ Tail(Chunk) \in Seq(S) /\ Len(Tail(Chunk)) = n - 1
      /\ \A i \in 1..(n - 1) : Tail(Chunk)[i] = s[i + 1]
  BY <1>2, <1>3
<1>7. ASSUME NEW i \in 1..Len(s)
      PROVE  s[i] = Head(Chunk) \/ s[i] \in Range(Tail(Chunk)) \/ s[i] \in Range(NextChunk)
  <2>1. CASE i = 1
    BY <1>6, <2>1
  <2>2. CASE i \in 2..n
    <3>1. i - 1 \in 1..(n - 1) /\ (i - 1) + 1 = i
      BY <1>2, <2>2
    <3>2. Tail(Chunk)[i - 1] = s[i] /\ i - 1 \in DOMAIN Tail(Chunk)
      BY <1>6, <3>1
    <3> QED
      BY <3>2 DEF Range
  <2>3. CASE i > n
    <3>1. i - n \in 1..(Len(s) - n) /\ n + (i - n) = i
      BY <1>2, <2>3
    <3>2. NextChunk[i - n] = s[i] /\ i - n \in DOMAIN NextChunk
      BY <1>5, <3>1
    <3> QED
      BY <3>2 DEF Range
  <2> QED
    BY <2>1, <2>2, <2>3
<1>8. \A x \in Range(s) : \E i \in 1..Len(s) : x = s[i]
  BY DEF Range
<1> QED
  BY <1>1, <1>5, <1>7, <1>8

\* The bitmap rounds outwards: it shows at least the busy ticks of the window.
LEMMA BitmapCovers ==
  ASSUME NEW asked
  PROVE  Clamp(Blocks(asked)) \subseteq Clamp(Bitmap(asked))
<1> SUFFICES ASSUME NEW t \in Range(Window), t \in Blocks(asked)
             PROVE  t \in Bitmap(asked)
  BY DEF Clamp
<1>1. PICK first : first = Window[1]
  OBVIOUS
<1>2. t \in Nat /\ first \in Nat /\ GridStep \in Nat \ {0}
  BY <1>1, FreeBusyAssumption DEF Range
<1>3. PICK i \in Int : i = (t - first) \div GridStep
  BY <1>2
<1>4. first + i * GridStep <= t /\ t <= first + (i + 1) * GridStep - 1
  BY <1>2, <1>3
<1>5. t \in (first + i * GridStep)..(first + (i + 1) * GridStep - 1)
  BY <1>2, <1>3, <1>4
<1> QED
  BY <1>1, <1>3, <1>5 DEF Bitmap

\* Either form of an answer shows a busy event of a calendar it is about.
LEMMA AnswerShows ==
  ASSUME NEW asked, NEW c \in Contents(asked), ~diary[c].free, NEW answer \in Answers(asked)
  PROVE  Clamp(diary[c].span) \subseteq Clamp(answer)
<1>1. diary[c].span \subseteq Blocks(asked)
  BY DEF Blocks
<1>2. answer = Blocks(asked) \/ answer = Bitmap(asked)
  BY DEF Answers, Detail
<1>3. Clamp(Blocks(asked)) \subseteq Clamp(answer)
  BY <1>2, BitmapCovers
<1> QED
  BY <1>1, <1>3 DEF Clamp

\* What the host does now is too late for anyone who asked before.
LEMMA HostStep ==
  ASSUME BusyInv, HostEdits \/ Connect \/ ChooseCalendars \/ Disconnect
  PROVE  /\ UNCHANGED <<freeBusy, reader>> /\ edits' \in Nat /\ diary' \in [Calendars -> Entries] /\ link' \in Links
         /\ \A c \in Calendars : \A t \in Nat : t <= clock /\ Stood(c, t)' =>
              Stood(c, t) /\ diary'[c] = diary[c] /\ link'.since = link.since
<1> DEFINE Late == \A c \in Calendars : \A t \in Nat : t <= clock /\ Stood(c, t)' =>
                     Stood(c, t) /\ diary'[c] = diary[c] /\ link'.since = link.since
<1>1. /\ clock \in Nat /\ edits \in Nat /\ diary \in [Calendars -> Entries] /\ link \in Links
      /\ UNCHANGED <<freeBusy, reader>> /\ edits' \in Nat /\ link.since \in Nat
  <2>1. /\ clock \in Nat /\ edits \in Nat /\ diary \in [Calendars -> Entries] /\ link \in Links
        /\ link.since \in Nat
    BY DEF BusyInv, BusyTypeOK, Links
  <2>2. UNCHANGED <<freeBusy, reader>> /\ Edit
    BY DEF HostEdits, Connect, ChooseCalendars, Disconnect
  <2> QED
    BY <2>1, <2>2 DEF Edit
<1>2. CASE HostEdits
  <2>1. PICK d \in Calendars, x \in Entries : diary' = [diary EXCEPT ![d] = x] /\ x.since = clock
    <3>1. PICK d \in Calendars, span \in Spans \cup {{}}, free \in BOOLEAN :
            diary' = [diary EXCEPT ![d] = [span |-> span, free |-> free /\ span # {}, since |-> clock]]
      BY <1>2 DEF HostEdits
    <3>2. [span |-> span, free |-> free /\ span # {}, since |-> clock] \in Entries
      BY <1>1 DEF Entries
    <3> QED
      BY <3>1, <3>2
  <2>2. link' = link
    BY <1>2 DEF HostEdits
  <2>3. diary' \in [Calendars -> Entries]
    BY <1>1, <2>1
  <2>4. ASSUME NEW c \in Calendars, NEW t \in Nat, t <= clock, Stood(c, t)'
        PROVE  Stood(c, t) /\ diary'[c] = diary[c]
    <3>1. c # d
      BY <1>1, <2>1, <2>4 DEF Stood
    <3>2. diary'[c] = diary[c]
      BY <1>1, <2>1, <3>1
    <3> QED
      BY <2>2, <2>4, <3>2 DEF Stood, Watched
  <2> QED
    BY <1>1, <2>2, <2>3, <2>4
<1>3. CASE Connect \/ ChooseCalendars
  <2>1. diary' = diary
    BY <1>3 DEF Connect, ChooseCalendars
  <2>2. link' \in Links /\ link'.since = clock
    <3>1. CASE Connect
      <4>1. PICK provider \in Providers, email \in BOOLEAN, listed \in ListCalendars({CHOOSE c \in Calendars : TRUE}) :
              link' = [NotLinked EXCEPT !.id = edits', !.provider = provider, !.email = email, !.since = clock,
                         !.read = IF provider = "microsoft" THEN {} ELSE listed]
        BY <3>1 DEF Connect, Store
      <4>2. listed \subseteq Calendars
        BY FreeBusyAssumption DEF ListCalendars
      <4> QED
        BY <1>1, <4>1, <4>2 DEF NotLinked, Links
    <3>2. CASE ChooseCalendars
      <4>1. PICK read \in SUBSET Calendars :
              link' = [link EXCEPT !.read = IF link.provider = "microsoft" THEN {} ELSE read, !.since = clock]
        BY <3>2 DEF ChooseCalendars, Store
      <4> QED
        BY <1>1, <4>1 DEF Links
    <3> QED
      BY <1>3, <3>1, <3>2
  <2>3. \A c \in Calendars : \A t \in Nat : t <= clock => ~Stood(c, t)'
    BY <1>1, <2>2 DEF Stood
  <2> QED
    BY <1>1, <2>1, <2>2, <2>3
<1>4. CASE Disconnect
  <2>1. diary' = diary /\ link' = NotLinked
    BY <1>4 DEF Disconnect, Store
  <2>2. NotLinked \in Links /\ NotLinked.provider # "microsoft" /\ NotLinked.read = {}
    BY DEF NotLinked, Links
  <2>3. \A c \in Calendars : \A t \in Nat : ~Stood(c, t)'
    BY <2>1, <2>2 DEF Stood, Watched
  <2> QED
    BY <1>1, <2>1, <2>2, <2>3
<1> QED
  BY <1>2, <1>3, <1>4

LEMMA HostKeeps ==
  ASSUME BusyInv, HostEdits \/ Connect \/ ChooseCalendars \/ Disconnect, clock' = clock
  PROVE  BusyInv'
<1>1. /\ UNCHANGED <<freeBusy, reader>> /\ edits' \in Nat /\ diary' \in [Calendars -> Entries] /\ link' \in Links
      /\ \A c \in Calendars : \A t \in Nat : t <= clock /\ Stood(c, t)' =>
           Stood(c, t) /\ diary'[c] = diary[c] /\ link'.since = link.since
  BY HostStep
<1>2. BusyTypeOK /\ NowInv /\ AskInv /\ CacheInv /\ BusyIsSeen /\ clock \in Nat /\ reader.began \in Nat
  BY DEF BusyInv, BusyTypeOK, Lookups
<1>3. BusyTypeOK' /\ NowInv'
  BY <1>1, <1>2 DEF BusyTypeOK, NowInv, Asking
<1>4. AskInv'
  <2> SUFFICES ASSUME Asking, NEW c \in Calendars, Stood(c, reader.began)'
               PROVE  Clamp(diary'[c].span) \subseteq reader.busy \/ \E asked \in Range(reader.ask) : c \in Contents(asked)
    BY <1>1 DEF AskInv, Asking, Clamp, Contents
  <2>1. PICK t \in Nat : t = reader.began
    BY <1>2
  <2>2. Stood(c, t)'
    BY <1>1, <2>1 DEF Stood
  <2>3. Stood(c, t) /\ diary'[c] = diary[c]
    BY <1>1, <1>2, <2>1, <2>2 DEF NowInv
  <2> QED
    BY <1>2, <2>1, <2>3 DEF AskInv
<1>5. CacheInv'
  <2> SUFFICES ASSUME NEW c \in Calendars, NEW t \in 0..clock, freeBusy.until = t + CacheTTL, Stood(c, t)'
               PROVE  Clamp(diary'[c].span) \subseteq freeBusy.busy
    BY <1>1 DEF CacheInv, Clamp
  <2>1. Stood(c, t) /\ diary'[c] = diary[c]
    BY <1>1, <1>2
  <2> QED
    BY <1>2, <2>1 DEF CacheInv
<1>6. BusyIsSeen'
  <2> SUFFICES ASSUME NEW c \in Calendars, reader.at = "known", c \in Watched', ~diary'[c].free,
                      diary'[c].since + Horizon <= reader.began, link'.since + Horizon <= reader.began
               PROVE  Clamp(diary'[c].span) \subseteq reader.busy
    BY <1>1 DEF BusyIsSeen, Clamp, Horizon
  <2>1. Horizon \in Nat \ {0} /\ diary'[c].since \in Nat /\ link'.since \in Nat
    BY <1>1, FreeBusyAssumption DEF Horizon, Entries, Links
  <2>2. PICK t \in Nat : t = reader.began
    BY <1>2
  <2>3. Stood(c, t)'
    BY <2>1, <2>2 DEF Stood
  <2>4. Stood(c, t) /\ diary'[c] = diary[c] /\ link'.since = link.since
    BY <1>1, <1>2, <2>2, <2>3 DEF NowInv
  <2> QED
    BY <1>2, <2>4 DEF BusyIsSeen, Stood
<1> QED
  BY <1>3, <1>4, <1>5, <1>6 DEF BusyInv

\* A page that is given what was put away knows what a page of then knew.
LEMMA BeginStep ==
  ASSUME BusyInv, NEW w \in Readers, Begin(w), clock' = clock
  PROVE  BusyInv'
<1>1. /\ BusyTypeOK /\ NowInv /\ CacheInv /\ clock \in Nat /\ link \in Links
      /\ link.provider \in Providers \cup {"none"} /\ link.read \subseteq Calendars
      /\ freeBusy.busy \in Answer /\ freeBusy.until \in Nat
  BY DEF BusyInv, BusyTypeOK, Links
<1>2. UNCHANGED <<diary, link, freeBusy, edits>> /\ IsRead
  BY DEF Begin
<1>3. NotReading \in Lookups
  BY DEF NotReading, Lookups, Readers, NotLinked, Links, Answer
<1>4. ToAsk \in Seq(Calendars \cup {Mailbox}) /\ \A c \in Watched : \E asked \in Range(ToAsk) : c \in Contents(asked)
  <2>1. CASE link.provider = "microsoft"
    <3>1. ToAsk = <<Mailbox>> /\ Watched = Calendars /\ Contents(Mailbox) = Calendars
      BY <2>1 DEF ToAsk, Watched, Contents
    <3>2. Mailbox \in Range(<<Mailbox>>)
      BY DEF Range
    <3> QED
      BY <3>1, <3>2
  <2>2. CASE link.provider # "microsoft"
    <3>1. IsFiniteSet(link.read) /\ Watched = link.read /\ ToAsk = SetToSeq(link.read)
      BY <1>1, <2>2, FS_Subset, FreeBusyAssumption DEF Watched, ToAsk
    <3>2. ToAsk \in Seq(link.read) /\ Range(ToAsk) = link.read
      BY <3>1, Ordered
    <3>3. ToAsk \in Seq(Calendars \cup {Mailbox})
      BY <1>1, <3>2, SeqMonotonic
    <3>4. \A c \in Calendars : c \in Contents(c)
      BY DEF Contents
    <3> QED
      BY <1>1, <3>1, <3>2, <3>3, <3>4
  <2> QED
    BY <2>1, <2>2
<1>5. CASE w = "page" /\ freeBusy.of = link.id /\ ~Reached(freeBusy.until)
  <2>1. reader' = [NotReading EXCEPT !.by = w, !.at = "known", !.busy = freeBusy.busy, !.began = clock]
    BY <1>5 DEF Begin
  <2>2. /\ reader' \in Lookups /\ reader'.by = "page" /\ reader'.at = "known"
        /\ reader'.busy = freeBusy.busy /\ reader'.began = clock
    BY <1>1, <1>3, <1>5, <2>1 DEF Lookups
  <2>3. freeBusy.until > clock /\ freeBusy.until <= clock + CacheTTL /\ CacheTTL \in Nat \ {0}
    BY <1>1, <1>5, FreeBusyAssumption DEF Reached, NowInv
  <2>4. BusyIsSeen'
    <3> SUFFICES ASSUME NEW c \in Calendars, c \in Watched, ~diary[c].free,
                        diary[c].since + CacheTTL <= clock, link.since + CacheTTL <= clock
                 PROVE  Clamp(diary[c].span) \subseteq freeBusy.busy
      BY <1>2, <2>2 DEF BusyIsSeen, Clamp, Horizon, Watched
    <3>1. diary[c].since \in Nat /\ link.since \in Nat
      BY <1>1 DEF BusyTypeOK, Entries, Links
    <3>2. PICK t \in 0..clock : freeBusy.until = t + CacheTTL
      <4>1. freeBusy.until - CacheTTL \in 0..clock
        BY <1>1, <2>3, <3>1
      <4> QED
        BY <1>1, <2>3, <4>1
    <3>3. diary[c].since < t /\ link.since < t
      BY <1>1, <2>3, <3>1, <3>2
    <3> QED
      BY <1>1, <3>2, <3>3 DEF CacheInv, Stood
  <2> QED
    BY <1>1, <1>2, <2>2, <2>4 DEF BusyInv, BusyTypeOK, NowInv, AskInv, CacheInv, Asking, Stood, Watched, Clamp
<1>6. CASE ~(w = "page" /\ freeBusy.of = link.id /\ ~Reached(freeBusy.until))
  <2>1. reader' = [NotReading EXCEPT !.by = w, !.at = "ask", !.conn = link, !.ask = ToAsk, !.began = clock]
    BY <1>6 DEF Begin
  <2>2. /\ reader' \in Lookups /\ reader'.at = "ask" /\ reader'.ask = ToAsk /\ reader'.began = clock
    BY <1>1, <1>3, <1>4, <2>1 DEF Lookups
  <2>3. AskInv'
    BY <1>2, <1>4, <2>2 DEF AskInv, Stood, Watched, Contents
  <2> QED
    BY <1>1, <1>2, <2>2, <2>3 DEF BusyInv, BusyTypeOK, NowInv, CacheInv, BusyIsSeen, Asking, Stood, Watched, Clamp
<1> QED
  BY <1>5, <1>6

LEMMA QueryStep ==
  ASSUME BusyInv, Query, clock' = clock
  PROVE  BusyInv'
<1>1. /\ BusyTypeOK /\ NowInv /\ CacheInv /\ AskInv /\ reader \in Lookups /\ Asking
      /\ reader.ask \in Seq(Calendars \cup {Mailbox}) /\ reader.ask # <<>> /\ reader.busy \in Answer
      /\ UNCHANGED <<diary, link, freeBusy, edits>>
  BY DEF BusyInv, BusyTypeOK, Lookups, Query
<1>2. PICK first \in Answers(Head(Chunk)) :
        reader' = [reader EXCEPT
          !.ask = NextChunk,
          !.busy = @ \cup Clamp(first \cup UNION {Detail(asked) : asked \in Range(Tail(Chunk))})]
  BY DEF Query
<1>3. /\ NextChunk \in Seq(Calendars \cup {Mailbox})
      /\ \A x \in Range(reader.ask) : x = Head(Chunk) \/ x \in Range(Tail(Chunk)) \/ x \in Range(NextChunk)
  BY <1>1, ChunksCover
<1>4. PICK learned \in Answer :
        /\ learned = reader.busy \cup Clamp(first \cup UNION {Detail(asked) : asked \in Range(Tail(Chunk))})
        /\ reader' = [reader EXCEPT !.ask = NextChunk, !.busy = learned]
  <2>1. reader.busy \cup Clamp(first \cup UNION {Detail(asked) : asked \in Range(Tail(Chunk))}) \in Answer
    BY <1>1 DEF Answer, Clamp
  <2> QED
    BY <1>2, <2>1
<1>5. /\ reader' \in Lookups /\ reader'.at = "ask" /\ reader'.ask = NextChunk /\ reader'.busy = learned
      /\ reader'.began = reader.began
  BY <1>1, <1>3, <1>4 DEF Lookups, Asking
<1>6. AskInv'
  <2> SUFFICES ASSUME NEW c \in Calendars, Stood(c, reader.began)
               PROVE  Clamp(diary[c].span) \subseteq learned \/ \E asked \in Range(NextChunk) : c \in Contents(asked)
    BY <1>1, <1>5 DEF AskInv, Stood, Watched, Clamp, Contents
  <2>1. CASE Clamp(diary[c].span) \subseteq reader.busy
    BY <1>4, <2>1
  <2>2. ASSUME NEW asked \in Range(reader.ask), c \in Contents(asked)
        PROVE  Clamp(diary[c].span) \subseteq learned \/ asked \in Range(NextChunk)
    <3>1. ~diary[c].free
      BY DEF Stood
    <3>2. CASE asked = Head(Chunk)
      <4>1. Clamp(diary[c].span) \subseteq Clamp(first)
        BY <2>2, <3>1, <3>2, AnswerShows
      <4> QED
        BY <1>4, <4>1 DEF Clamp
    <3>3. CASE asked \in Range(Tail(Chunk))
      <4>1. Clamp(diary[c].span) \subseteq Clamp(Detail(asked))
        BY <2>2, <3>1, AnswerShows DEF Answers
      <4> QED
        BY <1>4, <3>3, <4>1 DEF Clamp
    <3> QED
      BY <1>3, <2>2, <3>2, <3>3
  <2>3. Clamp(diary[c].span) \subseteq reader.busy \/ \E asked \in Range(reader.ask) : c \in Contents(asked)
    BY <1>1 DEF AskInv
  <2> QED
    BY <2>1, <2>2, <2>3
<1>7. BusyTypeOK' /\ NowInv' /\ CacheInv' /\ BusyIsSeen'
  BY <1>1, <1>5 DEF BusyTypeOK, NowInv, CacheInv, BusyIsSeen, Asking, Stood, Watched, Clamp
<1> QED
  BY <1>6, <1>7 DEF BusyInv

LEMMA ThrowStep ==
  ASSUME BusyInv, Throw, clock' = clock
  PROVE  BusyInv'
<1>1. /\ BusyTypeOK /\ CacheInv /\ NowInv /\ clock \in Nat /\ link \in Links
      /\ UNCHANGED <<diary, freeBusy, edits>> /\ reader' = NotReading
      /\ link' = link \/ link' = [link EXCEPT !.sync = "needs_reconnect"]
  BY DEF BusyInv, BusyTypeOK, Throw, Store
<1>2. link' \in Links /\ link'.provider = link.provider /\ link'.read = link.read /\ link'.since = link.since
  BY <1>1 DEF Links
<1>3. NotReading \in Lookups /\ NotReading.at = "idle" /\ NotReading.began = 0
  BY DEF NotReading, Lookups, Readers, NotLinked, Links, Answer
<1>4. \A c, t : Stood(c, t)' <=> Stood(c, t)
  BY <1>1, <1>2 DEF Stood, Watched
<1>5. BusyTypeOK' /\ NowInv'
  BY <1>1, <1>2, <1>3 DEF BusyTypeOK, NowInv, Asking
<1>6. AskInv' /\ CacheInv' /\ BusyIsSeen'
  BY <1>1, <1>3, <1>4 DEF AskInv, CacheInv, BusyIsSeen, Asking, Clamp
<1> QED
  BY <1>5, <1>6 DEF BusyInv

\* With nothing left to ask, what was learned is all there is to know.
LEMMA DoneStep ==
  ASSUME BusyInv, Done, clock' = clock
  PROVE  BusyInv'
<1>1. /\ BusyTypeOK /\ NowInv /\ CacheInv /\ AskInv /\ reader \in Lookups /\ Asking /\ reader.ask = <<>>
      /\ clock \in Nat /\ UNCHANGED <<diary, link, edits>>
      /\ reader.began = clock /\ CacheTTL \in Nat \ {0}
  BY FreeBusyAssumption DEF BusyInv, BusyTypeOK, NowInv, Done
<1>2. /\ reader' \in Lookups /\ reader'.at = "known" /\ reader'.busy = reader.busy /\ reader'.began = clock
      /\ reader'.by = reader.by
  <2>1. reader' = [reader EXCEPT !.at = "known", !.conn = NotLinked] /\ NotLinked \in Links
    BY DEF Done, NotLinked, Links
  <2> QED
    BY <1>1, <2>1 DEF Lookups
<1>3. /\ freeBusy' \in [of : Nat, busy : Answer, until : Nat]
      /\ freeBusy' = freeBusy \/ (freeBusy'.busy = reader.busy /\ freeBusy'.until = clock + CacheTTL)
  <2>1. reader.conn.id \in Nat /\ reader.busy \in Answer /\ freeBusy \in [of : Nat, busy : Answer, until : Nat]
    BY <1>1 DEF Lookups, Links, BusyTypeOK
  <2> QED
    BY <1>1, <2>1 DEF Done, After
<1>4. \A c \in Calendars : Stood(c, clock) => Clamp(diary[c].span) \subseteq reader.busy
  BY <1>1 DEF AskInv, Range
<1>5. BusyTypeOK' /\ NowInv' /\ AskInv'
  <2>1. freeBusy'.until <= clock + CacheTTL
    BY <1>1, <1>3 DEF NowInv
  <2> QED
    BY <1>1, <1>2, <1>3, <2>1 DEF BusyTypeOK, NowInv, AskInv, Asking
<1>6. \A c, t : Stood(c, t)' <=> Stood(c, t)
  BY <1>1 DEF Stood, Watched
<1>7. CacheInv'
  <2> SUFFICES ASSUME NEW c \in Calendars, NEW t \in 0..clock, freeBusy'.until = t + CacheTTL, Stood(c, t)
               PROVE  Clamp(diary[c].span) \subseteq freeBusy'.busy
    BY <1>1, <1>6 DEF CacheInv, Clamp
  <2>1. CASE freeBusy' = freeBusy
    BY <1>1, <2>1 DEF CacheInv
  <2>2. CASE freeBusy'.busy = reader.busy /\ freeBusy'.until = clock + CacheTTL
    <3>1. t = clock
      BY <1>1, <2>2
    <3> QED
      BY <1>4, <2>2, <3>1
  <2> QED
    BY <1>3, <2>1, <2>2
<1>8. BusyIsSeen'
  <2> SUFFICES ASSUME NEW c \in Calendars, c \in Watched, ~diary[c].free,
                      diary[c].since + Horizon' <= clock, link.since + Horizon' <= clock
               PROVE  Clamp(diary[c].span) \subseteq reader.busy
    BY <1>1, <1>2 DEF BusyIsSeen, Clamp, Watched
  <2>1. Horizon' \in Nat \ {0} /\ diary[c].since \in Nat /\ link.since \in Nat
    BY <1>1 DEF Horizon, BusyTypeOK, Entries, Links
  <2>2. Stood(c, clock)
    BY <1>1, <2>1 DEF Stood
  <2> QED
    BY <1>4, <2>2
<1> QED
  BY <1>5, <1>7, <1>8 DEF BusyInv

LEMMA BusyBegins == ClockInit /\ FreeBusyInit => BusyInv
<1> SUFFICES ASSUME ClockInit, FreeBusyInit
             PROVE  BusyInv
  OBVIOUS
<1>1. NotReading \in Lookups /\ NotReading.at = "idle" /\ NotReading.began = 0 /\ NotLinked \in Links
  BY DEF NotReading, Lookups, Readers, NotLinked, Links, Answer
<1>2. [span |-> {}, free |-> FALSE, since |-> 0] \in Entries
  BY DEF Entries
<1>3. BusyTypeOK
  BY <1>1, <1>2 DEF ClockInit, FreeBusyInit, BusyTypeOK, Answer
<1>4. /\ NowInv /\ AskInv /\ BusyIsSeen
  BY <1>1, FreeBusyAssumption DEF ClockInit, FreeBusyInit, NowInv, AskInv, BusyIsSeen, Asking
<1>5. CacheInv
  BY FreeBusyAssumption DEF ClockInit, FreeBusyInit, CacheInv
<1> QED
  BY <1>3, <1>4, <1>5 DEF BusyInv

\* Time passes between queries alone, and nothing that stood is undone by it.
LEMMA TickStep ==
  ASSUME BusyInv, ~Asking, Tick, UNCHANGED busyVars
  PROVE  BusyInv'
<1>1. /\ clock \in Nat /\ clock' = clock + 1 /\ BusyTypeOK /\ NowInv /\ CacheInv /\ BusyIsSeen
      /\ UNCHANGED <<diary, link, freeBusy, reader, edits>> /\ reader.began \in Nat /\ freeBusy.until \in Nat
      /\ CacheTTL \in Nat \ {0}
  BY FreeBusyAssumption DEF BusyInv, BusyTypeOK, Tick, busyVars, Lookups
<1>2. BusyTypeOK' /\ NowInv' /\ AskInv' /\ BusyIsSeen'
  BY <1>1 DEF BusyTypeOK, NowInv, AskInv, BusyIsSeen, Asking, Clamp, Horizon, Watched
<1>3. CacheInv'
  <2> SUFFICES ASSUME NEW c \in Calendars, NEW t \in 0..clock', freeBusy.until = t + CacheTTL, Stood(c, t)
               PROVE  Clamp(diary[c].span) \subseteq freeBusy.busy
    BY <1>1 DEF CacheInv, Clamp, Stood, Watched
  <2>1. t \in 0..clock
    BY <1>1 DEF NowInv
  <2> QED
    BY <1>1, <2>1 DEF CacheInv
<1> QED
  BY <1>2, <1>3 DEF BusyInv

\* Whoever learned a host's busy time knows of every busy event that was in a
\* calendar chosen by then when it began, a page a cache's life before: for any
\* calendars and events, in answers of either form and in any number of chunks.
THEOREM BusyAlwaysSeen == Spec => []BusyIsSeen
<1>1. Init => BusyInv
  BY BusyBegins DEF Init
<1>2. BusyInv /\ [Next]_outsideVars => BusyInv'
  <2> SUFFICES ASSUME BusyInv, [Next]_outsideVars
               PROVE  BusyInv'
    OBVIOUS
  <2>1. CASE UNCHANGED <<clock, busyVars>>
    BY <2>1 DEF busyVars, BusyInv, BusyTypeOK, NowInv, AskInv, CacheInv, BusyIsSeen, Asking, Stood, Watched, Clamp,
                Contents, Horizon
  <2>2. CASE BusyTime
    BY <2>2, HostKeeps, BeginStep, QueryStep, ThrowStep, DoneStep DEF BusyTime, FreeBusyNext
  <2>3. CASE Time
    BY <2>3, TickStep DEF Time
  <2> QED
    BY <2>1, <2>2, <2>3 DEF Next, outsideVars, Events, Photos, News
<1>3. BusyInv => BusyIsSeen
  BY DEF BusyInv
<1> QED
  BY <1>1, <1>2, <1>3, PTL DEF Spec

-----------------------------------------------------------------------------
(* Photos. PhotosShow is not inductive: an upload that found the thumbnail *)
(* writes its row later, so OnTheWay says what R2 has at each stage, and   *)
(* Paired that a thumbnail is never without its original.                  *)

UnderWay == [at : {"look", "resize", "thumb", "row"}, owner : Owners, picture : Pictures]

Types ==
  /\ upload \in [Uploads -> {Waiting} \cup UnderWay]
  /\ avatarKey \in [Owners -> SUBSET {ThumbKey(p) : p \in Pictures}]

OnTheWay ==
  \A r \in Uploads :
    /\ upload[r].at = "thumb" => OriginalKey(upload[r].picture) \in bucket
    /\ upload[r].at = "row" => ThumbKey(upload[r].picture) \in bucket

Paired == \A p \in Pictures : ThumbKey(p) \in bucket => OriginalKey(p) \in bucket

Shown == \A u \in Owners : avatarKey[u] \subseteq bucket

PhotoInv == Types /\ OnTheWay /\ Paired /\ Shown

LEMMA KeysApart ==
  ASSUME NEW p, NEW q
  PROVE  /\ ThumbKey(p) # OriginalKey(q)
         /\ ThumbKey(p) = ThumbKey(q) => p = q
BY DEF ThumbKey, OriginalKey

\* A request that is not idle has an owner and a picture.
LEMMA Underway ==
  ASSUME Types, NEW r \in Uploads, upload[r].at # "idle"
  PROVE  upload[r] \in UnderWay
BY DEF Types, Waiting

\* An upload goes on with the owner and the picture it has.
LEMMA Moved ==
  ASSUME Types, NEW r \in Uploads, upload[r] \in UnderWay,
         NEW at \in {"look", "resize", "thumb", "row"}, Step(r, at)
  PROVE  \E x \in UnderWay :
           upload' = [upload EXCEPT ![r] = x] /\ x.at = at /\ x.picture = upload[r].picture
<1> DEFINE x == [upload[r] EXCEPT !.at = at]
<1>1. x \in UnderWay /\ x.at = at /\ x.picture = upload[r].picture
  BY DEF UnderWay
<1>2. upload' = [upload EXCEPT ![r] = x]
  BY DEF Step, Types
<1> QED
  BY <1>1, <1>2

\* R2 only gains keys, and upload r goes to a stage whose keys are there.
LEMMA StageStep ==
  ASSUME PhotoInv, NEW r \in Uploads, NEW x \in {Waiting} \cup UnderWay,
         upload' = [upload EXCEPT ![r] = x], bucket \subseteq bucket',
         x.at = "thumb" => OriginalKey(x.picture) \in bucket',
         x.at = "row" => ThumbKey(x.picture) \in bucket'
  PROVE  upload' \in [Uploads -> {Waiting} \cup UnderWay] /\ OnTheWay'
BY DEF PhotoInv, Types, OnTheWay

LEMMA PhotosBegin == ImagesInit => PhotoInv
BY KeysApart DEF ImagesInit, PhotoInv, Types, OnTheWay, Paired, Shown, Waiting

LEMMA PhotosKeep == PhotoInv /\ [ImagesNext]_imageVars => PhotoInv'
<1> SUFFICES ASSUME PhotoInv, [ImagesNext]_imageVars
             PROVE  PhotoInv'
  OBVIOUS
<1>0. CASE UNCHANGED imageVars
  BY <1>0 DEF imageVars, PhotoInv, Types, OnTheWay, Paired, Shown
<1>1. ASSUME NEW r \in Uploads, Upload(r)
      PROVE  PhotoInv'
  <2>1. PICK u \in Owners, p \in Pictures :
          upload' = [upload EXCEPT ![r] = [at |-> "look", owner |-> u, picture |-> p]]
    BY <1>1 DEF Upload
  <2>2. upload' \in [Uploads -> {Waiting} \cup UnderWay] /\ OnTheWay'
    BY <1>1, <2>1, StageStep DEF Upload, UnderWay
  <2> QED
    BY <1>1, <2>2 DEF Upload, PhotoInv, Types, Paired, Shown
<1>2. ASSUME NEW r \in Uploads, LookForThumb(r)
      PROVE  PhotoInv'
  <2>1. upload[r] \in UnderWay
    BY <1>2, Underway DEF PhotoInv, LookForThumb, Doing
  <2>2. PICK x \in UnderWay :
          /\ upload' = [upload EXCEPT ![r] = x]
          /\ x.at = IF ThumbKey(upload[r].picture) \in bucket THEN "row" ELSE "resize"
          /\ x.picture = upload[r].picture
    BY <1>2, <2>1, Moved DEF LookForThumb, PhotoInv
  <2>3. upload' \in [Uploads -> {Waiting} \cup UnderWay] /\ OnTheWay'
    BY <1>2, <2>2, StageStep DEF LookForThumb
  <2> QED
    BY <1>2, <2>3 DEF LookForThumb, PhotoInv, Types, Paired, Shown
<1>3. ASSUME NEW r \in Uploads, PutOriginal(r)
      PROVE  PhotoInv'
  <2>1. upload[r] \in UnderWay
    BY <1>3, Underway DEF PhotoInv, PutOriginal, Doing
  <2>2. CASE upload[r].picture \in Corrupt
    <3>1. upload' = [upload EXCEPT ![r] = Waiting] /\ bucket' = bucket
      BY <1>3, <2>2 DEF PutOriginal, Ends
    <3>2. upload' \in [Uploads -> {Waiting} \cup UnderWay] /\ OnTheWay'
      BY <3>1, StageStep DEF Waiting
    <3> QED
      BY <1>3, <3>1, <3>2 DEF PutOriginal, PhotoInv, Types, Paired, Shown
  <2>3. CASE upload[r].picture \notin Corrupt
    <3>1. bucket' = bucket \cup {OriginalKey(upload[r].picture)}
      BY <1>3, <2>3 DEF PutOriginal
    <3>2. PICK x \in UnderWay :
            upload' = [upload EXCEPT ![r] = x] /\ x.at = "thumb" /\ x.picture = upload[r].picture
      BY <1>3, <2>1, <2>3, Moved DEF PutOriginal, PhotoInv
    <3>3. upload' \in [Uploads -> {Waiting} \cup UnderWay] /\ OnTheWay'
      BY <3>1, <3>2, StageStep
    <3>4. Paired'
      BY <3>1, KeysApart DEF PhotoInv, Paired
    <3> QED
      BY <1>3, <3>1, <3>3, <3>4 DEF PutOriginal, PhotoInv, Types, Shown
  <2> QED
    BY <2>2, <2>3
<1>4. ASSUME NEW r \in Uploads, PutThumb(r)
      PROVE  PhotoInv'
  <2>1. upload[r] \in UnderWay /\ OriginalKey(upload[r].picture) \in bucket
    BY <1>4, Underway DEF PhotoInv, OnTheWay, PutThumb, Doing
  <2>2. bucket' = bucket \cup {ThumbKey(upload[r].picture)}
    BY <1>4 DEF PutThumb
  <2>3. PICK x \in UnderWay :
          upload' = [upload EXCEPT ![r] = x] /\ x.at = "row" /\ x.picture = upload[r].picture
    BY <1>4, <2>1, Moved DEF PutThumb, PhotoInv
  <2>4. upload' \in [Uploads -> {Waiting} \cup UnderWay] /\ OnTheWay'
    BY <2>2, <2>3, StageStep
  <2>5. Paired'
    BY <2>1, <2>2, KeysApart DEF PhotoInv, Paired
  <2> QED
    BY <1>4, <2>2, <2>4, <2>5 DEF PutThumb, PhotoInv, Types, Shown
<1>5. ASSUME NEW r \in Uploads, UpdateRow(r)
      PROVE  PhotoInv'
  <2>1. upload[r] \in UnderWay /\ ThumbKey(upload[r].picture) \in bucket
    BY <1>5, Underway DEF PhotoInv, OnTheWay, UpdateRow, Doing
  <2>2. upload[r].owner \in Owners /\ upload[r].picture \in Pictures
    BY <2>1 DEF UnderWay
  <2>3. upload' \in [Uploads -> {Waiting} \cup UnderWay] /\ OnTheWay'
    BY <1>5, StageStep DEF UpdateRow, Ends, Waiting
  <2>4. avatarKey' \in [Owners -> SUBSET {ThumbKey(p) : p \in Pictures}] /\ Shown'
    BY <1>5, <2>1, <2>2 DEF UpdateRow, PhotoInv, Types, Shown
  <2> QED
    BY <1>5, <2>3, <2>4 DEF UpdateRow, PhotoInv, Types, Paired
<1>6. ASSUME NEW r \in Uploads, UploadBreaks(r)
      PROVE  PhotoInv'
  <2>1. upload' \in [Uploads -> {Waiting} \cup UnderWay] /\ OnTheWay'
    BY <1>6, StageStep DEF UploadBreaks, Ends, Waiting
  <2> QED
    BY <1>6, <2>1 DEF UploadBreaks, PhotoInv, Types, Paired, Shown
<1>7. ASSUME NEW u \in Owners, RemovePhoto(u)
      PROVE  PhotoInv'
  BY <1>7 DEF RemovePhoto, PhotoInv, Types, OnTheWay, Paired, Shown
<1> QED
  BY <1>0, <1>1, <1>2, <1>3, <1>4, <1>5, <1>6, <1>7 DEF ImagesNext

LEMMA InvShows == PhotoInv => PhotosShow
BY DEF PhotoInv, Types, Paired, Shown, PhotosShow, Served

\* A profile never points at a photo that is not served, and never at one whose
\* original is not kept, wherever uploads of any number of hosts break off.
THEOREM PhotosAlwaysShow == Spec => []PhotosShow
<1>1. Init => PhotoInv
  BY PhotosBegin DEF Init
<1>2. [Next]_outsideVars => [ImagesNext]_imageVars
  BY DEF Next, outsideVars, Events, BusyTime, Photos, News, Time
<1>3. PhotoInv /\ [Next]_outsideVars => PhotoInv'
  BY <1>2, PhotosKeep
<1> QED
  BY <1>1, <1>3, InvShows, PTL DEF Spec
==================================================================================
