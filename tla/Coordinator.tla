----------------------------- MODULE Coordinator -----------------------------
(***************************************************************************)
(* coordinator.book, the one path every booking takes: reserve the         *)
(* idempotency key, lease the hosts of a collective, re-read what is busy, *)
(* prepare, write the batch that arbitrates, settle the key, and the       *)
(* finally block. Each call runs in a Worker of its own; between any two   *)
(* awaits the others, the cron, the guests' holds and the lease timeouts   *)
(* move. A request in Faulty may also die at any await, lose a best-effort *)
(* write, or lose D1's answer to a batch that was applied.                 *)
(*                                                                         *)
(* The booking a call creates is named after the call. Time is counted in  *)
(* five-minute buckets for the calendar, and in calls received (clock) for *)
(* the rotation. One lifetime (24 h) of an idempotency key is modelled.    *)
(***************************************************************************)
EXTENDS BookingStore, Integers, Sequences, FiniteSets

CONSTANTS
  Requests,     \* calls of book; each names the booking it may create
  EventTypes,   \* ids of event types
  EventType,    \* the event_types row of each, with its resolved roster
  Weight,       \* team_members.rr_weight of each host
  Keys,         \* (Idempotency-Key header, guest email) pairs
  Scenarios,    \* what the requests may ask for, together
  External,     \* <<host, why>>: what a host's own set-up may hold against a time
  Faulty,       \* requests whose Worker, reads or best-effort writes may fail
  DayLength     \* buckets in a day

EventTypeRow ==
  [kind: {"personal", "round_robin", "collective"}, roster: Seq(Hosts),
   before: Nat, dur: Nat \ {0}, after: Nat, cap: Nat \cup {None}]

\* Why a host cannot be booked. taken: lock rows or holds; away: busy in a
\* connected calendar; closed: hours, horizon, notice or the day's cap;
\* absent: buildHostInputs skips a host with no user or availability row.
Whys == {"taken", "away", "closed", "absent"}

Call == [et: EventTypes, start: Buckets, key: Keys \cup {None}, hold: BOOLEAN]

\* bookingFootprint and intervalToBuckets: the meeting with its buffers.
Footprint(c) ==
  LET e == EventType[c.et]
  IN  (c.start - e.before) .. (c.start + e.dur + e.after - 1)

Roster(c) == {EventType[c.et].roster[i] : i \in DOMAIN EventType[c.et].roster}

ASSUME CoordinatorAssumption ==
  /\ Requests \subseteq Ids
  /\ None \notin Requests /\ None \notin Keys
  /\ Hosts \subseteq Nat
  /\ EventType \in [EventTypes -> EventTypeRow]
  /\ Weight \in [Hosts -> Nat \ {0}]
  /\ Scenarios \subseteq [Requests -> Call]
  \* Whatever a host has set up, only lock rows and holds make a time taken.
  /\ External \subseteq Hosts \X (Whys \ {"taken"}) /\ Faulty \subseteq Requests
  /\ DayLength \in Nat \ {0}
  /\ \A s \in Scenarios, r \in Requests : Footprint(s[r]) \subseteq Buckets /\ Roster(s[r]) # {}
  /\ \A e \in EventTypes : EventType[e].kind = "personal" => Len(EventType[e].roster) = 1

VARIABLES
  call,          \* call[r]: what request r asks for
  pc,            \* pc[r]: the await of book that r has reached
  seen,          \* seen[r]: <<host, why>> pairs the re-check found against hosts
  chosen,        \* chosen[r]: the participants prepareBooking settled on
  acquired,      \* acquired[r]: hosts whose lease r believes it holds
  committed,     \* the local of the same name
  settled,       \* idempotencySettled
  outcome,       \* what book told its caller
  result,        \* the booking it returned
  born,          \* born[r]: clock when r arrived, its `now`
  clock,         \* calls received so far
  leases,        \* leases[h]: the request holding the lease row of h's object
  idem,          \* the idempotency_keys rows
  lastAssigned,  \* the rr_assignments rows of the team
  holds,         \* requests whose guest holds the slot (slot_holds)
  jobs           \* calendar.sync messages sent to the queue

localVars == <<call, pc, seen, chosen, acquired, committed, settled, outcome, result, born, clock>>
sharedVars == <<leases, idem, lastAssigned, holds, jobs>>
vars == <<storeVars, localVars, sharedVars>>

Kind(r) == EventType[call[r].et].kind
Key(r) == call[r].key
\* The primary key of the row: (key, `booking:<event type>:<guest email>`).
Scope(r) == <<call[r].key, call[r].et>>
Scopes == Keys \X EventTypes
Team(r) == Roster(call[r])
Claim(r, H) == H \X Footprint(call[r])
DayOf(r) == call[r].start \div DayLength

\* `now` is milliseconds since 1970: a member never assigned (0) has been idle
\* longer than any member of any weight that was assigned.
Epoch == 1000

NoRow == [live |-> FALSE, hash |-> 0, response |-> None, by |-> None]
\* `by` is a history field: the request that last won the reservation.
Row(r, l, resp) == [live |-> l, hash |-> call[r].start, response |-> resp, by |-> r]

Init ==
  /\ StoreInit
  /\ call \in Scenarios
  /\ pc = [r \in Requests |-> "idle"]
  /\ seen = [r \in Requests |-> {}]
  /\ chosen = [r \in Requests |-> {}]
  /\ acquired = [r \in Requests |-> {}]
  /\ committed = [r \in Requests |-> FALSE]
  /\ settled = [r \in Requests |-> FALSE]
  /\ outcome = [r \in Requests |-> "none"]
  /\ result = [r \in Requests |-> None]
  /\ born = [r \in Requests |-> Epoch]
  /\ clock = Epoch
  /\ leases = [h \in Hosts |-> None]
  /\ idem = [s \in Scopes |-> NoRow]
  /\ lastAssigned = [h \in Hosts |-> 0]
  /\ holds = {}
  /\ jobs = {}

\* r moves from one await to the next.
At(r, here) == pc[r] = here
GoTo(r, there) == pc' = [pc EXCEPT ![r] = there]
\* r leaves the try block with this answer; the finally block is next.
Answer(r, what) ==
  /\ outcome' = [outcome EXCEPT ![r] = what]
  /\ GoTo(r, "finally")

-----------------------------------------------------------------------------
(* Idempotency: the compare-and-swap reservation (ADR-0002 4). *)

\* A collective of several hosts is leased before anything is read.
Entry(r) == IF Kind(r) = "collective" /\ Cardinality(Team(r)) > 1 THEN "lease" ELSE "busy"

Start(r) ==
  /\ At(r, "idle")
  /\ Bookable(Claim(r, Team(r)))
  /\ clock' = clock + 1
  /\ born' = [born EXCEPT ![r] = clock']
  /\ GoTo(r, IF Key(r) = None THEN Entry(r) ELSE "reserve")
  /\ UNCHANGED <<storeVars, call, seen, chosen, acquired, committed, settled, outcome, result, sharedVars>>

\* The upsert wins when there is no row or the row's expires_at has passed.
Reserve(r) ==
  /\ At(r, "reserve")
  /\ IF idem[Scope(r)].live
       THEN GoTo(r, "prior") /\ UNCHANGED idem
       ELSE /\ idem' = [idem EXCEPT ![Scope(r)] = Row(r, TRUE, None)]
            /\ GoTo(r, Entry(r))
  /\ UNCHANGED <<storeVars, call, seen, chosen, acquired, committed, settled, outcome, result, born, clock,
                 leases, lastAssigned, holds, jobs>>

\* Slip: the stored hash of the body is not compared.
ReplayAnyBody(r) ==
  LET row == idem[Scope(r)]
      replay == row.response # None
  IN  /\ At(r, "prior")
      /\ outcome' = [outcome EXCEPT ![r] = IF replay THEN "replayed" ELSE "policy"]
      /\ result' = [result EXCEPT ![r] = IF replay THEN row.response ELSE None]
      /\ GoTo(r, "done")
      /\ UNCHANGED <<storeVars, call, seen, chosen, acquired, committed, settled, born, clock, sharedVars>>

\* The loser reads the row in a second statement: another body, a settled
\* response to replay, or a placeholder.
ReadPrior(r) ==
  LET row == idem[Scope(r)]
      replay == row.hash = call[r].start /\ row.response # None
  IN  /\ At(r, "prior")
      /\ outcome' = [outcome EXCEPT ![r] = IF replay THEN "replayed" ELSE "policy"]
      /\ result' = [result EXCEPT ![r] = IF replay THEN row.response ELSE None]
      /\ GoTo(r, "done")
      /\ UNCHANGED <<storeVars, call, seen, chosen, acquired, committed, settled, born, clock, sharedVars>>

-----------------------------------------------------------------------------
(* The try block up to the write. *)

\* Unknown or inactive event type, or a read that throws: nothing is written.
Fail(r) ==
  /\ r \in Faulty
  /\ pc[r] \in {"lease", "busy", "locks", "holds", "hosts", "prepare", "commit"}
  /\ Answer(r, "failed")
  /\ UNCHANGED <<storeVars, call, seen, chosen, acquired, committed, settled, result, born, clock, sharedVars>>

\* Slip: leases in the order of the roster.
FirstOnRoster(r) ==
  LET roster == EventType[call[r].et].roster
  IN  {roster[i] : i \in {n \in DOMAIN roster :
         roster[n] \notin acquired[r] /\ \A m \in 1..(n - 1) : roster[m] \in acquired[r]}}

\* Leases are taken in ascending host id order ...
NextLease(r) == {h \in Team(r) \ acquired[r] : \A g \in Team(r) \ acquired[r] : h <= g}

Grant(r, h) ==
  /\ leases[h] \in {None, r}
  /\ leases' = [leases EXCEPT ![h] = r]

\* Slip: a refused lease returns past the finally block.
LeaveLeases(r, h) ==
  /\ leases[h] \notin {None, r}
  /\ outcome' = [outcome EXCEPT ![r] = "lease_failed"]
  /\ GoTo(r, "done")
  /\ UNCHANGED <<leases, acquired>>

Refuse(r, h) ==
  /\ leases[h] \notin {None, r}
  /\ Answer(r, "lease_failed")
  /\ UNCHANGED <<leases, acquired>>

\* ... one object at a time; a lease somebody else holds is refused at once.
AcquireLease(r) ==
  /\ At(r, "lease")
  /\ \E h \in NextLease(r) :
       \/ /\ Grant(r, h)
          /\ acquired' = [acquired EXCEPT ![r] = @ \cup {h}]
          /\ GoTo(r, IF acquired'[r] = Team(r) THEN "busy" ELSE "lease")
          /\ UNCHANGED outcome
       \/ Refuse(r, h)
  /\ UNCHANGED <<storeVars, call, seen, chosen, committed, settled, result, born, clock,
                 idem, lastAssigned, holds, jobs>>

\* The object grants the lease and its answer is lost: acquireLease throws, and
\* the finally block does not know of this host.
AcquireUnacknowledged(r) ==
  /\ At(r, "lease") /\ r \in Faulty
  /\ \E h \in NextLease(r) : Grant(r, h)
  /\ Answer(r, "failed")
  /\ UNCHANGED <<storeVars, call, seen, chosen, acquired, committed, settled, result, born, clock,
                 idem, lastAssigned, holds, jobs>>

\* buildHostInputs reads the lock rows over the footprint ...
Locked(r) == {h \in Team(r) : Conflict(Claim(r, {h}))}

\* Slip: the call's own hold is not excluded.
HeldByAnyone(r) ==
  {h \in Team(r) : \E o \in holds :
     h \in Team(o) /\ Footprint(call[o]) \cap Footprint(call[r]) # {}}

\* ... and, in the same Promise.all, the unexpired holds of other guests; ...
HeldByOthers(r) ==
  {h \in Team(r) : \E o \in holds \ {r} :
     h \in Team(o) /\ Footprint(call[o]) \cap Footprint(call[r]) # {}}

\* ... then the host's set-up, own calendars and number of bookings that day.
CappedOut(r) ==
  {h \in Team(r) : /\ EventType[call[r].et].cap # None
                   /\ Cardinality({b \in Requests \cap Confirmed : h \in chosen[b] /\ DayOf(b) = DayOf(r)})
                        >= EventType[call[r].et].cap}

Found(r, H, why) == seen' = [seen EXCEPT ![r] = @ \cup (H \X {why})]

ReadLocks(r) ==
  /\ pc[r] \in {"busy", "locks"}
  /\ Found(r, Locked(r), "taken")
  /\ GoTo(r, IF At(r, "busy") THEN "holds" ELSE "hosts")
  /\ UNCHANGED <<storeVars, call, chosen, acquired, committed, settled, outcome, result, born, clock, sharedVars>>

ReadHolds(r) ==
  /\ pc[r] \in {"busy", "holds"}
  /\ Found(r, HeldByOthers(r), "taken")
  /\ GoTo(r, IF At(r, "busy") THEN "locks" ELSE "hosts")
  /\ UNCHANGED <<storeVars, call, chosen, acquired, committed, settled, outcome, result, born, clock, sharedVars>>

ReadHosts(r) ==
  /\ At(r, "hosts")
  /\ \E found \in SUBSET (External \cap (Team(r) \X Whys)) :
       seen' = [seen EXCEPT ![r] = @ \cup found \cup (CappedOut(r) \X {"closed"})]
  /\ GoTo(r, "prepare")
  /\ UNCHANGED <<storeVars, call, chosen, acquired, committed, settled, outcome, result, born, clock, sharedVars>>

Against(r, h) == {why \in Whys : <<h, why>> \in seen[r]}
Present(r) == {h \in Team(r) : "absent" \notin Against(r, h)}
Valid(r) == {h \in Team(r) : Against(r, h) = {}}

\* failureReason: "taken" only where the footprint collides with busy time.
Reason(r, h) ==
  IF Against(r, h) \cap {"taken", "away"} # {} THEN "slot_taken" ELSE "outside"

\* pickRoundRobinHost: longest idle, scaled by weight, lowest id on a tie.
Score(r, h) ==
  IF lastAssigned[h] > born[r] THEN 0 ELSE (born[r] - lastAssigned[h]) * Weight[h]

IsPick(r, h, eligible) ==
  \A g \in eligible \ {h} :
    Score(r, h) > Score(r, g) \/ (Score(r, h) = Score(r, g) /\ h < g)

\* A collective needs every host, round robin picks among those left, a
\* personal event type has one host.
Participants(r, H) ==
  \/ Kind(r) = "round_robin" /\ \E h \in Valid(r) : H = {h} /\ IsPick(r, h, Valid(r))
  \/ Kind(r) # "round_robin" /\ H = Team(r) /\ Valid(r) = Team(r)

\* Round robin says "taken" only if every host that is there is busy; the others
\* report the first host that fails, and a host that is not there before that.
Refusal(r, why) ==
  IF Kind(r) = "round_robin"
    THEN /\ Valid(r) = {}
         /\ why = IF Present(r) # {} /\ \A h \in Present(r) : Reason(r, h) = "slot_taken"
                    THEN "slot_taken" ELSE "outside"
    ELSE LET roster == EventType[call[r].et].roster
         IN  \E i \in DOMAIN roster :
               /\ roster[i] \notin Valid(r)
               /\ \A j \in 1..(i - 1) : roster[j] \in Valid(r)
               /\ why = IF Present(r) = Team(r) THEN Reason(r, roster[i]) ELSE "outside"

Prepare(r) ==
  /\ At(r, "prepare")
  /\ \/ \E H \in SUBSET Team(r) :
          /\ Participants(r, H)
          /\ chosen' = [chosen EXCEPT ![r] = H]
          /\ GoTo(r, "commit")
          /\ UNCHANGED outcome
     \/ \E why \in {"slot_taken", "outside"} :
          Refusal(r, why) /\ Answer(r, why) /\ UNCHANGED chosen
  /\ UNCHANGED <<storeVars, call, seen, acquired, committed, settled, result, born, clock, sharedVars>>

-----------------------------------------------------------------------------
(* The write that arbitrates, and what follows it. *)

\* The awaits after the commit, each taken only when it applies.
\* (Slip: a call without a key skips what follows the settling.)
FinallyWithoutKey(r) == IF Key(r) # None THEN "settle" ELSE "finally"
AfterHold(r) == IF Key(r) # None THEN "settle" ELSE "effects"
AfterRotation(r) == IF call[r].hold THEN "unhold" ELSE AfterHold(r)
AfterCommit(r) == IF Kind(r) = "round_robin" THEN "rotate" ELSE AfterRotation(r)

CommitWins(r) ==
  /\ At(r, "commit")
  /\ CreateWithLocks(r, Claim(r, chosen[r]))
  /\ committed' = [committed EXCEPT ![r] = TRUE]
  /\ GoTo(r, AfterCommit(r))
  /\ UNCHANGED <<call, seen, chosen, acquired, settled, outcome, result, born, clock, sharedVars>>

CommitLoses(r) ==
  /\ At(r, "commit")
  /\ Conflict(Claim(r, chosen[r]))
  /\ Answer(r, "slot_taken")
  /\ UNCHANGED <<storeVars, call, seen, chosen, acquired, committed, settled, result, born, clock, sharedVars>>

\* The batch is applied and its answer lost: createWithLocks throws.
CommitUnacknowledged(r) ==
  /\ At(r, "commit") /\ r \in Faulty
  /\ CreateWithLocks(r, Claim(r, chosen[r]))
  /\ Answer(r, "failed")
  /\ UNCHANGED <<call, seen, chosen, acquired, committed, settled, result, born, clock, sharedVars>>

\* A best-effort write of r: done, or failed and swallowed when r is faulty.
Attempt(r, done, unchanged) == done \/ (r \in Faulty /\ unchanged)

\* Slip: the booking is recorded where its time belongs.
AssignRequest(r) ==
  /\ At(r, "rotate")
  /\ lastAssigned' = [lastAssigned EXCEPT ![CHOOSE h \in chosen[r] : TRUE] = r]
  /\ GoTo(r, AfterRotation(r))
  /\ UNCHANGED <<storeVars, call, seen, chosen, acquired, committed, settled, outcome, result, born, clock,
                 leases, idem, holds, jobs>>

RecordAssignment(r) ==
  /\ At(r, "rotate")
  /\ \E h \in chosen[r] :
       Attempt(r, lastAssigned' = [lastAssigned EXCEPT ![h] = born[r]], UNCHANGED lastAssigned)
  /\ GoTo(r, AfterRotation(r))
  /\ UNCHANGED <<storeVars, call, seen, chosen, acquired, committed, settled, outcome, result, born, clock,
                 leases, idem, holds, jobs>>

ReleaseOwnHold(r) ==
  /\ At(r, "unhold")
  /\ Attempt(r, holds' = holds \ {r}, UNCHANGED holds)
  /\ GoTo(r, AfterHold(r))
  /\ UNCHANGED <<storeVars, call, seen, chosen, acquired, committed, settled, outcome, result, born, clock,
                 leases, idem, lastAssigned, jobs>>

Settle(r) ==
  /\ At(r, "settle")
  /\ Attempt(r, idem' = [idem EXCEPT ![Scope(r)] = Row(r, TRUE, r)], UNCHANGED idem)
  /\ \E heard \in BOOLEAN :
       /\ heard => idem'[Scope(r)] = Row(r, TRUE, r)
       /\ ~heard => r \in Faulty
       /\ settled' = [settled EXCEPT ![r] = heard]
  /\ GoTo(r, "effects")
  /\ UNCHANGED <<storeVars, call, seen, chosen, acquired, committed, outcome, result, born, clock,
                 leases, lastAssigned, holds, jobs>>

\* Queue the calendar job, mail the parties and answer; the host lookup between
\* them is not guarded and may throw after the commit.
Effects(r) ==
  /\ At(r, "effects")
  /\ Attempt(r, jobs' = jobs \cup {<<"create", r>>}, UNCHANGED jobs)
  /\ \/ Answer(r, "ok") /\ result' = [result EXCEPT ![r] = r]
     \/ r \in Faulty /\ Answer(r, "failed") /\ UNCHANGED result
  /\ UNCHANGED <<storeVars, call, seen, chosen, acquired, committed, settled, born, clock,
                 leases, idem, lastAssigned, holds>>

-----------------------------------------------------------------------------
(* The finally block. *)

\* Slip: the release is repeated until it finds its own row.
ReleaseOwnRow(r) ==
  /\ At(r, "finally")
  /\ \E h \in acquired[r] :
       /\ leases[h] = r /\ \A g \in acquired[r] : h <= g
       /\ acquired' = [acquired EXCEPT ![r] = @ \ {h}]
       /\ leases' = [leases EXCEPT ![h] = None]
  /\ UNCHANGED <<storeVars, call, pc, seen, chosen, committed, settled, outcome, result, born, clock,
                 idem, lastAssigned, holds, jobs>>

\* releaseLease deletes the row only if it still carries this lease id.
ReleaseLease(r) ==
  /\ At(r, "finally")
  /\ \E h \in acquired[r] :
       /\ \A g \in acquired[r] : h <= g
       /\ acquired' = [acquired EXCEPT ![r] = @ \ {h}]
       /\ Attempt(r, leases' = [leases EXCEPT ![h] = IF @ = r THEN None ELSE @], UNCHANGED leases)
  /\ UNCHANGED <<storeVars, call, pc, seen, chosen, committed, settled, outcome, result, born, clock,
                 idem, lastAssigned, holds, jobs>>

\* An unsettled key: release the placeholder if nothing was committed, repair
\* the record if something was.
\* (Slips: what was committed is forgotten; the upsert keeps the old expiry.)
ReleaseAlways(r) == idem' = [idem EXCEPT ![Scope(r)] = Row(r, FALSE, None)]
KeepExpiry(r) == idem' = [idem EXCEPT ![Scope(r)] = Row(r, TRUE, IF committed[r] THEN r ELSE None)]

CloseKey(r) ==
  idem' = [idem EXCEPT ![Scope(r)] = IF committed[r] THEN Row(r, TRUE, r) ELSE Row(r, FALSE, None)]

Finish(r) ==
  /\ At(r, "finally") /\ acquired[r] = {}
  /\ IF Key(r) # None /\ ~settled[r] THEN Attempt(r, CloseKey(r), UNCHANGED idem) ELSE UNCHANGED idem
  /\ GoTo(r, "done")
  /\ UNCHANGED <<storeVars, call, seen, chosen, acquired, committed, settled, outcome, result, born, clock,
                 leases, lastAssigned, holds, jobs>>

-----------------------------------------------------------------------------
(* Everybody else. *)

\* The Worker is evicted: nothing after this await runs, not even finally.
Crash(r) ==
  /\ r \in Faulty /\ pc[r] \notin {"idle", "done", "dead"}
  /\ GoTo(r, "dead")
  /\ UNCHANGED <<storeVars, call, seen, chosen, acquired, committed, settled, outcome, result, born, clock, sharedVars>>

\* Fifteen seconds: a stalled or dead holder loses its lease.
LeaseExpires(h) ==
  /\ leases[h] # None
  /\ leases' = [leases EXCEPT ![h] = None]
  /\ UNCHANGED <<storeVars, localVars, idem, lastAssigned, holds, jobs>>

\* A guest holds the slot while filling the form, and may leave.
PlaceHold(r) ==
  /\ call[r].hold /\ At(r, "idle") /\ r \notin holds
  /\ holds' = holds \cup {r}
  /\ UNCHANGED <<storeVars, localVars, leases, idem, lastAssigned, jobs>>

HoldExpires(r) ==
  /\ r \in holds
  /\ holds' = holds \ {r}
  /\ UNCHANGED <<storeVars, localVars, leases, idem, lastAssigned, jobs>>

\* A guest, host or agent cancels (module Lifecycle has the routes).
Cancel(b) ==
  /\ b \in Confirmed
  /\ CancelWithLockRelease(b)
  /\ UNCHANGED <<localVars, sharedVars>>

\* The cron trails now by a week; no call lasts that long.
Prune(t) ==
  /\ \A r \in Requests : pc[r] \notin {"idle", "done", "dead"} =>
       \A x \in Footprint(call[r]) : x >= t
  /\ PruneLocksBefore(t)
  /\ UNCHANGED <<localVars, sharedVars>>

Step(r) ==
  \/ Start(r) \/ Reserve(r) \/ ReadPrior(r)
  \/ AcquireLease(r) \/ ReadLocks(r) \/ ReadHolds(r) \/ ReadHosts(r) \/ Prepare(r)
  \/ CommitWins(r) \/ CommitLoses(r) \/ RecordAssignment(r) \/ ReleaseOwnHold(r)
  \/ Settle(r) \/ Effects(r) \/ ReleaseLease(r) \/ Finish(r)

Surroundings ==
  \/ \E r \in Requests :
       \/ Fail(r) \/ AcquireUnacknowledged(r) \/ CommitUnacknowledged(r) \/ Crash(r)
       \/ PlaceHold(r) \/ HoldExpires(r)
  \/ \E h \in Hosts : LeaseExpires(h)
  \/ \E t \in Buckets : Prune(t)

Environment == Surroundings \/ \E b \in Requests : Cancel(b)

Next == (\E r \in Requests : Step(r)) \/ Environment

\* A Worker keeps executing a request it has started. Nobody is obliged to
\* call, hold or cancel, and no timeout is counted on.
Fairness == \A r \in Requests : WF_vars(pc[r] # "idle" /\ Step(r))

Spec == Init /\ [][Next]_vars
FairSpec == Spec /\ Fairness

-----------------------------------------------------------------------------
(* Properties. *)

Pcs == {"idle", "reserve", "prior", "lease", "busy", "locks", "holds", "hosts", "prepare",
        "commit", "rotate", "unhold", "settle", "effects", "finally", "done", "dead"}
Outcomes == {"none", "ok", "replayed", "policy", "lease_failed", "slot_taken", "outside", "failed"}
IdemRow == [live: BOOLEAN, hash: Buckets \cup {0}, response: Requests \cup {None}, by: Requests \cup {None}]

CoordinatorTypeOK ==
  /\ StoreTypeOK
  /\ call \in Scenarios
  /\ pc \in [Requests -> Pcs]
  /\ seen \in [Requests -> SUBSET (Hosts \X Whys)]
  /\ chosen \in [Requests -> SUBSET Hosts]
  /\ acquired \in [Requests -> SUBSET Hosts]
  /\ committed \in [Requests -> BOOLEAN]
  /\ settled \in [Requests -> BOOLEAN]
  /\ outcome \in [Requests -> Outcomes]
  /\ result \in [Requests -> Requests \cup {None}]
  /\ born \in [Requests -> Nat]
  /\ clock \in Nat
  /\ leases \in [Hosts -> Requests \cup {None}]
  /\ idem \in [Scopes -> IdemRow]
  /\ lastAssigned \in [Hosts -> Nat]
  /\ holds \subseteq Requests
  /\ jobs \subseteq {"create", "update", "delete"} \X Requests

\* reserve is a compare-and-swap because "two requests with the same key both
\* ... go on to create a real booking" otherwise: of the calls that carry one
\* key, at most one ever gets past the write, whichever fail, die or retry.
OneBookingPerKey ==
  \A a, b \in Requests :
    committed[a] /\ committed[b] /\ Key(a) # None /\ Scope(a) = Scope(b) => a = b

\* A replay returns the booking that this key, guest, event type and time made,
\* never one that the same key made for another time.
ReplayTruthful ==
  \A r \in Requests : outcome[r] = "replayed" =>
    /\ result[r] \in Requests /\ committed[result[r]]
    /\ Scope(result[r]) = Scope(r) /\ call[result[r]].start = call[r].start

\* "Every exit must release it unless it was settled". Whatever throws, fails to
\* be written or dies, the key of a call that has booked is never free again, and
\* never replays but the booking of the call that holds it; and a call that ran to
\* its end with nothing lost leaves its key free if it booked nothing and
\* replayable if it booked.
KeyClosedTruly ==
  /\ \A r \in Requests : Key(r) # None /\ committed[r] => idem[Scope(r)].live /\ idem[Scope(r)].by = r
  /\ \A s \in Scopes : idem[s].response # None =>
       idem[s].response = idem[s].by /\ committed[idem[s].by]
  /\ \A s \in Scopes : idem[s].by # None /\ idem[s].by \notin Faulty /\ pc[idem[s].by] = "done" =>
       /\ idem[s].live <=> committed[idem[s].by]
       /\ committed[idem[s].by] => idem[s].response = idem[s].by

\* Somebody's booking, or an event in a host's own calendar, covers part of
\* what r asked for. (A faulty call may book and not know it.)
TakenForReal(r) ==
  \/ \E b \in Requests \ {r} :
       (committed[b] \/ b \in Faulty) /\ claim[b] \cap Claim(r, Team(r)) # {}
  \/ \E h \in Team(r) : "away" \in Against(r, h)

\* A guest is told "taken" only for a reason somebody else gave: a booking, an
\* event, or another guest's hold, and never for the guest's own hold.
TakenIsTrue ==
  \A r \in Requests : outcome[r] = "slot_taken" =>
    \/ TakenForReal(r)
    \/ \E o \in Requests \ {r} : call[o].hold /\ Team(o) \cap Team(r) # {}
                                 /\ Footprint(call[o]) \cap Footprint(call[r]) # {}

\* 0001_initial.sql: a hold "suppresses a slot in listings but never blocks a
\* booking that wins the race". The code does not keep this: run holds.
HoldsAreAdvisory == \A r \in Requests : outcome[r] = "slot_taken" => TakenForReal(r)

\* coordinator.ts: without the count "concurrent bookings on a capped day would
\* all commit": with it, no day of a host has more bookings of an event type
\* than its cap. The code does not keep this: run daycap.
CapRespected ==
  \A h \in Hosts, a \in Requests \cap Confirmed :
    h \in chosen[a] /\ EventType[call[a].et].cap # None =>
      Cardinality({b \in Requests \cap Confirmed :
                     h \in chosen[b] /\ call[b].et = call[a].et /\ DayOf(b) = DayOf(a)})
        <= EventType[call[a].et].cap

\* "Ascending host id order makes deadlock impossible", and the loser is told
\* lease_failed at once: however leases, locks and keys cross, calls never
\* refuse one another until nobody has the time. (test/workers/booking-race:
\* "exactly one of five concurrent attempts on the same slot wins".)
SomeoneWins ==
  (/\ \A r \in Requests : pc[r] = "done"
   /\ \A r \in Requests : outcome[r] \in {"ok", "replayed", "policy", "lease_failed", "slot_taken"}
   /\ \A r \in Requests : \A h \in Team(r) : Against(r, h) \subseteq {"taken"})
  => Existing # {}

\* A call that ran to its end holds no lease, also when it was refused half way
\* along the hosts of a collective.
LeasesReturned ==
  \A h \in Hosts : leases[h] # None /\ pc[leases[h]] = "done" => leases[h] \in Faulty

\* Whatever the others do, a call that has started comes to its end ...
EveryCallAnswers ==
  \A r \in Requests : pc[r] \notin {"idle", "done", "dead"} ~> pc[r] \in {"done", "dead"}

\* ... and a booking is sent to the hosts' calendars unless its Worker fails.
BookingReachesQueue ==
  \A r \in Requests \ Faulty : committed[r] ~> <<"create", r>> \in jobs
=============================================================================
