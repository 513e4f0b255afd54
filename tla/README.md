# APOLLO-booking: a verification project

APOLLO-booking is a scheduling service on Cloudflare Workers: guests book
hosts' time through a public page, a REST API or an MCP server; a Durable Object
per host, a D1 database, KV, R2, a queue and a cron do the rest. This directory
holds TLA+ modules of the parts where concurrent requests, stale reads, crashes and
retries meet, TLC configurations that check them on small instances, and proofs,
checked by TLAPS, of the properties that matter most.

Paths below are relative to the root of the repository.

## 1. Inventory

| Part | State | Operations | Talks to | Hard behaviour | What makes it correct |
|---|---|---|---|---|---|
| Booking store (`src/adapters/d1/repositories.ts`, `migrations/0001_initial.sql`) | `bookings`, `slot_locks`, `slot_holds` | `createWithLocks`, `cancelWithLockRelease`, `markRescheduled`, `pruneLocksBefore`, holds | called by everything | any interleaving of atomic batches; unconditional DELETE beside a conditional UPDATE | no double booking; locks and statuses agree; a fate is sealed once |
| Coordinator (`src/adapters/coordinator.ts`, `src/core/domain/booking-service.ts`) | locals of each call; `idempotency_keys`, `rr_assignments` | `book`, `hold`, `releaseHold`, `lease`, `releaseLease` | store, host objects, calendars, queue, mail | a dozen awaits per call, each may throw or be the last; retries with one key; leases over several objects; stale reads | one booking per key, truthful answers, leases returned, somebody wins |
| Cancel and reschedule routes (`src/http/api/rest.ts`, `src/http/mcp/server.ts`, `src/http/dashboard-routes.ts`) | locals of each request | cancel and reschedule on three surfaces | coordinator, store, queue, mail | tabs, agents and retries on one booking; a crash between two writes | a meeting survives its move, one winner, no orphan |
| Notifications and invitations (`src/adapters/notify.ts`, `src/core/ics.ts`) | the guest's calendar and mailbox, outside | created, cancelled, rescheduled; manage links | mail, queue | chains of moves read off replicas; mails lost, repeated, reordered | one UID per chain, SEQUENCE grows, one story is told |
| Host object (`src/do/host-calendar.ts`) | `holds`, `lease`, alarm | `createHold`, `releaseHold`, `acquireLease`, `releaseLease`, `alarm` | coordinator, D1 | one alarm for two kinds of rows; evictions; late releases | a lease excludes, nothing outlives its time for long |
| Cron (`src/adapters/scheduled.ts`) | none | expire holds, prune locks, reminders, telemetry | store, queue | late, skipped, repeated ticks | reminders exactly once; pruning never frees live time |
| Calendar sync (`src/adapters/queue/consumer.ts`) | `external_event_ids_json`; the queue | create, update, delete jobs | providers | at-least-once delivery, reordering, read-call-write on a map | no phantom and no missing event |
| Mails and webhooks (`src/adapters/notify.ts`, `src/adapters/queue/`) | `webhooks`; the queue | register, notify, deliver in batches | subscribers' endpoints, mail services | one bad endpoint among others; retries; a queue that is not configured | what was handed over arrives |
| Calendar providers (`src/adapters/google`, `src/adapters/microsoft`, `src/engine.ts`, `src/adapters/cache/kv.ts`) | `calendar_connections`, KV entries | connect, choose, query, cache | Google, Microsoft | errors per calendar, bitmaps, chunks, a cache | busy time is not taken for free |
| OAuth refresh (`src/adapters/oauth.ts`) | encrypted tokens | refresh, persist, retry on 401 | providers | two Workers refresh one rotating token | the stored pair is usable |
| Slot engine (`src/core/slots`, `src/core/time`, `src/engine.ts`) | none | list slots, validate one | store, calendars | time zones, buffers, rounding, ranges that cut windows | what is listed can be booked; listings agree |
| Pages (`src/http/router.ts`, `src/http/pages/booking.ts`) and listings over REST and MCP | none; the URL | month, day, form, answer, picker | slot engine | the owner's months against the visitor's days | what one page links the next one has |
| Accounts (`src/core/domain/auth-flows.ts`, `auth-service.ts`) | `users`, `sessions`, `magic_link_tokens`, `api_keys` | sign in, slide, revoke, promote and demote | D1 and its replicas | check-then-write races, single use, bookmarks | a link is used once; never no admin; a save is seen; a revocation holds |
| Dashboard (`src/http/dashboard-routes.ts`) | `availability_schedules`, slugs, `teams`, `team_members`, `event_types`, `avatar_key` and R2 | forms that read, check and write | D1, R2 | two forms at once, a form and a login, uploads that break off | hours stand, addresses resolve, teams are manned, photos show |
| Rate limiter (`src/do/rate-limiter.ts`) | token buckets, alarm | consume, alarm | routes | fractional refill, sweep | no more than the limit plus refill |
| Markup, templates, styles, social images, crypto, wire formats | none | | | little | not modelled, see section 7 |

How a booking travels: a page lists slots, and its form calls `book()`; `book()`
reserves the key in D1, takes leases from the hosts' objects, reads locks, holds
and calendars, prepares, and commits one D1 batch; it then settles the key, sends a
job to the queue and mails. A reschedule is a `book()` followed by
`markRescheduled`; if that finds the old booking no longer confirmed, the new one
is cancelled again. The queue consumer, the alarms and the cron run on their own.

## 2. Plan

| Order | Module | Composes | Status |
|---|---|---|---|
| 1 | `Calendar` | (abstract promise) | done |
| 2 | `BookingStore` | refines `Calendar` | done, proved with `Coordinator` |
| 3 | `Coordinator`, `CoordinatorProofs` | extends `BookingStore`, whose steps it takes | done, proved |
| 4 | `Lifecycle`, `LifecycleProofs` | extends `Coordinator` | done, proved |
| 5 | `CalendarSync` | the jobs the two above send, providers, the id map | done, proved with `Outside` |
| 6 | `Clock`, `HostCalendar` | holds, lease, alarm, mirror in D1 | done, proved with `Clockwork` |
| 7 | `Reminders`, `RateLimiter`, `Tokens`, then `Clockwork`, `ClockworkProofs` | one clock with `HostCalendar` | done, proved |
| 8 | `SignIn`, `Places`, `Desk`, then `Accounts`, `AccountsProofs` | who is who, where, and for how long | done, proved |
| 9 | `Zone`, `ZoneProofs`, `Slots`, `SlotsProofs` | listing against commit | done, proved |
| 10 | `Invitations`, `Pages`, then `Meetings`, `MeetingsProofs` | what a guest holds and sees, with `BookingStore` | done, proved |
| 11 | `FreeBusy`, `Images`, `Deliveries`, then `Outside`, `OutsideProofs` | what lives outside D1, with `CalendarSync` | done; all but the liveness proved |

Every invariant and action property that a run checks is proved; what TLC alone answers for is liveness (section 6).
Next would come parts of the map that are thin: a booking's end seen from the dashboard's lists, and a second
change of a zone's offset within one listing.

## 3. Modules and how they correspond to the code

### The booking itself

**`Calendar`** is the abstract promise: a booking comes to life over cells
(host, five-minute bucket) that no live booking covers, keeps them while it lives,
and does not come back. Its two variables are what a guest can observe.

**`BookingStore`** has the two arbitrating tables. `status`, `claim` and
`rescheduledTo` are columns of `bookings` (`claim` stands for the bucket list handed
to `createWithLocks` with the row), `slotLocks` is the table with its primary key
(host, bucket), `cutoff` is the argument of the last prune. One action per
statement or batch: a D1 batch is atomic, and the conflict case of
`createWithLocks` (rollback, `null`) changes nothing. `CalendarKept` maps the
statuses onto the phases of `Calendar`.

**`Coordinator`** is `book()`. `pc[r]` is the await a call has reached; every action
runs from one await to the next, so everything between two awaits is atomic, as in
the JavaScript it models.

| pc | code (`src/adapters/coordinator.ts`) | actions |
|---|---|---|
| `reserve`, `prior` | 55-87: the upsert and, for the loser, the read of the row | `Reserve`, `ReadPrior` |
| `lease` | 112-121 | `AcquireLease` (`Grant` or `Refuse`), `AcquireUnacknowledged` |
| `busy`, `locks`, `holds` | 378-381, the two halves of one `Promise.all` in either order | `ReadLocks`, `ReadHolds` |
| `hosts` | 384-430, users, availability, calendars, the day's count | `ReadHosts` |
| `prepare` | 141-186 and `prepareBooking` | `Prepare` |
| `commit` | 189-198 | `CommitWins`, `CommitLoses`, `CommitUnacknowledged` |
| `rotate`, `unhold`, `settle`, `effects` | 202-262 | `RecordAssignment`, `ReleaseOwnHold`, `Settle`, `Effects` |
| `finally` | 263-298 | `ReleaseLease` (one per host), `Finish` |

`ReadHosts` takes the reads of all hosts as one step where the code goes host by host;
the two reads that arbitrate, of locks and of holds, are steps of their own. A call
asks for times the cron has not pruned yet (`Bookable`): the code refuses starts in
the past, the prune stays a week behind.

The other locals have the names of the code (`acquired`, `committed`, `settled`
for `idempotencySettled`, `born` for `now`). `seen` collects what the re-check found
against each host; `chosen` is whom `prepareBooking` settled on. `idem` is the
table of keys: `live` says that `expires_at` lies ahead, `hash` stands for the
request hash, `response` for the booking id in `response_json`; `by` is a history
field that names the request that wrote last. Requests in `Faulty` may throw at a
read, lose a best-effort write, lose the answer of an applied write or die at any
await; the others run to their end but at any speed, so their leases may expire
under them.

**`Lifecycle`** puts the routes around it. `stage[a]` is the await of act `a` (a move
or a cancel): the read of the booking with its status check (`Look`), `book()` itself
(`BookStep`), `markRescheduled` (`MarkOld`), the take-back of what was just booked
(`TakeBack`), the delete job (`Unsync`, `Drop`), and `CancelNow`. The REST, MCP and
guest handlers have these awaits in the same order; they differ in who is mailed and
in that only REST passes an Idempotency-Key on, which is what the scenarios of run
`retry` use and those of run `moves` leave out.

**`Invitations`** follows the same handlers from the guest's side. `rows` are the
bookings of one meeting in commit order, each with its place in the reschedule chain
and whether its manage link still opens it; a handler reads (`Look`), ends the old
booking (`CancelIt`, `MarkMoved`) or takes its own back (`Undo`), rotates the
token when it serves the guest (`Rotate`), and mails (`Mail`). `LoadChain` is the walk of
`notify.ts` over a replica that has the first rows only, at most `MaxHops` reads;
`IcsUid` and `IcsSequence` are those of `ics.ts`. `mails` is what was handed to the queue:
any of it may arrive any number of times, in any order, or never. `calendar` is the
guest's client, which by RFC 5546 ignores a lower SEQUENCE than the one it has. Mails
arrive while no handler is between two awaits (`Quiet`): handlers do not read the guest's
calendar and `mails` only grows, so each delivery commutes with the steps of a handler
and every order of deliveries is still there.

**`Pages`** is a visit: the month grid, a day of the visitor's, the form, the answer,
the "just taken" page and the manage page's picker, and the listings of REST and MCP.
The server keeps nothing of a visit; `visitor` is the URL and what that page showed,
`site` the event type as it is by then. What is bookable is a set of starts, which
`Slots` and `Coordinator` account for; here the months are the owner's, the dates the
visitor's, and each page computes its own part of the set.

**`Meetings`** puts `BookingStore`, `Invitations` and `Pages` side by side.

### Time

**`HostCalendar`** is the Durable Object: `held`, `lease` and `alarm` are its storage,
`rows` the mirror in `slot_holds`. A method runs alone except while it awaits D1, which
only `alarm` (`AlarmFires`, then `AlarmMirrors`) and `releaseHold` (`LeaveHold`, then
`LeaveRows`) do; `Scheduled` or `Evicted` ends the methods that arm the alarm. Calls of
`releaseLease` may come arbitrarily late.

**`Reminders`** is the cron's loop over two leads: `AskDue` is `dueBetween`, `Remind` one mail,
`RemindFails` the exception that ends the task. **`RateLimiter`** counts in credits so that
the fractional refill stays integral. **`Tokens`** has `ensureAccessToken` and
`providerFetch` for calls that each hold a copy of the row; `rotation` is what refreshing
does at this provider. **`Clockwork`** runs the four of them under one `Clock`.

### People, places, sessions

**`SignIn`** has the requests that redeem a link, find or create a user, fill in hours and
open a session (`Redeem`, `Find`, `CountUsers`, `CreateUser`, `Backfill`, `CreateSession`),
the role forms, the sign-up policy, and the two statements in which hours and timezone are saved.
**`Places`** has slugs (two tables, one namespace), teams and their members, and event
types, from the dashboard's forms and the API; each form reads and checks first
(`Open...`, `Claim`, `NewListing`, `ApiPost`) and writes later, where a UNIQUE index or a
guarded statement decides. A replica that lags is a lookup that misses what another form
is writing (`MayPass`). **`Desk`** is one host at the dashboard over D1 replicas: `log`
is the sequence of committed states, a replica a prefix of it and a bookmark the length of
one; `Enter` to `Advance` are `requireSession`, the handler's reads and writes, and
`advanceBookmark`. Calls with a key look it up in the mode of the request; those that only read
leave nothing behind and are left out. **`Accounts`** puts the three side by side.

### What is offered

**`Zone`** is `core/time/zone.ts` in a zone with one change of its offset; **`Slots`** reads one calendar
twice: `ComputeSlots` over a range, as the booking page, REST and MCP do, and
`IsSlotStillValid` with `Accepted` for one start, as the commit path does. Both build on the same
interval operators, because the code does; what they load, and for which range, differs.

### Outside D1

**`CalendarSync`** takes over where the routes send a job (`jobs` there, `sent` here).
`ids` is the JSON map in the booking row, `events` what really is on the calendars,
and `work[w]` the locals of one run of `syncCalendar`: `snap` the map as it was read,
`made` the code's `createdIds`, `todo` the rest of the loop. An id is the number of the
delivery that made it, so that a second event of one booking has another id.
`ReadBooking` (100-107), `List` (112-124), one call of a provider per connection
(`Succeeds`, `Refused`, `ProviderFails`, 125-178) and `Save` (182-196) are its awaits.
`List` reads the connections of all hosts in one step where the code reads them host
by host: what matters, that the list may be stale when a provider is called, remains.
The guard against redelivery and the one against an absent id test what `ReadBooking`
read, so both are in the choice of `todo` (`Wanted`).

**`FreeBusy`** is one connection from the moment it is made: which calendars are asked
(`partitionConnections`, chunks), what Google's intervals and Microsoft's details or bitmap
say (`Detail`, `Bitmap`), `Throw` where a provider reports an error, the KV entry for
listings and the fresh read of the commit path. **`Images`** is an upload, put by put.
**`Deliveries`** is the other two kinds of message: `NotifyWebhooks` hands them over (or, with
no queue bound, sends them inside the request), `TakeBatch`, `HandleOne` and `BatchFails` are
the consumer and Queues. **`Outside`** puts the four side by side.

### Parts side by side

`Meetings`, `Clockwork`, `Accounts` and `Outside` each hold components that share no
variable but the clock, so no step of one enables, disables or changes a step or a property of
another. Their variable `part`, fixed in the initial state, says which of them a behaviour follows;
the others rest. Each property reads the variables of one part (`NobodyLockedOut` is a
conjunction of one invariant from each of two), so what holds of every part alone holds of their product, and the
product itself would only multiply states. Where components do share state they are
composed for real: `Coordinator` on `BookingStore`, `Lifecycle` on `Coordinator`, the
parts of `HostCalendar` with each other.

**`MC...`** modules only give values to constants. Definitions whose comment starts
with "Slip" or "A mutant" are plausible mistakes in the code they precede; they are not part of
any specification and show, put in the place of the definition, that the property
they are paired with in `PROJECT.json` notices.

## 4. Runs

| Run | Instance | States | What it shows |
|---|---|---|---|
| `store` | 3 bookings, 2 hosts, 2 buckets, any legal call at any time; a meeting of 3 bookings, 2 requests; 3 zones, 6 months | 709,688 | the tables' invariants and their refinement of `Calendar`; `CalendarFollows`, `ToldTheSame`, `LinkOutlives`: what the guest holds; `PagesAgree`: what a visitor is shown; `AnswersAgree`: what an agent is told |
| `keys` | 3 calls, 2 hosts, 2 buckets, one key, one faulty call | 815,029 | one booking per key, truthful replays, keys that every exit leaves as it should, truthful "taken" |
| `teams` | 2 calls, 2 hosts, crossed rosters, one faulty call | 99,334 | nobody refuses each other to death, leases come back, every call ends, bookings reach the queue |
| `moves` | 1 booking, 2 moves (one faulty), 2 cancels (one faulty) | 224,946 | the meeting survives, one winner, calendars told, no orphan |
| `holds` | 2 guests with holds on one slot | | **violated**: a hold blocks a booking |
| `daycap` | 2 calls, cap 1 | | **violated**: both commit |
| `retry` | 1 booking, a keyed move and its retry | | **violated**: the retry ends with no meeting at all |
| `sync` | 1 booking on 2 calendars, 1 consumer, 2 deliveries of each job, every outage; 1 connection, 2 calendars; 2 uploads of 3 pictures; 2 webhooks | 271,178 | one event while it stands, none after, deletes arrive; `BusyIsSeen`; `PhotosShow`; `OthersHear` |
| `phantom` | 1 booking on 1 calendar, 2 consumers, no outage | | **violated**: an event stays on the calendar of a cancelled booking |
| `clockwork` | 2 holds, 2 lessees, 2 meetings, limit 2, 2 callers, every fault | 651,041 | a lease excludes, holds go in the end, one reminder, the bucket's rate, a refresh token that works |
| `accounts` | 2 people, 2 links, 2 zones, 2 slugs, 2 event types, 1 team, 2 requests | 1,041,256 | an admin and a member always remain, one session per link, hours stand, addresses resolve, saves are seen, revocations hold |
| `slots` | 4 event types, 2 hosts, 5 ranges, 18 starts, one booking | 3,736 | what is listed can be booked, listings agree, wall clocks resolve |

States are the distinct states TLC finds, symmetry counted once. The type invariants
are not in the runs: those that a proof rests on are proved with it, as parts of its
inductive invariant (section 5).

**Bounds.** Three calls are enough for the key: two that race and a third whose
booking interferes with both. Two buckets let a meeting overlap another in part,
two hosts let a collective cross another and a round robin fall back. A third
bucket in `moves` lets two moves go to different times or to the same one. `clock` of
`Coordinator` is bounded by the number of calls, one lifetime of a key is modelled (the code's 24
hours; no call lasts that long), every request is made at most once, and the cron
prunes at bucket boundaries only. `DayLength` 10 puts everything on one day, where
the cap bites. Deadlock is not checked because a finished system stops.

In the `guest` part of `store`, three bookings are a first one and two moves, one after the other or
crossed, and `MaxHops` 1 (20 in the code) puts the limit of the walk inside those bounds. In
its `pages` part a day has two minutes and a month two or three days, so that four starts lie on both sides
of a day's edge and of a month's; zones are up to a day apart, one is put
forward among the starts, and at most two starts are free at once, which lets one go while
another of the same day stays.

In `sync`, jobs of different bookings meet only in `sync_status`, which any job may set;
two connections let one fail while the other works; two deliveries give every job
either a retry or a duplicate. One consumer is what the passing run needs, and nothing in
`wrangler.toml` enforces: with two, `phantom` shows what happens, and the same configuration
with `MaxDeliveries` 2 violates `EventForEach` in 13 states: two deliveries of one create job at work at once both find the id map empty. `NoPhantom` and `EventForEach` speak of connections
no call of which went wrong (`Sound`): a delete the provider refused is not retried,
and a consumer that dies between `createEvent` and the save makes a second event when
the job comes again. Both are in the code, both are left standing in the model, and
`lost` remembers where. For busy time, one reader at a time is enough, since readers
meet in the cache only; a query takes less than a tick, so a host who edits while a query
runs does so between its chunks. Three edits let a host connect, change an
event and change the choice. One item of news and one retry (`wrangler.toml`: 5) let a batch fail, or a
message, and come again; the property asks for fewer failing batches than tries.

In `clockwork` time ends at 3 and the longest delay is 2, and nothing is granted
that would run out later. In `accounts` two requests race and the third party is a row; `MaxLog` 5
commits are a slide, a save, its bookmark, a sign-out or revocation, and one more. In `slots` a day has six buckets
of two minutes, weeks alternate two days, offsets change by a bucket either way in the middle
of the range, once from midnight itself, meetings of outside calendars lie off the grid, and the longest event type takes a day and a half (the code's limit).

**Symmetry** is used in `store` and `accounts`, where all properties are invariants or an action
property and the permuted sets enter the constants only whole: a permutation of a behaviour is a behaviour.

**Fairness.** A Worker keeps executing the request it has started: weak fairness on the
steps of a call after its first await, and on the awaits of a route handler.
The queue delivers again what was not acknowledged, and a consumer runs its delivery
to the end or fails (`SyncFairness`, `DeliveriesFairness`). Time passes, the runtime fires an alarm that is due and
tries its handler again, and Cloudflare's cron comes round (`Clockwork`'s `Fairness`). Nobody is
obliged to call, cancel, hold or prune, and faults may or may not happen. No strong fairness is used.

**Findings.** The four violated runs are disagreements between the code and its own
comments, described with the lines in `PROJECT.json`. `retry` is the serious one: the
replay of an idempotent reschedule and its take-back step are each right alone, and
together cancel the only meeting. `daycap` needs two guests within one round trip.
`phantom` needs a cancel while its create job is between two awaits and a second
consumer invocation. `holds` concerns callers of the coordinator port's `hold`: no route calls it yet, the
public form already passes a hold id on.

**What the properties leave out.** Each exception in a property is a behaviour of
the code that a maintainer may want to look at:

* `CalendarFollows` (`Orderly`): a second move read off a replica that lags behind the first gets
  a UID of its own, as does the 22nd move; a duplicate left by a mover that died, and cancelled
  later by a host, sends a CANCEL under the chain's UID with a higher SEQUENCE, which takes the
  standing meeting off the guest's calendar. `ToldTheSame` (`brokenOff`): a mover that dies after
  `markRescheduled` tells nobody, and the guest has no working link.
* `LinkOutlives` is about the guest's routes: REST and MCP never rotate the token, and their old
  links are stopped by the status check alone.
* `PagesAgree` (`PagesAssumption`): with zones more than a day apart (UTC+14 against UTC-11) the padding of
  one day misses an edge of the visitor's day. Times on a visitor's day beyond the clamped months are
  listed by `?date=` and never linked. The form's Back link drops the zone, and the property takes it through any.
* `AnswersAgree` speaks of dates that the range holds from midnight to midnight, before the one at which a limit cut the answer
  off, in zones where no date comes twice (`DaysOnce`): the first and last date of a range over REST or MCP may be listed in part.
* `KeyClosedTruly`: after a call that lost a write or died its key may stay reserved for 24 hours with nothing to replay, which the comment
  at `src/adapters/coordinator.ts:274-277` accepts; the property says of such calls that the key is not freed if they booked, and replays nothing else.
* `ListedCanBeBooked`, `ListingsAgree`: a listing counts only the bookings of its range towards a daily cap; a collective
  with a host who has no availability row is listed and then always refused. `ListingsAgree` leaves out time that has been open
  without a break since before the day a listing looks back (`BeganEarlier`): a schedule that is
  open around the clock, with a step that does not divide the day, has a grid that depends on the range: the window begins
  at the first midnight the listing looks at (`src/core/slots/engine.ts:95`), another one for a day than for a month, though
  `test/core/slots.test.ts:694-696` asks for the same. It also leaves out
  a meeting that ends after the day a listing looks ahead (`EndsInSight`): with 24 hours of meeting and up to 12 of buffer
  (`src/http/api/rest.ts:330` and `337`) one that begins late in a range needs windows the listing does not load, and only a wider range offers it. A cap is promised for a local date (`src/core/domain/types.ts:158-160`)
  and counted from midnight to midnight; the two differ only where a clock is turned back from after midnight to before it (`DaysOnce`), as
  Newfoundland's was until 2011 and no zone's is since.
* `BusyIsSeen`: without an address for a Microsoft mailbox every query is refused and its busy time is unknown to listings and commits
  alike. The cache may hide a new event as well as show an old one (the comment at `src/adapters/cache/kv.ts:11` has
  only the second), and its key does not name the calendars chosen.
* `TokenKept`: the loser of a race under one-use refresh tokens still marks a working connection `needs_reconnect`.
* `RemindedOnce`: a tick that Cloudflare skips, or that a failing send ends, is made up for by nothing.
* `PagesResolve` (`raced`): a user and a team that claim one slug within the lag of a replica both get it.
* `SeesOwnPast` (`crossed`): of two overlapping requests of one session the slower may take the bookmark
  back. `ScheduleStands` (`torn`): two overlapping saves of one host can leave hours and profile in different timezones.
* `RevocationHolds`: a revoked key may still read from a replica that lags; it is writes that stop at once.
* `OthersHear`: the fetch of a webhook has no timeout of its own, so that an endpoint that hangs holds its batch up until the platform
  ends the consumer; a webhook registered a moment before may miss its first message, when the consumer's replica lacks the row.

## 5. Proofs

`CoordinatorProofs` begins with the tables, and proves for any sets of bookings, hosts and buckets:
`NeverDoubleBooked`, `TablesAlwaysAgree`, `FateIsSealed` and `StoreKeepsThePromise`
(refinement of `Calendar`). `NoDoubleBooking` is not inductive, since a conflict is
looked for in `slotLocks` and not in `claim`. The strengthening adds that a confirmed
booking holds all its unpruned rows, that every row belongs to a confirmed booking
and to its claim, that claims are never empty, and that a cell has at most one
row; `Bookable` (no one books pruned time) closes the gap the pruning opens.

Of `book()` it proves, for any requests, rosters, keys, faults and
external calendars: `CoordinatorTypes`, `KeyBooksOnce`, `ReplaysAreTruthful`,
`KeysAreClosed` (of calls that fail, too), `CoordinatorUsesTheStore` (every step is a step of the store or
leaves it alone) and `BookNeverDoubleBooks`, which the theorems about the tables then
give for free. The inductive invariant `IInv` says, besides the properties: a call
past the reservation owns its row until its end (`OwnerInv`), what each local may be
at each await (`StageInv`), what a row may say about the call that wrote it
(`RowInv`), and that what a call asks for is bookable while it runs (`CallInv`).
`OneBookingPerKey` needs the ownership: two committed calls of one scope would both
be the row's `by`. A step either rests (the calls and rows stand still), moves one
call, commits one, or closes one row; one lemma for each shape carries the
invariant over, and each action is shown to have its shape.

`AccountsProofs` proves of `SignIn`, for any people, links, zones, policies and requests: `SignInTypes`,
`LinkOpensOnce`, `AdminAlwaysRemains` and `HoursStand`. Its `IInv` adds, to the types, which locals
are set at each await and that the row a request works on is there (`Stages`); that a request about
to create a member does so where users already are, so that the first row is an admin's, and the guarded
statement never takes the last (`AdminInv`); that only a used link has a request past its redemption or a
session, one of either and not both (`LinkInv`); and that a host whose saves neither overlapped nor
broke off has at most one save under way, which accounts for any difference between hours and profile (`HoursInv`).

It adds, for any number of forms, teams and tabs, what the composition promises: `AccountsSignIn` (it keeps to
`SignInSpec`, so that the four theorems above hold of it too), `SomebodyHasTheKey`, `AddressesResolve`, `OwnPastIsSeen` and
`RevocationIsFinal`. For addresses, what keeps two rows with one slug apart is what the requests on their way
have checked: as long as nobody raced for a slug, it has one owner at most and one request about to give it away
(`ClaimInv`), and a team anybody published for is manned (`FormInv`, `MemberInv`). For a session, the log of
committed states only grows in what it says (`LogInv`), and each stage of a request has a bookmark and a replica
that cover what was answered before it (`Kept`), which needs that requests that did not overlap are alone (`AloneInv`).

`ClockworkProofs` proves of `Clockwork`, for any holds, lessees, meetings, leads, callers, durations and faults:
`ClockworkTypes`, `LeaseIsExclusive`, `AlarmAlwaysCovers`, `RemindedAtItsTime`, `RateIsKept`, `TokenIsKept`, and `HostStandsAlone`
(the composition drives the host's object only as `HostSpec` does). Exclusion needs that no trust reaches further than one TTL
from now (`TrustInv`), so that a lessee who acquires again never shortens what it was promised; the alarm's invariant
`CoverInv` says of each row that an alarm comes no later or that the handler which will re-arm is running,
and that no handler runs at time 0, where an alarm set to now would read as none. A reminder needs to know where the running
tick is: what is not due was not sent, what was not sent is still ahead of the run that will (`OnceInv`, `SentInv`), and the
cron is never early (`PaceInv`). `RateKept` counts the calls let through in any stretch; `BucketInv` bounds them by what they
left in the bucket, and by the age of what the alarm swept. `HonourInv` says who may have the token the provider honours: the row, or
the one answer on its way to it.

`LifecycleProofs` proves of the routes, for any bookings, moves, cancels and faults: `RoutesUseTheStore`, from which
`RoutesNeverDoubleBook`, and, where no other call carries a move's Idempotency-Key (`OwnKeys`), `MeetingAlwaysSurvives`,
`OneActWins` and `CalendarIsTold`. Run `retry` is why the condition is there: a replay answers a move with a booking of another
call, and everything that follows takes it for its own (`ResultInv`). The invariant is that of `Coordinator`, which
every step of a handler leaves alone or is a step of, with what a handler's stage says of its `book()` (`RouteInv`), and `FateInv`: which act
ended each booking and how far it has come since (`EndInv`), that whoever was told of success is that act (`WinInv`), and where
the delete job is (`QueueInv`).

`CoordinatorProofs` also proves `LeasesAreReturned`, `TakenIsTrueAlways` and `SomeoneAlwaysWins`, from `LeaseInv` (who may hold a
lease at which await, and in which order they are taken), `SeenInv` (whatever a re-check found is still there or was another
guest's), `TakenInv` and `RaceInv`: as long as nothing is decided, somebody who can still win is behind every lease. The last is stated for calls
without holds (`NoHolds`), because two guests whose holds refuse one another can leave the time to nobody, which is the finding of run
`holds`, and for at least one call.

`MeetingsProofs` proves `LinkAlwaysOutlives` and `AlwaysToldTheSame`, for any number of requests, moves and duplicates, and
`MeetingsUseTheStore`. What the mails do not say yet a request under way is about to: a booking that stands was announced or
is carried by its request (`HeardInv`), one that ended was called off, replaced, never announced, or is being told of (`EndInv`), and one that has a
successor has ended unless that request is just about to end it (`MoveInv`); of a duplicate nobody has heard (`SecretInv`).
When all is quiet only the mails are left.

`MeetingsProofs` also proves `CalendarAlwaysFollows`, for chains as long as the walk reaches, `PagesAlwaysAgree` and `AnswersAlwaysAgree`. `Lineage` is a function that its own equation
defines; `LineExists` builds one that solves it, row by row, and `LineIs` takes the least booking at which a solution would not end at
the first booking. `CalendarInv` then says that a mail which knew its booking's line has the UID of the first booking and counts the
moves (`MailOK`), and that every entry of the guest's calendar comes from a mail of its SEQUENCE (`EntryOK`); both survive because
rows only grow and a line never changes (`LineStays`). The property compares two mails of one meeting: their lines both reach the
first booking, a booking has one successor (`LinesAgree`), so that of the two the shorter is a part of the other, and the last word
is the longest (`LastOnLine`). A page shows a date of the visitor's from months of the owner's: `MonthHolds` and `PaddingCovers` show that a day of
padding takes in every instant of that date, `ClampIs` and `MonthsCover` that the months a visitor can be in include every
start within the horizon. So every page shows of a date just what is on offer, and a listing of REST or MCP does of each date it holds whole
(`HeldIs`), since in a zone whose dates come once a date is one stretch of instants (`DayRangeIs`), and the first of a list are all those before
its last (`FirstAreFirst`).

`ZoneProofs` proves what the bisection of `Zone` finds, in any zone with one change: `TransitionFound` takes the least width of a
search interval at which it would go wrong, `WallClockFound` shows that a wall clock resolves to the first instant that shows it or
a later one; dates follow one another where none comes twice (`DatesInOrder`). `SlotsProofs` builds on it: `WallClocksResolve`, `ListedSlotsCanBeBooked` and `ListingsAlwaysAgree`, for any schedules, zones, event
types, calendars, bookings and ranges; the last for every start that `ListingsAgree` does not name as outside its promise. `MergeIntervals`, `IntersectIntervals` and `IntersectAll` work on lists of windows; what they
keep is which instants are covered. `MergedAre` and `MeetingOfAll` say that their results are the runs of the union and of the common part
(`Runs`), and since a set has one list of runs, two lists are equal when they cover the same. The folds are again functions
that equations define, solved by showing a solution for every finite set. For a listing against the commit path, a window that
the whole range opens around a footprint is open around it alone (`OpenWithin`), what is busy near a slot is busy in both ranges (`BusyIs`,
since footprints and lock rows are whole buckets), and a day that lies in the range has one count (`CountsAgree`). For two listings, a window
of the wider one that is in use began on a date at which the narrower one looks, so that the grids begin together (`RunsAgree`, `GridFromStart`),
and what the slot takes of it ends on a date at which the narrower one looks too (`EndsInSight`).

`OutsideProofs` proves, of any number of bookings, connections, deliveries and outages, `EventAlwaysForEach` and `NoPhantomEver` under
one consumer (`OneConsumer`; section 4 says what two do); of any calendars, windows and
queries `BusyAlwaysSeen`; and of any owners and uploads `PhotosAlwaysShow`. For the first two, the
events of a booking are those its row has the ids of, or, while a job is at work on it, those of the job's own map (`Tracked`), apart
from a connection whose call was lost; what a job has passed over or called is done (`JobOK`); what was acknowledged stays
done (`DoneInv`), because a create job that comes after the delete finds the booking ended. For busy time, each stage of a query knows
what stood when it began in the calendars it has asked (`AskInv`), and an entry of the cache what stood when it was made (`CacheInv`). An upload that
found the thumbnail there writes its row later, so `PhotoInv` says what R2 already has at each stage (`OnTheWay`), and that
a thumbnail is never without its original (`Paired`); both survive other uploads because R2 only gains keys.

Where modules stand side by side (section 3), each part's invariant is proved for its own steps and kept by the others
because they leave its variables alone.

**Assumptions** are the named ones of the modules, which TLC evaluates in every run that uses the module: booking ids are never
reused; rosters are not empty and a personal event type has one host; footprints lie on the time line; nothing a host has set up is reported as a
lock row (`External` has reasons of its own); TTLs, limits, windows and intervals are positive; a session's slide is shorter
than its life, and that no longer than the cap; there is at least one lead and one calendar, and a window has an end; an
instance has somebody who may sign up; hosts are finitely many; an availability row has windows within its days (`HoursRow`),
an event type a footprint in whole buckets; months are at least `ShortMonth` days long, there are
enough of them for every horizon, and zones lie at most a day apart (`PagesAssumption`). Hypotheses of theorems (`OwnKeys`, `OneConsumer`, `NoHolds`) exclude what a violated run shows, and nothing else.

## 6. Model-checked only

* Liveness (`EveryCallAnswers`, `BookingReachesQueue`, `NoOrphan`, `DeletesArrive`,
  `HoldsGo`, `OthersHear`): fairness is outside the prover's reach.

Nothing else. What recursive functions and folds compute is proved without the library's induction theorems, which take an operator for
parameter that no installed prover instantiates: `LeastOf` (every set of numbers has a least) is enough, applied to the arguments at which a claim would fail.

Proved and not run: the type invariants, `StoreSpec` (book(), the routes and the cron drive the tables only by the statements of `BookingStore`), `FateSealed`, `AlarmCovers` and `AdminRemains`, which `NobodyLockedOut` has as a conjunct.

## 7. Not modelled, and why

* Markup, wording, styles, social images, mail and webhook bodies, signatures: they depend on no state that changes.
* HTTP to Google, Microsoft and mail services, and parsing of their dates; an answer, an error or a lost reply is a choice of the model.
* Forms that write one row of one owner and have no check that another form could outrun: brand settings, team
  names, logos and weights, descriptions, answers to an event type's questions.
* The redirect to an OAuth provider and back (the signed state cookie): an identity or a grant arrives as
  the provider vouched for it.
* A round-robin event type without a team (the code then keeps no rotation), and
  inactive or unknown event types beyond a refusal (`Fail`). Fairness of the rotation itself: `RecordAssignment` writes the start time
  of a call that may commit after a later one, and the code promises no more than the long run.
* `get` of the key table and `update` jobs of the queue: nothing in the source uses them. The expiry of a settled idempotency key.
* Mails to hosts, and the round-robin host whom a move replaces, who is told nothing.
* Telemetry: three counts, off by default.
* Reading calls with an API key, which leave nothing behind.
