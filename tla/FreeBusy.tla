-------------------------------- MODULE FreeBusy --------------------------------
(***************************************************************************)
(* A host's external calendar, from the moment she connects it: which of   *)
(* her calendars are asked for busy time, how the answers of Google and    *)
(* Microsoft are read, the cache between them and the listings, and the    *)
(* commit path, which asks afresh. Time in calendars runs in ticks, of     *)
(* which GridStep make one step of Graph's availabilityView.               *)
(***************************************************************************)
EXTENDS Clock, Sequences, SequencesExt, FiniteSetsExt

CONSTANTS
  Providers,      \* of "google" and "microsoft"
  Calendars,      \* the calendars of the account
  Spans,          \* what an event may cover: sets of ticks
  Window,         \* the ticks asked for, in order: a slot's footprint or a month
  GridStep,       \* AVAILABILITY_VIEW_INTERVAL_MINUTES
  MaxPerQuery,    \* MAX_CALENDARS_PER_QUERY
  CacheTTL,       \* 60 s
  MaxEdits,       \* bound: changes by the host
  ProviderFaults  \* which of "list", "query" and "address" may fail

ASSUME FreeBusyAssumption ==
  /\ Providers \subseteq {"google", "microsoft"}
  /\ ProviderFaults \subseteq {"list", "query", "address"}
  /\ Calendars # {} /\ IsFiniteSet(Calendars)
  /\ Window \in Seq(Nat) \ {<<>>}
  /\ GridStep \in Nat \ {0} /\ MaxPerQuery \in Nat \ {0} /\ CacheTTL \in Nat \ {0}

VARIABLES
  diary,    \* the host's event in each calendar, and since when it is there
  link,     \* the row of calendar_connections
  freeBusy, \* what KV holds: the busy time of a connection in the window
  reader,   \* the locals of a listing or a commit: one at a time, they do not meet
  edits     \* what the host has done so far

busyVars == <<diary, link, freeBusy, reader, edits>>

Readers == {"page", "commit"}
NotLinked == [id |-> 0, provider |-> "none", email |-> FALSE, read |-> {}, sync |-> "ok", since |-> 0]
NotReading == [by |-> "page", at |-> "idle", conn |-> NotLinked, ask |-> <<>>, busy |-> {}, began |-> 0]

FreeBusyInit ==
  /\ diary = [c \in Calendars |-> [span |-> {}, free |-> FALSE, since |-> 0]]
  /\ link = NotLinked
  /\ freeBusy = [of |-> 0, busy |-> {}, until |-> 0]
  /\ reader = NotReading
  /\ edits = 0

Edit == edits < MaxEdits /\ edits' = edits + 1

\* An event is entered, moved, or declared free ("working elsewhere").
HostEdits ==
  /\ Edit
  /\ \E c \in Calendars, span \in Spans \cup {{}}, free \in BOOLEAN :
       diary' = [diary EXCEPT ![c] = [span |-> span, free |-> free /\ span # {}, since |-> clock]]
  /\ UNCHANGED <<link, freeBusy, reader>>

-----------------------------------------------------------------------------
(* The connection. *)

\* create, updateCalendars, updateSyncStatus and delete, of the one row.
Store(row) == link' = row

\* A provider having a bad minute lists nothing, and the grant is kept.
ListCalendars(calendars) == {calendars} \cup (IF "list" \in ProviderFaults THEN {{}} ELSE {})

\* completeCalendarConnect: the calendars are listed before the row is written,
\* and one is chosen if the provider answers. A Microsoft row names no calendar:
\* it is read by the address in the id_token, if that came.
Connect ==
  /\ link = NotLinked /\ Edit
  /\ \E provider \in Providers, email \in BOOLEAN, listed \in ListCalendars({CHOOSE c \in Calendars : TRUE}) :
       /\ ~email => provider = "microsoft" /\ "address" \in ProviderFaults
       /\ Store([NotLinked EXCEPT !.id = edits', !.provider = provider, !.email = email, !.since = clock,
                   !.read = IF provider = "microsoft" THEN {} ELSE listed])
  /\ UNCHANGED <<diary, freeBusy, reader>>

\* POST /dashboard/connections/:id.
ChooseCalendars ==
  /\ link # NotLinked /\ Edit
  /\ \E read \in SUBSET Calendars :
       Store([link EXCEPT !.read = IF link.provider = "microsoft" THEN {} ELSE read, !.since = clock])
  /\ UNCHANGED <<diary, freeBusy, reader>>

Disconnect ==
  /\ link # NotLinked /\ Edit
  /\ Store(NotLinked)
  /\ UNCHANGED <<diary, freeBusy, reader>>

\* partitionConnections: Google reads what was chosen, Microsoft the mailbox.
IsRead == link.provider = "microsoft" \/ link.read # {}

-----------------------------------------------------------------------------
(* getBusy. *)

\* What is asked for, in order. The mailbox stands for all its calendars.
Mailbox == "mailbox"
ToAsk == IF link.provider = "microsoft" THEN <<Mailbox>> ELSE SetToSeq(link.read)

Contents(asked) == IF asked = Mailbox THEN Calendars ELSE {asked}
Blocks(asked) == UNION {diary[c].span : c \in {d \in Contents(asked) : ~diary[d].free}}

\* freeBusy, scheduleItems: the busy intervals themselves; an event that is
\* free, or elsewhere, is none.
Detail(asked) == Blocks(asked)

\* availabilityView: one character per step from the start of the window; runs
\* of busy characters become intervals, the last past the end of the window.
Bitmap(asked) ==
  LET first == Window[1]
      step(t) == (t - first) \div GridStep
      marked == {step(t) : t \in {u \in Blocks(asked) : u \in Range(Window)}}
  IN UNION {(first + i * GridStep)..(first + (i + 1) * GridStep - 1) : i \in marked}

Clamp(ticks) == ticks \cap Range(Window)

\* Graph leaves the details out where the caller may not see them.
Answers(asked) == {Detail(asked)} \cup (IF asked = Mailbox THEN {Bitmap(asked)} ELSE {})

\* "Schedules" without an address are refused; any query may be.
Answered(chunk) == Mailbox \in Range(chunk) => reader.conn.email
Rejected(chunk) == "query" \in ProviderFaults \/ ~Answered(chunk)

Asking == reader.at = "ask"
Chunk == SubSeq(reader.ask, 1, IF Len(reader.ask) < MaxPerQuery THEN Len(reader.ask) ELSE MaxPerQuery)
NextChunk == SubSeq(reader.ask, Len(Chunk) + 1, Len(reader.ask))

\* externalBusyFor asks the cache first; loadHostInputs only the provider.
Begin(w) ==
  /\ ~Asking /\ IsRead
  /\ reader' =
       IF w = "page" /\ freeBusy.of = link.id /\ ~Reached(freeBusy.until)
       THEN [NotReading EXCEPT !.by = w, !.at = "known", !.busy = freeBusy.busy, !.began = clock]
       ELSE [NotReading EXCEPT !.by = w, !.at = "ask", !.conn = link, !.ask = ToAsk, !.began = clock]
  /\ UNCHANGED <<diary, link, freeBusy, edits>>

\* One query of the loop.
Query ==
  /\ Asking /\ reader.ask # <<>> /\ Answered(Chunk)
  /\ \E first \in Answers(Head(Chunk)) :
       reader' = [reader EXCEPT
         !.ask = NextChunk,
         !.busy = @ \cup Clamp(first \cup UNION {Detail(asked) : asked \in Range(Tail(Chunk))})]
  /\ UNCHANGED <<diary, link, freeBusy, edits>>

\* Slip: a calendar with errors is passed over.
PassOver ==
  /\ Asking /\ reader.ask # <<>> /\ Rejected(Chunk)
  /\ reader' = [reader EXCEPT !.ask = NextChunk]
  /\ UNCHANGED <<diary, link, freeBusy, edits>>

\* "A calendar that failed to compute is NOT a calendar with no busy time": one
\* error ends getBusy. The caller goes on without; a grant that is gone is noted
\* in the row, which is read as before.
Throw ==
  /\ Asking /\ reader.ask # <<>> /\ Rejected(Chunk)
  /\ reader' = NotReading
  /\ \/ UNCHANGED link
     \/ /\ "query" \in ProviderFaults /\ link.id = reader.conn.id
        /\ Store([link EXCEPT !.sync = "needs_reconnect"])
  /\ UNCHANGED <<diary, freeBusy, edits>>

\* The page puts what it learned away.
Done ==
  /\ Asking /\ reader.ask = <<>>
  /\ reader' = [reader EXCEPT !.at = "known", !.conn = NotLinked]
  /\ freeBusy' = IF reader.by = "page"
                 THEN [of |-> reader.conn.id, busy |-> reader.busy, until |-> After(CacheTTL)]
                 ELSE freeBusy
  /\ UNCHANGED <<diary, link, edits>>

FreeBusyNext ==
  \/ HostEdits \/ Connect \/ ChooseCalendars \/ Disconnect
  \/ \E w \in Readers : Begin(w)
  \/ Query \/ Throw \/ Done

-----------------------------------------------------------------------------
(* Properties. *)

Watched == IF link.provider = "microsoft" THEN Calendars ELSE link.read

\* How long something must have been there for a reader to know of it: a page
\* may be given what was learned a cache's life ago.
Horizon == IF reader.by = "page" THEN CacheTTL ELSE 1

\* "A calendar that failed to compute is NOT a calendar with no busy time":
\* whoever learned the busy time at all knows of every busy event that was
\* there, in a calendar chosen by then, when it began (for a page: a cache's
\* life before), whichever provider answered, in whatever form and chunks, and
\* whatever the host changed or a query refused on the way.

BusyIsSeen ==
  \A c \in Calendars :
    /\ reader.at = "known" /\ c \in Watched /\ ~diary[c].free
    /\ diary[c].since + Horizon <= reader.began /\ link.since + Horizon <= reader.began
    => Clamp(diary[c].span) \subseteq reader.busy
=================================================================================
