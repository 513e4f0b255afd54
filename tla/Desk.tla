---------------------------------- MODULE Desk ----------------------------------
(***************************************************************************)
(* One host at the dashboard, over a database whose reads come from        *)
(* replicas: the session cookie, the bookmark the session row carries from *)
(* one request to the next, signing out, and an API key the host revokes.  *)
(* D1 is a log of what was ever committed: a replica is a prefix of it, a  *)
(* bookmark the length of one.                                             *)
(***************************************************************************)
EXTENDS Clock, Sequences, SequencesExt

CONSTANTS
  Tabs,           \* requests, of the host's browser or with the host's key
  SessionTTL,     \* SESSION_TTL_MS
  SessionCap,     \* SESSION_ABSOLUTE_TTL_MS
  SlideInterval,  \* SESSION_SLIDE_INTERVAL_MS
  MaxLog          \* bound: commits

ASSUME DeskAssumption ==
  /\ SlideInterval \in Nat \ {0} /\ SessionTTL \in Nat /\ SessionCap \in Nat /\ MaxLog \in Nat \ {0}
  /\ SlideInterval <= SessionTTL /\ SessionTTL <= SessionCap

VARIABLES
  log,      \* every state D1 committed: the session's row, the host's saves, the key
  tab,      \* the locals of each request
  answered, \* history: the saves whose requests have been answered
  gone,     \* history: what has been answered as revoked, of "cookie" and "key"
  crossed   \* history: requests of the session overlapped, and none on its own has saved since

deskVars == <<log, tab, answered, gone, crossed>>

NoRow == [live |-> FALSE, expires |-> 0, bookmark |-> 0]

Away == [at |-> "idle", expires |-> 0, boot |-> 0, mark |-> 0, saw |-> 0, floor |-> 0,
         late |-> FALSE, sure |-> FALSE, alone |-> FALSE]

\* A login is followed by the dashboard: the row carries the bookmark of the login.
DeskInit ==
  /\ log = <<[row |-> [live |-> TRUE, expires |-> SessionTTL, bookmark |-> 1], saves |-> 0, key |-> TRUE]>>
  /\ tab = [w \in Tabs |-> Away]
  /\ answered = 0 /\ gone = {} /\ crossed = FALSE

Primary == log[Len(log)]
Commit(state) == Len(log) < MaxLog /\ log' = Append(log, state)

\* withSession(bookmark): any replica that has reached it, or the primary.
Replicas(bookmark) == bookmark..Len(log)

\* Slip: the stalest mode.
Unconstrained == Replicas(1)

\* Bookmark mode without a bookmark: the primary, never first-unconstrained.
Freshest == {Len(log)}

Valid(row) == row.live /\ clock < row.expires /\ clock < SessionCap

NextExpiry == IF clock + SessionTTL < SessionCap THEN clock + SessionTTL ELSE SessionCap
ShouldSlide(row) == NextExpiry - row.expires >= SlideInterval /\ NextExpiry > row.expires

\* UPDATE sessions ... WHERE id_hash: never an INSERT.
Touched(expires, bookmark) ==
  IF Primary.row.live THEN [Primary EXCEPT !.row = [live |-> TRUE, expires |-> expires, bookmark |-> bookmark]]
  ELSE Primary

Steps(w, at) == tab[w].at = at
Serving == {w \in Tabs : tab[w].at \notin {"idle", "api"}}
Leaves(w) == tab' = [tab EXCEPT ![w] = Away]

-----------------------------------------------------------------------------
(* requireSession. *)

\* The cookie's row is read where nothing is stale, then decides: refused (an
\* expired row is deleted on sight), slid, or served.
Enter(w) ==
  /\ Steps(w, "idle")
  /\ \E v \in Freshest :
       LET row == log[v].row
           apart == Serving = {}
           others == [u \in Tabs |-> [tab[u] EXCEPT !.alone = FALSE]] IN
         IF Valid(row)
         THEN /\ tab' = [others EXCEPT ![w] =
                   [Away EXCEPT !.at = IF ShouldSlide(row) THEN "slide" ELSE "serve",
                                !.expires = IF ShouldSlide(row) THEN NextExpiry ELSE row.expires,
                                !.boot = v, !.mark = row.bookmark, !.floor = answered,
                                !.late = "cookie" \in gone, !.sure = apart /\ ~crossed, !.alone = apart]]
              /\ crossed' = (crossed \/ ~apart)
              /\ UNCHANGED log
         ELSE /\ row.live /\ Primary.row.live
              /\ Commit([Primary EXCEPT !.row = NoRow])
              /\ UNCHANGED <<tab, crossed>>
  /\ UNCHANGED <<answered, gone>>

\* touch, with the bookmark of the bootstrap's own reads.
Slide(w) ==
  /\ Steps(w, "slide")
  /\ Commit(Touched(tab[w].expires, tab[w].boot))
  /\ tab' = [tab EXCEPT ![w].at = "serve"]
  /\ UNCHANGED <<answered, gone, crossed>>

-----------------------------------------------------------------------------
(* Handlers: read, write, advanceBookmark. *)

\* The page, or what a form's checks read: pinned to the session's bookmark.
Show(w) ==
  /\ Steps(w, "serve")
  /\ \E v \in Replicas(tab[w].mark) :
       tab' = [tab EXCEPT ![w].at = "shown", ![w].saw = log[v].saves, ![w].mark = v, ![w].boot = 0]
  /\ UNCHANGED <<log, answered, gone, crossed>>

Answer(w) ==
  /\ Steps(w, "shown")
  /\ Leaves(w)
  /\ UNCHANGED <<log, answered, gone, crossed>>

\* Slip: the write leaves the bookmark where the reads had it.
SaveUnmarked(w, what) ==
  /\ Steps(w, "shown")
  /\ Commit(IF what = "saved" THEN [Primary EXCEPT !.saves = @ + 1] ELSE [Primary EXCEPT !.key = FALSE])
  /\ tab' = [tab EXCEPT ![w].at = what, ![w].saw = Last(log').saves, ![w].floor = 0]
  /\ UNCHANGED <<answered, gone, crossed>>

\* A form is saved, or the key revoked: writes go to the primary, and the
\* D1 session of this request has their bookmark.
Save(w, what) ==
  /\ Steps(w, "shown")
  /\ Commit(IF what = "saved" THEN [Primary EXCEPT !.saves = @ + 1] ELSE [Primary EXCEPT !.key = FALSE])
  /\ tab' = [tab EXCEPT ![w].at = what, ![w].mark = Len(log'), ![w].saw = Last(log').saves, ![w].floor = 0]
  /\ UNCHANGED <<answered, gone, crossed>>

\* The profile, the avatar, a calendar connection, ...
SaveForm(w) == Save(w, "saved")
RevokeKey(w) == Save(w, "revoked")

Advance(w) ==
  /\ Steps(w, "saved") \/ Steps(w, "revoked")
  /\ Commit(Touched(tab[w].expires, tab[w].mark))
  /\ answered' = IF Steps(w, "saved") /\ tab[w].saw > answered THEN tab[w].saw ELSE answered
  /\ gone' = IF Steps(w, "revoked") THEN gone \cup {"key"} ELSE gone
  /\ crossed' = (crossed /\ ~tab[w].alone)
  /\ Leaves(w)

\* revokeSession: DELETE.
SignOut(w) ==
  /\ Steps(w, "serve")
  /\ Commit([Primary EXCEPT !.row = NoRow])
  /\ gone' = gone \cup {"cookie"}
  /\ Leaves(w)
  /\ UNCHANGED <<answered, crossed>>

-----------------------------------------------------------------------------
(* The API. *)

\* authenticateApiKey, in one state of the database. That it notes when the key
\* was last used is none of the properties'.
KeyStands(v) == log[v].key

\* The key is looked up in the request's own mode. What only reads asks any
\* replica, and leaves nothing behind.
Authenticate(w, mode) ==
  /\ Steps(w, "idle")
  /\ \E v \in mode : KeyStands(v)
  /\ tab' = [tab EXCEPT ![w] = [Away EXCEPT !.at = "api", !.late = "key" \in gone]]
  /\ UNCHANGED <<log, answered, gone, crossed>>

\* REST goes by the method, MCP by what the tool it calls may do: either way
\* whoever will write is looked up in bookmark mode.
WritesFor == Freshest
RestCall(w) == Authenticate(w, Freshest)
McpCall(w) == Authenticate(w, WritesFor)

\* What it writes is none of the session's; it ends the request all the same.
ApiWrite(w) ==
  /\ Steps(w, "api")
  /\ Commit(Primary)
  /\ Leaves(w)
  /\ UNCHANGED <<answered, gone, crossed>>

-----------------------------------------------------------------------------
\* A database call throws, or the Worker is evicted.
Crash(w) ==
  /\ ~Steps(w, "idle")
  /\ Leaves(w)
  /\ UNCHANGED <<log, answered, gone, crossed>>

DeskNext ==
  \E w \in Tabs :
    \/ Enter(w) \/ Slide(w) \/ Show(w) \/ Answer(w)
    \/ SaveForm(w) \/ RevokeKey(w) \/ Advance(w) \/ SignOut(w)
    \/ RestCall(w) \/ McpCall(w) \/ ApiWrite(w) \/ Crash(w)

-----------------------------------------------------------------------------
(* Properties. *)

\* "I saved it and it did not change": whatever replica answers and wherever
\* requests broke off, a request that begins after a save was answered reads
\* it, unless requests of the session overlapped and none on its own saved
\* since (advanceBookmark of the slower one may take the bookmark back).
SeesOwnPast == \A w \in Tabs : tab[w].at = "shown" /\ tab[w].sure => tab[w].saw >= tab[w].floor

\* "Immediate": once a sign-out was answered no request gets in on the cookie,
\* also past a slide or a save that was on its way then; once the revocation of
\* a key was answered no request writes with it.
RevocationHolds == \A w \in Tabs : ~tab[w].late
================================================================================
