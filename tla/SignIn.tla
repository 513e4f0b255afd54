--------------------------------- MODULE SignIn ---------------------------------
(***************************************************************************)
(* Accounts and schedules: redeeming sign-in links, the first user's role, *)
(* the admins' forms, and the working hours that a host saves and a login  *)
(* fills in. Each request is a Worker that runs await by await and may die *)
(* before any of them.                                                     *)
(***************************************************************************)
EXTENDS Naturals, FiniteSets

CONSTANTS
  People,   \* e-mail addresses, each the account it has or may get
  Links,    \* magic_link_tokens, the synthetic ones of OAuth included
  Zones,    \* IANA timezones
  Policies, \* SIGNUPS: whom open, closed and each allowlist admit
  Requests,
  None

ASSUME SignInAssumption ==
  /\ People # {}
  /\ People \in Policies /\ Policies \subseteq SUBSET People
  /\ Zones # {} /\ None \notin People \cup Zones \cup Links \cup [tz: Zones, own: BOOLEAN]

VARIABLES
  role,      \* users.role, "none" where there is no row
  zone,      \* users.tz
  hours,     \* availability_schedules: [tz, own], None where there is no row
  signups,   \* the sign-up policy: the addresses that may create an account
  link,      \* link[l]: [email, state], state "new", "sent", "expired" or "used"
  req,       \* the locals of each request
  opened,    \* history: sessions opened with each link
  saved,     \* history: the hours a host saved last, None before the first
  torn       \* history: hosts whose saves overlapped, or broke off half way

signInVars == <<role, zone, hours, signups, link, req, opened, saved, torn>>

Idle == [at |-> "idle", who |-> None, link |-> None, may |-> {}, tz |-> None, seen |-> None,
         first |-> FALSE, to |-> "none"]

SignInInit ==
  /\ role = [p \in People |-> "none"]
  /\ zone = [p \in People |-> None]
  /\ hours = [p \in People |-> None]
  /\ signups = People
  /\ link = [l \in Links |-> [email |-> None, state |-> "new"]]
  /\ req = [w \in Requests |-> Idle]
  /\ opened = [l \in Links |-> 0]
  /\ saved = [p \in People |-> None]
  /\ torn = {}

Exists(p) == role[p] # "none"

\* Requests go on from `at`; others begin.
At(w, at) == req[w].at = at
Goes(w, at) == req' = [req EXCEPT ![w].at = at]
Ends(w) == req' = [req EXCEPT ![w] = Idle]

-----------------------------------------------------------------------------
(* Sign-in. *)

\* "Every plausible address takes exactly this same path."
RequestLink(l, p) ==
  /\ link[l].state = "new"
  /\ link' = [link EXCEPT ![l] = [email |-> p, state |-> "sent"]]
  /\ UNCHANGED <<role, zone, hours, signups, req, opened, saved, torn>>

LinkExpires(l) ==
  /\ link[l].state = "sent"
  /\ link' = [link EXCEPT ![l].state = "expired"]
  /\ UNCHANGED <<role, zone, hours, signups, req, opened, saved, torn>>

\* The policy is read before the link is redeemed.
OpenLink(w, l) ==
  /\ At(w, "idle") /\ link[l].state # "new"
  /\ req' = [req EXCEPT ![w] = [Idle EXCEPT !.at = "redeem", !.link = l, !.may = signups]]
  /\ UNCHANGED <<role, zone, hours, signups, link, opened, saved, torn>>

\* An identity the provider vouches for redeems a link of its own.
CompleteIdentity(w, l, p) ==
  /\ At(w, "idle") /\ link[l].state = "new"
  /\ link' = [link EXCEPT ![l] = [email |-> p, state |-> "sent"]]
  /\ req' = [req EXCEPT ![w] = [Idle EXCEPT !.at = "redeem", !.link = l, !.may = signups]]
  /\ UNCHANGED <<role, zone, hours, signups, opened, saved, torn>>

\* Slip: read the row, then delete it (later).
ReadThenDelete(w) ==
  /\ At(w, "redeem")
  /\ req' = IF link[req[w].link].state # "expired"
            THEN [req EXCEPT ![w].at = "find", ![w].who = link[req[w].link].email]
            ELSE [req EXCEPT ![w] = Idle]
  /\ link' = [link EXCEPT ![req[w].link].state = IF @ = "sent" THEN "used" ELSE @]
  /\ UNCHANGED <<role, zone, hours, signups, opened, saved, torn>>

\* DELETE ... WHERE expires_at > now RETURNING.
Redeem(w) ==
  /\ At(w, "redeem")
  /\ LET l == req[w].link IN
       IF link[l].state = "sent"
       THEN /\ link' = [link EXCEPT ![l].state = "used"]
            /\ req' = [req EXCEPT ![w].at = "find", ![w].who = link[l].email]
       ELSE Ends(w) /\ UNCHANGED link
  /\ UNCHANGED <<role, zone, hours, signups, opened, saved, torn>>

\* An existing user always signs in; the policy gates new accounts.
Find(w) ==
  /\ At(w, "find")
  /\ LET p == req[w].who IN
       IF Exists(p) THEN req' = [req EXCEPT ![w].at = "backfill", ![w].seen = zone[p], ![w].may = {}]
       ELSE IF p \in req[w].may THEN req' = [req EXCEPT ![w].at = "count", ![w].may = {}] ELSE Ends(w)
  /\ UNCHANGED <<role, zone, hours, signups, link, opened, saved, torn>>

CountUsers(w) ==
  /\ At(w, "count")
  /\ req' = [req EXCEPT ![w].at = "create", ![w].first = (\A p \in People : ~Exists(p))]
  /\ UNCHANGED <<role, zone, hours, signups, link, opened, saved, torn>>

\* users.email is unique: the second of two throws, its link is spent.
CreateUser(w, tz) ==
  /\ At(w, "create")
  /\ LET p == req[w].who IN
       IF Exists(p) THEN Ends(w) /\ UNCHANGED <<role, zone>>
       ELSE /\ role' = [role EXCEPT ![p] = IF req[w].first THEN "admin" ELSE "member"]
            /\ zone' = [zone EXCEPT ![p] = tz]
            /\ req' = [req EXCEPT ![w].at = "backfill", ![w].seen = tz, ![w].first = FALSE]
  /\ UNCHANGED <<hours, signups, link, opened, saved, torn>>

\* Slip: save, where the code has saveIfAbsent.
BackfillAlways(w) ==
  /\ At(w, "backfill")
  /\ hours' = [hours EXCEPT ![req[w].who] = [tz |-> req[w].seen, own |-> FALSE]]
  /\ Goes(w, "session")
  /\ UNCHANGED <<role, zone, signups, link, opened, saved, torn>>

\* ON CONFLICT DO NOTHING: "Run on EVERY login".
Backfill(w) ==
  /\ At(w, "backfill")
  /\ hours' = [hours EXCEPT ![req[w].who] = IF @ = None THEN [tz |-> req[w].seen, own |-> FALSE] ELSE @]
  /\ Goes(w, "session")
  /\ UNCHANGED <<role, zone, signups, link, opened, saved, torn>>

CreateSession(w) ==
  /\ At(w, "session")
  /\ opened' = [opened EXCEPT ![req[w].link] = @ + 1]
  /\ Ends(w)
  /\ UNCHANGED <<role, zone, hours, signups, link, saved, torn>>

-----------------------------------------------------------------------------
(* The admins' forms. The admin's role is read when the request comes in.   *)

OpenRole(w, admin, p, r) ==
  /\ At(w, "idle") /\ role[admin] = "admin"
  /\ Exists(p) /\ role[p] # r
  /\ req' = [req EXCEPT ![w] = [Idle EXCEPT !.at = "role", !.who = p, !.to = r]]
  /\ UNCHANGED <<role, zone, hours, signups, link, opened, saved, torn>>

Admins == {p \in People : role[p] = "admin"}

\* Slip: the admins were counted when the form was opened.
DemoteUncounted(p) == [role EXCEPT ![p] = IF @ = "admin" THEN "member" ELSE @]

\* UPDATE ... WHERE role = 'admin' AND (SELECT COUNT(*) ...) > 1, in one statement.
Demoted(p) == IF Cardinality(Admins) > 1 /\ p \in Admins THEN [role EXCEPT ![p] = "member"] ELSE role

SetRole(w) ==
  /\ At(w, "role")
  /\ role' = IF req[w].to = "admin" THEN [role EXCEPT ![req[w].who] = "admin"] ELSE Demoted(req[w].who)
  /\ Ends(w)
  /\ UNCHANGED <<zone, hours, signups, link, opened, saved, torn>>

\* The stored setting: the next sign-in reads it.
SetSignups(admin, policy) ==
  /\ role[admin] = "admin" /\ policy # signups
  /\ signups' = policy
  /\ UNCHANGED <<role, zone, hours, link, req, opened, saved, torn>>

-----------------------------------------------------------------------------
(* Working hours: the dashboard's form and the API's PUT. *)

Saving(p) == {w \in Requests : req[w].who = p /\ req[w].at \in {"hours", "zone"}}

OpenHours(w, p, tz) ==
  /\ At(w, "idle") /\ Exists(p)
  /\ req' = [req EXCEPT ![w] = [Idle EXCEPT !.at = "hours", !.who = p, !.tz = tz, !.seen = zone[p]]]
  /\ torn' = IF Saving(p) = {} THEN torn ELSE torn \cup {p}
  /\ UNCHANGED <<role, zone, hours, signups, link, opened, saved>>

\* users.tz follows in a statement of its own, unless it is what was read.
SaveHours(w) ==
  /\ At(w, "hours")
  /\ LET p == req[w].who
         new == [tz |-> req[w].tz, own |-> TRUE] IN
       /\ hours' = [hours EXCEPT ![p] = new]
       /\ saved' = [saved EXCEPT ![p] = new]
  /\ IF req[w].tz = req[w].seen THEN Ends(w) ELSE Goes(w, "zone")
  /\ UNCHANGED <<role, zone, signups, link, opened, torn>>

SaveZone(w) ==
  /\ At(w, "zone")
  /\ zone' = [zone EXCEPT ![req[w].who] = req[w].tz]
  /\ Ends(w)
  /\ UNCHANGED <<role, hours, signups, link, opened, saved, torn>>

-----------------------------------------------------------------------------
\* A database call throws, or the Worker is evicted.
Die(w) ==
  /\ ~At(w, "idle")
  /\ torn' = IF At(w, "zone") THEN torn \cup {req[w].who} ELSE torn
  /\ Ends(w)
  /\ UNCHANGED <<role, zone, hours, signups, link, opened, saved>>

SignInNext ==
  \/ \E l \in Links : LinkExpires(l) \/ \E p \in People : RequestLink(l, p)
  \/ \E w \in Requests :
       \/ \E l \in Links : OpenLink(w, l) \/ \E p \in People : CompleteIdentity(w, l, p)
       \/ Redeem(w) \/ Find(w) \/ CountUsers(w) \/ (\E tz \in Zones : CreateUser(w, tz))
       \/ Backfill(w) \/ CreateSession(w)
       \/ \E a, p \in People : \E r \in {"admin", "member"} : OpenRole(w, a, p, r)
       \/ SetRole(w)
       \/ \E p \in People : \E tz \in Zones : OpenHours(w, p, tz)
       \/ SaveHours(w) \/ SaveZone(w) \/ Die(w)
  \/ \E a \in People : \E policy \in Policies : SetSignups(a, policy)

SignInSpec == SignInInit /\ [][SignInNext]_signInVars

-----------------------------------------------------------------------------
(* Properties. *)

Hours == [tz: Zones, own: BOOLEAN]
LinkRow == [email: People \cup {None}, state: {"new", "sent", "expired", "used"}]
Locals ==
  [at: {"idle", "redeem", "find", "count", "create", "backfill", "session", "role", "hours", "zone"},
   who: People \cup {None}, link: Links \cup {None}, may: SUBSET People, tz: Zones \cup {None},
   seen: Zones \cup {None}, first: BOOLEAN, to: {"none", "member", "admin"}]

SignInTypeOK ==
  /\ role \in [People -> {"none", "member", "admin"}]
  /\ zone \in [People -> Zones \cup {None}]
  /\ hours \in [People -> Hours \cup {None}] /\ saved \in [People -> Hours \cup {None}]
  /\ signups \in Policies /\ torn \subseteq People
  /\ link \in [Links -> LinkRow]
  /\ req \in [Requests -> Locals]
  /\ opened \in [Links -> Nat]

\* "A lockout (no admin at all) is the failure this avoids": whoever signs up
\* first, however demotions cross, and wherever a request dies, an instance
\* with users has an admin.
AdminRemains == (\E p \in People : Exists(p)) => Admins # {}

\* "Two concurrent redemptions of the same link must not both win": a link, also
\* the one behind an OAuth sign-in, opens one session at most, on one request.
OneSessionPerLink ==
  \A l \in Links :
    opened[l] + Cardinality({w \in Requests :
      req[w].link = l /\ req[w].at \in {"find", "count", "create", "backfill", "session"}}) <= 1

\* What a host saved stands, whatever logins fill in meanwhile, also those that
\* looked before the first save; and the hours are in the timezone the host's
\* pages are rendered in ("leaving the two to drift ..."), unless two saves of
\* one host overlapped or a save broke off between its two statements.
ScheduleStands ==
  \A p \in People :
    /\ saved[p] # None => hours[p] = saved[p]
    /\ hours[p] # None /\ p \notin torn /\ Saving(p) = {} => hours[p].tz = zone[p]
=================================================================================
