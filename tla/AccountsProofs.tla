----------------------------- MODULE AccountsProofs -----------------------------
(***************************************************************************)
(* For any hosts, teams, listings, requests and times: public addresses    *)
(* lead to one page with somebody behind it, nobody is locked out, and the *)
(* dashboard shows a host what the host saved; before that, of SignIn      *)
(* alone, for any people, links, zones and requests, who may sign in.      *)
(*                                                                         *)
(* PagesResolve is about rows; what keeps two rows apart is what the       *)
(* requests on their way to them have checked: ClaimInv says that as long  *)
(* as a slug was not checked by two at once, whoever is about to write it  *)
(* is alone with it, and FormInv that a team somebody publishes for has a  *)
(* member. SeesOwnPast follows the bookmark: from the save (Kept) to the   *)
(* row (LogInv), to the request that reads the row and the replica it is   *)
(* shown (Kept), which only requests that do not overlap are promised      *)
(* (AloneInv).                                                             *)
(***************************************************************************)
EXTENDS Accounts, FiniteSetTheorems, TLAPS

-----------------------------------------------------------------------------
(* Sign-in: types, the admin who remains, the one session of a link, and the   *)
(* hours that stand.                                                           *)

\* What a request carries at each await: its link, whose account, which zone.
Stages ==
  /\ \A w \in Requests :
       /\ req[w].at \in {"redeem", "find", "count", "create", "backfill", "session"} => req[w].link \in Links
       /\ req[w].at \notin {"idle", "redeem"} => req[w].who \in People
       /\ req[w].at = "backfill" => req[w].seen \in Zones
       /\ req[w].at \in {"backfill", "session", "role", "hours", "zone"} => Exists(req[w].who)
       /\ req[w].at \in {"hours", "zone"} => req[w].tz \in Zones
  /\ \A p \in People : Exists(p) => zone[p] \in Zones
  /\ \A l \in Links : link[l].state # "new" => link[l].email \in People

TypeInv == SignInTypeOK /\ Stages

LEMMA Basics ==
  People \in Policies /\ Policies \subseteq SUBSET People /\ None \notin People \cup Zones \cup Links
BY SignInAssumption

LEMMA IdleFields == Idle.at = "idle" /\ Idle.who = None /\ Idle.link = None
BY DEF Idle

LEMMA IdleLocals == Idle \in Locals
BY DEF Idle, Locals

LEMMA RedeemTypes ==
  ASSUME TypeInv, NEW w \in Requests, Redeem(w)
  PROVE  TypeInv'
<1> DEFINE l == req[w].link
           n == [req[w] EXCEPT !.at = "find", !.who = link[l].email]
<1>1. req[w] \in Locals /\ l \in Links
  BY DEF TypeInv, SignInTypeOK, Stages, Redeem, At
<1>2. CASE link[l].state = "sent"
  <2>1. req' = [req EXCEPT ![w] = n] /\ link' = [link EXCEPT ![l].state = "used"]
    BY <1>2 DEF Redeem, TypeInv, SignInTypeOK
  <2>2. link[l].email \in People
    BY <1>1, <1>2 DEF TypeInv, Stages
  <2>3. n \in Locals /\ n.at = "find" /\ n.who \in People /\ n.link \in Links
    BY <1>1, <2>2 DEF Locals
  <2> HIDE DEF n
  <2>4. SignInTypeOK'
    BY <1>1, <2>1, <2>3 DEF Redeem, TypeInv, SignInTypeOK, LinkRow
  <2>5. Stages'
    BY <1>1, <2>1, <2>3 DEF Redeem, TypeInv, SignInTypeOK, Stages, LinkRow, Exists
  <2> QED
    BY <2>4, <2>5 DEF TypeInv
<1>3. CASE link[l].state # "sent"
  <2>1. req' = [req EXCEPT ![w] = Idle] /\ link' = link
    BY <1>3 DEF Redeem, Ends
  <2>2. SignInTypeOK'
    BY <2>1, IdleLocals DEF Redeem, TypeInv, SignInTypeOK
  <2>3. Stages'
    BY <2>1 DEF Redeem, TypeInv, SignInTypeOK, Stages, Idle, Exists
  <2> QED
    BY <2>2, <2>3 DEF TypeInv
<1> QED
  BY <1>2, <1>3

LEMMA FindTypes ==
  ASSUME TypeInv, NEW w \in Requests, Find(w)
  PROVE  TypeInv'
<1> DEFINE p == req[w].who
           back == [req[w] EXCEPT !.at = "backfill", !.seen = zone[p], !.may = {}]
           count == [req[w] EXCEPT !.at = "count", !.may = {}]
           Fits(n) == /\ n \in Locals
                      /\ n.at \in {"backfill", "count"} => n.link \in Links /\ n.who = p
                      /\ n.at = "backfill" => n.seen \in Zones /\ Exists(p)
                      /\ n.at \in {"backfill", "count", "idle"}
<1>1. req[w] \in Locals /\ req[w].link \in Links /\ p \in People
  BY DEF TypeInv, SignInTypeOK, Stages, Find, At
<1>2. \E n : req' = [req EXCEPT ![w] = n] /\ Fits(n)
  <2>1. CASE Exists(p)
    <3>1. req' = [req EXCEPT ![w] = back]
      BY <2>1 DEF Find, TypeInv, SignInTypeOK
    <3>2. zone[p] \in Zones
      BY <1>1, <2>1 DEF TypeInv, Stages
    <3>3. Fits(back)
      BY <1>1, <2>1, <3>2 DEF Locals
    <3> QED
      BY <3>1, <3>3
  <2>2. CASE ~Exists(p) /\ p \in req[w].may
    <3>1. req' = [req EXCEPT ![w] = count]
      BY <2>2 DEF Find, TypeInv, SignInTypeOK
    <3>2. Fits(count)
      BY <1>1 DEF Locals
    <3> QED
      BY <3>1, <3>2
  <2>3. CASE ~Exists(p) /\ p \notin req[w].may
    <3>1. req' = [req EXCEPT ![w] = Idle]
      BY <2>3 DEF Find, Ends
    <3>2. Fits(Idle)
      BY IdleLocals DEF Idle
    <3> QED
      BY <3>1, <3>2
  <2> QED
    BY <2>1, <2>2, <2>3
<1>3. PICK n : req' = [req EXCEPT ![w] = n] /\ Fits(n)
  BY <1>2
<1>4. SignInTypeOK'
  BY <1>3 DEF Find, TypeInv, SignInTypeOK
<1>5. Stages'
  BY <1>1, <1>3 DEF Find, TypeInv, SignInTypeOK, Stages, Exists
<1> QED
  BY <1>4, <1>5 DEF TypeInv

LEMMA CountTypes ==
  ASSUME TypeInv, NEW w \in Requests, CountUsers(w)
  PROVE  TypeInv'
<1> DEFINE none == \A p \in People : ~Exists(p)
           n == [req[w] EXCEPT !.at = "create", !.first = none]
<1>1. req[w] \in Locals /\ req[w].link \in Links /\ req[w].who \in People
  BY DEF TypeInv, SignInTypeOK, Stages, CountUsers, At
<1>2. req' = [req EXCEPT ![w] = n]
  BY DEF CountUsers, TypeInv, SignInTypeOK
<1>3. none \in BOOLEAN
  OBVIOUS
<1> HIDE DEF none
<1>4. n \in Locals /\ n.at = "create" /\ n.link \in Links /\ n.who \in People
  BY <1>1, <1>3 DEF Locals
<1> HIDE DEF n
<1>5. SignInTypeOK'
  BY <1>2, <1>4 DEF CountUsers, TypeInv, SignInTypeOK
<1>6. Stages'
  BY <1>2, <1>4 DEF CountUsers, TypeInv, SignInTypeOK, Stages, Exists
<1> QED
  BY <1>5, <1>6 DEF TypeInv

LEMMA CreateTypes ==
  ASSUME TypeInv, NEW w \in Requests, NEW tz \in Zones, CreateUser(w, tz)
  PROVE  TypeInv'
<1> DEFINE n == [req[w] EXCEPT !.at = "backfill", !.seen = tz, !.first = FALSE]
           p == req[w].who
<1>1. req[w] \in Locals /\ req[w].link \in Links /\ p \in People
  BY DEF TypeInv, SignInTypeOK, Stages, CreateUser, At
<1>2. CASE Exists(p)
  <2>1. req' = [req EXCEPT ![w] = Idle] /\ UNCHANGED <<role, zone>>
    BY <1>2 DEF CreateUser, Ends
  <2>2. SignInTypeOK'
    BY <2>1, IdleLocals DEF CreateUser, TypeInv, SignInTypeOK
  <2>3. Stages'
    BY <2>1 DEF CreateUser, TypeInv, SignInTypeOK, Stages, Idle, Exists
  <2> QED
    BY <2>2, <2>3 DEF TypeInv
<1>3. CASE ~Exists(p)
  <2>1. req' = [req EXCEPT ![w] = n]
    BY <1>3 DEF CreateUser, TypeInv, SignInTypeOK
  <2>2. n \in Locals /\ n.at = "backfill" /\ n.link \in Links /\ n.who = p /\ n.seen \in Zones
    BY <1>1 DEF Locals
  <2> HIDE DEF n
  <2>3. /\ role' = [role EXCEPT ![p] = IF req[w].first THEN "admin" ELSE "member"]
        /\ zone' = [zone EXCEPT ![p] = tz]
    BY <1>3 DEF CreateUser
  <2>4. SignInTypeOK'
    BY <1>1, <2>1, <2>2, <2>3 DEF CreateUser, TypeInv, SignInTypeOK
  <2>5. \A q \in People : Exists(q)' <=> Exists(q) \/ q = p
    BY <1>1, <2>3 DEF Exists, TypeInv, SignInTypeOK
  <2>6. Stages'
    BY <1>1, <2>1, <2>2, <2>3, <2>5 DEF CreateUser, TypeInv, SignInTypeOK, Stages
  <2> QED
    BY <2>4, <2>6 DEF TypeInv
<1> QED
  BY <1>2, <1>3

LEMMA BackfillTypes ==
  ASSUME TypeInv, NEW w \in Requests, Backfill(w)
  PROVE  TypeInv'
<1> DEFINE n == [req[w] EXCEPT !.at = "session"]
           new == [tz |-> req[w].seen, own |-> FALSE]
<1>1. /\ req[w] \in Locals /\ req[w].link \in Links /\ req[w].who \in People
      /\ req[w].seen \in Zones /\ Exists(req[w].who)
  BY DEF TypeInv, SignInTypeOK, Stages, Backfill, At
<1>2. req' = [req EXCEPT ![w] = n]
  BY DEF Backfill, TypeInv, SignInTypeOK, Goes
<1>3. n \in Locals /\ n.at = "session" /\ n.who = req[w].who /\ n.link = req[w].link
  BY <1>1 DEF Locals
<1>4. new \in Hours
  BY <1>1 DEF Hours
<1>5. hours' = [hours EXCEPT ![req[w].who] = IF hours[req[w].who] = None THEN new ELSE hours[req[w].who]]
  BY DEF Backfill
<1> HIDE DEF n, new
<1>6. hours' \in [People -> Hours \cup {None}]
  BY <1>1, <1>4, <1>5 DEF TypeInv, SignInTypeOK
<1>7. SignInTypeOK'
  BY <1>2, <1>3, <1>6 DEF Backfill, TypeInv, SignInTypeOK
<1>8. Stages'
  BY <1>1, <1>2, <1>3 DEF Backfill, TypeInv, SignInTypeOK, Stages, Exists
<1> QED
  BY <1>7, <1>8 DEF TypeInv

LEMMA RoleTypes ==
  ASSUME TypeInv, NEW w \in Requests, SetRole(w)
  PROVE  TypeInv'
<1>1. req[w].who \in People /\ Exists(req[w].who) /\ req' = [req EXCEPT ![w] = Idle]
  BY DEF TypeInv, Stages, SetRole, At, Ends
<1>2. role' \in [People -> {"none", "member", "admin"}]
  BY <1>1 DEF TypeInv, SignInTypeOK, SetRole, Demoted
<1>3. SignInTypeOK'
  BY <1>1, <1>2, IdleLocals DEF TypeInv, SignInTypeOK, SetRole
<1>3a. \A p \in People : Exists(p)' <=> Exists(p)
  BY <1>1 DEF TypeInv, SignInTypeOK, SetRole, Demoted, Exists
<1>4. Stages'
  BY <1>1, <1>3a DEF TypeInv, SignInTypeOK, Stages, SetRole, Idle
<1> QED
  BY <1>3, <1>4 DEF TypeInv

LEMMA HoursTypes ==
  ASSUME TypeInv, NEW w \in Requests, SaveHours(w)
  PROVE  TypeInv'
<1> DEFINE n == [req[w] EXCEPT !.at = "zone"]
           new == [tz |-> req[w].tz, own |-> TRUE]
<1>1. req[w] \in Locals /\ req[w].who \in People /\ Exists(req[w].who) /\ req[w].tz \in Zones
  BY DEF TypeInv, SignInTypeOK, Stages, SaveHours, At
<1>2. PICK m \in {n, Idle} : req' = [req EXCEPT ![w] = m]
  BY DEF SaveHours, TypeInv, SignInTypeOK, Goes, Ends
<1>3. /\ m \in Locals /\ m.at \in {"zone", "idle"}
      /\ m.at = "zone" => m.who = req[w].who /\ m.tz \in Zones
  BY <1>1, <1>2, IdleLocals DEF Locals, Idle
<1>4. new \in Hours
  BY <1>1 DEF Hours
<1> HIDE DEF n, new
<1>5. SignInTypeOK'
  <2>1. hours' = [hours EXCEPT ![req[w].who] = new] /\ saved' = [saved EXCEPT ![req[w].who] = new]
    BY DEF SaveHours, new
  <2> QED
    BY <1>1, <1>2, <1>3, <1>4, <2>1 DEF SaveHours, TypeInv, SignInTypeOK
<1>6. Stages'
  BY <1>1, <1>2, <1>3 DEF SaveHours, TypeInv, SignInTypeOK, Stages, Exists
<1> QED
  BY <1>5, <1>6 DEF TypeInv

LEMMA TypesStep ==
  ASSUME TypeInv, [SignInNext]_signInVars
  PROVE  TypeInv'
<1>0. CASE UNCHANGED signInVars
  BY <1>0 DEF signInVars, TypeInv, SignInTypeOK, Stages, Exists
<1>1. ASSUME NEW l \in Links, LinkExpires(l)
      PROVE  TypeInv'
  BY <1>1, Basics
  DEF LinkExpires, TypeInv, SignInTypeOK, Stages, Hours, LinkRow, Locals, Idle, Exists, At, Ends, Goes
<1>2. ASSUME NEW l \in Links, NEW p \in People, RequestLink(l, p)
      PROVE  TypeInv'
  BY <1>2, Basics
  DEF RequestLink, TypeInv, SignInTypeOK, Stages, Hours, LinkRow, Locals, Idle, Exists, At, Ends, Goes
<1>3. ASSUME NEW w \in Requests, NEW l \in Links, OpenLink(w, l)
      PROVE  TypeInv'
  BY <1>3, Basics
  DEF OpenLink, TypeInv, SignInTypeOK, Stages, Hours, LinkRow, Locals, Idle, Exists, At, Ends, Goes
<1>4. ASSUME NEW w \in Requests, NEW l \in Links, NEW p \in People, CompleteIdentity(w, l, p)
      PROVE  TypeInv'
  BY <1>4, Basics
  DEF CompleteIdentity, TypeInv, SignInTypeOK, Stages, Hours, LinkRow, Locals, Idle, Exists, At, Ends, Goes
<1>5. ASSUME NEW w \in Requests, Redeem(w)
      PROVE  TypeInv'
  BY <1>5, RedeemTypes
<1>6. ASSUME NEW w \in Requests, Find(w)
      PROVE  TypeInv'
  BY <1>6, FindTypes
<1>7. ASSUME NEW w \in Requests, CountUsers(w)
      PROVE  TypeInv'
  BY <1>7, CountTypes
<1>8. ASSUME NEW w \in Requests, NEW tz \in Zones, CreateUser(w, tz)
      PROVE  TypeInv'
  BY <1>8, CreateTypes
<1>9. ASSUME NEW w \in Requests, Backfill(w)
      PROVE  TypeInv'
  BY <1>9, BackfillTypes
<1>10. ASSUME NEW w \in Requests, CreateSession(w)
      PROVE  TypeInv'
  BY <1>10, Basics
  DEF CreateSession, TypeInv, SignInTypeOK, Stages, Hours, LinkRow, Locals, Idle, Exists, At, Ends, Goes
<1>11. ASSUME NEW w \in Requests, NEW a \in People, NEW p \in People, NEW r \in {"admin", "member"}, OpenRole(w, a, p, r)
      PROVE  TypeInv'
  BY <1>11, Basics
  DEF OpenRole, TypeInv, SignInTypeOK, Stages, Hours, LinkRow, Locals, Idle, Exists, At, Ends, Goes
<1>12. ASSUME NEW w \in Requests, SetRole(w)
      PROVE  TypeInv'
  BY <1>12, RoleTypes
<1>13. ASSUME NEW w \in Requests, NEW p \in People, NEW tz \in Zones, OpenHours(w, p, tz)
      PROVE  TypeInv'
  BY <1>13, Basics
  DEF OpenHours, TypeInv, SignInTypeOK, Stages, Hours, LinkRow, Locals, Idle, Exists, At, Ends, Goes
<1>14. ASSUME NEW w \in Requests, SaveHours(w)
      PROVE  TypeInv'
  BY <1>14, HoursTypes
<1>15. ASSUME NEW w \in Requests, SaveZone(w)
      PROVE  TypeInv'
  BY <1>15, Basics
  DEF SaveZone, TypeInv, SignInTypeOK, Stages, Hours, LinkRow, Locals, Idle, Exists, At, Ends, Goes
<1>16. ASSUME NEW w \in Requests, Die(w)
      PROVE  TypeInv'
  BY <1>16, Basics
  DEF Die, TypeInv, SignInTypeOK, Stages, Hours, LinkRow, Locals, Idle, Exists, At, Ends, Goes
<1>17. ASSUME NEW a \in People, NEW policy \in Policies, SetSignups(a, policy)
      PROVE  TypeInv'
  BY <1>17, Basics
  DEF SetSignups, TypeInv, SignInTypeOK, Stages, Hours, LinkRow, Locals, Idle, Exists, At, Ends, Goes
<1> QED
  BY <1>0, <1>1, <1>2, <1>3, <1>4, <1>5, <1>6, <1>7, <1>8, <1>9, <1>10, <1>11, <1>12, <1>13, <1>14, <1>15, <1>16, <1>17 DEF SignInNext

-----------------------------------------------------------------------------
(* What the steps that branch do to the locals of their request. *)

Others(w) == \A v \in Requests \ {w} : req'[v] = req[v]

LEMMA RedeemShape ==
  ASSUME TypeInv, NEW w \in Requests, Redeem(w)
  PROVE  /\ Others(w) /\ req[w].at = "redeem" /\ req[w].link \in Links
         /\ \/ /\ link[req[w].link].state = "sent"
               /\ link' = [link EXCEPT ![req[w].link].state = "used"]
               /\ req'[w].at = "find" /\ req'[w].link = req[w].link /\ req'[w].who \in People
            \/ link' = link /\ req'[w] = Idle
<1> DEFINE l == req[w].link
           n == [req[w] EXCEPT !.at = "find", !.who = link[l].email]
<1>1. req[w] \in Locals /\ l \in Links /\ req[w].at = "redeem" /\ req \in [Requests -> Locals]
  BY DEF TypeInv, SignInTypeOK, Stages, Redeem, At
<1>2. CASE link[l].state = "sent"
  <2>1. req' = [req EXCEPT ![w] = n] /\ link' = [link EXCEPT ![l].state = "used"]
    BY <1>2 DEF Redeem, TypeInv, SignInTypeOK
  <2>2. link[l].email \in People
    BY <1>1, <1>2 DEF TypeInv, Stages
  <2>3. n.at = "find" /\ n.link = l /\ n.who \in People
    BY <1>1, <2>2 DEF Locals
  <2> QED
    BY <1>1, <1>2, <2>1, <2>3 DEF Others
<1>3. CASE link[l].state # "sent"
  BY <1>1, <1>3 DEF Redeem, Ends, Others
<1> QED
  BY <1>2, <1>3

LEMMA FindShape ==
  ASSUME TypeInv, NEW w \in Requests, Find(w)
  PROVE  /\ Others(w) /\ req[w].at = "find" /\ req[w].link \in Links /\ req[w].who \in People
         /\ \/ /\ Exists(req[w].who) /\ req'[w].at = "backfill" /\ req'[w].link = req[w].link
               /\ req'[w].who = req[w].who /\ req'[w].seen = zone[req[w].who]
            \/ /\ req'[w].at = "count" /\ req'[w].link = req[w].link /\ req'[w].who = req[w].who
            \/ req'[w] = Idle
<1> DEFINE p == req[w].who
           back == [req[w] EXCEPT !.at = "backfill", !.seen = zone[p], !.may = {}]
           count == [req[w] EXCEPT !.at = "count", !.may = {}]
<1>1. /\ req[w] \in Locals /\ req[w].link \in Links /\ p \in People
      /\ req[w].at = "find" /\ req \in [Requests -> Locals]
  BY DEF TypeInv, SignInTypeOK, Stages, Find, At
<1>2. back.at = "backfill" /\ back.link = req[w].link /\ back.who = p /\ back.seen = zone[p]
  BY <1>1 DEF Locals
<1>3. count.at = "count" /\ count.link = req[w].link /\ count.who = p
  BY <1>1 DEF Locals
<1>4. CASE Exists(p)
  <2>1. req' = [req EXCEPT ![w] = back]
    BY <1>4 DEF Find, TypeInv, SignInTypeOK
  <2> QED
    BY <1>1, <1>2, <1>4, <2>1 DEF Others
<1>5. CASE ~Exists(p) /\ p \in req[w].may
  <2>1. req' = [req EXCEPT ![w] = count]
    BY <1>5 DEF Find, TypeInv, SignInTypeOK
  <2> QED
    BY <1>1, <1>3, <2>1 DEF Others
<1>6. CASE ~Exists(p) /\ p \notin req[w].may
  BY <1>1, <1>6 DEF Find, Ends, Others
<1> QED
  BY <1>4, <1>5, <1>6

LEMMA CreateShape ==
  ASSUME TypeInv, NEW w \in Requests, NEW tz \in Zones, CreateUser(w, tz)
  PROVE  /\ Others(w) /\ req[w].at = "create" /\ req[w].link \in Links /\ req[w].who \in People
         /\ \/ Exists(req[w].who) /\ req'[w] = Idle /\ UNCHANGED <<role, zone>>
            \/ /\ ~Exists(req[w].who) /\ req'[w].at = "backfill" /\ req'[w].link = req[w].link
               /\ req'[w].who = req[w].who /\ req'[w].seen = tz
               /\ role' = [role EXCEPT ![req[w].who] = IF req[w].first THEN "admin" ELSE "member"]
               /\ zone' = [zone EXCEPT ![req[w].who] = tz]
<1> DEFINE n == [req[w] EXCEPT !.at = "backfill", !.seen = tz, !.first = FALSE]
<1>1. /\ req[w] \in Locals /\ req[w].link \in Links /\ req[w].who \in People
      /\ req[w].at = "create" /\ req \in [Requests -> Locals]
  BY DEF TypeInv, SignInTypeOK, Stages, CreateUser, At
<1>2. CASE Exists(req[w].who)
  BY <1>1, <1>2 DEF CreateUser, Ends, Others
<1>3. CASE ~Exists(req[w].who)
  <2>1. req' = [req EXCEPT ![w] = n]
    BY <1>3 DEF CreateUser, TypeInv, SignInTypeOK
  <2>2. n.at = "backfill" /\ n.link = req[w].link /\ n.who = req[w].who /\ n.seen = tz
    BY <1>1 DEF Locals
  <2> QED
    BY <1>1, <1>3, <2>1, <2>2 DEF CreateUser, Others
<1> QED
  BY <1>2, <1>3

LEMMA SaveShape ==
  ASSUME TypeInv, NEW w \in Requests, SaveHours(w)
  PROVE  /\ Others(w) /\ req[w].at = "hours" /\ req[w].who \in People /\ Exists(req[w].who)
         /\ hours' = [hours EXCEPT ![req[w].who] = [tz |-> req[w].tz, own |-> TRUE]]
         /\ saved' = [saved EXCEPT ![req[w].who] = [tz |-> req[w].tz, own |-> TRUE]]
         /\ req[w].tz \in Zones
         /\ \/ req[w].tz = req[w].seen /\ req'[w] = Idle
            \/ req'[w].at = "zone" /\ req'[w].who = req[w].who /\ req'[w].tz = req[w].tz
<1> DEFINE n == [req[w] EXCEPT !.at = "zone"]
<1>1. /\ req[w] \in Locals /\ req[w].at = "hours" /\ req[w].who \in People /\ Exists(req[w].who)
      /\ req[w].tz \in Zones /\ req \in [Requests -> Locals]
  BY DEF TypeInv, SignInTypeOK, Stages, SaveHours, At
<1>2. n.at = "zone" /\ n.who = req[w].who /\ n.tz = req[w].tz
  BY <1>1 DEF Locals
<1>3. CASE req[w].tz = req[w].seen
  BY <1>1, <1>3 DEF SaveHours, Ends, Others
<1>4. CASE req[w].tz # req[w].seen
  <2>1. req' = [req EXCEPT ![w] = n]
    BY <1>1, <1>4 DEF SaveHours, Goes
  <2> QED
    BY <1>1, <1>2, <2>1 DEF SaveHours, Others
<1> QED
  BY <1>3, <1>4

-----------------------------------------------------------------------------
(* The admin who remains. *)

\* Whoever is created as an ordinary member follows somebody.
AdminInv ==
  /\ AdminRemains
  /\ \A w \in Requests : req[w].at = "create" /\ req[w].first = FALSE => \E p \in People : Exists(p)

LEMMA AdminStep ==
  ASSUME TypeInv, AdminInv, [SignInNext]_signInVars
  PROVE  AdminInv'
<1>0. CASE UNCHANGED signInVars
  BY <1>0 DEF signInVars, AdminInv, AdminRemains, Admins, Exists
<1>1. ASSUME NEW l \in Links, LinkExpires(l)
      PROVE  AdminInv'
  BY <1>1, SignInAssumption
  DEF LinkExpires, TypeInv, SignInTypeOK, Stages, Exists, Idle, At, Ends, Goes, AdminInv, AdminRemains, Admins
<1>2. ASSUME NEW l \in Links, NEW p \in People, RequestLink(l, p)
      PROVE  AdminInv'
  BY <1>2, SignInAssumption
  DEF RequestLink, TypeInv, SignInTypeOK, Stages, Exists, Idle, At, Ends, Goes, AdminInv, AdminRemains, Admins
<1>3. ASSUME NEW w \in Requests, NEW l \in Links, OpenLink(w, l)
      PROVE  AdminInv'
  BY <1>3, SignInAssumption
  DEF OpenLink, TypeInv, SignInTypeOK, Stages, Exists, Idle, At, Ends, Goes, AdminInv, AdminRemains, Admins
<1>4. ASSUME NEW w \in Requests, NEW l \in Links, NEW p \in People, CompleteIdentity(w, l, p)
      PROVE  AdminInv'
  BY <1>4, SignInAssumption
  DEF CompleteIdentity, TypeInv, SignInTypeOK, Stages, Exists, Idle, At, Ends, Goes, AdminInv, AdminRemains, Admins
<1>5. ASSUME NEW w \in Requests, Redeem(w)
      PROVE  AdminInv'
  <2>1. Others(w) /\ req'[w].at # "create" /\ role' = role
    BY <1>5, RedeemShape DEF Redeem, Idle
  <2> QED
    BY <2>1 DEF Others, AdminInv, AdminRemains, Admins, Exists
<1>6. ASSUME NEW w \in Requests, Find(w)
      PROVE  AdminInv'
  <2>1. Others(w) /\ req'[w].at # "create" /\ role' = role
    BY <1>6, FindShape, IdleFields DEF Find
  <2> QED
    BY <2>1 DEF Others, AdminInv, AdminRemains, Admins, Exists
<1>7. ASSUME NEW w \in Requests, CountUsers(w)
      PROVE  AdminInv'
  BY <1>7, SignInAssumption
  DEF CountUsers, TypeInv, SignInTypeOK, Stages, Exists, Idle, At, Ends, Goes, AdminInv, AdminRemains, Admins
<1>8. ASSUME NEW w \in Requests, NEW tz \in Zones, CreateUser(w, tz)
      PROVE  AdminInv'
  <2> DEFINE p == req[w].who
  <2>1. Others(w) /\ p \in People /\ req'[w].at # "create" /\ req[w].at = "create"
    BY <1>8, CreateShape DEF Idle
  <2>2. CASE role' = role
    BY <2>1, <2>2 DEF Others, AdminInv, AdminRemains, Admins, Exists
  <2>3. CASE role' = [role EXCEPT ![p] = IF req[w].first THEN "admin" ELSE "member"] /\ ~Exists(p)
    <3>1. Admins' # {}
      <4>1. CASE req[w].first = TRUE
        BY <2>1, <2>3, <4>1 DEF TypeInv, SignInTypeOK, Admins
      <4>2. CASE req[w].first = FALSE
        <5>1. PICK q \in People : role[q] = "admin"
          BY <2>1, <4>2 DEF AdminInv, AdminRemains, Admins
        <5>2. q # p
          BY <2>3, <5>1 DEF Exists
        <5> QED
          BY <2>3, <5>1, <5>2 DEF TypeInv, SignInTypeOK, Admins
      <4>3. req[w].first \in BOOLEAN
        BY DEF TypeInv, SignInTypeOK, Locals
      <4> QED
        BY <4>1, <4>2, <4>3
    <3>2. \E q \in People : Exists(q)'
      BY <3>1 DEF Admins, Exists
    <3> QED
      BY <3>1, <3>2 DEF AdminInv, AdminRemains
  <2> QED
    BY <1>8, <2>2, <2>3, CreateShape
<1>9. ASSUME NEW w \in Requests, Backfill(w)
      PROVE  AdminInv'
  BY <1>9, SignInAssumption
  DEF Backfill, TypeInv, SignInTypeOK, Stages, Exists, Idle, At, Ends, Goes, AdminInv, AdminRemains, Admins
<1>10. ASSUME NEW w \in Requests, CreateSession(w)
      PROVE  AdminInv'
  BY <1>10, SignInAssumption
  DEF CreateSession, TypeInv, SignInTypeOK, Stages, Exists, Idle, At, Ends, Goes, AdminInv, AdminRemains, Admins
<1>11. ASSUME NEW w \in Requests, NEW a \in People, NEW p \in People, NEW r \in {"admin", "member"}, OpenRole(w, a, p, r)
      PROVE  AdminInv'
  BY <1>11, SignInAssumption
  DEF OpenRole, TypeInv, SignInTypeOK, Stages, Exists, Idle, At, Ends, Goes, AdminInv, AdminRemains, Admins
<1>12. ASSUME NEW w \in Requests, SetRole(w)
      PROVE  AdminInv'
  <2> DEFINE p == req[w].who
  <2>1. p \in People /\ Exists(p) /\ req' = [req EXCEPT ![w] = Idle]
    BY <1>12 DEF TypeInv, Stages, SetRole, At, Ends
  <2>2. PICK q \in People : role[q] = "admin"
    BY <2>1 DEF AdminInv, AdminRemains, Admins
  <2>3. CASE role' = [role EXCEPT ![p] = "admin"] \/ role' = role
    BY <2>1, <2>2, <2>3 DEF AdminInv, AdminRemains, Admins, Exists, TypeInv, SignInTypeOK, Idle
  <2>4. CASE Cardinality(Admins) > 1 /\ p \in Admins /\ role' = [role EXCEPT ![p] = "member"]
    <3>1. PICK o \in Admins : o # p
      <4>1. Cardinality({p}) = 1
        BY FS_Singleton
      <4>2. Admins # {p}
        BY <2>4, <4>1
      <4> QED
        BY <2>4, <4>2
    <3>2. role'[o] = "admin"
      BY <2>4, <3>1 DEF Admins, TypeInv, SignInTypeOK
    <3> QED
      BY <2>1, <3>1, <3>2 DEF AdminInv, AdminRemains, Admins, Exists, TypeInv, SignInTypeOK, Idle
  <2> QED
    BY <1>12, <2>3, <2>4 DEF SetRole, Demoted
<1>13. ASSUME NEW w \in Requests, NEW p \in People, NEW tz \in Zones, OpenHours(w, p, tz)
      PROVE  AdminInv'
  BY <1>13, SignInAssumption
  DEF OpenHours, TypeInv, SignInTypeOK, Stages, Exists, Idle, At, Ends, Goes, AdminInv, AdminRemains, Admins
<1>14. ASSUME NEW w \in Requests, SaveHours(w)
      PROVE  AdminInv'
  BY <1>14, SaveShape, SignInAssumption
  DEF SaveHours, Others, TypeInv, SignInTypeOK, Exists, Idle, AdminInv, AdminRemains, Admins
<1>15. ASSUME NEW w \in Requests, SaveZone(w)
      PROVE  AdminInv'
  BY <1>15, SignInAssumption
  DEF SaveZone, TypeInv, SignInTypeOK, Stages, Exists, Idle, At, Ends, Goes, AdminInv, AdminRemains, Admins
<1>16. ASSUME NEW w \in Requests, Die(w)
      PROVE  AdminInv'
  BY <1>16, SignInAssumption
  DEF Die, TypeInv, SignInTypeOK, Stages, Exists, Idle, At, Ends, Goes, AdminInv, AdminRemains, Admins
<1>17. ASSUME NEW a \in People, NEW policy \in Policies, SetSignups(a, policy)
      PROVE  AdminInv'
  BY <1>17, SignInAssumption
  DEF SetSignups, TypeInv, SignInTypeOK, Stages, Exists, Idle, At, Ends, Goes, AdminInv, AdminRemains, Admins
<1> QED
  BY <1>0, <1>1, <1>2, <1>3, <1>4, <1>5, <1>6, <1>7, <1>8, <1>9, <1>10, <1>11, <1>12, <1>13, <1>14, <1>15, <1>16, <1>17 DEF SignInNext

-----------------------------------------------------------------------------
(* One session per link. *)

Holds(w, l) == req[w].link = l /\ req[w].at \in {"find", "count", "create", "backfill", "session"}

\* Until a link is used nothing came of it; then one request has it, or one
\* session was opened with it.
LinkInv ==
  \A l \in Links :
    /\ link[l].state # "used" => opened[l] = 0 /\ \A w \in Requests : ~Holds(w, l)
    /\ opened[l] \in {0, 1}
    /\ opened[l] = 1 => \A w \in Requests : ~Holds(w, l)
    /\ \A v, w \in Requests : Holds(v, l) /\ Holds(w, l) => v = w

LEMMA LinkStep ==
  ASSUME TypeInv, LinkInv, [SignInNext]_signInVars
  PROVE  LinkInv'
<1>0. CASE UNCHANGED signInVars
  BY <1>0 DEF signInVars, LinkInv, Holds
<1>1. ASSUME NEW l \in Links, LinkExpires(l)
      PROVE  LinkInv'
  BY <1>1, SignInAssumption
  DEF LinkExpires, TypeInv, SignInTypeOK, Stages, Exists, Idle, At, Ends, Goes, LinkInv, Holds
<1>2. ASSUME NEW l \in Links, NEW p \in People, RequestLink(l, p)
      PROVE  LinkInv'
  BY <1>2, SignInAssumption
  DEF RequestLink, TypeInv, SignInTypeOK, Stages, Exists, Idle, At, Ends, Goes, LinkInv, Holds
<1>3. ASSUME NEW w \in Requests, NEW l \in Links, OpenLink(w, l)
      PROVE  LinkInv'
  BY <1>3, SignInAssumption
  DEF OpenLink, TypeInv, SignInTypeOK, Stages, Exists, Idle, At, Ends, Goes, LinkInv, Holds
<1>4. ASSUME NEW w \in Requests, NEW l \in Links, NEW p \in People, CompleteIdentity(w, l, p)
      PROVE  LinkInv'
  BY <1>4, SignInAssumption
  DEF CompleteIdentity, TypeInv, SignInTypeOK, Stages, Exists, Idle, At, Ends, Goes, LinkInv, Holds
<1>5. ASSUME NEW w \in Requests, Redeem(w)
      PROVE  LinkInv'
  <2>1. CASE link' = link /\ req'[w] = Idle
    <3>1. \A v \in Requests, l \in Links : Holds(v, l)' => Holds(v, l)
      BY <1>5, <2>1, RedeemShape, IdleFields DEF Others, Holds
    <3> QED
      BY <1>5, <2>1, <3>1 DEF Redeem, LinkInv
  <2>2. CASE ~(link' = link /\ req'[w] = Idle)
    <3> DEFINE r == req[w].link
    <3>1. /\ Others(w) /\ r \in Links /\ link[r].state = "sent" /\ req'[w].link = r /\ req'[w].at = "find"
          /\ link' = [link EXCEPT ![r].state = "used"] /\ opened' = opened
      BY <1>5, <2>2, RedeemShape DEF Redeem
    <3>2. \A v \in Requests, l \in Links : Holds(v, l)' <=> Holds(v, l) \/ (v = w /\ l = r)
      BY <1>5, <3>1, RedeemShape DEF Others, Holds
    <3>3. \A l \in Links : link'[l].state = IF l = r THEN "used" ELSE link[l].state
      BY <3>1 DEF TypeInv, SignInTypeOK, LinkRow
    <3> QED
      BY <3>1, <3>2, <3>3 DEF LinkInv
  <2> QED
    BY <2>1, <2>2
<1>6. ASSUME NEW w \in Requests, Find(w)
      PROVE  LinkInv'
  <2>1. \A v \in Requests, l \in Links : Holds(v, l)' => Holds(v, l)
    BY <1>6, FindShape DEF Others, Holds, Idle
  <2> QED
    BY <1>6, <2>1 DEF Find, LinkInv
<1>7. ASSUME NEW w \in Requests, CountUsers(w)
      PROVE  LinkInv'
  BY <1>7, SignInAssumption
  DEF CountUsers, TypeInv, SignInTypeOK, Stages, Exists, Idle, At, Ends, Goes, LinkInv, Holds
<1>8. ASSUME NEW w \in Requests, NEW tz \in Zones, CreateUser(w, tz)
      PROVE  LinkInv'
  <2>1. \A v \in Requests, l \in Links : Holds(v, l)' => Holds(v, l)
    BY <1>8, CreateShape DEF Others, Holds, Idle
  <2> QED
    BY <1>8, <2>1 DEF CreateUser, LinkInv
<1>9. ASSUME NEW w \in Requests, Backfill(w)
      PROVE  LinkInv'
  BY <1>9, SignInAssumption
  DEF Backfill, TypeInv, SignInTypeOK, Stages, Exists, Idle, At, Ends, Goes, LinkInv, Holds
<1>10. ASSUME NEW w \in Requests, CreateSession(w)
      PROVE  LinkInv'
  BY <1>10, SignInAssumption
  DEF CreateSession, TypeInv, SignInTypeOK, Stages, Exists, Idle, At, Ends, Goes, LinkInv, Holds
<1>11. ASSUME NEW w \in Requests, NEW a \in People, NEW p \in People, NEW r \in {"admin", "member"}, OpenRole(w, a, p, r)
      PROVE  LinkInv'
  BY <1>11, SignInAssumption
  DEF OpenRole, TypeInv, SignInTypeOK, Stages, Exists, Idle, At, Ends, Goes, LinkInv, Holds
<1>12. ASSUME NEW w \in Requests, SetRole(w)
      PROVE  LinkInv'
  BY <1>12, SignInAssumption
  DEF SetRole, Demoted, Admins, TypeInv, SignInTypeOK, Stages, Exists, Idle, At, Ends, Goes, LinkInv, Holds
<1>13. ASSUME NEW w \in Requests, NEW p \in People, NEW tz \in Zones, OpenHours(w, p, tz)
      PROVE  LinkInv'
  BY <1>13, SignInAssumption
  DEF OpenHours, TypeInv, SignInTypeOK, Stages, Exists, Idle, At, Ends, Goes, LinkInv, Holds
<1>14. ASSUME NEW w \in Requests, SaveHours(w)
      PROVE  LinkInv'
  <2>1. \A v \in Requests, l \in Links : Holds(v, l)' => Holds(v, l)
    BY <1>14, SaveShape, IdleFields DEF Others, Holds
  <2> QED
    BY <1>14, <2>1 DEF SaveHours, LinkInv
<1>15. ASSUME NEW w \in Requests, SaveZone(w)
      PROVE  LinkInv'
  BY <1>15, SignInAssumption
  DEF SaveZone, TypeInv, SignInTypeOK, Stages, Exists, Idle, At, Ends, Goes, LinkInv, Holds
<1>16. ASSUME NEW w \in Requests, Die(w)
      PROVE  LinkInv'
  BY <1>16, SignInAssumption
  DEF Die, TypeInv, SignInTypeOK, Stages, Exists, Idle, At, Ends, Goes, LinkInv, Holds
<1>17. ASSUME NEW a \in People, NEW policy \in Policies, SetSignups(a, policy)
      PROVE  LinkInv'
  BY <1>17, SignInAssumption
  DEF SetSignups, TypeInv, SignInTypeOK, Stages, Exists, Idle, At, Ends, Goes, LinkInv, Holds
<1> QED
  BY <1>0, <1>1, <1>2, <1>3, <1>4, <1>5, <1>6, <1>7, <1>8, <1>9, <1>10, <1>11, <1>12, <1>13, <1>14, <1>15, <1>16, <1>17 DEF SignInNext

-----------------------------------------------------------------------------
(* The hours that stand. *)

\* Why the hours agree with the profile once no save is under way.
HoursInv ==
  /\ ScheduleStands
  /\ \A p \in People : ~Exists(p) => hours[p] = None
  /\ \A p \in People \ torn : \A v, w \in Saving(p) : v = w
  /\ \A w \in Requests :
       /\ req[w].at = "backfill" /\ hours[req[w].who] = None => req[w].seen = zone[req[w].who]
       /\ req[w].at = "zone" => hours[req[w].who] # None
       /\ req[w].who \notin torn =>
            /\ req[w].at = "hours" =>
                 /\ req[w].seen = zone[req[w].who]
                 /\ hours[req[w].who] # None => hours[req[w].who].tz = zone[req[w].who]
            /\ req[w].at = "zone" => hours[req[w].who].tz = req[w].tz

\* A step that leaves the tables alone and takes a request to neither.
LEMMA HoursQuiet ==
  ASSUME HoursInv, NEW w \in Requests, Others(w), req[w].at \notin {"hours", "zone"},
         req'[w].at \notin {"backfill", "hours", "zone"}, UNCHANGED <<role, zone, hours, saved, torn>>
  PROVE  HoursInv'
BY DEF Others, HoursInv, ScheduleStands, Saving, Exists

LEMMA HoursStep ==
  ASSUME TypeInv, HoursInv, [SignInNext]_signInVars
  PROVE  HoursInv'
<1>0. CASE UNCHANGED signInVars
  BY <1>0 DEF signInVars, HoursInv, ScheduleStands, Saving, Exists
<1>1. ASSUME NEW l \in Links, LinkExpires(l)
      PROVE  HoursInv'
  BY <1>1, SignInAssumption
  DEF LinkExpires, TypeInv, SignInTypeOK, Stages, Exists, Idle, At, Ends, Goes, HoursInv, ScheduleStands, Saving, Hours
<1>2. ASSUME NEW l \in Links, NEW p \in People, RequestLink(l, p)
      PROVE  HoursInv'
  BY <1>2, SignInAssumption
  DEF RequestLink, TypeInv, SignInTypeOK, Stages, Exists, Idle, At, Ends, Goes, HoursInv, ScheduleStands, Saving, Hours
<1>3. ASSUME NEW w \in Requests, NEW l \in Links, OpenLink(w, l)
      PROVE  HoursInv'
  BY <1>3, SignInAssumption
  DEF OpenLink, TypeInv, SignInTypeOK, Stages, Exists, Idle, At, Ends, Goes, HoursInv, ScheduleStands, Saving, Hours
<1>4. ASSUME NEW w \in Requests, NEW l \in Links, NEW p \in People, CompleteIdentity(w, l, p)
      PROVE  HoursInv'
  BY <1>4, SignInAssumption
  DEF CompleteIdentity, TypeInv, SignInTypeOK, Stages, Exists, Idle, At, Ends, Goes, HoursInv, ScheduleStands, Saving, Hours
<1>5. ASSUME NEW w \in Requests, Redeem(w)
      PROVE  HoursInv'
  <2>1. /\ Others(w) /\ req[w].at = "redeem" /\ req'[w].at \in {"find", "idle"}
        /\ UNCHANGED <<role, zone, hours, saved, torn>>
    BY <1>5, RedeemShape DEF Redeem, Idle
  <2> QED
    BY <2>1, HoursQuiet
<1>6. ASSUME NEW w \in Requests, Find(w)
      PROVE  HoursInv'
  <2>1. UNCHANGED <<role, zone, hours, saved, torn>>
    BY <1>6 DEF Find
  <2>2. CASE req'[w].at \in {"count", "idle"}
    BY <1>6, <2>1, <2>2, FindShape, HoursQuiet
  <2>3. CASE /\ req'[w].at = "backfill" /\ req'[w].who = req[w].who /\ req'[w].seen = zone[req[w].who]
    BY <1>6, <2>1, <2>3, FindShape DEF Others, HoursInv, ScheduleStands, Saving, Exists
  <2> QED
    BY <1>6, <2>2, <2>3, FindShape DEF Idle
<1>7. ASSUME NEW w \in Requests, CountUsers(w)
      PROVE  HoursInv'
  BY <1>7, SignInAssumption
  DEF CountUsers, TypeInv, SignInTypeOK, Stages, Exists, Idle, At, Ends, Goes, HoursInv, ScheduleStands, Saving, Hours
<1>8. ASSUME NEW w \in Requests, NEW tz \in Zones, CreateUser(w, tz)
      PROVE  HoursInv'
  <2> DEFINE p == req[w].who
  <2>1. /\ Others(w) /\ req[w].at = "create" /\ p \in People
        /\ UNCHANGED <<hours, saved, torn>>
    BY <1>8, CreateShape DEF CreateUser
  <2>2. CASE req'[w] = Idle /\ UNCHANGED <<role, zone>>
    BY <2>1, <2>2, IdleFields, HoursQuiet
  <2>3. CASE ~(req'[w] = Idle /\ UNCHANGED <<role, zone>>)
    <3>1. /\ ~Exists(p) /\ req'[w].at = "backfill" /\ req'[w].who = p /\ req'[w].seen = tz
          /\ zone' = [zone EXCEPT ![p] = tz]
          /\ role' = [role EXCEPT ![p] = IF req[w].first THEN "admin" ELSE "member"]
      BY <1>8, <2>3, CreateShape
    <3>2. \A q \in People : /\ q # p => zone'[q] = zone[q] /\ (Exists(q)' <=> Exists(q))
                            /\ zone'[p] = tz /\ Exists(p)'
      BY <2>1, <3>1 DEF TypeInv, SignInTypeOK, Exists
    <3>3. hours[p] = None /\ saved[p] = None
      BY <2>1, <3>1 DEF HoursInv, ScheduleStands
    <3>4. \A v \in Requests : req[v].at \in {"backfill", "hours", "zone"} => req[v].who # p /\ req[v].who \in People
      BY <3>1 DEF TypeInv, Stages
    <3>5. \A q \in People : Saving(q)' = Saving(q)
      BY <2>1, <3>1 DEF Others, Saving
    <3>6. ScheduleStands'
      BY <2>1, <3>2, <3>3, <3>5 DEF HoursInv, ScheduleStands
    <3>7. \A v \in Requests : v # w => req'[v] = req[v]
      BY <2>1 DEF Others
    <3> QED
      BY <2>1, <3>1, <3>2, <3>3, <3>4, <3>5, <3>6, <3>7 DEF HoursInv
  <2> QED
    BY <2>2, <2>3
<1>9. ASSUME NEW w \in Requests, Backfill(w)
      PROVE  HoursInv'
  BY <1>9, SignInAssumption
  DEF Backfill, TypeInv, SignInTypeOK, Stages, Exists, Idle, At, Ends, Goes, HoursInv, ScheduleStands, Saving, Hours
<1>10. ASSUME NEW w \in Requests, CreateSession(w)
      PROVE  HoursInv'
  BY <1>10, SignInAssumption
  DEF CreateSession, TypeInv, SignInTypeOK, Stages, Exists, Idle, At, Ends, Goes, HoursInv, ScheduleStands, Saving, Hours
<1>11. ASSUME NEW w \in Requests, NEW a \in People, NEW p \in People, NEW r \in {"admin", "member"}, OpenRole(w, a, p, r)
      PROVE  HoursInv'
  BY <1>11, SignInAssumption
  DEF OpenRole, TypeInv, SignInTypeOK, Stages, Exists, Idle, At, Ends, Goes, HoursInv, ScheduleStands, Saving, Hours
<1>12. ASSUME NEW w \in Requests, SetRole(w)
      PROVE  HoursInv'
  BY <1>12, SignInAssumption
  DEF SetRole, Demoted, Admins, TypeInv, SignInTypeOK, Stages, Exists, Idle, At, Ends, Goes, HoursInv, ScheduleStands, Saving, Hours
<1>13. ASSUME NEW w \in Requests, NEW p \in People, NEW tz \in Zones, OpenHours(w, p, tz)
      PROVE  HoursInv'
  BY <1>13, SignInAssumption
  DEF OpenHours, TypeInv, SignInTypeOK, Stages, Exists, Idle, At, Ends, Goes, HoursInv, ScheduleStands, Saving, Hours
<1>14. ASSUME NEW w \in Requests, SaveHours(w)
      PROVE  HoursInv'
  <2> DEFINE new == [tz |-> req[w].tz, own |-> TRUE]
  <2>0. PICK p \in People : p = req[w].who
    BY <1>14, SaveShape
  <2>1. /\ Others(w) /\ req[w].at = "hours" /\ p = req[w].who /\ Exists(p)
        /\ hours' = [hours EXCEPT ![p] = new] /\ saved' = [saved EXCEPT ![p] = new]
        /\ UNCHANGED <<role, zone, torn>>
    BY <1>14, <2>0, SaveShape DEF SaveHours
  <2>2. \/ req[w].tz = req[w].seen /\ req'[w].at = "idle"
        \/ req'[w].at = "zone" /\ req'[w].who = p /\ req'[w].tz = req[w].tz
    BY <1>14, <2>0, SaveShape, IdleFields
  <2>3. /\ hours'[p] = new /\ saved'[p] = new /\ new.tz = req[w].tz /\ new # None
        /\ \A q \in People : q # p => hours'[q] = hours[q] /\ saved'[q] = saved[q]
    <3>1. new \in Hours
      BY <1>14, SaveShape DEF Hours
    <3>2. new # None
      BY <3>1, SignInAssumption DEF Hours
    <3>3. new.tz = req[w].tz
      OBVIOUS
    <3> HIDE DEF new
    <3> QED
      BY <2>1, <3>2, <3>3 DEF TypeInv, SignInTypeOK
  <2>4. \A v \in Requests : v # w => req'[v] = req[v]
    BY <2>1 DEF Others
  <2>5. p \notin torn => /\ req[w].seen = zone[p]
                         /\ \A v \in Saving(p) : v = w
    BY <2>1 DEF HoursInv, Saving
  <2>6. \A q \in People : q # p => Saving(q)' = Saving(q)
    BY <2>1, <2>2, <2>4 DEF Saving
  <2>7. Saving(p)' \subseteq Saving(p) /\ (Saving(p)' = {} => req'[w].at = "idle")
    <3>1. Saving(p)' \subseteq Saving(p)
      BY <2>1, <2>2, <2>4 DEF Saving
    <3>2. req'[w].at = "zone" => w \in Saving(p)'
      BY <2>2 DEF Saving
    <3> QED
      BY <2>2, <3>1, <3>2
  <2>8. ScheduleStands'
    BY <2>1, <2>2, <2>3, <2>5, <2>6, <2>7 DEF HoursInv, ScheduleStands
  <2>9. \A q \in People : ~Exists(q)' => hours'[q] = None
    BY <2>1, <2>3 DEF HoursInv, Exists
  <2>10. \A q \in People \ torn' : \A u, v \in Saving(q)' : u = v
    <3>1. \A q \in People \ torn : \A u, v \in Saving(q) : u = v
      BY DEF HoursInv
    <3>2. \A q \in People : Saving(q)' \subseteq Saving(q)
      BY <2>6, <2>7
    <3> QED
      BY <2>1, <3>1, <3>2
  <2>11. \A v \in Requests : v # w /\ req[v].at \in {"hours", "zone"} /\ req[v].who \notin torn =>
           req[v].who # p
    BY <2>5 DEF Saving
  <2>12. \A v \in Requests : req[v].at \in {"backfill", "hours", "zone"} => req[v].who \in People
    BY DEF TypeInv, Stages
  <2> QED
    BY <2>1, <2>2, <2>3, <2>4, <2>8, <2>9, <2>10, <2>11, <2>12 DEF HoursInv
<1>15. ASSUME NEW w \in Requests, SaveZone(w)
      PROVE  HoursInv'
  BY <1>15, SignInAssumption
  DEF SaveZone, TypeInv, SignInTypeOK, Stages, Exists, Idle, At, Ends, Goes, HoursInv, ScheduleStands, Saving, Hours
<1>16. ASSUME NEW w \in Requests, Die(w)
      PROVE  HoursInv'
  BY <1>16, SignInAssumption
  DEF Die, TypeInv, SignInTypeOK, Stages, Exists, Idle, At, Ends, Goes, HoursInv, ScheduleStands, Saving, Hours
<1>17. ASSUME NEW a \in People, NEW policy \in Policies, SetSignups(a, policy)
      PROVE  HoursInv'
  BY <1>17, SignInAssumption
  DEF SetSignups, TypeInv, SignInTypeOK, Stages, Exists, Idle, At, Ends, Goes, HoursInv, ScheduleStands, Saving, Hours
<1> QED
  BY <1>0, <1>1, <1>2, <1>3, <1>4, <1>5, <1>6, <1>7, <1>8, <1>9, <1>10, <1>11, <1>12, <1>13, <1>14, <1>15, <1>16, <1>17 DEF SignInNext

-----------------------------------------------------------------------------
(* The theorems. *)

IInv == TypeInv /\ AdminInv /\ LinkInv /\ HoursInv

LEMMA InitIInv == SignInInit => IInv
<1> SUFFICES ASSUME SignInInit PROVE IInv
  OBVIOUS
<1>1. TypeInv
  BY Basics, IdleLocals, IdleFields DEF SignInInit, TypeInv, SignInTypeOK, Stages, LinkRow, Exists
<1>2. AdminInv
  BY IdleFields DEF SignInInit, AdminInv, AdminRemains, Exists
<1>3. LinkInv
  BY IdleFields DEF SignInInit, LinkInv, Holds
<1>4. HoursInv
  BY IdleFields DEF SignInInit, HoursInv, ScheduleStands, Saving
<1> QED
  BY <1>1, <1>2, <1>3, <1>4 DEF IInv

LEMMA Invariance == SignInSpec => []IInv
<1>1. IInv /\ [SignInNext]_signInVars => IInv'
  BY TypesStep, AdminStep, LinkStep, HoursStep DEF IInv
<1> QED
  BY <1>1, InitIInv, PTL DEF SignInSpec

\* Accounts, links, hours and the locals of every request keep their types.
THEOREM SignInTypes == SignInSpec => []SignInTypeOK
<1>1. IInv => SignInTypeOK
  BY DEF IInv, TypeInv
<1> QED
  BY <1>1, Invariance, PTL

\* An instance that has users has an admin: first sign-ups that race, crossing
\* demotions and requests that die included (auth-flows.ts, setRole).
THEOREM AdminAlwaysRemains == SignInSpec => []AdminRemains
<1>1. IInv => AdminRemains
  BY DEF IInv, AdminInv
<1> QED
  BY <1>1, Invariance, PTL

\* However many requests redeem a link at once, one session comes of it.
THEOREM LinkOpensOnce == SignInSpec => []OneSessionPerLink
<1>1. ASSUME IInv PROVE OneSessionPerLink
  <2> SUFFICES ASSUME NEW l \in Links
               PROVE  opened[l] + Cardinality({w \in Requests : Holds(w, l)}) <= 1
    BY DEF OneSessionPerLink, Holds
  <2> DEFINE H == {w \in Requests : Holds(w, l)}
  <2>1. opened[l] \in {0, 1} /\ (opened[l] = 1 => H = {}) /\ \A v, w \in H : v = w
    BY <1>1 DEF IInv, LinkInv
  <2>2. H = {} \/ \E w : H = {w}
    BY <2>1
  <2>3. Cardinality(H) = 0 \/ (Cardinality(H) = 1 /\ H # {})
    BY <2>2, FS_EmptySet, FS_Singleton
  <2> HIDE DEF H
  <2>4. H = {} => Cardinality(H) = 0
    BY FS_EmptySet
  <2>5. opened[l] + Cardinality(H) <= 1
    BY <2>1, <2>3, <2>4
  <2> QED
    BY <2>5 DEF H
<1> QED
  BY <1>1, Invariance, PTL

\* Saved hours survive every login, and agree with the profile's timezone.
THEOREM HoursStand == SignInSpec => []ScheduleStands
<1>1. IInv => ScheduleStands
  BY DEF IInv, HoursInv
<1> QED
  BY <1>1, Invariance, PTL

-----------------------------------------------------------------------------
(* Public addresses. *)

Owners == Hosts \cup Teams

FormRows ==
  [at: {"idle", "claim", "spread", "add", "remove", "create", "update", "patch", "delete"},
   owner: Owners \cup {NoOne}, slug: Slugs \cup {NoOne}, by: Hosts \cup {NoOne},
   listing: Listings \cup {NoOne}, path: Paths \cup {NoOne}, active: BOOLEAN]

PlacesTypeOK ==
  /\ slug \in [Owners -> Slugs \cup {NoOne}]
  /\ members \in [Teams -> SUBSET Hosts]
  /\ listing \in [Listings -> [owner: Owners \cup {NoOne}, path: Paths \cup {NoOne}, active: BOOLEAN]]
  /\ form \in [Forms -> FormRows]
  /\ raced \subseteq Slugs

Manned(t) == members[t] # {}

\* What a request carries at each await. A team that anybody published for has
\* a member, and keeps one.
FormOK(f) ==
  /\ f.at \in {"claim", "spread"} <=> f.slug # NoOne
  /\ f.at = "claim" => f.owner \in Owners /\ f.by \in Hosts
  /\ f.at \in {"add", "remove"} => f.owner \in Teams /\ f.by \in Hosts
  /\ f.at \in {"create", "update", "patch", "delete"} => f.listing \in Listings
  /\ f.at \in {"create", "update"} => f.owner \in Owners /\ (f.owner \in Teams => Manned(f.owner))

FormInv == \A w \in Forms : FormOK(form[w])

MemberInv ==
  /\ \A t \in Teams : IsFiniteSet(members[t])
  /\ TeamsManned
  /\ \A e \in Listings : listing[e].owner \in Teams => Manned(listing[e].owner)

\* A slug nobody raced for has one owner at most, and one request about to
\* give it to another.
Unshared(s) ==
  /\ \A v, w \in Claiming(s) : v = w
  /\ \A o \in Owners :
       (slug[o] = s \/ \E w \in Claiming(s) : form[w].at = "claim" /\ form[w].owner = o) => ~TakenFor(o, s)

ClaimInv == \A s \in Slugs \ raced : Unshared(s)

\* event_types_user_slug_idx and event_types_team_slug_idx.
IndexInv ==
  /\ \A e \in Listings : listing[e].active => Stored(e)
  /\ \A d, e \in Listings : d # e /\ Stored(d) /\ listing[d].owner = listing[e].owner => listing[d].path # listing[e].path

PlacesInv == PlacesTypeOK /\ FormInv /\ MemberInv /\ ClaimInv /\ IndexInv

LEMMA NoOneIsNot ==
  NoOne \notin Slugs /\ NoOne \notin Hosts /\ NoOne \notin Teams /\ NoOne \notin Owners /\ \A t \in Teams : t \notin Hosts
  BY PlacesAssumption DEF Owners

\* One request goes on; the others stand still.
LEMMA OneForm ==
  ASSUME PlacesInv, NEW w \in Forms, NEW f \in FormRows, Continue(w, f)
  PROVE  /\ form' \in [Forms -> FormRows] /\ form'[w] = f
         /\ \A v \in Forms \ {w} : form'[v] = form[v]
  BY DEF PlacesInv, PlacesTypeOK, Continue

LEMMA BlankIs ==
  /\ Blank \in FormRows /\ FormOK(Blank) /\ FormOK(Blank)' /\ Blank.slug = NoOne /\ Blank.at = "idle"
  BY DEF Blank, FormRows, FormOK

\* Members that stay, or are joined.
LEMMA FormsKept ==
  ASSUME PlacesInv, NEW w \in Forms, NEW f \in FormRows, Continue(w, f), FormOK(f)',
         \A t \in Teams : Manned(t) => Manned(t)'
  PROVE  FormInv'
<1>1. \A v \in Forms \ {w} : form'[v] = form[v] /\ FormOK(form[v])
  BY OneForm DEF PlacesInv, FormInv
<1>2. \A v \in Forms \ {w} : FormOK(form[v])'
  BY <1>1 DEF FormOK
<1>3. form'[w] = f
  BY OneForm
<1> QED
  BY <1>1, <1>2, <1>3 DEF FormInv, FormOK

\* Nothing that is not on its way to a slug matters to who may have it.
LEMMA ClaimsKept ==
  ASSUME ClaimInv, UNCHANGED <<slug, raced>>,
         \A v \in Forms : form'[v] = form[v] \/ form'[v].slug = NoOne
  PROVE  ClaimInv'
<1>1. \A s \in Slugs : Claiming(s)' \subseteq Claiming(s) /\ \A v \in Claiming(s)' : form'[v] = form[v]
  BY NoOneIsNot DEF Claiming
<1>2. \A s \in Slugs, o \in Owners : TakenFor(o, s)' <=> TakenFor(o, s)
  BY DEF TakenFor
<1>3. ASSUME NEW s \in Slugs, Unshared(s)
      PROVE  Unshared(s)'
  BY <1>1, <1>2, <1>3 DEF Unshared
<1> QED
  BY <1>3 DEF ClaimInv

\* A form is opened, broken off or forgotten.
LEMMA Neutral ==
  ASSUME PlacesInv, NEW w \in Forms, NEW f \in FormRows, Continue(w, f), FormOK(f), f.slug = NoOne,
         UNCHANGED <<slug, members, listing, raced>>
  PROVE  PlacesInv'
<1>1. /\ form' \in [Forms -> FormRows] /\ form'[w] = f
      /\ \A v \in Forms \ {w} : form'[v] = form[v]
  BY OneForm
<1>2. PlacesTypeOK'
  BY <1>1 DEF PlacesInv, PlacesTypeOK
<1>3. FormInv'
  BY FormsKept DEF FormOK, Manned
<1>4. MemberInv' /\ IndexInv'
  BY DEF PlacesInv, MemberInv, IndexInv, TeamsManned, Known, Manned, Stored
<1>5. ClaimInv'
  BY <1>1, ClaimsKept DEF PlacesInv
<1> QED
  BY <1>2, <1>3, <1>4, <1>5 DEF PlacesInv

LEMMA ClaimStep ==
  ASSUME PlacesInv, NEW w \in Forms, NEW by \in Hosts, NEW o \in Owners, NEW s \in Slugs, Claim(w, by, o, s)
  PROVE  PlacesInv'
<1> DEFINE f == [Blank EXCEPT !.at = "claim", !.owner = o, !.slug = s, !.by = by]
<1>1. /\ f \in FormRows /\ f.at = "claim" /\ f.owner = o /\ f.slug = s /\ f.by = by
  BY DEF Blank, FormRows
<1>2. /\ Continue(w, f) /\ UNCHANGED <<slug, members, listing>> /\ MayPass(o, s) /\ form[w].at = "idle"
      /\ raced' = IF Claiming(s) = {} THEN raced ELSE raced \cup {s}
  BY DEF Claim, Doing
<1> HIDE DEF f
<1>3. /\ form' \in [Forms -> FormRows] /\ form'[w] = f
      /\ \A v \in Forms \ {w} : form'[v] = form[v]
  BY <1>1, <1>2, OneForm
<1>4. PlacesTypeOK'
  BY <1>2, <1>3 DEF PlacesInv, PlacesTypeOK
<1>5. FormInv'
  <2>1. FormOK(f)'
    BY <1>1, NoOneIsNot DEF FormOK
  <2> QED
    BY <1>1, <1>2, <2>1, FormsKept DEF Manned
<1>6. MemberInv' /\ IndexInv'
  BY <1>2 DEF PlacesInv, MemberInv, IndexInv, TeamsManned, Known, Manned, Stored
<1>7. ASSUME NEW r \in Slugs \ raced'
      PROVE  Unshared(r)'
  <2>1. Unshared(r) /\ (r = s => Claiming(s) = {})
    BY <1>2 DEF PlacesInv, ClaimInv
  <2>2. \A q \in Owners : TakenFor(q, r)' <=> TakenFor(q, r)
    BY <1>2 DEF TakenFor
  <2>3. CASE r = s
    <3>1. Claiming(r)' \subseteq {w}
      BY <1>3, <2>1, <2>3 DEF Claiming
    <3>2. ~TakenFor(o, s)
      BY <1>2, <2>1, <2>3 DEF MayPass
    <3> QED
      BY <1>1, <1>2, <1>3, <2>1, <2>2, <2>3, <3>1, <3>2 DEF Unshared
  <2>4. CASE r # s
    <3>1. Claiming(r)' \subseteq Claiming(r) /\ w \notin Claiming(r)'
      BY <1>1, <1>3, <2>4 DEF Claiming
    <3>2. \A v \in Claiming(r)' : form'[v] = form[v]
      BY <1>3, <3>1 DEF Claiming
    <3> QED
      BY <1>2, <2>1, <2>2, <3>1, <3>2 DEF Unshared
  <2> QED
    BY <2>3, <2>4
<1>8. ClaimInv'
  BY <1>7 DEF ClaimInv
<1> QED
  BY <1>4, <1>5, <1>6, <1>8 DEF PlacesInv

\* An owner gets the slug of the request that writes it, and the request stays
\* until the replicas have it.
LEMMA SlugGiven ==
  ASSUME PlacesInv, NEW w \in Forms, form[w].at = "claim",
         slug' = [slug EXCEPT ![form[w].owner] = form[w].slug], Continue(w, [form[w] EXCEPT !.at = "spread"]),
         UNCHANGED <<listing, raced>>, members' \in [Teams -> SUBSET Hosts],
         \A t \in Teams : Manned(t) => Manned(t)'
  PROVE  PlacesTypeOK' /\ FormInv' /\ ClaimInv' /\ IndexInv'
<1> DEFINE o == form[w].owner
           s == form[w].slug
<1>1. form[w] \in FormRows /\ o \in Owners /\ s \in Slugs
  BY NoOneIsNot DEF PlacesInv, PlacesTypeOK, FormInv, FormOK, FormRows
<1>2. PICK f \in FormRows : f = [form[w] EXCEPT !.at = "spread"] /\ f.at = "spread" /\ f.owner = o /\ f.slug = s
  BY <1>1 DEF FormRows
<1>3. Continue(w, f)
  BY <1>2
<1>4. /\ form' \in [Forms -> FormRows] /\ form'[w] = f
      /\ \A v \in Forms \ {w} : form'[v] = form[v]
  BY <1>2, <1>3, OneForm
<1>5. slug \in [Owners -> Slugs \cup {NoOne}]
  BY DEF PlacesInv, PlacesTypeOK
<1>6. /\ slug' \in [Owners -> Slugs \cup {NoOne}] /\ slug'[o] = s
      /\ \A q \in Owners \ {o} : slug'[q] = slug[q]
  BY <1>1, <1>5
<1>7. PlacesTypeOK'
  BY <1>4, <1>6 DEF PlacesInv, PlacesTypeOK
<1>8. FormInv'
  <2>1. FormOK(f) /\ f.at \notin {"create", "update"}
    BY <1>1, <1>2, NoOneIsNot DEF FormOK
  <2>2. FormOK(f)'
    BY <2>1 DEF FormOK
  <2> QED
    BY <1>2, <1>3, <2>2, FormsKept
<1>9. IndexInv'
  BY DEF PlacesInv, IndexInv, Stored
<1>10. ASSUME NEW r \in Slugs \ raced
       PROVE  Unshared(r)'
  <2>1. Unshared(r)
    BY DEF PlacesInv, ClaimInv
  <2>2. Claiming(r)' = Claiming(r)
    BY <1>2, <1>4 DEF Claiming
  <2>3. CASE r = s
    <3>1. w \in Claiming(r) /\ \A v \in Claiming(r) : v = w
      BY <2>1, <2>3 DEF Claiming, Unshared
    <3>2. ~TakenFor(o, s)
      BY <1>1, <2>1, <2>3, <3>1 DEF Unshared
    <3>3. \A q \in Owners : slug'[q] = s => q = o
      BY <1>1, <1>6, <3>2 DEF TakenFor, Owners
    <3>4. \A q \in Owners : q = o => ~\E other \in Owners \ {q} : slug'[other] = s
      BY <3>3
    <3>5. \A q \in Owners : q = o => ~TakenFor(q, r)'
      BY <2>3, <3>4 DEF TakenFor, Owners
    <3>6. \A v \in Claiming(r)' : form'[v].at # "claim"
      BY <1>2, <1>4, <2>2, <3>1
    <3> QED
      BY <2>1, <2>2, <2>3, <3>3, <3>5, <3>6 DEF Unshared
  <2>4. CASE r # s
    <3>1. \A q \in Owners : TakenFor(q, r)' => TakenFor(q, r)
      BY <1>6, <2>4 DEF TakenFor, Owners
    <3>2. \A v \in Claiming(r) : v # w /\ form'[v] = form[v]
      BY <1>4, <2>4 DEF Claiming
    <3>3. \A q \in Owners : slug'[q] = r => slug[q] = r
      BY <1>6, <2>4
    <3> QED
      BY <2>1, <2>2, <3>1, <3>2, <3>3 DEF Unshared
  <2> QED
    BY <2>3, <2>4
<1>11. ClaimInv'
  BY <1>10 DEF ClaimInv
<1> QED
  BY <1>7, <1>8, <1>9, <1>11

LEMMA WriteSlugStep ==
  ASSUME PlacesInv, NEW w \in Forms, WriteSlug(w)
  PROVE  PlacesInv'
<1>1. CASE UserHas(form[w].slug)
  BY <1>1, BlankIs, Neutral DEF WriteSlug
<1>2. CASE ~UserHas(form[w].slug)
  <2>1. /\ form[w].at = "claim" /\ form[w].owner \in Hosts /\ slug' = [slug EXCEPT ![form[w].owner] = form[w].slug]
        /\ Continue(w, [form[w] EXCEPT !.at = "spread"]) /\ UNCHANGED <<members, listing, raced>>
    BY <1>2 DEF WriteSlug, Doing
  <2>2. members \in [Teams -> SUBSET Hosts] /\ slug \in [Owners -> Slugs \cup {NoOne}]
    BY DEF PlacesInv, PlacesTypeOK
  <2>3. PlacesTypeOK' /\ FormInv' /\ ClaimInv' /\ IndexInv'
    BY <2>1, <2>2, SlugGiven DEF Manned
  <2>4. \A t \in Teams : slug'[t] = slug[t]
    BY <2>1, <2>2, NoOneIsNot
  <2>5. MemberInv'
    BY <2>1, <2>4 DEF PlacesInv, MemberInv, TeamsManned, Known, Manned
  <2> QED
    BY <2>3, <2>5 DEF PlacesInv
<1> QED
  BY <1>1, <1>2

LEMMA CreateTeamStep ==
  ASSUME PlacesInv, NEW w \in Forms, CreateTeam(w)
  PROVE  PlacesInv'
<1> DEFINE t == form[w].owner
           s == form[w].slug
           h == form[w].by
<1>1. form[w].at = "claim" /\ t \in Teams /\ h \in Hosts /\ UNCHANGED <<listing, raced>>
  BY DEF CreateTeam, Doing, PlacesInv, FormInv, FormOK
<1>2. CASE Known(t) \/ TeamHas(s)
  <2>1. Continue(w, Blank) /\ UNCHANGED <<slug, members>>
    BY <1>2 DEF CreateTeam, CreateWithFirstMember
  <2> QED
    BY <1>1, <2>1, BlankIs, Neutral
<1>3. CASE ~Known(t) /\ ~TeamHas(s)
  <2>1. /\ slug' = [slug EXCEPT ![t] = s] /\ members' = [members EXCEPT ![t] = {h}]
        /\ Continue(w, [form[w] EXCEPT !.at = "spread"])
    BY <1>3 DEF CreateTeam, CreateWithFirstMember
  <2>2. members \in [Teams -> SUBSET Hosts] /\ slug \in [Owners -> Slugs \cup {NoOne}]
    BY DEF PlacesInv, PlacesTypeOK
  <2>3. /\ members' \in [Teams -> SUBSET Hosts] /\ members'[t] = {h} /\ \A u \in Teams \ {t} : members'[u] = members[u]
        /\ \A u \in Teams \ {t} : slug'[u] = slug[u]
    BY <1>1, <2>1, <2>2 DEF Owners
  <2>4. \A u \in Teams : Manned(u) => Manned(u)'
    BY <2>3 DEF Manned
  <2>5. PlacesTypeOK' /\ FormInv' /\ ClaimInv' /\ IndexInv'
    BY <1>1, <2>1, <2>3, <2>4, SlugGiven
  <2>6. MemberInv'
    <3>1. IsFiniteSet({h})
      BY FS_Singleton
    <3>2. \A u \in Teams : IsFiniteSet(members'[u])
      BY <2>3, <3>1 DEF PlacesInv, MemberInv
    <3>3. TeamsManned'
      BY <2>3 DEF PlacesInv, MemberInv, TeamsManned, Known
    <3> QED
      BY <1>1, <2>4, <3>2, <3>3 DEF PlacesInv, MemberInv
  <2> QED
    BY <2>5, <2>6 DEF PlacesInv
<1> QED
  BY <1>2, <1>3

\* A team keeps a member: the last one is not removed.
LEMMA MembersStep ==
  ASSUME PlacesInv, NEW w \in Forms, AddMember(w) \/ RemoveMember(w)
  PROVE  PlacesInv'
<1> DEFINE t == form[w].owner
           h == form[w].by
           new == members'[t]
<1>1. /\ t \in Teams /\ h \in Hosts /\ Continue(w, Blank) /\ UNCHANGED <<slug, listing, raced>>
      /\ members' = [members EXCEPT ![t] = WithMember(@, h)] \/ members' = [members EXCEPT ![t] = WithoutMember(@, h)]
  BY DEF AddMember, RemoveMember, Doing, PlacesInv, FormInv, FormOK
<1>2. members \in [Teams -> SUBSET Hosts] /\ IsFiniteSet(members[t])
  BY <1>1 DEF PlacesInv, PlacesTypeOK, MemberInv
<1>3. /\ new = WithMember(members[t], h) \/ new = WithoutMember(members[t], h)
      /\ \A u \in Teams \ {t} : members'[u] = members[u]
  BY <1>1, <1>2
<1>4. /\ members' \in [Teams -> SUBSET Hosts] /\ IsFiniteSet(new) /\ (members[t] # {} => new # {})
  <2>1. CASE new = WithMember(members[t], h)
    BY <1>1, <1>2, <2>1, FS_AddElement DEF WithMember
  <2>2. CASE new = WithoutMember(members[t], h)
    <3>1. IsFiniteSet(members[t] \ {h})
      BY <1>2, FS_RemoveElement
    <3>2. Cardinality(members[t]) > 1 => members[t] \ {h} # {}
      <4>1. ASSUME members[t] \ {h} = {}
            PROVE  members[t] = {} \/ members[t] = {h}
        BY <4>1
      <4>2. Cardinality({}) = 0 /\ Cardinality({h}) = 1
        BY FS_EmptySet, FS_Singleton
      <4> QED
        BY <4>1, <4>2
    <3> QED
      BY <1>1, <1>2, <2>2, <3>1, <3>2 DEF WithoutMember
  <2> QED
    BY <1>3, <2>1, <2>2
<1> HIDE DEF new
<1>5. \A u \in Teams : Manned(u) => Manned(u)'
  BY <1>3, <1>4 DEF Manned, new
<1>6. FormInv'
  <2>1. FormOK(Blank)'
    BY BlankIs
  <2> QED
    BY <1>1, <1>5, <2>1, BlankIs, FormsKept
<1>7. /\ form' \in [Forms -> FormRows] /\ form'[w] = Blank
      /\ \A v \in Forms \ {w} : form'[v] = form[v]
  BY <1>1, BlankIs, OneForm
<1>8. PlacesTypeOK' /\ IndexInv'
  BY <1>1, <1>4, <1>7 DEF PlacesInv, PlacesTypeOK, IndexInv, Stored
<1>9. ClaimInv'
  BY <1>1, <1>7, BlankIs, ClaimsKept DEF PlacesInv
<1>10. MemberInv'
  <2>1. \A u \in Teams : IsFiniteSet(members'[u])
    BY <1>3, <1>4 DEF PlacesInv, MemberInv, new
  <2>2. TeamsManned'
    BY <1>1, <1>5 DEF PlacesInv, MemberInv, TeamsManned, Known, Manned
  <2> QED
    BY <1>1, <1>5, <2>1, <2>2 DEF PlacesInv, MemberInv
<1> QED
  BY <1>6, <1>8, <1>9, <1>10 DEF PlacesInv

\* A row is written if the index has none beside it, or struck out.
LEMMA ListingStep ==
  ASSUME PlacesInv, NEW w \in Forms, WriteListing(w) \/ DeleteListing(w)
  PROVE  PlacesInv'
<1> DEFINE f == form[w]
           e == f.listing
           owner == IF f.at = "patch" THEN listing[e].owner ELSE f.owner
           ListingRows == [owner: Owners \cup {NoOne}, path: Paths \cup {NoOne}, active: BOOLEAN]
           fresh == [owner |-> owner, path |-> f.path, active |-> f.active]
           struck == [listing[e] EXCEPT !.owner = NoOne, !.active = FALSE]
<1>1. /\ e \in Listings /\ Continue(w, Blank) /\ UNCHANGED <<slug, members, raced>>
  BY DEF WriteListing, DeleteListing, Doing, PlacesInv, FormInv, FormOK
<1>2. listing \in [Listings -> ListingRows] /\ f \in FormRows
  BY DEF PlacesInv, PlacesTypeOK
<1>3. ASSUME WriteListing(w), listing' # listing
      PROVE  /\ listing' = [listing EXCEPT ![e] = fresh]
             /\ owner \in Owners /\ (owner \in Teams => Manned(owner))
             /\ \A s \in Siblings(owner, e) : listing[s].path # f.path
  <2>1. /\ listing' = [listing EXCEPT ![e] = fresh]
        /\ \A s \in Siblings(owner, e) : listing[s].path # f.path
        /\ f.at # "create" => Stored(e)
        /\ f.at \in {"create", "update", "patch"}
    BY <1>3 DEF WriteListing, Doing
  <2>2. CASE f.at = "patch"
    BY <1>1, <1>2, <2>1, <2>2 DEF Stored, PlacesInv, MemberInv
  <2>3. CASE f.at # "patch"
    BY <2>1, <2>3 DEF PlacesInv, FormInv, FormOK
  <2> QED
    BY <2>1, <2>2, <2>3
<1>4. \/ listing' = listing
      \/ /\ listing' = [listing EXCEPT ![e] = fresh] /\ owner \in Owners /\ (owner \in Teams => Manned(owner))
         /\ \A s \in Siblings(owner, e) : listing[s].path # f.path
      \/ listing' = [listing EXCEPT ![e] = struck]
  BY <1>3 DEF DeleteListing
<1>5. /\ fresh.owner = owner /\ fresh.path = f.path /\ (owner \in Owners => fresh \in ListingRows)
      /\ struck \in ListingRows /\ struck.owner = NoOne /\ struck.active = FALSE
  BY <1>1, <1>2 DEF FormRows
<1>6. \E row_ \in ListingRows :
        /\ \A d \in Listings \ {e} : listing'[d] = listing[d]
        /\ listing' \in [Listings -> ListingRows] /\ listing'[e] = row_
        /\ \/ row_ = listing[e]
           \/ row_.owner = NoOne /\ row_.active = FALSE
           \/ /\ row_.owner \in Owners /\ (row_.owner \in Teams => Manned(row_.owner))
              /\ \A s \in Siblings(row_.owner, e) : listing[s].path # row_.path
  <2> HIDE DEF e, owner, f, fresh, struck, ListingRows
  <2>1. CASE listing' = listing
    BY <1>1, <1>2, <2>1
  <2>2. CASE listing' = [listing EXCEPT ![e] = struck]
    BY <1>1, <1>2, <1>5, <2>2
  <2>3. CASE /\ listing' = [listing EXCEPT ![e] = fresh] /\ owner \in Owners /\ (owner \in Teams => Manned(owner))
             /\ \A s \in Siblings(owner, e) : listing[s].path # f.path
    BY <1>1, <1>2, <1>5, <2>3
  <2> QED
    BY <1>4, <2>1, <2>2, <2>3
<1> HIDE DEF e, owner, f, fresh, struck
<1>7. PICK row_ \in ListingRows :
        /\ \A d \in Listings \ {e} : listing'[d] = listing[d]
        /\ listing' \in [Listings -> ListingRows] /\ listing'[e] = row_
        /\ \/ row_ = listing[e]
           \/ row_.owner = NoOne /\ row_.active = FALSE
           \/ /\ row_.owner \in Owners /\ (row_.owner \in Teams => Manned(row_.owner))
              /\ \A s \in Siblings(row_.owner, e) : listing[s].path # row_.path
  BY <1>6
<1>8. /\ form' \in [Forms -> FormRows] /\ form'[w] = Blank
      /\ \A v \in Forms \ {w} : form'[v] = form[v]
  BY <1>1, BlankIs, OneForm
<1>9. PlacesTypeOK'
  BY <1>1, <1>7, <1>8 DEF PlacesInv, PlacesTypeOK
<1>10. FormInv'
  <2>1. FormOK(Blank)'
    BY BlankIs
  <2> QED
    BY <1>1, <2>1, BlankIs, FormsKept DEF Manned
<1>11. ClaimInv'
  BY <1>1, <1>8, BlankIs, ClaimsKept DEF PlacesInv
<1>12. MemberInv'
  <2>1. \A d \in Listings : listing'[d].owner \in Teams => Manned(listing'[d].owner)
    BY <1>7, NoOneIsNot DEF PlacesInv, MemberInv
  <2> QED
    BY <1>1, <2>1 DEF PlacesInv, MemberInv, TeamsManned, Known, Manned
<1>13. IndexInv'
  <2>1. \A d \in Listings : listing'[d].active => listing'[d].owner # NoOne
    BY <1>7, NoOneIsNot DEF PlacesInv, IndexInv, Stored
  <2>2. ASSUME NEW c \in Listings, NEW d \in Listings, c # d, listing'[c].owner # NoOne,
               listing'[c].owner = listing'[d].owner
        PROVE  listing'[c].path # listing'[d].path
    <3>1. \A x, y \in Listings : x # y /\ listing[x].owner # NoOne /\ listing[x].owner = listing[y].owner
                                   => listing[x].path # listing[y].path
      BY DEF PlacesInv, IndexInv, Stored
    <3>2. CASE c # e /\ d # e
      BY <1>7, <2>2, <3>1, <3>2
    <3>3. CASE row_ = listing[e]
      BY <1>1, <1>7, <2>2, <3>1, <3>3
    <3>4. CASE row_.owner = NoOne
      BY <1>7, <2>2, <3>2, <3>4
    <3>5. CASE \A s \in Siblings(row_.owner, e) : listing[s].path # row_.path
      <4>1. c = e => d \in Siblings(row_.owner, e)
        BY <1>7, <2>2 DEF Siblings
      <4>2. d = e => c \in Siblings(row_.owner, e)
        BY <1>7, <2>2 DEF Siblings
      <4> QED
        BY <1>7, <2>2, <3>2, <3>5, <4>1, <4>2 DEF Siblings
    <3> QED
      BY <1>7, <3>3, <3>4, <3>5
  <2> QED
    BY <2>1, <2>2 DEF IndexInv, Stored
<1> QED
  BY <1>9, <1>10, <1>11, <1>12, <1>13 DEF PlacesInv

LEMMA PlacesKeeps ==
  ASSUME PlacesInv, [PlacesNext]_placeVars
  PROVE  PlacesInv'
<1>1. ASSUME NEW w \in Forms, NEW f \in FormRows, Continue(w, f), FormOK(f), f.slug = NoOne,
             UNCHANGED <<slug, members, listing, raced>>
      PROVE  PlacesInv'
  BY <1>1, Neutral
<1>2. ASSUME NEW w \in Forms, NEW by \in Hosts, NEW s \in Slugs,
             OpenSettings(w, by, s) \/ Join(w, by, s) \/ \E t \in Teams : OpenTeam(w, by, t, s)
      PROVE  PlacesInv'
  BY <1>2, ClaimStep DEF OpenSettings, Join, OpenTeam, Owners
<1>3. ASSUME NEW w \in Forms, NEW by \in Hosts, NEW t \in Teams, NEW h \in Hosts,
             OpenAdd(w, by, t, h) \/ OpenRemove(w, by, t, h)
      PROVE  PlacesInv'
  <2>1. ASSUME NEW at \in {"add", "remove"}, OpenMember(w, t, h, at)
        PROVE  PlacesInv'
    <3> DEFINE f == [Blank EXCEPT !.at = at, !.owner = t, !.by = h]
    <3>1. f \in FormRows /\ f.at = at /\ f.owner = t /\ f.by = h /\ f.slug = NoOne
      BY DEF Blank, FormRows, Owners
    <3>2. Continue(w, f) /\ UNCHANGED <<slug, members, listing, raced>>
      BY <2>1 DEF OpenMember
    <3> HIDE DEF f
    <3>3. FormOK(f)
      BY <3>1 DEF FormOK
    <3> QED
      BY <1>1, <3>1, <3>2, <3>3
  <2> QED
    BY <1>3, <2>1 DEF OpenAdd, OpenRemove
<1>4. ASSUME NEW w \in Forms, NEW at \in {"create", "update", "patch"}, NEW e \in Listings, NEW o \in Owners \cup {NoOne},
             NEW p \in Paths, NEW active \in BOOLEAN, Submit(w, at, e, o, p, active),
             at # "patch" => o \in Owners /\ (o \in Teams => Manned(o))
      PROVE  PlacesInv'
  <2> DEFINE f == [Blank EXCEPT !.at = at, !.listing = e, !.owner = o, !.path = p, !.active = active]
  <2>1. /\ f \in FormRows /\ f.at = at /\ f.owner = o /\ f.listing = e /\ f.slug = NoOne
    BY DEF Blank, FormRows
  <2>2. Continue(w, f) /\ UNCHANGED <<slug, members, listing, raced>>
    BY <1>4 DEF Submit
  <2> HIDE DEF f
  <2>3. FormOK(f)
    BY <1>4, <2>1 DEF FormOK
  <2> QED
    BY <1>1, <2>1, <2>2, <2>3
<1>5. ASSUME NEW w \in Forms, NEW by \in Hosts, NEW e \in Listings, NEW p \in Paths, NEW active \in BOOLEAN,
             ApiPost(w, by, e, p, active) \/ ApiPatch(w, by, e, p, active)
      PROVE  PlacesInv'
  <2>1. \/ Submit(w, "create", e, by, p, active) \/ Submit(w, "patch", e, NoOne, p, active)
    BY <1>5 DEF ApiPost, ApiPatch
  <2>2. by \in Owners /\ by \notin Teams
    BY NoOneIsNot DEF Owners
  <2> QED
    BY <1>4, <2>1, <2>2
<1>6. ASSUME NEW w \in Forms, NEW by \in Hosts, NEW e \in Listings, NEW p \in Paths, NEW active \in BOOLEAN,
             NEW o \in Owners, NewListing(w, by, e, o, p, active) \/ EditListing(w, by, e, o, p, active)
      PROVE  PlacesInv'
  <2>1. Submit(w, "create", e, o, p, active) \/ Submit(w, "update", e, o, p, active)
    BY <1>6 DEF NewListing, EditListing
  <2>2. o \in Teams => Manned(o)
    BY <1>6, NoOneIsNot DEF NewListing, EditListing, Validates, MayOwn, Manned
  <2> QED
    BY <1>4, <2>1, <2>2
<1>7. ASSUME NEW w \in Forms, NEW by \in Hosts, NEW e \in Listings, OpenDelete(w, by, e)
      PROVE  PlacesInv'
  <2> DEFINE f == [Blank EXCEPT !.at = "delete", !.listing = e]
  <2>1. /\ f \in FormRows /\ f.at = "delete" /\ f.listing = e /\ f.slug = NoOne
    BY DEF Blank, FormRows
  <2>2. Continue(w, f) /\ UNCHANGED <<slug, members, listing, raced>>
    BY <1>7 DEF OpenDelete
  <2> HIDE DEF f
  <2>3. FormOK(f)
    BY <2>1 DEF FormOK
  <2> QED
    BY <1>1, <2>1, <2>2, <2>3
<1>8. ASSUME NEW w \in Forms, Spread(w) \/ Abandon(w)
      PROVE  PlacesInv'
  BY <1>1, <1>8, BlankIs DEF Spread, Abandon
<1>9. CASE UNCHANGED placeVars
  BY <1>9 DEF placeVars, PlacesInv, PlacesTypeOK, FormInv, FormOK, MemberInv, ClaimInv, Unshared, IndexInv,
       Manned, TeamsManned, Known, Claiming, TakenFor, Stored
<1>10. CASE PlacesNext
  BY <1>2, <1>3, <1>5, <1>6, <1>7, <1>8, <1>10, WriteSlugStep, CreateTeamStep, MembersStep, ListingStep
  DEF PlacesNext, Owners
<1> QED
  BY <1>9, <1>10

LEMMA PlacesBegin == PlacesInit => PlacesInv
<1> SUFFICES ASSUME PlacesInit
             PROVE  PlacesInv
  OBVIOUS
<1>1. NoListing.owner = NoOne /\ NoListing.active = FALSE
  BY DEF NoListing
<1>2. PlacesTypeOK
  BY BlankIs DEF PlacesInit, PlacesTypeOK, NoListing, Owners
<1>3. FormInv
  BY BlankIs DEF PlacesInit, FormInv
<1>4. MemberInv
  BY <1>1, NoOneIsNot, FS_EmptySet DEF PlacesInit, MemberInv, TeamsManned, Known
<1>5. ClaimInv
  BY BlankIs, NoOneIsNot DEF PlacesInit, ClaimInv, Unshared, Claiming, TakenFor, Owners
<1>6. IndexInv
  BY <1>1 DEF PlacesInit, IndexInv, Stored
<1> QED
  BY <1>2, <1>3, <1>4, <1>5, <1>6 DEF PlacesInv

\* Two rows of one address would belong to two owners of one slug.
LEMMA OnePage ==
  ASSUME PlacesInv
  PROVE  PagesResolve
<1>1. ASSUME NEW s \in Slugs \ raced, NEW p \in Paths
      PROVE  Cardinality(AtAddress(s, p)) <= 1
  <2>1. ASSUME NEW d \in AtAddress(s, p), NEW e \in AtAddress(s, p)
        PROVE  d = e
    <3>1. /\ d \in Listings /\ e \in Listings /\ listing[d].path = p /\ listing[e].path = p
          /\ slug[listing[d].owner] = s /\ slug[listing[e].owner] = s
          /\ listing[d].owner \in Owners /\ listing[e].owner \in Owners /\ Stored(d)
      BY DEF AtAddress, PlacesInv, PlacesTypeOK, IndexInv, Stored
    <3>2. listing[d].owner = listing[e].owner
      BY <3>1 DEF PlacesInv, ClaimInv, Unshared, TakenFor, Owners
    <3> QED
      BY <3>1, <3>2 DEF PlacesInv, IndexInv
  <2>2. CASE AtAddress(s, p) = {}
    BY <2>2, FS_EmptySet
  <2>3. CASE AtAddress(s, p) # {}
    <3>1. PICK e : AtAddress(s, p) = {e}
      BY <2>1, <2>3
    <3>2. Cardinality({e}) = 1
      BY FS_Singleton
    <3> QED
      BY <3>1, <3>2
  <2> QED
    BY <2>2, <2>3
<1>2. ASSUME NEW e \in Listings, listing[e].active
      PROVE  Behind(e) # {}
  BY DEF PlacesInv, MemberInv, Manned, Behind
<1> QED
  BY <1>1, <1>2 DEF PagesResolve

-----------------------------------------------------------------------------
(* The dashboard. *)

Rows == [live: BOOLEAN, expires: Nat, bookmark: Nat]
States == [row: Rows, saves: Nat, key: BOOLEAN]
TabRows ==
  [at: {"idle", "slide", "serve", "shown", "saved", "revoked", "api"},
   expires: Nat, boot: Nat, mark: Nat, saw: Nat, floor: Nat, late: BOOLEAN, sure: BOOLEAN, alone: BOOLEAN]

DeskTypeOK ==
  /\ log \in Seq(States) /\ Len(log) > 0
  /\ tab \in [Tabs -> TabRows]
  /\ answered \in Nat /\ gone \subseteq {"cookie", "key"} /\ crossed \in BOOLEAN
  /\ clock \in Nat

\* D1 as its replicas have it: what was saved stays saved. The bookmark in the
\* row covers what was answered, and what was revoked is gone.
LogInv ==
  /\ \A i, j \in 1..Len(log) : i <= j => log[i].saves <= log[j].saves
  /\ answered <= Primary.saves
  /\ Primary.row.live => Primary.row.bookmark \in 1..Len(log)
  /\ ~crossed /\ Primary.row.live => log[Primary.row.bookmark].saves >= answered
  /\ "cookie" \in gone => ~Primary.row.live
  /\ "key" \in gone => ~Primary.key

\* What a request knows. Bookmarks are those of states that were; the one that
\* a request which is alone will put in the row covers what was answered.
Kept(r) ==
  /\ r.at = "slide" => r.boot \in 1..Len(log)
  /\ r.at \in {"slide", "serve", "saved", "revoked"} => r.mark \in 1..Len(log)
  /\ r.at = "saved" => r.saw <= log[r.mark].saves
  /\ r.at = "revoked" => ~Primary.key
  /\ r.alone /\ r.at = "slide" => log[r.boot].saves >= answered
  /\ r.alone /\ r.at \in {"saved", "revoked"} => log[r.mark].saves >= answered
  /\ r.sure /\ r.at \in {"slide", "serve"} => log[r.mark].saves >= r.floor
  /\ r.sure /\ r.at = "shown" => r.saw >= r.floor
  /\ ~r.late

TabInv == \A w \in Tabs : Kept(tab[w])

\* Without an overlap, whoever is served is alone.
AloneInv ==
  /\ \A w \in Tabs : tab[w].alone => Serving = {w}
  /\ ~crossed => \A w \in Serving : tab[w].alone

DeskInv == DeskTypeOK /\ LogInv /\ TabInv /\ AloneInv

Longer == Len(log') >= Len(log) /\ \A i \in 1..Len(log) : log'[i] = log[i]

\* One request goes on; the others stand still.
OneTab(w, r) == tab' \in [Tabs -> TabRows] /\ tab'[w] = r /\ \A u \in Tabs \ {w} : tab'[u] = tab[u]

LEMMA PrimaryIs ==
  ASSUME DeskTypeOK
  PROVE  Len(log) \in Nat /\ Len(log) \in 1..Len(log) /\ Primary \in States /\ \A i \in 1..Len(log) : log[i] \in States
  BY DEF DeskTypeOK, Primary

LEMMA AwayIs == Away \in TabRows /\ Away.at = "idle" /\ ~Away.alone /\ Kept(Away) /\ Kept(Away)'
  BY DEF Away, TabRows, Kept

LEMMA LogGrows ==
  ASSUME DeskTypeOK, LogInv, NEW s \in States, Commit(s), s.saves >= Primary.saves
  PROVE  /\ log' \in Seq(States) /\ Len(log') \in Nat /\ Len(log') = Len(log) + 1 /\ Primary' = s /\ Longer
         /\ \A i, j \in 1..Len(log') : i <= j => log'[i].saves <= log'[j].saves
<1>1. Len(log) \in Nat /\ \A i \in 1..Len(log) : log[i] \in States
  BY PrimaryIs
<1>2. /\ log' \in Seq(States) /\ Len(log') = Len(log) + 1 /\ log'[Len(log) + 1] = s
      /\ \A i \in 1..Len(log) : log'[i] = log[i]
  BY DEF DeskTypeOK, Commit
<1>3. Primary' = s
  BY <1>2 DEF Primary
<1>4. ASSUME NEW i \in 1..Len(log'), NEW j \in 1..Len(log'), i <= j
      PROVE  log'[i].saves <= log'[j].saves
  <2>1. \A k \in 1..Len(log) : log[k].saves <= Primary.saves /\ log[k].saves \in Nat
    BY <1>1, PrimaryIs DEF LogInv, Primary, States
  <2>2. s.saves \in Nat /\ Primary.saves \in Nat
    BY PrimaryIs DEF States
  <2>3. CASE j = Len(log) + 1
    BY <1>1, <1>2, <1>4, <2>1, <2>2, <2>3
  <2>4. CASE j # Len(log) + 1
    BY <1>1, <1>2, <1>4, <2>4 DEF LogInv
  <2> QED
    BY <2>3, <2>4
<1> QED
  BY <1>1, <1>2, <1>3, <1>4 DEF Longer

\* What one request knows no other takes from it.
LEMMA StillKept ==
  ASSUME DeskTypeOK, NEW r \in TabRows, Kept(r), Longer, Primary'.key => Primary.key,
         answered' = answered \/ ~r.alone
  PROVE  Kept(r)'
<1>1. Len(log) \in Nat /\ Len(log') >= Len(log) /\ \A i \in 1..Len(log) : i \in 1..Len(log') /\ log'[i] = log[i]
  BY PrimaryIs DEF Longer
<1> QED
  BY <1>1 DEF Kept

LEMMA GoesOn ==
  ASSUME DeskInv, NEW w \in Tabs, NEW r \in TabRows, OneTab(w, r), Longer, UNCHANGED <<answered, crossed>>,
         r.at \notin {"idle", "api"}, w \in Serving, r.alone = tab[w].alone, Kept(r)', Primary'.key => Primary.key
  PROVE  TabInv' /\ AloneInv'
<1>1. tab \in [Tabs -> TabRows]
  BY DEF DeskInv, DeskTypeOK
<1>2. ASSUME NEW u \in Tabs \ {w}
      PROVE  Kept(tab[u])'
  <2>1. PICK q \in TabRows : q = tab[u]
    BY <1>1
  <2>2. Kept(q)'
    BY <2>1, StillKept DEF DeskInv, TabInv
  <2> QED
    BY <2>1, <2>2 DEF OneTab, Kept
<1>3. TabInv'
  BY <1>2 DEF TabInv, OneTab, Kept
<1>4. Serving' = Serving /\ \A u \in Tabs : tab'[u].alone = tab[u].alone
  BY DEF Serving, OneTab
<1> QED
  BY <1>3, <1>4 DEF DeskInv, AloneInv

\* A request ends, or is the API's: whoever is left alone was before.
LEMMA GoesAway ==
  ASSUME DeskInv, NEW w \in Tabs, NEW r \in TabRows, OneTab(w, r), Longer, Primary'.key => Primary.key,
         r.at \in {"idle", "api"}, ~r.alone, Kept(r)',
         answered' = answered \/ w \in Serving, crossed' = crossed \/ tab[w].alone
  PROVE  TabInv' /\ AloneInv'
<1>1. tab \in [Tabs -> TabRows]
  BY DEF DeskInv, DeskTypeOK
<1>2. ASSUME NEW u \in Tabs \ {w}
      PROVE  Kept(tab[u])'
  <2>1. PICK q \in TabRows : q = tab[u]
    BY <1>1
  <2>2. answered' = answered \/ ~q.alone
    BY <2>1 DEF DeskInv, AloneInv
  <2>3. Kept(q)'
    BY <2>1, <2>2, StillKept DEF DeskInv, TabInv
  <2> QED
    BY <2>1, <2>3 DEF OneTab, Kept
<1>3. TabInv'
  BY <1>2 DEF TabInv, OneTab, Kept
<1>4. Serving' = Serving \ {w} /\ \A u \in Tabs \ {w} : tab'[u].alone = tab[u].alone
  BY DEF Serving, OneTab
<1>5. ~tab'[w].alone
  BY DEF OneTab
<1>6. \A u \in Tabs : tab'[u].alone => Serving' = {u}
  BY <1>4, <1>5 DEF DeskInv, AloneInv
<1>7. ~crossed' => \A u \in Serving' : tab'[u].alone
  <2>1. CASE tab[w].alone
    BY <1>4, <2>1 DEF DeskInv, AloneInv
  <2>2. CASE crossed' = crossed
    BY <1>4, <2>2 DEF DeskInv, AloneInv, Serving
  <2> QED
    BY <2>1, <2>2
<1> QED
  BY <1>3, <1>6, <1>7 DEF AloneInv

\* The row the cookie leads to, as touch leaves it.
LEMMA TouchedIs ==
  ASSUME DeskInv, NEW x \in Nat, NEW b \in 1..Len(log)
  PROVE  /\ Touched(x, b) \in States /\ Touched(x, b).saves = Primary.saves /\ Touched(x, b).key = Primary.key
         /\ Touched(x, b).row.live = Primary.row.live
         /\ Primary.row.live => Touched(x, b).row.bookmark = b
<1>1. Len(log) \in Nat /\ Primary \in States /\ b \in Nat
  BY PrimaryIs DEF DeskInv
<1>2. CASE Primary.row.live
  <2> DEFINE n == [live |-> TRUE, expires |-> x, bookmark |-> b]
  <2>1. n \in Rows /\ n.live /\ n.bookmark = b
    BY <1>1 DEF Rows
  <2>2. Touched(x, b) = [Primary EXCEPT !.row = n]
    BY <1>2 DEF Touched
  <2> HIDE DEF n
  <2> QED
    BY <1>1, <1>2, <2>1, <2>2 DEF States
<1>3. CASE ~Primary.row.live
  BY <1>1, <1>3 DEF Touched
<1> QED
  BY <1>2, <1>3

LEMMA NoRowIs ==
  ASSUME DeskInv
  PROVE  LET s == [Primary EXCEPT !.row = NoRow] IN
           s \in States /\ s.saves = Primary.saves /\ s.key = Primary.key /\ ~s.row.live
  BY PrimaryIs DEF DeskInv, NoRow, States, Rows

LEMMA EnterStep ==
  ASSUME DeskInv, NEW w \in Tabs, Enter(w), UNCHANGED clock
  PROVE  DeskInv'
<1> DEFINE row == log[Len(log)].row
           apart == Serving = {}
           new == [Away EXCEPT !.at = IF ShouldSlide(row) THEN "slide" ELSE "serve",
                               !.expires = IF ShouldSlide(row) THEN NextExpiry ELSE row.expires,
                               !.boot = Len(log), !.mark = row.bookmark, !.floor = answered,
                               !.late = "cookie" \in gone, !.sure = apart /\ ~crossed, !.alone = apart]
<1>1. /\ DeskTypeOK /\ LogInv /\ TabInv /\ AloneInv /\ row = Primary.row /\ Primary \in States
      /\ Len(log) \in Nat \ {0} /\ \A i \in 1..Len(log) : log[i] \in States
  BY PrimaryIs DEF DeskInv, Primary, DeskTypeOK
<1>2. CASE Valid(row)
  <2>1. /\ tab' = [[u \in Tabs |-> [tab[u] EXCEPT !.alone = FALSE]] EXCEPT ![w] = new]
        /\ crossed' = (crossed \/ ~apart) /\ UNCHANGED <<log, answered, gone>>
    BY <1>2 DEF Enter, Freshest
  <2>2. row \in Rows /\ row.live /\ row.bookmark \in 1..Len(log) /\ answered \in Nat /\ crossed \in BOOLEAN
    BY <1>1, <1>2 DEF States, Valid, LogInv, DeskTypeOK
  <2>3. NextExpiry \in Nat
    BY <1>1, DeskAssumption DEF NextExpiry, DeskTypeOK
  <2>4. PICK r \in TabRows :
          /\ r = new /\ r.at \in {"slide", "serve"} /\ r.boot = Len(log) /\ r.mark = row.bookmark
          /\ r.floor = answered /\ r.late = ("cookie" \in gone) /\ r.sure = (apart /\ ~crossed) /\ r.alone = apart
    <3>1. /\ new.at = IF ShouldSlide(row) THEN "slide" ELSE "serve"
          /\ new.expires = IF ShouldSlide(row) THEN NextExpiry ELSE row.expires
          /\ new.boot = Len(log) /\ new.mark = row.bookmark /\ new.saw = 0 /\ new.floor = answered
      BY DEF Away
    <3>2. new.late = ("cookie" \in gone) /\ new.sure = (apart /\ ~crossed) /\ new.alone = apart
      BY DEF Away
    <3>3. new = [f \in {"at", "expires", "boot", "mark", "saw", "floor", "late", "sure", "alone"} |-> new[f]]
      BY DEF Away
    <3> HIDE DEF new
    <3>4. new.at \in {"slide", "serve"} /\ new.expires \in Nat /\ new.mark \in Nat
      BY <1>1, <2>2, <2>3, <3>1 DEF Rows
    <3>5. new.late \in BOOLEAN /\ new.sure \in BOOLEAN /\ new.alone \in BOOLEAN
      BY <3>2
    <3>6. new \in TabRows
      BY <1>1, <2>2, <3>1, <3>3, <3>4, <3>5 DEF TabRows
    <3> QED
      BY <3>1, <3>2, <3>4, <3>6
  <2> HIDE DEF new
  <2>5. /\ tab \in [Tabs -> TabRows] /\ tab' \in [Tabs -> TabRows] /\ tab'[w] = r
        /\ \A u \in Tabs \ {w} : tab'[u] = [tab[u] EXCEPT !.alone = FALSE]
    <3>1. tab \in [Tabs -> TabRows]
      BY <1>1 DEF DeskTypeOK
    <3>2. \A u \in Tabs : [tab[u] EXCEPT !.alone = FALSE] \in TabRows
      BY <3>1 DEF TabRows
    <3> QED
      BY <2>1, <2>4, <3>1, <3>2
  <2>6. DeskTypeOK' /\ LogInv' /\ Primary' = Primary
    BY <1>1, <2>1, <2>2, <2>5 DEF DeskTypeOK, LogInv, Primary
  <2>7. Kept(r)'
    <3>1. answered <= Primary.saves /\ ~r.late
      BY <1>1, <2>2, <2>4 DEF LogInv
    <3>2. r.sure => log[r.mark].saves >= r.floor
      BY <1>1, <2>2, <2>4 DEF LogInv
    <3>3. r.boot \in 1..Len(log) /\ r.mark \in 1..Len(log) /\ log[r.boot].saves >= answered
      BY <1>1, <2>2, <2>4, <3>1 DEF Primary, States
    <3> QED
      BY <2>1, <2>4, <3>1, <3>2, <3>3 DEF Kept
  <2>8. ASSUME NEW u \in Tabs \ {w}
        PROVE  \E q \in TabRows : tab'[u] = q /\ Kept(q)' /\ ~q.alone /\ q.at = tab[u].at
    <3>1. Kept(tab[u]) /\ tab[u] \in TabRows
      BY <1>1, <2>5 DEF TabInv
    <3>2. PICK q \in TabRows : q = [tab[u] EXCEPT !.alone = FALSE]
      BY <3>1 DEF TabRows
    <3>3. Kept(q) /\ ~q.alone /\ q.at = tab[u].at
      BY <3>1, <3>2 DEF Kept, TabRows
    <3>4. Kept(q)'
      BY <2>1, <2>6, <3>3 DEF Kept
    <3> QED
      BY <2>5, <3>2, <3>3, <3>4
  <2>9. TabInv'
    BY <2>5, <2>7, <2>8 DEF TabInv, Kept
  <2>10. AloneInv'
    <3>1. w \notin Serving
      BY DEF Enter, Steps, Serving
    <3>2. Serving' = Serving \cup {w}
      BY <2>4, <2>5, <2>8, <3>1 DEF Serving
    <3> QED
      BY <2>1, <2>4, <2>5, <2>8, <3>2 DEF AloneInv
  <2> QED
    BY <2>6, <2>9, <2>10 DEF DeskInv
<1>3. CASE ~Valid(row)
  <2>1. Commit([Primary EXCEPT !.row = NoRow]) /\ UNCHANGED <<tab, crossed, answered, gone>>
    BY <1>3 DEF Enter, Freshest
  <2>2. PICK s \in States :
          s = [Primary EXCEPT !.row = NoRow] /\ s.saves = Primary.saves /\ s.key = Primary.key /\ ~s.row.live
    BY NoRowIs
  <2>3. /\ log' \in Seq(States) /\ Len(log') = Len(log) + 1 /\ Primary' = s /\ Longer
        /\ \A i, j \in 1..Len(log') : i <= j => log'[i].saves <= log'[j].saves
    <3>1. s.saves >= Primary.saves
      BY <1>1, <2>2 DEF States
    <3> QED
      BY <1>1, <2>1, <2>2, <3>1, LogGrows
  <2>4. DeskTypeOK' /\ LogInv'
    BY <1>1, <2>1, <2>2, <2>3 DEF DeskTypeOK, LogInv
  <2>5. TabInv'
    <3>1. ASSUME NEW u \in Tabs
          PROVE  Kept(tab[u])'
      <4>1. PICK q \in TabRows : q = tab[u]
        BY <1>1 DEF DeskTypeOK
      <4>2. Kept(q)'
        BY <1>1, <2>1, <2>2, <2>3, <4>1, StillKept DEF TabInv
      <4> QED
        BY <2>1, <4>1, <4>2 DEF Kept
    <3> QED
      BY <3>1 DEF TabInv
  <2>6. AloneInv'
    BY <1>1, <2>1 DEF AloneInv, Serving
  <2> QED
    BY <2>4, <2>5, <2>6 DEF DeskInv
<1> QED
  BY <1>2, <1>3

\* touch puts the bookmark of the request in the row.
LEMMA SlideStep ==
  ASSUME DeskInv, NEW w \in Tabs, Slide(w), UNCHANGED clock
  PROVE  DeskInv'
<1>1. /\ DeskTypeOK /\ LogInv /\ TabInv /\ AloneInv /\ Primary \in States
      /\ tab \in [Tabs -> TabRows] /\ tab[w] \in TabRows /\ Kept(tab[w]) /\ tab[w].at = "slide"
      /\ Len(log) \in Nat \ {0} /\ \A i \in 1..Len(log) : log[i] \in States
  BY PrimaryIs DEF DeskInv, DeskTypeOK, TabInv, Slide, Steps
<1>2. tab[w].boot \in 1..Len(log) /\ tab[w].expires \in Nat
  BY <1>1 DEF Kept, TabRows
<1>3. PICK s \in States :
        /\ s = Touched(tab[w].expires, tab[w].boot)
        /\ s.saves = Primary.saves /\ s.key = Primary.key /\ s.row.live = Primary.row.live
        /\ Primary.row.live => s.row.bookmark = tab[w].boot
  BY <1>2, TouchedIs
<1>4. s.saves >= Primary.saves
  BY <1>1, <1>3 DEF States
<1>5. Commit(s) /\ tab' = [tab EXCEPT ![w].at = "serve"] /\ UNCHANGED <<answered, gone, crossed>>
  BY <1>3 DEF Slide
<1>6. /\ log' \in Seq(States) /\ Len(log') \in Nat /\ Len(log') = Len(log) + 1 /\ Primary' = s /\ Longer
      /\ \A i, j \in 1..Len(log') : i <= j => log'[i].saves <= log'[j].saves
  BY <1>1, <1>4, <1>5, LogGrows
<1>7. PICK r \in TabRows :
        /\ r = [tab[w] EXCEPT !.at = "serve"] /\ r.at = "serve" /\ r.alone = tab[w].alone
        /\ r.mark = tab[w].mark /\ r.floor = tab[w].floor /\ r.sure = tab[w].sure /\ r.late = tab[w].late
  <2> DEFINE n == [tab[w] EXCEPT !.at = "serve"]
  <2>1. n \in TabRows /\ n.at = "serve"
    BY <1>1 DEF TabRows
  <2>2. /\ n.alone = tab[w].alone /\ n.mark = tab[w].mark /\ n.floor = tab[w].floor
        /\ n.sure = tab[w].sure /\ n.late = tab[w].late
    BY <1>1 DEF TabRows
  <2> QED
    BY <2>1, <2>2
<1>8. OneTab(w, r)
  BY <1>1, <1>5, <1>7 DEF OneTab
<1>9. Kept(r)'
  <2>1. Kept(r)
    BY <1>1, <1>7 DEF Kept
  <2> QED
    BY <1>1, <1>3, <1>5, <1>6, <2>1, StillKept
<1>10. ~crossed => log[tab[w].boot].saves >= answered
  BY <1>1 DEF AloneInv, Serving, Kept
<1>11. DeskTypeOK' /\ LogInv'
  <2>1. \A i \in 1..Len(log) : i \in 1..Len(log') /\ log'[i] = log[i]
    BY <1>1, <1>6 DEF Longer
  <2>2. answered <= s.saves /\ ("cookie" \in gone => ~s.row.live) /\ ("key" \in gone => ~s.key)
    BY <1>1, <1>3 DEF LogInv
  <2>3. s.row.live => s.row.bookmark \in 1..Len(log') /\ (~crossed => log'[s.row.bookmark].saves >= answered)
    BY <1>2, <1>3, <1>10, <2>1
  <2> QED
    BY <1>1, <1>5, <1>6, <1>8, <2>2, <2>3 DEF DeskTypeOK, LogInv, OneTab
<1>12. TabInv' /\ AloneInv'
  BY <1>1, <1>3, <1>5, <1>6, <1>7, <1>8, <1>9, GoesOn DEF Serving
<1> QED
  BY <1>11, <1>12 DEF DeskInv

\* Reads: nothing is committed.
LEMMA ReadStep ==
  ASSUME DeskInv, NEW w \in Tabs, NEW r \in TabRows, OneTab(w, r), UNCHANGED <<log, answered, gone, crossed, clock>>
  PROVE  DeskTypeOK' /\ LogInv' /\ Longer /\ Primary' = Primary /\ (Kept(r) => Kept(r)')
<1>1. DeskTypeOK' /\ LogInv' /\ Primary' = Primary /\ (Kept(r) => Kept(r)')
  BY DEF DeskInv, DeskTypeOK, LogInv, OneTab, Primary, Kept
<1> QED
  BY <1>1, PrimaryIs DEF Longer, DeskInv

LEMMA ShowStep ==
  ASSUME DeskInv, NEW w \in Tabs, Show(w), UNCHANGED clock
  PROVE  DeskInv'
<1>1. /\ tab \in [Tabs -> TabRows] /\ tab[w] \in TabRows /\ Kept(tab[w]) /\ tab[w].at = "serve"
      /\ Len(log) \in Nat \ {0} /\ \A i \in 1..Len(log) : log[i] \in States
  BY PrimaryIs DEF DeskInv, DeskTypeOK, TabInv, Show, Steps
<1>2. PICK v \in Replicas(tab[w].mark) :
        tab' = [tab EXCEPT ![w].at = "shown", ![w].saw = log[v].saves, ![w].mark = v, ![w].boot = 0]
  BY DEF Show
<1>3. v \in 1..Len(log) /\ tab[w].mark \in 1..Len(log) /\ tab[w].mark <= v /\ log[v].saves \in Nat
  BY <1>1, <1>2 DEF Kept, Replicas, States
<1>4. PICK r \in TabRows :
        /\ r = [tab[w] EXCEPT !.at = "shown", !.saw = log[v].saves, !.mark = v, !.boot = 0]
        /\ r.at = "shown" /\ r.alone = tab[w].alone /\ r.saw = log[v].saves
        /\ r.floor = tab[w].floor /\ r.sure = tab[w].sure /\ r.late = tab[w].late
  <2> DEFINE n == [tab[w] EXCEPT !.at = "shown", !.saw = log[v].saves, !.mark = v, !.boot = 0]
  <2>1. n.at = "shown" /\ n.saw = log[v].saves
    BY <1>1 DEF TabRows
  <2>2. v \in Nat
    BY <1>3
  <2>3. n \in TabRows
    BY <1>1, <1>3, <2>2 DEF TabRows
  <2>4. n.alone = tab[w].alone /\ n.floor = tab[w].floor /\ n.sure = tab[w].sure /\ n.late = tab[w].late
    BY <1>1 DEF TabRows
  <2> QED
    BY <2>1, <2>3, <2>4
<1>5. OneTab(w, r)
  BY <1>1, <1>2, <1>4 DEF OneTab
<1>6. Kept(r)
  <2>1. log[tab[w].mark].saves <= log[v].saves /\ log[tab[w].mark].saves \in Nat /\ r.floor \in Nat
    BY <1>1, <1>3 DEF DeskInv, LogInv, States, TabRows
  <2>2. r.sure => log[tab[w].mark].saves >= r.floor
    BY <1>1, <1>4 DEF Kept
  <2>3. r.sure => r.saw >= r.floor
    BY <1>3, <1>4, <2>1, <2>2
  <2> QED
    BY <1>1, <1>4, <2>3 DEF Kept
<1>7. DeskTypeOK' /\ LogInv' /\ Longer /\ Primary' = Primary /\ Kept(r)' /\ UNCHANGED <<answered, crossed>>
  BY <1>5, <1>6, ReadStep DEF Show
<1>8. TabInv' /\ AloneInv'
  BY <1>1, <1>4, <1>5, <1>7, GoesOn DEF Serving
<1> QED
  BY <1>7, <1>8 DEF DeskInv

LEMMA EndStep ==
  ASSUME DeskInv, NEW w \in Tabs, Answer(w) \/ Crash(w) \/ RestCall(w) \/ McpCall(w), UNCHANGED clock
  PROVE  DeskInv'
<1>1. tab \in [Tabs -> TabRows] /\ Len(log) \in Nat /\ UNCHANGED <<log, answered, gone, crossed>>
  BY PrimaryIs DEF DeskInv, DeskTypeOK, Answer, Crash, RestCall, McpCall, Authenticate
<1>2. PICK r \in TabRows : r.at \in {"idle", "api"} /\ ~r.alone /\ Kept(r) /\ tab' = [tab EXCEPT ![w] = r]
  <2>1. CASE Answer(w) \/ Crash(w)
    BY <2>1, AwayIs DEF Answer, Crash, Leaves
  <2>2. CASE RestCall(w) \/ McpCall(w)
    <3>1. Primary.key /\ tab' = [tab EXCEPT ![w] = [Away EXCEPT !.at = "api", !.late = "key" \in gone]]
      BY <2>2 DEF RestCall, McpCall, Authenticate, WritesFor, Freshest, KeyStands, Primary
    <3>2. "key" \notin gone
      BY <3>1 DEF DeskInv, LogInv
    <3> DEFINE n == [Away EXCEPT !.at = "api", !.late = "key" \in gone]
    <3>3. n.at = "api" /\ n.expires = 0 /\ n.boot = 0 /\ n.mark = 0 /\ n.saw = 0 /\ n.floor = 0
      BY DEF Away
    <3>4. n.late = ("key" \in gone) /\ ~n.sure /\ ~n.alone
      BY DEF Away
    <3>5. n = [f \in {"at", "expires", "boot", "mark", "saw", "floor", "late", "sure", "alone"} |-> n[f]]
      BY DEF Away
    <3>6. n.late \in BOOLEAN /\ n.sure \in BOOLEAN /\ n.alone \in BOOLEAN
      BY DEF Away
    <3> HIDE DEF n
    <3>7. n \in TabRows
      BY <3>3, <3>5, <3>6 DEF TabRows
    <3>8. Kept(n)
      BY <3>2, <3>3, <3>4 DEF Kept
    <3> QED
      BY <3>1, <3>3, <3>4, <3>7, <3>8 DEF n
  <2> QED
    BY <2>1, <2>2
<1>3. OneTab(w, r)
  BY <1>1, <1>2 DEF OneTab
<1>4. DeskTypeOK' /\ LogInv' /\ Longer /\ Primary' = Primary /\ Kept(r)'
  BY <1>1, <1>2, <1>3, ReadStep
<1>5. TabInv' /\ AloneInv'
  BY <1>1, <1>2, <1>3, <1>4, GoesAway
<1> QED
  BY <1>4, <1>5 DEF DeskInv

\* A form is saved or a key revoked: the request holds the mark of its own write.
LEMMA SaveStep ==
  ASSUME DeskInv, NEW w \in Tabs, NEW what \in {"saved", "revoked"}, Save(w, what), UNCHANGED clock
  PROVE  DeskInv'
<1>1. /\ DeskTypeOK /\ LogInv /\ TabInv /\ AloneInv /\ Primary \in States
      /\ tab \in [Tabs -> TabRows] /\ tab[w] \in TabRows /\ Kept(tab[w]) /\ tab[w].at = "shown"
      /\ Len(log) \in Nat \ {0} /\ \A i \in 1..Len(log) : log[i] \in States
  BY PrimaryIs DEF DeskInv, DeskTypeOK, TabInv, Save, Steps
<1>2. PICK s \in States :
        /\ Commit(s) /\ s.row = Primary.row /\ s.saves >= Primary.saves /\ (s.key => Primary.key)
        /\ what = "revoked" => ~s.key
  <2>1. CASE what = "saved"
    <3> DEFINE n == [Primary EXCEPT !.saves = @ + 1]
    <3>1. n \in States /\ n.row = Primary.row /\ n.saves = Primary.saves + 1 /\ (n.key => Primary.key)
      BY <1>1 DEF States
    <3>2. Commit(n)
      BY <2>1 DEF Save
    <3> HIDE DEF n
    <3>3. n.saves >= Primary.saves
      BY <1>1, <3>1 DEF States
    <3> QED
      BY <2>1, <3>1, <3>2, <3>3
  <2>2. CASE what = "revoked"
    <3> DEFINE n == [Primary EXCEPT !.key = FALSE]
    <3>1. n \in States /\ n.row = Primary.row /\ n.saves = Primary.saves /\ ~n.key
      BY <1>1 DEF States
    <3>2. Commit(n)
      BY <2>2 DEF Save
    <3> HIDE DEF n
    <3>3. n.saves >= Primary.saves
      BY <1>1, <3>1 DEF States
    <3> QED
      BY <2>2, <3>1, <3>2, <3>3
  <2> QED
    BY <2>1, <2>2
<1>3. /\ log' \in Seq(States) /\ Len(log') \in Nat /\ Len(log') = Len(log) + 1 /\ Primary' = s /\ Longer
      /\ \A i, j \in 1..Len(log') : i <= j => log'[i].saves <= log'[j].saves
  BY <1>1, <1>2, LogGrows
<1>4. Last(log') = s /\ log'[Len(log')] = s /\ s.saves \in Nat /\ Len(log') \in 1..Len(log')
  BY <1>3 DEF Last, Primary, States
<1>5. PICK r \in TabRows :
        /\ tab' = [tab EXCEPT ![w] = r] /\ r.at = what /\ r.mark = Len(log') /\ r.saw = s.saves
        /\ r.alone = tab[w].alone /\ r.late = tab[w].late
  <2> DEFINE n == [tab[w] EXCEPT !.at = what, !.mark = Len(log'), !.saw = Last(log').saves, !.floor = 0]
  <2>1. n.at = what /\ n.mark = Len(log') /\ n.saw = s.saves
    BY <1>1, <1>4 DEF TabRows
  <2>2. n.alone = tab[w].alone /\ n.late = tab[w].late
    BY <1>1 DEF TabRows
  <2>3. n \in TabRows
    BY <1>1, <1>3, <1>4 DEF TabRows
  <2>4. tab' = [tab EXCEPT ![w] = n]
    BY <1>1 DEF Save
  <2> HIDE DEF n
  <2> QED
    BY <2>1, <2>2, <2>3, <2>4
<1>6. OneTab(w, r) /\ UNCHANGED <<answered, gone, crossed>>
  <2>1. OneTab(w, r)
    BY <1>1, <1>5 DEF OneTab
  <2> QED
    BY <2>1 DEF Save
<1>7. answered <= s.saves /\ ("cookie" \in gone => ~s.row.live) /\ ("key" \in gone => ~s.key) /\ answered \in Nat
  BY <1>1, <1>2, <1>4 DEF LogInv, DeskTypeOK, States
<1>8. Kept(r)'
  <2>1. what = "revoked" => ~Primary'.key
    BY <1>2, <1>3
  <2>2. ~r.late
    BY <1>1, <1>5 DEF Kept
  <2> QED
    BY <1>3, <1>4, <1>5, <1>6, <1>7, <2>1, <2>2 DEF Kept
<1>9. DeskTypeOK' /\ LogInv'
  <2>1. \A i \in 1..Len(log) : i \in 1..Len(log') /\ log'[i] = log[i]
    BY <1>1, <1>3 DEF Longer
  <2>2. s.row.live => s.row.bookmark \in 1..Len(log') /\ (~crossed => log'[s.row.bookmark].saves >= answered)
    BY <1>1, <1>2, <2>1 DEF LogInv
  <2> QED
    BY <1>1, <1>3, <1>6, <1>7, <2>2 DEF DeskTypeOK, LogInv, OneTab
<1>10. TabInv' /\ AloneInv'
  <2>1. w \in Serving /\ r.at \notin {"idle", "api"} /\ (Primary'.key => Primary.key)
    BY <1>1, <1>2, <1>3, <1>5 DEF Serving
  <2> QED
    BY <1>3, <1>5, <1>6, <1>8, <2>1, GoesOn
<1> QED
  BY <1>9, <1>10 DEF DeskInv

\* advanceBookmark: the save is answered, and whoever was alone has covered it.
LEMMA AdvanceStep ==
  ASSUME DeskInv, NEW w \in Tabs, Advance(w), UNCHANGED clock
  PROVE  DeskInv'
<1>1. /\ DeskTypeOK /\ LogInv /\ TabInv /\ AloneInv /\ Primary \in States
      /\ tab \in [Tabs -> TabRows] /\ tab[w] \in TabRows /\ Kept(tab[w]) /\ tab[w].at \in {"saved", "revoked"}
      /\ Len(log) \in Nat \ {0} /\ \A i \in 1..Len(log) : log[i] \in States
  BY PrimaryIs DEF DeskInv, DeskTypeOK, TabInv, Advance, Steps
<1>2. /\ tab[w].mark \in 1..Len(log) /\ tab[w].expires \in Nat /\ tab[w].saw \in Nat /\ answered \in Nat
      /\ log[tab[w].mark].saves \in Nat /\ Primary.saves \in Nat /\ log[tab[w].mark].saves <= Primary.saves
  BY <1>1 DEF Kept, TabRows, DeskTypeOK, States, LogInv, Primary
<1>3. PICK s \in States :
        /\ s = Touched(tab[w].expires, tab[w].mark)
        /\ s.saves = Primary.saves /\ s.key = Primary.key /\ s.row.live = Primary.row.live
        /\ Primary.row.live => s.row.bookmark = tab[w].mark
  BY <1>2, TouchedIs
<1>4. s.saves >= Primary.saves
  BY <1>2, <1>3
<1>5. /\ Commit(s) /\ tab' = [tab EXCEPT ![w] = Away] /\ crossed' = (crossed /\ ~tab[w].alone)
      /\ answered' = IF tab[w].at = "saved" /\ tab[w].saw > answered THEN tab[w].saw ELSE answered
      /\ gone' = IF tab[w].at = "revoked" THEN gone \cup {"key"} ELSE gone
  BY <1>3 DEF Advance, Steps, Leaves
<1>6. /\ log' \in Seq(States) /\ Len(log') \in Nat /\ Len(log') = Len(log) + 1 /\ Primary' = s /\ Longer
      /\ \A i, j \in 1..Len(log') : i <= j => log'[i].saves <= log'[j].saves
  BY <1>1, <1>4, <1>5, LogGrows
<1>7. OneTab(w, Away)
  BY <1>1, <1>5, AwayIs DEF OneTab
<1>8. /\ answered' \in Nat /\ answered' <= s.saves
      /\ tab[w].alone => answered' <= log[tab[w].mark].saves
  <2>1. tab[w].at = "saved" => tab[w].saw <= log[tab[w].mark].saves
    BY <1>1 DEF Kept
  <2>2. tab[w].alone => log[tab[w].mark].saves >= answered
    BY <1>1 DEF Kept
  <2>3. answered <= Primary.saves
    BY <1>1 DEF LogInv
  <2> QED
    BY <1>2, <1>3, <1>5, <2>1, <2>2, <2>3
<1>9. ~crossed' => tab[w].alone
  BY <1>1, <1>5 DEF AloneInv, Serving
<1>10. DeskTypeOK' /\ LogInv'
  <2>1. \A i \in 1..Len(log) : i \in 1..Len(log') /\ log'[i] = log[i]
    BY <1>1, <1>6 DEF Longer
  <2>2. s.row.live => s.row.bookmark \in 1..Len(log') /\ (~crossed' => log'[s.row.bookmark].saves >= answered')
    BY <1>2, <1>3, <1>8, <1>9, <2>1
  <2>3. ("cookie" \in gone' => ~s.row.live) /\ ("key" \in gone' => ~s.key)
    BY <1>1, <1>3, <1>5 DEF LogInv, Kept
  <2>4. gone' \subseteq {"cookie", "key"} /\ crossed' \in BOOLEAN
    BY <1>1, <1>5 DEF DeskTypeOK
  <2> QED
    BY <1>1, <1>6, <1>7, <1>8, <2>2, <2>3, <2>4 DEF DeskTypeOK, LogInv, OneTab
<1>11. TabInv' /\ AloneInv'
  <2>1. w \in Serving /\ ((crossed' = crossed) \/ tab[w].alone) /\ (Primary'.key => Primary.key)
    BY <1>1, <1>3, <1>5, <1>6 DEF Serving, DeskTypeOK
  <2> QED
    BY <1>6, <1>7, <2>1, AwayIs, GoesAway
<1> QED
  BY <1>10, <1>11 DEF DeskInv

\* A commit that leaves the cookie's row where it was, or without it.
LEMMA LastStep ==
  ASSUME DeskInv, NEW w \in Tabs, SignOut(w) \/ ApiWrite(w), UNCHANGED clock
  PROVE  DeskInv'
<1>1. /\ DeskTypeOK /\ LogInv /\ TabInv /\ AloneInv /\ Primary \in States /\ tab \in [Tabs -> TabRows]
      /\ Len(log) \in Nat \ {0} /\ \A i \in 1..Len(log) : log[i] \in States
  BY PrimaryIs DEF DeskInv, DeskTypeOK
<1>2. PICK s \in States :
        /\ Commit(s) /\ s.saves = Primary.saves /\ s.key = Primary.key
        /\ \/ s = Primary /\ gone' = gone
           \/ ~s.row.live /\ gone' = gone \cup {"cookie"}
  BY <1>1, NoRowIs DEF SignOut, ApiWrite
<1>3. tab' = [tab EXCEPT ![w] = Away] /\ UNCHANGED <<answered, crossed>>
  BY DEF SignOut, ApiWrite, Leaves
<1>4. s.saves >= Primary.saves
  BY <1>1, <1>2 DEF States
<1>5. /\ log' \in Seq(States) /\ Len(log') \in Nat /\ Len(log') = Len(log) + 1 /\ Primary' = s /\ Longer
      /\ \A i, j \in 1..Len(log') : i <= j => log'[i].saves <= log'[j].saves
  BY <1>1, <1>2, <1>4, LogGrows
<1>6. OneTab(w, Away)
  BY <1>1, <1>3, AwayIs DEF OneTab
<1>7. DeskTypeOK' /\ LogInv'
  <2>1. \A i \in 1..Len(log) : i \in 1..Len(log') /\ log'[i] = log[i]
    BY <1>1, <1>5 DEF Longer
  <2>2. s.row.live => s.row.bookmark \in 1..Len(log') /\ (~crossed => log'[s.row.bookmark].saves >= answered)
    BY <1>1, <1>2, <2>1 DEF LogInv
  <2>3. /\ answered <= s.saves /\ ("cookie" \in gone' => ~s.row.live) /\ ("key" \in gone' => ~s.key)
        /\ gone' \subseteq {"cookie", "key"}
    BY <1>1, <1>2 DEF LogInv, DeskTypeOK
  <2> QED
    BY <1>1, <1>3, <1>5, <1>6, <2>2, <2>3 DEF DeskTypeOK, LogInv, OneTab
<1>8. TabInv' /\ AloneInv'
  BY <1>2, <1>3, <1>5, <1>6, AwayIs, GoesAway
<1> QED
  BY <1>7, <1>8 DEF DeskInv

LEMMA DeskKeeps ==
  ASSUME DeskInv, [(DeskNext /\ UNCHANGED clock) \/ (Tick /\ UNCHANGED deskVars)]_<<clock, deskVars>>
  PROVE  DeskInv'
<1>1. CASE DeskNext /\ UNCHANGED clock
  BY <1>1, EnterStep, SlideStep, ShowStep, EndStep, SaveStep, AdvanceStep, LastStep
  DEF DeskNext, SaveForm, RevokeKey
<1>2. CASE UNCHANGED deskVars /\ clock' \in Nat
  BY <1>2 DEF DeskInv, DeskTypeOK, LogInv, TabInv, Kept, AloneInv, Serving, Primary, deskVars
<1>3. UNCHANGED clock \/ Tick => clock' \in Nat
  BY DEF Tick, DeskInv, DeskTypeOK
<1> QED
  BY <1>1, <1>2, <1>3

LEMMA DeskBegins == ClockInit /\ DeskInit => DeskInv
<1> SUFFICES ASSUME ClockInit, DeskInit
             PROVE  DeskInv
  OBVIOUS
<1> DEFINE first == [row |-> [live |-> TRUE, expires |-> SessionTTL, bookmark |-> 1], saves |-> 0, key |-> TRUE]
<1>1. log = <<first>> /\ tab = [w \in Tabs |-> Away] /\ answered = 0 /\ gone = {} /\ crossed = FALSE /\ clock = 0
  BY DEF DeskInit, ClockInit
<1>2. first \in States /\ first.saves = 0 /\ first.row.live /\ first.row.bookmark = 1
  BY DeskAssumption DEF States, Rows
<1> HIDE DEF first
<1>3. log \in Seq(States) /\ Len(log) = 1 /\ log[1] = first /\ Primary = first
  BY <1>1, <1>2 DEF Primary
<1>4. DeskTypeOK
  <2>1. crossed \in BOOLEAN
    BY <1>1
  <2> QED
    BY <1>1, <1>3, <2>1, AwayIs DEF DeskTypeOK
<1>5. LogInv
  BY <1>1, <1>2, <1>3 DEF LogInv
<1>6. TabInv /\ AloneInv
  BY <1>1, AwayIs DEF TabInv, AloneInv, Serving
<1> QED
  BY <1>4, <1>5, <1>6 DEF DeskInv

-----------------------------------------------------------------------------
(* The theorems. *)

AccountsInv == IInv /\ PlacesInv /\ DeskInv

LEMMA Parts ==
  ASSUME [Next]_accountVars
  PROVE  /\ [SignInNext]_signInVars /\ [PlacesNext]_placeVars
         /\ [(DeskNext /\ UNCHANGED clock) \/ (Tick /\ UNCHANGED deskVars)]_<<clock, deskVars>>
<1>1. CASE Signing
  BY <1>1 DEF Signing
<1>2. CASE Addresses
  BY <1>2 DEF Addresses
<1>3. CASE Dashboard
  BY <1>3 DEF Dashboard
<1>4. CASE Time
  BY <1>4 DEF Time
<1>5. CASE UNCHANGED accountVars
  BY <1>5 DEF accountVars
<1> QED
  BY <1>1, <1>2, <1>3, <1>4, <1>5 DEF Next

LEMMA AccountsInvariant == Spec => []AccountsInv
<1>1. Init => AccountsInv
  BY InitIInv, PlacesBegin, DeskBegins DEF Init, AccountsInv
<1>2. AccountsInv /\ [Next]_accountVars => AccountsInv'
  <2> SUFFICES ASSUME AccountsInv, [Next]_accountVars
               PROVE  AccountsInv'
    OBVIOUS
  <2>1. IInv /\ [SignInNext]_signInVars => IInv'
    BY TypesStep, AdminStep, LinkStep, HoursStep DEF IInv
  <2> QED
    BY <2>1, Parts, PlacesKeeps, DeskKeeps DEF AccountsInv
<1> QED
  BY <1>1, <1>2, PTL DEF Spec

\* The accounts sign in as SignIn says: what is proved of it above holds of
\* them all together.
THEOREM AccountsSignIn == Spec => SignInSpec
<1>1. Init => SignInInit
  BY DEF Init
<1>2. [Next]_accountVars => [SignInNext]_signInVars
  BY Parts
<1> QED
  BY <1>1, <1>2, PTL DEF Spec, SignInSpec

\* bookingPageContext finds one page at an address and somebody behind it,
\* however many owners, forms and API clients write at once, unless a slug was
\* claimed by two before either's write had spread.
THEOREM AddressesResolve == Spec => []PagesResolve
<1>1. AccountsInv => PagesResolve
  BY OnePage DEF AccountsInv
<1> QED
  BY <1>1, AccountsInvariant, PTL

\* The instance keeps an admin and every team a member, for any number of
\* people who are demoted, removed or leave at once.
THEOREM SomebodyHasTheKey == Spec => []NobodyLockedOut
<1>1. AccountsInv => NobodyLockedOut
  BY DEF AccountsInv, IInv, AdminInv, PlacesInv, MemberInv, NobodyLockedOut
<1> QED
  BY <1>1, AccountsInvariant, PTL

\* The bookmark in the session's row shows a host what the host saved, whatever
\* replica answers, however many requests broke off before.
THEOREM OwnPastIsSeen == Spec => []SeesOwnPast
<1>1. AccountsInv => SeesOwnPast
  BY DEF AccountsInv, DeskInv, TabInv, Kept, SeesOwnPast
<1> QED
  BY <1>1, AccountsInvariant, PTL

\* Nobody gets in on a cookie after its sign-out was answered, nor writes with
\* a key after its revocation was.
THEOREM RevocationIsFinal == Spec => []RevocationHolds
<1>1. AccountsInv => RevocationHolds
  BY DEF AccountsInv, DeskInv, TabInv, Kept, RevocationHolds
<1> QED
  BY <1>1, AccountsInvariant, PTL

\* A link opens one session whatever else the accounts do.
THEOREM AccountsLinksOpenOnce == Spec => []OneSessionPerLink
  BY AccountsSignIn, LinkOpensOnce, PTL

\* The hours a host saved stand against every backfill, in the composition too.
THEOREM AccountsHoursStand == Spec => []ScheduleStands
  BY AccountsSignIn, HoursStand, PTL
=================================================================================
