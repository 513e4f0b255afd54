--------------------------------- MODULE Places ---------------------------------
(***************************************************************************)
(* Public addresses: /{owner}/{event}, where owners are hosts and teams in *)
(* one namespace kept by two tables, the teams' members, and the event     *)
(* types the dashboard and the API publish under them. Each form reads,    *)
(* checks and then writes; only a UNIQUE index or a guarded statement      *)
(* arbitrates between two.                                                 *)
(***************************************************************************)
EXTENDS Naturals, FiniteSets

CONSTANTS
  Hosts, Teams,
  Slugs,     \* first segments of an address
  Paths,     \* second segments
  Listings,  \* ids of event types
  Forms,     \* requests
  NoOne

ASSUME PlacesAssumption == Hosts \cap Teams = {} /\ NoOne \notin Slugs \cup Hosts \cup Teams

VARIABLES
  slug,     \* users.slug and teams.slug, NoOne where there is no row
  members,  \* team_members
  listing,  \* event_types: [owner, path, active], owner NoOne where there is no row
  form,     \* the locals of each request
  raced     \* history: slugs two requests checked before either's write had spread

placeVars == <<slug, members, listing, form, raced>>

Blank == [at |-> "idle", owner |-> NoOne, slug |-> NoOne, by |-> NoOne, listing |-> NoOne, path |-> NoOne,
          active |-> FALSE]
NoListing == [owner |-> NoOne, path |-> NoOne, active |-> FALSE]

PlacesInit ==
  /\ slug = [o \in Hosts \cup Teams |-> NoOne]
  /\ members = [t \in Teams |-> {}]
  /\ listing = [e \in Listings |-> NoListing]
  /\ form = [w \in Forms |-> Blank]
  /\ raced = {}

Known(o) == slug[o] # NoOne
Continue(w, f) == form' = [form EXCEPT ![w] = f]
Doing(w, at) == form[w].at = at

-----------------------------------------------------------------------------
(* Slugs. *)

Claiming(s) == {w \in Forms : form[w].slug = s}
TakenFor(o, s) == \E other \in (Hosts \cup Teams) \ {o} : slug[other] = s

\* Slip: a team's slug is looked up among the teams, a host's among the hosts.
OneTable(o, s) == ~\E other \in (IF o \in Teams THEN Teams ELSE Hosts) \ {o} : slug[other] = s

\* bySlug in both tables: a replica may not have the last writer's yet.
MayPass(o, s) == ~TakenFor(o, s) \/ Claiming(s) # {}

Claim(w, by, o, s) ==
  /\ Doing(w, "idle") /\ MayPass(o, s)
  /\ Continue(w, [Blank EXCEPT !.at = "claim", !.owner = o, !.slug = s, !.by = by])
  /\ raced' = IF Claiming(s) = {} THEN raced ELSE raced \cup {s}
  /\ UNCHANGED <<slug, members, listing>>

OpenSettings(w, h, s) == Known(h) /\ slug[h] # s /\ Claim(w, h, h, s)

\* uniqueSlug, at the first sign-in.
Join(w, h, s) == ~Known(h) /\ Claim(w, h, h, s)

OpenTeam(w, h, t, s) == Known(h) /\ ~Known(t) /\ Claim(w, h, t, s)

\* users_slug_idx: users.update reports a collision.
UserHas(s) == \E h \in Hosts : slug[h] = s

\* The form says the address is taken, or the address changes.
WriteSlug(w) ==
  /\ Doing(w, "claim") /\ form[w].owner \in Hosts
  /\ IF UserHas(form[w].slug)
     THEN Continue(w, Blank) /\ UNCHANGED slug
     ELSE slug' = [slug EXCEPT ![form[w].owner] = form[w].slug] /\ Continue(w, [form[w] EXCEPT !.at = "spread"])
  /\ UNCHANGED <<members, listing, raced>>

\* teams_slug_idx, likewise; the row and its first member in one batch.
TeamHas(s) == \E t \in Teams : slug[t] = s
CreateWithFirstMember(t, s, h) ==
  IF TeamHas(s) THEN UNCHANGED <<slug, members>>
  ELSE slug' = [slug EXCEPT ![t] = s] /\ members' = [members EXCEPT ![t] = {h}]

\* The id of a team is its own: where another request made it, this one makes none.
CreateTeam(w) ==
  /\ Doing(w, "claim") /\ form[w].owner \in Teams
  /\ LET f == form[w] IN
       IF Known(f.owner)
       THEN Continue(w, Blank) /\ UNCHANGED <<slug, members>>
       ELSE /\ CreateWithFirstMember(f.owner, f.slug, f.by)
            /\ Continue(w, IF TeamHas(f.slug) THEN Blank ELSE [f EXCEPT !.at = "spread"])
  /\ UNCHANGED <<listing, raced>>

\* The replicas have it.
Spread(w) ==
  /\ Doing(w, "spread")
  /\ Continue(w, Blank)
  /\ UNCHANGED <<slug, members, listing, raced>>

-----------------------------------------------------------------------------
(* Members. memberManagedTeam is read before the form is acted upon. *)

OpenMember(w, t, h, at) ==
  /\ Doing(w, "idle")
  /\ Continue(w, [Blank EXCEPT !.at = at, !.owner = t, !.by = h])
  /\ UNCHANGED <<slug, members, listing, raced>>

\* Whoever has an account can be added, again with another weight.
OpenAdd(w, by, t, h) == by \in members[t] /\ Known(h) /\ OpenMember(w, t, h, "add")
OpenRemove(w, by, t, h) == {by, h} \subseteq members[t] /\ OpenMember(w, t, h, "remove")

\* INSERT ... ON CONFLICT DO UPDATE: another weight is no second row.
WithMember(rows, h) == rows \cup {h}

AddMember(w) ==
  /\ Doing(w, "add")
  /\ members' = [members EXCEPT ![form[w].owner] = WithMember(@, form[w].by)]
  /\ Continue(w, Blank)
  /\ UNCHANGED <<slug, listing, raced>>

\* DELETE ... AND (SELECT COUNT(*) ...) > 1
WithoutMember(rows, h) == IF Cardinality(rows) > 1 THEN rows \ {h} ELSE rows

\* Refused for the last one; a second removal of one who is gone is nothing.
RemoveMember(w) ==
  /\ Doing(w, "remove")
  /\ members' = [members EXCEPT ![form[w].owner] = WithoutMember(@, form[w].by)]
  /\ Continue(w, Blank)
  /\ UNCHANGED <<slug, listing, raced>>

-----------------------------------------------------------------------------
(* Event types. An id is used once. *)

Fresh(e) == listing[e] = NoListing
Stored(e) == listing[e].owner # NoOne
MayOwn(h, o) == o = h \/ (o \in Teams /\ h \in members[o])
Owns(h, e) == Stored(e) /\ MayOwn(h, listing[e].owner)
Siblings(o, e) == {s \in Listings \ {e} : listing[s].owner = o}

Submit(w, at, e, o, p, active) ==
  /\ Continue(w, [Blank EXCEPT !.at = at, !.listing = e, !.owner = o, !.path = p, !.active = active])
  /\ UNCHANGED <<slug, members, listing, raced>>

\* validateEventType: the owner is the host or a team of theirs, and no sibling,
\* shown or not, has the path.
Validates(by, e, o, p) == Known(by) /\ MayOwn(by, o) /\ \A s \in Siblings(o, e) : listing[s].path # p

NewListing(w, by, e, o, p, active) ==
  Doing(w, "idle") /\ Fresh(e) /\ Validates(by, e, o, p) /\ Submit(w, "create", e, o, p, active)

EditListing(w, by, e, o, p, active) ==
  Doing(w, "idle") /\ Owns(by, e) /\ Validates(by, e, o, p) /\ Submit(w, "update", e, o, p, active)

\* The API's POST looks for an active page at the address; its PATCH for
\* nothing, and leaves the owner alone.
ApiPost(w, by, e, p, active) ==
  /\ Doing(w, "idle") /\ Fresh(e) /\ Known(by)
  /\ ~\E s \in Siblings(by, e) : listing[s].active /\ listing[s].path = p
  /\ Submit(w, "create", e, by, p, active)

ApiPatch(w, by, e, p, active) ==
  Doing(w, "idle") /\ Owns(by, e) /\ Submit(w, "patch", e, NoOne, p, active)

\* event_types_user_slug_idx and event_types_team_slug_idx: the second throws.
\* An update of a row that is gone changes nothing.
WriteListing(w) ==
  /\ form[w].at \in {"create", "update", "patch"}
  /\ LET f == form[w]
         owner == IF Doing(w, "patch") THEN listing[f.listing].owner ELSE f.owner IN
       listing' =
         IF /\ IF Doing(w, "create") THEN Fresh(f.listing) ELSE Stored(f.listing)
            /\ \A s \in Siblings(owner, f.listing) : listing[s].path # f.path
         THEN [listing EXCEPT ![f.listing] = [owner |-> owner, path |-> f.path, active |-> f.active]]
         ELSE listing
  /\ Continue(w, Blank)
  /\ UNCHANGED <<slug, members, raced>>

OpenDelete(w, by, e) ==
  /\ Doing(w, "idle") /\ Owns(by, e)
  /\ Continue(w, [Blank EXCEPT !.at = "delete", !.listing = e])
  /\ UNCHANGED <<slug, members, listing, raced>>

DeleteListing(w) ==
  /\ Doing(w, "delete")
  /\ listing' = [listing EXCEPT ![form[w].listing] = [@ EXCEPT !.owner = NoOne, !.active = FALSE]]
  /\ Continue(w, Blank)
  /\ UNCHANGED <<slug, members, raced>>

-----------------------------------------------------------------------------
Abandon(w) ==
  /\ form[w].at \notin {"idle", "spread"}
  /\ Continue(w, Blank)
  /\ UNCHANGED <<slug, members, listing, raced>>

PlacesNext ==
  \E w \in Forms :
    \/ \E by \in Hosts :
         \/ \E s \in Slugs : OpenSettings(w, by, s) \/ Join(w, by, s) \/ \E t \in Teams : OpenTeam(w, by, t, s)
         \/ \E t \in Teams, h \in Hosts : OpenAdd(w, by, t, h) \/ OpenRemove(w, by, t, h)
         \/ \E e \in Listings, p \in Paths, active \in BOOLEAN :
              \/ ApiPost(w, by, e, p, active) \/ ApiPatch(w, by, e, p, active)
              \/ \E o \in Hosts \cup Teams : NewListing(w, by, e, o, p, active) \/ EditListing(w, by, e, o, p, active)
         \/ \E e \in Listings : OpenDelete(w, by, e)
    \/ WriteSlug(w) \/ CreateTeam(w) \/ Spread(w) \/ AddMember(w) \/ RemoveMember(w)
    \/ WriteListing(w) \/ DeleteListing(w) \/ Abandon(w)

-----------------------------------------------------------------------------
(* Properties. *)

\* The active rows an address matches, and who stands behind a row: its host,
\* or a member of its team.
AtAddress(s, p) ==
  {e \in Listings : listing[e].active /\ listing[e].path = p /\ slug[listing[e].owner] = s}
Behind(e) == IF listing[e].owner \in Teams THEN members[listing[e].owner] ELSE {listing[e].owner}

\* bookingPageContext takes the first row an address matches and answers "not
\* found" where no host stands behind it: whatever hosts, teams and API clients
\* rename, publish, delete and leave meanwhile, an address matches one page at
\* most, unless its owner's slug was claimed twice at once, and every page of a
\* team has somebody behind it.
PagesResolve ==
  /\ \A s \in Slugs \ raced : \A p \in Paths : Cardinality(AtAddress(s, p)) <= 1
  /\ \A e \in Listings : listing[e].active => Behind(e) # {}

\* "Unmanageable by everyone forever": a team always has a member.
TeamsManned == \A t \in Teams : Known(t) => members[t] # {}
================================================================================
