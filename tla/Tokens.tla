--------------------------------- MODULE Tokens ---------------------------------
(***************************************************************************)
(* The OAuth tokens of one calendar connection, and the provider calls of  *)
(* several Workers that refresh them. Each call works on the connection    *)
(* row as it was loaded; a refresh is written back by id, whatever the row *)
(* says by then.                                                           *)
(***************************************************************************)
EXTENDS Clock

CONSTANTS
  Callers,      \* provider calls that may run at one time
  TokenLife,    \* expires_in of an access token
  Skew,         \* REFRESH_SKEW_MS
  Rotations,    \* what refreshing does to the refresh token: "keep" (Google),
                \* "renew" (a new one, the old still works), "replace"
  MaxMint,      \* bound on the refreshes
  TokenFaults   \* which of "reply" and "store" may be lost

ASSUME TokensAssumption ==
  /\ TokenLife \in Nat /\ Skew \in Nat /\ MaxMint \in Nat \ {0}
  /\ Rotations \subseteq {"keep", "renew", "replace"}
  /\ TokenFaults \subseteq {"reply", "store"}

VARIABLES
  row,       \* the tokens in calendar_connections; refresh is 0 for ''
  health,    \* calendar_connections.sync_status
  rotation,  \* this provider's habit
  honoured,  \* the refresh tokens the provider accepts
  minted,    \* the number of the last one it gave
  call,      \* the locals of providerFetch
  forgotten  \* history: a refresh whose answer, or write, was lost

tokenVars == <<row, health, rotation, honoured, minted, call, forgotten>>

NoCall == [at |-> "idle", conn |-> [refresh |-> 0, expiresAt |-> 0],
           next |-> [refresh |-> 0, expiresAt |-> 0], force |-> FALSE]

TokenInit ==
  /\ row \in [refresh: {0, 1}, expiresAt: {TokenLife}]
  /\ health = "ok"
  /\ rotation \in Rotations
  /\ honoured = {row.refresh} \ {0} /\ minted = 1
  /\ call = [w \in Callers |-> NoCall]
  /\ forgotten = FALSE

\* The host withdraws access at the provider.
Withdraw ==
  /\ honoured # {}
  /\ honoured' = {}
  /\ UNCHANGED <<row, health, rotation, minted, call, forgotten>>

-----------------------------------------------------------------------------
(* One provider call. *)

Load(w) ==
  /\ call[w].at = "idle" /\ health = "ok"
  /\ call' = [call EXCEPT ![w] = [NoCall EXCEPT !.at = "ensure", !.conn = row]]
  /\ UNCHANGED <<row, health, rotation, honoured, minted, forgotten>>

\* ensureAccessToken up to the request for a new token.
Ensure(w) ==
  /\ call[w].at = "ensure"
  /\ LET stale == call[w].conn.expiresAt <= After(Skew) IN
       call' = [call EXCEPT ![w].at = IF ~call[w].force /\ ~stale THEN "use"
                                      ELSE IF call[w].conn.refresh = 0 THEN "reconnect" ELSE "refresh"]
  /\ UNCHANGED <<row, health, rotation, honoured, minted, forgotten>>

\* Slip: the refresh token that was sent is the one kept.
SameToken(w) == call[w].conn.refresh

\* "Keeping the old one when none is returned" serves both providers.
NewToken(w) == IF rotation = "keep" THEN call[w].conn.refresh ELSE minted + 1

\* The provider refreshes: it mints, and may drop the token it was shown.
Mints(w) ==
  /\ call[w].at = "refresh" /\ call[w].conn.refresh \in honoured /\ minted < MaxMint
  /\ minted' = minted + 1
  /\ honoured' = CASE rotation = "keep" -> honoured
                   [] rotation = "renew" -> honoured \cup {minted + 1}
                   [] rotation = "replace" -> (honoured \ {call[w].conn.refresh}) \cup {minted + 1}

Refresh(w) ==
  /\ Mints(w)
  /\ call' = [call EXCEPT ![w].at = "store", ![w].next = [refresh |-> NewToken(w), expiresAt |-> After(TokenLife)]]
  /\ UNCHANGED <<row, health, rotation, forgotten>>

InvalidGrant(w) ==
  /\ call[w].at = "refresh" /\ call[w].conn.refresh \notin honoured
  /\ call' = [call EXCEPT ![w].at = "reconnect"]
  /\ UNCHANGED <<row, health, rotation, honoured, minted, forgotten>>

\* Any other error of the token endpoint ends the call; its work may be done.
RefreshFails(w) ==
  /\ "reply" \in TokenFaults /\ call[w].at = "refresh"
  /\ \/ UNCHANGED <<honoured, minted, forgotten>>
     \/ Mints(w) /\ forgotten' = TRUE
  /\ call' = [call EXCEPT ![w] = NoCall]
  /\ UNCHANGED <<row, health, rotation>>

\* "Persist BEFORE use."
StoreTokens(w) ==
  /\ call[w].at = "store"
  /\ \/ /\ row' = call[w].next
        /\ call' = [call EXCEPT ![w].at = "use"]
        /\ UNCHANGED forgotten
     \/ /\ "store" \in TokenFaults
        /\ call' = [call EXCEPT ![w] = NoCall]
        /\ forgotten' = TRUE
        /\ UNCHANGED row
  /\ UNCHANGED <<health, rotation, honoured, minted>>

\* The API takes the token, or answers 401 ("expiry is advisory"), upon which
\* providerFetch starts over, once, from the row it was given.
Use(w) ==
  /\ call[w].at = "use"
  /\ \/ call' = [call EXCEPT ![w] = NoCall]
     \/ call' = IF call[w].force THEN [call EXCEPT ![w].at = "reconnect"]
                ELSE [call EXCEPT ![w].at = "ensure", ![w].force = TRUE]
  /\ UNCHANGED <<row, health, rotation, honoured, minted, forgotten>>

Reconnect(w) ==
  /\ call[w].at = "reconnect"
  /\ \/ health' = "needs_reconnect"
     \/ "store" \in TokenFaults /\ UNCHANGED health
  /\ call' = [call EXCEPT ![w] = NoCall]
  /\ UNCHANGED <<row, rotation, honoured, minted, forgotten>>

TokenNext ==
  \/ Withdraw
  \/ \E w \in Callers : \/ Load(w) \/ Ensure(w) \/ Refresh(w) \/ InvalidGrant(w) \/ RefreshFails(w)
                        \/ StoreTokens(w) \/ Use(w) \/ Reconnect(w)

-----------------------------------------------------------------------------
(* Properties. *)

TokenTypeOK ==
  LET Tokens == [refresh: 0..MaxMint, expiresAt: 0..(MaxClock + TokenLife)] IN
    /\ row \in Tokens
    /\ health \in {"ok", "needs_reconnect"}
    /\ rotation \in Rotations
    /\ honoured \subseteq 1..MaxMint /\ minted \in 1..MaxMint
    /\ call \in [Callers -> [at: {"idle", "ensure", "refresh", "store", "use", "reconnect"},
                             conn: Tokens, next: Tokens, force: BOOLEAN]]
    /\ forgotten \in BOOLEAN

\* "Failing to store it strands the connection": while the host's grant stands,
\* no refresh is on its way to the row and none was lost, the refresh token in
\* the row is one the provider honours, however the calls that refresh it, with
\* old copies of it, overlap and end.
TokenKept ==
  honoured # {} /\ row.refresh # 0 /\ ~forgotten /\ (\A w \in Callers : call[w].at # "store")
    => row.refresh \in honoured
=================================================================================
