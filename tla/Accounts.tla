-------------------------------- MODULE Accounts --------------------------------
(***************************************************************************)
(* Accounts in three parts that share no row a property relates: sign-in,  *)
(* roles and working hours; public addresses and teams; the session at the *)
(* dashboard. As in Clockwork a behaviour follows one of them, fixed when  *)
(* it begins.                                                              *)
(***************************************************************************)
EXTENDS SignIn, Places, Desk

VARIABLE part

accountVars == <<clock, signInVars, placeVars, deskVars, part>>

Init == ClockInit /\ SignInInit /\ PlacesInit /\ DeskInit /\ part \in {"sign-in", "places", "desk"}

Signing == part = "sign-in" /\ SignInNext /\ UNCHANGED <<clock, placeVars, deskVars, part>>
Addresses == part = "places" /\ PlacesNext /\ UNCHANGED <<clock, signInVars, deskVars, part>>
Dashboard == part = "desk" /\ DeskNext /\ UNCHANGED <<clock, signInVars, placeVars, part>>
Time == part = "desk" /\ Tick /\ UNCHANGED <<signInVars, placeVars, deskVars, part>>

Next == Signing \/ Addresses \/ Dashboard \/ Time

Spec == Init /\ [][Next]_accountVars

-----------------------------------------------------------------------------
\* "A lockout" of the instance, and a team "unmanageable by everyone forever":
\* neither happens, whoever signs up first, however demotions and removals
\* cross, and wherever a request breaks off.
NobodyLockedOut == AdminRemains /\ TeamsManned
================================================================================
