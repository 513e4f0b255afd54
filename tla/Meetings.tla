-------------------------------- MODULE Meetings --------------------------------
(***************************************************************************)
(* A meeting as the tables hold it, as the guest holds it, and the pages   *)
(* she found it on. The second takes of the first only that a status       *)
(* changes once, in one statement, and keeps rows of its own; the third,   *)
(* that a start is free or not: as in Clockwork a behaviour follows one of *)
(* them, fixed when it begins.                                             *)
(***************************************************************************)
EXTENDS BookingStore, Invitations, Pages

VARIABLE part

meetingVars == <<storeVars, invitationVars, pageVars, part>>

Init == StoreInit /\ InvitationsInit /\ PagesInit /\ part \in {"tables", "guest", "pages"}

Tables == part = "tables" /\ StoreNext /\ UNCHANGED <<invitationVars, pageVars, part>>
Guest == part = "guest" /\ InvitationsNext /\ UNCHANGED <<storeVars, pageVars, part>>
Visit == part = "pages" /\ PagesNext /\ UNCHANGED <<storeVars, invitationVars, part>>

Next == Tables \/ Guest \/ Visit

Spec == Init /\ [][Next]_meetingVars
================================================================================
