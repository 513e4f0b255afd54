-------------------------------- MODULE Outside --------------------------------
(***************************************************************************)
(* What the engine keeps or tells outside D1, where no transaction         *)
(* reaches: events on the hosts' calendars, their busy time in KV, their   *)
(* photos in R2, and what the guest and the hosts' webhooks are sent.      *)
(* As in Clockwork a behaviour follows one part, fixed when it begins.     *)
(***************************************************************************)
EXTENDS CalendarSync, FreeBusy, Images, Deliveries

VARIABLE part

outsideVars == <<clock, syncVars, busyVars, imageVars, deliveryVars, part>>

\* Whether there is a queue matters to what is told alone.
Init ==
  /\ ClockInit /\ SyncInit /\ FreeBusyInit /\ ImagesInit /\ DeliveriesInit
  /\ part \in {"events", "busy", "photos", "news"}
  /\ part # "news" => bound

Events == part = "events" /\ SyncNext /\ UNCHANGED <<clock, busyVars, imageVars, deliveryVars, part>>
BusyTime == part = "busy" /\ FreeBusyNext /\ UNCHANGED <<clock, syncVars, imageVars, deliveryVars, part>>
Photos == part = "photos" /\ ImagesNext /\ UNCHANGED <<clock, syncVars, busyVars, deliveryVars, part>>
News == part = "news" /\ DeliveriesNext /\ UNCHANGED <<clock, syncVars, busyVars, imageVars, part>>

\* A query takes less than a tick.
Time == part = "busy" /\ ~Asking /\ Tick /\ UNCHANGED <<syncVars, busyVars, imageVars, deliveryVars, part>>

Next == Events \/ BusyTime \/ Photos \/ News \/ Time

Spec == Init /\ [][Next]_outsideVars /\ SyncFairness /\ DeliveriesFairness
================================================================================
