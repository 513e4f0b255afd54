--------------------------- MODULE MCCalendarSync ---------------------------
(***************************************************************************)
(* One booking, on two calendars of its hosts or on one.                   *)
(***************************************************************************)
EXTENDS CalendarSync, TLC

CONSTANTS b1, g, m

BothCalendars == b1 :> {g, m}
OneCalendar == b1 :> {g}
=============================================================================
