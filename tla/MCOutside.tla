------------------------------- MODULE MCOutside -------------------------------
(***************************************************************************)
(* One booking on two calendars of its hosts. A host with two calendars,   *)
(* asked one at a time, whose event begins in the window, in the middle of *)
(* a step of the bitmap, and lasts beyond it. Two owners and two uploads   *)
(* of a good picture, one that is too large and one that does not decode.  *)
(* A webhook that answers and one that does not, in batches of two.        *)
(***************************************************************************)
EXTENDS Outside, TLC

CONSTANTS b1, g, m

MCConnsOf == b1 :> {g, m}
MCSpans == {2..4}
MCWindow == <<1, 2, 3>>
================================================================================
