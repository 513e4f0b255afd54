------------------------------ MODULE MCClockwork ------------------------------
(***************************************************************************)
(* Two holds, two leases, two meetings a tick apart, a limit of two calls  *)
(* and two provider calls at a time, over a few units of time.             *)
(***************************************************************************)
EXTENDS Clockwork, TLC

CONSTANTS h1, h2, c1, c2, b1, b2, w1, w2

MCLeads == <<2, 1>>
MCStarts == b1 :> 3 @@ b2 :> 4
================================================================================
