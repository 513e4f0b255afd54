----------------------------- MODULE MCLifecycle -----------------------------
(***************************************************************************)
(* A booking of one host, two requests that move it, a cancel of it and a  *)
(* cancel of what the first move books. Of the moves m2 and of the cancels *)
(* c2 may fail.                                                            *)
(***************************************************************************)
EXTENDS Lifecycle, TLC

CONSTANTS a, m1, m2, c1, c2, k

Calls == {a, m1, m2}

OneHost ==
  [solo |-> [kind |-> "personal", roster |-> <<1>>, before |-> 0, dur |-> 1, after |-> 0, cap |-> None]]
OneType == {"solo"}
AllEqual == (1 :> 1)

Body(start, key) == [et |-> "solo", start |-> start, key |-> key, hold |-> FALSE]

TwoMoves == (a :> None) @@ (m1 :> a) @@ (m2 :> a)
OldAndNew == (c1 :> a) @@ (c2 :> m1)
NoCancels == <<>>

\* To different times, and both to one time.
MoveScenarios ==
  {(a :> Body(0, None)) @@ (m1 :> Body(1, None)) @@ (m2 :> Body(s, None)) : s \in {1, 2}}

\* One retried request to move the booking, with its Idempotency-Key.
RetryScenarios == {(a :> Body(0, None)) @@ (m1 :> Body(1, k)) @@ (m2 :> Body(1, k))}
=============================================================================
