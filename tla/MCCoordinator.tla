--------------------------- MODULE MCCoordinator ---------------------------
(***************************************************************************)
(* book() on small instances: a team of two hosts, two or three concurrent *)
(* calls. Request r1 is the one that may fail. The two collectives list    *)
(* the team in opposite orders; a solo meeting fills both buckets, and a   *)
(* capped one is allowed once a day.                                       *)
(***************************************************************************)
EXTENDS Coordinator, TLC

CONSTANTS r1, r2, r3, k

AllCalls == {r1, r2, r3}
TwoCalls == {r1, r2}

Type(kind, roster, dur, after, cap) ==
  [kind |-> kind, roster |-> roster, before |-> 0, dur |-> dur, after |-> after, cap |-> cap]

SmallTypes ==
  [rr     |-> Type("round_robin", <<2, 1>>, 1, 0, None),
   col    |-> Type("collective", <<1, 2>>, 1, 1, None),
   col2   |-> Type("collective", <<2, 1>>, 1, 0, None),
   solo   |-> Type("personal", <<1>>, 2, 0, None),
   capped |-> Type("personal", <<1>>, 1, 0, 1)]
SmallTypeIds == DOMAIN SmallTypes

HeavierSecond == (1 :> 1) @@ (2 :> 2)

Body(et, start, key) == [et |-> et, start |-> start, key |-> key, hold |-> FALSE]
HeldBody(et, start, key) == [et |-> et, start |-> start, key |-> key, hold |-> TRUE]

Two(a, b) == (r1 :> a) @@ (r2 :> b)
Three(a, b, c) == (r1 :> a) @@ (r2 :> b) @@ (r3 :> c)

\* Two calls with one key, for one time or for two, and a guest with a hold.
KeyScenarios ==
  {Three(Body("rr", 0, k), Body("rr", 0, k), HeldBody("solo", 0, None)),
   Three(Body("rr", 0, k), Body("rr", 1, k), Body("solo", 0, None))}

\* Two calls that need both hosts in crossed orders, or both hosts against a
\* round robin or a single host.
TeamScenarios ==
  {Two(Body("col", 0, None), Body("col2", 0, None)),
   Two(Body("col2", 0, None), Body("rr", 0, k)),
   Two(HeldBody("solo", 0, k), Body("col2", 0, k))}

HoldScenarios == {Two(HeldBody("solo", 0, None), HeldBody("solo", 0, None))}
CapScenarios == {Two(Body("capped", 0, None), Body("capped", 1, None))}

OneMayBeAbsent == {<<2, "absent">>}
=============================================================================
