------------------------------ MODULE Calendar ------------------------------
(***************************************************************************)
(* What the booking service promises about its hosts' time, without a      *)
(* trace of how D1 keeps the promise: a booking comes to life over a set   *)
(* of cells that no live booking covers, keeps exactly those cells for as  *)
(* long as it lives, and once over it never comes back.                    *)
(***************************************************************************)
CONSTANTS
  Ids,    \* booking ids
  Cells   \* (host, five-minute bucket) pairs

VARIABLES
  state,  \* state[b]: the phase of booking b
  span    \* span[b]: the cells b was booked over

vars == <<state, span>>

TypeOK ==
  /\ state \in [Ids -> {"absent", "live", "over"}]
  /\ span \in [Ids -> SUBSET Cells]

Live == {b \in Ids : state[b] = "live"}

Init ==
  /\ state = [b \in Ids |-> "absent"]
  /\ span = [b \in Ids |-> {}]

Book(b) ==
  /\ state[b] = "absent"
  /\ state' = [state EXCEPT ![b] = "live"]
  /\ \E C \in (SUBSET Cells) \ {{}} :
       /\ \A d \in Live : span[d] \cap C = {}
       /\ span' = [span EXCEPT ![b] = C]

End(b) ==
  /\ state[b] = "live"
  /\ state' = [state EXCEPT ![b] = "over"]
  /\ UNCHANGED span

Next == \E b \in Ids : Book(b) \/ End(b)

Spec == Init /\ [][Next]_vars
=============================================================================
