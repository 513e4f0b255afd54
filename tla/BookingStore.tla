---------------------------- MODULE BookingStore ----------------------------
(***************************************************************************)
(* The two D1 tables that arbitrate time, bookings and slot_locks, and the *)
(* statements of the repositories that write them. Each action is one      *)
(* atomic statement or batch, so any number of Worker requests may         *)
(* interleave them. The callers (coordinator, cancel and reschedule        *)
(* routes, cron) are other modules: here every legal call may come at any  *)
(* time and in any order.                                                  *)
(***************************************************************************)
EXTENDS Naturals

CONSTANTS
  Ids,      \* booking ids: crypto.randomUUID() never returns one twice
  Hosts,    \* host user ids
  Buckets,  \* five-minute buckets, numbered along the time line
  None      \* SQL NULL

ASSUME StoreAssumption ==
  /\ Buckets \subseteq Nat
  /\ None \notin Ids

VARIABLES
  status,         \* bookings.status, "none" while the row does not exist
  claim,          \* the buckets handed to createWithLocks with the row
  rescheduledTo,  \* bookings.rescheduled_to
  slotLocks,      \* the rows of slot_locks: <<(host, bucket), booking>>
  cutoff          \* what the cron last passed to pruneLocksBefore

storeVars == <<status, claim, rescheduledTo, slotLocks, cutoff>>

Cells == Hosts \X Buckets
Status == {"none", "confirmed", "cancelled", "rescheduled"}

StoreTypeOK ==
  /\ status \in [Ids -> Status]
  /\ claim \in [Ids -> SUBSET Cells]
  /\ rescheduledTo \in [Ids -> Ids \cup {None}]
  /\ slotLocks \subseteq Cells \X Ids
  /\ cutoff \in Nat

StoreInit ==
  /\ status = [b \in Ids |-> "none"]
  /\ claim = [b \in Ids |-> {}]
  /\ rescheduledTo = [b \in Ids |-> None]
  /\ slotLocks = {}
  /\ cutoff = 0

Confirmed == {b \in Ids : status[b] = "confirmed"}
Existing == {b \in Ids : status[b] # "none"}

LocksOf(b) == {l \in slotLocks : l[2] = b}

\* Slip: INSERT OR IGNORE, so that only a claim without a free cell conflicts.
NothingLeft(C) == \A c \in C : \E l \in slotLocks : l[1] = c

\* Would inserting a lock row for a cell of C violate PRIMARY KEY (host, bucket)?
Conflict(C) == \E l \in slotLocks : l[1] \in C

\* The coordinator re-validates start >= now, and the cron prunes a week behind
\* now: no booking is ever asked for over pruned buckets.
Bookable(C) == C # {} /\ \A c \in C : c[2] >= cutoff

-----------------------------------------------------------------------------
(* The statements. *)

\* The atomic batch: the booking row and one lock row per cell. With a conflict
\* D1 rolls the whole batch back and the caller is given null.
CreateWithLocks(b, C) ==
  /\ status[b] = "none"
  /\ ~Conflict(C)
  /\ status' = [status EXCEPT ![b] = "confirmed"]
  /\ claim' = [claim EXCEPT ![b] = C]
  /\ slotLocks' = slotLocks \cup {<<c, b>> : c \in C}
  /\ UNCHANGED <<rescheduledTo, cutoff>>

\* UPDATE ... WHERE status = 'confirmed' and, in the same batch, the DELETE of
\* the locks, which carries no condition. The result is whether a row changed.
CancelWithLockRelease(b) ==
  /\ status' = IF b \in Confirmed THEN [status EXCEPT ![b] = "cancelled"] ELSE status
  /\ slotLocks' = slotLocks \ LocksOf(b)
  /\ UNCHANGED <<claim, rescheduledTo, cutoff>>

\* Slip: the moved booking keeps its locks.
MarkAndKeepLocks(b, n) ==
  /\ IF b \in Confirmed
       THEN /\ status' = [status EXCEPT ![b] = "rescheduled"]
            /\ rescheduledTo' = [rescheduledTo EXCEPT ![b] = n]
       ELSE UNCHANGED <<status, rescheduledTo>>
  /\ UNCHANGED <<claim, cutoff, slotLocks>>

MarkRescheduled(b, n) ==
  /\ IF b \in Confirmed
       THEN /\ status' = [status EXCEPT ![b] = "rescheduled"]
            /\ rescheduledTo' = [rescheduledTo EXCEPT ![b] = n]
       ELSE UNCHANGED <<status, rescheduledTo>>
  /\ slotLocks' = slotLocks \ LocksOf(b)
  /\ UNCHANGED <<claim, cutoff>>

\* The cron's clock only moves forward.
PruneLocksBefore(t) ==
  /\ t > cutoff
  /\ cutoff' = t
  /\ slotLocks' = {l \in slotLocks : l[1][2] >= t}
  /\ UNCHANGED <<status, claim, rescheduledTo>>

\* A replacement is the argument of markRescheduled only after it exists.
StoreNext ==
  \/ \E b \in Ids, C \in SUBSET Cells : Bookable(C) /\ CreateWithLocks(b, C)
  \/ \E b \in Existing : CancelWithLockRelease(b)
  \/ \E b, n \in Existing : MarkRescheduled(b, n)
  \/ \E t \in Buckets : PruneLocksBefore(t)

StoreSpec == StoreInit /\ [][StoreNext]_storeVars

-----------------------------------------------------------------------------
(* Properties. *)

\* README "the unique constraint is the check": two confirmed bookings never
\* share a five-minute bucket of a host, whatever order the requests' batches,
\* releases and the cron's prunes come in.
NoDoubleBooking ==
  \A a, b \in Confirmed : a # b => claim[a] \cap claim[b] = {}

\* rest.ts: "a confirmed booking always holds its slot_locks rows", all of them
\* the cron has not pruned ...
ConfirmedHoldsLocks ==
  \A b \in Confirmed : \A c \in claim[b] : c[2] >= cutoff => <<c, b>> \in slotLocks

\* ... and repositories.ts: "cancelled and slot free never disagree": a lock row
\* always belongs to a confirmed booking and to a cell that booking asked for.
LocksBelongToConfirmed ==
  \A l \in slotLocks : l[2] \in Confirmed /\ l[1] \in claim[l[2]] /\ l[1][2] >= cutoff

\* The two together: neither table says anything the other does not.
TablesAgree == ConfirmedHoldsLocks /\ LocksBelongToConfirmed

\* A booking's fate is sealed once: cancelled and rescheduled are final, and a
\* booking names its replacement exactly when it was moved, so a cancel racing
\* a reschedule can never stomp the other's result.
FateSealed ==
  [][\A b \in Ids :
       /\ status[b] \in {"cancelled", "rescheduled"}
            => status'[b] = status[b] /\ rescheduledTo'[b] = rescheduledTo[b]
       /\ rescheduledTo'[b] # rescheduledTo[b] => status'[b] = "rescheduled"]_storeVars

\* The tables implement the promise of module Calendar.
PhaseOf(s) == IF s = "none" THEN "absent" ELSE IF s = "confirmed" THEN "live" ELSE "over"

Promise == INSTANCE Calendar WITH
  state <- [b \in Ids |-> PhaseOf(status[b])],
  span <- claim

CalendarKept == Promise!Spec
=============================================================================
