-------------------------- MODULE CoordinatorProofs --------------------------
(***************************************************************************)
(* For any requests, event types, rosters, keys and hosts, and whatever    *)
(* fails: a key books at most once, replays are truthful, keys are closed  *)
(* as the code promises, and book() uses the two tables only by the        *)
(* statements of BookingStore. Those come first: no double booking, locks  *)
(* and statuses that agree, and the refinement of Calendar.                *)
(*                                                                         *)
(* OneBookingPerKey is not inductive: nothing in it says why a second call *)
(* cannot reach the write. IInv adds the reason: a call past its           *)
(* reservation, and a call that booked, still owns the row of its key      *)
(* (OwnerInv), and a row has one owner. RowInv and StageInv say that what  *)
(* is written to the row is true at the time of writing; CallInv that no   *)
(* call asks the store for buckets the cron has pruned.                    *)
(*                                                                         *)
(* WholeInv adds what the other promises of book() rest on. A lease that   *)
(* stands was taken by a call that is still to give it back (LeaseInv). A  *)
(* call that was told "taken" saw, or lost to, a booking or a hold of      *)
(* somebody else over its own time (SeenInv, TakenInv, BookedInv,          *)
(* HoldInv). And as long as nobody holds a time, some contender of the     *)
(* race for it is still running, has booked, or was refused for a reason   *)
(* that is not the race (RaceInv).                                         *)
(***************************************************************************)
EXTENDS Coordinator, TLAPS

-----------------------------------------------------------------------------
(* The two tables. StoreIInv is the inductive invariant of BookingStore:       *)
(* NoDoubleBooking alone is not inductive, since createWithLocks looks only at *)
(* lock rows, never at the bookings. Its check is as good as comparing with    *)
(* every live booking because each confirmed booking still holds its rows      *)
(* (ConfirmedHoldsLocks) except those of pruned buckets, for which no booking  *)
(* is asked (Bookable).                                                        *)

StoreIInv ==
  /\ StoreTypeOK
  /\ ConfirmedHoldsLocks
  /\ LocksBelongToConfirmed
  /\ NoDoubleBooking

\* Every step of the store is one of four statements, with its arguments typed.
\* The preservation proofs below go through this list.
StoreAction ==
  \/ \E b \in Ids, C \in SUBSET Cells : Bookable(C) /\ CreateWithLocks(b, C)
  \/ \E b \in Ids : CancelWithLockRelease(b)
  \/ \E b, n \in Ids : MarkRescheduled(b, n)
  \/ \E t \in Nat : PruneLocksBefore(t)

LEMMA StoreNextIsAction == StoreNext => StoreAction
  BY StoreAssumption DEF StoreNext, StoreAction, Existing

\* The initial tables are empty.
LEMMA StoreInitIInv == StoreInit => StoreIInv
  BY DEF StoreInit, StoreIInv, StoreTypeOK, ConfirmedHoldsLocks,
         LocksBelongToConfirmed, NoDoubleBooking, Confirmed, Status, Cells

\* The column types survive every statement.
LEMMA StoreTypeStep ==
  ASSUME StoreTypeOK, [StoreAction]_storeVars
  PROVE  StoreTypeOK'
<1> USE DEF StoreTypeOK, Status
<1>1. ASSUME NEW b \in Ids, NEW C \in SUBSET Cells, CreateWithLocks(b, C)
      PROVE  StoreTypeOK'
  BY <1>1 DEF CreateWithLocks
<1>2. ASSUME NEW b \in Ids, CancelWithLockRelease(b)
      PROVE  StoreTypeOK'
  BY <1>2 DEF CancelWithLockRelease, LocksOf
<1>3. ASSUME NEW b \in Ids, NEW n \in Ids, MarkRescheduled(b, n)
      PROVE  StoreTypeOK'
  BY <1>3 DEF MarkRescheduled, LocksOf
<1>4. ASSUME NEW t \in Nat, PruneLocksBefore(t)
      PROVE  StoreTypeOK'
  BY <1>4 DEF PruneLocksBefore
<1>5. CASE UNCHANGED storeVars
  BY <1>5 DEF storeVars
<1> QED
  BY <1>1, <1>2, <1>3, <1>4, <1>5 DEF StoreAction

\* The create batch: the new claim touches no cell of a confirmed booking.
\* Such a cell lies at or past the cutoff, because the claim does; its owner
\* therefore still holds the row, and the insert would have violated the key.
LEMMA CreateIsDisjoint ==
  ASSUME StoreIInv, NEW b \in Ids, NEW C \in SUBSET Cells, Bookable(C),
         ~Conflict(C), NEW d \in Confirmed
  PROVE  claim[d] \cap C = {}
<1> SUFFICES ASSUME NEW c \in claim[d], c \in C
             PROVE  FALSE
  OBVIOUS
<1>1. c[2] >= cutoff
  BY DEF Bookable
<1>2. <<c, d>> \in slotLocks
  BY <1>1 DEF StoreIInv, ConfirmedHoldsLocks
<1> QED
  BY <1>2 DEF Conflict

LEMMA CreateStep ==
  ASSUME StoreIInv, NEW b \in Ids, NEW C \in SUBSET Cells, Bookable(C),
         CreateWithLocks(b, C)
  PROVE  StoreIInv'
<1> USE DEF StoreIInv, CreateWithLocks
<1>1. StoreTypeOK'
  BY StoreTypeStep DEF StoreAction
<1>2. Confirmed' = Confirmed \cup {b} /\ b \notin Confirmed
  BY DEF Confirmed, StoreTypeOK
<1>3. /\ claim'[b] = C
      /\ \A d \in Confirmed : d # b /\ claim'[d] = claim[d]
  BY <1>2 DEF Confirmed, StoreTypeOK
<1>4. ConfirmedHoldsLocks'
  BY <1>2, <1>3 DEF ConfirmedHoldsLocks
<1>5. LocksBelongToConfirmed'
  <2> SUFFICES ASSUME NEW l \in slotLocks'
               PROVE  /\ l[2] \in Confirmed'
                      /\ l[1] \in claim'[l[2]]
                      /\ l[1][2] >= cutoff'
    BY DEF LocksBelongToConfirmed
  <2>1. CASE l \in slotLocks
    BY <2>1, <1>2, <1>3 DEF LocksBelongToConfirmed
  <2>2. CASE l \in {<<c, b>> : c \in C}
    BY <2>2, <1>2, <1>3 DEF Bookable
  <2> QED
    BY <2>1, <2>2
<1>6. NoDoubleBooking'
  BY <1>2, <1>3, CreateIsDisjoint DEF NoDoubleBooking
<1> QED
  BY <1>1, <1>4, <1>5, <1>6

\* A booking that ends takes its own rows with it and nobody else's. Cancel
\* and markRescheduled differ only in columns the invariant does not read.
LEMMA EndStep ==
  ASSUME StoreIInv, StoreTypeOK', NEW b \in Ids,
         slotLocks' = slotLocks \ LocksOf(b),
         Confirmed' = Confirmed \ {b},
         UNCHANGED <<claim, cutoff>>
  PROVE  StoreIInv'
<1> USE DEF StoreIInv, LocksOf
<1>1. ConfirmedHoldsLocks'
  <2> SUFFICES ASSUME NEW d \in Confirmed', NEW c \in claim'[d], c[2] >= cutoff'
               PROVE  <<c, d>> \in slotLocks'
    BY DEF ConfirmedHoldsLocks
  <2>1. <<c, d>> \in slotLocks
    BY DEF ConfirmedHoldsLocks
  <2> QED
    BY <2>1
<1>2. LocksBelongToConfirmed'
  BY DEF LocksBelongToConfirmed
<1>3. NoDoubleBooking'
  BY DEF NoDoubleBooking
<1> QED
  BY <1>1, <1>2, <1>3

\* StoreIInv is inductive.
LEMMA StoreStepIInv ==
  ASSUME StoreIInv, [StoreAction]_storeVars
  PROVE  StoreIInv'
<1>0. StoreTypeOK'
  BY StoreTypeStep DEF StoreIInv
<1>1. ASSUME NEW b \in Ids, NEW C \in SUBSET Cells, Bookable(C), CreateWithLocks(b, C)
      PROVE  StoreIInv'
  BY <1>1, CreateStep
<1>2. ASSUME NEW b \in Ids, CancelWithLockRelease(b)
      PROVE  StoreIInv'
  <2>1. Confirmed' = Confirmed \ {b}
    BY <1>2 DEF CancelWithLockRelease, Confirmed, StoreIInv, StoreTypeOK
  <2> QED
    BY <1>0, <1>2, <2>1, EndStep DEF CancelWithLockRelease
<1>3. ASSUME NEW b \in Ids, NEW n \in Ids, MarkRescheduled(b, n)
      PROVE  StoreIInv'
  <2>1. Confirmed' = Confirmed \ {b}
    BY <1>3 DEF MarkRescheduled, Confirmed, StoreIInv, StoreTypeOK
  <2> QED
    BY <1>0, <1>3, <2>1, EndStep DEF MarkRescheduled
<1>4. ASSUME NEW t \in Nat, PruneLocksBefore(t)
      PROVE  StoreIInv'
  <2> USE <1>4 DEF StoreIInv, PruneLocksBefore
  <2>1. Confirmed' = Confirmed
    BY DEF Confirmed
  <2>2. ConfirmedHoldsLocks'
    <3> SUFFICES ASSUME NEW d \in Confirmed', NEW c \in claim'[d], c[2] >= cutoff'
                 PROVE  <<c, d>> \in slotLocks'
      BY DEF ConfirmedHoldsLocks
    <3>1. d \in Confirmed /\ c \in claim[d]
      BY <2>1
    <3>2. c \in Cells
      BY <3>1 DEF StoreTypeOK, Confirmed
    <3>3. c[2] \in Nat
      BY <3>2, StoreAssumption DEF Cells
    <3>4. c[2] >= cutoff
      BY <3>3 DEF StoreTypeOK
    <3> QED
      BY <3>1, <3>4 DEF ConfirmedHoldsLocks
  <2>3. LocksBelongToConfirmed'
    BY <2>1 DEF LocksBelongToConfirmed
  <2>4. NoDoubleBooking'
    BY <2>1 DEF NoDoubleBooking
  <2> QED
    BY <1>0, <2>2, <2>3, <2>4
<1>5. CASE UNCHANGED storeVars
  BY <1>5 DEF storeVars, StoreIInv, StoreTypeOK, ConfirmedHoldsLocks,
              LocksBelongToConfirmed, NoDoubleBooking, Confirmed
<1> QED
  BY <1>1, <1>2, <1>3, <1>4, <1>5 DEF StoreAction

-----------------------------------------------------------------------------

\* The tables are well-typed, a confirmed booking holds its unpruned locks, a
\* lock belongs to a confirmed booking, and no two confirmed bookings overlap.
THEOREM StoreInvariant == StoreSpec => []StoreIInv
<1>1. StoreIInv /\ [StoreNext]_storeVars => StoreIInv'
  BY StoreNextIsAction, StoreStepIInv
<1> QED
  BY StoreInitIInv, <1>1, PTL DEF StoreSpec

\* No two confirmed bookings ever share a bucket of a host.
THEOREM NeverDoubleBooked == StoreSpec => []NoDoubleBooking
<1>1. StoreIInv => NoDoubleBooking
  BY DEF StoreIInv
<1> QED
  BY StoreInvariant, <1>1, PTL

\* A confirmed booking holds all its unpruned lock rows, and no other rows are
\* there, in every state.
THEOREM TablesAlwaysAgree == StoreSpec => []TablesAgree
<1>1. StoreIInv => TablesAgree
  BY DEF StoreIInv, TablesAgree
<1> QED
  BY StoreInvariant, <1>1, PTL

\* Cancelled and rescheduled are final, and so is the replacement's name.
THEOREM FateIsSealed == StoreSpec => FateSealed
<1>1. StoreIInv /\ [StoreNext]_storeVars =>
        [\A b \in Ids :
           /\ status[b] \in {"cancelled", "rescheduled"}
                => status'[b] = status[b] /\ rescheduledTo'[b] = rescheduledTo[b]
           /\ rescheduledTo'[b] # rescheduledTo[b] => status'[b] = "rescheduled"]_storeVars
  <2> SUFFICES ASSUME StoreTypeOK, StoreAction, NEW d \in Ids
               PROVE  /\ status[d] \in {"cancelled", "rescheduled"}
                           => status'[d] = status[d] /\ rescheduledTo'[d] = rescheduledTo[d]
                      /\ rescheduledTo'[d] # rescheduledTo[d] => status'[d] = "rescheduled"
    BY StoreNextIsAction DEF StoreIInv
  <2>1. ASSUME NEW b \in Ids, NEW C \in SUBSET Cells, CreateWithLocks(b, C)
        PROVE  /\ status[d] \in {"cancelled", "rescheduled"} => status'[d] = status[d]
               /\ rescheduledTo'[d] = rescheduledTo[d]
    BY <2>1 DEF CreateWithLocks, StoreTypeOK
  <2>2. ASSUME NEW b \in Ids, CancelWithLockRelease(b)
        PROVE  /\ status[d] \in {"cancelled", "rescheduled"} => status'[d] = status[d]
               /\ rescheduledTo'[d] = rescheduledTo[d]
    BY <2>2 DEF CancelWithLockRelease, Confirmed, StoreTypeOK
  <2>3. ASSUME NEW b \in Ids, NEW n \in Ids, MarkRescheduled(b, n)
        PROVE  /\ status[d] \in {"cancelled", "rescheduled"}
                    => status'[d] = status[d] /\ rescheduledTo'[d] = rescheduledTo[d]
               /\ rescheduledTo'[d] # rescheduledTo[d] => status'[d] = "rescheduled"
    BY <2>3 DEF MarkRescheduled, Confirmed, StoreTypeOK
  <2>4. ASSUME NEW t \in Nat, PruneLocksBefore(t)
        PROVE  status' = status /\ rescheduledTo' = rescheduledTo
    BY <2>4 DEF PruneLocksBefore
  <2> QED
    BY <2>1, <2>2, <2>3, <2>4 DEF StoreAction
<1> QED
  BY StoreInvariant, <1>1, PTL DEF StoreSpec, FateSealed

-----------------------------------------------------------------------------
(* The refinement: every step of the tables is a step of Calendar or none. *)

LEMMA PromiseInit == StoreInit => Promise!Init
  BY DEF StoreInit, PhaseOf, Promise!Init

LEMMA PromiseStep ==
  ASSUME StoreIInv, [StoreNext]_storeVars
  PROVE  [Promise!Next]_(Promise!vars)
<1> DEFINE St(s) == [b \in Ids |-> PhaseOf(s[b])]
<1> USE DEF Promise!Next, Promise!vars
<1>1. ASSUME NEW b \in Ids, NEW C \in SUBSET Cells, Bookable(C), CreateWithLocks(b, C)
      PROVE  Promise!Book(b)
  <2> USE <1>1 DEF CreateWithLocks, StoreIInv, StoreTypeOK, Status, PhaseOf
  <2>1. C # {} /\ St(status)[b] = "absent"
    BY DEF Bookable
  <2>2. \A d \in Promise!Live : claim[d] \cap C = {}
    BY CreateIsDisjoint DEF Promise!Live, Confirmed
  <2>3. St(status') = [St(status) EXCEPT ![b] = "live"]
    OBVIOUS
  <2> QED
    BY <2>1, <2>2, <2>3 DEF Promise!Book
<1>2. ASSUME NEW b \in Ids, UNCHANGED claim,
             \/ status' = status
             \/ /\ b \in Confirmed
                /\ \E f \in {"cancelled", "rescheduled"} : status' = [status EXCEPT ![b] = f]
      PROVE  Promise!End(b) \/ UNCHANGED Promise!vars
  <2> USE <1>2 DEF StoreIInv, StoreTypeOK, Status, PhaseOf
  <2>1. CASE status' = status
    BY <2>1
  <2>2. CASE b \in Confirmed /\ status' # status
    <3>1. St(status)[b] = "live"
      BY <2>2 DEF Confirmed
    <3>2. St(status') = [St(status) EXCEPT ![b] = "over"]
      BY <2>2
    <3> QED
      BY <3>1, <3>2 DEF Promise!End
  <2> QED
    BY <2>1, <2>2
<1>3. ASSUME NEW b \in Ids, CancelWithLockRelease(b)
      PROVE  Promise!End(b) \/ UNCHANGED Promise!vars
  BY <1>2, <1>3 DEF CancelWithLockRelease
<1>4. ASSUME NEW b \in Ids, NEW n \in Ids, MarkRescheduled(b, n)
      PROVE  Promise!End(b) \/ UNCHANGED Promise!vars
  BY <1>2, <1>4 DEF MarkRescheduled
<1>5. ASSUME NEW t \in Nat, PruneLocksBefore(t)
      PROVE  UNCHANGED Promise!vars
  BY <1>5 DEF PruneLocksBefore
<1>6. CASE UNCHANGED storeVars
  BY <1>6 DEF storeVars
<1> QED
  BY <1>1, <1>3, <1>4, <1>5, <1>6, StoreNextIsAction DEF StoreAction

\* The two tables and their statements implement the promise of Calendar.
THEOREM StoreKeepsThePromise == StoreSpec => CalendarKept
  BY PromiseInit, PromiseStep, StoreInvariant, PTL
     DEF StoreSpec, CalendarKept, Promise!Spec

-----------------------------------------------------------------------------
(* book(). *)

\* What a request asks for is well formed, and stays what it was.
LEMMA CallFacts ==
  ASSUME CoordinatorTypeOK, NEW r \in Requests
  PROVE  /\ call[r] \in Call
         /\ EventType[call[r].et] \in EventTypeRow
         /\ Team(r) \subseteq Hosts /\ Team(r) # {}
         /\ Footprint(call[r]) \subseteq Buckets /\ Footprint(call[r]) # {}
         /\ Key(r) # None => Scope(r) \in Scopes
<1>1. call \in [Requests -> Call] /\ call \in Scenarios
  BY CoordinatorAssumption DEF CoordinatorTypeOK
<1>2. call[r] \in Call
  BY <1>1
<1>3. EventType[call[r].et] \in EventTypeRow
  BY <1>2, CoordinatorAssumption DEF Call
<1>4. Team(r) # {} /\ Footprint(call[r]) \subseteq Buckets
  BY <1>1, CoordinatorAssumption DEF Team
<1>5. Team(r) \subseteq Hosts
  BY <1>3 DEF Team, Roster, EventTypeRow
<1>6. call[r].start \in Footprint(call[r])
  <2>1. call[r].start \in Nat
    BY <1>2, StoreAssumption DEF Call
  <2> QED
    BY <1>3, <2>1 DEF Footprint, EventTypeRow
<1>7. Key(r) # None => Scope(r) \in Scopes
  BY <1>2 DEF Key, Scope, Scopes, Call
<1> QED
  BY <1>2, <1>3, <1>4, <1>5, <1>6, <1>7

-----------------------------------------------------------------------------
(* The inductive invariant. *)

Started(r) == pc[r] \notin {"idle", "done", "dead"}

\* A call in flight asks for nothing the cron has pruned, and writes for some of
\* its hosts only.
CallInv ==
  \A r \in Requests :
    /\ Started(r) => \A x \in Footprint(call[r]) : x >= cutoff
    /\ chosen[r] \subseteq Team(r)
    /\ pc[r] = "commit" => chosen[r] # {}

\* The calls that are past a reservation of their key and not done with it, and
\* the calls that booked, still own the row of their key.
Working(r) == pc[r] \notin {"idle", "reserve", "prior", "done", "dead"}

OwnerInv ==
  \A r \in Requests : Key(r) # None /\ (Working(r) \/ committed[r]) =>
    idem[Scope(r)].live /\ idem[Scope(r)].by = r

\* What a call may write into its key's row is true when it writes it.
StageInv ==
  \A r \in Requests :
    /\ pc[r] \in {"rotate", "unhold", "settle", "effects"} => committed[r]
    /\ pc[r] = "settle" => Key(r) # None
    /\ committed[r] => pc[r] \notin {"idle", "reserve", "prior", "lease", "busy", "locks", "holds",
                                    "hosts", "prepare", "commit"}
    /\ settled[r] => Key(r) # None /\ committed[r] /\ idem[Scope(r)].response = r
    /\ Key(r) # None /\ pc[r] \in {"idle", "reserve", "prior"} => idem[Scope(r)].by # r
    /\ pc[r] \in {"reserve", "prior"} => Key(r) # None

\* A response in a row is the booking of that key, and of the hash beside it.
RowInv ==
  \A s \in Scopes :
    /\ idem[s].by # None => Key(idem[s].by) # None /\ Scope(idem[s].by) = s
    /\ idem[s].response # None =>
         /\ idem[s].response = idem[s].by
         /\ committed[idem[s].by]
    /\ idem[s].by # None => idem[s].hash = call[idem[s].by].start

\* What a call that ran to its end with nothing lost has made of its key.
ClosedInv ==
  \A s \in Scopes : idem[s].by # None /\ idem[s].by \notin Faulty /\ pc[idem[s].by] = "done" =>
    /\ idem[s].live <=> committed[idem[s].by]
    /\ committed[idem[s].by] => idem[s].response = idem[s].by

KeyInv == OwnerInv /\ StageInv /\ RowInv /\ ReplayTruthful /\ ClosedInv

IInv == CoordinatorTypeOK /\ CallInv /\ KeyInv

-----------------------------------------------------------------------------
(* Types, and the legal use of the store. *)

LEMMA InitTypes == Init => CoordinatorTypeOK
<1> SUFFICES ASSUME Init
             PROVE  CoordinatorTypeOK
  OBVIOUS
<1>1. StoreTypeOK
  BY StoreInitIInv DEF Init, StoreIInv
<1>2. NoRow \in IdemRow
  BY DEF NoRow, IdemRow
<1> QED
  BY <1>1, <1>2 DEF Init, CoordinatorTypeOK, Pcs, Outcomes, Epoch

\* Every write book makes is a statement the store allows.
LEMMA StoreUse ==
  ASSUME CoordinatorTypeOK, CallInv, Next
  PROVE  [StoreNext]_storeVars
<1>1. ASSUME NEW r \in Requests, pc[r] = "commit", CreateWithLocks(r, Claim(r, chosen[r]))
      PROVE  StoreNext
  <2>1. Claim(r, chosen[r]) \in SUBSET Cells
    BY CallFacts DEF CallInv, Claim, Cells
  <2>2. Bookable(Claim(r, chosen[r]))
    <3>1. PICK h \in chosen[r], x \in Footprint(call[r]) : TRUE
      BY <1>1, CallFacts DEF CallInv
    <3>2. <<h, x>> \in Claim(r, chosen[r])
      BY <3>1 DEF Claim
    <3>3. \A c \in Claim(r, chosen[r]) : c[2] \in Footprint(call[r])
      BY DEF Claim
    <3> QED
      BY <1>1, <3>2, <3>3 DEF CallInv, Bookable, Started
  <2>3. r \in Ids
    BY CoordinatorAssumption
  <2> QED
    BY <1>1, <2>1, <2>2, <2>3 DEF StoreNext
<1>2. ASSUME NEW b \in Requests, Cancel(b)
      PROVE  StoreNext
  BY <1>2 DEF Cancel, Confirmed, Existing, StoreNext
<1>3. ASSUME NEW t \in Buckets, Prune(t)
      PROVE  StoreNext
  BY <1>3 DEF Prune, StoreNext
<1>4. ASSUME NEW r \in Requests, Step(r)
      PROVE  StoreNext \/ UNCHANGED storeVars
  BY <1>1, <1>4 DEF Step, CommitWins, At, Start, Reserve, ReadPrior, AcquireLease, ReadLocks,
       ReadHolds, ReadHosts, Prepare, CommitLoses, RecordAssignment, ReleaseOwnHold, Settle,
       Effects, ReleaseLease, Finish
<1>5. ASSUME Environment
      PROVE  StoreNext \/ UNCHANGED storeVars
  BY <1>1, <1>2, <1>3, <1>5 DEF Environment, Surroundings, Fail, AcquireUnacknowledged, CommitUnacknowledged, At,
       Crash, PlaceHold, HoldExpires, LeaseExpires
<1> QED
  BY <1>4, <1>5 DEF Next

LEMMA TypeStep ==
  ASSUME CoordinatorTypeOK, CallInv, StageInv, Next
  PROVE  CoordinatorTypeOK'
<1>0. StoreTypeOK'
  BY StoreUse, StoreNextIsAction, StoreTypeStep DEF CoordinatorTypeOK
<1> USE <1>0 DEF CoordinatorTypeOK, Pcs, Outcomes, At, GoTo
<1>1. ASSUME NEW r \in Requests
      PROVE  /\ call[r] \in Call /\ Team(r) \subseteq Hosts
             /\ Key(r) # None => Scope(r) \in Scopes
             /\ call[r].start \in Buckets
  BY CallFacts DEF Call
<1>a. ASSUME NEW r \in Requests, NEW l \in BOOLEAN, NEW resp \in Requests \cup {None},
             idem' = [idem EXCEPT ![Scope(r)] = Row(r, l, resp)]
      PROVE  idem' \in [Scopes -> IdemRow]
  <2>1. Row(r, l, resp) \in IdemRow
    BY <1>1 DEF Row, IdemRow
  <2> QED
    BY <1>a, <2>1
<1>2. ASSUME NEW r \in Requests, Start(r)
      PROVE  CoordinatorTypeOK'
  BY <1>1, <1>2 DEF Start, Entry, sharedVars
<1>3. ASSUME NEW r \in Requests, Reserve(r)
      PROVE  CoordinatorTypeOK'
  <2>1. idem' \in [Scopes -> IdemRow]
    BY <1>3, <1>a DEF Reserve
  <2> QED
    BY <1>3, <2>1 DEF Reserve, Entry
<1>4. ASSUME NEW r \in Requests, ReadPrior(r)
      PROVE  CoordinatorTypeOK'
  <2>1. Scope(r) \in Scopes
    BY <1>1, <1>4 DEF ReadPrior, StageInv
  <2> QED
    BY <1>4, <2>1 DEF ReadPrior, sharedVars, IdemRow
<1>5. ASSUME NEW r \in Requests, AcquireLease(r)
      PROVE  CoordinatorTypeOK'
  <2>1. PICK h \in NextLease(r) :
          \/ /\ Grant(r, h)
             /\ acquired' = [acquired EXCEPT ![r] = @ \cup {h}]
             /\ GoTo(r, IF acquired'[r] = Team(r) THEN "busy" ELSE "lease")
             /\ UNCHANGED outcome
          \/ Refuse(r, h)
    BY <1>5 DEF AcquireLease
  <2>2. h \in Hosts
    BY <1>1 DEF NextLease
  <2>3. CASE Grant(r, h) /\ acquired' = [acquired EXCEPT ![r] = @ \cup {h}]
             /\ GoTo(r, IF acquired'[r] = Team(r) THEN "busy" ELSE "lease")
             /\ UNCHANGED outcome
    BY <1>5, <2>2, <2>3 DEF AcquireLease, Grant
  <2>4. CASE Refuse(r, h)
    BY <1>5, <2>4 DEF AcquireLease, Refuse, Answer
  <2> QED
    BY <2>1, <2>3, <2>4
<1>6. ASSUME NEW r \in Requests, ReadLocks(r)
      PROVE  CoordinatorTypeOK'
  BY <1>1, <1>6 DEF ReadLocks, Found, Locked, Whys, sharedVars
<1>7. ASSUME NEW r \in Requests, ReadHolds(r)
      PROVE  CoordinatorTypeOK'
  BY <1>1, <1>7 DEF ReadHolds, Found, HeldByOthers, Whys, sharedVars
<1>8. ASSUME NEW r \in Requests, ReadHosts(r)
      PROVE  CoordinatorTypeOK'
  BY <1>1, <1>8 DEF ReadHosts, CappedOut, Whys, sharedVars
<1>9. ASSUME NEW r \in Requests, Prepare(r)
      PROVE  CoordinatorTypeOK'
  <2>1. chosen' \in [Requests -> SUBSET Hosts]
    BY <1>1, <1>9 DEF Prepare
  <2>2. outcome' \in [Requests -> Outcomes] /\ pc' \in [Requests -> Pcs]
    BY <1>9 DEF Prepare, Answer
  <2> QED
    BY <1>9, <2>1, <2>2 DEF Prepare, sharedVars
<1>10. ASSUME NEW r \in Requests, CommitWins(r)
      PROVE  CoordinatorTypeOK'
  BY <1>1, <1>10 DEF CommitWins, AfterCommit, AfterRotation, AfterHold, sharedVars
<1>11. ASSUME NEW r \in Requests, CommitLoses(r)
      PROVE  CoordinatorTypeOK'
  BY <1>1, <1>11 DEF CommitLoses, Answer, sharedVars
<1>12. ASSUME NEW r \in Requests, RecordAssignment(r)
      PROVE  CoordinatorTypeOK'
  BY <1>1, <1>12 DEF RecordAssignment, Attempt, AfterRotation, AfterHold
<1>13. ASSUME NEW r \in Requests, ReleaseOwnHold(r)
      PROVE  CoordinatorTypeOK'
  BY <1>1, <1>13 DEF ReleaseOwnHold, Attempt, AfterHold
<1>14. ASSUME NEW r \in Requests, Settle(r)
      PROVE  CoordinatorTypeOK'
  <2>1. idem' \in [Scopes -> IdemRow]
    BY <1>14, <1>a DEF Settle, Attempt
  <2> QED
    BY <1>14, <2>1 DEF Settle
<1>15. ASSUME NEW r \in Requests, Effects(r)
      PROVE  CoordinatorTypeOK'
  <2>1. jobs' \subseteq {"create", "update", "delete"} \X Requests
    BY <1>15 DEF Effects, Attempt
  <2>2. /\ outcome' \in [Requests -> Outcomes] /\ pc' \in [Requests -> Pcs]
        /\ result' \in [Requests -> Requests \cup {None}]
    BY <1>15 DEF Effects, Answer
  <2> QED
    BY <1>15, <2>1, <2>2 DEF Effects
<1>16. ASSUME NEW r \in Requests, ReleaseLease(r)
      PROVE  CoordinatorTypeOK'
  BY <1>1, <1>16 DEF ReleaseLease, Attempt
<1>17. ASSUME NEW r \in Requests, Finish(r)
      PROVE  CoordinatorTypeOK'
  <2>1. idem' \in [Scopes -> IdemRow]
    BY <1>17, <1>a DEF Finish, Attempt, CloseKey
  <2> QED
    BY <1>17, <2>1 DEF Finish
<1>18. ASSUME NEW r \in Requests, Fail(r)
      PROVE  CoordinatorTypeOK'
  BY <1>1, <1>18 DEF Fail, Answer, sharedVars
<1>19. ASSUME NEW r \in Requests, AcquireUnacknowledged(r)
      PROVE  CoordinatorTypeOK'
  BY <1>1, <1>19 DEF AcquireUnacknowledged, NextLease, Grant, Answer
<1>20. ASSUME NEW r \in Requests, CommitUnacknowledged(r)
      PROVE  CoordinatorTypeOK'
  BY <1>1, <1>20 DEF CommitUnacknowledged, Answer, sharedVars
<1>21. ASSUME NEW r \in Requests, Crash(r)
      PROVE  CoordinatorTypeOK'
  BY <1>1, <1>21 DEF Crash, sharedVars
<1>22. ASSUME NEW r \in Requests, PlaceHold(r)
      PROVE  CoordinatorTypeOK'
  BY <1>1, <1>22 DEF PlaceHold, localVars
<1>23. ASSUME NEW r \in Requests, HoldExpires(r)
      PROVE  CoordinatorTypeOK'
  BY <1>1, <1>23 DEF HoldExpires, localVars
<1>24. ASSUME NEW h \in Hosts, LeaseExpires(h)
      PROVE  CoordinatorTypeOK'
  BY <1>24 DEF LeaseExpires, localVars
<1>25. ASSUME NEW b \in Requests, Cancel(b)
      PROVE  CoordinatorTypeOK'
  BY <1>25 DEF Cancel, localVars, sharedVars
<1>26. ASSUME NEW t \in Buckets, Prune(t)
      PROVE  CoordinatorTypeOK'
  BY <1>26 DEF Prune, localVars, sharedVars
<1> QED
  BY <1>2, <1>3, <1>4, <1>5, <1>6, <1>7, <1>8, <1>9, <1>10, <1>11, <1>12, <1>13, <1>14, <1>15, <1>16, <1>17, <1>18, <1>19, <1>20, <1>21, <1>22, <1>23, <1>24, <1>25, <1>26
     DEF Next, Step, Environment, Surroundings

-----------------------------------------------------------------------------
(* CallInv is kept. *)

\* All steps but Start, Prepare and Prune leave what CallInv reads alone, except
\* that they move a started call along, never into the write.
Elsewhere ==
  /\ UNCHANGED <<call, chosen, cutoff>>
  /\ \/ pc' = pc
     \/ \E r \in Requests, q \in Pcs \ {"commit"} : Started(r) /\ pc' = [pc EXCEPT ![r] = q]

LEMMA StepsElsewhere ==
  ASSUME CoordinatorTypeOK, Next
  PROVE  \/ Elsewhere
         \/ \E r \in Requests : Start(r) \/ Prepare(r)
         \/ \E t \in Buckets : Prune(t)
<1> USE DEF Elsewhere, Started, Pcs, At, GoTo
<1>1. ASSUME NEW r \in Requests, Step(r), ~Start(r), ~Prepare(r)
      PROVE  Elsewhere
  <2>1. CASE Reserve(r)
    BY <2>1 DEF Reserve, Entry, storeVars
  <2>2. CASE ReadPrior(r)
    BY <2>2 DEF ReadPrior, storeVars
  <2>3. CASE AcquireLease(r)
    BY <2>3 DEF AcquireLease, Refuse, Answer, storeVars
  <2>4. CASE ReadLocks(r) \/ ReadHolds(r) \/ ReadHosts(r)
    BY <2>4 DEF ReadLocks, ReadHolds, ReadHosts, storeVars
  <2>5. CASE CommitWins(r)
    BY <2>5 DEF CommitWins, CreateWithLocks, AfterCommit, AfterRotation, AfterHold
  <2>6. CASE CommitLoses(r)
    BY <2>6 DEF CommitLoses, Answer, storeVars
  <2>7. CASE RecordAssignment(r) \/ ReleaseOwnHold(r)
    BY <2>7 DEF RecordAssignment, ReleaseOwnHold, AfterRotation, AfterHold, storeVars
  <2>8. CASE Settle(r)
    BY <2>8 DEF Settle, storeVars
  <2>9. CASE Effects(r)
    BY <2>9 DEF Effects, Answer, storeVars
  <2>10. CASE ReleaseLease(r) \/ Finish(r)
    BY <2>10 DEF ReleaseLease, Finish, storeVars
  <2> QED
    BY <1>1, <2>1, <2>2, <2>3, <2>4, <2>5, <2>6, <2>7, <2>8, <2>9, <2>10 DEF Step
<1>2. ASSUME Environment, ~\E t \in Buckets : Prune(t)
      PROVE  Elsewhere
  <2>1. ASSUME NEW r \in Requests, Fail(r) \/ AcquireUnacknowledged(r) \/ Crash(r)
        PROVE  Elsewhere
    BY <2>1 DEF Fail, AcquireUnacknowledged, Crash, Answer, storeVars
  <2>2. ASSUME NEW r \in Requests, CommitUnacknowledged(r)
        PROVE  Elsewhere
    BY <2>2 DEF CommitUnacknowledged, CreateWithLocks, Answer
  <2>3. ASSUME NEW r \in Requests, PlaceHold(r) \/ HoldExpires(r) \/ Cancel(r)
        PROVE  Elsewhere
    BY <2>3 DEF PlaceHold, HoldExpires, Cancel, CancelWithLockRelease, storeVars, localVars
  <2>4. ASSUME NEW h \in Hosts, LeaseExpires(h)
        PROVE  Elsewhere
    BY <2>4 DEF LeaseExpires, storeVars, localVars
  <2> QED
    BY <1>2, <2>1, <2>2, <2>3, <2>4 DEF Environment, Surroundings
<1> QED
  BY <1>1, <1>2 DEF Next

LEMMA CallStep ==
  ASSUME CoordinatorTypeOK, CallInv, Next
  PROVE  CallInv'
<1> USE DEF Started, At, GoTo
<1>1. CASE Elsewhere
  BY <1>1 DEF Elsewhere, CallInv, CoordinatorTypeOK, Team
<1>2. ASSUME NEW r \in Requests, Start(r)
      PROVE  CallInv'
  <2>1. \A x \in Footprint(call[r]) : x >= cutoff
    <3> SUFFICES ASSUME NEW x \in Footprint(call[r])
                 PROVE  x >= cutoff
      OBVIOUS
    <3>1. PICK h \in Team(r) : TRUE
      BY CallFacts
    <3>2. <<h, x>> \in Claim(r, Team(r))
      BY <3>1 DEF Claim
    <3> QED
      BY <1>2, <3>2 DEF Start, Bookable
  <2>2. UNCHANGED <<call, chosen, cutoff>> /\ pc'[r] # "commit"
    BY <1>2 DEF Start, storeVars, Entry, CoordinatorTypeOK
  <2> QED
    BY <1>2, <2>1, <2>2 DEF Start, CallInv, CoordinatorTypeOK, Team
<1>3. ASSUME NEW r \in Requests, Prepare(r)
      PROVE  CallInv'
  <2>1. UNCHANGED <<call, cutoff>> /\ pc[r] = "prepare"
    BY <1>3 DEF Prepare, storeVars
  <2>2. CASE \E H \in SUBSET Team(r) :
               /\ Participants(r, H)
               /\ chosen' = [chosen EXCEPT ![r] = H]
               /\ pc' = [pc EXCEPT ![r] = "commit"]
    <3>1. PICK H \in SUBSET Team(r) :
               /\ Participants(r, H)
               /\ chosen' = [chosen EXCEPT ![r] = H]
               /\ pc' = [pc EXCEPT ![r] = "commit"]
      BY <2>2
    <3>2. H # {}
      BY <3>1, CallFacts DEF Participants
    <3> QED
      BY <2>1, <3>1, <3>2 DEF CallInv, CoordinatorTypeOK, Team
  <2>3. CASE chosen' = chosen /\ pc' = [pc EXCEPT ![r] = "finally"]
    BY <2>1, <2>3 DEF CallInv, CoordinatorTypeOK, Team
  <2> QED
    BY <1>3, <2>2, <2>3 DEF Prepare, Answer
<1>4. ASSUME NEW t \in Buckets, Prune(t)
      PROVE  CallInv'
  BY <1>4 DEF Prune, PruneLocksBefore, localVars, CallInv, Team
<1> QED
  BY <1>1, <1>2, <1>3, <1>4, StepsElsewhere

-----------------------------------------------------------------------------
(* KeyInv is kept. A step is seen here only by what it does to the row of a  *)
(* key and to the locals that decide what is written there.                  *)

Early == {"lease", "busy", "locks", "holds", "hosts", "prepare", "commit"}
Late == {"unhold", "settle", "effects"}

\* The moves of a call that write no row.
Leads(r, q) ==
  \/ pc[r] = "idle" /\ q = "reserve" /\ Key(r) # None
  \/ pc[r] = "idle" /\ q \in Early /\ Key(r) = None
  \/ pc[r] = "reserve" /\ q = "prior" /\ idem[Scope(r)].live
  \/ pc[r] \in Early /\ q \in Early \cup {"finally"}
  \/ pc[r] \in {"rotate", "unhold"} /\ q \in Late /\ (q = "settle" => Key(r) # None)
  \/ pc[r] = "settle" /\ q = "effects"
  \/ pc[r] = "effects" /\ q = "finally"
  \/ pc[r] = "finally" /\ q = "done" /\ (Key(r) = None \/ settled[r] \/ r \in Faulty)
  \/ Started(r) /\ q = "dead"

MovesOn(r) ==
  /\ UNCHANGED <<committed, settled, idem>>
  /\ \E q \in Pcs : Leads(r, q) /\ pc' = [pc EXCEPT ![r] = q]
  /\ \A a \in Requests :
       \/ outcome'[a] = outcome[a] /\ result'[a] = result[a]
       \/ outcome'[a] # "replayed"

Rests == UNCHANGED <<pc, committed, settled, outcome, result, idem>>

Commits(r) ==
  /\ pc[r] = "commit"
  /\ committed' = [committed EXCEPT ![r] = TRUE]
  /\ \E q \in Late \cup {"rotate"} :
       (q = "settle" => Key(r) # None) /\ pc' = [pc EXCEPT ![r] = q]
  /\ UNCHANGED <<settled, outcome, result, idem>>

Closes(r) ==
  /\ pc[r] = "finally" /\ Key(r) # None /\ ~settled[r]
  /\ CloseKey(r)
  /\ pc' = [pc EXCEPT ![r] = "done"]
  /\ UNCHANGED <<committed, settled, outcome, result>>

KeyStep(r) == MovesOn(r) \/ Reserve(r) \/ ReadPrior(r) \/ Commits(r) \/ Settle(r) \/ Closes(r)

LEMMA StepsOfKeys ==
  ASSUME CoordinatorTypeOK, Next
  PROVE  UNCHANGED call /\ (Rests \/ \E r \in Requests : KeyStep(r))
<1> USE DEF KeyStep, At, GoTo
<1>0. ASSUME NEW r \in Requests, NEW q \in Pcs, Leads(r, q), pc' = [pc EXCEPT ![r] = q],
             UNCHANGED <<committed, settled, idem, result>>,
             \/ outcome' = outcome
             \/ \E w \in Outcomes \ {"replayed"} : outcome' = [outcome EXCEPT ![r] = w]
      PROVE  MovesOn(r)
  BY <1>0 DEF MovesOn, CoordinatorTypeOK
<1>1. ASSUME NEW r \in Requests, Step(r)
      PROVE  UNCHANGED call /\ (Rests \/ KeyStep(r))
  <2> USE DEF Leads, Early, Late, Started, Pcs, Outcomes
  <2>1. CASE Start(r)
    BY <2>1, <1>0 DEF Start, Entry, sharedVars
  <2>2. CASE Reserve(r)
    BY <2>2 DEF Reserve
  <2>3. CASE ReadPrior(r)
    BY <2>3 DEF ReadPrior
  <2>4. CASE AcquireLease(r)
    BY <2>4, <1>0 DEF AcquireLease, Refuse, Answer
  <2>5. CASE ReadLocks(r) \/ ReadHolds(r) \/ ReadHosts(r)
    BY <2>5, <1>0 DEF ReadLocks, ReadHolds, ReadHosts, sharedVars
  <2>6. CASE Prepare(r)
    BY <2>6, <1>0 DEF Prepare, Answer, sharedVars
  <2>7. CASE CommitWins(r)
    <3>1. /\ AfterCommit(r) \in Late \cup {"rotate"}
          /\ AfterCommit(r) = "settle" => Key(r) # None
      BY DEF AfterCommit, AfterRotation, AfterHold
    <3>2. /\ pc[r] = "commit" /\ pc' = [pc EXCEPT ![r] = AfterCommit(r)]
          /\ committed' = [committed EXCEPT ![r] = TRUE]
          /\ UNCHANGED <<call, settled, outcome, result, idem>>
      BY <2>7 DEF CommitWins, sharedVars
    <3>3. Commits(r)
      BY <3>1, <3>2 DEF Commits
    <3> QED
      BY <3>2, <3>3
  <2>8. CASE CommitLoses(r)
    BY <2>8, <1>0 DEF CommitLoses, Answer, sharedVars
  <2>9. CASE RecordAssignment(r)
    BY <2>9, <1>0 DEF RecordAssignment, AfterRotation, AfterHold
  <2>10. CASE ReleaseOwnHold(r)
    BY <2>10, <1>0 DEF ReleaseOwnHold, AfterHold
  <2>11. CASE Settle(r)
    BY <2>11 DEF Settle
  <2>12. CASE Effects(r)
    <3>1. CASE Answer(r, "ok")
      BY <2>12, <3>1 DEF Effects, Answer, MovesOn, CoordinatorTypeOK
    <3>2. CASE Answer(r, "failed") /\ UNCHANGED result
      BY <2>12, <3>2, <1>0 DEF Effects, Answer
    <3> QED
      BY <2>12, <3>1, <3>2 DEF Effects
  <2>13. CASE ReleaseLease(r)
    BY <2>13 DEF ReleaseLease, Rests
  <2>14. CASE Finish(r)
    <3>1. CASE UNCHANGED idem /\ (Key(r) = None \/ settled[r] \/ r \in Faulty)
      BY <2>14, <3>1, <1>0 DEF Finish
    <3>2. CASE Key(r) # None /\ ~settled[r] /\ CloseKey(r)
      BY <2>14, <3>2 DEF Finish, Closes
    <3> QED
      BY <2>14, <3>1, <3>2 DEF Finish, Attempt
  <2> QED
    BY <1>1, <2>1, <2>2, <2>3, <2>4, <2>5, <2>6, <2>7, <2>8, <2>9, <2>10, <2>11, <2>12,
       <2>13, <2>14 DEF Step
<1>2. ASSUME Environment
      PROVE  UNCHANGED call /\ (Rests \/ \E r \in Requests : KeyStep(r))
  <2>1. ASSUME NEW r \in Requests,
               Fail(r) \/ AcquireUnacknowledged(r) \/ CommitUnacknowledged(r) \/ Crash(r)
        PROVE  UNCHANGED call /\ MovesOn(r)
    BY <2>1, <1>0 DEF Fail, AcquireUnacknowledged, CommitUnacknowledged, Crash, Answer, sharedVars,
         Leads, Early, Late, Started, Pcs, Outcomes
  <2>2. ASSUME NEW r \in Requests, PlaceHold(r) \/ HoldExpires(r) \/ Cancel(r)
        PROVE  UNCHANGED call /\ Rests
    BY <2>2 DEF PlaceHold, HoldExpires, Cancel, Rests, localVars, sharedVars
  <2>3. ASSUME NEW h \in Hosts, LeaseExpires(h)
        PROVE  UNCHANGED call /\ Rests
    BY <2>3 DEF LeaseExpires, Rests, localVars
  <2>4. ASSUME NEW t \in Buckets, Prune(t)
        PROVE  UNCHANGED call /\ Rests
    BY <2>4 DEF Prune, Rests, localVars, sharedVars
  <2> QED
    BY <1>2, <2>1, <2>2, <2>3, <2>4 DEF Environment, Surroundings
<1> QED
  BY <1>1, <1>2 DEF Next

\* At most one call of a key has something to write there: the row says which.
LEMMA OneOwner ==
  ASSUME OwnerInv, NEW a \in Requests, NEW b \in Requests,
         Key(a) # None, Working(a) \/ committed[a],
         Key(b) # None, Working(b) \/ committed[b], Scope(a) = Scope(b)
  PROVE  a = b
  BY DEF OwnerInv

\* What the write of a row changes, whichever call it is.
LEMMA RowWritten ==
  ASSUME CoordinatorTypeOK, NEW r \in Requests, Key(r) # None,
         NEW l \in BOOLEAN, NEW resp,
         idem' = [idem EXCEPT ![Scope(r)] = Row(r, l, resp)]
  PROVE  /\ \A s \in Scopes \ {Scope(r)} : idem'[s] = idem[s]
         /\ idem'[Scope(r)].live <=> l
         /\ idem'[Scope(r)].response = resp
         /\ idem'[Scope(r)].by = r
         /\ idem'[Scope(r)].hash = call[r].start
  BY CallFacts DEF CoordinatorTypeOK, Row

LEMMA MovesKeep ==
  ASSUME CoordinatorTypeOK, KeyInv, UNCHANGED call, NEW r \in Requests, MovesOn(r)
  PROVE  KeyInv'
<1> USE DEF KeyInv, MovesOn, Key, Scope
<1>1. PICK q \in Pcs : Leads(r, q) /\ pc' = [pc EXCEPT ![r] = q]
  OBVIOUS
<1>2. /\ pc'[r] = q
      /\ \A a \in Requests \ {r} : pc'[a] = pc[a]
  BY <1>1 DEF CoordinatorTypeOK
<1> USE DEF Leads, Started, Early, Late
<1>3. OwnerInv'
  BY <1>1, <1>2 DEF OwnerInv, Working
<1>4. StageInv'
  BY <1>1, <1>2 DEF StageInv
<1>5. RowInv'
  BY DEF RowInv
<1>6. ReplayTruthful'
  BY DEF ReplayTruthful
<1>7. ClosedInv'
  <2> SUFFICES ASSUME NEW s \in Scopes, idem[s].by # None, idem[s].by \notin Faulty,
                      pc'[idem[s].by] = "done"
               PROVE  /\ idem[s].live <=> committed[idem[s].by]
                      /\ committed[idem[s].by] => idem[s].response = idem[s].by
    BY DEF ClosedInv
  <2>1. CASE idem[s].by # r
    <3>1. idem[s].by \in Requests
      BY DEF CoordinatorTypeOK, IdemRow
    <3> QED
      BY <2>1, <3>1, <1>2 DEF ClosedInv
  <2>2. CASE idem[s].by = r
    <3>1. Key(r) # None /\ Scope(r) = s
      BY <2>2 DEF RowInv
    <3>2. settled[r]
      BY <1>1, <1>2, <2>2, <3>1
    <3>3. committed[r] /\ idem[s].response = r /\ idem[s].live
      BY <3>1, <3>2 DEF StageInv, OwnerInv
    <3> QED
      BY <2>2, <3>3
  <2> QED
    BY <2>1, <2>2
<1> QED
  BY <1>3, <1>4, <1>5, <1>6, <1>7

LEMMA ReserveKeeps ==
  ASSUME CoordinatorTypeOK, KeyInv, NEW r \in Requests, Reserve(r)
  PROVE  KeyInv'
<1> USE DEF KeyInv, Key, Scope, At, GoTo
<1>1. Key(r) # None /\ pc[r] = "reserve" /\ UNCHANGED <<call, committed, settled, outcome, result>>
  BY DEF Reserve, StageInv
<1>2. CASE idem[Scope(r)].live
  <2>1. MovesOn(r)
    BY <1>1, <1>2 DEF Reserve, MovesOn, Leads, Pcs
  <2> QED
    BY <1>1, <2>1, MovesKeep
<1>3. CASE ~idem[Scope(r)].live
  <2>1. /\ pc'[r] = Entry(r)
        /\ \A a \in Requests \ {r} : pc'[a] = pc[a]
    BY <1>3 DEF Reserve, CoordinatorTypeOK
  <2>2. Entry(r) \in {"lease", "busy"}
    BY DEF Entry
  <2>3. idem' = [idem EXCEPT ![Scope(r)] = Row(r, TRUE, None)]
    BY <1>3 DEF Reserve
  <2>4. /\ \A s \in Scopes \ {Scope(r)} : idem'[s] = idem[s]
        /\ idem'[Scope(r)].live /\ idem'[Scope(r)].response = None
        /\ idem'[Scope(r)].by = r /\ idem'[Scope(r)].hash = call[r].start
    BY <1>1, <2>3, RowWritten
  <2>5. \A a \in Requests : Key(a) # None => Scope(a) \in Scopes
    BY CallFacts
  <2>6. \A a \in Requests : Key(a) # None /\ (Working(a) \/ committed[a]) => Scope(a) # Scope(r)
    BY <1>3 DEF OwnerInv
  <2>7. ~committed[r] /\ ~settled[r]
    BY <1>1 DEF StageInv
  <2>8. OwnerInv'
    BY <1>1, <2>1, <2>4, <2>5, <2>6, <2>7 DEF OwnerInv, Working
  <2>9. StageInv'
    BY <1>1, <2>1, <2>2, <2>4, <2>5, <2>6, <2>7 DEF StageInv
  <2>10. RowInv'
    BY <1>1, <2>4, CoordinatorAssumption DEF RowInv
  <2>11. ReplayTruthful'
    BY <1>1 DEF ReplayTruthful
  <2>12. ClosedInv'
    <3> SUFFICES ASSUME NEW s \in Scopes, idem'[s].by # None, idem'[s].by \notin Faulty,
                        pc'[idem'[s].by] = "done"
                 PROVE  /\ idem'[s].live <=> committed'[idem'[s].by]
                        /\ committed'[idem'[s].by] => idem'[s].response = idem'[s].by
      BY DEF ClosedInv
    <3>1. idem'[s].by # r
      BY <2>1, <2>2
    <3>2. idem'[s] = idem[s]
      BY <2>4, <3>1
    <3>3. idem[s].by \in Requests
      BY <3>2 DEF CoordinatorTypeOK, IdemRow
    <3> QED
      BY <1>1, <2>1, <3>1, <3>2, <3>3 DEF ClosedInv
  <2> QED
    BY <2>8, <2>9, <2>10, <2>11, <2>12
<1> QED
  BY <1>2, <1>3

LEMMA ReadPriorKeeps ==
  ASSUME CoordinatorTypeOK, KeyInv, NEW r \in Requests, ReadPrior(r)
  PROVE  KeyInv'
<1> USE DEF KeyInv, Key, Scope, At, GoTo
<1>1. /\ UNCHANGED <<call, committed, settled, idem>>
      /\ pc[r] = "prior" /\ Key(r) # None
  BY DEF ReadPrior, StageInv, sharedVars
<1>2. /\ pc'[r] = "done"
      /\ \A a \in Requests \ {r} :
           pc'[a] = pc[a] /\ outcome'[a] = outcome[a] /\ result'[a] = result[a]
  BY DEF ReadPrior, CoordinatorTypeOK
<1>3. OwnerInv'
  BY <1>1, <1>2 DEF OwnerInv, Working
<1>4. StageInv'
  BY <1>1, <1>2 DEF StageInv
<1>5. RowInv'
  BY <1>1 DEF RowInv
<1>6. ReplayTruthful'
  <2> SUFFICES ASSUME NEW a \in Requests, outcome'[a] = "replayed"
               PROVE  /\ result'[a] \in Requests /\ committed[result'[a]]
                      /\ Scope(result'[a]) = Scope(a) /\ call[result'[a]].start = call[a].start
    BY <1>1 DEF ReplayTruthful
  <2>1. CASE a # r
    BY <2>1, <1>2 DEF ReplayTruthful
  <2>2. CASE a = r
    <3>1. /\ idem[Scope(r)].hash = call[r].start /\ idem[Scope(r)].response # None
          /\ result'[r] = idem[Scope(r)].response
      BY <2>2 DEF ReadPrior, CoordinatorTypeOK
    <3>2. Scope(r) \in Scopes
      BY <1>1, CallFacts
    <3>3. /\ result'[r] = idem[Scope(r)].by
          /\ committed[result'[r]]
      BY <3>1, <3>2 DEF RowInv
    <3>4. result'[r] # None /\ result'[r] \in Requests
      BY <3>1, <3>2 DEF CoordinatorTypeOK, IdemRow
    <3>5. Scope(result'[r]) = Scope(r) /\ idem[Scope(r)].hash = call[result'[r]].start
      BY <3>2, <3>3, <3>4 DEF RowInv
    <3> QED
      BY <2>2, <3>1, <3>3, <3>4, <3>5
  <2> QED
    BY <2>1, <2>2
<1>7. ClosedInv'
  <2> SUFFICES ASSUME NEW s \in Scopes, idem[s].by # None, idem[s].by \notin Faulty,
                      pc'[idem[s].by] = "done"
               PROVE  /\ idem[s].live <=> committed[idem[s].by]
                      /\ committed[idem[s].by] => idem[s].response = idem[s].by
    BY <1>1 DEF ClosedInv
  <2>1. idem[s].by \in Requests
    BY DEF CoordinatorTypeOK, IdemRow
  <2>2. idem[s].by # r
    BY <1>1 DEF RowInv, StageInv
  <2> QED
    BY <1>2, <2>1, <2>2 DEF ClosedInv
<1> QED
  BY <1>3, <1>4, <1>5, <1>6, <1>7

LEMMA CommitsKeep ==
  ASSUME CoordinatorTypeOK, KeyInv, UNCHANGED call, NEW r \in Requests, Commits(r)
  PROVE  KeyInv'
<1> USE DEF KeyInv, Commits, Key, Scope, Late
<1>1. /\ pc'[r] \in Late \cup {"rotate"} /\ (pc'[r] = "settle" => Key(r) # None)
      /\ committed'[r]
      /\ \A a \in Requests \ {r} : pc'[a] = pc[a] /\ committed'[a] = committed[a]
  BY DEF CoordinatorTypeOK
<1>2. \A a \in Requests : committed[a] => committed'[a]
  BY <1>1
<1>3. OwnerInv'
  BY <1>1 DEF OwnerInv, Working
<1>4. StageInv'
  BY <1>1 DEF StageInv
<1>5. RowInv'
  <2>1. \A s \in Scopes : idem[s].by # None => idem[s].by \in Requests
    BY DEF CoordinatorTypeOK, IdemRow
  <2>2. \A s \in Scopes : idem[s].response # None => idem[s].by \in Requests
    BY <2>1 DEF RowInv
  <2> QED
    BY <1>2, <2>2 DEF RowInv
<1>6. ReplayTruthful'
  BY <1>2 DEF ReplayTruthful
<1>7. ClosedInv'
  <2> SUFFICES ASSUME NEW s \in Scopes, idem[s].by # None, idem[s].by \notin Faulty,
                      pc'[idem[s].by] = "done"
               PROVE  /\ idem[s].live <=> committed'[idem[s].by]
                      /\ committed'[idem[s].by] => idem[s].response = idem[s].by
    BY DEF ClosedInv
  <2>1. idem[s].by \in Requests /\ idem[s].by # r
    BY <1>1 DEF CoordinatorTypeOK, IdemRow
  <2> QED
    BY <1>1, <2>1 DEF ClosedInv
<1> QED
  BY <1>3, <1>4, <1>5, <1>6, <1>7

\* A call that owns its key's row writes it: what it booked, or, if it booked
\* nothing and its work is done, the release.
LEMMA OwnRowKeeps ==
  ASSUME CoordinatorTypeOK, KeyInv, UNCHANGED <<call, committed, outcome, result>>,
         NEW r \in Requests, Key(r) # None, Working(r),
         NEW q \in {"effects", "done"}, pc' = [pc EXCEPT ![r] = q],
         ~committed[r] => q = "done" /\ ~settled[r],
         IF committed[r] THEN idem' = [idem EXCEPT ![Scope(r)] = Row(r, TRUE, r)]
                         ELSE idem' = [idem EXCEPT ![Scope(r)] = Row(r, FALSE, None)],
         NEW heard \in BOOLEAN, settled' = [settled EXCEPT ![r] = heard], heard => committed[r]
  PROVE  KeyInv'
<1> USE DEF KeyInv, Key, Scope
<1>1. /\ pc'[r] = q /\ settled'[r] = heard
      /\ \A a \in Requests \ {r} : pc'[a] = pc[a] /\ settled'[a] = settled[a]
  BY DEF CoordinatorTypeOK
<1>2. /\ \A s \in Scopes \ {Scope(r)} : idem'[s] = idem[s]
      /\ idem'[Scope(r)].live <=> committed[r]
      /\ idem'[Scope(r)].response = IF committed[r] THEN r ELSE None
      /\ idem'[Scope(r)].by = r
      /\ idem'[Scope(r)].hash = call[r].start
  <2>1. CASE committed[r]
    <3>1. idem' = [idem EXCEPT ![Scope(r)] = Row(r, TRUE, r)]
      BY <2>1
    <3> HIDE DEF KeyInv, Key, Scope
    <3>2. /\ \A s \in Scopes \ {Scope(r)} : idem'[s] = idem[s]
          /\ idem'[Scope(r)].live
          /\ idem'[Scope(r)].response = r
          /\ idem'[Scope(r)].by = r
          /\ idem'[Scope(r)].hash = call[r].start
      BY <3>1, RowWritten
    <3> QED
      BY <2>1, <3>2
  <2>2. CASE ~committed[r]
    <3>1. idem' = [idem EXCEPT ![Scope(r)] = Row(r, FALSE, None)]
      BY <2>2
    <3> HIDE DEF KeyInv, Key, Scope
    <3> QED
      BY <2>2, <3>1, RowWritten
  <2> QED
    BY <2>1, <2>2
<1>3. \A a \in Requests : Key(a) # None => Scope(a) \in Scopes
  BY CallFacts
<1>4. \A a \in Requests \ {r} : Key(a) # None /\ (Working(a) \/ committed[a]) => Scope(a) # Scope(r)
  BY OneOwner
<1>5. OwnerInv'
  BY <1>1, <1>2, <1>3, <1>4 DEF OwnerInv, Working
<1>6. StageInv'
  BY <1>1, <1>2, <1>3, <1>4 DEF StageInv, Working
<1>7. RowInv'
  BY <1>1, <1>2 DEF RowInv
<1>8. ReplayTruthful'
  BY DEF ReplayTruthful
<1>9. ClosedInv'
  <2> SUFFICES ASSUME NEW s \in Scopes, idem'[s].by # None, idem'[s].by \notin Faulty,
                      pc'[idem'[s].by] = "done"
               PROVE  /\ idem'[s].live <=> committed[idem'[s].by]
                      /\ committed[idem'[s].by] => idem'[s].response = idem'[s].by
    BY DEF ClosedInv
  <2>1. CASE s = Scope(r)
    BY <1>2, <2>1
  <2>2. CASE s # Scope(r)
    <3>1. idem'[s] = idem[s] /\ idem[s].by \in Requests
      BY <1>2, <2>2 DEF CoordinatorTypeOK, IdemRow
    <3>2. idem[s].by # r
      BY <2>2, <3>1 DEF RowInv
    <3> QED
      BY <1>1, <3>1, <3>2 DEF ClosedInv
  <2> QED
    BY <2>1, <2>2
<1> QED
  BY <1>5, <1>6, <1>7, <1>8, <1>9

LEMMA SettleKeeps ==
  ASSUME CoordinatorTypeOK, KeyInv, NEW r \in Requests, Settle(r)
  PROVE  KeyInv'
<1> USE DEF At, GoTo
<1>1. /\ UNCHANGED <<call, committed, outcome, result>>
      /\ pc[r] = "settle" /\ pc' = [pc EXCEPT ![r] = "effects"]
      /\ Key(r) # None /\ committed[r] /\ Working(r)
  BY DEF Settle, KeyInv, StageInv, Working
<1>2. PICK heard \in BOOLEAN : /\ heard => idem'[Scope(r)] = Row(r, TRUE, r)
                               /\ settled' = [settled EXCEPT ![r] = heard]
  BY DEF Settle
<1>3. CASE idem' = [idem EXCEPT ![Scope(r)] = Row(r, TRUE, r)]
  BY <1>1, <1>2, <1>3, OwnRowKeeps
<1>4. CASE UNCHANGED idem
  <2>1. heard => idem[Scope(r)] = Row(r, TRUE, r)
    BY <1>2, <1>4
  <2>2. Scope(r) \in Scopes
    BY <1>1, CallFacts
  <2>3. CASE heard
    <3>1. [idem EXCEPT ![Scope(r)] = Row(r, TRUE, r)] = idem
      BY <2>1, <2>2, <2>3 DEF CoordinatorTypeOK
    <3> QED
      BY <1>1, <1>2, <1>4, <3>1, OwnRowKeeps
  <2>4. CASE ~heard
    <3>1. CASE settled[r]
      <4>1. idem[Scope(r)].by = r /\ idem[Scope(r)].live /\ idem[Scope(r)].response = r
        BY <1>1, <3>1 DEF KeyInv, StageInv, OwnerInv
      <4>2. idem[Scope(r)].hash = call[r].start
        BY <2>2, <4>1, CoordinatorAssumption DEF KeyInv, RowInv
      <4>3. idem[Scope(r)] = Row(r, TRUE, r)
        BY <2>2, <4>1, <4>2 DEF Row, CoordinatorTypeOK, IdemRow
      <4>4. [idem EXCEPT ![Scope(r)] = Row(r, TRUE, r)] = idem
        BY <4>3, <2>2 DEF CoordinatorTypeOK
      <4> QED
        BY <1>1, <1>2, <1>4, <4>4, OwnRowKeeps
    <3>2. CASE ~settled[r]
      <4>1. settled' = settled
        BY <1>2, <2>4, <3>2 DEF CoordinatorTypeOK
      <4>2. MovesOn(r)
        BY <1>1, <1>4, <4>1 DEF MovesOn, Leads, Pcs, Started
      <4> QED
        BY <1>1, <4>2, MovesKeep
    <3> QED
      BY <3>1, <3>2
  <2> QED
    BY <2>3, <2>4
<1> QED
  BY <1>3, <1>4 DEF Settle, Attempt

LEMMA ClosesKeep ==
  ASSUME CoordinatorTypeOK, KeyInv, UNCHANGED call, NEW r \in Requests, Closes(r)
  PROVE  KeyInv'
<1>1. Working(r)
  BY DEF Closes, Working
<1>2. settled' = [settled EXCEPT ![r] = FALSE]
  BY DEF Closes, CoordinatorTypeOK
<1>3. IF committed[r] THEN idem' = [idem EXCEPT ![Scope(r)] = Row(r, TRUE, r)]
                      ELSE idem' = [idem EXCEPT ![Scope(r)] = Row(r, FALSE, None)]
  BY DEF Closes, CloseKey
<1> QED
  BY <1>1, <1>2, <1>3, OwnRowKeeps DEF Closes

LEMMA KeyStepKeeps ==
  ASSUME CoordinatorTypeOK, KeyInv, Next
  PROVE  KeyInv'
<1>1. CASE Rests /\ UNCHANGED call
  BY <1>1 DEF Rests, KeyInv, OwnerInv, StageInv, RowInv, ReplayTruthful, ClosedInv,
       Working, Key, Scope
<1>2. ASSUME NEW r \in Requests, KeyStep(r), UNCHANGED call
      PROVE  KeyInv'
  BY <1>2, MovesKeep, ReserveKeeps, ReadPriorKeeps, CommitsKeep, SettleKeeps, ClosesKeep DEF KeyStep
<1> QED
  BY <1>1, <1>2, StepsOfKeys

-----------------------------------------------------------------------------
(* Whose bookings, leases and holds there are. *)

Before == {"idle", "reserve", "prior"} \cup Early

\* A row of bookings is that of a call that knows it booked, or of one that
\* failed; a call that has not reached the end of its write has none.
BookedInv ==
  /\ \A b \in Ids : status[b] # "none" => b \in Requests /\ (committed[b] \/ b \in Faulty)
  /\ \A b \in Ids : claim[b] # {} => status[b] # "none"
  /\ \A r \in Requests : pc[r] \in Before => status[r] = "none"
  /\ \A r \in Requests : committed[r] => status[r] # "none"

\* A lease that is taken is known to its holder until that one leaves the calls
\* before the write, and, unless it is faulty, until it gives the lease back. A
\* call that is over knows of none, and leases are taken in ascending order.
LeaseInv ==
  /\ \A h \in Hosts : leases[h] # None =>
       /\ pc[leases[h]] \notin {"idle", "reserve", "prior"}
       /\ leases[h] \notin Faulty \/ pc[leases[h]] \in Early => h \in acquired[leases[h]]
  /\ \A r \in Requests :
       /\ acquired[r] # {} => pc[r] \notin {"idle", "reserve", "prior", "done"}
       /\ pc[r] = "lease" => \A h \in acquired[r], g \in Team(r) \ acquired[r] : h < g

HoldInv == \A o \in holds : call[o].hold

\* The steps that write no booking.
NoBooking ==
  /\ UNCHANGED <<call, status, claim, committed>>
  /\ \A r \in Requests : pc'[r] \in Before => pc[r] \in Before

LEMMA StepsWithoutBooking ==
  ASSUME CoordinatorTypeOK, Next
  PROVE  \/ NoBooking
         \/ \E r \in Requests : CommitWins(r) \/ CommitUnacknowledged(r) \/ Cancel(r)
<1> USE DEF NoBooking, Before, Early, At, GoTo, Answer, CoordinatorTypeOK
<1>1. ASSUME NEW r \in Requests, Step(r), ~CommitWins(r)
      PROVE  NoBooking
  <2>1. CASE Start(r)
    BY <2>1 DEF Start, Entry, storeVars
  <2>2. CASE Reserve(r)
    <3>1. Entry(r) \in Before /\ pc[r] \in Before /\ (pc' = [pc EXCEPT ![r] = Entry(r)] \/ pc' = [pc EXCEPT ![r] = "prior"])
      BY <2>2 DEF Reserve, Entry
    <3> QED
      BY <2>2, <3>1 DEF Reserve, storeVars
  <2>3. CASE ReadPrior(r)
    BY <2>3 DEF ReadPrior, storeVars
  <2>4. CASE AcquireLease(r) \/ ReadLocks(r) \/ ReadHolds(r) \/ ReadHosts(r) \/ Prepare(r)
    BY <2>4 DEF AcquireLease, Refuse, ReadLocks, ReadHolds, ReadHosts, Prepare, storeVars
  <2>5. CASE CommitLoses(r) \/ Effects(r) \/ ReleaseLease(r) \/ Finish(r)
    BY <2>5 DEF CommitLoses, Effects, ReleaseLease, Finish, storeVars
  <2>6. CASE RecordAssignment(r)
    BY <2>6 DEF RecordAssignment, AfterRotation, AfterHold, storeVars
  <2>7. CASE ReleaseOwnHold(r)
    BY <2>7 DEF ReleaseOwnHold, AfterHold, storeVars
  <2>8. CASE Settle(r)
    BY <2>8 DEF Settle, storeVars
  <2> QED
    BY <1>1, <2>1, <2>2, <2>3, <2>4, <2>5, <2>6, <2>7, <2>8 DEF Step
<1>2. ASSUME Surroundings, ~\E r \in Requests : CommitUnacknowledged(r)
      PROVE  NoBooking
  BY <1>2 DEF Surroundings, Fail, AcquireUnacknowledged, Crash, PlaceHold, HoldExpires, LeaseExpires, Prune,
       PruneLocksBefore, storeVars, localVars, sharedVars
<1> QED
  BY <1>1, <1>2 DEF Next, Environment

LEMMA BookedStep ==
  ASSUME CoordinatorTypeOK, StageInv, BookedInv, Next
  PROVE  BookedInv'
<1> USE DEF CoordinatorTypeOK, StoreTypeOK
<1>1. CASE NoBooking
  BY <1>1 DEF NoBooking, BookedInv
<1>2. ASSUME NEW r \in Requests, CreateWithLocks(r, Claim(r, chosen[r])), pc[r] = "commit",
             UNCHANGED call,
             NEW q \in Pcs \ Before, pc' = [pc EXCEPT ![r] = q],
             \/ committed' = [committed EXCEPT ![r] = TRUE]
             \/ r \in Faulty /\ UNCHANGED committed
      PROVE  BookedInv'
  BY <1>2, CoordinatorAssumption DEF CreateWithLocks, BookedInv
<1>3. ASSUME NEW r \in Requests, CommitWins(r)
      PROVE  BookedInv'
  <2>1. AfterCommit(r) \in Pcs \ Before
    BY DEF AfterCommit, AfterRotation, AfterHold, Pcs, Before, Early
  <2> QED
    BY <1>2, <1>3, <2>1 DEF CommitWins, At, GoTo
<1>4. ASSUME NEW r \in Requests, CommitUnacknowledged(r)
      PROVE  BookedInv'
  BY <1>2, <1>4 DEF CommitUnacknowledged, Answer, At, GoTo, Pcs, Before, Early
<1>5. ASSUME NEW r \in Requests, Cancel(r)
      PROVE  BookedInv'
  BY <1>5 DEF Cancel, CancelWithLockRelease, Confirmed, localVars, BookedInv
<1> QED
  BY <1>1, <1>3, <1>4, <1>5, StepsWithoutBooking

\* The steps that neither take nor return a lease.
LeasesAlone ==
  /\ UNCHANGED <<leases, acquired>>
  /\ \A r \in Requests :
       \/ pc'[r] = pc[r]
       \/ pc[r] \in {"idle", "reserve", "prior"} /\ pc'[r] # "idle"
       \/ pc[r] \in Early /\ pc'[r] \notin {"idle", "reserve", "prior", "lease", "done"}
       \/ pc'[r] \notin {"idle", "reserve", "prior", "done"} \cup Early
       \/ pc'[r] = "done" /\ acquired[r] = {}

LEMMA StepsWithoutLease ==
  ASSUME CoordinatorTypeOK, Next
  PROVE  \/ LeasesAlone
         \/ \E r \in Requests : AcquireLease(r) \/ AcquireUnacknowledged(r) \/ ReleaseLease(r)
         \/ \E h \in Hosts : LeaseExpires(h)
<1> USE DEF LeasesAlone, Early, At, GoTo, Answer, CoordinatorTypeOK
<1>1. ASSUME NEW r \in Requests, Step(r), ~AcquireLease(r), ~ReleaseLease(r)
      PROVE  LeasesAlone
  <2>1. CASE Start(r) \/ Reserve(r) \/ ReadPrior(r)
    BY <2>1 DEF Start, Reserve, ReadPrior, Entry, sharedVars
  <2>2. CASE ReadLocks(r) \/ ReadHolds(r) \/ ReadHosts(r) \/ Prepare(r)
    BY <2>2 DEF ReadLocks, ReadHolds, ReadHosts, Prepare, sharedVars
  <2>3. CASE CommitWins(r)
    BY <2>3 DEF CommitWins, AfterCommit, AfterRotation, AfterHold, sharedVars
  <2>4. CASE CommitLoses(r) \/ Effects(r) \/ Finish(r)
    BY <2>4 DEF CommitLoses, Effects, Finish, sharedVars
  <2>5. CASE RecordAssignment(r)
    BY <2>5 DEF RecordAssignment, AfterRotation, AfterHold
  <2>6. CASE ReleaseOwnHold(r)
    BY <2>6 DEF ReleaseOwnHold, AfterHold
  <2>7. CASE Settle(r)
    BY <2>7 DEF Settle
  <2> QED
    BY <1>1, <2>1, <2>2, <2>3, <2>4, <2>5, <2>6, <2>7 DEF Step
<1>2. ASSUME Environment, ~\E r \in Requests : AcquireUnacknowledged(r), ~\E h \in Hosts : LeaseExpires(h)
      PROVE  LeasesAlone
  BY <1>2 DEF Environment, Surroundings, Fail, CommitUnacknowledged, Crash, PlaceHold, HoldExpires, Prune, Cancel,
       localVars, sharedVars
<1> QED
  BY <1>1, <1>2 DEF Next

LEMMA LeaseStep ==
  ASSUME CoordinatorTypeOK, LeaseInv, Next
  PROVE  LeaseInv'
<1> USE DEF At, GoTo, Early
<1>0. UNCHANGED call /\ \A r \in Requests : Team(r) \subseteq Nat
  BY StepsOfKeys, CallFacts, CoordinatorAssumption
<1>1. CASE LeasesAlone
  BY <1>0, <1>1 DEF LeasesAlone, LeaseInv, CoordinatorTypeOK, Team
<1>2. ASSUME NEW r \in Requests, AcquireLease(r)
      PROVE  LeaseInv'
  <2>1. PICK h \in NextLease(r) :
          \/ /\ Grant(r, h)
             /\ acquired' = [acquired EXCEPT ![r] = @ \cup {h}]
             /\ GoTo(r, IF acquired'[r] = Team(r) THEN "busy" ELSE "lease")
          \/ Refuse(r, h)
    BY <1>2 DEF AcquireLease
  <2>2. pc[r] = "lease" /\ h \in Team(r) \ acquired[r] /\ h \in Hosts
    BY <1>2, CallFacts DEF AcquireLease, NextLease
  <2>3. CASE Refuse(r, h)
    BY <1>0, <2>2, <2>3 DEF Refuse, Answer, LeaseInv, CoordinatorTypeOK, Team
  <2>4. CASE /\ Grant(r, h)
             /\ acquired' = [acquired EXCEPT ![r] = @ \cup {h}]
             /\ GoTo(r, IF acquired'[r] = Team(r) THEN "busy" ELSE "lease")
    <3>1. /\ leases' = [leases EXCEPT ![h] = r]
          /\ acquired'[r] = acquired[r] \cup {h}
          /\ pc'[r] \in {"busy", "lease"}
          /\ \A a \in Requests \ {r} : acquired'[a] = acquired[a] /\ pc'[a] = pc[a]
      BY <2>4 DEF Grant, CoordinatorTypeOK
    <3>2. \A g \in Team(r) \ acquired'[r] : h < g
      BY <1>0, <2>1, <2>2, <3>1 DEF NextLease
    <3> QED
      BY <1>0, <2>2, <3>1, <3>2 DEF LeaseInv, CoordinatorTypeOK, Team
  <2> QED
    BY <2>1, <2>3, <2>4
<1>3. ASSUME NEW r \in Requests, AcquireUnacknowledged(r)
      PROVE  LeaseInv'
  <2>1. PICK h \in NextLease(r) : leases' = [leases EXCEPT ![h] = r]
    BY <1>3 DEF AcquireUnacknowledged, Grant
  <2>2. r \in Faulty /\ pc[r] = "lease" /\ pc' = [pc EXCEPT ![r] = "finally"] /\ UNCHANGED acquired
    BY <1>3 DEF AcquireUnacknowledged, Answer
  <2> QED
    BY <1>0, <2>1, <2>2 DEF LeaseInv, CoordinatorTypeOK, Team
<1>4. ASSUME NEW r \in Requests, ReleaseLease(r)
      PROVE  LeaseInv'
  <2>1. PICK h \in acquired[r] :
          /\ acquired' = [acquired EXCEPT ![r] = @ \ {h}]
          /\ \/ leases' = [leases EXCEPT ![h] = IF @ = r THEN None ELSE @]
             \/ r \in Faulty /\ UNCHANGED leases
    BY <1>4 DEF ReleaseLease, Attempt
  <2>2. pc[r] = "finally" /\ UNCHANGED pc
    BY <1>4 DEF ReleaseLease
  <2> QED
    BY <1>0, <2>1, <2>2 DEF LeaseInv, CoordinatorTypeOK, Team
<1>5. ASSUME NEW h \in Hosts, LeaseExpires(h)
      PROVE  LeaseInv'
  BY <1>0, <1>5 DEF LeaseExpires, localVars, LeaseInv, CoordinatorTypeOK, Team
<1> QED
  BY <1>1, <1>2, <1>3, <1>4, <1>5, StepsWithoutLease

LEMMA HoldStep ==
  ASSUME CoordinatorTypeOK, HoldInv, Next
  PROVE  HoldInv'
<1>1. \A o \in holds' : o \in holds \/ call[o].hold
  BY DEF Next, Step, Environment, Surroundings, Start, Reserve, ReadPrior, AcquireLease, ReadLocks, ReadHolds, ReadHosts,
       Prepare, CommitWins, CommitLoses, RecordAssignment, ReleaseOwnHold, Settle, Effects, ReleaseLease, Finish,
       Fail, AcquireUnacknowledged, CommitUnacknowledged, Crash, PlaceHold, HoldExpires, LeaseExpires, Prune, Cancel,
       Attempt, sharedVars
<1>2. UNCHANGED call
  BY StepsOfKeys
<1> QED
  BY <1>1, <1>2 DEF HoldInv

-----------------------------------------------------------------------------
(* Why a guest is told "taken". *)

\* Somebody else's booking, or hold, covers part of what r asks of host h.
BookedFor(r, h) ==
  \E b \in Requests \ {r} :
    (committed[b] \/ b \in Faulty) /\ claim[b] \cap Claim(r, {h}) # {}

HeldFor(r, h) ==
  \E o \in Requests \ {r} :
    call[o].hold /\ h \in Team(o) /\ Footprint(call[o]) \cap Footprint(call[r]) # {}

SeenInv ==
  \A r \in Requests : \A h \in Hosts :
    <<h, "taken">> \in seen[r] => h \in Team(r) /\ (BookedFor(r, h) \/ HeldFor(r, h))

\* What a reason to say "taken" rests on never goes away again.
LEMMA ReasonsStay ==
  ASSUME CoordinatorTypeOK, BookedInv, Next
  PROVE  /\ UNCHANGED call
         /\ \A b \in Requests : /\ committed[b] => committed'[b]
                                /\ claim[b] # {} => claim'[b] = claim[b]
<1> USE DEF CoordinatorTypeOK, StoreTypeOK
<1>0. UNCHANGED call /\ Requests \subseteq Ids
  BY StepsOfKeys, CoordinatorAssumption
<1>1. CASE NoBooking
  BY <1>0, <1>1 DEF NoBooking
<1>2. ASSUME NEW r \in Requests, CommitWins(r) \/ CommitUnacknowledged(r)
      PROVE  \A b \in Requests : /\ committed[b] => committed'[b]
                                 /\ claim[b] # {} => claim'[b] = claim[b]
  BY <1>0, <1>2 DEF CommitWins, CommitUnacknowledged, CreateWithLocks, BookedInv
<1>3. ASSUME NEW r \in Requests, Cancel(r)
      PROVE  UNCHANGED <<claim, committed>>
  BY <1>3 DEF Cancel, CancelWithLockRelease, localVars
<1> QED
  BY <1>0, <1>1, <1>2, <1>3, StepsWithoutBooking

LEMMA ReasonStays ==
  ASSUME CoordinatorTypeOK, BookedInv, Next, NEW r \in Requests, NEW h \in Hosts
  PROVE  /\ BookedFor(r, h) => BookedFor(r, h)'
         /\ HeldFor(r, h) => HeldFor(r, h)'
<1>1. UNCHANGED call
  BY ReasonsStay
<1>2. ASSUME BookedFor(r, h)
      PROVE  BookedFor(r, h)'
  <2>1. PICK b \in Requests \ {r} : (committed[b] \/ b \in Faulty) /\ claim[b] \cap Claim(r, {h}) # {}
    BY <1>2 DEF BookedFor
  <2>2. claim'[b] = claim[b] /\ (committed[b] => committed'[b])
    BY <2>1, ReasonsStay
  <2> QED
    BY <1>1, <2>1, <2>2 DEF BookedFor, Claim
<1>3. HeldFor(r, h) => HeldFor(r, h)'
  BY <1>1 DEF HeldFor, Team
<1> QED
  BY <1>2, <1>3

\* A lock row in the way of a call that has not written is somebody else's.
LEMMA LockIsSomebodys ==
  ASSUME CoordinatorTypeOK, StoreIInv, BookedInv, NEW r \in Requests, pc[r] \in Before,
         NEW H \in SUBSET Hosts, Conflict(Claim(r, H))
  PROVE  \E h \in H : BookedFor(r, h)
<1>1. PICK l \in slotLocks : l[1] \in Claim(r, H)
  BY DEF Conflict
<1>2. PICK h \in H, x \in Footprint(call[r]) : l[1] = <<h, x>>
  BY <1>1 DEF Claim
<1>3. l[2] \in Ids /\ status[l[2]] = "confirmed" /\ l[1] \in claim[l[2]]
  BY DEF StoreIInv, LocksBelongToConfirmed, Confirmed
<1>4. l[2] \in Requests \ {r} /\ (committed[l[2]] \/ l[2] \in Faulty)
  BY <1>3 DEF BookedInv
<1>5. l[1] \in Claim(r, {h})
  BY <1>2 DEF Claim
<1> QED
  BY <1>3, <1>4, <1>5 DEF BookedFor

LEMMA StepsWithoutReading ==
  ASSUME Next
  PROVE  UNCHANGED seen \/ \E r \in Requests : ReadLocks(r) \/ ReadHolds(r) \/ ReadHosts(r)
  BY DEF Next, Step, Environment, Surroundings, Start, Reserve, ReadPrior, AcquireLease, Prepare, CommitWins, CommitLoses,
       RecordAssignment, ReleaseOwnHold, Settle, Effects, ReleaseLease, Finish, Fail, AcquireUnacknowledged,
       CommitUnacknowledged, Crash, PlaceHold, HoldExpires, LeaseExpires, Prune, Cancel, localVars

\* Only the re-check and the arbiter say "taken".
LEMMA StepsOfTaken ==
  ASSUME CoordinatorTypeOK, Next, NEW r \in Requests, outcome'[r] = "slot_taken", outcome[r] # "slot_taken"
  PROVE  Prepare(r) \/ CommitLoses(r)
<1>1. outcome' # outcome
  BY DEF CoordinatorTypeOK
<1>2. ASSUME NEW a \in Requests, NEW w \in Outcomes, outcome' = [outcome EXCEPT ![a] = w]
      PROVE  a = r /\ w = "slot_taken"
  BY <1>2 DEF CoordinatorTypeOK
<1>3. ASSUME NEW a \in Requests, Step(a)
      PROVE  Prepare(r) \/ CommitLoses(r)
  <2>1. CASE ReadPrior(a)
    BY <1>2, <2>1 DEF ReadPrior, Outcomes
  <2>2. CASE AcquireLease(a)
    BY <1>1, <1>2, <2>2 DEF AcquireLease, Refuse, Answer, Outcomes
  <2>3. CASE Prepare(a) \/ CommitLoses(a)
    BY <1>1, <1>2, <2>3 DEF Prepare, CommitLoses, Answer, Outcomes
  <2>4. CASE Effects(a)
    BY <1>2, <2>4 DEF Effects, Answer, Outcomes
  <2> QED
    BY <1>1, <1>3, <2>1, <2>2, <2>3, <2>4 DEF Step, Start, Reserve, ReadLocks, ReadHolds, ReadHosts, CommitWins,
         RecordAssignment, ReleaseOwnHold, Settle, ReleaseLease, Finish
<1>4. ~Environment
  BY <1>1, <1>2 DEF Environment, Surroundings, Fail, AcquireUnacknowledged, CommitUnacknowledged, Crash, PlaceHold, HoldExpires,
       LeaseExpires, Prune, Cancel, Answer, Outcomes, localVars
<1> QED
  BY <1>3, <1>4 DEF Next

LEMMA SeenStep ==
  ASSUME CoordinatorTypeOK, StoreIInv, BookedInv, HoldInv, SeenInv, Next
  PROVE  SeenInv'
<1> USE DEF CoordinatorTypeOK
<1>1. \A r \in Requests, h \in Hosts :
        <<h, "taken">> \in seen[r] => h \in Team(r)' /\ (BookedFor(r, h) \/ HeldFor(r, h))'
  BY ReasonsStay, ReasonStays DEF SeenInv, Team
<1>2. SUFFICES ASSUME NEW r \in Requests, NEW h \in Hosts, <<h, "taken">> \in seen'[r], <<h, "taken">> \notin seen[r]
               PROVE  h \in Team(r)' /\ (BookedFor(r, h) \/ HeldFor(r, h))'
  BY <1>1 DEF SeenInv
<1>3. UNCHANGED call
  BY ReasonsStay
<1>4. CASE ReadLocks(r)
  <2>1. h \in Team(r) /\ Conflict(Claim(r, {h})) /\ pc[r] \in Before
    BY <1>2, <1>4 DEF ReadLocks, Found, Locked, Before, Early
  <2>2. BookedFor(r, h)
    BY <2>1, LockIsSomebodys
  <2> QED
    BY <1>3, <2>1, <2>2, ReasonStays DEF Team
<1>5. CASE ReadHolds(r)
  <2>1. PICK o \in holds \ {r} : h \in Team(o) /\ Footprint(call[o]) \cap Footprint(call[r]) # {}
    BY <1>2, <1>5 DEF ReadHolds, Found, HeldByOthers
  <2>2. h \in Team(r) /\ HeldFor(r, h)
    BY <1>2, <1>5, <2>1 DEF ReadHolds, Found, HeldByOthers, HoldInv, HeldFor
  <2> QED
    BY <1>3, <2>2, ReasonStays DEF Team
<1>6. ~ReadHosts(r)
  BY <1>2, CoordinatorAssumption DEF ReadHosts
<1>7. ASSUME NEW a \in Requests \ {r}, ReadLocks(a) \/ ReadHolds(a) \/ ReadHosts(a)
      PROVE  seen'[r] = seen[r]
  BY <1>7 DEF ReadLocks, ReadHolds, ReadHosts, Found
<1> QED
  BY <1>2, <1>4, <1>5, <1>6, <1>7, StepsWithoutReading

\* What TakenIsTrue says of one call.
TakenTruly(r) ==
  \/ \E h \in Team(r) : BookedFor(r, h) \/ HeldFor(r, h)
  \/ \E h \in Team(r) : "away" \in Against(r, h)

LEMMA TakenTrulyStays ==
  ASSUME CoordinatorTypeOK, BookedInv, Next, NEW r \in Requests, TakenTruly(r)
  PROVE  TakenTruly(r)'
<1>1. UNCHANGED call /\ Team(r) \subseteq Hosts
  BY ReasonsStay, CallFacts
<1>2. seen[r] \subseteq seen'[r]
  BY StepsWithoutReading DEF CoordinatorTypeOK, ReadLocks, ReadHolds, ReadHosts, Found
<1> QED
  BY <1>1, <1>2, ReasonStays DEF TakenTruly, Team, Against

LEMMA TakenIsForReal ==
  ASSUME CoordinatorTypeOK, NEW r \in Requests, TakenTruly(r)
  PROVE  \/ TakenForReal(r)
         \/ \E o \in Requests \ {r} : call[o].hold /\ Team(o) \cap Team(r) # {}
                                      /\ Footprint(call[o]) \cap Footprint(call[r]) # {}
<1>1. ASSUME NEW h \in Team(r), BookedFor(r, h)
      PROVE  TakenForReal(r)
  <2>1. Claim(r, {h}) \subseteq Claim(r, Team(r))
    BY DEF Claim
  <2> QED
    BY <1>1, <2>1 DEF BookedFor, TakenForReal
<1>2. ASSUME NEW h \in Team(r), HeldFor(r, h)
      PROVE  \E o \in Requests \ {r} : call[o].hold /\ Team(o) \cap Team(r) # {}
                                       /\ Footprint(call[o]) \cap Footprint(call[r]) # {}
  BY <1>2 DEF HeldFor
<1> QED
  BY <1>1, <1>2 DEF TakenTruly, TakenForReal

TakenInv == \A r \in Requests : outcome[r] = "slot_taken" => TakenTruly(r)

\* prepareBooking says "taken" only for a host against whom something was read.
LEMMA RefusedForReal ==
  ASSUME CoordinatorTypeOK, NEW r \in Requests, Refusal(r, "slot_taken")
  PROVE  \E h \in Team(r) : Against(r, h) \cap {"taken", "away"} # {}
<1>1. CASE Kind(r) = "round_robin"
  <2>1. Present(r) # {} /\ \A h \in Present(r) : Reason(r, h) = "slot_taken"
    BY <1>1 DEF Refusal
  <2> QED
    BY <2>1 DEF Present, Reason
<1>2. CASE Kind(r) # "round_robin"
  <2>1. PICK i \in DOMAIN EventType[call[r].et].roster :
          "slot_taken" = IF Present(r) = Team(r) THEN Reason(r, EventType[call[r].et].roster[i]) ELSE "outside"
    BY <1>2 DEF Refusal
  <2>2. EventType[call[r].et].roster[i] \in Team(r)
    BY DEF Team, Roster
  <2> QED
    BY <2>1, <2>2 DEF Reason
<1> QED
  BY <1>1, <1>2

LEMMA TakenStep ==
  ASSUME CoordinatorTypeOK, StoreIInv, BookedInv, CallInv, SeenInv, TakenInv, Next
  PROVE  TakenInv'
<1> SUFFICES ASSUME NEW r \in Requests, outcome'[r] = "slot_taken"
             PROVE  TakenTruly(r)'
  BY DEF TakenInv
<1>1. CASE outcome[r] = "slot_taken"
  BY <1>1, TakenTrulyStays DEF TakenInv
<1>2. CASE outcome[r] # "slot_taken" /\ Prepare(r)
  <2>1. Refusal(r, "slot_taken")
    BY <1>2 DEF Prepare, Answer, CoordinatorTypeOK
  <2>2. TakenTruly(r)
    BY <2>1, RefusedForReal, CallFacts DEF TakenTruly, SeenInv, Against
  <2> QED
    BY <2>2, TakenTrulyStays
<1>3. CASE CommitLoses(r)
  <2>1. Conflict(Claim(r, chosen[r])) /\ pc[r] \in Before /\ chosen[r] \subseteq Team(r)
    BY <1>3 DEF CommitLoses, At, Before, Early, CallInv
  <2>2. TakenTruly(r)
    BY <2>1, LockIsSomebodys, CallFacts DEF TakenTruly
  <2> QED
    BY <2>2, TakenTrulyStays
<1> QED
  BY <1>1, <1>2, <1>3, StepsOfTaken

-----------------------------------------------------------------------------
(* Why somebody wins. *)

\* The calls between their reservation and their write.
Contenders == {r \in Requests : pc[r] \in Early}

\* The ways out of the race that are not about the others: a call that died or
\* failed, or was told that a host does not meet then.
Excused ==
  \E r \in Requests :
    \/ pc[r] = "dead"
    \/ pc[r] \in {"finally", "done"} /\ outcome[r] \in {"outside", "failed"}
    \/ \E h \in Team(r) : ~(Against(r, h) \subseteq {"taken"})

\* Until somebody books, a lease that outlives its holder's try block is that of
\* a call refused at a higher host: some contender got further than it.
LeaseBehind ==
  \A h \in Hosts : leases[h] # None /\ leases[h] \notin Contenders =>
    \E r \in Contenders : \E g \in acquired[r] : h < g

\* Once a call has won a key or needed none, somebody is in the race.
Entered ==
  \/ \E s \in Scopes : idem[s].by # None
  \/ \E r \in Requests : pc[r] \notin {"idle", "reserve", "prior"}
Contended == Entered => Contenders # {}

\* No guest of the scenario holds the slot.
NoHolds == \A r \in Requests : ~call[r].hold

Decided == Existing # {} \/ Excused

RaceInv ==
  /\ \A s \in Scopes : idem[s].live => idem[s].by # None
  /\ \A r \in Requests : pc[r] = "prior" => idem[Scope(r)].by # None
  /\ NoHolds => Decided \/ (LeaseBehind /\ Contended)

\* A row that was ever written names its writer.
LEMMA RowsNameTheirWriter ==
  ASSUME CoordinatorTypeOK, KeyInv, RaceInv, Next
  PROVE  /\ \A s \in Scopes : idem'[s].live => idem'[s].by # None
         /\ \A r \in Requests : pc'[r] = "prior" => idem'[Scope(r)].by # None
<1> USE DEF KeyInv, RaceInv, Key, Scope
<1>0. /\ UNCHANGED call
      /\ \A r \in Requests : Key(r) # None => Scope(r) \in Scopes
      /\ \A r \in Requests : pc[r] = "prior" => Key(r) # None
  BY StepsOfKeys, CallFacts DEF StageInv
<1>1. ASSUME NEW r \in Requests, Key(r) # None, NEW l \in BOOLEAN, NEW resp,
             idem' = [idem EXCEPT ![Scope(r)] = Row(r, l, resp)], NEW q \in Pcs \ {"prior"}, pc' = [pc EXCEPT ![r] = q]
      PROVE  /\ \A s \in Scopes : idem'[s].live => idem'[s].by # None
             /\ \A a \in Requests : pc'[a] = "prior" => idem'[Scope(a)].by # None
  <2>1. /\ \A s \in Scopes \ {Scope(r)} : idem'[s] = idem[s]
        /\ idem'[Scope(r)].by = r
    <3> HIDE DEF Key, Scope, KeyInv, RaceInv
    <3> QED
      BY <1>1, RowWritten
  <2>2. \A a \in Requests : pc'[a] = "prior" => pc[a] = "prior"
    BY <1>1 DEF CoordinatorTypeOK
  <2> QED
    BY <1>0, <2>1, <2>2, CoordinatorAssumption
<1>2. ASSUME UNCHANGED idem, \A a \in Requests : pc'[a] = "prior" => pc[a] = "prior" \/ (idem[Scope(a)].live /\ Key(a) # None)
      PROVE  /\ \A s \in Scopes : idem'[s].live => idem'[s].by # None
             /\ \A a \in Requests : pc'[a] = "prior" => idem'[Scope(a)].by # None
  BY <1>0, <1>2
<1>3. CASE Rests
  BY <1>2, <1>3 DEF Rests
<1>4. ASSUME NEW r \in Requests, MovesOn(r)
      PROVE  /\ UNCHANGED idem
             /\ \A a \in Requests : pc'[a] = "prior" => pc[a] = "prior" \/ (idem[Scope(a)].live /\ Key(a) # None)
  <2>1. PICK q \in Pcs : Leads(r, q) /\ pc' = [pc EXCEPT ![r] = q]
    BY <1>4 DEF MovesOn
  <2>2. q = "prior" => idem[Scope(r)].live /\ Key(r) # None
    BY <2>1 DEF Leads, Early, Late, StageInv
  <2> HIDE DEF KeyInv, RaceInv, Key, Scope
  <2>3. \A a \in Requests : pc'[a] = IF a = r THEN q ELSE pc[a]
    BY <2>1 DEF CoordinatorTypeOK
  <2> QED
    BY <1>4, <2>2, <2>3 DEF MovesOn
<1>5. ASSUME NEW r \in Requests, Reserve(r)
      PROVE  /\ \A s \in Scopes : idem'[s].live => idem'[s].by # None
             /\ \A a \in Requests : pc'[a] = "prior" => idem'[Scope(a)].by # None
  <2>1. Key(r) # None
    BY <1>5 DEF Reserve, At, StageInv
  <2>2. CASE idem[Scope(r)].live
    <3>1. UNCHANGED idem /\ pc' = [pc EXCEPT ![r] = "prior"]
      BY <1>5, <2>2 DEF Reserve, GoTo
    <3> HIDE DEF KeyInv, RaceInv, Key, Scope
    <3>2. \A a \in Requests : pc'[a] = IF a = r THEN "prior" ELSE pc[a]
      BY <3>1 DEF CoordinatorTypeOK
    <3> QED
      BY <1>2, <2>1, <2>2, <3>1, <3>2
  <2>3. CASE ~idem[Scope(r)].live
    <3>1. idem' = [idem EXCEPT ![Scope(r)] = Row(r, TRUE, None)] /\ pc' = [pc EXCEPT ![r] = Entry(r)]
      BY <1>5, <2>3 DEF Reserve, GoTo
    <3>2. Entry(r) \in Pcs \ {"prior"}
      BY DEF Entry, Pcs
    <3> HIDE DEF Key, Scope
    <3> QED
      BY <1>1, <2>1, <3>1, <3>2
  <2> QED
    BY <2>2, <2>3
<1>6. ASSUME NEW r \in Requests, ReadPrior(r) \/ Commits(r)
      PROVE  UNCHANGED idem /\ \A a \in Requests : pc'[a] = "prior" => pc[a] = "prior"
  BY <1>6 DEF ReadPrior, Commits, GoTo, Late, sharedVars, CoordinatorTypeOK
<1>7. ASSUME NEW r \in Requests, Settle(r)
      PROVE  /\ \A s \in Scopes : idem'[s].live => idem'[s].by # None
             /\ \A a \in Requests : pc'[a] = "prior" => idem'[Scope(a)].by # None
  <2>1. Key(r) # None /\ pc' = [pc EXCEPT ![r] = "effects"]
    BY <1>7 DEF Settle, At, GoTo, StageInv
  <2>2. UNCHANGED idem \/ idem' = [idem EXCEPT ![Scope(r)] = Row(r, TRUE, r)]
    BY <1>7 DEF Settle, Attempt
  <2> HIDE DEF Key, Scope
  <2> QED
    BY <1>1, <1>2, <2>1, <2>2 DEF Pcs, CoordinatorTypeOK
<1>8. ASSUME NEW r \in Requests, Closes(r)
      PROVE  /\ \A s \in Scopes : idem'[s].live => idem'[s].by # None
             /\ \A a \in Requests : pc'[a] = "prior" => idem'[Scope(a)].by # None
  <2> HIDE DEF Key, Scope
  <2> QED
    BY <1>1, <1>8 DEF Closes, CloseKey, Pcs
<1> QED
  BY <1>2, <1>3, <1>4, <1>5, <1>6, <1>7, <1>8, StepsOfKeys DEF KeyStep

\* A verdict, once given, is not taken back.
LEMMA StepsOfAnswers ==
  ASSUME CoordinatorTypeOK, Next
  PROVE  \/ UNCHANGED outcome
         \/ \E r \in Requests : \E w \in Outcomes :
              pc[r] \notin {"finally", "done", "dead"} /\ outcome' = [outcome EXCEPT ![r] = w]
<1>1. ASSUME NEW r \in Requests, Step(r)
      PROVE  \/ UNCHANGED outcome
             \/ \E w \in Outcomes :
                  pc[r] \notin {"finally", "done", "dead"} /\ outcome' = [outcome EXCEPT ![r] = w]
  <2> USE DEF At, Answer, Outcomes
  <2>1. CASE ReadPrior(r)
    BY <2>1 DEF ReadPrior
  <2>2. CASE AcquireLease(r)
    BY <2>2 DEF AcquireLease, Refuse
  <2>3. CASE Prepare(r) \/ CommitLoses(r)
    BY <2>3 DEF Prepare, CommitLoses
  <2>4. CASE Effects(r)
    BY <2>4 DEF Effects
  <2> QED
    BY <1>1, <2>1, <2>2, <2>3, <2>4 DEF Step, Start, Reserve, ReadLocks, ReadHolds, ReadHosts, CommitWins,
         RecordAssignment, ReleaseOwnHold, Settle, ReleaseLease, Finish
<1>2. ASSUME Environment
      PROVE  \/ UNCHANGED outcome
             \/ \E r \in Requests : \E w \in Outcomes :
                  pc[r] \notin {"finally", "done", "dead"} /\ outcome' = [outcome EXCEPT ![r] = w]
  BY <1>2 DEF Environment, Surroundings, Fail, AcquireUnacknowledged, CommitUnacknowledged, Crash, PlaceHold, HoldExpires,
       LeaseExpires, Prune, Cancel, At, Answer, Outcomes, localVars
<1> QED
  BY <1>1, <1>2 DEF Next

LEMMA DecidedStays ==
  ASSUME CoordinatorTypeOK, Next, Decided
  PROVE  Decided'
<1> USE DEF CoordinatorTypeOK
<1>0. UNCHANGED call
  BY StepsOfKeys
<1>1. ASSUME NEW b \in Existing
      PROVE  b \in Existing'
  <2>1. CASE NoBooking
    BY <2>1 DEF NoBooking, Existing
  <2>2. ASSUME NEW r \in Requests, CommitWins(r) \/ CommitUnacknowledged(r) \/ Cancel(r)
        PROVE  b \in Existing'
    BY <2>2, CoordinatorAssumption DEF CommitWins, CommitUnacknowledged, Cancel, CreateWithLocks, CancelWithLockRelease,
         Existing, StoreTypeOK
  <2> QED
    BY <2>1, <2>2, StepsWithoutBooking
<1>2. ASSUME NEW r \in Requests
      PROVE  /\ pc[r] = "dead" => pc'[r] = "dead"
             /\ pc[r] \in {"finally", "done"} => pc'[r] \in {"finally", "done", "dead"}
  <2> USE DEF At, GoTo
  <2>1. ASSUME NEW a \in Requests, MovesOn(a)
        PROVE  /\ pc[r] = "dead" => pc'[r] = "dead"
               /\ pc[r] \in {"finally", "done"} => pc'[r] \in {"finally", "done", "dead"}
    BY <2>1 DEF MovesOn, Leads, Early, Late, Started
  <2>2. ASSUME NEW a \in Requests, Reserve(a) \/ ReadPrior(a) \/ Commits(a) \/ Settle(a) \/ Closes(a)
        PROVE  /\ pc[r] = "dead" => pc'[r] = "dead"
               /\ pc[r] \in {"finally", "done"} => pc'[r] \in {"finally", "done", "dead"}
    BY <2>2 DEF Reserve, ReadPrior, Commits, Settle, Closes
  <2> QED
    BY <2>1, <2>2, StepsOfKeys DEF Rests, KeyStep
<1>3. ASSUME NEW r \in Requests, pc[r] \in {"finally", "done"}
      PROVE  outcome'[r] = outcome[r]
  BY <1>3, StepsOfAnswers
<1>4. ASSUME NEW r \in Requests
      PROVE  seen[r] \subseteq seen'[r]
  BY StepsWithoutReading DEF ReadLocks, ReadHolds, ReadHosts, Found
<1> QED
  BY <1>0, <1>1, <1>2, <1>3, <1>4 DEF Decided, Excused, Team, Against

\* What a step does to the race, other than the refusal of a lease.
RaceOn ==
  /\ Contenders \subseteq Contenders'
  /\ \A h \in Hosts : leases'[h] \in {None, leases[h]} \cup Contenders'
  /\ \A r \in Contenders : acquired[r] \subseteq acquired'[r]
  /\ Entered' => Entered \/ Contenders' # {}

LEMMA RaceGoesOn ==
  ASSUME CoordinatorTypeOK, RaceOn, LeaseBehind, Contended
  PROVE  LeaseBehind' /\ Contended'
<1>1. LeaseBehind'
  <2> SUFFICES ASSUME NEW h \in Hosts, leases'[h] # None, leases'[h] \notin Contenders'
               PROVE  \E r \in Contenders' : \E g \in acquired'[r] : h < g
    BY DEF LeaseBehind
  <2>1. leases[h] # None /\ leases[h] \notin Contenders
    BY DEF RaceOn
  <2>2. PICK r \in Contenders : \E g \in acquired[r] : h < g
    BY <2>1 DEF LeaseBehind
  <2> QED
    BY <2>2 DEF RaceOn
<1>2. Contended'
  BY DEF RaceOn, Contended
<1> QED
  BY <1>1, <1>2

\* A call refused at a host held only hosts below it; whoever has that lease,
\* or got past it, is still in the race.
LEMMA RefusalLeavesTheRaceOn ==
  ASSUME CoordinatorTypeOK, LeaseInv, LeaseBehind, NEW r \in Requests, pc[r] = "lease",
         NEW h \in NextLease(r), leases[h] \notin {None, r},
         pc' = [pc EXCEPT ![r] = "finally"], UNCHANGED <<leases, acquired>>
  PROVE  LeaseBehind' /\ Contended'
<1>0. /\ r \in Contenders /\ Contenders' = Contenders \ {r}
      /\ h \in Hosts /\ h \in Team(r) \ acquired[r] /\ leases[h] \in Requests \ {r}
      /\ \A g \in acquired[r] : g < h
      /\ Hosts \subseteq Nat
  BY CallFacts, CoordinatorAssumption DEF Contenders, Early, CoordinatorTypeOK, NextLease, LeaseInv
<1>1. PICK q \in Contenders \ {r} : \E g \in acquired[q] : h <= g
  <2>1. CASE leases[h] \in Contenders
    BY <1>0, <2>1 DEF LeaseInv, Contenders
  <2>2. CASE leases[h] \notin Contenders
    <3>1. PICK q \in Contenders : \E g \in acquired[q] : h < g
      BY <1>0, <2>2 DEF LeaseBehind
    <3>2. PICK g \in acquired[q] : h < g
      BY <3>1
    <3>3. g \in Nat
      BY <1>0 DEF Contenders, CoordinatorTypeOK
    <3>4. q # r
      BY <1>0, <3>2, <3>3
    <3> QED
      BY <1>0, <3>2, <3>3, <3>4
  <2> QED
    BY <2>1, <2>2
<1>2. acquired[q] \subseteq Nat /\ acquired[r] \subseteq Nat
  BY <1>0 DEF Contenders, CoordinatorTypeOK
<1>3. LeaseBehind'
  <2> SUFFICES ASSUME NEW f \in Hosts, leases[f] # None, leases[f] \notin Contenders'
               PROVE  \E a \in Contenders' : \E g \in acquired[a] : f < g
    BY DEF LeaseBehind
  <2>1. CASE leases[f] = r
    <3>1. f < h
      BY <1>0, <2>1 DEF LeaseInv, Contenders
    <3> QED
      BY <1>0, <1>1, <1>2, <3>1
  <2>2. CASE leases[f] # r
    <3>1. leases[f] \notin Contenders
      BY <1>0, <2>2
    <3>2. PICK a \in Contenders : \E g \in acquired[a] : f < g
      BY <3>1 DEF LeaseBehind
    <3>3. CASE a # r
      BY <1>0, <3>2, <3>3
    <3>4. CASE a = r
      <4>1. f < h
        BY <1>0, <1>2, <3>2, <3>4
      <4> QED
        BY <1>0, <1>1, <1>2, <4>1
    <3> QED
      BY <3>3, <3>4
  <2> QED
    BY <2>1, <2>2
<1>4. Contended'
  BY <1>0, <1>1 DEF Contended
<1> QED
  BY <1>3, <1>4

\* The re-check refuses a call, in a scenario without holds, only when somebody
\* has booked, or for a reason of its host's own.
LEMMA RefusalIsDecided ==
  ASSUME CoordinatorTypeOK, BookedInv, SeenInv, NoHolds, NEW r \in Requests, Refusal(r, "slot_taken")
  PROVE  Decided
<1>1. PICK h \in Team(r) : Against(r, h) \cap {"taken", "away"} # {}
  BY RefusedForReal
<1>2. CASE "away" \in Against(r, h)
  BY <1>2 DEF Decided, Excused
<1>3. CASE "taken" \in Against(r, h)
  <2>1. BookedFor(r, h)
    BY <1>3, CallFacts DEF SeenInv, Against, HeldFor, NoHolds
  <2>2. PICK b \in Requests : claim[b] # {}
    BY <2>1 DEF BookedFor
  <2> QED
    BY <2>2, CoordinatorAssumption DEF BookedInv, Existing, Decided
<1> QED
  BY <1>1, <1>2, <1>3

LEMMA StepsOfTheRace ==
  ASSUME CoordinatorTypeOK, StoreIInv, StageInv, BookedInv, SeenInv, RaceInv, NoHolds, ~Decided, Next
  PROVE  \/ RaceOn
         \/ Decided'
         \/ \E r \in Requests : /\ pc[r] = "lease"
                                /\ \E h \in NextLease(r) : leases[h] \notin {None, r}
                                /\ pc' = [pc EXCEPT ![r] = "finally"]
                                /\ UNCHANGED <<leases, acquired>>
<1> USE DEF CoordinatorTypeOK, At, GoTo
<1>1. /\ \A r \in Requests : ~committed[r]
      /\ \A b \in Ids : status[b] = "none"
      /\ slotLocks = {}
  <2>1. \A b \in Ids : status[b] = "none"
    BY DEF Decided, Existing
  <2> QED
    BY <2>1, CoordinatorAssumption DEF BookedInv, StoreIInv, LocksBelongToConfirmed, Confirmed
<1>2. \A r \in Requests : pc[r] \notin {"rotate", "unhold", "settle", "effects"}
  BY <1>1 DEF StageInv
\* A call that ends in a way that decides the race.
<1>3. ASSUME NEW r \in Requests, outcome' = [outcome EXCEPT ![r] = "outside"] \/ outcome' = [outcome EXCEPT ![r] = "failed"],
             pc' = [pc EXCEPT ![r] = "finally"]
      PROVE  Decided'
  BY <1>3 DEF Decided, Excused
\* A call that moves along, and takes no part or keeps its part in the race.
<1>4. ASSUME NEW r \in Requests, NEW q \in Pcs, pc' = [pc EXCEPT ![r] = q],
             pc[r] \in Early => q \in Early,
             pc[r] \in {"idle", "reserve", "prior"} => q \in Early \cup {"reserve", "prior"},
             \A h \in Hosts : leases'[h] \in {None, leases[h]} \cup Contenders',
             \A a \in Contenders : acquired[a] \subseteq acquired'[a],
             UNCHANGED idem \/ q \in Early \/ pc[r] = "finally"
      PROVE  RaceOn
  <2>1. Contenders \subseteq Contenders'
    BY <1>4 DEF Contenders
  <2>2. ASSUME Entered'
        PROVE  Entered \/ Contenders' # {}
    <3>1. CASE q \in Early
      BY <1>4, <3>1 DEF Contenders
    <3>2. CASE pc[r] = "finally"
      BY <3>2 DEF Entered
    <3>3. CASE UNCHANGED idem /\ q \notin Early
      BY <1>4, <2>2, <3>3 DEF Entered
    <3> QED
      BY <1>4, <3>1, <3>2, <3>3
  <2> QED
    BY <1>4, <2>1, <2>2 DEF RaceOn
<1>5. ASSUME NEW r \in Requests, Step(r)
      PROVE  \/ RaceOn
             \/ Decided'
             \/ /\ pc[r] = "lease"
                /\ \E h \in NextLease(r) : leases[h] \notin {None, r}
                /\ pc' = [pc EXCEPT ![r] = "finally"]
                /\ UNCHANGED <<leases, acquired>>
  <2> USE DEF Early, Pcs
  <2>1. CASE Start(r)
    BY <1>4, <2>1 DEF Start, Entry, sharedVars
  <2>2. CASE Reserve(r)
    <3>1. PICK q \in {"prior", "lease", "busy"} : pc' = [pc EXCEPT ![r] = q] /\ (UNCHANGED idem \/ q # "prior")
      BY <2>2 DEF Reserve, Entry
    <3> QED
      BY <1>4, <2>2, <3>1 DEF Reserve
  <2>3. CASE ReadPrior(r)
    <3>1. Entered
      BY <2>3, CallFacts DEF ReadPrior, RaceInv, StageInv, Entered
    <3> QED
      BY <2>3, <3>1 DEF ReadPrior, RaceOn, Contenders, sharedVars
  <2>4. CASE AcquireLease(r)
    <3>1. PICK h \in NextLease(r) :
          \/ /\ Grant(r, h)
             /\ acquired' = [acquired EXCEPT ![r] = @ \cup {h}]
             /\ GoTo(r, IF acquired'[r] = Team(r) THEN "busy" ELSE "lease")
          \/ Refuse(r, h)
      BY <2>4 DEF AcquireLease
    <3>2. pc[r] = "lease" /\ UNCHANGED idem
      BY <2>4 DEF AcquireLease
    <3>3. CASE Refuse(r, h)
      <4>1. leases[h] \notin {None, r} /\ pc' = [pc EXCEPT ![r] = "finally"] /\ UNCHANGED <<leases, acquired>>
        BY <3>3 DEF Refuse, Answer
      <4> QED
        BY <3>2, <4>1
    <3>4. CASE /\ Grant(r, h)
               /\ acquired' = [acquired EXCEPT ![r] = @ \cup {h}]
               /\ GoTo(r, IF acquired'[r] = Team(r) THEN "busy" ELSE "lease")
      <4>1. PICK q \in {"busy", "lease"} : pc' = [pc EXCEPT ![r] = q]
        BY <3>4
      <4>2. \A g \in Hosts : leases'[g] \in {None, leases[g]} \cup Contenders'
        BY <3>4, <4>1 DEF Grant, Contenders
      <4>3. \A a \in Contenders : acquired[a] \subseteq acquired'[a]
        BY <3>4 DEF Contenders
      <4> HIDE DEF CoordinatorTypeOK
      <4>4. RaceOn
        BY <1>4, <3>2, <4>1, <4>2, <4>3
      <4> QED
        BY <4>4
    <3> QED
      BY <3>1, <3>3, <3>4
  <2>5. CASE ReadLocks(r) \/ ReadHolds(r) \/ ReadHosts(r)
    BY <1>4, <2>5 DEF ReadLocks, ReadHolds, ReadHosts, sharedVars
  <2>6. CASE Prepare(r)
    <3>1. CASE \E H \in SUBSET Team(r) : Participants(r, H) /\ pc' = [pc EXCEPT ![r] = "commit"]
      BY <1>4, <2>6, <3>1 DEF Prepare, sharedVars
    <3>2. CASE Refusal(r, "slot_taken")
      BY <3>2, RefusalIsDecided
    <3>3. CASE Answer(r, "outside")
      BY <1>3, <3>3 DEF Answer
    <3> QED
      BY <2>6, <3>1, <3>2, <3>3 DEF Prepare
  <2>7. CASE CommitWins(r)
    BY <2>7, CoordinatorAssumption DEF CommitWins, CreateWithLocks, StoreTypeOK, Decided, Existing
  <2>8. ~CommitLoses(r)
    BY <1>1 DEF CommitLoses, Conflict
  <2>9. CASE ReleaseLease(r)
    <3>1. r \notin Contenders /\ UNCHANGED <<pc, idem>>
      BY <2>9 DEF ReleaseLease, Contenders
    <3>2. \A h \in Hosts : leases'[h] \in {None, leases[h]}
      BY <2>9 DEF ReleaseLease, Attempt
    <3>3. \A a \in Contenders : acquired'[a] = acquired[a]
      BY <2>9, <3>1 DEF ReleaseLease, Contenders
    <3> QED
      BY <3>1, <3>2, <3>3 DEF RaceOn, Contenders, Entered
  <2>10. CASE Finish(r)
    BY <1>4, <2>10 DEF Finish
  <2> QED
    BY <1>2, <1>5, <2>1, <2>2, <2>3, <2>4, <2>5, <2>6, <2>7, <2>8, <2>9, <2>10
       DEF Step, RecordAssignment, ReleaseOwnHold, Settle, Effects
<1>6. ASSUME Environment
      PROVE  RaceOn \/ Decided'
  <2>1. ASSUME NEW r \in Requests, Fail(r) \/ AcquireUnacknowledged(r)
        PROVE  Decided'
    BY <1>3, <2>1 DEF Fail, AcquireUnacknowledged, Answer
  <2>2. ASSUME NEW r \in Requests, CommitUnacknowledged(r)
        PROVE  Decided'
    BY <2>2, CoordinatorAssumption DEF CommitUnacknowledged, CreateWithLocks, StoreTypeOK, Decided, Existing
  <2>3. ASSUME NEW r \in Requests, Crash(r)
        PROVE  Decided'
    BY <2>3 DEF Crash, Decided, Excused
  <2>4. ASSUME NEW r \in Requests, PlaceHold(r) \/ HoldExpires(r)
        PROVE  RaceOn
    BY <2>4 DEF PlaceHold, HoldExpires, RaceOn, Contenders, Entered, localVars
  <2>5. ASSUME NEW h \in Hosts, LeaseExpires(h)
        PROVE  RaceOn
    BY <2>5 DEF LeaseExpires, RaceOn, Contenders, Entered, localVars
  <2>6. ASSUME NEW t \in Buckets, Prune(t)
        PROVE  RaceOn
    BY <2>6 DEF Prune, RaceOn, Contenders, Entered, localVars, sharedVars
  <2>7. ASSUME NEW b \in Requests, Cancel(b)
        PROVE  FALSE
    BY <1>1, <2>7 DEF Cancel, Confirmed
  <2> QED
    BY <1>6, <2>1, <2>2, <2>3, <2>4, <2>5, <2>6, <2>7 DEF Environment, Surroundings
<1> QED
  BY <1>5, <1>6 DEF Next

LEMMA RaceStep ==
  ASSUME CoordinatorTypeOK, StoreIInv, KeyInv, BookedInv, LeaseInv, SeenInv, RaceInv, Next
  PROVE  RaceInv'
<1>1. NoHolds' <=> NoHolds
  BY StepsOfKeys DEF NoHolds
<1>2. ASSUME NoHolds, ~Decided
      PROVE  Decided' \/ (LeaseBehind' /\ Contended')
  <2>1. LeaseBehind /\ Contended
    BY <1>2 DEF RaceInv
  <2>2. CASE RaceOn
    BY <2>1, <2>2, RaceGoesOn
  <2>3. ASSUME NEW r \in Requests, pc[r] = "lease", NEW h \in NextLease(r), leases[h] \notin {None, r},
               pc' = [pc EXCEPT ![r] = "finally"], UNCHANGED <<leases, acquired>>
        PROVE  LeaseBehind' /\ Contended'
    BY <2>1, <2>3, RefusalLeavesTheRaceOn
  <2> QED
    BY <1>2, <2>2, <2>3, StepsOfTheRace DEF KeyInv
<1>3. Decided => Decided'
  BY DecidedStays
<1>4. /\ \A s \in Scopes : idem'[s].live => idem'[s].by # None
      /\ \A r \in Requests : pc'[r] = "prior" => idem'[Scope(r)].by # None
  BY RowsNameTheirWriter
<1>5. UNCHANGED call
  BY StepsOfKeys
<1> QED
  BY <1>1, <1>2, <1>3, <1>4, <1>5 DEF RaceInv, Scope

-----------------------------------------------------------------------------
(* The theorems. *)

LEMMA InitIInv == Init => IInv
<1> SUFFICES ASSUME Init
             PROVE  IInv
  OBVIOUS
<1>1. CoordinatorTypeOK
  BY InitTypes
<1>2. CallInv
  BY DEF Init, CallInv, Started
<1>3. \A s \in Scopes : idem[s] = NoRow
  BY DEF Init
<1>4. \A r \in Requests : Key(r) # None => Scope(r) \in Scopes
  BY <1>1, CallFacts
<1>5. OwnerInv
  BY DEF Init, OwnerInv, Working
<1>6. StageInv
  BY <1>3, <1>4, CoordinatorAssumption DEF Init, StageInv, NoRow
<1>7. RowInv
  BY <1>3 DEF RowInv, NoRow
<1>8. ReplayTruthful
  BY DEF Init, ReplayTruthful
<1>9. ClosedInv
  BY <1>3 DEF ClosedInv, NoRow
<1> QED
  BY <1>1, <1>2, <1>5, <1>6, <1>7, <1>8, <1>9 DEF IInv, KeyInv

LEMMA StepIInv == IInv /\ [Next]_vars => IInv'
<1> SUFFICES ASSUME IInv, [Next]_vars
             PROVE  IInv'
  OBVIOUS
<1>1. CASE Next
  BY <1>1, TypeStep, CallStep, KeyStepKeeps DEF IInv, KeyInv
<1>2. CASE UNCHANGED vars
  BY <1>2 DEF IInv, CoordinatorTypeOK, StoreTypeOK, CallInv, KeyInv, OwnerInv, StageInv, RowInv,
       ReplayTruthful, ClosedInv, Started, Working, Key, Scope, Team, vars, storeVars,
       localVars, sharedVars
<1> QED
  BY <1>1, <1>2

\* The rest of what holds of every state, and needs IInv to.
WholeInv ==
  /\ IInv
  /\ StoreIInv
  /\ BookedInv /\ LeaseInv /\ HoldInv
  /\ SeenInv /\ TakenInv
  /\ RaceInv

LEMMA InitWhole == Init => WholeInv
<1> SUFFICES ASSUME Init
             PROVE  WholeInv
  OBVIOUS
<1>1. IInv /\ StoreIInv
  BY InitIInv, StoreInitIInv DEF Init
<1>2. BookedInv
  BY CoordinatorAssumption DEF Init, StoreInit, BookedInv
<1>3. LeaseInv
  <2>1. /\ \A h \in Hosts : leases[h] = None
        /\ \A r \in Requests : acquired[r] = {} /\ pc[r] = "idle"
    BY DEF Init
  <2> QED
    BY <2>1 DEF LeaseInv
<1>4. HoldInv /\ SeenInv /\ TakenInv
  BY DEF Init, HoldInv, SeenInv, TakenInv
<1>5. RaceInv
  <2>1. \A s \in Scopes : ~idem[s].live /\ idem[s].by = None
    BY DEF Init, NoRow
  <2>2. LeaseBehind /\ Contended
    BY <2>1 DEF Init, LeaseBehind, Contended, Entered
  <2> QED
    BY <2>1, <2>2 DEF Init, RaceInv
<1> QED
  BY <1>1, <1>2, <1>3, <1>4, <1>5 DEF WholeInv

LEMMA StepWhole == WholeInv /\ [Next]_vars => WholeInv'
<1> SUFFICES ASSUME WholeInv, [Next]_vars
             PROVE  WholeInv'
  OBVIOUS
<1>1. IInv'
  BY StepIInv DEF WholeInv
<1>2. CASE Next
  <2> USE <1>2 DEF WholeInv, IInv, KeyInv
  <2>1. StoreIInv'
    BY StoreUse, StoreNextIsAction, StoreStepIInv
  <2>2. BookedInv' /\ LeaseInv' /\ HoldInv'
    BY BookedStep, LeaseStep, HoldStep
  <2>3. SeenInv' /\ TakenInv'
    BY SeenStep, TakenStep
  <2> HIDE DEF KeyInv
  <2>4. RaceInv'
    BY RaceStep
  <2> QED
    BY <1>1, <2>1, <2>2, <2>3, <2>4
<1>3. CASE UNCHANGED vars
  <2> USE <1>3 DEF WholeInv, vars, storeVars, localVars, sharedVars
  <2>1. StoreIInv' /\ BookedInv'
    BY DEF StoreIInv, StoreTypeOK, ConfirmedHoldsLocks, LocksBelongToConfirmed, NoDoubleBooking, Confirmed, BookedInv
  <2>2. LeaseInv' /\ HoldInv'
    BY DEF LeaseInv, HoldInv, Team
  <2>3. SeenInv' /\ TakenInv'
    BY DEF SeenInv, TakenInv, TakenTruly, BookedFor, HeldFor, Claim, Team, Against
  <2>4. Decided' <=> Decided
    BY DEF Decided, Existing, Excused, Team, Against
  <2>5. (LeaseBehind' <=> LeaseBehind) /\ (Contended' <=> Contended) /\ (NoHolds' <=> NoHolds)
    BY DEF LeaseBehind, Contended, Contenders, Entered, NoHolds
  <2>6. RaceInv'
    BY <2>4, <2>5 DEF RaceInv, Scope
  <2> QED
    BY <1>1, <2>1, <2>2, <2>3, <2>6
<1> QED
  BY <1>2, <1>3

\* The inductive invariant of book() holds of every behaviour.
THEOREM CoordinatorInvariant == Spec => []IInv
  BY InitIInv, StepIInv, PTL DEF Spec

\* Every variable of the coordinator keeps its type.
THEOREM CoordinatorTypes == Spec => []CoordinatorTypeOK
<1>1. IInv => CoordinatorTypeOK
  BY DEF IInv
<1> QED
  BY CoordinatorInvariant, <1>1, PTL

\* Of the calls that share an idempotency key, however they interleave, fail,
\* crash or lose an answer, at most one gets past the write.
THEOREM KeyBooksOnce == Spec => []OneBookingPerKey
<1>1. IInv => OneBookingPerKey
  <2> SUFFICES ASSUME IInv, NEW a \in Requests, NEW b \in Requests, committed[a], committed[b],
                      Key(a) # None, Scope(a) = Scope(b)
               PROVE  a = b
    BY DEF OneBookingPerKey
  <2>1. Key(b) # None
    BY DEF Scope, Key
  <2> QED
    BY <2>1, OneOwner DEF IInv, KeyInv
<1> QED
  BY CoordinatorInvariant, <1>1, PTL

\* A replay names the booking that the same key made for the same time.
THEOREM ReplaysAreTruthful == Spec => []ReplayTruthful
<1>1. IInv => ReplayTruthful
  BY DEF IInv, KeyInv
<1> QED
  BY CoordinatorInvariant, <1>1, PTL

\* Whatever a call fails at, its key stays reserved for what it has booked and
\* replays nothing else; with nothing lost, the key is free again after a call
\* that booked nothing, and replayable after one that booked.
THEOREM KeysAreClosed == Spec => []KeyClosedTruly
<1>1. IInv => KeyClosedTruly
  BY DEF IInv, KeyInv, OwnerInv, RowInv, ClosedInv, KeyClosedTruly
<1> QED
  BY CoordinatorInvariant, <1>1, PTL

\* Everything the proofs below rest on.
THEOREM CoordinatorWhole == Spec => []WholeInv
  BY InitWhole, StepWhole, PTL DEF Spec

\* A call that ran to its end holds no lease, however it ended and whoever
\* refused it, unless its Worker was one of those that may fail.
THEOREM LeasesAreReturned == Spec => []LeasesReturned
<1>1. WholeInv => LeasesReturned
  <2> SUFFICES ASSUME LeaseInv, CoordinatorTypeOK, NEW h \in Hosts, leases[h] # None, pc[leases[h]] = "done"
               PROVE  leases[h] \in Faulty
    BY DEF WholeInv, IInv, LeasesReturned
  <2> QED
    BY DEF LeaseInv, CoordinatorTypeOK
<1> QED
  BY CoordinatorWhole, <1>1, PTL

\* No guest is told "taken" but for a booking, an event or a hold of somebody
\* else: never for the call's own lock rows or its guest's own hold.
THEOREM TakenIsTrueAlways == Spec => []TakenIsTrue
<1>1. WholeInv => TakenIsTrue
  BY TakenIsForReal DEF WholeInv, IInv, TakenInv, TakenIsTrue
<1> QED
  BY CoordinatorWhole, <1>1, PTL

\* Calls for the same time never refuse one another until nobody has it: when
\* all have run to their end without a fault and no host had a reason of its
\* own, somebody booked. (Two guests whose holds refuse each other can leave
\* the time to nobody, which is what run holds shows; so NoHolds is needed.)
THEOREM SomeoneAlwaysWins == Requests # {} /\ Spec => [](NoHolds => SomeoneWins)
<1>1. Requests # {} /\ WholeInv => (NoHolds => SomeoneWins)
  <2> SUFFICES ASSUME NEW r \in Requests, WholeInv, NoHolds, \A a \in Requests : pc[a] = "done",
                      \A a \in Requests : outcome[a] \in {"ok", "replayed", "policy", "lease_failed", "slot_taken"},
                      \A a \in Requests : \A h \in Team(a) : Against(a, h) \subseteq {"taken"}
               PROVE  Existing # {}
    BY DEF SomeoneWins
  <2>1. ~Excused
    BY DEF Excused
  <2>2. Contenders = {} /\ Entered
    BY DEF Contenders, Early, Entered
  <2> QED
    BY <2>1, <2>2 DEF WholeInv, RaceInv, Decided, Contended
<1>2. SUFFICES ASSUME Requests # {}
               PROVE  Spec => [](NoHolds => SomeoneWins)
  OBVIOUS
<1>3. WholeInv => (NoHolds => SomeoneWins)
  BY <1>1, <1>2
<1> QED
  BY CoordinatorWhole, <1>3, PTL

\* book(), the guests' holds, the cancellations and the cron use the two tables
\* only as module BookingStore allows.
THEOREM CoordinatorUsesTheStore == Spec => StoreSpec
<1>1. Init => StoreInit
  BY DEF Init
<1>2. IInv /\ [Next]_vars => [StoreNext]_storeVars
  <2>1. CASE UNCHANGED vars
    BY <2>1 DEF vars
  <2> QED
    BY <2>1, StoreUse DEF IInv
<1> QED
  BY <1>1, <1>2, CoordinatorInvariant, PTL DEF Spec, StoreSpec

\* So no interleaving of calls of book() double-books a host, and the tables as
\* book() uses them keep the promise of module Calendar.
THEOREM BookNeverDoubleBooks == Spec => []NoDoubleBooking /\ CalendarKept
  BY CoordinatorUsesTheStore, NeverDoubleBooked, StoreKeepsThePromise, PTL
=============================================================================
