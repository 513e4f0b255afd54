--------------------------- MODULE LifecycleProofs ---------------------------
(***************************************************************************)
(* For any bookings, moves and cancels, however the handlers interleave    *)
(* with each other, with book() and with the cron, and whatever fails:     *)
(* the routes use the two tables as module BookingStore allows, so nothing *)
(* is booked twice; and, as long as no other call carries the              *)
(* Idempotency-Key of a move (OwnKeys), a meeting that is moved survives,  *)
(* one act wins it and its calendar is told.                               *)
(*                                                                         *)
(* None of the three is inductive. FateInv says of every booking that      *)
(* ended which act ended it and how far that act has come since: a moved   *)
(* one names the move, which is past its markRescheduled and can no longer *)
(* take its booking back; a cancelled one was cancelled by a cancel, or    *)
(* was taken back by a move that lost. That needs what book() returned to  *)
(* a move to be the move's own booking (ResultInv), which a replay of      *)
(* another call's key breaks: run retry shows what happens then.           *)
(***************************************************************************)
EXTENDS Lifecycle, CoordinatorProofs

\* No other call carries the Idempotency-Key of a move.
OwnKeys ==
  \A r \in Moves : \A q \in Requests \ {r} : Key(r) # None => Scope(q) # Scope(r)

\* What book() returned is a booking somebody made, the call's own but for a
\* replay.
ResultInv ==
  \A r \in Requests : result[r] # None =>
    /\ committed[result[r]]
    /\ result[r] = r \/ (Key(r) # None /\ Scope(result[r]) = Scope(r))

\* Where a handler is, and what that says of the call of book() it makes.
RouteInv ==
  /\ \A a \in Acts :
       /\ stage[a] # "ask" => Subject(a) \in Existing
       /\ told[a] # "nothing" <=> stage[a] = "ended"
       /\ told[a] = "moved" => a \in Moves
       /\ told[a] = "cancelled" => a \in Cancels
       /\ stage[a] \in {"undo", "unsync"} => a \in Moves
  /\ \A r \in Moves :
       /\ stage[r] = "ask" => pc[r] = "idle"
       /\ stage[r] # "act" => pc[r] \in {"idle", "done"}
       /\ pc[r] = "idle" => result[r] = None
       /\ stage[r] \in {"undo", "unsync", "drop"} \/ told[r] = "moved" => result[r] # None

LifeInv == LifecycleTypeOK /\ IInv /\ StoreIInv /\ BookedInv /\ ResultInv /\ RouteInv

\* What a move booked was taken back, because the meeting was no longer there
\* to be moved.
TakenBack(b) ==
  /\ b \in Moves /\ result[b] = b
  /\ stage[b] \in {"unsync", "dead", "ended"} /\ told[b] # "moved"
  /\ rescheduledTo[Original[b]] # b

EndInv ==
  \A b \in Requests :
    /\ rescheduledTo[b] # None <=> status[b] = "rescheduled"
    /\ status[b] = "rescheduled" =>
         LET n == rescheduledTo[b]
         IN  /\ n \in Moves /\ Original[n] = b /\ result[n] = n
             /\ stage[n] \in {"drop", "dead"} \/ told[n] = "moved"
    /\ status[b] = "cancelled" => CancelledOnPurpose(b) \/ TakenBack(b)

\* The acts that ended their subject and lived to say so.
Won(a) == stage[a] = "drop" \/ told[a] \in {"moved", "cancelled"}

WinInv ==
  \A a \in Acts : Won(a) =>
    /\ a \in Moves => status[Original[a]] = "rescheduled" /\ rescheduledTo[Original[a]] = a
    /\ a \in Cancels => status[Target[a]] = "cancelled"
    /\ \A o \in Acts \ {a} : Subject(o) = Subject(a) => ~Won(o)

Over(b) == status[b] \in {"cancelled", "rescheduled"}

QueueInv ==
  /\ \A b \in Requests : <<"delete", b>> \in jobs => Over(b)
  /\ \A r \in Moves : stage[r] = "unsync" => Over(r)
  /\ \A a \in Acts : told[a] \in {"moved", "cancelled"} /\ ~Unreliable(a) => <<"delete", Subject(a)>> \in jobs
  /\ \A r \in Moves : told[r] = "refused" /\ result[r] # None /\ ~Unreliable(r) => <<"delete", r>> \in jobs

FateInv == OwnKeys => EndInv /\ WinInv /\ QueueInv

-----------------------------------------------------------------------------
(* What a step of book(), or of its surroundings, does to the handlers.     *)

BookSide == (\E r \in Requests : BookStep(r)) \/ (Surroundings /\ UNCHANGED routeVars)

LEMMA BookSideIsNext == BookSide => Next /\ UNCHANGED routeVars
  BY DEF BookSide, BookStep, Next, Environment

\* book() of one call says nothing of another, and ends where it ends.
LEMMA StepIsOwn ==
  ASSUME CoordinatorTypeOK, NEW r \in Requests, Step(r)
  PROVE  /\ pc[r] \notin {"done", "dead"}
         /\ \A a \in Requests \ {r} : pc'[a] = pc[a] /\ result'[a] = result[a]
<1> USE DEF At, GoTo, Answer, CoordinatorTypeOK
<1>1. CASE Start(r) \/ Reserve(r)
  BY <1>1 DEF Start, Reserve
<1>2. CASE ReadPrior(r)
  BY <1>2 DEF ReadPrior
<1>3. CASE AcquireLease(r) \/ Prepare(r) \/ CommitLoses(r)
  BY <1>3 DEF AcquireLease, Refuse, Prepare, CommitLoses
<1>4. CASE ReadLocks(r) \/ ReadHolds(r) \/ ReadHosts(r)
  BY <1>4 DEF ReadLocks, ReadHolds, ReadHosts
<1>5. CASE CommitWins(r) \/ RecordAssignment(r) \/ ReleaseOwnHold(r) \/ Settle(r)
  BY <1>5 DEF CommitWins, RecordAssignment, ReleaseOwnHold, Settle
<1>6. CASE Effects(r)
  BY <1>6 DEF Effects
<1>7. CASE ReleaseLease(r) \/ Finish(r)
  BY <1>7 DEF ReleaseLease, Finish
<1> QED
  BY <1>1, <1>2, <1>3, <1>4, <1>5, <1>6, <1>7 DEF Step

LEMMA SurroundingsLeave ==
  ASSUME CoordinatorTypeOK, Surroundings
  PROVE  /\ UNCHANGED <<result, jobs>>
         /\ \A a \in Requests : pc'[a] = pc[a] \/ pc[a] \notin {"idle", "done", "dead"}
  BY DEF CoordinatorTypeOK, Surroundings, Fail, AcquireUnacknowledged, CommitUnacknowledged, Crash, PlaceHold, HoldExpires,
       LeaseExpires, Prune, At, GoTo, Answer, localVars, sharedVars

\* A move that is not waiting for book() is not changed by it.
LEMMA OthersWait ==
  ASSUME LifecycleTypeOK, RouteInv, BookSide, NEW r \in Moves, stage[r] # "act"
  PROVE  pc'[r] = pc[r] /\ result'[r] = result[r]
<1>1. r \in Requests /\ pc[r] \in {"idle", "done"}
  BY DEF RouteInv, Moves
<1>2. ASSUME NEW q \in Requests, BookStep(q)
      PROVE  pc'[r] = pc[r] /\ result'[r] = result[r]
  <2>1. q # r
    BY <1>1, <1>2, StepIsOwn DEF BookStep, At, LifecycleTypeOK
  <2> QED
    BY <1>1, <1>2, <2>1, StepIsOwn DEF BookStep, LifecycleTypeOK
<1>3. CASE Surroundings
  BY <1>1, <1>3, SurroundingsLeave DEF LifecycleTypeOK
<1> QED
  BY <1>2, <1>3 DEF BookSide

\* Between them they only make bookings, and send no deletes.
LEMMA BookSideMakes ==
  ASSUME LifecycleTypeOK, BookSide
  PROVE  /\ UNCHANGED <<call, rescheduledTo>>
         /\ \A b \in Ids : status'[b] = status[b] \/ (status[b] = "none" /\ status'[b] = "confirmed")
         /\ \A b \in Requests : <<"delete", b>> \in jobs' <=> <<"delete", b>> \in jobs
<1> USE DEF LifecycleTypeOK, CoordinatorTypeOK, StoreTypeOK
<1>1. UNCHANGED call
  BY BookSideIsNext, StepsOfKeys
<1>2. ASSUME NEW r \in Requests, Step(r)
      PROVE  /\ UNCHANGED storeVars \/ CreateWithLocks(r, Claim(r, chosen[r]))
             /\ UNCHANGED jobs \/ jobs' = jobs \cup {<<"create", r>>}
  <2>1. CASE Effects(r)
    BY <2>1 DEF Effects, Attempt
  <2> QED
    BY <1>2, <2>1 DEF Step, CommitWins, Start, Reserve, ReadPrior, AcquireLease, ReadLocks, ReadHolds, ReadHosts, Prepare,
         CommitLoses, RecordAssignment, ReleaseOwnHold, Settle, ReleaseLease, Finish, sharedVars
<1>3. CASE Surroundings
  <2>1. \/ UNCHANGED storeVars
        \/ \E r \in Requests : CreateWithLocks(r, Claim(r, chosen[r]))
        \/ \E t \in Buckets : PruneLocksBefore(t)
    BY <1>3 DEF Surroundings, Fail, AcquireUnacknowledged, CommitUnacknowledged, Crash, PlaceHold, HoldExpires, LeaseExpires, Prune
  <2>2. UNCHANGED rescheduledTo
        /\ \A b \in Ids : status'[b] = status[b] \/ (status[b] = "none" /\ status'[b] = "confirmed")
    BY <2>1 DEF storeVars, CreateWithLocks, PruneLocksBefore
  <2> QED
    BY <1>1, <1>3, <2>2, SurroundingsLeave
<1>4. ASSUME NEW r \in Requests, BookStep(r)
      PROVE  /\ UNCHANGED rescheduledTo
             /\ \A b \in Ids : status'[b] = status[b] \/ (status[b] = "none" /\ status'[b] = "confirmed")
             /\ \A b \in Requests : <<"delete", b>> \in jobs' <=> <<"delete", b>> \in jobs
  <2>1. Step(r)
    BY <1>4 DEF BookStep
  <2> QED
    BY <1>2, <2>1 DEF storeVars, CreateWithLocks
<1> QED
  BY <1>1, <1>3, <1>4 DEF BookSide

LEMMA StepsOfResults ==
  ASSUME Next
  PROVE  UNCHANGED result \/ \E r \in Requests : Effects(r) \/ ReadPrior(r)
  BY DEF Next, Step, Environment, Surroundings, Start, Reserve, AcquireLease, ReadLocks, ReadHolds, ReadHosts, Prepare,
       CommitWins, CommitLoses, RecordAssignment, ReleaseOwnHold, Settle, ReleaseLease, Finish, Fail, AcquireUnacknowledged,
       CommitUnacknowledged, Crash, PlaceHold, HoldExpires, LeaseExpires, Prune, Cancel, localVars

LEMMA IdleIsUntouched ==
  ASSUME CoordinatorTypeOK, BookSide, NEW r \in Requests, pc'[r] = "idle"
  PROVE  pc[r] = "idle" /\ result'[r] = result[r]
<1>1. pc[r] = "idle"
  <2> USE DEF CoordinatorTypeOK, At, GoTo
  <2>1. ASSUME NEW a \in Requests, MovesOn(a)
        PROVE  pc[r] = "idle"
    BY <2>1 DEF MovesOn, Leads, Early, Late
  <2>2. ASSUME NEW a \in Requests, Reserve(a) \/ ReadPrior(a)
        PROVE  pc[r] = "idle"
    BY <2>2 DEF Reserve, ReadPrior, Entry
  <2>3. ASSUME NEW a \in Requests, Commits(a) \/ Settle(a) \/ Closes(a)
        PROVE  pc[r] = "idle"
    BY <2>3 DEF Commits, Settle, Closes, Late
  <2> QED
    BY <2>1, <2>2, <2>3, BookSideIsNext, StepsOfKeys DEF Rests, KeyStep
<1>2. ASSUME NEW q \in Requests, Effects(q) \/ ReadPrior(q)
      PROVE  result'[r] = result[r]
  BY <1>1, <1>2 DEF Effects, ReadPrior, At, CoordinatorTypeOK
<1> QED
  BY <1>1, <1>2, BookSideIsNext, StepsOfResults

LEMMA ResultStep ==
  ASSUME CoordinatorTypeOK, KeyInv, BookedInv, ResultInv, Next
  PROVE  ResultInv'
<1>0. /\ UNCHANGED call
      /\ \A r \in Requests : committed[r] => committed'[r]
  BY ReasonsStay
<1>1. SUFFICES ASSUME NEW r \in Requests, result'[r] # None, result'[r] # result[r]
               PROVE  /\ result'[r] \in Requests /\ committed[result'[r]]
                      /\ result'[r] = r \/ (Key(r) # None /\ Scope(result'[r]) = Scope(r))
  BY <1>0 DEF ResultInv, CoordinatorTypeOK, Key, Scope
<1>2. ASSUME NEW a \in Requests \ {r}, Effects(a) \/ ReadPrior(a)
      PROVE  FALSE
  BY <1>1, <1>2 DEF Effects, ReadPrior, CoordinatorTypeOK
<1>3. CASE Effects(r)
  BY <1>1, <1>3 DEF Effects, At, CoordinatorTypeOK, KeyInv, StageInv
<1>4. CASE ReadPrior(r)
  <2>1. /\ Key(r) # None /\ Scope(r) \in Scopes
        /\ result'[r] = idem[Scope(r)].response
    BY <1>1, <1>4, CallFacts DEF ReadPrior, At, CoordinatorTypeOK, KeyInv, StageInv
  <2>2. /\ result'[r] = idem[Scope(r)].by /\ committed[result'[r]]
        /\ Scope(result'[r]) = Scope(r)
    BY <1>1, <2>1 DEF KeyInv, RowInv
  <2>3. result'[r] \in Requests
    BY <1>1, <2>1 DEF CoordinatorTypeOK, IdemRow
  <2> QED
    BY <2>1, <2>2, <2>3
<1> QED
  BY <1>1, <1>2, <1>3, <1>4, StepsOfResults

-----------------------------------------------------------------------------
(* LifeInv is kept, and with it the legal use of the store.                 *)

LEMMA ActFacts ==
  ASSUME NEW a \in Acts
  PROVE  /\ a \in Moves => a \in Requests /\ a \notin Cancels /\ Subject(a) = Original[a] /\ Original[a] \in Requests
         /\ a \in Cancels => a \notin Moves /\ Subject(a) = Target[a] /\ Target[a] \in Requests
         /\ Subject(a) \in Requests /\ Subject(a) \in Ids
         /\ a \in Moves \/ a \in Cancels
  BY LifecycleAssumption, CoordinatorAssumption DEF Acts, Moves, Subject

LEMMA ResultExists ==
  ASSUME LifeInv, NEW r \in Moves, result[r] # None
  PROVE  result[r] \in Requests /\ result[r] \in Existing
  BY CoordinatorAssumption DEF LifeInv, ResultInv, BookedInv, Existing, Moves, LifecycleTypeOK, CoordinatorTypeOK

\* What the steps of the handlers themselves have in common.
HandlerSide ==
  /\ UNCHANGED <<localVars, leases, idem, lastAssigned, holds, claim, cutoff>>
  /\ [StoreNext]_storeVars
  /\ \A b \in Ids : status'[b] = "none" <=> status[b] = "none"
  /\ \A j \in jobs' : j \in jobs \/ j \in {"delete"} \X Requests

LEMMA StepsOfHandlers ==
  ASSUME LifeInv, NEW a \in Acts, ActStep(a) \/ Abandon(a)
  PROVE  HandlerSide
<1> USE DEF HandlerSide
<1>0. LifecycleTypeOK /\ RouteInv
  BY DEF LifeInv
<1>1. CASE Look(a) \/ Abandon(a)
  BY <1>1 DEF Look, Abandon, vars, sharedVars, storeVars
<1>2. ASSUME a \in Moves, NotBooked(a)
      PROVE  HandlerSide
  BY <1>2 DEF NotBooked, vars, sharedVars, storeVars
<1>3. ASSUME a \in Moves, MarkOld(a)
      PROVE  HandlerSide
  <2>1. Original[a] \in Existing /\ result[a] \in Existing
    BY <1>0, <1>3, ActFacts, ResultExists DEF MarkOld, RouteInv
  <2>2. StoreNext
    BY <1>3, <2>1 DEF MarkOld, StoreNext
  <2> QED
    BY <1>0, <1>3, <2>2 DEF MarkOld, MarkRescheduled, Confirmed, sharedVars, LifecycleTypeOK, CoordinatorTypeOK, StoreTypeOK
<1>4. ASSUME a \in Moves, TakeBack(a)
      PROVE  HandlerSide
  <2>1. result[a] \in Existing
    BY <1>0, <1>4, ActFacts, ResultExists DEF TakeBack, RouteInv
  <2>2. StoreNext
    BY <1>4, <2>1 DEF TakeBack, StoreNext
  <2> QED
    BY <1>0, <1>4, <2>2 DEF TakeBack, CancelWithLockRelease, Confirmed, sharedVars, LifecycleTypeOK, CoordinatorTypeOK, StoreTypeOK
<1>5. ASSUME a \in Cancels, CancelNow(a)
      PROVE  HandlerSide
  <2>1. Target[a] \in Existing
    BY <1>0, <1>5, ActFacts DEF CancelNow, RouteInv
  <2>2. StoreNext
    BY <1>5, <2>1 DEF CancelNow, StoreNext
  <2> QED
    BY <1>0, <1>5, <2>2 DEF CancelNow, CancelWithLockRelease, Confirmed, sharedVars, LifecycleTypeOK, CoordinatorTypeOK, StoreTypeOK
<1>6. ASSUME NEW b \in Requests, Enqueue(a, b)
      PROVE  HandlerSide
  BY <1>6 DEF Enqueue, storeVars
<1>7. CASE Drop(a)
  BY <1>6, <1>7, ActFacts DEF Drop
<1>8. ASSUME a \in Moves, Unsync(a)
      PROVE  HandlerSide
  <2>1. result[a] \in Requests
    BY <1>0, <1>8, ActFacts, ResultExists DEF Unsync, RouteInv
  <2> QED
    BY <1>6, <1>8, <2>1 DEF Unsync
<1> QED
  BY <1>1, <1>2, <1>3, <1>4, <1>5, <1>7, <1>8 DEF ActStep

LEMMA HandlersKeep ==
  ASSUME LifeInv, HandlerSide
  PROVE  /\ CoordinatorTypeOK' /\ IInv' /\ StoreIInv'
         /\ BookedInv' /\ ResultInv'
<1> USE DEF LifeInv, LifecycleTypeOK, HandlerSide, localVars
<1>1. StoreIInv'
  BY StoreNextIsAction, StoreStepIInv
<1>2. CoordinatorTypeOK'
  <2>1. StoreTypeOK'
    BY <1>1 DEF StoreIInv
  <2>2. jobs' \subseteq {"create", "update", "delete"} \X Requests
    BY DEF CoordinatorTypeOK
  <2> QED
    BY <2>1, <2>2 DEF CoordinatorTypeOK
<1>3. IInv'
  BY <1>2 DEF IInv, CallInv, KeyInv, OwnerInv, StageInv, RowInv, ReplayTruthful, ClosedInv,
       Started, Working, Key, Scope, Team
<1>4. BookedInv'
  BY CoordinatorAssumption DEF BookedInv
<1>5. ResultInv'
  BY DEF ResultInv, Key, Scope
<1> QED
  BY <1>1, <1>2, <1>3, <1>4, <1>5

\* No row of bookings ever goes away.
LEMMA BookingsStay ==
  ASSUME LifecycleTypeOK, HandlerSide \/ BookSide
  PROVE  \A b \in Ids : b \in Existing => b \in Existing'
  BY BookSideMakes DEF HandlerSide, Existing

\* A step of a handler moves that handler only.
Handles(a) ==
  /\ UNCHANGED <<pc, result>>
  /\ \/ stage[a] = "ask" /\ Subject(a) \in Existing /\ stage'[a] = "act" /\ UNCHANGED told
     \/ stage[a] = "ask" /\ Subject(a) \in Existing /\ stage'[a] = "ended" /\ told'[a] = "refused"
     \/ stage[a] = "act" /\ a \in Moves /\ pc[a] = "done" /\ result[a] = None /\ stage'[a] = "ended" /\ told'[a] = "refused"
     \/ stage[a] = "act" /\ a \in Moves /\ pc[a] = "done" /\ result[a] # None /\ stage'[a] \in {"drop", "undo"} /\ UNCHANGED told
     \/ stage[a] = "act" /\ a \in Cancels /\ stage'[a] = "drop" /\ UNCHANGED told
     \/ stage[a] = "act" /\ a \in Cancels /\ stage'[a] = "ended" /\ told'[a] = "refused"
     \/ stage[a] = "undo" /\ stage'[a] = "unsync" /\ UNCHANGED told
     \/ stage[a] = "unsync" /\ stage'[a] = "ended" /\ told'[a] = "refused"
     \/ stage[a] = "drop" /\ stage'[a] = "ended" /\ told'[a] = (IF a \in Moves THEN "moved" ELSE "cancelled")
     \/ /\ stage[a] \in {"act", "undo", "drop", "unsync"} /\ stage'[a] = "dead" /\ UNCHANGED told
        /\ a \in Moves /\ stage[a] = "act" => pc[a] \in {"idle", "done"}
  /\ \E there \in {"act", "undo", "unsync", "drop", "ended", "dead"} : stage' = [stage EXCEPT ![a] = there]
  /\ \E what \in {"refused", "moved", "cancelled"} : UNCHANGED told \/ told' = [told EXCEPT ![a] = what]

LEMMA StepsHandle ==
  ASSUME LifecycleTypeOK, NEW a \in Acts, ActStep(a) \/ Abandon(a)
  PROVE  Handles(a)
<1> USE DEF Handles, To, Tell, At, LifecycleTypeOK, localVars
<1>1. CASE Look(a)
  BY <1>1 DEF Look, vars
<1>2. CASE Abandon(a)
  BY <1>2 DEF Abandon, vars
<1>3. CASE a \in Moves /\ NotBooked(a)
  BY <1>3 DEF NotBooked, vars
<1>4. CASE a \in Moves /\ MarkOld(a)
  BY <1>4 DEF MarkOld
<1>5. CASE a \in Moves /\ TakeBack(a)
  BY <1>5 DEF TakeBack
<1>6. CASE a \in Moves /\ Unsync(a)
  BY <1>6 DEF Unsync, Enqueue
<1>7. CASE a \in Cancels /\ CancelNow(a)
  BY <1>7 DEF CancelNow
<1>8. CASE Drop(a)
  BY <1>8 DEF Drop, Enqueue
<1> QED
  BY <1>1, <1>2, <1>3, <1>4, <1>5, <1>6, <1>7, <1>8 DEF ActStep

\* Every step is of one side or the other.
LEMMA TwoSides ==
  ASSUME LifeInv, LifeNext
  PROVE  \/ BookSide /\ UNCHANGED routeVars
         \/ HandlerSide /\ \E a \in Acts : (ActStep(a) \/ Abandon(a)) /\ Handles(a)
<1>1. ASSUME NEW a \in Acts, ActStep(a) \/ Abandon(a)
      PROVE  HandlerSide /\ Handles(a)
  BY <1>1, StepsOfHandlers, StepsHandle DEF LifeInv
<1> QED
  BY <1>1, BookSideIsNext DEF LifeNext, BookSide

LEMMA RouteStep ==
  ASSUME LifeInv, LifeNext
  PROVE  RouteInv'
<1> USE DEF LifeInv
<1>1. CASE BookSide /\ UNCHANGED routeVars
  <2>1. \A a \in Acts : stage[a] # "ask" => Subject(a) \in Existing'
    BY <1>1, BookingsStay, ActFacts DEF RouteInv
  <2>2. ASSUME NEW r \in Moves
        PROVE  /\ stage[r] = "ask" => pc'[r] = "idle"
               /\ stage[r] # "act" => pc'[r] \in {"idle", "done"}
               /\ pc'[r] = "idle" => result'[r] = None
               /\ stage[r] \in {"undo", "unsync", "drop"} \/ told[r] = "moved" => result'[r] # None
    <3>1. r \in Acts /\ r \in Requests
      BY DEF Acts, Moves
    <3>2. CASE stage[r] # "act"
      BY <1>1, <3>1, <3>2, OthersWait DEF RouteInv
    <3>3. CASE stage[r] = "act"
      <4>1. told[r] # "moved"
        BY <3>1, <3>3 DEF RouteInv
      <4>2. pc'[r] = "idle" => pc[r] = "idle" /\ result'[r] = result[r]
        BY <1>1, <3>1, IdleIsUntouched DEF LifecycleTypeOK
      <4> QED
        BY <3>3, <4>1, <4>2 DEF RouteInv
    <3> QED
      BY <3>2, <3>3
  <2> QED
    BY <1>1, <2>1, <2>2 DEF RouteInv, routeVars, Subject
<1>2. ASSUME NEW a \in Acts, Handles(a), HandlerSide
      PROVE  RouteInv'
  <2>1. ASSUME NEW x \in Acts
        PROVE  stage'[x] # "ask" => Subject(x) \in Existing'
    <3>1. stage'[x] # "ask" => Subject(x) \in Existing
      BY <1>2 DEF Handles, RouteInv, LifecycleTypeOK
    <3> QED
      BY <1>2, <3>1, BookingsStay, ActFacts
  <2>2. ASSUME NEW x \in Acts, x # a
        PROVE  stage'[x] = stage[x] /\ told'[x] = told[x]
    BY <1>2, <2>2 DEF Handles, LifecycleTypeOK
  <2>3. /\ told'[a] # "nothing" <=> stage'[a] = "ended"
        /\ told'[a] = "moved" => a \in Moves
        /\ told'[a] = "cancelled" => a \in Cancels
        /\ stage'[a] \in {"undo", "unsync"} => a \in Moves
    <3>1. /\ told[a] # "nothing" <=> stage[a] = "ended"
          /\ told[a] = "moved" => a \in Moves
          /\ told[a] = "cancelled" => a \in Cancels
          /\ stage[a] \in {"undo", "unsync"} => a \in Moves
      BY <1>2 DEF RouteInv
    <3>2. a \in Moves \/ a \in Cancels
      BY ActFacts
    <3> HIDE DEF LifeInv
    <3> QED
      BY <1>2, <3>1, <3>2 DEF Handles
  <2>4. a \in Moves =>
          /\ stage'[a] = "ask" => pc[a] = "idle"
          /\ stage'[a] # "act" => pc[a] \in {"idle", "done"}
          /\ stage'[a] \in {"undo", "unsync", "drop"} \/ told'[a] = "moved" => result[a] # None
    <3>1. a \in Moves =>
            /\ stage[a] = "ask" => pc[a] = "idle"
            /\ stage[a] # "act" => pc[a] \in {"idle", "done"}
            /\ stage[a] \in {"undo", "unsync", "drop"} \/ told[a] = "moved" => result[a] # None
      BY DEF RouteInv
    <3>2. told[a] # "nothing" <=> stage[a] = "ended"
      BY <1>2 DEF RouteInv
    <3>3. ~(a \in Moves /\ a \in Cancels)
      BY ActFacts
    <3> HIDE DEF LifeInv
    <3> QED
      BY <1>2, <3>1, <3>2, <3>3 DEF Handles
  <2>5. UNCHANGED <<pc, result>> /\ Moves \subseteq Acts
    BY <1>2 DEF Handles, Acts
  <2>6. ASSUME NEW r \in Moves
        PROVE  /\ stage'[r] = "ask" => pc[r] = "idle"
               /\ stage'[r] # "act" => pc[r] \in {"idle", "done"}
               /\ pc[r] = "idle" => result[r] = None
               /\ stage'[r] \in {"undo", "unsync", "drop"} \/ told'[r] = "moved" => result[r] # None
    <3>1. CASE r # a
      BY <2>2, <2>5, <3>1 DEF RouteInv
    <3>2. CASE r = a
      BY <2>4, <3>2 DEF RouteInv
    <3> QED
      BY <3>1, <3>2
  <2>7. ASSUME NEW x \in Acts
        PROVE  /\ told'[x] # "nothing" <=> stage'[x] = "ended"
               /\ told'[x] = "moved" => x \in Moves
               /\ told'[x] = "cancelled" => x \in Cancels
               /\ stage'[x] \in {"undo", "unsync"} => x \in Moves
    BY <2>2, <2>3 DEF RouteInv
  <2> QED
    BY <2>1, <2>5, <2>6, <2>7 DEF RouteInv, Subject
<1> QED
  BY <1>1, <1>2, TwoSides

LEMMA LifeStep ==
  ASSUME LifeInv, LifeNext
  PROVE  LifeInv'
<1>1. RouteInv'
  BY RouteStep
<1>2. CASE BookSide /\ UNCHANGED routeVars
  <2> USE <1>2, BookSideIsNext DEF LifeInv
  <2>1. IInv'
    BY StepIInv
  <2>2. StoreIInv'
    BY StoreUse, StoreNextIsAction, StoreStepIInv DEF IInv
  <2>3. BookedInv'
    BY BookedStep DEF IInv, KeyInv
  <2>4. ResultInv'
    BY ResultStep DEF IInv
  <2>5. LifecycleTypeOK'
    BY <2>1 DEF LifecycleTypeOK, IInv, routeVars
  <2> QED
    BY <1>1, <2>1, <2>2, <2>3, <2>4, <2>5
<1>3. ASSUME NEW a \in Acts, HandlerSide, Handles(a)
      PROVE  LifeInv'
  <2>1. CoordinatorTypeOK' /\ IInv' /\ StoreIInv' /\ BookedInv' /\ ResultInv'
    BY <1>3, HandlersKeep
  <2>2. LifecycleTypeOK'
    BY <1>3, <2>1 DEF LifeInv, LifecycleTypeOK, Handles
  <2> QED
    BY <1>1, <2>1, <2>2 DEF LifeInv
<1> QED
  BY <1>2, <1>3, TwoSides

-----------------------------------------------------------------------------
(* FateInv is kept.                                                         *)

FateFacts == EndInv /\ WinInv /\ QueueInv

\* A move whose key is its own is given its own booking.
LEMMA OwnResult ==
  ASSUME LifeInv, OwnKeys, NEW r \in Moves, result[r] # None
  PROVE  result[r] = r /\ status[r] # "none"
  BY ResultExists DEF LifeInv, ResultInv, OwnKeys, Existing, Moves

LEMMA FateBook ==
  ASSUME LifeInv, FateFacts, BookSide, UNCHANGED routeVars
  PROVE  FateFacts'
<1> USE DEF FateFacts, routeVars
<1>0. /\ Requests \subseteq Ids /\ Moves \subseteq Acts /\ Moves \subseteq Requests
      /\ LifecycleTypeOK /\ RouteInv
  BY CoordinatorAssumption DEF Acts, Moves, LifeInv
<1>1. /\ UNCHANGED <<rescheduledTo, stage, told>>
      /\ \A b \in Requests : status'[b] = status[b] \/ (status[b] = "none" /\ status'[b] = "confirmed")
      /\ \A b \in Requests : <<"delete", b>> \in jobs' <=> <<"delete", b>> \in jobs
  BY <1>0, BookSideMakes
<1>2. \A r \in Moves : stage[r] # "act" => result'[r] = result[r]
  BY <1>0, OthersWait
<1>3. \A r \in Moves : told[r] \in {"moved", "refused"} => stage[r] = "ended"
  BY <1>0 DEF RouteInv
<1>4. EndInv'
  <2> SUFFICES ASSUME NEW b \in Requests
               PROVE  /\ rescheduledTo[b] # None <=> status'[b] = "rescheduled"
                      /\ status'[b] = "rescheduled" =>
                           /\ rescheduledTo[b] \in Moves /\ Original[rescheduledTo[b]] = b
                           /\ result'[rescheduledTo[b]] = rescheduledTo[b]
                           /\ stage[rescheduledTo[b]] \in {"drop", "dead"} \/ told[rescheduledTo[b]] = "moved"
                      /\ status'[b] = "cancelled" => CancelledOnPurpose(b)' \/ TakenBack(b)'
    BY <1>1 DEF EndInv
  <2>1. rescheduledTo[b] # None <=> status'[b] = "rescheduled"
    BY <1>1 DEF EndInv
  <2>2. ASSUME status'[b] = "rescheduled"
        PROVE  /\ rescheduledTo[b] \in Moves /\ Original[rescheduledTo[b]] = b
               /\ result'[rescheduledTo[b]] = rescheduledTo[b]
               /\ stage[rescheduledTo[b]] \in {"drop", "dead"} \/ told[rescheduledTo[b]] = "moved"
    BY <1>1, <1>2, <1>3, <2>2 DEF EndInv
  <2>3. ASSUME status'[b] = "cancelled"
        PROVE  CancelledOnPurpose(b)' \/ TakenBack(b)'
    BY <1>1, <1>2, <2>3 DEF EndInv, CancelledOnPurpose, TakenBack
  <2> QED
    BY <2>1, <2>2, <2>3
<1>5. WinInv'
  <2>1. \A a \in Acts : /\ a \in Moves => Original[a] \in Requests
                        /\ a \in Cancels => Target[a] \in Requests
    BY ActFacts
  <2> QED
    BY <1>1, <2>1 DEF WinInv, Won, Subject
<1>6. QueueInv'
  <2>1. \A b \in Requests : Over(b) => Over(b)'
    BY <1>1 DEF Over
  <2>2. \A a \in Acts : Subject(a) \in Requests
    BY ActFacts
  <2> QED
    BY <1>0, <1>1, <1>2, <1>3, <2>1, <2>2 DEF QueueInv, Subject
<1> QED
  BY <1>4, <1>5, <1>6

\* What the handlers' proofs have in common: of the acts, a alone changes.
LEMMA OneHandles ==
  ASSUME LifeInv, NEW a \in Acts, Handles(a), HandlerSide
  PROVE  /\ \A x \in Acts : x # a => stage'[x] = stage[x] /\ told'[x] = told[x]
         /\ Requests \subseteq Ids /\ Moves \subseteq Acts /\ Moves \subseteq Requests
         /\ UNCHANGED <<pc, result, call>>
         /\ told[a] = "nothing" \/ stage[a] = "ended"
         /\ \A r \in Moves : Original[r] \in Requests /\ Original[r] # r
         /\ \A c \in Cancels : Target[c] \in Requests /\ c \in Acts /\ c \notin Moves
<1>1. call \in Scenarios
  BY DEF LifeInv, LifecycleTypeOK, CoordinatorTypeOK
<1> QED
  BY <1>1, LifecycleAssumption, CoordinatorAssumption DEF LifeInv, LifecycleTypeOK, RouteInv, Handles, HandlerSide, localVars, Acts, Moves

\* A handler that only notes what it read, or stops there, ends nothing.
LEMMA FateNotes ==
  ASSUME LifeInv, FateFacts, NEW a \in Acts, Handles(a), HandlerSide, UNCHANGED <<status, rescheduledTo, jobs>>,
         Won(a)' => Won(a), stage[a] \in {"drop", "dead"} => stage'[a] \in {"drop", "dead"}, told[a] = "nothing",
         stage[a] = "unsync" => stage'[a] = "dead",
         stage'[a] # "unsync",
         told'[a] # "nothing" => told'[a] = "refused" /\ (a \in Moves => result[a] = None)
  PROVE  FateFacts'
<1> USE OneHandles DEF FateFacts
<1>1. EndInv'
  <2> SUFFICES ASSUME NEW b \in Requests
               PROVE  /\ rescheduledTo[b] # None <=> status[b] = "rescheduled"
                      /\ status[b] = "rescheduled" =>
                           /\ rescheduledTo[b] \in Moves /\ Original[rescheduledTo[b]] = b
                           /\ result[rescheduledTo[b]] = rescheduledTo[b]
                           /\ stage'[rescheduledTo[b]] \in {"drop", "dead"} \/ told'[rescheduledTo[b]] = "moved"
                      /\ status[b] = "cancelled" => CancelledOnPurpose(b)' \/ TakenBack(b)'
    BY DEF EndInv
  <2>1. CancelledOnPurpose(b) => CancelledOnPurpose(b)'
    BY DEF CancelledOnPurpose
  <2>2. TakenBack(b) => TakenBack(b)'
    BY DEF TakenBack, Handles
  <2> QED
    BY <2>1, <2>2 DEF EndInv
<1>2. WinInv'
  BY DEF WinInv, Won, Subject
<1>3. QueueInv'
  BY DEF QueueInv, Over, Subject, Unreliable
<1> QED
  BY <1>1, <1>2, <1>3

LEMMA FateMoved ==
  ASSUME LifeInv, FateFacts, OwnKeys, NEW a \in Moves, Handles(a), HandlerSide, MarkOld(a), Original[a] \in Confirmed
  PROVE  FateFacts'
<1> USE OneHandles DEF FateFacts
<1>0. a \in Acts
  BY DEF Acts
<1>1. /\ stage[a] = "act" /\ stage'[a] = "drop" /\ told'[a] = told[a] /\ told[a] = "nothing"
      /\ UNCHANGED jobs
  BY <1>0 DEF MarkOld, To, LifeInv, LifecycleTypeOK, sharedVars
<1>2. result[a] = a
  BY OwnResult DEF MarkOld
<1>3. /\ status' = [status EXCEPT ![Original[a]] = "rescheduled"]
      /\ rescheduledTo' = [rescheduledTo EXCEPT ![Original[a]] = a]
      /\ status[Original[a]] = "confirmed"
  BY <1>2 DEF MarkOld, MarkRescheduled, Confirmed
<1>4. /\ status'[Original[a]] = "rescheduled" /\ rescheduledTo'[Original[a]] = a
      /\ \A b \in Requests \ {Original[a]} : status'[b] = status[b] /\ rescheduledTo'[b] = rescheduledTo[b]
  BY <1>0, <1>3 DEF LifeInv, StoreIInv, StoreTypeOK
<1>5. a # None
  BY CoordinatorAssumption DEF Moves
<1>6. EndInv'
  <2> SUFFICES ASSUME NEW b \in Requests
               PROVE  /\ rescheduledTo'[b] # None <=> status'[b] = "rescheduled"
                      /\ status'[b] = "rescheduled" =>
                           /\ rescheduledTo'[b] \in Moves /\ Original[rescheduledTo'[b]] = b
                           /\ result[rescheduledTo'[b]] = rescheduledTo'[b]
                           /\ stage'[rescheduledTo'[b]] \in {"drop", "dead"} \/ told'[rescheduledTo'[b]] = "moved"
                      /\ status'[b] = "cancelled" => CancelledOnPurpose(b)' \/ TakenBack(b)'
    BY <1>0 DEF EndInv
  <2>1. CASE b = Original[a]
    BY <1>1, <1>2, <1>4, <1>5, <2>1
  <2>2. CASE b # Original[a]
    <3>1. CancelledOnPurpose(b) => CancelledOnPurpose(b)'
      BY <1>0, <1>4, <2>2 DEF CancelledOnPurpose
    <3>2. TakenBack(b) => TakenBack(b)'
      BY <1>0, <1>1, <1>4 DEF TakenBack
    <3> QED
      BY <1>0, <1>1, <1>4, <2>2, <3>1, <3>2 DEF EndInv
  <2> QED
    BY <2>1, <2>2
<1>7. WinInv'
  <2>1. \A x \in Acts : Won(x) => Subject(x) # Original[a]
    BY <1>3, ActFacts DEF WinInv
  <2>2. \A x \in Acts : x # a => (Won(x)' <=> Won(x))
    BY <1>0 DEF Won
  <2>3. Subject(a) = Original[a] /\ a \notin Cancels
    BY <1>0, ActFacts
  <2> SUFFICES ASSUME NEW x \in Acts, Won(x)'
               PROVE  /\ x \in Moves => status'[Original[x]] = "rescheduled" /\ rescheduledTo'[Original[x]] = x
                      /\ x \in Cancels => status'[Target[x]] = "cancelled"
                      /\ \A o \in Acts \ {x} : Subject(o) = Subject(x) => ~Won(o)'
    BY DEF WinInv, Subject
  <2>4. CASE x = a
    BY <1>4, <2>1, <2>2, <2>3, <2>4
  <2>5. CASE x # a
    <3>1. Won(x) /\ Subject(x) # Original[a]
      BY <2>1, <2>2, <2>5
    <3>2. /\ x \in Moves => Subject(x) = Original[x] /\ Original[x] \in Requests
          /\ x \in Cancels => Subject(x) = Target[x] /\ Target[x] \in Requests
      BY ActFacts
    <3> QED
      BY <1>4, <2>2, <2>3, <3>1, <3>2 DEF WinInv
  <2> QED
    BY <2>4, <2>5
<1>8. QueueInv'
  BY <1>0, <1>1, <1>4 DEF QueueInv, Over, Subject, Unreliable
<1> QED
  BY <1>6, <1>7, <1>8

LEMMA FateTakenBack ==
  ASSUME LifeInv, FateFacts, OwnKeys, NEW a \in Moves, Handles(a), HandlerSide, TakeBack(a)
  PROVE  FateFacts'
<1> USE OneHandles DEF FateFacts
<1>0. a \in Acts
  BY DEF Acts
<1>1. /\ stage[a] = "undo" /\ stage'[a] = "unsync" /\ told'[a] = told[a] /\ told[a] = "nothing"
      /\ UNCHANGED <<jobs, rescheduledTo>>
  BY <1>0 DEF TakeBack, CancelWithLockRelease, To, LifeInv, LifecycleTypeOK, sharedVars
<1>2. result[a] = a /\ status[a] # "none"
  BY <1>0, <1>1, OwnResult DEF LifeInv, RouteInv
<1>3. /\ status'[a] = IF status[a] = "confirmed" THEN "cancelled" ELSE status[a]
      /\ \A b \in Requests \ {a} : status'[b] = status[b]
  BY <1>0, <1>2 DEF TakeBack, CancelWithLockRelease, Confirmed, LifeInv, StoreIInv, StoreTypeOK
<1>4. rescheduledTo[Original[a]] # a
  <2>1. Original[a] \in Requests /\ a # None
    BY <1>0, ActFacts, CoordinatorAssumption
  <2> HIDE OneHandles
  <2> QED
    BY <1>1, <2>1 DEF EndInv
<1>5. EndInv'
  <2> SUFFICES ASSUME NEW b \in Requests
               PROVE  /\ rescheduledTo[b] # None <=> status'[b] = "rescheduled"
                      /\ status'[b] = "rescheduled" =>
                           /\ rescheduledTo[b] \in Moves /\ Original[rescheduledTo[b]] = b
                           /\ result[rescheduledTo[b]] = rescheduledTo[b]
                           /\ stage'[rescheduledTo[b]] \in {"drop", "dead"} \/ told'[rescheduledTo[b]] = "moved"
                      /\ status'[b] = "cancelled" => CancelledOnPurpose(b)' \/ TakenBack(b)'
    BY <1>0, <1>1 DEF EndInv
  <2>1. rescheduledTo[b] # None <=> status'[b] = "rescheduled"
    BY <1>3 DEF EndInv
  <2>2. ASSUME status'[b] = "rescheduled"
        PROVE  /\ rescheduledTo[b] \in Moves /\ Original[rescheduledTo[b]] = b
               /\ result[rescheduledTo[b]] = rescheduledTo[b]
               /\ stage'[rescheduledTo[b]] \in {"drop", "dead"} \/ told'[rescheduledTo[b]] = "moved"
    BY <1>0, <1>1, <1>3, <2>2 DEF EndInv
  <2>3. ASSUME status'[b] = "cancelled"
        PROVE  CancelledOnPurpose(b)' \/ TakenBack(b)'
    <3>1. CASE b = a
      BY <1>0, <1>1, <1>2, <1>4, <3>1 DEF TakenBack
    <3>2. CASE b # a
      <4>1. CancelledOnPurpose(b) => CancelledOnPurpose(b)'
        BY <1>0, <1>3, <2>3 DEF CancelledOnPurpose
      <4>2. TakenBack(b) => TakenBack(b)'
        BY <1>0, <1>1, <3>2 DEF TakenBack
      <4> QED
        BY <1>3, <2>3, <3>2, <4>1, <4>2 DEF EndInv
    <3> QED
      BY <3>1, <3>2
  <2> QED
    BY <2>1, <2>2, <2>3
<1>6. WinInv'
  <2>1. \A x \in Acts : Won(x)' <=> Won(x)
    BY <1>0, <1>1 DEF Won
  <2>2. \A b \in Requests : status[b] \in {"rescheduled", "cancelled"} => status'[b] = status[b]
    BY <1>3
  <2> QED
    BY <1>1, <2>1, <2>2, ActFacts DEF WinInv, Subject
<1>7. QueueInv'
  <2>1. Over(a)'
    BY <1>0, <1>2, <1>3 DEF Over, LifeInv, StoreIInv, StoreTypeOK, Status
  <2>2. \A b \in Requests : Over(b) => Over(b)'
    BY <1>3 DEF Over
  <2> QED
    BY <1>0, <1>1, <2>1, <2>2 DEF QueueInv, Subject, Unreliable
<1> QED
  BY <1>5, <1>6, <1>7

LEMMA FateCancelled ==
  ASSUME LifeInv, FateFacts, NEW a \in Cancels, Handles(a), HandlerSide, CancelNow(a), Target[a] \in Confirmed
  PROVE  FateFacts'
<1> USE OneHandles DEF FateFacts
<1>0. a \in Acts /\ a \notin Moves /\ Subject(a) = Target[a]
  BY ActFacts DEF Acts
<1>1. /\ stage[a] = "act" /\ stage'[a] = "drop" /\ told'[a] = told[a] /\ told[a] = "nothing"
      /\ UNCHANGED <<jobs, rescheduledTo>>
  BY <1>0 DEF CancelNow, CancelWithLockRelease, To, LifeInv, LifecycleTypeOK, sharedVars
<1>2. /\ status[Target[a]] = "confirmed" /\ status'[Target[a]] = "cancelled"
      /\ \A b \in Requests \ {Target[a]} : status'[b] = status[b]
  BY <1>0 DEF CancelNow, CancelWithLockRelease, Confirmed, LifeInv, StoreIInv, StoreTypeOK
<1>3. EndInv'
  <2> SUFFICES ASSUME NEW b \in Requests
               PROVE  /\ rescheduledTo[b] # None <=> status'[b] = "rescheduled"
                      /\ status'[b] = "rescheduled" =>
                           /\ rescheduledTo[b] \in Moves /\ Original[rescheduledTo[b]] = b
                           /\ result[rescheduledTo[b]] = rescheduledTo[b]
                           /\ stage'[rescheduledTo[b]] \in {"drop", "dead"} \/ told'[rescheduledTo[b]] = "moved"
                      /\ status'[b] = "cancelled" => CancelledOnPurpose(b)' \/ TakenBack(b)'
    BY <1>0, <1>1 DEF EndInv
  <2>1. CASE b = Target[a]
    BY <1>0, <1>1, <1>2, <2>1 DEF EndInv, CancelledOnPurpose
  <2>2. CASE b # Target[a]
    <3>1. CancelledOnPurpose(b) => CancelledOnPurpose(b)'
      BY <1>0, <1>1, <1>2, <2>2 DEF CancelledOnPurpose
    <3>2. TakenBack(b) => TakenBack(b)'
      BY <1>0, <1>1 DEF TakenBack
    <3> QED
      BY <1>0, <1>1, <1>2, <2>2, <3>1, <3>2 DEF EndInv
  <2> QED
    BY <2>1, <2>2
<1>4. WinInv'
  <2>1. \A x \in Acts : Won(x) => Subject(x) # Target[a]
    BY <1>2, ActFacts DEF WinInv
  <2>2. \A x \in Acts : x # a => (Won(x)' <=> Won(x))
    BY <1>0 DEF Won
  <2> SUFFICES ASSUME NEW x \in Acts, Won(x)'
               PROVE  /\ x \in Moves => status'[Original[x]] = "rescheduled" /\ rescheduledTo[Original[x]] = x
                      /\ x \in Cancels => status'[Target[x]] = "cancelled"
                      /\ \A o \in Acts \ {x} : Subject(o) = Subject(x) => ~Won(o)'
    BY <1>1 DEF WinInv, Subject
  <2>4. CASE x = a
    BY <1>0, <1>2, <2>1, <2>2, <2>4
  <2>5. CASE x # a
    <3>1. Won(x) /\ Subject(x) # Target[a]
      BY <2>1, <2>2, <2>5
    <3>2. /\ x \in Moves => Subject(x) = Original[x] /\ Original[x] \in Requests
          /\ x \in Cancels => Subject(x) = Target[x] /\ Target[x] \in Requests
      BY ActFacts
    <3> QED
      BY <1>0, <1>2, <2>2, <3>1, <3>2 DEF WinInv
  <2> QED
    BY <2>4, <2>5
<1>5. QueueInv'
  BY <1>0, <1>1, <1>2 DEF QueueInv, Over, Subject, Unreliable
<1> QED
  BY <1>3, <1>4, <1>5

LEMMA FateTold ==
  ASSUME LifeInv, FateFacts, NEW a \in Acts, Handles(a), HandlerSide, Drop(a)
  PROVE  FateFacts'
<1> USE OneHandles DEF FateFacts
<1>1. /\ stage[a] = "drop" /\ stage'[a] = "ended" /\ told[a] = "nothing"
      /\ told'[a] = IF a \in Moves THEN "moved" ELSE "cancelled"
      /\ UNCHANGED <<status, rescheduledTo>>
      /\ jobs' = jobs \cup {<<"delete", Subject(a)>>} \/ (Unreliable(a) /\ UNCHANGED jobs)
  BY DEF Drop, Enqueue, Tell, To, LifeInv, LifecycleTypeOK, storeVars
<1>2. /\ Subject(a) \in Requests
      /\ a \in Moves => Subject(a) = Original[a] /\ a \notin Cancels
      /\ a \in Cancels => Subject(a) = Target[a] /\ a \notin Moves
      /\ a \in Moves \/ a \in Cancels
  BY ActFacts
<1>3. Over(Subject(a))
  BY <1>1, <1>2 DEF WinInv, Won, Over
<1>4. EndInv'
  <2> SUFFICES ASSUME NEW b \in Requests
               PROVE  /\ rescheduledTo[b] # None <=> status[b] = "rescheduled"
                      /\ status[b] = "rescheduled" =>
                           /\ rescheduledTo[b] \in Moves /\ Original[rescheduledTo[b]] = b
                           /\ result[rescheduledTo[b]] = rescheduledTo[b]
                           /\ stage'[rescheduledTo[b]] \in {"drop", "dead"} \/ told'[rescheduledTo[b]] = "moved"
                      /\ status[b] = "cancelled" => CancelledOnPurpose(b)' \/ TakenBack(b)'
    BY <1>1 DEF EndInv
  <2>1. CancelledOnPurpose(b) => CancelledOnPurpose(b)'
    BY <1>1 DEF CancelledOnPurpose
  <2>2. TakenBack(b) => TakenBack(b)'
    BY <1>1 DEF TakenBack
  <2> QED
    BY <1>1, <2>1, <2>2 DEF EndInv
<1>5. WinInv'
  <2>1. \A x \in Acts : Won(x)' <=> Won(x)
    BY <1>1 DEF Won
  <2> QED
    BY <1>1, <2>1 DEF WinInv, Subject
<1>6. QueueInv'
  <2>1. \A b \in Requests : <<"delete", b>> \in jobs' => <<"delete", b>> \in jobs \/ b = Subject(a)
    BY <1>1
  <2>2. jobs \subseteq jobs'
    BY <1>1
  <2>3. ~Unreliable(a) => <<"delete", Subject(a)>> \in jobs'
    BY <1>1
  <2> QED
    BY <1>1, <1>3, <2>1, <2>2, <2>3 DEF QueueInv, Over, Subject, Unreliable
<1> QED
  BY <1>4, <1>5, <1>6

LEMMA FateUnsynced ==
  ASSUME LifeInv, FateFacts, OwnKeys, NEW a \in Moves, Handles(a), HandlerSide, Unsync(a)
  PROVE  FateFacts'
<1> USE OneHandles DEF FateFacts
<1>0. a \in Acts
  BY DEF Acts
<1>1. /\ stage[a] = "unsync" /\ stage'[a] = "ended" /\ told[a] = "nothing" /\ told'[a] = "refused"
      /\ UNCHANGED <<status, rescheduledTo>>
      /\ jobs' = jobs \cup {<<"delete", result[a]>>} \/ (Unreliable(a) /\ UNCHANGED jobs)
  BY <1>0 DEF Unsync, Enqueue, Tell, To, LifeInv, LifecycleTypeOK, storeVars
<1>2. result[a] = a
  BY <1>0, <1>1, OwnResult DEF LifeInv, RouteInv
<1>3. Over(a)
  BY <1>1 DEF QueueInv
<1>4. EndInv'
  <2> SUFFICES ASSUME NEW b \in Requests
               PROVE  /\ rescheduledTo[b] # None <=> status[b] = "rescheduled"
                      /\ status[b] = "rescheduled" =>
                           /\ rescheduledTo[b] \in Moves /\ Original[rescheduledTo[b]] = b
                           /\ result[rescheduledTo[b]] = rescheduledTo[b]
                           /\ stage'[rescheduledTo[b]] \in {"drop", "dead"} \/ told'[rescheduledTo[b]] = "moved"
                      /\ status[b] = "cancelled" => CancelledOnPurpose(b)' \/ TakenBack(b)'
    <3>1. UNCHANGED result
      BY <1>0
    <3> HIDE OneHandles DEF FateFacts
    <3> QED
      BY <1>1, <3>1 DEF EndInv
  <2>1. CancelledOnPurpose(b) => CancelledOnPurpose(b)'
    <3>1. \A c \in Cancels : stage'[c] = stage[c] /\ told'[c] = told[c]
      BY <1>0
    <3> HIDE OneHandles
    <3> QED
      BY <1>1, <3>1 DEF CancelledOnPurpose
  <2>2. TakenBack(b) => TakenBack(b)'
    BY <1>0, <1>1 DEF TakenBack
  <2> QED
    BY <1>0, <1>1, <2>1, <2>2 DEF EndInv
<1>5. WinInv'
  <2>1. \A x \in Acts : Won(x)' <=> Won(x)
    BY <1>0, <1>1 DEF Won
  <2> QED
    BY <1>1, <2>1 DEF WinInv, Subject
<1>6. QueueInv'
  <2>1. \A b \in Requests : <<"delete", b>> \in jobs' => <<"delete", b>> \in jobs \/ b = a
    BY <1>1, <1>2
  <2>2. jobs \subseteq jobs'
    BY <1>1
  <2>3. ~Unreliable(a) => <<"delete", a>> \in jobs'
    BY <1>1, <1>2
  <2> QED
    BY <1>0, <1>1, <1>3, <2>1, <2>2, <2>3 DEF QueueInv, Over, Subject, Unreliable
<1> QED
  BY <1>4, <1>5, <1>6

LEMMA FateStep ==
  ASSUME LifeInv, FateInv, LifeNext
  PROVE  FateInv'
<1>0. OwnKeys' <=> OwnKeys
  <2>1. UNCHANGED call
    BY TwoSides, BookSideMakes DEF HandlerSide, localVars, LifeInv
  <2> QED
    BY <2>1 DEF OwnKeys, Key, Scope
<1> SUFFICES ASSUME OwnKeys
             PROVE  FateFacts'
  BY <1>0 DEF FateInv, FateFacts
<1>1. FateFacts
  BY DEF FateInv, FateFacts
<1>2. CASE BookSide /\ UNCHANGED routeVars
  BY <1>1, <1>2, FateBook
<1>3. ASSUME NEW a \in Acts, ActStep(a) \/ Abandon(a), HandlerSide, Handles(a)
      PROVE  FateFacts'
  <2>0. /\ LifecycleTypeOK /\ RouteInv
        /\ told[a] = "nothing" \/ stage[a] = "ended"
        /\ a \in Moves \/ a \in Cancels
        /\ a \in Moves => a \in Requests /\ a \notin Cancels
    BY <1>3, OneHandles, ActFacts DEF LifeInv
  <2> USE <1>1, <1>3, <2>0 DEF To, Tell, Won, LifecycleTypeOK
  <2>1. CASE Look(a)
    <3>1. a \in Moves => result[a] = None
      BY <2>1 DEF Look, RouteInv
    <3>2. /\ stage[a] = "ask" /\ stage'[a] \in {"act", "ended"}
          /\ told'[a] = told[a] \/ told'[a] = "refused"
          /\ UNCHANGED <<status, rescheduledTo, jobs>>
      BY <2>1 DEF Look, vars, storeVars, sharedVars
    <3> QED
      BY <3>1, <3>2, FateNotes
  <2>2. CASE a \in Moves /\ NotBooked(a)
    <3>1. /\ stage[a] = "act" /\ stage'[a] = "ended" /\ told'[a] = "refused" /\ result[a] = None
          /\ UNCHANGED <<status, rescheduledTo, jobs>>
      BY <2>2 DEF NotBooked, vars, storeVars, sharedVars
    <3> QED
      BY <3>1, FateNotes
  <2>3. CASE a \in Moves /\ MarkOld(a)
    <3>1. CASE Original[a] \in Confirmed
      BY <2>3, <3>1, FateMoved
    <3>2. CASE Original[a] \notin Confirmed
      <4>1. /\ stage[a] = "act" /\ stage'[a] = "undo" /\ told'[a] = told[a]
            /\ UNCHANGED <<status, rescheduledTo, jobs>>
        BY <2>3, <3>2 DEF MarkOld, MarkRescheduled, sharedVars
      <4> QED
        BY <4>1, FateNotes
    <3> QED
      BY <3>1, <3>2
  <2>4. CASE a \in Moves /\ TakeBack(a)
    BY <2>4, FateTakenBack
  <2>5. CASE a \in Moves /\ Unsync(a)
    BY <2>5, FateUnsynced
  <2>6. CASE a \in Cancels /\ CancelNow(a)
    <3>1. CASE Target[a] \in Confirmed
      BY <2>6, <3>1, FateCancelled
    <3>2. CASE Target[a] \notin Confirmed
      <4>1. /\ stage[a] = "act" /\ stage'[a] = "ended" /\ told'[a] = "refused"
            /\ UNCHANGED <<status, rescheduledTo, jobs>>
        BY <2>6, <3>2 DEF CancelNow, CancelWithLockRelease, sharedVars
      <4> QED
        BY <2>6, <4>1, FateNotes
    <3> QED
      BY <3>1, <3>2
  <2>7. CASE Drop(a)
    BY <2>7, FateTold
  <2>8. CASE Abandon(a)
    <3>1. /\ stage[a] \in {"act", "undo", "drop", "unsync"} /\ stage'[a] = "dead" /\ told'[a] = told[a]
          /\ UNCHANGED <<status, rescheduledTo, jobs>>
      BY <2>8 DEF Abandon, vars, storeVars, sharedVars
    <3> QED
      BY <3>1, FateNotes
  <2> QED
    BY <2>1, <2>2, <2>3, <2>4, <2>5, <2>6, <2>7, <2>8 DEF ActStep
<1>4. \/ BookSide /\ UNCHANGED routeVars
      \/ \E a \in Acts : (ActStep(a) \/ Abandon(a)) /\ HandlerSide /\ Handles(a)
  BY TwoSides
<1> QED
  BY <1>2, <1>3, <1>4

-----------------------------------------------------------------------------
(* The theorems. *)

LEMMA InitLife == LifeInit => LifeInv /\ FateInv
<1> SUFFICES ASSUME LifeInit
             PROVE  LifeInv /\ FateInv
  OBVIOUS
<1>1. IInv /\ StoreIInv /\ BookedInv
  BY InitWhole DEF LifeInit, WholeInv
<1>2. \A a \in Acts : stage[a] = "ask" /\ told[a] = "nothing"
  BY DEF LifeInit
<1>3. \A r \in Requests : pc[r] = "idle" /\ result[r] = None
  BY DEF LifeInit, Init
<1>4. /\ \A b \in Ids : status[b] = "none" /\ rescheduledTo[b] = None
      /\ jobs = {}
  BY DEF LifeInit, Init, StoreInit
<1>5. LifecycleTypeOK
  BY <1>1 DEF LifeInit, LifecycleTypeOK, IInv
<1>6. ResultInv /\ RouteInv
  BY <1>2, <1>3 DEF ResultInv, RouteInv, Moves, Acts
<1>7. EndInv /\ WinInv /\ QueueInv
  BY <1>2, <1>3, <1>4, CoordinatorAssumption DEF EndInv, WinInv, Won, QueueInv, Moves, Acts
<1> QED
  BY <1>1, <1>5, <1>6, <1>7 DEF LifeInv, FateInv

LEMMA StepLife == LifeInv /\ FateInv /\ [LifeNext]_lifeVars => (LifeInv /\ FateInv)'
<1>1. ASSUME LifeInv, FateInv, LifeNext
      PROVE  (LifeInv /\ FateInv)'
  BY <1>1, LifeStep, FateStep
<1>2. ASSUME LifeInv, FateInv, UNCHANGED lifeVars
      PROVE  (LifeInv /\ FateInv)'
  <2> USE <1>2 DEF lifeVars, routeVars, vars, storeVars, localVars, sharedVars
  <2>1. IInv'
    BY StepIInv DEF LifeInv
  <2>2. StoreIInv' /\ BookedInv'
    BY DEF LifeInv, StoreIInv, StoreTypeOK, ConfirmedHoldsLocks, LocksBelongToConfirmed, NoDoubleBooking, Confirmed, BookedInv
  <2>3. LifecycleTypeOK'
    BY <2>1 DEF LifeInv, LifecycleTypeOK, IInv
  <2>4. ResultInv' /\ RouteInv'
    BY DEF LifeInv, ResultInv, RouteInv, Subject, Existing, Key, Scope
  <2>5. (OwnKeys' <=> OwnKeys) /\ (EndInv' <=> EndInv) /\ (WinInv' <=> WinInv) /\ (QueueInv' <=> QueueInv)
    BY DEF OwnKeys, Key, Scope, EndInv, WinInv, Won, QueueInv, Over, CancelledOnPurpose, TakenBack, Subject
  <2> QED
    BY <2>1, <2>2, <2>3, <2>4, <2>5 DEF LifeInv, FateInv
<1> QED
  BY <1>1, <1>2

\* The inductive invariant of the routes holds of every behaviour.
THEOREM LifeInvariant == LifeSpec => [](LifeInv /\ FateInv)
  BY InitLife, StepLife, PTL DEF LifeSpec

\* The routes, the calls of book() they make, the guests' plain bookings and the
\* cron use the two tables only as module BookingStore allows; in particular a
\* replacement is named only after it exists.
THEOREM RoutesUseTheStore == LifeSpec => StoreSpec
<1>1. LifeInit => StoreInit
  BY DEF LifeInit, Init
<1>2. LifeInv /\ [LifeNext]_lifeVars => [StoreNext]_storeVars
  <2>1. ASSUME LifeInv, LifeNext
        PROVE  [StoreNext]_storeVars
    <3>1. CASE BookSide
      BY <2>1, <3>1, BookSideIsNext, StoreUse DEF LifeInv, IInv
    <3> QED
      BY <2>1, <3>1, TwoSides DEF HandlerSide
  <2>2. UNCHANGED lifeVars => UNCHANGED storeVars
    BY DEF lifeVars, vars
  <2> QED
    BY <2>1, <2>2
<1> QED
  BY <1>1, <1>2, LifeInvariant, PTL DEF LifeSpec, StoreSpec

\* So no order of bookings, moves and cancels books a host twice, and the tables
\* keep the promise of module Calendar.
THEOREM RoutesNeverDoubleBook == LifeSpec => []NoDoubleBooking /\ CalendarKept
  BY RoutesUseTheStore, NeverDoubleBooked, StoreKeepsThePromise, PTL

\* A booking is let go only for a replacement that exists and then lives until
\* somebody ends it in turn, whatever races it and wherever handlers die, as
\* long as no other call carries the move's Idempotency-Key.
THEOREM MeetingAlwaysSurvives == LifeSpec => [](OwnKeys => MeetingSurvives)
<1>1. LifeInv /\ FateInv => (OwnKeys => MeetingSurvives)
  <2> SUFFICES ASSUME LifeInv, OwnKeys, EndInv, NEW b \in Requests, status[b] = "rescheduled",
                      NEW n, n = rescheduledTo[b]
               PROVE  n # b /\ (status[n] \in {"confirmed", "rescheduled"} \/ CancelledOnPurpose(n))
    BY DEF FateInv, MeetingSurvives
  <2>1. /\ n \in Moves /\ Original[n] = b /\ result[n] = n
        /\ stage[n] \in {"drop", "dead"} \/ told[n] = "moved"
    BY DEF EndInv
  <2>2. n \in Requests /\ n \in Acts /\ n # None
    BY <2>1, CoordinatorAssumption DEF Moves, Acts
  <2>3. n # b
    <3>1. call \in Scenarios
      BY DEF LifeInv, LifecycleTypeOK, CoordinatorTypeOK
    <3> QED
      BY <2>1, <3>1, LifecycleAssumption
  <2>4. status[n] # "none" /\ status[n] \in Status
    BY <2>1, <2>2, OwnResult, CoordinatorAssumption DEF LifeInv, StoreIInv, StoreTypeOK
  <2>5. ~TakenBack(n)
    BY <2>1, <2>2 DEF TakenBack
  <2> QED
    BY <2>2, <2>3, <2>4, <2>5 DEF EndInv, Status
<1> QED
  BY LifeInvariant, <1>1, PTL

\* Of the acts on one booking at most one is told that it succeeded, and the
\* booking ended the way that one was told, under the same condition.
THEOREM OneActWins == LifeSpec => [](OwnKeys => OneWinner)
<1>1. LifeInv /\ FateInv => (OwnKeys => OneWinner)
  <2> SUFFICES ASSUME LifeInv, OwnKeys, WinInv, NEW a \in Acts, told[a] \in {"moved", "cancelled"}
               PROVE  /\ told[a] = "moved" => status[Subject(a)] = "rescheduled" /\ rescheduledTo[Subject(a)] = result[a]
                      /\ told[a] = "cancelled" => status[Subject(a)] = "cancelled"
                      /\ \A o \in Acts \ {a} : Subject(o) = Subject(a) => told[o] \in {"nothing", "refused"}
    BY DEF FateInv, OneWinner
  <2>1. RouteInv /\ LifecycleTypeOK
    BY DEF LifeInv
  <2>2. Won(a)
    BY DEF Won
  <2>3. told[a] = "moved" => a \in Moves /\ result[a] = a
    BY <2>1, OwnResult DEF RouteInv
  <2>4. told[a] = "cancelled" => a \in Cancels
    BY <2>1 DEF RouteInv
  <2>5. \A o \in Acts : ~Won(o) => told[o] \in {"nothing", "refused"}
    BY <2>1 DEF Won, LifecycleTypeOK
  <2> QED
    BY <2>2, <2>3, <2>4, <2>5, ActFacts DEF WinInv
<1> QED
  BY LifeInvariant, <1>1, PTL

\* No message tells a calendar to drop a meeting that stands, and every booking
\* that ended and is at rest has one that does, under the same condition.
THEOREM CalendarIsTold == LifeSpec => [](OwnKeys => CalendarTold)
<1>1. LifeInv /\ FateInv => (OwnKeys => CalendarTold)
  <2> SUFFICES ASSUME LifeInv, OwnKeys, EndInv, WinInv, QueueInv
               PROVE  CalendarTold
    BY DEF FateInv
  <2>0. RouteInv /\ LifecycleTypeOK /\ StoreTypeOK /\ BookedInv
    BY DEF LifeInv, StoreIInv
  <2>1. ASSUME NEW b \in Confirmed
        PROVE  <<"delete", b>> \notin jobs
    <3>1. b \in Requests
      BY <2>0 DEF BookedInv, Confirmed
    <3> QED
      BY <3>1 DEF QueueInv, Over, Confirmed
  <2>2. ASSUME NEW b \in (Existing \cap Requests) \ Confirmed, AtRest(b)
        PROVE  <<"delete", b>> \in jobs
    <3>1. status[b] \in {"rescheduled", "cancelled"}
      BY <2>0 DEF Existing, Confirmed, StoreTypeOK, Status
    <3>2. CASE status[b] = "rescheduled"
      <4>1. PICK n \in Moves : /\ Original[n] = b
                               /\ stage[n] \in {"drop", "dead"} \/ told[n] = "moved"
        BY <3>2 DEF EndInv
      <4>2. n \in Acts /\ Subject(n) = b
        BY <4>1 DEF Acts, Subject
      <4>3. told[n] = "moved" /\ ~Unreliable(n)
        BY <2>2, <4>1, <4>2 DEF AtRest
      <4> QED
        BY <4>2, <4>3 DEF QueueInv
    <3>3. CASE CancelledOnPurpose(b)
      <4>1. PICK c \in Cancels : Target[c] = b /\ (stage[c] \in {"drop", "dead"} \/ told[c] = "cancelled")
        BY <3>3 DEF CancelledOnPurpose
      <4>2. c \in Acts /\ Subject(c) = b
        BY <4>1, ActFacts DEF Acts
      <4>3. told[c] = "cancelled" /\ ~Unreliable(c)
        BY <2>2, <4>1, <4>2 DEF AtRest
      <4> QED
        BY <4>2, <4>3 DEF QueueInv
    <3>4. CASE TakenBack(b)
      <4>1. b \in Acts /\ b # None
        BY <3>4, CoordinatorAssumption DEF TakenBack, Acts
      <4>2. stage[b] = "ended" /\ ~Unreliable(b)
        BY <2>2, <3>4, <4>1 DEF AtRest, TakenBack
      <4>3. told[b] = "refused"
        BY <2>0, <3>4, <4>1, <4>2, ActFacts DEF TakenBack, RouteInv, LifecycleTypeOK
      <4> QED
        BY <3>4, <4>1, <4>2, <4>3 DEF TakenBack, QueueInv
    <3> QED
      BY <3>1, <3>2, <3>3, <3>4 DEF EndInv
  <2> QED
    BY <2>1, <2>2 DEF CalendarTold
<1> QED
  BY LifeInvariant, <1>1, PTL
=============================================================================
