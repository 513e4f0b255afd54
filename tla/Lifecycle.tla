------------------------------ MODULE Lifecycle ------------------------------
(***************************************************************************)
(* What happens to a booking after it was made: the cancel and reschedule  *)
(* handlers of the guest's manage page, the REST API and the MCP server,   *)
(* around the calls of book() they make. The three surfaces share one      *)
(* order of awaits: read the booking, act only if it is confirmed, book    *)
(* the new time before the old one is let go, move the old booking on by a *)
(* conditional update, and take the new booking back if that update found  *)
(* nothing to move. Every request runs beside the others; the ones that    *)
(* are faulty may stop at any await or lose their queue message.           *)
(***************************************************************************)
EXTENDS Coordinator

CONSTANTS
  Original,  \* Original[r]: the booking request r moves, None for a plain booking
  Cancels,   \* cancel requests
  Target,    \* Target[c]: the booking cancel request c names
  Flaky      \* cancel requests whose Worker may fail

Moves == {r \in Requests : Original[r] # None}
Acts == Moves \cup Cancels

ASSUME LifecycleAssumption ==
  /\ Original \in [Requests -> Requests \cup {None}]
  /\ Target \in [Cancels -> Requests]
  /\ Cancels \cap Requests = {} /\ Flaky \subseteq Cancels
  \* A move keeps the event type and the guest of what it moves.
  /\ \A s \in Scenarios, r \in Moves :
       Original[r] # r /\ s[r].et = s[Original[r]].et /\ ~s[r].hold

VARIABLES
  stage,  \* stage[a]: the await that act a has reached
  told    \* told[a]: what its caller was answered

routeVars == <<stage, told>>
lifeVars == <<vars, routeVars>>

\* The booking an act is about.
Subject(a) == IF a \in Moves THEN Original[a] ELSE Target[a]
Unreliable(a) == a \in Faulty \cup Flaky

LifeInit ==
  /\ Init
  /\ stage = [a \in Acts |-> "ask"]
  /\ told = [a \in Acts |-> "nothing"]

To(a, there) == stage' = [stage EXCEPT ![a] = there]
Tell(a, what) ==
  /\ To(a, "ended")
  /\ told' = [told EXCEPT ![a] = what]

\* The read every handler starts with; only a confirmed booking is acted on.
Look(a) ==
  /\ stage[a] = "ask" /\ Subject(a) \in Existing
  /\ IF Subject(a) \in Confirmed THEN To(a, "act") /\ UNCHANGED told ELSE Tell(a, "refused")
  /\ UNCHANGED vars

\* A move calls book(); a plain booking is not preceded by anything.
BookStep(r) ==
  /\ At(r, "idle") /\ r \in Moves => stage[r] = "act"
  /\ Step(r)
  /\ UNCHANGED routeVars

\* Any answer of book() but a booking ends the move.
NotBooked(r) ==
  /\ stage[r] = "act" /\ At(r, "done") /\ result[r] = None
  /\ Tell(r, "refused")
  /\ UNCHANGED vars

\* Slip: the loser answers 409 and leaves what it booked.
MarkOrLeave(r) ==
  /\ stage[r] = "act" /\ At(r, "done") /\ result[r] # None
  /\ IF Original[r] \in Confirmed THEN To(r, "drop") /\ UNCHANGED told ELSE Tell(r, "refused")
  /\ MarkRescheduled(Original[r], result[r])
  /\ UNCHANGED <<localVars, sharedVars>>

\* Slip: the old booking is marked as its own successor.
MarkAsItself(r) ==
  /\ stage[r] = "act" /\ At(r, "done") /\ result[r] # None
  /\ To(r, IF Original[r] \in Confirmed THEN "drop" ELSE "undo")
  /\ MarkRescheduled(Original[r], Original[r])
  /\ UNCHANGED <<localVars, sharedVars, told>>

\* markRescheduled: whether a row changed decides what comes next.
MarkOld(r) ==
  /\ stage[r] = "act" /\ At(r, "done") /\ result[r] # None
  /\ To(r, IF Original[r] \in Confirmed THEN "drop" ELSE "undo")
  /\ MarkRescheduled(Original[r], result[r])
  /\ UNCHANGED <<localVars, sharedVars, told>>

\* The booking "just created" is taken back.
TakeBack(r) ==
  /\ stage[r] = "undo"
  /\ CancelWithLockRelease(result[r])
  /\ To(r, "unsync")
  /\ UNCHANGED <<localVars, sharedVars, told>>

\* Slip: the result of the conditional update is not looked at.
CancelAnyway(c) ==
  /\ stage[c] = "act"
  /\ To(c, "drop")
  /\ CancelWithLockRelease(Target[c])
  /\ UNCHANGED <<localVars, sharedVars, told>>

CancelNow(c) ==
  /\ stage[c] = "act"
  /\ IF Target[c] \in Confirmed THEN To(c, "drop") /\ UNCHANGED told ELSE Tell(c, "refused")
  /\ CancelWithLockRelease(Target[c])
  /\ UNCHANGED <<localVars, sharedVars>>

\* queue.send of a delete job, best effort, and the answer.
Enqueue(a, b) ==
  /\ \/ jobs' = jobs \cup {<<"delete", b>>}
     \/ Unreliable(a) /\ UNCHANGED jobs
  /\ UNCHANGED <<storeVars, localVars, leases, idem, lastAssigned, holds>>

\* Slip: the calendar is told to drop the booking the move made.
DropResult(a) ==
  /\ stage[a] = "drop"
  /\ Enqueue(a, IF a \in Moves THEN result[a] ELSE Target[a])
  /\ Tell(a, IF a \in Moves THEN "moved" ELSE "cancelled")

Drop(a) ==
  /\ stage[a] = "drop"
  /\ Enqueue(a, Subject(a))
  /\ Tell(a, IF a \in Moves THEN "moved" ELSE "cancelled")

\* Slip: the answer is the word of the coordinator.
UnsyncConflict(r) ==
  /\ stage[r] = "unsync"
  /\ Enqueue(r, result[r])
  /\ Tell(r, "policy")

Unsync(r) ==
  /\ stage[r] = "unsync"
  /\ Enqueue(r, result[r])
  /\ Tell(r, "refused")

\* A read or write of the handler throws, or the Worker is evicted.
Abandon(a) ==
  /\ Unreliable(a) /\ stage[a] \in {"act", "undo", "drop", "unsync"}
  /\ a \in Moves /\ stage[a] = "act" => pc[a] \in {"idle", "done"}
  /\ To(a, "dead")
  /\ UNCHANGED <<vars, told>>

ActStep(a) ==
  \/ Look(a)
  \/ a \in Moves /\ (NotBooked(a) \/ MarkOld(a) \/ TakeBack(a) \/ Unsync(a))
  \/ a \in Cancels /\ CancelNow(a)
  \/ Drop(a)

LifeNext ==
  \/ \E r \in Requests : BookStep(r)
  \/ \E a \in Acts : ActStep(a)
  \/ \E a \in Acts : Abandon(a)
  \/ Surroundings /\ UNCHANGED routeVars

\* A Worker keeps executing the handler it has started.
LifeFairness ==
  /\ \A r \in Requests : WF_lifeVars(pc[r] # "idle" /\ BookStep(r))
  /\ \A r \in Moves : WF_lifeVars(stage[r] = "act" /\ BookStep(r))
  /\ \A a \in Acts : WF_lifeVars(stage[a] # "ask" /\ ActStep(a))

LifeSpec == LifeInit /\ [][LifeNext]_lifeVars
LifeFairSpec == LifeSpec /\ LifeFairness

-----------------------------------------------------------------------------
(* Properties. *)

LifecycleTypeOK ==
  /\ CoordinatorTypeOK
  /\ stage \in [Acts -> {"ask", "act", "undo", "unsync", "drop", "ended", "dead"}]
  /\ told \in [Acts -> {"nothing", "refused", "moved", "cancelled"}]

\* b ended because somebody asked for that (and may not have heard of it yet).
CancelledOnPurpose(b) ==
  status[b] = "cancelled" /\ \E c \in Cancels : Target[c] = b /\ (stage[c] \in {"drop", "dead"} \/ told[c] = "cancelled")

\* "Releasing first would open a window where the old meeting exists with
\* nothing defending its time": a booking is let go only for a replacement that
\* exists, and that then lives until somebody cancels or moves it in turn.
MeetingSurvives ==
  \A b \in Requests : status[b] = "rescheduled" =>
    LET n == rescheduledTo[b]
    IN  n # b /\ (status[n] \in {"confirmed", "rescheduled"} \/ CancelledOnPurpose(n))

\* Of the tabs, agents and links that act on one booking, at most one is told
\* that it succeeded, and the booking ended the way that one was told.
OneWinner ==
  \A a \in Acts : told[a] \in {"moved", "cancelled"} =>
    /\ told[a] = "moved" => status[Subject(a)] = "rescheduled" /\ rescheduledTo[Subject(a)] = result[a]
    /\ told[a] = "cancelled" => status[Subject(a)] = "cancelled"
    /\ \A o \in Acts \ {a} : Subject(o) = Subject(a) => told[o] \in {"nothing", "refused"}

\* Nobody is at work on b, and nobody who could fail has ended it.
AtRest(b) ==
  \A x \in Acts :
    /\ Subject(x) = b => stage[x] \in {"ask", "ended"} /\ (Unreliable(x) => told[x] \in {"nothing", "refused"})
    /\ x \in Moves /\ result[x] = b => stage[x] = "ended" /\ ~Unreliable(x)

\* No message ever tells a calendar to drop a meeting that stands, and once a
\* booking that ended is at rest, a message has told its calendar to drop it.
CalendarTold ==
  /\ \A b \in Confirmed : <<"delete", b>> \notin jobs
  /\ \A b \in (Existing \cap Requests) \ Confirmed :
       AtRest(b) => <<"delete", b>> \in jobs

\* "A real, confirmed, but orphaned duplicate. It must be released, not left
\* live": what a move books becomes the replacement of what it moves, or ends.
NoOrphan ==
  \A r \in Moves \ Faulty :
    r \in Confirmed ~> rescheduledTo[Original[r]] = r \/ r \notin Confirmed
=============================================================================
