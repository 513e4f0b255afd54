------------------------------ MODULE RateLimiter ------------------------------
(***************************************************************************)
(* The token bucket of one key (the adapter gives every key an object of   *)
(* its own). Tokens are counted in credits: one token is Window credits,   *)
(* and each unit of time refills Limit, so that all stays integral.        *)
(***************************************************************************)
EXTENDS Clock, Sequences

CONSTANTS
  Limit, Window,  \* RATE_LIMITS: tokens, and the time they take to refill
  IdleAge,        \* an hour
  MaxGrants       \* bound on the calls let through

\* "A bucket untouched for an hour is at full tokens anyway": no rule of
\* RATE_LIMITS, nor of the routes' own, has a window longer than that.
ASSUME LimiterAssumption ==
  /\ Limit \in Nat \ {0} /\ Window \in Nat \ {0}
  /\ IdleAge \in Nat /\ Window <= IdleAge
  /\ MaxGrants \in Nat

VARIABLES
  bucket,  \* the row of buckets; at = 0 and no credits where there is none
  stored,  \* the row exists
  sweep,   \* the time of the alarm, 0 for none
  grants   \* history: the times of the calls the bucket let through

limitVars == <<bucket, stored, sweep, grants>>

LimitInit ==
  /\ bucket = [credits |-> 0, at |-> 0] /\ stored = FALSE
  /\ sweep = 0
  /\ grants = <<>>

Full == Limit * Window

\* Slip: refilled to the brim at the end of a fixed window.
RefilledByWindow ==
  IF ~stored \/ clock \div Window > bucket.at \div Window THEN Full ELSE bucket.credits

Refilled ==
  LET credits == bucket.credits + (clock - bucket.at) * Limit IN
    IF ~stored \/ credits > Full THEN Full ELSE credits

\* A refused call writes the row too. The adapter lets a call through when the
\* object cannot be reached, before the bucket knows of it or after.
Consume ==
  /\ Len(grants) < MaxGrants
  /\ LET allowed == Refilled >= Window IN
       /\ bucket' = [credits |-> IF allowed THEN Refilled - Window ELSE Refilled, at |-> clock]
       /\ grants' = IF allowed THEN Append(grants, clock) ELSE grants
  /\ stored' = TRUE
  /\ sweep' = IF sweep = 0 THEN clock + IdleAge ELSE sweep

Sweep ==
  /\ sweep # 0 /\ Reached(sweep)
  /\ stored' = (stored /\ bucket.at + IdleAge >= clock)
  /\ sweep' = 0
  /\ UNCHANGED <<bucket, grants>>

LimitNext == Consume \/ Sweep

-----------------------------------------------------------------------------
(* Properties. *)

LimitTypeOK ==
  /\ bucket \in [credits: 0..Full, at: 0..MaxClock]
  /\ stored \in BOOLEAN
  /\ sweep \in Nat
  /\ grants \in Seq(0..MaxClock)

\* "Refilling proportionally to elapsed time has no such edge": in any stretch
\* of time, through sweeps and refused calls, the bucket lets through no more
\* than Limit calls and the share of Limit that refilled meanwhile.
RateKept ==
  \A i, j \in DOMAIN grants :
    i <= j => (j - i + 1) * Window <= Full + (grants[j] - grants[i]) * Limit
================================================================================
