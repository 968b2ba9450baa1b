------------------------------- MODULE RateLimit ------------------------------
(***************************************************************************)
(* The limiter of internal/ratelimit on one key, as handleCompile, the     *)
(* agent's compile tool and the login handlers ask it. INCR and EXPIRE go  *)
(* to Redis as one transaction, so concurrent calls are a sequence of      *)
(* Allow steps; time is a clock of ticks.                                  *)
(***************************************************************************)
EXTENDS Integers, Sequences, FiniteSets

CONSTANTS
  Limit,      \* max of Allow
  Window,     \* window of Allow, in ticks
  Outages,    \* {"redis"} if a call may get no answer
  Horizon,    \* bound on the clock
  CallBound   \* bound on the calls

ASSUME LimitAssumption ==
  /\ Limit \in Nat \ {0} /\ Window \in Nat \ {0}
  /\ Horizon \in Nat /\ CallBound \in Nat

VARIABLES
  now,
  count, expires,  \* the key's value, 0 if there is none, and its expiry
  calls            \* history: when each call was made and what came of it

limiterVars == <<now, count, expires, calls>>

Answer(n) == IF n <= Limit THEN "allowed" ELSE "refused"
Record(answer) == calls' = Append(calls, [at |-> now, answer |-> answer])
Made(i) == calls[i].at
Got(i) == calls[i].answer

\* Redis drops the key when its time is over.
Tick ==
  /\ now < Horizon
  /\ now' = now + 1
  /\ count' = IF expires = now + 1 THEN 0 ELSE count
  /\ expires' = IF expires = now + 1 THEN 0 ELSE expires
  /\ UNCHANGED calls

\* Mutant: only the first call of a key sets its expiry.
AllowFixedWindow ==
  /\ Len(calls) < CallBound
  /\ count' = count + 1
  /\ expires' = IF count = 0 THEN now + Window ELSE expires
  /\ Record(Answer(count + 1))
  /\ UNCHANGED now

\* Mutant: the key gets no expiry.
AllowForever ==
  /\ Len(calls) < CallBound
  /\ count' = count + 1
  /\ Record(Answer(count + 1))
  /\ UNCHANGED <<now, expires>>

\* A refused call counts, and sets the expiry, like any other.
Allow ==
  /\ Len(calls) < CallBound
  /\ count' = count + 1
  /\ expires' = now + Window
  /\ Record(Answer(count + 1))
  /\ UNCHANGED now

\* The call gets no answer, having counted or not.
AllowErrs ==
  /\ "redis" \in Outages
  /\ Len(calls) < CallBound
  /\ Record("error")
  /\ \/ count' = count + 1 /\ expires' = now + Window
     \/ UNCHANGED <<count, expires>>
  /\ UNCHANGED now

LimiterInit == now = 0 /\ count = 0 /\ expires = 0 /\ calls = <<>>

LimiterNext == Tick \/ Allow \/ AllowErrs

LimiterSpec == LimiterInit /\ [][LimiterNext]_limiterVars

-----------------------------------------------------------------------------
\* A key that counts has an expiry in the future.
LimiterTypeOK ==
  /\ now \in 0..Horizon /\ count \in Nat
  /\ calls \in Seq([at: 0..Horizon, answer: {"allowed", "refused", "error"}])
  /\ IF count = 0 THEN expires = 0 ELSE expires \in (now + 1)..(now + Window)

\* The calls before call i, and less than a window before it.
Recent(i) == {k \in 1..(i - 1) : Made(k) > Made(i) - Window}

\* No stretch of time as long as the window sees more than Limit calls allowed,
\* wherever it begins.
AtMostLimit ==
  \A i \in DOMAIN calls :
    Got(i) = "allowed" =>
      Cardinality({k \in Recent(i) : Got(k) = "allowed"}) < Limit

\* A caller who made no call for a window is not refused, whatever was lost or
\* refused before.
QuietCallerAllowed ==
  \A i \in DOMAIN calls : Recent(i) = {} => Got(i) # "refused"
=============================================================================
