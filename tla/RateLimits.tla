---------------------------- MODULE RateLimits ----------------------------
(***************************************************************************)
(* What times the HTTP requests of a provider: the requests-per-minute     *)
(* limiter of the scheduler (_wait_rpm), then in the provider the cooldown *)
(* that a 429 sets (_wait_for_rate_limit) and the retries with exponential *)
(* backoff (_call_with_retries, _handle_retryable_error).  An attempt is   *)
(* one call of the SDK client; what that repeats itself is not seen here.  *)
(*                                                                         *)
(* Time is discrete, Second ticks in a second, and relative to now: a      *)
(* deadline is what is left of it, an age is counted up to the bound       *)
(* beyond which nothing depends on it.  A sleeping task resumes at its     *)
(* deadline or later.  Nothing bounds the base delay of the configuration  *)
(* (config.py:37): it may be 0, and a negative one sleeps as 0 does.       *)
(***************************************************************************)
EXTENDS Naturals, Sequences, FiniteSets

CONSTANTS
  Callers,      \* the provider calls, one element per call
  MaxRetries,   \* config.max_retries
  BaseDelay,    \* config.retry_base_delay, in ticks
  Interval,     \* self._rpm_interval, in ticks
  Second        \* the ticks of a second

ASSUME NumbersAssumption ==
  /\ MaxRetries \in Nat
  /\ BaseDelay \in Nat
  /\ Interval \in Nat \ {0} /\ Second \in Nat \ {0}

VARIABLES
  pc,         \* where each call stands
  attempt,    \* the attempt of its retry loop, from 0
  sleep,      \* what is left of its sleep
  rpmQueue,   \* the holder of the scheduler's _rpm_lock and its waiters
  lastAge,    \* time since self._last_request_time
  coolQueue,  \* the holder of the provider's _rate_limit_lock and its waiters
  cooldown,   \* time until self._rate_limit_until
  grantAge,   \* history: time since the limiter let a call pass
  wokenAge    \* history: time since a call slept out a cooldown

vars == <<pc, attempt, sleep, rpmQueue, lastAge, coolQueue, cooldown,
          grantAge, wokenAge>>

rpmVars  == <<rpmQueue, lastAge, grantAge>>
coolVars == <<coolQueue, cooldown, wokenAge>>

Final == {"ok", "quota", "failed"}

Older(age, bound) == IF age < bound THEN age + 1 ELSE age
Sooner(left)      == IF left > 0 THEN left - 1 ELSE 0

\* The process has run for a while: the first request does not wait.
Init ==
  /\ pc = [c \in Callers |-> "idle"]
  /\ attempt = [c \in Callers |-> 0]
  /\ sleep = [c \in Callers |-> 0]
  /\ rpmQueue = <<>> /\ lastAge = Interval
  /\ coolQueue = <<>> /\ cooldown = 0
  /\ grantAge = Interval /\ wokenAge = Second

Tick ==
  /\ lastAge' = Older(lastAge, Interval)
  /\ grantAge' = Older(grantAge, Interval)
  /\ wokenAge' = Older(wokenAge, Second)
  /\ sleep' = [c \in Callers |-> Sooner(sleep[c])]
  /\ cooldown' = Sooner(cooldown)
  /\ UNCHANGED <<pc, attempt, rpmQueue, coolQueue>>

-----------------------------------------------------------------------------
(* Faulty variants of the actions below, no part of the specification.     *)

\* of Granted: the time of the request is not kept
GrantedUnstamped(c) ==
  /\ rpmQueue' = Tail(rpmQueue)
  /\ grantAge' = 0
  /\ pc' = [pc EXCEPT ![c] = "cool"] /\ coolQueue' = Append(coolQueue, c)
  /\ UNCHANGED <<attempt, sleep, lastAge, cooldown, wokenAge>>

\* of Starts: the lock is not released
StartsLocked(c) ==
  /\ pc' = [pc EXCEPT ![c] = "calling"]
  /\ UNCHANGED <<attempt, sleep, rpmVars, coolQueue>>

\* of CoolWake: the cooldown is not set for the next one in line
WakesUnstaggered(c) ==
  /\ pc[c] = "coolSleep" /\ sleep[c] = 0
  /\ coolQueue' = Tail(coolQueue)
  /\ pc' = [pc EXCEPT ![c] = "calling"]
  /\ wokenAge' = 0
  /\ UNCHANGED <<attempt, sleep, rpmVars, cooldown>>

-----------------------------------------------------------------------------
(* _wait_rpm                                                               *)

Arrive(c) ==
  /\ pc[c] = "idle"
  /\ pc' = [pc EXCEPT ![c] = "rpm"]
  /\ rpmQueue' = Append(rpmQueue, c)
  /\ UNCHANGED <<attempt, sleep, lastAge, grantAge, coolVars>>

\* The limiter lets c pass, and the retry loop starts: with max_retries = 0 it
\* fails without an attempt.
Granted(c) ==
  /\ rpmQueue' = Tail(rpmQueue)
  /\ lastAge' = 0
  /\ grantAge' = 0
  /\ IF MaxRetries = 0
     THEN pc' = [pc EXCEPT ![c] = "failed"] /\ UNCHANGED coolQueue
     ELSE pc' = [pc EXCEPT ![c] = "cool"] /\ coolQueue' = Append(coolQueue, c)
  /\ UNCHANGED <<attempt, sleep, cooldown, wokenAge>>

RpmPass(c) ==
  /\ pc[c] = "rpm" /\ Head(rpmQueue) = c
  /\ lastAge >= Interval
  /\ Granted(c)

RpmSleep(c) ==
  /\ pc[c] = "rpm" /\ Head(rpmQueue) = c
  /\ lastAge < Interval
  /\ sleep' = [sleep EXCEPT ![c] = Interval - lastAge]
  /\ pc' = [pc EXCEPT ![c] = "rpmSleep"]
  /\ UNCHANGED <<attempt, rpmVars, coolVars>>

RpmWake(c) ==
  /\ pc[c] = "rpmSleep" /\ sleep[c] = 0
  /\ Granted(c)

-----------------------------------------------------------------------------
(* _wait_for_rate_limit and the start of an attempt                        *)

\* The attempt is made.
Starts(c) ==
  /\ coolQueue' = Tail(coolQueue)
  /\ pc' = [pc EXCEPT ![c] = "calling"]
  /\ UNCHANGED <<attempt, sleep, rpmVars>>

CoolPass(c) ==
  /\ pc[c] = "cool" /\ Head(coolQueue) = c
  /\ cooldown = 0
  /\ Starts(c)
  /\ UNCHANGED <<cooldown, wokenAge>>

CoolSleep(c) ==
  /\ pc[c] = "cool" /\ Head(coolQueue) = c
  /\ cooldown > 0
  /\ sleep' = [sleep EXCEPT ![c] = cooldown]
  /\ pc' = [pc EXCEPT ![c] = "coolSleep"]
  /\ UNCHANGED <<attempt, rpmVars, coolVars>>

\* The sleep computed before is over, whatever a 429 has set meanwhile; the
\* cooldown of the next one in line becomes 1 to 3 seconds.
CoolWake(c) ==
  /\ pc[c] = "coolSleep" /\ sleep[c] = 0
  /\ Starts(c)
  /\ cooldown' \in Second..3 * Second
  /\ wokenAge' = 0

-----------------------------------------------------------------------------
(* The end of an attempt                                                   *)

Ends(c, outcome) ==
  /\ pc[c] = "calling"
  /\ pc' = [pc EXCEPT ![c] = outcome]
  /\ UNCHANGED <<attempt, sleep, rpmVars, coolVars>>

Delays(c) == {BaseDelay * 2 ^ attempt[c] + jitter : jitter \in 0..Second}

\* A retryable error: back off unless it was the last attempt, which raises.
RetryLater(c) ==
  IF attempt[c] + 1 < MaxRetries
  THEN /\ pc' = [pc EXCEPT ![c] = "backoff"]
       /\ \E d \in Delays(c) : sleep' = [sleep EXCEPT ![c] = d]
  ELSE /\ pc' = [pc EXCEPT ![c] = "failed"]
       /\ UNCHANGED sleep

\* A timeout, a connection error or a server error.
Transient(c) ==
  /\ pc[c] = "calling"
  /\ RetryLater(c)
  /\ UNCHANGED <<attempt, rpmVars, coolVars>>

\* A 429 that is not about the quota: it sets the cooldown of the provider, in
\* place of the one that may be in force, and is retried.
Limited(c) ==
  /\ pc[c] = "calling"
  /\ cooldown' \in Delays(c)
  /\ RetryLater(c)
  /\ UNCHANGED <<attempt, rpmVars, coolQueue, wokenAge>>

BackoffEnds(c) ==
  /\ pc[c] = "backoff" /\ sleep[c] = 0
  /\ attempt' = [attempt EXCEPT ![c] = @ + 1]
  /\ pc' = [pc EXCEPT ![c] = "cool"]
  /\ coolQueue' = Append(coolQueue, c)
  /\ UNCHANGED <<sleep, rpmVars, cooldown, wokenAge>>

-----------------------------------------------------------------------------
Steps(c) ==
  \/ RpmPass(c) \/ RpmSleep(c) \/ RpmWake(c)
  \/ CoolPass(c) \/ CoolSleep(c) \/ CoolWake(c)
  \/ \E o \in Final : Ends(c, o)
  \/ Transient(c) \/ Limited(c) \/ BackoffEnds(c)

Next == Tick \/ \E c \in Callers : Arrive(c) \/ Steps(c)

Spec == Init /\ [][Next]_vars

\* Time passes, a task whose sleep is over resumes, and an attempt ends.  The last
\* is assumed of the environment: Gemini's requests have total_timeout, those of
\* the default provider end unless the server keeps sending bytes for ever.
FairSpec == Spec /\ WF_vars(Tick) /\ \A c \in Callers : WF_vars(Steps(c))

-----------------------------------------------------------------------------
AtLimiter == {"rpm", "rpmSleep"}

TypeOK ==
  /\ pc \in [Callers -> AtLimiter \cup Final
               \cup {"idle", "cool", "coolSleep", "calling", "backoff"}]
  /\ attempt \in [Callers -> Nat] /\ sleep \in [Callers -> Nat]
  /\ rpmQueue \in Seq(Callers) /\ coolQueue \in Seq(Callers)
  /\ \A c \in Callers :
       sleep[c] > 0 => pc[c] \in {"rpmSleep", "coolSleep", "backoff"}
  /\ {lastAge, grantAge} \subseteq 0..Interval
  /\ cooldown \in Nat /\ wokenAge \in 0..Second

\* "per-minute rate limiting" (scheduler.py:48): however the callers queue at
\* the limiter and however late they wake, two of them are let through at least
\* an interval apart.
GrantsSpaced ==
  [][\A c \in Callers :
       pc[c] \in AtLimiter /\ pc'[c] \notin AtLimiter => grantAge >= Interval]_vars

\* What of the stagger of 1 to 3 seconds (base.py:78) a 429 can leave: it replaces the
\* cooldown, the one of a stagger too, by its own delay.
Gap == IF BaseDelay < Second THEN BaseDelay ELSE Second

\* "Serialize access during rate-limit cooldown" (base.py:70): once a call has
\* slept out a cooldown no other starts in the next second, or base delay if
\* that is shorter, whether it waited behind the first or came fresh, and
\* whatever 429s arrive meanwhile and set the cooldown anew.
CooldownStaggers ==
  [][\A c \in Callers :
       pc[c] # "calling" /\ pc'[c] = "calling" => wokenAge >= Gap]_vars

\* The cooldowns and backoffs that the calls impose on each other do not keep
\* any of them from ending.
EveryCallEnds ==
  \A c \in Callers : pc[c] = "rpm" ~> pc[c] \in Final
=============================================================================
