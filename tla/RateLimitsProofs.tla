-------------------------- MODULE RateLimitsProofs --------------------------
(***************************************************************************)
(* What holds of the limiter and of the cooldown of RateLimits for any     *)
(* number of callers, any interval, any number of retries and any delays,  *)
(* however late a sleeper wakes.                                           *)
(***************************************************************************)
EXTENDS RateLimits, FiniteSetTheorems, SequenceTheorems, TLAPS

InLine(q, c) == \E i \in DOMAIN q : q[i] = c

\* Who waits for the limiter is in its line.  Only the head of the line sleeps, and
\* what is left of its sleep reaches to the end of the interval.
LimiterInv ==
  /\ pc = [c \in Callers |-> pc[c]] /\ sleep = [c \in Callers |-> sleep[c]]
  /\ rpmQueue \in Seq(Callers)
  /\ lastAge \in 0..Interval
  /\ grantAge = lastAge
  /\ \A c \in Callers :
       /\ pc[c] \in AtLimiter => InLine(rpmQueue, c)
       /\ pc[c] = "rpmSleep" => /\ Head(rpmQueue) = c
                                /\ sleep[c] \in Nat
                                /\ lastAge + sleep[c] >= Interval

\* Who joins a line is in it, and the head of a line stays its head.
LEMMA LineAppend ==
  ASSUME NEW q \in Seq(Callers), NEW c \in Callers
  PROVE  /\ Append(q, c) \in Seq(Callers)
         /\ InLine(Append(q, c), c)
         /\ \A d \in Callers :
              InLine(q, d) => InLine(Append(q, c), d) /\ Head(Append(q, c)) = Head(q)
<1> DEFINE r == Append(q, c)
<1>1. DOMAIN r = 1..(Len(q) + 1) /\ DOMAIN q = 1..Len(q) /\ Len(q) \in Nat
      /\ r \in Seq(Callers)
  OBVIOUS
<1>2. /\ \A i \in 1..Len(q) : r[i] = q[i]
      /\ r[Len(q) + 1] = c
  OBVIOUS
<1>3. r # <<>> /\ Head(r) = r[1] /\ (q # <<>> => Head(q) = q[1])
  BY <1>1
<1> HIDE DEF r
<1>4. InLine(r, c)
  BY <1>1, <1>2 DEF InLine
<1>5. ASSUME NEW d \in Callers, InLine(q, d)
      PROVE  InLine(r, d) /\ Head(r) = Head(q)
  <2>1. PICK i \in 1..Len(q) : q[i] = d
    BY <1>1, <1>5 DEF InLine
  <2>2. i \in DOMAIN r /\ r[i] = d /\ Len(q) >= 1 /\ r[1] = q[1]
    BY <1>1, <1>2, <2>1
  <2>3. q # <<>>
    BY <2>2
  <2> QED BY <1>3, <2>2, <2>3 DEF InLine
<1> QED BY <1>1, <1>4, <1>5 DEF r

\* Only the head leaves a line.
LEMMA LineTail ==
  ASSUME NEW q \in Seq(Callers), NEW c \in Callers, InLine(q, c)
  PROVE  /\ Tail(q) \in Seq(Callers)
         /\ \A d \in Callers : InLine(q, d) /\ d # Head(q) => InLine(Tail(q), d)
<1>1. q # <<>> /\ Len(q) \in Nat \ {0} /\ DOMAIN q = 1..Len(q) /\ Head(q) = q[1]
  BY DEF InLine
<1>2. /\ Tail(q) \in Seq(Callers) /\ DOMAIN Tail(q) = 1..(Len(q) - 1)
      /\ \A i \in 1..(Len(q) - 1) : Tail(q)[i] = q[i + 1]
  BY <1>1
<1>3. ASSUME NEW d \in Callers, InLine(q, d), d # Head(q) PROVE InLine(Tail(q), d)
  <2>1. PICK i \in 1..Len(q) : q[i] = d
    BY <1>1, <1>3 DEF InLine
  <2>2. i - 1 \in DOMAIN Tail(q) /\ (i - 1) + 1 = i
    BY <1>1, <1>2, <1>3, <2>1
  <2> QED BY <2>1, <2>2, <1>2 DEF InLine
<1> QED BY <1>2, <1>3

\* Each step keeps the line of the limiter and the sleep of its head.
LEMMA LimiterStep == LimiterInv /\ [Next]_vars => LimiterInv'
<1> SUFFICES ASSUME LimiterInv, [Next]_vars PROVE LimiterInv'
  OBVIOUS
<1>t. /\ pc = [c \in Callers |-> pc[c]] /\ sleep = [c \in Callers |-> sleep[c]]
      /\ rpmQueue \in Seq(Callers) /\ lastAge \in 0..Interval /\ grantAge = lastAge
      /\ Interval \in Nat \ {0}
  BY NumbersAssumption DEF LimiterInv
<1>i. \A c \in Callers :
        /\ pc[c] \in AtLimiter => InLine(rpmQueue, c)
        /\ pc[c] = "rpmSleep" => /\ Head(rpmQueue) = c
                                 /\ sleep[c] \in Nat
                                 /\ lastAge + sleep[c] >= Interval
  BY DEF LimiterInv
<1> USE DEF AtLimiter
\* A step of a call that is not at the limiter, and does not come to it.
<1>1. ASSUME NEW c \in Callers, pc[c] \notin AtLimiter, UNCHANGED rpmVars,
             NEW x \in Final \cup {"calling", "cool", "coolSleep", "backoff"},
             pc' = [pc EXCEPT ![c] = x],
             sleep' = sleep \/ \E d : sleep' = [sleep EXCEPT ![c] = d]
      PROVE  LimiterInv'
  <2>1. \A d \in Callers \ {c} : pc'[d] = pc[d] /\ sleep'[d] = sleep[d]
    BY <1>1, <1>t
  <2>2. pc'[c] \notin AtLimiter
    BY <1>1, <1>t DEF Final
  <2>3. pc' = [d \in Callers |-> pc'[d]] /\ sleep' = [d \in Callers |-> sleep'[d]]
    BY <1>1, <1>t
  <2>4. UNCHANGED <<rpmQueue, lastAge, grantAge>>
    BY <1>1 DEF rpmVars
  <2>5. \A d \in Callers : InLine(rpmQueue, d)' <=> InLine(rpmQueue, d)
    BY <2>4 DEF InLine
  <2> QED BY <2>1, <2>2, <2>3, <2>4, <2>5, <1>t, <1>i DEF LimiterInv
<1>2. ASSUME NEW c \in Callers,
             CoolPass(c) \/ CoolSleep(c) \/ CoolWake(c) \/ BackoffEnds(c)
             \/ \E o \in Final : Ends(c, o)
      PROVE  LimiterInv'
  BY <1>2, <1>1 DEF CoolPass, CoolSleep, CoolWake, Starts, BackoffEnds, Ends, coolVars
<1>3. ASSUME NEW c \in Callers, Transient(c) \/ Limited(c) PROVE LimiterInv'
  <2>1. pc[c] = "calling" /\ UNCHANGED rpmVars /\ RetryLater(c)
    BY <1>3 DEF Transient, Limited
  <2>2. CASE attempt[c] + 1 < MaxRetries
    BY <2>1, <2>2, <1>1 DEF RetryLater
  <2>3. CASE ~(attempt[c] + 1 < MaxRetries)
    BY <2>1, <2>3, <1>1 DEF RetryLater, Final
  <2> QED BY <2>2, <2>3
<1>4. ASSUME NEW c \in Callers, Arrive(c) PROVE LimiterInv'
  <2>1. /\ pc' = [pc EXCEPT ![c] = "rpm"] /\ rpmQueue' = Append(rpmQueue, c)
        /\ UNCHANGED <<sleep, lastAge, grantAge>>
    BY <1>4 DEF Arrive
  <2>2. /\ rpmQueue' \in Seq(Callers) /\ InLine(rpmQueue', c)
        /\ \A d \in Callers : InLine(rpmQueue, d) => InLine(rpmQueue', d) /\ Head(rpmQueue') = Head(rpmQueue)
    BY <2>1, <1>t, LineAppend
  <2>3. pc'[c] = "rpm" /\ \A d \in Callers \ {c} : pc'[d] = pc[d]
    BY <2>1, <1>t
  <2>4. pc' = [d \in Callers |-> pc'[d]]
    BY <2>1, <1>t
  <2> QED BY <2>1, <2>2, <2>3, <2>4, <1>t, <1>i DEF LimiterInv
<1>5. ASSUME NEW c \in Callers, RpmSleep(c) PROVE LimiterInv'
  <2>1. /\ pc[c] = "rpm" /\ Head(rpmQueue) = c /\ lastAge < Interval
        /\ sleep' = [sleep EXCEPT ![c] = Interval - lastAge]
        /\ pc' = [pc EXCEPT ![c] = "rpmSleep"]
        /\ UNCHANGED <<rpmQueue, lastAge, grantAge>>
    BY <1>5 DEF RpmSleep, rpmVars
  <2>2. sleep'[c] \in Nat /\ lastAge + sleep'[c] >= Interval
    BY <2>1, <1>t
  <2>3. \A d \in Callers \ {c} : pc'[d] = pc[d] /\ sleep'[d] = sleep[d]
    BY <2>1, <1>t
  <2>4. pc' = [d \in Callers |-> pc'[d]] /\ sleep' = [d \in Callers |-> sleep'[d]]
    BY <2>1, <1>t
  <2>5. \A d \in Callers : InLine(rpmQueue, d)' <=> InLine(rpmQueue, d)
    BY <2>1 DEF InLine
  <2> QED BY <2>1, <2>2, <2>3, <2>4, <2>5, <1>t, <1>i DEF LimiterInv
<1>6. ASSUME NEW c \in Callers, Head(rpmQueue) = c, pc[c] \in AtLimiter, Granted(c)
      PROVE  LimiterInv'
  <2>1. rpmQueue' = Tail(rpmQueue) /\ lastAge' = 0 /\ grantAge' = 0 /\ sleep' = sleep
    BY <1>6 DEF Granted
  <2>2. PICK x \in {"failed", "cool"} : pc' = [pc EXCEPT ![c] = x]
    <3>1. CASE MaxRetries = 0 BY <3>1, <1>6 DEF Granted
    <3>2. CASE MaxRetries # 0 BY <3>2, <1>6 DEF Granted
    <3> QED BY <3>1, <3>2
  <2>3. /\ rpmQueue' \in Seq(Callers)
        /\ \A d \in Callers : InLine(rpmQueue, d) /\ d # c => InLine(rpmQueue', d)
    BY <2>1, <1>6, <1>t, <1>i, LineTail
  <2>4. pc'[c] \notin AtLimiter /\ \A d \in Callers \ {c} : pc'[d] = pc[d]
    BY <2>2, <1>t
  <2>5. \A d \in Callers \ {c} : pc[d] # "rpmSleep"
    BY <1>6, <1>i
  <2>6. pc' = [d \in Callers |-> pc'[d]] /\ sleep' = [d \in Callers |-> sleep'[d]]
    BY <2>1, <2>2, <1>t
  <2>7. lastAge' \in 0..Interval
    BY <2>1, <1>t
  <2> QED BY <2>1, <2>3, <2>4, <2>5, <2>6, <2>7, <1>i DEF LimiterInv
<1>7. ASSUME NEW c \in Callers, RpmPass(c) \/ RpmWake(c) PROVE LimiterInv'
  BY <1>7, <1>6, <1>i DEF RpmPass, RpmWake
<1>8. ASSUME Tick PROVE LimiterInv'
  <2>1. /\ lastAge' = Older(lastAge, Interval) /\ grantAge' = Older(grantAge, Interval)
        /\ sleep' = [c \in Callers |-> Sooner(sleep[c])] /\ UNCHANGED <<pc, rpmQueue>>
    BY <1>8 DEF Tick
  <2>2. lastAge' \in 0..Interval /\ grantAge' = lastAge'
    BY <2>1, <1>t DEF Older
  <2>3. ASSUME NEW c \in Callers, pc[c] = "rpmSleep"
        PROVE  sleep'[c] \in Nat /\ lastAge' + sleep'[c] >= Interval
    <3>1. sleep[c] \in Nat /\ lastAge + sleep[c] >= Interval /\ sleep'[c] = Sooner(sleep[c])
      BY <2>1, <2>3, <1>i
    <3>2. CASE lastAge < Interval
      BY <2>1, <3>1, <3>2, <1>t DEF Older, Sooner
    <3>3. CASE lastAge = Interval
      BY <2>1, <3>1, <3>3, <1>t DEF Older, Sooner
    <3> QED BY <3>2, <3>3, <1>t
  <2>4. \A d \in Callers : InLine(rpmQueue, d)' <=> InLine(rpmQueue, d)
    BY <2>1 DEF InLine
  <2>5. sleep' = [d \in Callers |-> sleep'[d]]
    BY <2>1
  <2> QED BY <2>1, <2>2, <2>3, <2>4, <2>5, <1>t, <1>i DEF LimiterInv
<1>9. CASE UNCHANGED vars
  <2>1. UNCHANGED <<pc, sleep, rpmQueue, lastAge, grantAge>>
    BY <1>9 DEF vars
  <2> QED BY <2>1 DEF LimiterInv, InLine
<1> QED BY <1>2, <1>3, <1>4, <1>5, <1>7, <1>8, <1>9 DEF Next, Steps

\* However the calls arrive, wait and oversleep, the limiter lets them through at least
\* an interval apart.
THEOREM LimiterSpaces == Spec => GrantsSpaced
<1>1. Init => LimiterInv
  <2> SUFFICES ASSUME Init PROVE LimiterInv
    OBVIOUS
  <2>1. lastAge = Interval /\ grantAge = Interval /\ rpmQueue = <<>>
        /\ Interval \in 0..Interval
    BY NumbersAssumption DEF Init
  <2>2. /\ pc = [c \in Callers |-> pc[c]] /\ sleep = [c \in Callers |-> sleep[c]]
        /\ \A c \in Callers : pc[c] = "idle"
    BY DEF Init
  <2> QED BY <2>1, <2>2 DEF LimiterInv, AtLimiter
<1>2. LimiterInv /\ [Next]_vars =>
        [\A c \in Callers :
           pc[c] \in AtLimiter /\ pc'[c] \notin AtLimiter => grantAge >= Interval]_vars
  <2> SUFFICES ASSUME LimiterInv, Next, NEW c \in Callers,
                      pc[c] \in AtLimiter, pc'[c] \notin AtLimiter
               PROVE  grantAge >= Interval
    OBVIOUS
  <2>t. pc = [d \in Callers |-> pc[d]] /\ lastAge \in 0..Interval /\ grantAge = lastAge
        /\ Interval \in Nat
    BY NumbersAssumption DEF LimiterInv
  <2>1. CASE RpmPass(c)
    BY <2>1, <2>t DEF RpmPass
  <2>2. CASE RpmWake(c)
    <3>1. sleep[c] = 0 /\ lastAge + sleep[c] >= Interval
      BY <2>2 DEF RpmWake, LimiterInv
    <3> QED BY <3>1, <2>t
  <2>3. ASSUME NEW d \in Callers, d # c, Arrive(d) \/ Steps(d) PROVE pc'[c] = pc[c]
    <3>1. \E x : pc' = [pc EXCEPT ![d] = x]
      <4>1. CASE Granted(d)
        <5>1. CASE MaxRetries = 0 BY <4>1, <5>1 DEF Granted
        <5>2. CASE MaxRetries # 0 BY <4>1, <5>2 DEF Granted
        <5> QED BY <5>1, <5>2
      <4>2. CASE RetryLater(d)
        <5>1. CASE attempt[d] + 1 < MaxRetries BY <4>2, <5>1 DEF RetryLater
        <5>2. CASE ~(attempt[d] + 1 < MaxRetries) BY <4>2, <5>2 DEF RetryLater
        <5> QED BY <5>1, <5>2
      <4> QED BY <2>3, <4>1, <4>2 DEF Arrive, Steps, RpmPass, RpmSleep, RpmWake, CoolPass,
                 CoolSleep, CoolWake, Starts, Ends, Transient, Limited, BackoffEnds
    <3> QED BY <2>3, <3>1, <2>t
  <2>4. CASE Tick
    BY <2>4 DEF Tick
  <2>5. CASE Arrive(c) \/ RpmSleep(c)
    BY <2>5, <2>t DEF Arrive, RpmSleep, AtLimiter
  <2>6. CASE \/ CoolPass(c) \/ CoolSleep(c) \/ CoolWake(c) \/ BackoffEnds(c)
             \/ (\E o \in Final : Ends(c, o)) \/ Transient(c) \/ Limited(c)
    BY <2>6 DEF CoolPass, CoolSleep, CoolWake, BackoffEnds, Ends, Transient, Limited,
                AtLimiter
  <2> QED BY <2>1, <2>2, <2>3, <2>4, <2>5, <2>6 DEF Next, Steps
<1> QED BY <1>1, <1>2, LimiterStep, PTL DEF Spec, GrantsSpaced

-----------------------------------------------------------------------------
(* The cooldown                                                            *)

\* A backoff is no shorter than the base delay: 2 ^ n counts the subsets of n things,
\* so it is not 0.
LEMMA PowerPositive == ASSUME NEW n \in Nat PROVE 2 ^ n \in Nat \ {0}
<1>1. IsFiniteSet(1..n) /\ Cardinality(1..n) = n
  BY FS_Interval
<1>2. IsFiniteSet(SUBSET (1..n)) /\ Cardinality(SUBSET (1..n)) = 2 ^ n
  BY <1>1, FS_SUBSET
<1>3. Cardinality(SUBSET (1..n)) \in Nat \ {0}
  BY <1>2, FS_CardinalityType, FS_EmptySet
<1> QED BY <1>2, <1>3

\* So every cooldown that a 429 sets lasts for the base delay.
LEMMA DelaysLast ==
  ASSUME NEW c \in Callers, attempt \in [Callers -> Nat], NEW d \in Delays(c)
  PROVE  d \in Nat /\ d >= BaseDelay
<1>1. 2 ^ attempt[c] \in Nat \ {0} /\ BaseDelay \in Nat /\ Second \in Nat
  BY PowerPositive, NumbersAssumption
<1>2. ASSUME NEW n \in Nat \ {0}, NEW b \in Nat PROVE b * n \in Nat /\ b * n >= b
  <2>1. PICK m \in Nat : n = m + 1
    BY <1>2
  <2>2. b * n = b * m + b /\ b * m \in Nat
    BY <2>1
  <2> QED BY <2>2
<1>3. PICK jitter \in 0..Second : d = BaseDelay * 2 ^ attempt[c] + jitter
  BY DEF Delays
<1> QED BY <1>1, <1>2, <1>3

AtCooldown == {"cool", "coolSleep"}

\* Who waits for the cooldown is in its line, and only the head of the line sleeps.  The
\* cooldown in force, and what is left of that sleep, reach to the end of the gap that
\* began when the last one woke.
CoolInv ==
  /\ pc = [c \in Callers |-> pc[c]] /\ sleep = [c \in Callers |-> sleep[c]]
  /\ attempt \in [Callers -> Nat]
  /\ coolQueue \in Seq(Callers)
  /\ cooldown \in Nat /\ wokenAge \in Nat
  /\ wokenAge + cooldown >= Gap
  /\ \A c \in Callers :
       /\ pc[c] \in AtCooldown => InLine(coolQueue, c)
       /\ pc[c] = "coolSleep" => /\ Head(coolQueue) = c
                                 /\ sleep[c] \in Nat
                                 /\ wokenAge + sleep[c] >= Gap

\* Each step keeps the line of the cooldown and the sleep of its head.
LEMMA CoolStep == CoolInv /\ [Next]_vars => CoolInv'
<1> SUFFICES ASSUME CoolInv, [Next]_vars PROVE CoolInv'
  OBVIOUS
<1>t. /\ pc = [c \in Callers |-> pc[c]] /\ sleep = [c \in Callers |-> sleep[c]]
      /\ attempt \in [Callers -> Nat] /\ coolQueue \in Seq(Callers)
      /\ cooldown \in Nat /\ wokenAge \in Nat
      /\ wokenAge + cooldown >= Gap
      /\ Gap \in Nat /\ Gap <= BaseDelay /\ Gap <= Second
      /\ BaseDelay \in Nat /\ Second \in Nat \ {0}
  BY NumbersAssumption DEF CoolInv, Gap
<1>i. \A c \in Callers :
        /\ pc[c] \in AtCooldown => InLine(coolQueue, c)
        /\ pc[c] = "coolSleep" => /\ Head(coolQueue) = c
                                  /\ sleep[c] \in Nat
                                  /\ wokenAge + sleep[c] >= Gap
  BY DEF CoolInv
<1> USE DEF AtCooldown
\* A step of a call that is not in the line of the cooldown, and does not come to it.
<1>1. ASSUME NEW c \in Callers, pc[c] \notin AtCooldown, UNCHANGED <<coolQueue, wokenAge>>,
             cooldown' \in Nat, cooldown' = cooldown \/ cooldown' >= Gap,
             NEW x \in Final \cup {"rpm", "rpmSleep", "calling", "backoff"},
             pc' = [pc EXCEPT ![c] = x], UNCHANGED attempt,
             sleep' = sleep \/ \E d : sleep' = [sleep EXCEPT ![c] = d]
      PROVE  CoolInv'
  <2>1. \A d \in Callers \ {c} : pc'[d] = pc[d] /\ sleep'[d] = sleep[d]
    BY <1>1, <1>t
  <2>2. pc'[c] \notin AtCooldown
    BY <1>1, <1>t DEF Final
  <2>3. pc' = [d \in Callers |-> pc'[d]] /\ sleep' = [d \in Callers |-> sleep'[d]]
    BY <1>1, <1>t
  <2>4. \A d \in Callers : InLine(coolQueue, d)' <=> InLine(coolQueue, d)
    BY <1>1 DEF InLine
  <2>5. wokenAge' + cooldown' >= Gap
    BY <1>1, <1>t
  <2> QED BY <2>1, <2>2, <2>3, <2>4, <2>5, <1>1, <1>t, <1>i DEF CoolInv
\* A call gets in line.
<1>2. ASSUME NEW c \in Callers, pc[c] \notin AtCooldown, coolQueue' = Append(coolQueue, c),
             pc' = [pc EXCEPT ![c] = "cool"], UNCHANGED <<sleep, cooldown, wokenAge>>,
             attempt' \in [Callers -> Nat]
      PROVE  CoolInv'
  <2>1. /\ coolQueue' \in Seq(Callers) /\ InLine(coolQueue', c)
        /\ \A d \in Callers : InLine(coolQueue, d) =>
             InLine(coolQueue', d) /\ Head(coolQueue') = Head(coolQueue)
    BY <1>2, <1>t, LineAppend
  <2>2. pc'[c] = "cool" /\ \A d \in Callers \ {c} : pc'[d] = pc[d]
    BY <1>2, <1>t
  <2>3. pc' = [d \in Callers |-> pc'[d]] /\ sleep' = [d \in Callers |-> sleep'[d]]
    BY <1>2, <1>t
  <2> QED BY <2>1, <2>2, <2>3, <1>2, <1>t, <1>i DEF CoolInv
\* The head of the line starts its attempt: then nobody sleeps.
<1>3. ASSUME NEW c \in Callers, pc[c] \in AtCooldown, Head(coolQueue) = c, Starts(c),
             cooldown' \in Nat, wokenAge' \in Nat, wokenAge' + cooldown' >= Gap
      PROVE  CoolInv'
  <2>1. /\ coolQueue' = Tail(coolQueue) /\ pc' = [pc EXCEPT ![c] = "calling"]
        /\ UNCHANGED <<attempt, sleep>>
    BY <1>3 DEF Starts
  <2>2. /\ coolQueue' \in Seq(Callers)
        /\ \A d \in Callers : InLine(coolQueue, d) /\ d # c => InLine(coolQueue', d)
    BY <2>1, <1>3, <1>t, <1>i, LineTail
  <2>3. pc'[c] \notin AtCooldown /\ \A d \in Callers \ {c} : pc'[d] = pc[d]
    BY <2>1, <1>t
  <2>4. \A d \in Callers : pc'[d] # "coolSleep"
    BY <2>3, <1>3, <1>i
  <2>5. pc' = [d \in Callers |-> pc'[d]] /\ sleep' = [d \in Callers |-> sleep'[d]]
    BY <2>1, <1>t
  <2> QED BY <2>1, <2>2, <2>3, <2>4, <2>5, <1>3, <1>t, <1>i DEF CoolInv
<1>4. ASSUME NEW c \in Callers, CoolPass(c) \/ CoolWake(c) PROVE CoolInv'
  <2>1. CASE CoolPass(c)
    BY <2>1, <1>3, <1>t DEF CoolPass
  <2>2. CASE CoolWake(c)
    <3>1. cooldown' \in Second..3 * Second /\ wokenAge' = 0
      BY <2>2 DEF CoolWake
    <3>2. cooldown' \in Nat /\ wokenAge' \in Nat /\ wokenAge' + cooldown' >= Gap
      BY <3>1, <1>t
    <3> QED BY <2>2, <3>2, <1>3, <1>i DEF CoolWake
  <2> QED BY <1>4, <2>1, <2>2
<1>5. ASSUME NEW c \in Callers, CoolSleep(c) PROVE CoolInv'
  <2>1. /\ pc[c] = "cool" /\ Head(coolQueue) = c /\ cooldown > 0
        /\ sleep' = [sleep EXCEPT ![c] = cooldown]
        /\ pc' = [pc EXCEPT ![c] = "coolSleep"]
        /\ UNCHANGED <<attempt, coolQueue, cooldown, wokenAge>>
    BY <1>5 DEF CoolSleep, coolVars
  <2>2. sleep'[c] = cooldown /\ pc'[c] = "coolSleep"
    BY <2>1, <1>t
  <2>3. \A d \in Callers \ {c} : pc'[d] = pc[d] /\ sleep'[d] = sleep[d]
    BY <2>1, <1>t
  <2>4. pc' = [d \in Callers |-> pc'[d]] /\ sleep' = [d \in Callers |-> sleep'[d]]
    BY <2>1, <1>t
  <2>5. \A d \in Callers : InLine(coolQueue, d)' <=> InLine(coolQueue, d)
    BY <2>1 DEF InLine
  <2> QED BY <2>1, <2>2, <2>3, <2>4, <2>5, <1>t, <1>i DEF CoolInv
<1>6. ASSUME NEW c \in Callers, Transient(c) \/ Limited(c) PROVE CoolInv'
  <2>1. /\ pc[c] = "calling" /\ UNCHANGED <<attempt, coolQueue, wokenAge>> /\ RetryLater(c)
        /\ cooldown' \in Nat /\ (cooldown' = cooldown \/ cooldown' >= Gap)
    BY <1>6, <1>t, DelaysLast DEF Transient, Limited, coolVars
  <2>2. CASE attempt[c] + 1 < MaxRetries
    BY <2>1, <2>2, <1>1 DEF RetryLater
  <2>3. CASE ~(attempt[c] + 1 < MaxRetries)
    BY <2>1, <2>3, <1>1 DEF RetryLater, Final
  <2> QED BY <2>2, <2>3
<1>7. ASSUME NEW c \in Callers, BackoffEnds(c) PROVE CoolInv'
  <2>1. /\ pc[c] = "backoff" /\ attempt' = [attempt EXCEPT ![c] = @ + 1]
        /\ pc' = [pc EXCEPT ![c] = "cool"] /\ coolQueue' = Append(coolQueue, c)
        /\ UNCHANGED <<sleep, cooldown, wokenAge>>
    BY <1>7 DEF BackoffEnds
  <2>2. attempt' \in [Callers -> Nat]
    BY <2>1, <1>t
  <2> QED BY <2>1, <2>2, <1>2
<1>8. ASSUME NEW c \in Callers, pc[c] \in AtLimiter, Granted(c) PROVE CoolInv'
  <2>1. UNCHANGED <<attempt, sleep, cooldown, wokenAge>>
    BY <1>8 DEF Granted
  <2>2. CASE MaxRetries = 0
    <3>1. pc' = [pc EXCEPT ![c] = "failed"] /\ UNCHANGED coolQueue
      BY <1>8, <2>2 DEF Granted
    <3> QED BY <2>1, <3>1, <1>1, <1>8, <1>t DEF Final, AtLimiter
  <2>3. CASE MaxRetries # 0
    <3>1. pc' = [pc EXCEPT ![c] = "cool"] /\ coolQueue' = Append(coolQueue, c)
      BY <1>8, <2>3 DEF Granted
    <3> QED BY <2>1, <3>1, <1>2, <1>8, <1>t DEF AtLimiter
  <2> QED BY <2>2, <2>3
<1>9. ASSUME NEW c \in Callers,
             \/ Arrive(c) \/ RpmPass(c) \/ RpmSleep(c) \/ RpmWake(c)
             \/ \E o \in Final : Ends(c, o)
      PROVE  CoolInv'
  <2>1. CASE RpmPass(c) \/ RpmWake(c)
    BY <2>1, <1>8 DEF RpmPass, RpmWake, AtLimiter
  <2>2. CASE Arrive(c)
    BY <2>2, <1>1, <1>t DEF Arrive, coolVars
  <2>3. CASE RpmSleep(c)
    BY <2>3, <1>1, <1>t DEF RpmSleep, coolVars
  <2>4. CASE \E o \in Final : Ends(c, o)
    BY <2>4, <1>1, <1>t DEF Ends, coolVars
  <2> QED BY <1>9, <2>1, <2>2, <2>3, <2>4
<1>10. ASSUME Tick PROVE CoolInv'
  <2>1. /\ wokenAge' = Older(wokenAge, Second) /\ cooldown' = Sooner(cooldown)
        /\ sleep' = [c \in Callers |-> Sooner(sleep[c])]
        /\ UNCHANGED <<pc, attempt, coolQueue>>
    BY <1>10 DEF Tick
  <2>2. wokenAge' \in Nat /\ cooldown' \in Nat /\ wokenAge' + cooldown' >= Gap
    BY <2>1, <1>t DEF Older, Sooner
  <2>3. \A c \in Callers : pc[c] = "coolSleep" =>
        sleep'[c] \in Nat /\ wokenAge' + sleep'[c] >= Gap
    BY <2>1, <1>i, <1>t DEF Older, Sooner
  <2>4. \A d \in Callers : InLine(coolQueue, d)' <=> InLine(coolQueue, d)
    BY <2>1 DEF InLine
  <2>5. sleep' = [c \in Callers |-> sleep'[c]]
    BY <2>1
  <2> QED BY <2>1, <2>2, <2>3, <2>4, <2>5, <1>t, <1>i DEF CoolInv
<1>11. CASE UNCHANGED vars
  <2>1. UNCHANGED <<pc, attempt, sleep, coolQueue, cooldown, wokenAge>>
    BY <1>11 DEF vars
  <2> QED BY <2>1 DEF CoolInv, InLine
<1> QED BY <1>4, <1>5, <1>6, <1>7, <1>9, <1>10, <1>11 DEF Next, Steps

\* Whatever the delays, and whatever 429s come meanwhile: after a call has slept out a
\* cooldown, no other call starts in the next second, or base delay if that is shorter.
THEOREM CooldownHolds == Spec => CooldownStaggers
<1>1. Init => CoolInv
  <2> SUFFICES ASSUME Init PROVE CoolInv
    OBVIOUS
  <2>1. /\ attempt = [c \in Callers |-> 0] /\ sleep = [c \in Callers |-> 0]
        /\ pc = [c \in Callers |-> "idle"] /\ coolQueue = <<>> /\ cooldown = 0
        /\ wokenAge = Second /\ Gap \in Nat /\ Gap <= Second /\ Second \in Nat
    BY NumbersAssumption DEF Init, Gap
  <2> QED BY <2>1 DEF CoolInv, AtCooldown
<1>2. CoolInv /\ [Next]_vars =>
        [\A c \in Callers : pc[c] # "calling" /\ pc'[c] = "calling" => wokenAge >= Gap]_vars
  <2> SUFFICES ASSUME CoolInv, Next, NEW c \in Callers,
                      pc[c] # "calling", pc'[c] = "calling"
               PROVE  wokenAge >= Gap
    OBVIOUS
  <2>t. pc = [d \in Callers |-> pc[d]] /\ wokenAge \in Nat 
        /\ cooldown \in Nat /\ wokenAge + cooldown >= Gap
    BY DEF CoolInv
  <2>1. CASE CoolPass(c)
    BY <2>1, <2>t DEF CoolPass
  <2>2. CASE CoolWake(c)
    BY <2>2, <2>t DEF CoolWake, CoolInv
  <2>3. ASSUME NEW d \in Callers, NEW x, pc' = [pc EXCEPT ![d] = x], x # "calling" \/ d # c
        PROVE  FALSE
    BY <2>3, <2>t
  <2>4. ASSUME NEW d \in Callers, Granted(d) PROVE FALSE
    <3>1. CASE MaxRetries = 0 BY <2>4, <3>1, <2>3 DEF Granted
    <3>2. CASE MaxRetries # 0 BY <2>4, <3>2, <2>3 DEF Granted
    <3> QED BY <3>1, <3>2
  <2>5. ASSUME NEW d \in Callers, RetryLater(d) PROVE FALSE
    <3>1. CASE attempt[d] + 1 < MaxRetries BY <2>5, <3>1, <2>3 DEF RetryLater
    <3>2. CASE ~(attempt[d] + 1 < MaxRetries) BY <2>5, <3>2, <2>3 DEF RetryLater
    <3> QED BY <3>1, <3>2
  <2>6. ASSUME NEW d \in Callers,
               \/ Arrive(d) \/ RpmSleep(d) \/ CoolSleep(d) \/ BackoffEnds(d)
               \/ \E o \in Final : Ends(d, o)
        PROVE  FALSE
    BY <2>6, <2>3 DEF Arrive, RpmSleep, CoolSleep, BackoffEnds, Ends, Final
  <2>7. ASSUME NEW d \in Callers, d # c, CoolPass(d) \/ CoolWake(d) PROVE FALSE
    BY <2>7, <2>3 DEF CoolPass, CoolWake, Starts
  <2>8. CASE Tick
    BY <2>8 DEF Tick
  <2> QED BY <2>1, <2>2, <2>4, <2>5, <2>6, <2>7, <2>8
          DEF Next, Steps, RpmPass, RpmWake, Transient, Limited
<1> QED BY <1>1, <1>2, CoolStep, PTL DEF Spec, CooldownStaggers
=============================================================================
