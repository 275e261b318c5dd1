-------------------------- MODULE RateLimiterProofs --------------------------
(***************************************************************************)
(* What TLAPS proves of RateLimiter, for every set of threads, every       *)
(* configuration and every clock: the arithmetic of refill() and of the    *)
(* waits, type correctness, that asking costs nothing, that the lazy       *)
(* limiter implements an eager token bucket, and, with RateLimiterHistory  *)
(* watching, the rate bound over every window of time and that one         *)
(* undisturbed sleep is enough.                                            *)
(***************************************************************************)
EXTENDS RateLimiterHistory, TLAPS

\* Truncating division, which both casts to milliseconds rest on.
LEMMA DivFloor ==
    ASSUME NEW a \in Nat, NEW d \in Nat, d > 0
    PROVE  /\ a \div d \in Nat
           /\ d * (a \div d) <= a
           /\ a < d * (a \div d) + d
  OBVIOUS

\* Scaling by an interval keeps the order.
LEMMA MulMono ==
    ASSUME NEW a \in Nat, NEW b \in Nat, NEW c \in Nat, a <= b
    PROVE  c * a <= c * b
  OBVIOUS

\* Time passed is not negative.
LEMMA SubNat ==
    ASSUME NEW n \in Nat, NEW m \in 0..n
    PROVE  n - m \in Nat
  OBVIOUS

\* All the proofs use of the width of std::uint16_t.
LEMMA Uint16Nat == UINT16 \in Nat /\ UINT16 > 1
  BY DEF UINT16

\* sanitized() repairs every field: at least one token, a positive interval,
\* no more initial tokens than the bucket holds.
LEMMA SanitizedOK ==
    ASSUME NEW c \in ConfigType
    PROVE  /\ sanitized(c) \in ConfigType
           /\ sanitized(c).max_tokens >= 1
           /\ sanitized(c).refill_interval >= 1
           /\ sanitized(c).initial_tokens <= sanitized(c).max_tokens
  <1>1. /\ c.max_tokens \in 0..(UINT16 - 1) /\ c.initial_tokens \in 0..(UINT16 - 1)
        /\ c.refill_interval \in Int /\ c.max_wait \in Int \cup {NoWait}
    BY DEF ConfigType
  <1> DEFINE max == Larger(c.max_tokens, 1)
             init == Smaller(c.initial_tokens, max)
             ms == IF c.refill_interval <= 0 THEN DefaultInterval
                                             ELSE c.refill_interval
  <1>2. max \in 0..(UINT16 - 1) /\ max >= 1
    BY <1>1, Uint16Nat DEF Larger
  <1>3. init \in 0..(UINT16 - 1) /\ init <= max
    BY <1>1, <1>2, Uint16Nat DEF Smaller
  <1>4. ms \in Int /\ ms >= 1
    BY <1>1 DEF DefaultInterval
  <1>5. sanitized(c) = [max_tokens |-> max, refill_interval |-> ms,
                        initial_tokens |-> init, max_wait |-> c.max_wait]
    BY DEF sanitized
  <1> QED
    BY <1>1, <1>2, <1>3, <1>4, <1>5 DEF ConfigType

\* The two truncating divisions of refill() count the whole intervals that
\* have passed since last_refill_: no more, and less than one too few.
LEMMA EarnedBounds ==
    ASSUME TypeOK
    PROVE  /\ Interval \in Nat /\ Interval > 0
           /\ Earned(now) \in Nat
           /\ Interval * Earned(now) <= now - last_refill_
           /\ now - last_refill_ < Interval * Earned(now) + Interval
  <1>1. config_.refill_interval \in Nat /\ config_.refill_interval > 0
    BY DEF TypeOK, ConfigType
  <1>2. TicksPerMs \in Nat /\ TicksPerMs > 0
    BY ConstantsAssumption
  <1> DEFINE r == config_.refill_interval
             m == TicksPerMs
             a == now - last_refill_
             q == a \div m
             e == q \div r
  <1>3. a \in Nat
    BY DEF TypeOK, Times
  <1> HIDE DEF r, m, a
  <1>r. r \in Nat /\ r > 0  BY <1>1 DEF r
  <1>m. m \in Nat /\ m > 0  BY <1>2 DEF m
  <1>4. q \in Nat /\ m * q <= a /\ a < m * q + m
    BY <1>3, <1>m, DivFloor
  <1> HIDE DEF q
  <1>5. e \in Nat /\ r * e <= q /\ q < r * e + r
    BY <1>4, <1>r, DivFloor
  <1> HIDE DEF e
  <1>6. r * e \in Nat /\ r * m \in Nat /\ r * m > 0
    BY <1>5, <1>r, <1>m
  <1>7. m * (r * e) <= m * q
    BY <1>4, <1>5, <1>6, <1>m, MulMono
  <1>8. q + 1 <= r * e + r
    BY <1>4, <1>5, <1>6, <1>r
  <1>9. m * (q + 1) <= m * (r * e + r)
    BY <1>8, <1>4, <1>6, <1>r, <1>m, MulMono
  <1>10. (r * m) * e = m * (r * e) /\ m * (q + 1) = m * q + m
         /\ m * (r * e + r) = m * (r * e) + r * m
    BY <1>4, <1>5, <1>r, <1>m
  <1>11. (r * m) * e <= a /\ a < (r * m) * e + r * m
    BY <1>3, <1>4, <1>5, <1>6, <1>7, <1>9, <1>10, <1>m
  <1> QED
    BY <1>3, <1>5, <1>6, <1>11 DEF Interval, Earned, r, m, a, q, e

\* What refill() does.  It stays within the capacity and the clock; it pays for
\* the tokens it adds with time (the credit law, third conjunct); it leaves less
\* than an interval unused, and nothing unused when the bucket is full; and when
\* it leaves no token it has changed nothing.
LEMMA RefillFacts ==
    ASSUME TypeOK
    PROVE  /\ Refilled(now).tokens \in 0..config_.max_tokens
           /\ Refilled(now).last \in last_refill_..now
           /\ Interval * Refilled(now).tokens + last_refill_
                  <= Interval * tokens_ + Refilled(now).last
           /\ now - Refilled(now).last < Interval
           /\ Refilled(now).tokens < config_.max_tokens
                  \/ Refilled(now).last = now
           /\ Refilled(now).tokens = 0
                  => tokens_ = 0 /\ Refilled(now).last = last_refill_
  <1> DEFINE e == Earned(now)
             I == Interval
             max == config_.max_tokens
             r == Refilled(now)
  <1>1. /\ I \in Nat /\ I > 0 /\ e \in Nat
        /\ I * e <= now - last_refill_
        /\ now - last_refill_ < I * e + I
    BY EarnedBounds
  <1>2. /\ max \in 1..(UINT16 - 1) /\ tokens_ \in 0..max
        /\ now \in Nat /\ last_refill_ \in 0..now
    BY DEF TypeOK, ConfigType, Times
  <1>3. UINT16 \in Nat
    BY Uint16Nat
  <1>4. r = IF tokens_ >= max THEN [tokens |-> tokens_, last |-> now]
            ELSE IF e <= 0 THEN [tokens |-> tokens_, last |-> last_refill_]
            ELSE IF tokens_ + e >= max THEN [tokens |-> max, last |-> now]
            ELSE [tokens |-> (tokens_ + e) % UINT16,
                  last |-> last_refill_ + e * I]
    BY DEF Refilled
  <1> HIDE DEF e, I, max, r
  <1>5. CASE tokens_ >= max
    <2>1. r.tokens = tokens_ /\ r.last = now /\ tokens_ = max
      BY <1>2, <1>4, <1>5
    <2> QED  BY <2>1, <1>1, <1>2 DEF r, I, max
  <1>6. CASE tokens_ < max /\ e <= 0
    <2>1. r.tokens = tokens_ /\ r.last = last_refill_ /\ e = 0
      BY <1>1, <1>2, <1>4, <1>6
    <2> QED  BY <2>1, <1>1, <1>2, <1>6 DEF r, I, max
  <1>7. CASE tokens_ < max /\ e > 0 /\ tokens_ + e >= max
    <2>1. r.tokens = max /\ r.last = now
      BY <1>1, <1>2, <1>4, <1>7
    <2>2. I * (max - tokens_) <= I * e
      BY <1>1, <1>2, <1>7, MulMono
    <2>3. I * (max - tokens_) = I * max - I * tokens_
      BY <1>1, <1>2
    <2> QED  BY <2>1, <2>2, <2>3, <1>1, <1>2 DEF r, I, max
  <1>8. CASE tokens_ < max /\ e > 0 /\ tokens_ + e < max
    <2>1. (tokens_ + e) % UINT16 = tokens_ + e
      BY <1>1, <1>2, <1>3, <1>8
    <2>2. r.tokens = tokens_ + e /\ r.last = last_refill_ + e * I
      BY <1>1, <1>2, <1>4, <1>8, <2>1
    <2>3. I * (tokens_ + e) = I * tokens_ + I * e /\ e * I = I * e
      BY <1>1, <1>2
    <2>4. I * e \in Nat
      BY <1>1
    <2> QED  BY <2>2, <2>3, <2>4, <1>1, <1>2, <1>8 DEF r, I, max
  <1> QED
    BY <1>1, <1>2, <1>5, <1>6, <1>7, <1>8

\* The interval take_or_wait_time() counts with, cut off at ClockMax.
WaitInterval == IF config_.refill_interval >= ClockMax \div TicksPerMs
                THEN ClockMax ELSE Interval

\* take_or_wait_time() never returns less than what is left of the interval,
\* and neither the cut-off interval nor the wait passes Clock::duration::max().
LEMMA WaitTimeType ==
    ASSUME TypeOK
    PROVE  /\ WaitInterval \in 0..ClockMax
           /\ WaitTime \in Times
           /\ WaitTime >= WaitInterval - (now - last_refill_)
  <1> DEFINE q == ClockMax \div TicksPerMs
             ms == config_.refill_interval
  <1>1. TicksPerMs \in Nat /\ TicksPerMs > 0 /\ ClockMax \in Nat
    BY ConstantsAssumption
  <1>2. q \in Nat /\ TicksPerMs * q <= ClockMax
    BY <1>1, DivFloor
  <1>3. ms \in Nat /\ now \in Nat /\ last_refill_ \in 0..now
    BY DEF TypeOK, ConfigType, Times
  <1>4. ASSUME ms < q  PROVE Interval \in 0..ClockMax
    <2>1. TicksPerMs * ms <= TicksPerMs * q
      BY <1>1, <1>2, <1>3, <1>4, MulMono
    <2> QED  BY <2>1, <1>1, <1>2, <1>3 DEF Interval
  <1>5. WaitInterval \in 0..ClockMax
    BY <1>1, <1>2, <1>3, <1>4 DEF WaitInterval
  <1>6. WaitTime = Larger(WaitInterval - (now - last_refill_), 0)
    BY DEF WaitTime, WaitInterval
  <1> QED
    BY <1>1, <1>3, <1>5, <1>6 DEF Larger, Times

\* acquire_for() never computes a deadline past Clock::time_point::max().
LEMMA DeadlineType ==
    ASSUME TypeOK, NEW w \in Int
    PROVE  DeadlineFor(w) \in Times
  <1> DEFINE left == ClockMax - now
             q == left \div TicksPerMs
  <1>1. TicksPerMs \in Nat /\ TicksPerMs > 0 /\ ClockMax \in Nat
    BY ConstantsAssumption
  <1>2. now \in 0..ClockMax
    BY DEF TypeOK, Times
  <1>3. left \in Nat
    BY <1>1, <1>2
  <1> HIDE DEF left
  <1>4. q \in Nat /\ TicksPerMs * q <= left
    BY <1>1, <1>3, DivFloor
  <1>5. ASSUME w > 0, w < q  PROVE now + w * TicksPerMs \in 0..ClockMax
    <2>1. TicksPerMs * w <= TicksPerMs * q
      BY <1>1, <1>4, <1>5, MulMono
    <2>2. w * TicksPerMs = TicksPerMs * w /\ TicksPerMs * w \in Nat
      BY <1>1, <1>5
    <2> QED  BY <2>1, <2>2, <1>1, <1>2, <1>4 DEF left
  <1> QED
    BY <1>1, <1>2, <1>4, <1>5 DEF DeadlineFor, Times, left
------------------------------------------------------------------------------
(* Every step of a thread leaves config_ alone and writes only values the  *)
(* types allow, so a step preserves TypeOK.                                *)
LEMMA TypeOKStep == TypeOK /\ [Next]_vars => TypeOK'
  <1> SUFFICES ASSUME TypeOK, [Next]_vars PROVE TypeOK'
    OBVIOUS
  <1> DEFINE BucketOK ==
                 /\ config_' = config_
                 /\ tokens_' \in 0..config_.max_tokens
                 /\ now' \in Times
                 /\ last_refill_' \in 0..now'
             ThreadsOK ==
                 /\ mutex_' \in Threads \cup {NoThread}
                 /\ pc' \in [Threads -> PCs]
                 /\ deadline' \in [Threads -> Times \cup {NoWait}]
                 /\ wait' \in [Threads -> Times]
                 /\ wake' \in [Threads -> Times]
                 /\ calls' \in 0..MaxCalls
  <1>1. SUFFICES BucketOK /\ ThreadsOK
    BY DEF TypeOK
  <1>2. /\ ClockMax \in Nat /\ MaxCalls \in Nat /\ NoThread \notin Threads
        /\ now \in Times /\ last_refill_ \in 0..now /\ 0 \in Times
        /\ config_.max_tokens \in Nat /\ tokens_ \in 0..config_.max_tokens
        /\ config_.initial_tokens \in 0..config_.max_tokens
    BY ConstantsAssumption, Uint16Nat DEF TypeOK, ConfigType, Times
  <1>3. /\ mutex_ \in Threads \cup {NoThread} /\ pc \in [Threads -> PCs]
        /\ deadline \in [Threads -> Times \cup {NoWait}]
        /\ wait \in [Threads -> Times] /\ wake \in [Threads -> Times]
        /\ calls \in 0..MaxCalls
    BY DEF TypeOK
  <1>4. ASSUME TakeToken \/ NoToken, config_' = config_, now' = now
        PROVE  BucketOK
    BY <1>2, <1>4, RefillFacts DEF TakeToken, NoToken
  <1>5. ASSUME UNCHANGED <<config_, tokens_, last_refill_, now>>
        PROVE  BucketOK
    BY <1>2, <1>5
  <1>6. ASSUME NEW t \in Threads, Call(t)  PROVE calls' \in 0..MaxCalls
    BY <1>2, <1>3, <1>6 DEF Call
  <1>7. ASSUME NEW t \in Threads, TryAcquireTakes(t)  PROVE BucketOK /\ ThreadsOK
    <2>1. BucketOK  BY <1>4, <1>7 DEF TryAcquireTakes
    <2> QED  BY <2>1, <1>3, <1>6, <1>7 DEF TryAcquireTakes
  <1>8. ASSUME NEW t \in Threads, TryAcquireFails(t)  PROVE BucketOK /\ ThreadsOK
    <2>1. BucketOK  BY <1>4, <1>8 DEF TryAcquireFails
    <2> QED  BY <2>1, <1>3, <1>6, <1>8 DEF TryAcquireFails
  <1>9. ASSUME NEW t \in Threads, NEW d \in Times \cup {NoWait}, EnterLoop(t, d)
        PROVE  BucketOK /\ ThreadsOK
    <2>1. BucketOK  BY <1>5, <1>9 DEF EnterLoop
    <2> QED  BY <2>1, <1>3, <1>6, <1>9 DEF EnterLoop, PCs
  <1>10. ASSUME NEW t \in Threads, Acquire(t)  PROVE BucketOK /\ ThreadsOK
    <2>1. config_.max_wait \in Int \cup {NoWait}
      BY DEF TypeOK, ConfigType
    <2> QED  BY <2>1, <1>9, <1>10, DeadlineType DEF Acquire
  <1>11. ASSUME NEW t \in Threads, NEW w \in MaxWaits, AcquireFor(t, w)
         PROVE  BucketOK /\ ThreadsOK
    BY <1>9, <1>11, DeadlineType, ConstantsAssumption DEF AcquireFor
  <1>12. ASSUME NEW t \in Threads, Reset(t)  PROVE BucketOK /\ ThreadsOK
    <2>1. BucketOK  BY <1>2, <1>12 DEF Reset, Times
    <2> QED  BY <2>1, <1>3, <1>6, <1>12 DEF Reset
  <1>13. ASSUME NEW t \in Threads, Return(t)
         PROVE  /\ pc' \in [Threads -> PCs]
                /\ deadline' \in [Threads -> Times \cup {NoWait}]
                /\ wait' \in [Threads -> Times]
    BY <1>2, <1>3, <1>13 DEF Return, PCs
  <1>14. ASSUME NEW t \in Threads, LoopTakes(t)  PROVE BucketOK /\ ThreadsOK
    <2>1. BucketOK  BY <1>4, <1>14 DEF LoopTakes
    <2> QED  BY <2>1, <1>3, <1>13, <1>14 DEF LoopTakes
  <1>15. ASSUME NEW t \in Threads, LoopFindsNone(t)  PROVE BucketOK /\ ThreadsOK
    <2>1. BucketOK  BY <1>4, <1>15 DEF LoopFindsNone
    <2> QED  BY <2>1, <1>3, <1>15 DEF LoopFindsNone, PCs
  <1>16. ASSUME NEW t \in Threads, Measure(t)  PROVE BucketOK /\ ThreadsOK
    <2>1. BucketOK  BY <1>5, <1>16 DEF Measure
    <2> QED  BY <2>1, <1>3, <1>16, WaitTimeType DEF Measure, PCs
  <1>17. ASSUME NEW t \in Threads, GiveUp(t)  PROVE BucketOK /\ ThreadsOK
    <2>1. BucketOK  BY <1>5, <1>17 DEF GiveUp
    <2> QED  BY <2>1, <1>3, <1>13, <1>17 DEF GiveUp
  <1>18. ASSUME NEW t \in Threads, Sleep(t)  PROVE BucketOK /\ ThreadsOK
    <2>1. BucketOK  BY <1>5, <1>18 DEF Sleep
    <2>2. Smaller(now + wait[t], ClockMax) \in Times
      BY <1>2, <1>3 DEF Smaller, Times
    <2> QED  BY <2>1, <2>2, <1>2, <1>3, <1>18 DEF Sleep, PCs
  <1>19. ASSUME NEW t \in Threads, Wake(t)  PROVE BucketOK /\ ThreadsOK
    <2>1. BucketOK  BY <1>5, <1>19 DEF Wake
    <2> QED  BY <2>1, <1>2, <1>3, <1>19 DEF Wake, PCs
  <1>20. ASSUME Tick  PROVE BucketOK /\ ThreadsOK
    <2>1. BucketOK  BY <1>2, <1>20 DEF Tick, Times
    <2> QED  BY <2>1, <1>3, <1>20 DEF Tick
  <1>21. ASSUME UNCHANGED vars  PROVE BucketOK /\ ThreadsOK
    <2>1. BucketOK  BY <1>5, <1>21 DEF vars
    <2> QED  BY <2>1, <1>3, <1>21 DEF vars
  <1> HIDE DEF BucketOK, ThreadsOK
  <1> QED
    BY <1>7, <1>8, <1>10, <1>11, <1>12, <1>14, <1>15, <1>16, <1>17, <1>18,
       <1>19, <1>20, <1>21 DEF Next, Grants, Quiet, Finished

\* The constructor establishes the types, whatever configuration it is given.
LEMMA TypeOKInit == Init => TypeOK
  <1> SUFFICES ASSUME Init PROVE TypeOK
    OBVIOUS
  <1>1. PICK c \in Configs : config_ = sanitized(c)
    BY DEF Init
  <1>2. /\ config_ \in ConfigType /\ config_.max_tokens >= 1
        /\ config_.refill_interval >= 1
        /\ config_.initial_tokens <= config_.max_tokens
    BY <1>1, SanitizedOK, ConstantsAssumption
  <1>3. tokens_ \in 0..config_.max_tokens
    BY <1>2, Uint16Nat DEF Init, ConfigType
  <1> QED
    BY <1>2, <1>3, ConstantsAssumption DEF Init, TypeOK, Times, PCs

(* The limiter's types, and with them the bounds that keep the narrow      *)
(* arithmetic of refill(), take_or_wait_time() and acquire_for() exact:    *)
(* the bucket never overflows its capacity, last_refill_ never passes the  *)
(* clock, and no deadline or wake-up time passes the clock's maximum.      *)
THEOREM TypeCorrect == Spec => []TypeOK
  BY TypeOKInit, TypeOKStep, PTL DEF Spec
------------------------------------------------------------------------------
(* available_tokens(), which counts without refilling, returns what        *)
(* refill() would leave, in every reachable state.                         *)
THEOREM AvailableAgreesAlways == Spec => []AvailableAgrees
  <1>1. TypeOK => AvailableAgrees
    <2> SUFFICES ASSUME TypeOK PROVE AvailableAgrees
      OBVIOUS
    <2> DEFINE e == Earned(now)
               max == config_.max_tokens
    <2>1. e \in Nat /\ UINT16 \in Nat
      BY EarnedBounds, Uint16Nat
    <2>2. max \in 1..(UINT16 - 1) /\ tokens_ \in 0..max
      BY DEF TypeOK, ConfigType
    <2>3. available_tokens(now) = Smaller(tokens_ + Larger(e, 0), max) % UINT16
      BY DEF available_tokens
    <2>4. Refilled(now).tokens
            = IF tokens_ >= max THEN tokens_
              ELSE IF e <= 0 THEN tokens_
              ELSE IF tokens_ + e >= max THEN max
              ELSE (tokens_ + e) % UINT16
      BY DEF Refilled
    <2> HIDE DEF e, max
    <2>5. Larger(e, 0) = e
      BY <2>1 DEF Larger
    <2>6. \A n \in 0..max : n % UINT16 = n
      BY <2>1, <2>2
    <2> QED
      BY <2>1, <2>2, <2>3, <2>4, <2>5, <2>6 DEF AvailableAgrees, Smaller
  <1> QED
    BY <1>1, TypeCorrect, PTL

(* A failed try_acquire() and a failed pass of the acquire loop leave      *)
(* tokens_ and last_refill_ as they were.                                  *)
THEOREM AskingNeverDelays == Spec => AskingIsFree
  <1>1. TypeOK /\ [Next]_vars
          => [\A t \in Threads :
                TryAcquireFails(t) \/ LoopFindsNone(t)
                    => UNCHANGED <<tokens_, last_refill_>>]_vars
    BY RefillFacts DEF TryAcquireFails, LoopFindsNone, NoToken
  <1> QED
    BY <1>1, TypeCorrect, PTL DEF Spec, AskingIsFree
------------------------------------------------------------------------------
\* Two quotients of the same time by the same interval are one.
LEMMA DivUnique ==
    ASSUME NEW I \in Nat, I > 0, NEW d \in Int, NEW a \in Nat, NEW b \in Nat,
           I * a <= d, d < I * a + I, I * b <= d, d < I * b + I
    PROVE  a = b
  <1>1. ASSUME NEW m \in Nat, NEW n \in Nat, m < n
        PROVE  I * m + I <= I * n
    <2>1. I * (m + 1) <= I * n
      BY <1>1, MulMono
    <2>2. I * (m + 1) = I * m + I
      OBVIOUS
    <2> QED  BY <2>1, <2>2
  <1>2. I * a \in Int /\ I * b \in Int
    OBVIOUS
  <1> QED
    BY <1>1, <1>2

\* What refill() would add now, were there no capacity.
Due == Earned(now)

\* How many ticks of an interval have passed, as the eager bucket counts them.
Phase == now - Refilled(now).last

\* refill() in one line: the level is what was there and what was earned, cut off
\* at the capacity, and a full bucket makes no progress towards another token.
LEMMA LevelAndPhase ==
    TypeOK => /\ Level = Smaller(tokens_ + Due, config_.max_tokens)
              /\ Phase = IF tokens_ + Due >= config_.max_tokens THEN 0
                         ELSE now - last_refill_ - Interval * Due
  <1> SUFFICES ASSUME TypeOK
               PROVE  /\ Level = Smaller(tokens_ + Due, config_.max_tokens)
                      /\ Phase = IF tokens_ + Due >= config_.max_tokens THEN 0
                                 ELSE now - last_refill_ - Interval * Due
    OBVIOUS
  <1> DEFINE e == Due
             I == Interval
             max == config_.max_tokens
             r == Refilled(now)
  <1>1. /\ I \in Nat /\ e \in Nat /\ I * e \in Int /\ e * I = I * e
        /\ e = 0 => I * e = 0
    BY EarnedBounds DEF Due
  <1>2. /\ max \in 1..(UINT16 - 1) /\ tokens_ \in 0..max
        /\ now \in Nat /\ last_refill_ \in 0..now
    BY DEF TypeOK, ConfigType, Times
  <1>3. UINT16 \in Nat
    BY Uint16Nat
  <1>4. r = IF tokens_ >= max THEN [tokens |-> tokens_, last |-> now]
            ELSE IF e <= 0 THEN [tokens |-> tokens_, last |-> last_refill_]
            ELSE IF tokens_ + e >= max THEN [tokens |-> max, last |-> now]
            ELSE [tokens |-> (tokens_ + e) % UINT16,
                  last |-> last_refill_ + e * I]
    BY DEF Refilled, Due
  <1> HIDE DEF e, I, max, r
  <1>5. tokens_ + e < max => (tokens_ + e) % UINT16 = tokens_ + e
    BY <1>1, <1>2, <1>3
  <1>6. r.tokens = Smaller(tokens_ + e, max)
    BY <1>1, <1>2, <1>4, <1>5 DEF Smaller
  <1>7. now - r.last = IF tokens_ + e >= max THEN 0 ELSE now - last_refill_ - I * e
    BY <1>1, <1>2, <1>4
  <1> QED
    BY <1>6, <1>7 DEF Level, Phase, e, I, max, r

\* The facts of EarnedBounds, in a form that can be used of the next state too.
LEMMA EarnedFacts ==
    TypeOK => /\ Interval \in Nat /\ Interval > 0 /\ Due \in Nat
              /\ Interval * Due <= now - last_refill_
              /\ now - last_refill_ < Interval * Due + Interval
  BY EarnedBounds DEF Due

\* A tick of the clock is a tick of the timer.
LEMMA TickEarns == TypeOK /\ TypeOK' /\ Tick => Bucket!Earn
  <1> SUFFICES ASSUME TypeOK, TypeOK', Tick PROVE Bucket!Earn
    OBVIOUS
  <1> DEFINE e == Due
             f == Due'
             I == Interval
             max == config_.max_tokens
             d == now - last_refill_
  <1>1. /\ I \in Nat /\ I > 0 /\ e \in Nat /\ I * e <= d /\ d < I * e + I
        /\ Level = Smaller(tokens_ + e, max)
        /\ Phase = IF tokens_ + e >= max THEN 0 ELSE d - I * e
    BY EarnedFacts, LevelAndPhase
  <1>2. /\ config_' = config_ /\ tokens_' = tokens_ /\ last_refill_' = last_refill_
        /\ now' = now + 1 /\ Interval' = Interval
    BY DEF Tick, Interval
  <1>3. /\ max \in Nat /\ tokens_ \in 0..max /\ d \in Nat
        /\ now \in Nat /\ last_refill_ \in Nat
    BY Uint16Nat DEF TypeOK, ConfigType, Times
  <1>4. (TypeOK => /\ Level = Smaller(tokens_ + Due, config_.max_tokens)
              /\ Phase = IF tokens_ + Due >= config_.max_tokens THEN 0
                         ELSE now - last_refill_ - Interval * Due)'
    BY LevelAndPhase, PTL
  <1>5. (TypeOK => /\ Interval \in Nat /\ Interval > 0 /\ Due \in Nat
              /\ Interval * Due <= now - last_refill_
              /\ now - last_refill_ < Interval * Due + Interval)'
    BY EarnedFacts, PTL
  <1>6. /\ f \in Nat /\ I * f <= d + 1 /\ d + 1 < I * f + I
        /\ Level' = Smaller(tokens_ + f, max)
        /\ Phase' = IF tokens_ + f >= max THEN 0 ELSE (d + 1) - I * f
    <2>1. now' - last_refill_' = d + 1
      BY <1>2, <1>3
    <2> QED  BY <1>2, <1>4, <1>5, <2>1
  <1> HIDE DEF e, f, I, max, d
  <1>7. CASE d + 1 < I * e + I
    <2>1. I * e \in Nat
      BY <1>1
    <2>2. f = e
      BY <1>7, <1>1, <1>3, <1>6, <2>1, DivUnique
    <2> QED
      BY <2>1, <2>2, <1>1, <1>2, <1>3, <1>6, <1>7 DEF Bucket!Earn, Smaller, Phase, I, max
  <1>8. CASE d + 1 >= I * e + I
    <2>1. /\ I * e \in Nat /\ I * (e + 1) = I * e + I
      BY <1>1
    <2>3. d + 1 = I * e + I
      BY <1>1, <1>3, <1>8, <2>1
    <2>2. f = e + 1
      BY <1>1, <1>3, <1>6, <2>1, <2>3, DivUnique
    <2> QED
      BY <2>1, <2>2, <2>3, <1>1, <1>2, <1>3, <1>6 DEF Bucket!Earn, Smaller, Phase, I, max
  <1> QED
    BY <1>7, <1>8, <1>1, <1>3

\* A bucket just refilled: with less than an interval since last_refill_, and none
\* of it if it is full, tokens_ is the level and the time since then the phase.
LEMMA FreshBucket ==
    /\ TypeOK'
    /\ now' - last_refill_' < Interval'
    /\ tokens_' < config_'.max_tokens \/ last_refill_' = now'
    => Level' = tokens_' /\ Phase' = now' - last_refill_'
  <1> SUFFICES ASSUME TypeOK'  
                 PROVE  /\ now' - last_refill_' < Interval'
                        /\ tokens_' < config_'.max_tokens \/ last_refill_' = now'
                        => Level' = tokens_' /\ Phase' = now' - last_refill_'
    OBVIOUS
  <1>1. (TypeOK => /\ Level = Smaller(tokens_ + Due, config_.max_tokens)
                   /\ Phase = IF tokens_ + Due >= config_.max_tokens THEN 0
                              ELSE now - last_refill_ - Interval * Due)'
    BY LevelAndPhase, PTL
  <1>2. (TypeOK => /\ Interval \in Nat /\ Interval > 0 /\ Due \in Nat
                   /\ Interval * Due <= now - last_refill_
                   /\ now - last_refill_ < Interval * Due + Interval)'
    BY EarnedFacts, PTL
  <1>3. /\ config_'.max_tokens \in Nat /\ tokens_' \in 0..config_'.max_tokens
        /\ now' \in Nat /\ last_refill_' \in 0..now'
    BY Uint16Nat DEF TypeOK, ConfigType, Times
  <1> DEFINE I == Interval'
             d == now' - last_refill_'
             f == Due'
  <1>4. /\ I \in Nat /\ I > 0 /\ f \in Nat /\ d \in Nat
        /\ I * f <= d /\ d < I * f + I
    <2>1. d \in Nat  BY <1>3, SubNat
    <2>2. /\ I \in Nat /\ I > 0 /\ f \in Nat
          /\ I * f <= d /\ d < I * f + I
      BY <1>2
    <2> QED  BY <2>1, <2>2
  <1>5. I * 0 = 0
    <2> HIDE DEF I
    <2> QED  BY <1>4
  <1>6. d < I => f = 0
    <2> HIDE DEF I, d, f
    <2> QED  BY <1>4, <1>5, DivUnique
  <1> QED
    BY <1>1, <1>3, <1>4, <1>5, <1>6 DEF Smaller

\* take_or_wait_time() with a token: one token less, and no progress is lost.
LEMMA TakeSpends ==
    ASSUME TypeOK, TypeOK', TakeToken, config_' = config_, now' = now
    PROVE  Bucket!Spend
  <1> DEFINE r == Refilled(now)
  <1>1. /\ r.tokens \in 0..config_.max_tokens /\ r.last \in 0..now
        /\ now - r.last < Interval /\ now \in Nat /\ config_.max_tokens \in Nat
    BY RefillFacts, Uint16Nat DEF TypeOK, Times, ConfigType
  <1>2. r.tokens > 0 /\ tokens_' = r.tokens - 1 /\ last_refill_' = r.last
    BY DEF TakeToken
  <1>3. Interval' = Interval
    BY DEF Interval
  <1>4. Level' = tokens_' /\ Phase' = now' - last_refill_'
    <2> HIDE DEF r
    <2> QED  BY <1>1, <1>2, <1>3, FreshBucket
  <1>5. Level = r.tokens /\ Phase = now - r.last
    BY DEF Level, Phase
  <1> HIDE DEF r
  <1> QED
    BY <1>1, <1>2, <1>3, <1>4, <1>5 DEF Bucket!Spend, Phase

\* reset() starts the bucket and the interval again.
LEMMA ResetRefreshes ==
    ASSUME TypeOK, TypeOK', NEW t \in Threads, Reset(t)
    PROVE  Bucket!Refresh
  <1>1. /\ tokens_' = config_.initial_tokens /\ last_refill_' = now
        /\ now' = now /\ config_' = config_ /\ Interval' = Interval
    BY DEF Reset, Interval
  <1>2. now \in Nat /\ Interval > 0 /\ now - now = 0
    BY EarnedBounds DEF TypeOK, Times
  <1>3. Level' = tokens_' /\ Phase' = 0
    BY <1>1, <1>2, FreshBucket
  <1> QED
    BY <1>1, <1>3 DEF Bucket!Refresh, Phase

\* Whatever leaves the clock and the bucket alone stutters.
LEMMA BucketUndisturbed ==
    ASSUME UNCHANGED <<config_, tokens_, last_refill_, now>>
    PROVE  UNCHANGED Bucket!bucketVars
  BY DEF Bucket!bucketVars, Level, Refilled, Earned, Interval

\* Every step of the limiter is a step of the eager bucket or none.
LEMMA BucketStep ==
    TypeOK /\ TypeOK' /\ [Next]_vars => [Bucket!BucketNext]_(Bucket!bucketVars)
  <1> SUFFICES ASSUME TypeOK, TypeOK', [Next]_vars
               PROVE  Bucket!BucketNext \/ UNCHANGED Bucket!bucketVars
    OBVIOUS
  <1>1. ASSUME NEW t \in Threads, Grants(t)  PROVE Bucket!Spend
    BY <1>1, TakeSpends DEF Grants, TryAcquireTakes, LoopTakes
  <1>2. ASSUME NEW t \in Threads, TryAcquireFails(t) \/ LoopFindsNone(t)
        PROVE  UNCHANGED Bucket!bucketVars
    <2>1. UNCHANGED <<config_, tokens_, last_refill_, now>>
      BY <1>2, RefillFacts DEF TryAcquireFails, LoopFindsNone, NoToken
    <2> QED  BY <2>1, BucketUndisturbed
  <1>3. ASSUME NEW t \in Threads, Reset(t)  PROVE Bucket!Refresh
    BY <1>3, ResetRefreshes
  <1>4. ASSUME NEW t \in Threads,
               \/ Acquire(t) \/ \E w \in MaxWaits : AcquireFor(t, w)
               \/ Measure(t) \/ GiveUp(t) \/ Sleep(t) \/ Wake(t)
        PROVE  UNCHANGED Bucket!bucketVars
    <2>1. UNCHANGED <<config_, tokens_, last_refill_, now>>
      BY <1>4 DEF Acquire, AcquireFor, EnterLoop, Measure, GiveUp, Sleep, Wake
    <2> QED  BY <2>1, BucketUndisturbed
  <1>5. ASSUME Finished \/ UNCHANGED vars  PROVE UNCHANGED Bucket!bucketVars
    <2>1. UNCHANGED <<config_, tokens_, last_refill_, now>>
      BY <1>5 DEF Finished, vars
    <2> QED  BY <2>1, BucketUndisturbed
  <1> QED
    BY <1>1, <1>2, <1>3, <1>4, <1>5, TickEarns DEF Next, Quiet, Bucket!BucketNext

\* The constructor makes an eager bucket at its initial level.
LEMMA BucketStart == Init => Bucket!BucketInit
  <1> SUFFICES ASSUME Init PROVE Bucket!BucketInit
    OBVIOUS
  <1>1. TypeOK
    BY TypeOKInit
  <1>2. /\ config_.max_tokens \in Nat \ {0}
        /\ config_.initial_tokens \in 0..config_.max_tokens
    BY <1>1, Uint16Nat DEF TypeOK, ConfigType
  <1>3. /\ Interval \in Nat \ {0} /\ Due \in Nat
        /\ Interval * Due <= 0 /\ 0 < Interval * Due + Interval
        /\ now = 0 /\ last_refill_ = 0
    BY <1>1, EarnedFacts DEF Init
  <1>4. Interval * 0 = 0 
    BY <1>3
  <1>5. Due = 0
    BY <1>3, <1>4, DivUnique
  <1>6. tokens_ = config_.initial_tokens
    BY DEF Init
  <1>7. Level = config_.initial_tokens /\ Phase = 0
    BY <1>1, <1>2, <1>3, <1>4, <1>5, <1>6, LevelAndPhase DEF Smaller
  <1> QED
    BY <1>2, <1>3, <1>7 DEF Bucket!BucketInit, Phase

(* The refinement: a limiter that refills lazily, under a mutex, whenever  *)
(* one of its threads asks, implements the bucket that a timer fills.      *)
(* Every granted call spends one token, no other call changes the level,   *)
(* and ticks earn tokens however they are spread over the calls.           *)
THEOREM LimiterIsABucket == Spec => ImplementsBucket
  BY TypeCorrect, BucketStart, BucketStep, PTL
     DEF Spec, ImplementsBucket, Bucket!BucketSpec
------------------------------------------------------------------------------
\* With the history.

\* The inductive part of RateBound.  Every grant of the window was paid for: what
\* has been granted and what is still in the bucket, in ticks, is covered by a
\* full bucket, the resets, and the time up to last_refill_ (and not up to now:
\* later time is still to be earned).  Before the first grant the bucket may
\* have been full since long before the window, so nothing is claimed then.
Covered ==
    \/ winGrants = 0
    \/ Interval * (winGrants + tokens_)
           <= Interval * (config_.max_tokens + config_.initial_tokens * winResets)
              + (last_refill_ - winStart)

\* When the next token arrives, as take_or_wait_time() works it out.
Arrival == Smaller(last_refill_ + WaitInterval, ClockMax)

\* The inductive part of OneSleepSuffices: nobody has touched the bucket since an
\* undisturbed thread found it empty, and the thread is not early at any point.
NotEarly(t) ==
    /\ tokens_ = 0
    /\ pc[t] # "idle"
    /\ pc[t] = "check" => now + wait[t] >= Arrival
    /\ pc[t] = "sleep" => wake[t] >= Arrival
    /\ pc[t] = "take" => now >= Arrival

HInv == TypeOK /\ HTypeOK /\ Covered /\ \A t \in undisturbed : NotEarly(t)

\* Watching changes nothing: a step of the watched limiter is one of the limiter.
LEMMA HistoryStep == [HNext]_histVars => [Next]_vars
  BY DEF HNext, HGrants, HReset, HFindsNone, HGiveUp, HQuiet, OpenWindow, Next,
         histVars

\* The facts about the numbers in a typed state that the steps below use.
LEMMA Numbers ==
    ASSUME TypeOK, HTypeOK
    PROVE  /\ Interval \in Nat /\ Interval > 0
           /\ config_.max_tokens \in Nat /\ config_.initial_tokens \in Nat
           /\ tokens_ \in Nat /\ last_refill_ \in Nat /\ now \in Nat
           /\ last_refill_ <= now /\ winStart \in Nat /\ winStart <= now
           /\ winGrants \in Nat /\ winResets \in Nat
           /\ Arrival \in Nat
  <1>1. Interval \in Nat /\ Interval > 0
    BY EarnedBounds
  <1>2. WaitInterval \in Nat /\ ClockMax \in Nat
    BY WaitTimeType, ConstantsAssumption
  <1>3. last_refill_ \in Nat /\ now \in Nat /\ last_refill_ <= now
    BY DEF TypeOK, Times
  <1>4. config_.max_tokens \in Nat /\ config_.initial_tokens \in Nat
    BY Uint16Nat DEF TypeOK, ConfigType
  <1>5. tokens_ \in Nat
    BY <1>4 DEF TypeOK
  <1>6. Arrival \in Nat
    BY <1>2, <1>3 DEF Arrival, Smaller
  <1> QED
    BY <1>1, <1>3, <1>4, <1>5, <1>6 DEF HTypeOK

\* A granting step pays for its token.
LEMMA GrantCovered ==
    ASSUME TypeOK, HTypeOK, Covered, TakeToken, config_' = config_,
           winGrants' = winGrants + 1, UNCHANGED <<winStart, winResets>>
    PROVE  Covered'
  <1> DEFINE I == Interval
             g == winGrants
             budget == config_.max_tokens + config_.initial_tokens * winResets
             extra == config_.initial_tokens * winResets
             k == Refilled(now).tokens
             last == Refilled(now).last
  <1>1. /\ I \in Nat /\ I > 0 /\ g \in Nat /\ tokens_ \in Nat
        /\ last_refill_ \in Nat /\ winStart \in Nat /\ now \in Nat
        /\ winStart <= now /\ config_.max_tokens \in Nat
        /\ config_.initial_tokens \in Nat /\ winResets \in Nat
    BY Numbers
  <1>2. /\ k \in Nat /\ k <= config_.max_tokens /\ last \in Nat
        /\ I * k + last_refill_ <= I * tokens_ + last
        /\ now - last < I
        /\ k < config_.max_tokens \/ last = now
    BY <1>1, RefillFacts
  <1>3. k > 0 /\ tokens_' = k - 1 /\ last_refill_' = last /\ I' = I
    BY DEF TakeToken, Interval
  <1>4. extra \in Nat /\ budget = config_.max_tokens + extra
    BY <1>1
  <1> HIDE DEF I, k, last, extra, budget
  <1>5. SUFFICES I * (g + k) <= I * budget + (last - winStart)
    <2>1. winGrants' + tokens_' = g + k
      BY <1>1, <1>2, <1>3
    <2>2. budget' = budget /\ winStart' = winStart
      BY DEF budget
    <2>3. (Interval * (winGrants + tokens_))' = I * (g + k)
      BY <2>1, <1>3 DEF I
    <2>4. (Interval * (config_.max_tokens + config_.initial_tokens * winResets)
              + (last_refill_ - winStart))' = I * budget + (last - winStart)
      BY <1>3, <2>2 DEF I, budget
    <2> QED  BY <1>5, <2>3, <2>4 DEF Covered
  <1>6. CASE g = 0
    <2>1. CASE last = now
      <3>1. k <= budget /\ budget \in Nat
        BY <1>1, <1>2, <1>4
      <3>2. I * k <= I * budget
        BY <3>1, <1>1, <1>2, MulMono
      <3>3. I * k \in Nat /\ I * budget \in Nat /\ g + k = k
        BY <3>1, <1>1, <1>2, <1>6
      <3> QED  BY <3>2, <3>3, <2>1, <1>1, <1>2
    <2>2. CASE k < config_.max_tokens
      <3>1. k + 1 <= budget /\ budget \in Nat
        BY <2>2, <1>1, <1>2, <1>4
      <3>2. I * (k + 1) <= I * budget
        BY <3>1, <1>1, <1>2, MulMono
      <3>3. I * (k + 1) = I * k + I /\ I * k \in Nat /\ I * budget \in Nat
        BY <3>1, <1>1, <1>2
      <3>4. winStart - last < I
        BY <1>1, <1>2
      <3>5. g + k = k
        BY <1>6, <1>2
      <3> QED  BY <3>2, <3>3, <3>4, <3>5, <1>1, <1>2
    <2> QED  BY <2>1, <2>2, <1>2
  <1>7. CASE g # 0
    <2>1. I * (g + tokens_) <= I * budget + (last_refill_ - winStart)
      BY <1>7 DEF Covered, I, budget
    <2>2. I * (g + tokens_) = I * g + I * tokens_ /\ I * (g + k) = I * g + I * k
          /\ I * g \in Nat /\ I * k \in Nat /\ I * tokens_ \in Nat
      BY <1>1, <1>2
    <2>3. I * budget \in Int
      BY <1>1, <1>4
    <2> QED  BY <2>1, <2>2, <2>3, <1>1, <1>2
  <1> QED
    BY <1>6, <1>7

\* reset() pays for the tokens it puts back with its own initial tokens.
LEMMA ResetCovered ==
    ASSUME TypeOK, HTypeOK, Covered, tokens_' = config_.initial_tokens,
           last_refill_' = now, config_' = config_,
           winResets' = winResets + 1, UNCHANGED <<winStart, winGrants>>
    PROVE  Covered'
  <1> DEFINE I == Interval
             g == winGrants
             init == config_.initial_tokens
             max == config_.max_tokens
             budget == max + init * winResets
  <1>1. /\ I \in Nat /\ g \in Nat /\ tokens_ \in Nat /\ last_refill_ \in Nat
        /\ winStart \in Nat /\ now \in Nat /\ last_refill_ <= now
        /\ max \in Nat /\ init \in Nat /\ winResets \in Nat
    BY Numbers
  <1>2. I' = I /\ init' = init /\ max' = max
    BY DEF Interval
  <1>3. init * (winResets + 1) = init * winResets + init
        /\ init * winResets \in Nat
    BY <1>1
  <1>4. budget' = budget + init /\ budget \in Nat
    <2>1. budget' = max + init * (winResets + 1)
      BY <1>2
    <2> QED  BY <2>1, <1>1, <1>3
  <1> HIDE DEF I, init, max, budget
  <1>5. CASE g = 0
    BY <1>5 DEF Covered
  <1>6. CASE g # 0
    <2>1. I * (g + tokens_) <= I * budget + (last_refill_ - winStart)
      BY <1>6 DEF Covered, I, budget, max, init
    <2>2. /\ I * (g + tokens_) = I * g + I * tokens_
          /\ I * (g + init) = I * g + I * init
          /\ I * (budget + init) = I * budget + I * init
          /\ I * g \in Nat /\ I * tokens_ \in Nat /\ I * budget \in Nat
          /\ I * init \in Nat
      BY <1>1, <1>4
    <2>3. I * (g + init) <= I * (budget + init) + (now - winStart)
      BY <2>1, <2>2, <1>1
    <2>4. (Interval * (winGrants + tokens_))' = I * (g + init)
      BY <1>2 DEF I, init
    <2>5. (Interval * (config_.max_tokens + config_.initial_tokens * winResets)
              + (last_refill_ - winStart))' = I * (budget + init) + (now - winStart)
      BY <1>2, <1>4 DEF I, budget, max, init
    <2> QED  BY <2>3, <2>4, <2>5 DEF Covered
  <1> QED
    BY <1>5, <1>6
------------------------------------------------------------------------------
\* A step that leaves the bucket and the window alone keeps the window covered.
LEMMA StillCovered ==
    ASSUME Covered,
           UNCHANGED <<config_, tokens_, last_refill_, winStart, winGrants,
                       winResets>>
    PROVE  Covered'
  BY DEF Covered, Interval

\* A step that leaves the bucket alone and does not turn the clock back keeps a
\* thread that it does not move from being early.
LEMMA StillNotEarly ==
    ASSUME TypeOK, HTypeOK, TypeOK', NEW t \in Threads, NotEarly(t),
           UNCHANGED <<config_, tokens_, last_refill_>>, now' >= now,
           pc'[t] = pc[t], wait'[t] = wait[t], wake'[t] = wake[t]
    PROVE  NotEarly(t)'
  <1>1. Arrival' = Arrival /\ Arrival \in Nat
    <2>1. Arrival' = Arrival
      BY DEF Arrival, WaitInterval, Interval
    <2> QED  BY <2>1, Numbers
  <1>2. now \in Nat /\ now' \in Nat /\ wait[t] \in Nat
    BY ConstantsAssumption DEF TypeOK, Times
  <1> QED
    BY <1>1, <1>2 DEF NotEarly

\* A new limiter, watched from its construction on, has granted nothing yet.
LEMMA HInvInit == HInit => HInv
  <1> SUFFICES ASSUME HInit PROVE HInv
    OBVIOUS
  <1>1. TypeOK
    BY TypeOKInit DEF HInit
  <1> QED
    BY <1>1 DEF HInit, HInv, HTypeOK, Covered, TypeOK, Times

(* Every step of the watched limiter preserves the inductive invariant.    *)
LEMMA HInvStep == HInv /\ [HNext]_histVars => HInv'
  <1> SUFFICES ASSUME HInv, [HNext]_histVars PROVE HInv'
    OBVIOUS
  <1>1. TypeOK /\ HTypeOK /\ Covered /\ \A t \in undisturbed : NotEarly(t)
    BY DEF HInv
  <1>2. TypeOK'
    BY <1>1, HistoryStep, TypeOKStep
  <1>3. now \in Nat /\ now' \in Nat /\ winStart \in 0..now
        /\ winGrants \in Nat /\ winResets \in Nat /\ undisturbed \subseteq Threads
    BY <1>1, <1>2 DEF TypeOK, HTypeOK, Times
  <1> DEFINE Calm == UNCHANGED <<config_, tokens_, last_refill_>>
             AllNotEarly == \A t \in undisturbed' : NotEarly(t)'
  \* No token found means no change to the bucket.
  <1>4. ASSUME NoToken  PROVE tokens_ = 0 /\ UNCHANGED <<tokens_, last_refill_>>
    BY <1>1, <1>4, RefillFacts DEF NoToken
  \* A thread that is not moved stays punctual while the bucket is calm.
  <1>5. ASSUME NEW t \in undisturbed, Calm, now' >= now, pc'[t] = pc[t],
               wait'[t] = wait[t], wake'[t] = wake[t]
        PROVE  NotEarly(t)'
    BY <1>1, <1>2, <1>3, <1>5, StillNotEarly
  <1>6. Arrival \in Nat /\ ClockMax \in Nat /\ pc \in [Threads -> PCs]
        /\ wait \in [Threads -> Times] /\ wake \in [Threads -> Times]
    BY <1>1, Numbers, ConstantsAssumption DEF TypeOK
  <1>7. Calm => Arrival' = Arrival
    BY DEF Arrival, WaitInterval, Interval
  <1>8. ASSUME NEW t \in Threads, HGrants(t)  PROVE HInv'
    <2>1. TakeToken /\ config_' = config_ /\ now' = now
      BY <1>8 DEF HGrants, Grants, TryAcquireTakes, LoopTakes
    <2>2. Covered'
      BY <1>1, <1>8, <2>1, GrantCovered DEF HGrants
    <2> QED  BY <1>2, <1>3, <1>8, <2>1, <2>2 DEF HGrants, HInv, HTypeOK
  <1>9. ASSUME NEW t \in Threads, HReset(t)  PROVE HInv'
    <2>1. Covered'
      BY <1>1, <1>9, ResetCovered DEF HReset, Reset
    <2> QED  BY <1>2, <1>3, <1>9, <2>1 DEF HReset, Reset, HInv, HTypeOK
  <1>10. ASSUME NEW t \in Threads, HFindsNone(t)  PROVE HInv'
    <2>1. Calm /\ tokens_ = 0 /\ now' = now
      BY <1>4, <1>10 DEF HFindsNone, LoopFindsNone
    <2>2. Covered'
      BY <1>1, <1>10, <2>1, StillCovered DEF HFindsNone, windowVars
    <2>3. NotEarly(t)'
      BY <1>6, <1>10, <2>1 DEF HFindsNone, LoopFindsNone, NotEarly
    <2>4. ASSUME NEW s \in undisturbed, s # t  PROVE NotEarly(s)'
      BY <1>3, <1>5, <1>6, <1>10, <2>1, <2>4 DEF HFindsNone, LoopFindsNone
    <2> QED
      BY <1>2, <1>3, <1>10, <2>1, <2>2, <2>3, <2>4
         DEF HFindsNone, HInv, HTypeOK, windowVars
  <1>11. ASSUME NEW t \in Threads, HGiveUp(t)  PROVE HInv'
    <2>1. Calm /\ now' = now
      BY <1>11 DEF HGiveUp, GiveUp
    <2>2. Covered'
      BY <1>1, <1>11, <2>1, StillCovered DEF HGiveUp, windowVars
    <2>3. ASSUME NEW s \in undisturbed, s # t  PROVE NotEarly(s)'
      BY <1>3, <1>5, <1>6, <1>11, <2>1, <2>3 DEF HGiveUp, GiveUp, Return
    <2> QED
      BY <1>2, <1>3, <1>11, <2>1, <2>2, <2>3
         DEF HGiveUp, HInv, HTypeOK, windowVars
  \* The steps that leave the window and the set of undisturbed threads alone.
  <1>12. ASSUME Calm, now' >= now, UNCHANGED <<windowVars, undisturbed>>,
                AllNotEarly
         PROVE  HInv'
    <2>1. Covered'
      BY <1>1, <1>12, StillCovered DEF windowVars
    <2>2. HTypeOK'
      BY <1>3, <1>12 DEF HTypeOK, windowVars
    <2> QED  BY <1>2, <1>12, <2>1, <2>2 DEF HInv
  <1>13. ASSUME NEW t \in Threads, Quiet(t), UNCHANGED <<windowVars, undisturbed>>
         PROVE  HInv'
    <2>1. CASE TryAcquireFails(t)
      <3>1. Calm /\ now' >= now
        BY <1>3, <1>4, <2>1 DEF TryAcquireFails
      <3>2. AllNotEarly
        BY <1>5, <1>13, <2>1, <3>1 DEF TryAcquireFails
      <3> QED  BY <1>12, <1>13, <3>1, <3>2
    <2>2. ASSUME NEW d, EnterLoop(t, d)  PROVE HInv'
      <3>1. Calm /\ now' >= now
        BY <1>3, <2>2 DEF EnterLoop
      <3>2. t \notin undisturbed
        BY <1>1, <2>2 DEF EnterLoop, Call, NotEarly
      <3>3. AllNotEarly
        BY <1>3, <1>5, <1>6, <1>13, <2>2, <3>1, <3>2 DEF EnterLoop
      <3> QED  BY <1>12, <1>13, <3>1, <3>3
    <2>3. CASE Measure(t)
      <3>1. Calm /\ now' = now /\ now' >= now
        BY <1>3, <2>3 DEF Measure
      <3>2. now + WaitTime >= Arrival
        <4>1. /\ WaitInterval \in Nat /\ WaitTime \in Nat
              /\ WaitTime >= WaitInterval - (now - last_refill_)
              /\ last_refill_ \in Nat
          BY <1>1, <1>3, <1>6, WaitTimeType, Numbers DEF Times
        <4> QED  BY <1>3, <1>6, <4>1 DEF Arrival, Smaller
      <3>3. ASSUME t \in undisturbed  PROVE NotEarly(t)'
        BY <1>1, <1>3, <1>6, <1>7, <2>3, <3>1, <3>2, <3>3 DEF Measure, NotEarly
      <3>4. ASSUME NEW s \in undisturbed, s # t  PROVE NotEarly(s)'
        BY <1>3, <1>5, <1>6, <2>3, <3>1, <3>4 DEF Measure
      <3> QED  BY <1>12, <1>13, <3>1, <3>3, <3>4
    <2>4. CASE Sleep(t)
      <3>1. Calm /\ now' = now /\ now' >= now
        BY <1>3, <2>4 DEF Sleep
      <3>2. ASSUME t \in undisturbed  PROVE NotEarly(t)'
        <4>1. now + wait[t] >= Arrival
          BY <1>1, <2>4, <3>2 DEF Sleep, NotEarly
        <4>2. ClockMax >= Arrival
          BY <1>1, <1>6, Numbers, WaitTimeType DEF Arrival, Smaller
        <4>3. Smaller(now + wait[t], ClockMax) >= Arrival
          BY <4>1, <4>2 DEF Smaller
        <4> QED
          BY <1>1, <1>3, <1>6, <1>7, <2>4, <3>1, <3>2, <4>3 DEF Sleep, NotEarly
      <3>3. ASSUME NEW s \in undisturbed, s # t  PROVE NotEarly(s)'
        BY <1>3, <1>5, <1>6, <2>4, <3>1, <3>3 DEF Sleep
      <3> QED  BY <1>12, <1>13, <3>1, <3>2, <3>3
    <2>5. CASE Wake(t)
      <3>1. Calm /\ now' = now /\ now' >= now
        BY <1>3, <2>5 DEF Wake
      <3>2. ASSUME t \in undisturbed  PROVE NotEarly(t)'
        <4>1. wake[t] >= Arrival /\ now >= wake[t] /\ wake[t] \in Nat
          BY <1>1, <1>3, <1>6, <2>5, <3>2 DEF Wake, NotEarly, Times
        <4>2. now >= Arrival
          BY <4>1, <1>3, <1>6
        <4> QED
          BY <1>1, <1>3, <1>6, <1>7, <2>5, <3>1, <3>2, <4>2 DEF Wake, NotEarly
      <3>3. ASSUME NEW s \in undisturbed, s # t  PROVE NotEarly(s)'
        BY <1>3, <1>5, <1>6, <2>5, <3>1, <3>3 DEF Wake
      <3> QED  BY <1>12, <1>13, <3>1, <3>2, <3>3
    <2> QED
      BY <1>13, <2>1, <2>2, <2>3, <2>4, <2>5 DEF Quiet, Acquire, AcquireFor
  <1>14. ASSUME Tick, UNCHANGED <<windowVars, undisturbed>>  PROVE HInv'
    <2>1. Calm /\ now' >= now
      BY <1>3, <1>14 DEF Tick
    <2>2. AllNotEarly
      BY <1>5, <1>14, <2>1 DEF Tick
    <2> QED  BY <1>12, <1>14, <2>1, <2>2
  <1>15. ASSUME UNCHANGED vars, UNCHANGED <<windowVars, undisturbed>>
         PROVE  HInv'
    <2>1. Calm /\ now' >= now
      BY <1>3, <1>15 DEF vars
    <2>2. AllNotEarly
      BY <1>5, <1>15, <2>1 DEF vars
    <2> QED  BY <1>12, <1>15, <2>1, <2>2
  <1>16. ASSUME OpenWindow  PROVE HInv'
    <2>1. Calm /\ now' >= now
      BY <1>3, <1>16 DEF OpenWindow, vars
    <2>2. AllNotEarly
      BY <1>5, <1>16, <2>1 DEF OpenWindow, vars
    <2> QED
      BY <1>2, <1>3, <1>16, <2>2 DEF OpenWindow, vars, HInv, HTypeOK, Covered
  <1> HIDE DEF Calm, AllNotEarly
  <1> QED
    BY <1>8, <1>9, <1>10, <1>11, <1>13, <1>14, <1>15, <1>16
       DEF HNext, HQuiet, Finished, histVars

\* The inductive invariant holds throughout.
LEMMA HInvAlways == HSpec => []HInv
  BY HInvInit, HInvStep, PTL DEF HSpec

(* Over every window of time the limiter grants no more than the burst     *)
(* capacity, one token per interval, and the initial tokens of each        *)
(* reset(), however the threads interleave and however often refill() runs.*)
THEOREM RateBounded == HSpec => []RateBound
  <1>1. HInv => RateBound
    <2> SUFFICES ASSUME HInv PROVE RateBound
      OBVIOUS
    <2> DEFINE I == Interval
               g == winGrants
               budget == config_.max_tokens + config_.initial_tokens * winResets
    <2>1. TypeOK /\ HTypeOK /\ Covered
      BY DEF HInv
    <2>2. /\ I \in Nat /\ g \in Nat /\ tokens_ \in Nat /\ last_refill_ \in Nat
          /\ winStart \in Nat /\ now \in Nat /\ last_refill_ <= now
          /\ winStart <= now /\ winResets \in Nat
          /\ config_.max_tokens \in Nat /\ config_.initial_tokens \in Nat
      BY <2>1, Numbers
    <2>3. budget \in Nat
      BY <2>2
    <2> HIDE DEF I, budget
    <2>4. I * g \in Nat /\ I * tokens_ \in Nat /\ I * budget \in Nat
          /\ I * (g + tokens_) = I * g + I * tokens_
      BY <2>2, <2>3
    <2>5. CASE g = 0
      <3>1. I * g = 0
        BY <2>2, <2>5
      <3> QED  BY <2>2, <2>4, <3>1 DEF RateBound, I, budget
    <2>6. CASE g # 0
      <3>1. I * (g + tokens_) <= I * budget + (last_refill_ - winStart)
        BY <2>1, <2>6 DEF Covered, I, budget
      <3>2. I * g <= I * budget + (now - winStart)
        BY <3>1, <2>2, <2>4
      <3> QED  BY <3>2 DEF RateBound, I, budget
    <2> QED  BY <2>5, <2>6
  <1> QED
    BY <1>1, HInvAlways, PTL

(* A thread that found the bucket empty, slept, and was not overtaken finds *)
(* a token when it looks again.                                            *)
THEOREM OneSleepIsEnough == HSpec => []OneSleepSuffices
  <1>1. HInv => OneSleepSuffices
    <2> SUFFICES ASSUME HInv, now < ClockMax, NEW t \in undisturbed,
                        pc[t] = "take"
                 PROVE  available_tokens(now) > 0
      BY DEF OneSleepSuffices
    <2> DEFINE e == Earned(now)
               max == config_.max_tokens
    <2>1. TypeOK /\ HTypeOK /\ tokens_ = 0 /\ now >= Arrival
      BY DEF HInv, NotEarly
    <2>2. /\ Interval \in Nat /\ e \in Nat /\ now \in Nat /\ last_refill_ \in Nat
          /\ ClockMax \in Nat /\ UINT16 \in Nat /\ WaitInterval \in Nat
          /\ now - last_refill_ < Interval * e + Interval
      BY <2>1, EarnedBounds, Numbers, WaitTimeType, Uint16Nat,
         ConstantsAssumption
    <2>3. max \in 1..(UINT16 - 1)
      BY <2>1 DEF TypeOK, ConfigType
    <2>4. now >= last_refill_ + WaitInterval
      BY <2>1, <2>2 DEF Arrival, Smaller
    <2>5. WaitInterval = Interval
      BY <2>2, <2>4 DEF WaitInterval
    <2>6. available_tokens(now) = Smaller(tokens_ + Larger(e, 0), max) % UINT16
      BY DEF available_tokens
    <2> HIDE DEF e, max
    <2>7. e > 0
      <3>1. ASSUME e = 0  PROVE Interval * e = 0
        BY <3>1, <2>2
      <3> QED  BY <3>1, <2>2, <2>4, <2>5
    <2>8. Smaller(tokens_ + Larger(e, 0), max) \in 1..max
      BY <2>1, <2>2, <2>3, <2>7 DEF Smaller, Larger
    <2> QED
      BY <2>2, <2>3, <2>6, <2>8
  <1> QED
    BY <1>1, HInvAlways, PTL
==============================================================================
