----------------------------- MODULE RetryProofs -----------------------------
(***************************************************************************)
(* Proofs about Retry, for every set of policies (with any number in any   *)
(* field) and every set of statuses.  The delays need induction over the   *)
(* loop of calculate_retry_delay(), which is what the first section is     *)
(* for; the rest is the invariant of with_retry().                         *)
(***************************************************************************)
EXTENDS Retry, WellFoundedInduction, TLAPS

------------------------------------------------------------------------------
\* Induction and loops.

\* A nonempty set of natural numbers has a least element.
LEMMA LeastNat ==
    ASSUME NEW T \in SUBSET Nat, T # {}
    PROVE  \E m \in T : \A n \in T : m <= n
  <1> DEFINE R == OpToRel(<, Nat)
  <1>1. IsWellFoundedOn(R, Nat)
    BY NatLessThanWellFounded
  <1>2. \A x, y \in Nat : x < y => <<x, y>> \in R
    BY DEF OpToRel
  <1> HIDE DEF R
  <1>3. \E m \in T : \A n \in T : ~ (<<n, m>> \in R)
    BY <1>1, WFMin
  <1>4. \E m \in T : \A n \in T : ~ (n < m)
    BY <1>2, <1>3, Zenon
  <1>5. \A m, n \in Nat : ~ (n < m) => m <= n
    OBVIOUS
  <1> QED
    BY <1>4, <1>5, Zenon

\* Induction, for sets: the library's rule is about formulas, which the provers
\* cannot instantiate.
LEMMA SetInduction ==
    ASSUME NEW T \in SUBSET Nat, 0 \in T, \A n \in T : n + 1 \in T
    PROVE  T = Nat
  <1> SUFFICES ASSUME Nat \ T # {} PROVE FALSE
    OBVIOUS
  <1>1. PICK m \in Nat \ T : \A n \in Nat \ T : m <= n
    BY LeastNat
  <1> QED
    BY <1>1, m - 1 \in Nat

\* f runs through a, step[a], step[step[a]], ...
IsIteration(f, V, a, step) ==
    f \in [Nat -> V] /\ f[0] = a /\ \A i \in Nat : f[i + 1] = step[f[i]]

\* Every loop that repeats a step has such a run: what a recursive function needs to
\* exist.  Finite runs exist by induction, agree where they overlap, and their last
\* values make up the run.
LEMMA Iteration ==
    ASSUME NEW V, NEW a \in V, NEW step \in [V -> V]
    PROVE  \E f : IsIteration(f, V, a, step)
  <1> DEFINE Run(n) == {f \in [0..n -> V] :
                          f[0] = a /\ \A i \in 0..(n - 1) : f[i + 1] = step[f[i]]}
  <1>1. \A n \in Nat : Run(n) # {}
    <2> DEFINE T == {n \in Nat : Run(n) # {}}
    <2>1. 0 \in T
      <3>1. [i \in 0..0 |-> a] \in Run(0)
        OBVIOUS
      <3> QED  BY <3>1
    <2>2. ASSUME NEW n \in T  PROVE n + 1 \in T
      <3>1. PICK f \in Run(n) : TRUE
        BY <2>2
      <3> DEFINE g == [i \in 0..(n + 1) |-> IF i = n + 1 THEN step[f[n]] ELSE f[i]]
      <3>2. f \in [0..n -> V] /\ f[0] = a /\ \A i \in 0..(n - 1) : f[i + 1] = step[f[i]]
        BY <3>1
      <3>3. n \in Nat  BY <2>2
      <3>4. g \in [0..(n + 1) -> V]
        BY <3>2, <3>3
      <3>5. g[0] = a
        BY <3>2, <3>3
      <3>6. ASSUME NEW i \in 0..((n + 1) - 1)  PROVE g[i + 1] = step[g[i]]
        <4>1. CASE i = n
          BY <3>2, <3>3, <4>1
        <4>2. CASE i # n
          <5>1. /\ i \in 0..(n - 1) /\ i \in 0..(n + 1) /\ i + 1 \in 0..(n + 1)
                /\ i # n + 1 /\ i + 1 # n + 1
            BY <3>3, <3>6, <4>2
          <5> QED  BY <3>2, <5>1
        <4> QED  BY <4>1, <4>2
      <3> HIDE DEF g
      <3>7. g \in Run(n + 1)
        BY <3>4, <3>5, <3>6
      <3> QED  BY <3>3, <3>7
    <2> HIDE DEF T
    <2>3. T = Nat
      <3>1. T \in SUBSET Nat  BY DEF T
      <3> QED BY <2>1, <2>2, <3>1, SetInduction
    <2> QED  BY <2>3 DEF T
  <1>2. ASSUME NEW n \in Nat, NEW p \in Nat, NEW f \in Run(n), NEW g \in Run(p)
        PROVE  \A i \in Nat : i <= n /\ i <= p => f[i] = g[i]
    <2> DEFINE T == {i \in Nat : i <= n /\ i <= p => f[i] = g[i]}
    <2>1. 0 \in T
      OBVIOUS
    <2>2. ASSUME NEW i \in T  PROVE i + 1 \in T
      <3>1. i \in Nat /\ (i <= n /\ i <= p => f[i] = g[i])
        BY <2>2
      <3>2. ASSUME i + 1 <= n, i + 1 <= p  PROVE f[i + 1] = g[i + 1]
        <4>1. i \in 0..(n - 1) /\ i \in 0..(p - 1)
          BY <3>1, <3>2
        <4>2. f[i + 1] = step[f[i]] /\ g[i + 1] = step[g[i]]
          BY <4>1
        <4>3. f[i] = g[i]
          BY <3>1, <3>2
        <4> QED  BY <4>2, <4>3
      <3> QED  BY <3>1, <3>2
    <2>3. T \in SUBSET Nat
      OBVIOUS
    <2> HIDE DEF T
    <2>4. T = Nat
      BY <2>1, <2>2, <2>3, SetInduction
    <2> QED  BY <2>4 DEF T
  <1> DEFINE some(n) == CHOOSE f \in Run(n) : TRUE
             F == [i \in Nat |-> some(i)[i]]
  <1>3. \A n \in Nat : some(n) \in Run(n)
    BY <1>1
  <1> HIDE DEF some
  <1>4. ASSUME NEW n \in Nat, NEW f \in Run(n)
        PROVE  f \in [0..n -> V] /\ f[0] = a /\ \A i \in 0..(n - 1) : f[i + 1] = step[f[i]]
    OBVIOUS
  <1> HIDE DEF Run
  <1>5. F \in [Nat -> V]
    BY <1>3, <1>4
  <1>6. F[0] = a
    BY <1>3, <1>4
  <1>7. ASSUME NEW i \in Nat  PROVE F[i + 1] = step[F[i]]
    <2>1. some(i + 1) \in Run(i + 1) /\ some(i) \in Run(i)
      BY <1>3
    <2>2. some(i + 1)[i + 1] = step[some(i + 1)[i]]
      BY <2>1, <1>4
    <2>3. some(i + 1)[i] = some(i)[i]
      BY <2>1, <1>2
    <2> QED  BY <2>2, <2>3
  <1> HIDE DEF F
  <1> QED  BY <1>5, <1>6, <1>7 DEF IsIteration

------------------------------------------------------------------------------
\* calculate_retry_delay()

\* The multiplier and the first delay that calculate_retry_delay() works with.
Factor(p) == IF p.backoff_multiplier = NotFinite THEN 1
             ELSE Larger(p.backoff_multiplier, 0)
First(p) == Clamp(p.initial_delay, 0, MaxDelay(p))

\* The clamps at the top of calculate_retry_delay() work for every policy, whatever
\* negative, oversized or non-finite numbers it has.
LEMMA PolicyFacts ==
    ASSUME NEW p \in PolicyType
    PROVE  /\ MaxDelay(p) \in Nat
           /\ Factor(p) \in Nat
           /\ First(p) \in 0..MaxDelay(p)
           /\ Spread(p) \in 0..100
           /\ p.max_attempts \in 0..255
  <1>1. /\ p.max_delay \in Int /\ p.initial_delay \in Int
        /\ p.backoff_multiplier \in Int \cup {NotFinite}
        /\ p.jitter_factor \in Int \cup {NotFinite}
        /\ p.max_attempts \in 0..255
    BY DEF PolicyType, UINT8
  <1> QED
    BY <1>1 DEF MaxDelay, Factor, First, Spread, Clamp, Larger, Smaller

\* The loop of calculate_retry_delay() as a sequence of delays: it starts at the first
\* delay, stays within the maximum, and its (n-1)th value is the one for attempt n.
LEMMA BackoffLoop ==
    ASSUME NEW p \in PolicyType
    PROVE  \E f \in [Nat -> 0..MaxDelay(p)] :
              /\ f[0] = First(p)
              /\ \A i \in Nat : f[i + 1] = Smaller(f[i] * Factor(p), MaxDelay(p))
              /\ \A n \in Nat \ {0} : Backoff(n, p) = f[n - 1]
  <1> DEFINE M == MaxDelay(p)
             m == Factor(p)
             a == First(p)
             V == 0..M
             step == [x \in V |-> Smaller(x * m, M)]
             Eq(f) == f = [i \in Nat |-> IF i = 0 THEN a ELSE Smaller(f[i - 1] * m, M)]
  <1>1. M \in Nat /\ m \in Nat /\ a \in V
    BY PolicyFacts
  <1>2. step \in [V -> V]
    <2> HIDE DEF M, m
    <2>1. ASSUME NEW x \in V  PROVE Smaller(x * m, M) \in V
      <3>1. x * m \in Nat  BY <1>1
      <3> QED  BY <3>1, <1>1 DEF Smaller
    <2> QED  BY <2>1
  <1>3. PICK g : IsIteration(g, V, a, step)
    <2>1. a \in V  BY <1>1
    <2> HIDE DEF V, a, step
    <2> QED  BY <2>1, <1>2, Iteration
  <1>4. \A i \in Nat : g[i + 1] = Smaller(g[i] * m, M)
    BY <1>3 DEF IsIteration
  <1>5. Eq(g)
    <2> HIDE DEF M, m, a, V
    <2>1. ASSUME NEW i \in Nat, i # 0  PROVE g[i] = Smaller(g[i - 1] * m, M)
      <3>1. i - 1 \in Nat /\ (i - 1) + 1 = i  BY <2>1
      <3> QED  BY <3>1, <1>4
    <2> DEFINE rhs == [i \in Nat |-> IF i = 0 THEN a ELSE Smaller(g[i - 1] * m, M)]
    <2>2. \A i \in Nat : g[i] = rhs[i]
      BY <1>3, <2>1 DEF IsIteration
    <2> QED  BY <1>3, <2>2 DEF IsIteration
  <1> DEFINE after == CHOOSE f : Eq(f)
  <1>6. Eq(after)
    BY <1>5
  <1>7. \A n : Backoff(n, p) = after[Multiplications(n)]
    BY DEF Backoff, Factor, First
  <1>8. \A i \in Nat : after[i] = g[i]
    <2> DEFINE T == {i \in Nat : after[i] = g[i]}
    <2> HIDE DEF after, M, m, a, V
    <2>e. \A i \in Nat : after[i] = IF i = 0 THEN a ELSE Smaller(after[i - 1] * m, M)
      BY <1>6
    <2>1. 0 \in T
      BY <2>e, <1>3 DEF IsIteration
    <2>2. ASSUME NEW i \in T  PROVE i + 1 \in T
      <3>1. i + 1 \in Nat /\ i + 1 # 0 /\ (i + 1) - 1 = i /\ i \in Nat /\ after[i] = g[i]
        BY <2>2
      <3>2. after[i + 1] = Smaller(after[i] * m, M)
        BY <3>1, <2>e
      <3> QED  BY <3>1, <3>2, <1>4
    <2>3. T \in SUBSET Nat  OBVIOUS
    <2> HIDE DEF T
    <2>4. T = Nat  BY <2>1, <2>2, <2>3, SetInduction
    <2> QED  BY <2>4 DEF T
  <1>9. \A n \in Nat \ {0} : Backoff(n, p) = g[n - 1]
    <2> HIDE DEF after
    <2> QED  BY <1>7, <1>8 DEF Multiplications
  <1> QED  BY <1>3, <1>4, <1>9 DEF IsIteration

\* The delay before jitter is within the maximum, for every policy and attempt.
LEMMA BackoffBounds ==
    ASSUME NEW p \in PolicyType, NEW n \in Nat \ {0}
    PROVE  Backoff(n, p) \in 0..MaxDelay(p)
  <1>1. PICK f \in [Nat -> 0..MaxDelay(p)] : \A k \in Nat \ {0} : Backoff(k, p) = f[k - 1]
    BY BackoffLoop
  <1>2. n - 1 \in Nat
    OBVIOUS
  <1> QED  BY <1>1, <1>2

\* Jitter keeps a delay within the maximum.
LEMMA JitteredBounds ==
    ASSUME NEW p \in PolicyType, NEW d \in Nat, NEW j \in Nat
    PROVE  Jittered(d, j, p) \in 0..MaxDelay(p)
  <1>1. MaxDelay(p) \in Nat
    BY PolicyFacts
  <1> DEFINE x == d * j
             M == MaxDelay(p)
  <1>2. x \in Nat
    OBVIOUS
  <1>3. Jittered(d, j, p) = IF x >= M * 100 THEN M ELSE x \div 100
    BY DEF Jittered
  <1> HIDE DEF x, M
  <1>4. ASSUME x < M * 100  PROVE x \div 100 \in 0..M
    BY <1>1, <1>2, <1>4 DEF M
  <1>5. M \in Nat
    BY <1>1 DEF M
  <1>6. Jittered(d, j, p) \in 0..M
    BY <1>2, <1>3, <1>4, <1>5
  <1> QED  BY <1>6 DEF M

\* Whatever calculate_retry_delay() returns is within the maximum.
LEMMA DelaysBounded ==
    ASSUME NEW p \in PolicyType, NEW n \in Nat \ {0}
    PROVE  Delays(n, p) \subseteq 0..MaxDelay(p)
  <1>1. Backoff(n, p) \in Nat
    BY BackoffBounds, PolicyFacts
  <1>2. Spread(p) \in 0..100
    BY PolicyFacts
  <1>3. \A j \in (100 - Spread(p))..(100 + Spread(p)) : j \in Nat
    BY <1>2
  <1> QED
    BY <1>1, <1>3, JitteredBounds DEF Delays

------------------------------------------------------------------------------
\* with_retry()

\* How the attempt counter goes with the operations that were run.  AttemptsBounded is
\* the second part; the others are what the steps need of it: with_retry() sleeps only
\* below max_attempts, so that ++attempt neither wraps nor passes the bound.
Counted ==
    /\ made \in 0..(UINT8 - 1)
    /\ pc # "idle" => /\ made <= policy_.max_attempts
                      /\ attempt = made + (IF pc = "sleeping" THEN 0 ELSE 1)
    /\ pc = "calling" => attempt <= policy_.max_attempts
    /\ pc = "sleeping" => attempt < policy_.max_attempts /\ attempt > 0
    /\ pc = "looping" /\ made > 0 => attempt <= policy_.max_attempts

\* The inductive invariant.
RetryInv ==
    /\ TypeOK
    /\ pc # "sleeping" => delay = 0
    /\ Counted
    /\ NoOutcomeLost

\* The two should_retry() select only outcomes that another attempt can improve on.
LEMMA RetriedIsTransient ==
    ASSUME NEW o \in Outcomes, NEW p \in PolicyType, should_retry(o, p)
    PROVE  Transient(o)
  <1>1. CASE o \in {Response(s) : s \in Statuses}
    <2>1. PICK s \in Statuses : o = Response(s)
      BY <1>1
    <2>2. o.ok /\ o.status = s /\ s \in Int
      BY <2>1, RetryAssumption DEF Response
    <2>3. s = 429 \/ (s >= 500 /\ s < 600)
      BY <2>2 DEF should_retry, should_retry_response
    <2> QED  BY <2>2, <2>3 DEF Transient
  <1>2. CASE o \in {Err(c) : c \in ErrorCodes}
    <2>1. PICK c \in ErrorCodes : o = Err(c)
      BY <1>2
    <2>2. ~o.ok /\ o.code = c
      BY <2>1 DEF Err
    <2> QED  BY <2>2 DEF should_retry, should_retry_error, Transient
  <1> QED  BY <1>1, <1>2 DEF Outcomes

\* The invariant holds before the first call.
LEMMA RetryInit == Init => RetryInv
  <1> SUFFICES ASSUME Init PROVE RetryInv
    OBVIOUS
  <1>1. policy_ \in PolicyType /\ MaxDelay(policy_) \in Nat
    BY RetryAssumption, PolicyFacts DEF Init
  <1> QED
    BY <1>1 DEF Init, RetryInv, TypeOK, Counted, NoOutcomeLost, UINT8

\* Every step of with_retry() and set_policy() keeps the invariant.
LEMMA RetryStep == RetryInv /\ [Next]_vars => RetryInv'
  <1> SUFFICES ASSUME RetryInv, [Next]_vars PROVE RetryInv'
    OBVIOUS
  <1>1. /\ policy_ \in Policies /\ policy_ \in PolicyType
        /\ MaxDelay(policy_) \in Nat /\ policy_.max_attempts \in 0..255
        /\ attempt \in 0..255 /\ made \in 0..255 /\ delay \in 0..MaxDelay(policy_)
        /\ UINT8 = 256
    BY RetryAssumption, PolicyFacts DEF RetryInv, TypeOK, Counted, UINT8
  <1> USE DEF RetryInv, TypeOK, Counted, NoOutcomeLost
  <1>2. CASE Call
    BY <1>1, <1>2 DEF Call
  <1>3. CASE Enter
    BY <1>1, <1>3 DEF Enter
  <1>4. CASE Exceeded
    <2>1. Err("NetworkError") \in Outcomes
      BY DEF Outcomes, ErrorCodes
    <2> QED  BY <2>1, <1>1, <1>4 DEF Exceeded
  <1>5. ASSUME NEW o \in Outcomes, OperationRetried(o)  PROVE RetryInv'
    <2>1. delay' \in 0..MaxDelay(policy_)
      BY <1>1, <1>5, DelaysBounded DEF OperationRetried
    <2>2. Transient(o)
      BY <1>1, <1>5, RetriedIsTransient DEF OperationRetried, Retries
    <2>3. Transient(outcome)'
      BY <2>2, <1>5 DEF OperationRetried, Transient
    <2>4. made' = made + 1 /\ made + 1 <= policy_.max_attempts
      BY <1>1, <1>5 DEF OperationRetried, Smaller
    <2> QED  BY <2>1, <2>3, <2>4, <1>1, <1>5 DEF OperationRetried, Retries
  <1>6. ASSUME NEW o \in Outcomes, OperationReturned(o)  PROVE RetryInv'
    <2>4. made' = made + 1 /\ made + 1 <= policy_.max_attempts
      BY <1>1, <1>6 DEF OperationReturned, Smaller
    <2> QED  BY <2>4, <1>1, <1>6 DEF OperationReturned
  <1>7. CASE Awake
    <2>1. attempt' = attempt + 1 /\ attempt + 1 \in 0..255
      BY <1>1, <1>7 DEF Awake, NextAttempt
    <2> QED  BY <2>1, <1>1, <1>7 DEF Awake
  <1>8. ASSUME NEW p \in Policies, set_policy(p)  PROVE RetryInv'
    <2>1. MaxDelay(p) \in Nat
      BY RetryAssumption, PolicyFacts
    <2> QED  BY <2>1, <1>1, <1>8 DEF set_policy
  <1>9. CASE UNCHANGED vars
    BY <1>9 DEF vars, Transient
  <1> QED
    BY <1>2, <1>3, <1>4, <1>5, <1>6, <1>7, <1>8, <1>9 DEF Next

\* The invariant holds throughout, for every set of policies and statuses.
THEOREM RetryInvariant == Spec => []RetryInv
  BY RetryInit, RetryStep, PTL DEF Spec

\* Types, and every sleep is within the policy's max_delay, jitter included.
THEOREM TypeCorrect == Spec => []TypeOK
  <1>1. RetryInv => TypeOK
    BY DEF RetryInv
  <1> QED  BY <1>1, RetryInvariant, PTL

\* with_retry() runs the operation at most max_attempts times, for every uint8_t, and
\* its eight-bit counter never wraps.
THEOREM AttemptsAreBounded == Spec => []AttemptsBounded
  <1>1. RetryInv => AttemptsBounded
    BY DEF RetryInv, Counted, AttemptsBounded
  <1> QED  BY <1>1, RetryInvariant, PTL

\* with_retry() drops only transient outcomes, and returns what the last attempt
\* returned, never the error behind the loop.
THEOREM NoOutcomeIsLost == Spec => []NoOutcomeLost
  <1>1. RetryInv => NoOutcomeLost
    BY DEF RetryInv
  <1> QED  BY <1>1, RetryInvariant, PTL

\* should_retry() for a response and for the error that from_response() makes of the
\* same status agree, for every policy and every HTTP status.
THEOREM StatusAndErrorAgreeAlways == Spec => []StatusAndErrorAgree
  <1>1. RetryInv => StatusAndErrorAgree
    <2> SUFFICES ASSUME RetryInv, NEW s \in 100..599
                 PROVE  should_retry_response(Response(s), policy_)
                          = should_retry_error(Err(from_response(s)), policy_)
      BY DEF StatusAndErrorAgree
    <2>1. /\ policy_.retry_on_rate_limit \in BOOLEAN
          /\ policy_.retry_on_server_error \in BOOLEAN
          /\ policy_.retry_on_network_error \in BOOLEAN
      BY RetryAssumption DEF RetryInv, TypeOK, PolicyType
    <2>2. CASE s = 429
      BY <2>1, <2>2
         DEF should_retry_response, should_retry_error, Response, Err, from_response
    <2>3. CASE s >= 500
      BY <2>1, <2>3
         DEF should_retry_response, should_retry_error, Response, Err, from_response
    <2>4. CASE s < 500 /\ s # 429
      BY <2>1, <2>4
         DEF should_retry_response, should_retry_error, Response, Err, from_response
    <2> QED  BY <2>2, <2>3, <2>4
  <1> QED  BY <1>1, RetryInvariant, PTL

------------------------------------------------------------------------------
\* The exponential formula.

\* Cutting off before a multiplication makes no difference to cutting off after it.
LEMMA CutTwice ==
    ASSUME NEW x \in Nat, NEW m \in Nat, NEW M \in Nat
    PROVE  Smaller(Smaller(x, M) * m, M) = Smaller(x * m, M)
  <1>1. CASE x <= M
    BY <1>1 DEF Smaller
  <1>2. CASE x > M /\ m = 0
    BY <1>2 DEF Smaller
  <1>3. CASE x > M /\ m > 0
    <2>1. M * m >= M /\ x * m >= x /\ M * m \in Nat /\ x * m \in Nat
      <3>1. ASSUME NEW y \in Nat  PROVE y * m >= y /\ y * m \in Nat
        <4>1. y * m = y * (m - 1) + y /\ m - 1 \in Nat
          BY <1>3
        <4>2. y * (m - 1) \in Nat
          BY <4>1
        <4> QED  BY <4>1, <4>2
      <3> QED  BY <3>1
    <2> QED  BY <1>3, <2>1 DEF Smaller
  <1> QED  BY <1>1, <1>2, <1>3

\* Power() as a sequence: it starts at 1 and each value is `base' times the one before.
LEMMA PowerLoop ==
    ASSUME NEW b \in Nat
    PROVE  \E f \in [Nat -> Nat] :
              /\ f[0] = 1
              /\ \A i \in Nat : f[i + 1] = b * f[i]
              /\ \A n \in Nat : Power(b, n) = f[n]
  <1> DEFINE step == [x \in Nat |-> b * x]
             Eq(f) == f = [i \in Nat |-> IF i = 0 THEN 1 ELSE b * f[i - 1]]
  <1>2. step \in [Nat -> Nat]
    OBVIOUS
  <1>3. PICK g : IsIteration(g, Nat, 1, step)
    <2> HIDE DEF step
    <2> QED  BY <1>2, Iteration
  <1>4. \A i \in Nat : g[i + 1] = b * g[i]
    BY <1>3 DEF IsIteration
  <1>5. Eq(g)
    <2>1. ASSUME NEW i \in Nat, i # 0  PROVE g[i] = b * g[i - 1]
      <3>1. i - 1 \in Nat /\ (i - 1) + 1 = i  BY <2>1
      <3> QED  BY <3>1, <1>4
    <2> DEFINE rhs == [i \in Nat |-> IF i = 0 THEN 1 ELSE b * g[i - 1]]
    <2>2. \A i \in Nat : g[i] = rhs[i]
      BY <1>3, <2>1 DEF IsIteration
    <2> QED  BY <1>3, <2>2 DEF IsIteration
  <1> DEFINE power == CHOOSE f : Eq(f)
  <1>6. Eq(power)
    BY <1>5
  <1>7. \A n : Power(b, n) = power[n]
    BY DEF Power
  <1>8. \A i \in Nat : power[i] = g[i]
    <2> DEFINE T == {i \in Nat : power[i] = g[i]}
    <2> HIDE DEF power
    <2>e. \A i \in Nat : power[i] = IF i = 0 THEN 1 ELSE b * power[i - 1]
      BY <1>6
    <2>1. 0 \in T
      BY <2>e, <1>3 DEF IsIteration
    <2>2. ASSUME NEW i \in T  PROVE i + 1 \in T
      <3>1. i + 1 \in Nat /\ i + 1 # 0 /\ (i + 1) - 1 = i /\ i \in Nat /\ power[i] = g[i]
        BY <2>2
      <3>2. power[i + 1] = b * power[i]
        BY <3>1, <2>e
      <3> QED  BY <3>1, <3>2, <1>4
    <2>3. T \in SUBSET Nat  OBVIOUS
    <2> HIDE DEF T
    <2>4. T = Nat  BY <2>1, <2>2, <2>3, SetInduction
    <2> QED  BY <2>4 DEF T
  <1>9. \A n \in Nat : Power(b, n) = g[n]
    <2> HIDE DEF power
    <2> QED  BY <1>7, <1>8
  <1> QED  BY <1>3, <1>4, <1>9 DEF IsIteration

\* The delay that the loop of calculate_retry_delay() arrives at is the exponential
\* formula cut off once, for every policy and every attempt, however large the power is
\* that the formula goes through.
THEOREM BackoffFormula ==
    \A p \in PolicyType, n \in Nat \ {0} :
        Backoff(n, p) = Smaller(First(p) * Power(Factor(p), n - 1), MaxDelay(p))
  <1> SUFFICES ASSUME NEW p \in PolicyType
               PROVE \A n \in Nat \ {0} :
        Backoff(n, p) = Smaller(First(p) * Power(Factor(p), n - 1), MaxDelay(p))
    OBVIOUS
  <1> DEFINE M == MaxDelay(p)
             m == Factor(p)
             a == First(p)
  <1>1. M \in Nat /\ m \in Nat /\ a \in 0..M
    BY PolicyFacts
  <1>2. PICK f \in [Nat -> 0..M] :
           /\ f[0] = a
           /\ \A i \in Nat : f[i + 1] = Smaller(f[i] * m, M)
           /\ \A n \in Nat \ {0} : Backoff(n, p) = f[n - 1]
    BY BackoffLoop
  <1>3. PICK g \in [Nat -> Nat] :
           /\ g[0] = 1
           /\ \A i \in Nat : g[i + 1] = m * g[i]
           /\ \A n \in Nat : Power(m, n) = g[n]
    <2> HIDE DEF m
    <2> QED  BY <1>1, PowerLoop
  <1> HIDE DEF M, m, a
  <1> DEFINE T == {i \in Nat : f[i] = Smaller(a * g[i], M)}
  <1>4. 0 \in T
    BY <1>1, <1>2, <1>3 DEF Smaller
  <1>5. ASSUME NEW i \in T  PROVE i + 1 \in T
    <2>1. /\ i \in Nat /\ i + 1 \in Nat /\ a \in Nat /\ g[i] \in Nat
          /\ f[i] = Smaller(a * g[i], M)
          /\ f[i + 1] = Smaller(f[i] * m, M) /\ g[i + 1] = m * g[i]
      BY <1>1, <1>2, <1>3, <1>5
    <2>2. a * g[i] \in Nat /\ a * (m * g[i]) = (a * g[i]) * m
      BY <1>1, <2>1
    <2>3. Smaller(Smaller(a * g[i], M) * m, M) = Smaller((a * g[i]) * m, M)
      BY <1>1, <2>2, CutTwice
    <2>4. f[i + 1] = Smaller(a * g[i + 1], M)
      BY <2>1, <2>2, <2>3
    <2> QED  BY <2>1, <2>4
  <1>6. T = Nat
    <2>1. T \in SUBSET Nat  OBVIOUS
    <2> HIDE DEF T
    <2> QED  BY <1>4, <1>5, <2>1, SetInduction
  <1>7. ASSUME NEW n \in Nat \ {0}  PROVE Backoff(n, p) = Smaller(a * Power(m, n - 1), M)
    <2>1. n - 1 \in Nat  OBVIOUS
    <2>2. f[n - 1] = Smaller(a * g[n - 1], M)
      BY <1>6, <2>1
    <2> QED  BY <1>2, <1>3, <2>1, <2>2
  <1> QED  BY <1>7 DEF M, m, a

\* Every sleep of with_retry() follows the exponential formula.
THEOREM BackoffIsExponentialAlways == Spec => []BackoffIsExponential
  <1>1. RetryInv => BackoffIsExponential
    <2> SUFFICES ASSUME RetryInv, pc = "sleeping", policy_.backoff_multiplier # NotFinite
                 PROVE  Backoff(attempt, policy_)
                          = Smaller(First(policy_)
                                * Power(Larger(policy_.backoff_multiplier, 0), attempt - 1),
                              MaxDelay(policy_))
      BY DEF BackoffIsExponential, First
    <2>1. policy_ \in PolicyType /\ attempt \in Nat \ {0}
      BY RetryAssumption DEF RetryInv, TypeOK, Counted, UINT8
    <2> QED  BY <2>1, BackoffFormula DEF Factor
  <1> QED  BY <1>1, RetryInvariant, PTL
==============================================================================
