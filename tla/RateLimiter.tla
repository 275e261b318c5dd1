----------------------------- MODULE RateLimiter -----------------------------
(***************************************************************************)
(* grib::RateLimiter (src/core/rate_limit.cpp): a token bucket shared by   *)
(* threads.  tokens_ and last_refill_ are guarded by mutex_; a thread that *)
(* finds no token works out under the mutex how long to wait, gives the    *)
(* mutex up, compares the wait with its deadline and sleeps, so what it    *)
(* sleeps on may be stale.  Time is the steady clock, in ticks.            *)
(***************************************************************************)
EXTENDS Integers

CONSTANTS
    Threads,        \* threads that share one limiter
    NoThread,       \* the owner of a free mutex_
    NoWait,         \* std::nullopt: no max_wait, no deadline
    Configs,        \* the RateLimiter::Config values a caller may pass
    MaxWaits,       \* the max_wait arguments of acquire_for(), in milliseconds
    TicksPerMs,     \* ticks of Clock::duration in one millisecond
    ClockMax,       \* Clock::time_point::max() and Clock::duration::max()
    Horizon,        \* bound: the clock passes it only to end a sleep
    MaxCalls        \* bound: calls made on the limiter

UINT16 == 65536
DefaultInterval == 100

ConfigType ==
    [max_tokens : 0..(UINT16 - 1), refill_interval : Int,
     initial_tokens : 0..(UINT16 - 1), max_wait : Int \cup {NoWait}]

ASSUME ConstantsAssumption ==
    /\ NoThread \notin Threads
    /\ NoWait \notin Int
    /\ \A c \in Configs : c \in ConfigType
    /\ \A w \in MaxWaits : w \in Int
    /\ TicksPerMs \in Nat \ {0}
    /\ ClockMax \in Nat
    /\ Horizon \in Nat
    /\ MaxCalls \in Nat

VARIABLES
    config_,        \* the sanitized configuration, fixed by the constructor
    tokens_,        \* std::uint16_t
    last_refill_,   \* Clock::time_point
    mutex_,         \* the thread inside a critical section, or NoThread
    now,            \* what Clock::now() returns
    pc,             \* where each thread is in acquire_until(), or "idle"
    deadline,       \* its deadline, or NoWait
    wait,           \* the wait it worked out under the mutex
    wake,           \* the earliest time its sleep_for() returns
    calls           \* calls made so far

vars == <<config_, tokens_, last_refill_, mutex_, now, pc, deadline, wait,
          wake, calls>>

------------------------------------------------------------------------------
\* Configuration.

Larger(a, b) == IF a >= b THEN a ELSE b
Smaller(a, b) == IF a <= b THEN a ELSE b

sanitized(c) ==
    LET max == Larger(c.max_tokens, 1)
    IN  [max_tokens |-> max,
         refill_interval |-> IF c.refill_interval <= 0 THEN DefaultInterval
                                                       ELSE c.refill_interval,
         initial_tokens |-> Smaller(c.initial_tokens, max),
         max_wait |-> c.max_wait]

------------------------------------------------------------------------------
\* The arithmetic of the bucket.

\* refill_interval in ticks.
Interval == config_.refill_interval * TicksPerMs

\* Tokens earned since last_refill_ at time t, both divisions truncating.
Earned(t) ==
    ((t - last_refill_) \div TicksPerMs) \div config_.refill_interval

\* Slip: the partial refill adds the tokens and leaves last_refill_ behind.
RefilledKeepsClock(t) ==
    IF tokens_ >= config_.max_tokens THEN [tokens |-> tokens_, last |-> t]
    ELSE IF tokens_ + Earned(t) >= config_.max_tokens
         THEN [tokens |-> config_.max_tokens, last |-> t]
         ELSE [tokens |-> tokens_ + Earned(t), last |-> last_refill_]

\* Slip: no early return, so every question restarts the interval.
RefilledRestartsClock(t) ==
    IF tokens_ + Earned(t) >= config_.max_tokens
    THEN [tokens |-> config_.max_tokens, last |-> t]
    ELSE [tokens |-> tokens_ + Earned(t), last |-> t]

\* Slip: a bucket that fills up keeps the odd ticks it cannot use.
RefilledKeepsRemainder(t) ==
    IF Earned(t) <= 0 THEN [tokens |-> tokens_, last |-> last_refill_]
    ELSE [tokens |-> Smaller(tokens_ + Earned(t), config_.max_tokens),
          last |-> last_refill_ + Earned(t) * Interval]

\* refill() at time t: the values it leaves in tokens_ and last_refill_.
Refilled(t) ==
    IF tokens_ >= config_.max_tokens
    THEN [tokens |-> tokens_, last |-> t]
    ELSE IF Earned(t) <= 0
    THEN [tokens |-> tokens_, last |-> last_refill_]
    ELSE IF tokens_ + Earned(t) >= config_.max_tokens
    THEN [tokens |-> config_.max_tokens, last |-> t]
    ELSE [tokens |-> (tokens_ + Earned(t)) % UINT16,
          last |-> last_refill_ + Earned(t) * Interval]

\* Slip: the count is not cut off at the capacity.
available_uncapped(t) == (tokens_ + Larger(Earned(t), 0)) % UINT16

\* available_tokens() at time t; it counts without refilling.
available_tokens(t) ==
    Smaller(tokens_ + Larger(Earned(t), 0), config_.max_tokens) % UINT16

\* take_or_wait_time() when it takes a token and when it finds none.
TakeToken ==
    LET r == Refilled(now)
    IN  /\ r.tokens > 0
        /\ tokens_' = r.tokens - 1
        /\ last_refill_' = r.last

NoToken ==
    LET r == Refilled(now)
    IN  /\ r.tokens = 0
        /\ tokens_' = r.tokens
        /\ last_refill_' = r.last

\* Slip: the wait is cut down to whole milliseconds.
WaitTimeRoundedDown ==
    ((Larger(Interval - (now - last_refill_), 0)) \div TicksPerMs) * TicksPerMs

\* The rest of take_or_wait_time(), with a later reading of the clock.
WaitTime ==
    LET interval == IF config_.refill_interval >= ClockMax \div TicksPerMs
                    THEN ClockMax ELSE Interval
    IN  Larger(interval - (now - last_refill_), 0)

\* Slip: the deadline may pass the end of the clock.
DeadlineUnsaturated(w) == IF w <= 0 THEN now ELSE now + w * TicksPerMs

\* The deadline acquire_for(w) computes.
DeadlineFor(w) ==
    IF w <= 0 THEN now
    ELSE IF w >= (ClockMax - now) \div TicksPerMs THEN ClockMax
    ELSE now + w * TicksPerMs

------------------------------------------------------------------------------
\* The operations.

\* Every public operation starts in an idle thread, within the bound on calls.
Call(t) ==
    /\ pc[t] = "idle"
    /\ calls < MaxCalls
    /\ calls' = calls + 1

TryAcquireTakes(t) ==
    /\ Call(t)
    /\ mutex_ = NoThread
    /\ TakeToken
    /\ UNCHANGED <<config_, mutex_, now, pc, deadline, wait, wake>>

TryAcquireFails(t) ==
    /\ Call(t)
    /\ mutex_ = NoThread
    /\ NoToken
    /\ UNCHANGED <<config_, mutex_, now, pc, deadline, wait, wake>>

EnterLoop(t, d) ==
    /\ Call(t)
    /\ pc' = [pc EXCEPT ![t] = "take"]
    /\ deadline' = [deadline EXCEPT ![t] = d]
    /\ UNCHANGED <<config_, tokens_, last_refill_, mutex_, now, wait, wake>>

\* acquire(), which is also all that ScopedRateLimit's constructor does.
Acquire(t) ==
    EnterLoop(t, IF config_.max_wait = NoWait THEN NoWait
                 ELSE DeadlineFor(config_.max_wait))

AcquireFor(t, w) == EnterLoop(t, DeadlineFor(w))

Reset(t) ==
    /\ Call(t)
    /\ mutex_ = NoThread
    /\ tokens_' = config_.initial_tokens
    /\ last_refill_' = now
    /\ UNCHANGED <<config_, mutex_, now, pc, deadline, wait, wake>>

------------------------------------------------------------------------------
\* acquire_until().

Return(t) ==
    /\ pc' = [pc EXCEPT ![t] = "idle"]
    /\ deadline' = [deadline EXCEPT ![t] = NoWait]
    /\ wait' = [wait EXCEPT ![t] = 0]

\* The critical section of the loop when it ends with a token: return true.
LoopTakes(t) ==
    /\ pc[t] = "take"
    /\ mutex_ = NoThread
    /\ TakeToken
    /\ Return(t)
    /\ UNCHANGED <<config_, mutex_, now, wake, calls>>

\* The critical section when it finds no token: refill() has run and the
\* thread is about to read the clock again, still under the mutex ...
LoopFindsNone(t) ==
    /\ pc[t] = "take"
    /\ mutex_ = NoThread
    /\ NoToken
    /\ mutex_' = t
    /\ pc' = [pc EXCEPT ![t] = "measure"]
    /\ UNCHANGED <<config_, now, deadline, wait, wake, calls>>

\* Slip: the mutex is never given up.
MeasureKeepsMutex(t) ==
    /\ pc[t] = "measure"
    /\ wait' = [wait EXCEPT ![t] = WaitTime]
    /\ pc' = [pc EXCEPT ![t] = "check"]
    /\ UNCHANGED <<config_, tokens_, last_refill_, mutex_, now, deadline, wake,
                   calls>>

\* ... and now has read it and left the critical section.
Measure(t) ==
    /\ pc[t] = "measure"
    /\ wait' = [wait EXCEPT ![t] = WaitTime]
    /\ mutex_' = NoThread
    /\ pc' = [pc EXCEPT ![t] = "check"]
    /\ UNCHANGED <<config_, tokens_, last_refill_, now, deadline, wake, calls>>

TooLate(t) == deadline[t] # NoWait /\ wait[t] > deadline[t] - now

\* return false
GiveUp(t) ==
    /\ pc[t] = "check"
    /\ TooLate(t)
    /\ Return(t)
    /\ UNCHANGED <<config_, tokens_, last_refill_, mutex_, now, wake, calls>>

Sleep(t) ==
    /\ pc[t] = "check"
    /\ ~TooLate(t)
    /\ pc' = [pc EXCEPT ![t] = "sleep"]
    /\ wake' = [wake EXCEPT ![t] = Smaller(now + wait[t], ClockMax)]
    /\ wait' = [wait EXCEPT ![t] = 0]
    /\ UNCHANGED <<config_, tokens_, last_refill_, mutex_, now, deadline, calls>>

\* sleep_for() returns some time after the sleep is over; back to the loop's top.
Wake(t) ==
    /\ pc[t] = "sleep"
    /\ now >= wake[t]
    /\ pc' = [pc EXCEPT ![t] = "take"]
    /\ wake' = [wake EXCEPT ![t] = 0]
    /\ UNCHANGED <<config_, tokens_, last_refill_, mutex_, now, deadline, wait,
                   calls>>

------------------------------------------------------------------------------
\* The clock.  It runs freely up to Horizon, and later only for a sleeper.

Tick ==
    /\ now < ClockMax
    /\ now < Horizon \/ \E t \in Threads : pc[t] = "sleep" /\ now < wake[t]
    /\ now' = now + 1
    /\ UNCHANGED <<config_, tokens_, last_refill_, mutex_, pc, deadline, wait,
                   wake, calls>>

\* Every call was made and has returned.
Finished ==
    /\ calls = MaxCalls
    /\ \A t \in Threads : pc[t] = "idle"
    /\ UNCHANGED vars

Init ==
    /\ config_ \in {sanitized(c) : c \in Configs}
    /\ tokens_ = config_.initial_tokens
    /\ now = 0
    /\ last_refill_ = now
    /\ mutex_ = NoThread
    /\ pc = [t \in Threads |-> "idle"]
    /\ deadline = [t \in Threads |-> NoWait]
    /\ wait = [t \in Threads |-> 0]
    /\ wake = [t \in Threads |-> 0]
    /\ calls = 0

\* The steps by which a caller gets a token, and all the other steps of a thread
\* but the failing take and reset(), which the history module watches.
Grants(t) == TryAcquireTakes(t) \/ LoopTakes(t)

Quiet(t) ==
    \/ TryAcquireFails(t)
    \/ Acquire(t)
    \/ \E w \in MaxWaits : AcquireFor(t, w)
    \/ Measure(t)
    \/ Sleep(t)
    \/ Wake(t)

Next ==
    \/ \E t \in Threads :
          Grants(t) \/ LoopFindsNone(t) \/ GiveUp(t) \/ Reset(t) \/ Quiet(t)
    \/ Tick
    \/ Finished

Spec == Init /\ [][Next]_vars

\* A started call keeps running (threads are scheduled, nobody holds a
\* std::mutex for ever) and time passes.  Nobody has to make a call.
Steps(t) ==
    LoopTakes(t) \/ LoopFindsNone(t) \/ Measure(t) \/ GiveUp(t) \/ Sleep(t)
    \/ Wake(t)

Fairness == WF_vars(Tick) /\ \A t \in Threads : WF_vars(Steps(t))

FairSpec == Spec /\ Fairness
------------------------------------------------------------------------------
\* Properties.

PCs == {"idle", "take", "measure", "check", "sleep"}

Times == 0..ClockMax

(* The types, with the bounds that make the narrow arithmetic exact: the   *)
(* level never passes the capacity, last_refill_ is never ahead of the     *)
(* clock, and no time the code computes overflows Clock::time_point.       *)
TypeOK ==
    /\ config_ \in ConfigType
    /\ config_.max_tokens >= 1
    /\ config_.refill_interval >= 1
    /\ config_.initial_tokens <= config_.max_tokens
    /\ tokens_ \in 0..config_.max_tokens
    /\ now \in Times
    /\ last_refill_ \in 0..now
    /\ mutex_ \in Threads \cup {NoThread}
    /\ pc \in [Threads -> PCs]
    /\ deadline \in [Threads -> Times \cup {NoWait}]
    /\ wait \in [Threads -> Times]
    /\ wake \in [Threads -> Times]
    /\ calls \in 0..MaxCalls

(* available_tokens() counts what refill() would leave, without doing it:  *)
(* the two computations agree at every reachable state.                    *)
AvailableAgrees == available_tokens(now) = Refilled(now).tokens

(* A thread that asks and gets nothing leaves the bucket exactly as it     *)
(* found it: asking again and again (try_acquire() in a loop, the woken    *)
(* losers of acquire()) does not delay the next token for anybody.         *)
AskingIsFree ==
    [][\A t \in Threads :
          TryAcquireFails(t) \/ LoopFindsNone(t)
              => UNCHANGED <<tokens_, last_refill_>>]_vars

(* With finitely many calls competing, every acquire() and acquire_for()   *)
(* returns, although the mutex and the tokens go to whoever comes first.   *)
AcquireReturns == \A t \in Threads : pc[t] # "idle" ~> pc[t] = "idle"

\* The lazy bucket as an eager one: its level and its progress at this instant.
Level == Refilled(now).tokens

Bucket == INSTANCE TokenBucket WITH
    capacity <- config_.max_tokens,
    interval <- Interval,
    initial  <- config_.initial_tokens,
    level    <- Level,
    phase    <- now - Refilled(now).last

(* The limiter, refilled only when somebody asks, is indistinguishable     *)
(* from a bucket that a timer fills.                                       *)
ImplementsBucket == Bucket!BucketSpec
==============================================================================
