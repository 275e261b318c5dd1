-------------------------------- MODULE Retry --------------------------------
(***************************************************************************)
(* grib::with_retry() and grib::RetryingClient (include/grib/retry.hpp,    *)
(* src/core/retry.cpp).  The operation, a get() or get_range() of          *)
(* HttpClient, is external here: it returns any of Outcomes.               *)
(*                                                                         *)
(* Delays are milliseconds.  The doubles of calculate_retry_delay() are    *)
(* exact here: multipliers are whole, jitter comes in percent, and         *)
(* NotFinite is an infinity or a NaN.                                      *)
(***************************************************************************)
EXTENDS Integers

CONSTANTS
    Policies,    \* the RetryPolicy values a caller may set
    Statuses,    \* HTTP statuses the operation may answer with
    NotFinite    \* a multiplier or jitter factor that is not finite

UINT8 == 256

ErrorCodes == {"NetworkError", "RateLimited", "ServerError", "NotFound",
               "InvalidRequest", "ParseError", "Timeout", "DecodeError",
               "FeedUnavailable", "Unknown"}

PolicyType ==
    [initial_delay : Int, max_delay : Int,
     backoff_multiplier : Int \cup {NotFinite},
     jitter_factor : Int \cup {NotFinite},
     max_attempts : 0..(UINT8 - 1),
     retry_on_network_error : BOOLEAN, retry_on_rate_limit : BOOLEAN,
     retry_on_server_error : BOOLEAN]

ASSUME RetryAssumption ==
    /\ \A p \in Policies : p \in PolicyType
    /\ Statuses \subseteq 100..999
    /\ NotFinite \notin Int

\* What the operation returns: a response or an error.
Response(s) == [ok |-> TRUE, status |-> s, code |-> "Ok"]
Err(c) == [ok |-> FALSE, status |-> 0, code |-> c]
Outcomes == {Response(s) : s \in Statuses} \cup {Err(c) : c \in ErrorCodes}

VARIABLES
    policy_,   \* RetryingClient's policy
    pc,        \* "idle", "calling" the operation, "sleeping", "looping"
    attempt,   \* std::uint8_t
    outcome,   \* `result' of this pass of the loop
    delay,     \* what the pass sleeps for
    answer,    \* what the last call returned
    made       \* history: operations run by this call, counted up to UINT8

vars == <<policy_, pc, attempt, outcome, delay, answer, made>>

------------------------------------------------------------------------------
Larger(a, b) == IF a >= b THEN a ELSE b
Smaller(a, b) == IF a <= b THEN a ELSE b
Clamp(v, low, high) == Smaller(Larger(v, low), high)

\* Error::from_response(): the code for an HTTP status.
from_response(status) ==
    CASE status = 404 -> "FeedUnavailable"
      [] status \in {400, 416} -> "InvalidRequest"
      [] status = 429 -> "RateLimited"
      [] status >= 500 -> "ServerError"
      [] OTHER -> "Unknown"

\* Slip: 500 itself is not counted.
retry_above_500(r, p) ==
    \/ p.retry_on_rate_limit /\ r.status = 429
    \/ p.retry_on_server_error /\ r.status > 500 /\ r.status < 600

\* should_retry() for a response and for an error.
should_retry_response(r, p) ==
    \/ p.retry_on_rate_limit /\ r.status = 429
    \/ p.retry_on_server_error /\ r.status >= 500 /\ r.status < 600

should_retry_error(e, p) ==
    \/ p.retry_on_network_error /\ e.code \in {"NetworkError", "Timeout"}
    \/ p.retry_on_rate_limit /\ e.code = "RateLimited"
    \/ p.retry_on_server_error /\ e.code = "ServerError"

\* Slip: every error counts as a network error.
should_retry_anything(o, p) ==
    IF o.ok THEN should_retry_response(o, p) ELSE p.retry_on_network_error

should_retry(o, p) ==
    IF o.ok THEN should_retry_response(o, p) ELSE should_retry_error(o, p)

------------------------------------------------------------------------------
\* calculate_retry_delay()

MaxDelay(p) == Larger(p.max_delay, 0)

\* Slip: the loop starts at 0, one multiplication too many.
OneMore(n) == n

\* How often the loop multiplies before attempt n.
Multiplications(n) == n - 1

\* The delay after the loop: each product is cut off.
Backoff(n, p) ==
    LET m == IF p.backoff_multiplier = NotFinite THEN 1
             ELSE Larger(p.backoff_multiplier, 0)
        after[i \in Nat] ==
            IF i = 0 THEN Clamp(p.initial_delay, 0, MaxDelay(p))
            ELSE Smaller(after[i - 1] * m, MaxDelay(p))
    IN  after[Multiplications(n)]

Spread(p) == IF p.jitter_factor = NotFinite THEN 0 ELSE Clamp(p.jitter_factor, 0, 100)

\* Slip: the jittered delay is not compared with the maximum again.
JitteredUncapped(d, j, p) == (d * j) \div 100

\* With a jitter of j percent: cut off again, then truncated.
Jittered(d, j, p) ==
    IF d * j >= MaxDelay(p) * 100 THEN MaxDelay(p) ELSE (d * j) \div 100

\* The delays calculate_retry_delay() may return.
Delays(n, p) ==
    {Jittered(Backoff(n, p), j, p) : j \in (100 - Spread(p))..(100 + Spread(p))}

------------------------------------------------------------------------------
\* with_retry()

\* A call of RetryingClient::get() or get_range().
Call ==
    /\ pc = "idle"
    /\ attempt' = 1
    /\ made' = 0
    /\ pc' = "looping"
    /\ answer' = Err("Unknown")
    /\ UNCHANGED <<policy_, outcome, delay>>

\* The loop's condition.
Enter ==
    /\ pc = "looping"
    /\ attempt <= policy_.max_attempts
    /\ pc' = "calling"
    /\ UNCHANGED <<policy_, attempt, outcome, delay, answer, made>>

\* The loop is left at its condition.
Exceeded ==
    /\ pc = "looping"
    /\ attempt > policy_.max_attempts
    /\ answer' = Err("NetworkError")
    /\ pc' = "idle"
    /\ UNCHANGED <<policy_, attempt, outcome, delay, made>>

\* Slip: the last attempt is followed by a sleep and a further pass as well.
RetriesAlways(o) == should_retry(o, policy_)

Retries(o) == should_retry(o, policy_) /\ attempt < policy_.max_attempts

\* The operation returns and the pass ends in a sleep ...
OperationRetried(o) ==
    /\ pc = "calling"
    /\ made' = Smaller(made + 1, UINT8)
    /\ outcome' = o
    /\ Retries(o)
    /\ delay' \in Delays(attempt, policy_)
    /\ pc' = "sleeping"
    /\ UNCHANGED <<policy_, attempt, answer>>

\* ... or in the return of what the operation returned.
OperationReturned(o) ==
    /\ pc = "calling"
    /\ made' = Smaller(made + 1, UINT8)
    /\ outcome' = o
    /\ ~Retries(o)
    /\ answer' = o
    /\ pc' = "idle"
    /\ UNCHANGED <<policy_, attempt, delay>>

\* Slip: continue does not reach the ++attempt.
SameAttempt(n) == n

\* ++attempt
NextAttempt(n) == (n + 1) % UINT8

\* sleep_for() is over: continue.
Awake ==
    /\ pc = "sleeping"
    /\ attempt' = NextAttempt(attempt)
    /\ delay' = 0
    /\ pc' = "looping"
    /\ UNCHANGED <<policy_, outcome, answer, made>>

\* set_policy() between two calls.
set_policy(p) ==
    /\ pc = "idle"
    /\ policy_' = p
    /\ UNCHANGED <<pc, attempt, outcome, delay, answer, made>>

Init ==
    /\ policy_ \in Policies
    /\ pc = "idle"
    /\ attempt = 0
    /\ outcome = Err("Unknown")
    /\ delay = 0
    /\ answer = Err("Unknown")
    /\ made = 0

Next ==
    \/ Call
    \/ Enter
    \/ Exceeded
    \/ \E o \in Outcomes : OperationRetried(o) \/ OperationReturned(o)
    \/ Awake
    \/ \E p \in Policies : set_policy(p)

Spec == Init /\ [][Next]_vars

\* Operations and sleeps end, and a started call goes on; nobody has to call.
Fairness ==
    WF_vars(Enter \/ Exceeded \/ Awake
            \/ \E o \in Outcomes : OperationRetried(o) \/ OperationReturned(o))

FairSpec == Spec /\ Fairness
------------------------------------------------------------------------------
\* Properties.

(* Types; every sleep is within the policy's maximum, jitter included.     *)
TypeOK ==
    /\ policy_ \in Policies
    /\ pc \in {"idle", "looping", "calling", "sleeping"}
    /\ attempt \in 0..(UINT8 - 1)
    /\ outcome \in Outcomes \cup {Err("Unknown")}
    /\ delay \in 0..MaxDelay(policy_)
    /\ answer \in Outcomes \cup {Err("Unknown")}
    /\ made \in Nat

(* A call runs the operation at most max_attempts times, 255 included: the *)
(* eight-bit counter is one ahead of the operations run and never wraps.   *)
AttemptsBounded ==
    pc # "idle" => /\ made <= policy_.max_attempts
                   /\ attempt = made + (IF pc = "sleeping" THEN 0 ELSE 1)

\* Outcomes that another attempt can improve on, by the meaning of the codes.
Transient(o) ==
    IF o.ok THEN o.status = 429 \/ o.status \in 500..599
    ELSE o.code \in {"NetworkError", "Timeout", "RateLimited", "ServerError"}

(* No outcome is lost: each is followed by another attempt, and then it   *)
(* is transient (no good response and no permanent error is dropped), or   *)
(* it is what the caller gets, and not the error after the loop.           *)
NoOutcomeLost ==
    /\ pc = "sleeping" => Transient(outcome)
    /\ pc = "idle" /\ made > 0 => answer = outcome

\* base^n
Power(base, n) == LET p[i \in Nat] == IF i = 0 THEN 1 ELSE base * p[i - 1] IN p[n]

(* Cutting the delay off at each multiplication gives the same delay as    *)
(* the exponential formula cut off once, for the first attempts.           *)
BackoffIsExponential ==
    pc = "sleeping" /\ attempt <= 6 /\ policy_.backoff_multiplier # NotFinite =>
        Backoff(attempt, policy_)
          = Smaller(Clamp(policy_.initial_delay, 0, MaxDelay(policy_))
                      * Power(Larger(policy_.backoff_multiplier, 0), attempt - 1),
                    MaxDelay(policy_))

(* The two should_retry() agree: whether a status is retried as a response *)
(* or, turned into an error by from_response(), as an error makes no       *)
(* difference, for every status HTTP has (from 600 on they part).          *)
StatusAndErrorAgree ==
    \A s \in 100..599 :
        should_retry_response(Response(s), policy_)
            = should_retry_error(Err(from_response(s)), policy_)

(* Every call returns.                                                     *)
CallReturns == pc # "idle" ~> pc = "idle"
==============================================================================
