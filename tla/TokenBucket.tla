----------------------------- MODULE TokenBucket -----------------------------
(***************************************************************************)
(* What grib::RateLimiter promises: an eager token bucket.  One token      *)
(* arrives every `interval' ticks while the bucket is not full; a full     *)
(* bucket earns nothing, so the first token after a burst always takes a   *)
(* whole interval.  The library's limiter never runs on a timer: it works  *)
(* the same levels out lazily, whenever somebody asks.                     *)
(***************************************************************************)
EXTENDS Integers

VARIABLES
    capacity,   \* burst capacity, fixed when the bucket is made
    interval,   \* ticks that earn one token, fixed as well
    initial,    \* level after construction and after a reset, fixed as well
    level,      \* tokens that can be taken now
    phase       \* ticks already earned towards the next token

bucketVars == <<capacity, interval, initial, level, phase>>

BucketInit ==
    /\ capacity \in Nat \ {0}
    /\ interval \in Nat \ {0}
    /\ initial \in 0..capacity
    /\ level = initial
    /\ phase = 0

\* One tick of the clock.
Earn ==
    /\ \/ /\ level = capacity
          /\ UNCHANGED <<level, phase>>
       \/ /\ level < capacity
          /\ phase + 1 < interval
          /\ phase' = phase + 1
          /\ UNCHANGED level
       \/ /\ level < capacity
          /\ phase + 1 = interval
          /\ phase' = 0
          /\ level' = level + 1
    /\ UNCHANGED <<capacity, interval, initial>>

Spend ==
    /\ level > 0
    /\ level' = level - 1
    /\ UNCHANGED <<capacity, interval, initial, phase>>

Refresh ==
    /\ level' = initial
    /\ phase' = 0
    /\ UNCHANGED <<capacity, interval, initial>>

BucketNext == Earn \/ Spend \/ Refresh

BucketSpec == BucketInit /\ [][BucketNext]_bucketVars
==============================================================================
