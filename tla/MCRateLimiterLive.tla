-------------------------- MODULE MCRateLimiterLive --------------------------
(* An instance of RateLimiter, without history, for the liveness run.      *)
EXTENDS RateLimiter

\* An empty bucket with a bounded acquire(), and one with an unbounded acquire()
\* and half a burst.
MCFairConfigs ==
    {[max_tokens |-> 1, refill_interval |-> 2, initial_tokens |-> 0,
      max_wait |-> 3],
     [max_tokens |-> 2, refill_interval |-> 1, initial_tokens |-> 1,
      max_wait |-> NoWait]}

MCMaxWaits == {1, 3, 150}
==============================================================================
