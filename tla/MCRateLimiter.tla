---------------------------- MODULE MCRateLimiter ----------------------------
(* Instances of RateLimiterHistory for TLC.                                *)
EXTENDS RateLimiterHistory, TLC

Config(max, refill, initial, w) ==
    [max_tokens |-> max, refill_interval |-> refill, initial_tokens |-> initial,
     max_wait |-> w]

\* A burst of two, the same from empty, a bucket of one with a bounded acquire(),
\* and a configuration that sanitized() has to repair in every field (its
\* interval is then longer than ClockMax).
MCConfigs ==
    {Config(2, 1, 2, NoWait), Config(2, 1, 0, NoWait), Config(1, 2, 0, 2),
     Config(0, -1, 5, NoWait)}

\* The smallest limiter on which acquire_for() meets a stale wait.
MCGiveUpConfigs == {Config(1, 2, 0, NoWait)}

MCMaxWaits == {-1, 1, 150}

MCGiveUpWaits == {3}

Symmetry == Permutations(Threads)
==============================================================================
