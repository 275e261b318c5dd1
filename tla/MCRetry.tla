------------------------------- MODULE MCRetry -------------------------------
(* Instances of Retry for TLC.                                             *)
EXTENDS Retry

Policy(n, first, max, m, j, net, rate, server) ==
    [max_attempts |-> n, initial_delay |-> first, max_delay |-> max,
     backoff_multiplier |-> m, jitter_factor |-> j,
     retry_on_network_error |-> net, retry_on_rate_limit |-> rate,
     retry_on_server_error |-> server]

\* No attempts at all; the default shape; everything out of range; the largest
\* count; and every combination of the three flags.
MCPolicies ==
    {Policy(0, 5, 30, 2, 10, TRUE, TRUE, TRUE),
     Policy(6, 5, 100, 2, 40, TRUE, TRUE, TRUE),
     Policy(4, -3, -1, NotFinite, 400, TRUE, TRUE, TRUE),
     Policy(4, 50, 9, -2, NotFinite, TRUE, TRUE, TRUE),
     Policy(255, 1, 4, 3, 0, TRUE, FALSE, TRUE)}
    \cup {Policy(3, 1, 7, 3, 0, net, rate, server) :
            net \in BOOLEAN, rate \in BOOLEAN, server \in BOOLEAN}

\* For liveness: no attempts, a few, and the largest count.
MCFairPolicies ==
    {Policy(n, 1, 4, 3, 0, TRUE, TRUE, TRUE) : n \in {0, 3, 255}}

\* 200..206 final, 404 final, and the edges of the retried statuses.
MCStatuses == {200, 206, 404, 429, 499, 500, 599, 600}
==============================================================================
