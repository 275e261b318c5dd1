-------------------------- MODULE RateLimiterHistory --------------------------
(***************************************************************************)
(* RateLimiter watched from outside.  The history variables count what one *)
(* window of time has been granted, and remember which threads found no    *)
(* token and have not been overtaken since.  They never restrict a step.   *)
(***************************************************************************)
EXTENDS RateLimiter

VARIABLES
    winStart,     \* when the observed window begins
    winGrants,    \* tokens handed out in it
    winResets,    \* reset() calls in it
    undisturbed   \* threads whose failed take is the last word on the bucket

windowVars == <<winStart, winGrants, winResets>>
histVars == <<vars, windowVars, undisturbed>>

HInit ==
    /\ Init
    /\ winStart = now
    /\ winGrants = 0
    /\ winResets = 0
    /\ undisturbed = {}

HGrants(t) ==
    /\ Grants(t)
    /\ winGrants' = winGrants + 1
    /\ undisturbed' = {}
    /\ UNCHANGED <<winStart, winResets>>

HReset(t) ==
    /\ Reset(t)
    /\ winResets' = winResets + 1
    /\ undisturbed' = {}
    /\ UNCHANGED <<winStart, winGrants>>

HFindsNone(t) ==
    /\ LoopFindsNone(t)
    /\ undisturbed' = undisturbed \cup {t}
    /\ UNCHANGED windowVars

HGiveUp(t) ==
    /\ GiveUp(t)
    /\ undisturbed' = undisturbed \ {t}
    /\ UNCHANGED windowVars

HQuiet ==
    /\ (\E t \in Threads : Quiet(t)) \/ Tick \/ Finished
    /\ UNCHANGED <<windowVars, undisturbed>>

\* The observer starts a new window, at any moment.
OpenWindow ==
    /\ winStart' = now
    /\ winGrants' = 0
    /\ winResets' = 0
    /\ UNCHANGED <<vars, undisturbed>>

HNext ==
    \/ \E t \in Threads : HGrants(t) \/ HReset(t) \/ HFindsNone(t) \/ HGiveUp(t)
    \/ HQuiet
    \/ OpenWindow

HSpec == HInit /\ [][HNext]_histVars
------------------------------------------------------------------------------
(* Types of the history variables; a window never starts in the future.    *)
HTypeOK ==
    /\ winStart \in 0..now
    /\ winGrants \in Nat
    /\ winResets \in Nat
    /\ undisturbed \subseteq Threads

(* The rate limit, over every window of time and not only from the start:  *)
(* a window that lasts d ticks is granted at most the burst capacity plus  *)
(* one token per whole interval in d, plus the initial tokens of every     *)
(* reset() made in it.                                                     *)
RateBound ==
    Interval * winGrants
        <= Interval * (config_.max_tokens + config_.initial_tokens * winResets)
           + (now - winStart)

(* A thread that slept for its wait, and that nobody overtook meanwhile,   *)
(* finds a token when it comes back: the wait worked out before the mutex  *)
(* was given up is long enough, truncation to milliseconds included.       *)
OneSleepSuffices ==
    now < ClockMax =>
        \A t \in undisturbed : pc[t] = "take" => available_tokens(now) > 0

(* acquire_for() blocks up to max_wait: it does not give up on a token     *)
(* that arrives by its deadline.                                           *)
PunctualGiveUp ==
    [][\A t \in Threads :
          GiveUp(t) /\ t \in undisturbed
              => last_refill_ + Interval > deadline[t]]_histVars
==============================================================================
