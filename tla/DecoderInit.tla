----------------------------- MODULE DecoderInit -----------------------------
(***************************************************************************)
(* make_handle_serialized() (src/decode/handle.cpp): every thread that     *)
(* decodes a message creates its ecCodes handle here.  The first creation  *)
(* loads ecCodes' definitions into global state that is not thread-safe,   *)
(* so it runs under a mutex, and an atomic flag lets later creations skip  *)
(* the mutex (double-checked locking).                                     *)
(*                                                                         *)
(* Memory ordering is modelled by views.  `version' counts the writes: the *)
(* creations that load definitions into the global state, and the store of *)
(* the flag.  view[t] is how many of them happen before t's next step.  A  *)
(* release (a store, an unlock) publishes the writer's view, an acquire (a *)
(* load, a lock) joins it, a relaxed load joins nothing, and a load may    *)
(* miss a store that does not happen before it.                            *)
(***************************************************************************)
EXTENDS Integers

CONSTANTS
    Threads,    \* decoding threads
    NoThread,   \* the owner of a free mutex
    MaxCalls    \* bound: calls of make_handle_serialized()

ASSUME DecoderAssumption == NoThread \notin Threads /\ MaxCalls \in Nat

VARIABLES
    g_eccodes_ready,      \* the atomic flag
    readyView,            \* what its release store published
    g_eccodes_init_mtx,   \* the thread that holds the mutex, or NoThread
    mutexView,            \* what the last unlock published
    pc,                   \* where each thread is, or "idle"
    view,                 \* the writes each thread is ordered after
    version,              \* writes of the global state and of the flag so far
    warm,                 \* whether ecCodes has loaded its definitions
    cold,                 \* the creations under way that are loading them
    calls                 \* calls made so far

vars == <<g_eccodes_ready, readyView, g_eccodes_init_mtx, mutexView, pc, view,
          version, warm, cold, calls>>
ecCodes == <<version, warm, cold>>

Join(a, b) == IF a >= b THEN a ELSE b

\* What a load of the flag by t may return: a load that is not ordered after the
\* store may still return the old value.
Loads(t, b) ==
    \/ b = g_eccodes_ready
    \/ ~b /\ view[t] < readyView

------------------------------------------------------------------------------
\* ecCodes.  A creation that starts before the definitions are loaded loads them;
\* if it then fails, it may or may not have finished loading.

Begin(t, at) ==
    /\ cold' = IF warm THEN cold ELSE cold \cup {t}
    /\ pc' = [pc EXCEPT ![t] = at]
    /\ UNCHANGED <<g_eccodes_ready, readyView, g_eccodes_init_mtx, mutexView,
                   view, version, warm, calls>>

\* The effect of the end of t's creation on the global state.
End(t, ok) ==
    IF t \in cold
    THEN /\ cold' = cold \ {t}
         /\ version' = version + 1
         /\ view' = [view EXCEPT ![t] = version + 1]
         /\ warm' \in {w \in BOOLEAN : warm \/ ok => w}
    ELSE UNCHANGED <<version, warm, cold, view>>

------------------------------------------------------------------------------
\* make_handle_serialized()

\* t's view after a load that returned b: an acquire load joins what the store it
\* reads published.  (Slip: a relaxed load joins nothing.)
RelaxedView(t, b) == view[t]

AcquiredView(t, b) == IF b THEN Join(view[t], readyView) ELSE view[t]

\* Where a load that returned b leads.  (Slip: to the mutex in any case.)
AlwaysLock(b) == "lock"

FastOrLock(b) == IF b THEN "create" ELSE "lock"

\* A call loads the flag (acquire) and goes to the fast path or to the mutex.
LoadReady(t) ==
    /\ pc[t] = "idle"
    /\ calls < MaxCalls
    /\ calls' = calls + 1
    /\ \E b \in BOOLEAN :
          /\ Loads(t, b)
          /\ pc' = [pc EXCEPT ![t] = FastOrLock(b)]
          /\ view' = [view EXCEPT ![t] = AcquiredView(t, b)]
    /\ UNCHANGED <<g_eccodes_ready, readyView, g_eccodes_init_mtx, mutexView,
                   ecCodes>>

Lock(t) ==
    /\ pc[t] = "lock"
    /\ g_eccodes_init_mtx = NoThread
    /\ g_eccodes_init_mtx' = t
    /\ view' = [view EXCEPT ![t] = Join(@, mutexView)]
    /\ pc' = [pc EXCEPT ![t] = "recheck"]
    /\ UNCHANGED <<g_eccodes_ready, readyView, mutexView, ecCodes, calls>>

Unlock(t) ==
    /\ g_eccodes_init_mtx' = NoThread
    /\ mutexView' = view[t]

\* What the second, relaxed load, under the mutex, may return.  (Slip: the value of
\* the first load is used again.)
KeepsFirstLoad(t, b) == ~b

SecondLoad(t, b) == Loads(t, b)

\* Somebody else has done it: unlock and go to
\* the fast path ...
RecheckReady(t) ==
    /\ pc[t] = "recheck"
    /\ SecondLoad(t, TRUE)
    /\ Unlock(t)
    /\ pc' = [pc EXCEPT ![t] = "create"]
    /\ UNCHANGED <<g_eccodes_ready, readyView, view, ecCodes, calls>>

\* ... or create the handle with the mutex held.
RecheckNotReady(t) ==
    /\ pc[t] = "recheck"
    /\ SecondLoad(t, FALSE)
    /\ Begin(t, "loading")

\* The creation under the mutex returned a handle.
LoadingSucceeds(t) ==
    /\ pc[t] = "loading"
    /\ End(t, TRUE)
    /\ pc' = [pc EXCEPT ![t] = "publish"]
    /\ UNCHANGED <<g_eccodes_ready, readyView, g_eccodes_init_mtx, mutexView,
                   calls>>

\* Slip: the flag is stored whatever the creation returned.
LoadingFailsPublishes(t) ==
    /\ pc[t] = "loading"
    /\ End(t, FALSE)
    /\ pc' = [pc EXCEPT ![t] = "publish"]
    /\ UNCHANGED <<g_eccodes_ready, readyView, g_eccodes_init_mtx, mutexView,
                   calls>>

\* Slip: the early return forgets the mutex.
LoadingFailsHoldsMutex(t) ==
    /\ pc[t] = "loading"
    /\ End(t, FALSE)
    /\ pc' = [pc EXCEPT ![t] = "idle"]
    /\ UNCHANGED <<g_eccodes_ready, readyView, g_eccodes_init_mtx, mutexView,
                   calls>>

\* It returned nullptr: unlock and return it; the flag stays as it is.
LoadingFails(t) ==
    /\ pc[t] = "loading"
    /\ End(t, FALSE)
    /\ g_eccodes_init_mtx' = NoThread
    /\ mutexView' = view'[t]
    /\ pc' = [pc EXCEPT ![t] = "idle"]
    /\ UNCHANGED <<g_eccodes_ready, readyView, calls>>

\* The release store.
Publish(t) ==
    /\ pc[t] = "publish"
    /\ g_eccodes_ready' = TRUE
    /\ version' = version + 1
    /\ view' = [view EXCEPT ![t] = version + 1]
    /\ readyView' = version + 1
    /\ pc' = [pc EXCEPT ![t] = "unlock"]
    /\ UNCHANGED <<g_eccodes_init_mtx, mutexView, warm, cold, calls>>

\* return h, with the lock_guard's destructor.
ReturnFirst(t) ==
    /\ pc[t] = "unlock"
    /\ Unlock(t)
    /\ pc' = [pc EXCEPT ![t] = "idle"]
    /\ UNCHANGED <<g_eccodes_ready, readyView, view, ecCodes, calls>>

\* The creation without the mutex.
Create(t) ==
    /\ pc[t] = "create"
    /\ Begin(t, "creating")

\* It returns a handle or nullptr, and so does the call.
ReturnLater(t) ==
    /\ pc[t] = "creating"
    /\ \E ok \in BOOLEAN : End(t, ok)
    /\ pc' = [pc EXCEPT ![t] = "idle"]
    /\ UNCHANGED <<g_eccodes_ready, readyView, g_eccodes_init_mtx, mutexView,
                   calls>>

Steps(t) ==
    \/ Lock(t)
    \/ RecheckReady(t)
    \/ RecheckNotReady(t)
    \/ LoadingSucceeds(t)
    \/ LoadingFails(t)
    \/ Publish(t)
    \/ ReturnFirst(t)
    \/ Create(t)
    \/ ReturnLater(t)

Finished ==
    /\ calls = MaxCalls
    /\ \A t \in Threads : pc[t] = "idle"
    /\ UNCHANGED vars

Init ==
    /\ g_eccodes_ready = FALSE
    /\ readyView = 0
    /\ g_eccodes_init_mtx = NoThread
    /\ mutexView = 0
    /\ pc = [t \in Threads |-> "idle"]
    /\ view = [t \in Threads |-> 0]
    /\ version = 0
    /\ warm = FALSE
    /\ cold = {}
    /\ calls = 0

Next == (\E t \in Threads : LoadReady(t) \/ Steps(t)) \/ Finished

Spec == Init /\ [][Next]_vars

\* A thread inside a call keeps running, and a creation comes to an end.  Weak
\* fairness is enough for the mutex too: the calls are finitely many, so a
\* waiting thread finds it free for good at last.
Fairness == \A t \in Threads : WF_vars(Steps(t))

FairSpec == Spec /\ Fairness
------------------------------------------------------------------------------
\* Properties.

Creating == {t \in Threads : pc[t] \in {"loading", "creating"}}

(* While one creation loads ecCodes' definitions no other creation runs,   *)
(* on the mutex or past it: the race that aborts the process cannot occur. *)
LoadsAlone == \A t \in cold : Creating = {t}

(* Every creation, on the fast path or under the mutex, happens after all  *)
(* the loading done before it: no thread decodes with definitions that     *)
(* another thread's writes have not been ordered before.                   *)
SeesDefinitions == \A t \in Creating : view[t] = version

(* Only the first creation is serialised: once the flag is set no creation *)
(* runs under the mutex, not even of a thread that found the flag down and *)
(* got the mutex after somebody else's successful creation.                *)
OnlyFirstSerialized ==
    g_eccodes_ready => \A t \in Threads : pc[t] # "loading"

(* The mutex is off the hot path: a thread that is ordered after the store *)
(* of the flag never waits for the mutex again.                            *)
FastPathStays ==
    \A t \in Threads :
        g_eccodes_ready /\ view[t] >= readyView => pc[t] # "lock"

(* Every call returns, also after a first creation that failed.            *)
CallsReturn == \A t \in Threads : pc[t] # "idle" ~> pc[t] = "idle"
==============================================================================
