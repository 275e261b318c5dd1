---------------------------- MODULE CurlLifetime ----------------------------
(***************************************************************************)
(* How long libcurl lives (src/http/client.cpp): the shared CurlRuntime,   *)
(* held by a function-local static and by the Impl of every HttpClient,    *)
(* and the easy handle of each Impl.  Every client belongs to a thread of  *)
(* its own, so the steps of different clients interleave; clients may be   *)
(* moved, and may outlive main() and the static.                           *)
(***************************************************************************)
EXTENDS Integers

CONSTANTS
    Clients,    \* places where an HttpClient object may live
    MaxNew      \* bound: Impl objects created

ASSUME LifetimeAssumption == MaxNew \in Nat

Null == 0
Static == 0             \* the owner of the runtime that runtime() holds
Impls == 1..MaxNew

VARIABLES
    libcurl,    \* external: "unused", "up", "failed" to start, "down"
    starts,     \* history: curl_global_init() calls
    static,     \* the static in runtime(): "unset", "initialising", "set"
    owners,     \* owners of the shared CurlRuntime
    easy,       \* Impls with an open easy handle
    impl_,      \* the Impl of each client
    phase,      \* of each client: "none", "runtime" and "easy" in its constructor, "live"
    dying,      \* Impls in their destructor: "no", "closing", "releasing"
    created,    \* Impls created so far
    exited      \* main() has returned

runtime == <<libcurl, starts, static, owners>>
handles == <<easy, dying>>
clients == <<impl_, phase, created, exited>>
vars == <<runtime, handles, clients>>

------------------------------------------------------------------------------
\* HttpClient(config), up to the call of runtime().
Construct(c) ==
    /\ phase[c] = "none" /\ ~exited
    /\ created < MaxNew
    /\ created' = created + 1
    /\ impl_' = [impl_ EXCEPT ![c] = created']
    /\ phase' = [phase EXCEPT ![c] = "runtime"]
    /\ UNCHANGED <<runtime, handles, exited>>

\* Slip: the static is an unguarded global.
NotSetYet == static # "set"

\* The initialisation of the static runs once; other threads wait for it.
MayInitialise == static = "unset"

InitialiseRuntime(c) ==
    /\ phase[c] = "runtime"
    /\ MayInitialise
    /\ static' = "initialising"
    /\ starts' = starts + 1
    /\ UNCHANGED <<libcurl, owners, handles, clients>>

\* curl_global_init() returns.
RuntimeInitialised ==
    /\ static = "initialising"
    /\ libcurl' \in {"up", "failed"}
    /\ static' = "set"
    /\ owners' = {Static}
    /\ UNCHANGED <<starts, handles, clients>>

\* runtime() returns a copy of the shared pointer.
ShareRuntime(c) ==
    /\ phase[c] = "runtime"
    /\ static = "set"
    /\ owners' = owners \cup {impl_[c]}
    /\ phase' = [phase EXCEPT ![c] = "easy"]
    /\ UNCHANGED <<libcurl, starts, static, handles, impl_, created, exited>>

\* curl_easy_init(), which may fail, and which is not called without libcurl.
OpenEasy(c) ==
    /\ phase[c] = "easy"
    /\ easy' \in {easy} \cup (IF libcurl = "failed" THEN {} ELSE {easy \cup {impl_[c]}})
    /\ phase' = [phase EXCEPT ![c] = "live"]
    /\ UNCHANGED <<runtime, dying, impl_, created, exited>>

------------------------------------------------------------------------------
\* ~Impl starts for what c holds.
Dying(c) == IF impl_[c] = Null THEN dying ELSE [dying EXCEPT ![impl_[c]] = "closing"]

\* The defaulted destructor, move constructor and move assignment.
Destroy(c) ==
    /\ phase[c] = "live"
    /\ dying' = Dying(c)
    /\ impl_' = [impl_ EXCEPT ![c] = Null]
    /\ phase' = [phase EXCEPT ![c] = "none"]
    /\ UNCHANGED <<runtime, easy, created, exited>>

MoveConstruct(c, d) ==
    /\ phase[c] = "none" /\ phase[d] = "live"
    /\ impl_' = [impl_ EXCEPT ![c] = impl_[d], ![d] = Null]
    /\ phase' = [phase EXCEPT ![c] = "live"]
    /\ UNCHANGED <<runtime, handles, created, exited>>

\* Slip: what the target held is forgotten.
Forgotten(c) == dying

\* What becomes of the Impl that a move assignment replaces.
Replaced(c) == Dying(c)

MoveAssign(c, d) ==
    /\ c # d
    /\ phase[c] = "live" /\ phase[d] = "live"
    /\ dying' = Replaced(c)
    /\ impl_' = [impl_ EXCEPT ![c] = impl_[d], ![d] = Null]
    /\ UNCHANGED <<runtime, easy, phase, created, exited>>

------------------------------------------------------------------------------
\* ~Impl: the body closes the easy handle ...
CloseEasy(i) ==
    /\ dying[i] = "closing"
    /\ easy' = easy \ {i}
    /\ dying' = [dying EXCEPT ![i] = "releasing"]
    /\ UNCHANGED <<runtime, clients>>

\* Without o the runtime loses an owner, and with the last one ~CurlRuntime runs.
Release(o) ==
    /\ owners' = owners \ {o}
    /\ libcurl' = IF owners' = {} /\ libcurl = "up" THEN "down" ELSE libcurl

\* Slip: the runtime may go before the handle.
MayReleaseAtOnce(i) == dying[i] # "no"

\* ... and the members go after the body.
MayRelease(i) == dying[i] = "releasing"

ReleaseRuntime(i) ==
    /\ MayRelease(i)
    /\ Release(i)
    /\ dying' = [dying EXCEPT ![i] = "no"]
    /\ UNCHANGED <<starts, static, easy, clients>>

\* main() returns: no client is constructed any more ...
Exit ==
    /\ ~exited
    /\ \A c \in Clients : phase[c] \in {"none", "live"}
    /\ exited' = TRUE
    /\ UNCHANGED <<runtime, handles, impl_, phase, created>>

\* ... and the static goes, before or after the clients that are left.
StaticDestroyed ==
    /\ exited
    /\ Static \in owners
    /\ Release(Static)
    /\ UNCHANGED <<starts, static, handles, clients>>

\* Nothing is left to be destroyed.
Over ==
    /\ exited
    /\ \A c \in Clients : phase[c] = "none"
    /\ \A i \in Impls : dying[i] = "no"
    /\ Static \notin owners

Finished == Over /\ UNCHANGED vars

Init ==
    /\ libcurl = "unused"
    /\ starts = 0
    /\ static = "unset"
    /\ owners = {}
    /\ easy = {}
    /\ impl_ = [c \in Clients |-> Null]
    /\ phase = [c \in Clients |-> "none"]
    /\ dying = [i \in Impls |-> "no"]
    /\ created = 0
    /\ exited = FALSE

Next ==
    \/ \E c \in Clients :
          \/ Construct(c) \/ InitialiseRuntime(c) \/ ShareRuntime(c) \/ OpenEasy(c)
          \/ Destroy(c)
          \/ \E d \in Clients : MoveConstruct(c, d) \/ MoveAssign(c, d)
    \/ RuntimeInitialised
    \/ \E i \in Impls : CloseEasy(i) \/ ReleaseRuntime(i)
    \/ Exit
    \/ StaticDestroyed
    \/ Finished

Spec == Init /\ [][Next]_vars
------------------------------------------------------------------------------
\* Properties.

(* Types; curl_global_init() is called once, however many threads make     *)
(* their first client at the same time.                                    *)
TypeOK ==
    /\ libcurl \in {"unused", "up", "failed", "down"}
    /\ starts \in 0..1
    /\ static \in {"unset", "initialising", "set"}
    /\ owners \subseteq {Static} \cup Impls
    /\ easy \subseteq Impls
    /\ impl_ \in [Clients -> Impls \cup {Null}]
    /\ phase \in [Clients -> {"none", "runtime", "easy", "live"}]
    /\ dying \in [Impls -> {"no", "closing", "releasing"}]
    /\ created \in 0..MaxNew
    /\ exited \in BOOLEAN

(* The runtime is kept alive until after every instance's easy handle has  *)
(* been closed: libcurl is up while a handle is open, whatever the order   *)
(* in which clients, moved clients and the static go.                      *)
HandlesNeedLibcurl == easy # {} => libcurl = "up"

(* When all clients and the static are gone so is everything they held: no *)
(* easy handle is open, and libcurl, if it ever started, was shut down.    *)
NothingLeft == Over => owners = {} /\ easy = {} /\ libcurl # "up"
==============================================================================
