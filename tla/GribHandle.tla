----------------------------- MODULE GribHandle -----------------------------
(***************************************************************************)
(* Who owns what in grib::GribHandle (src/decode/handle.cpp): each object  *)
(* owns an ecCodes handle and, once nearest() has been called, a cached    *)
(* nearest-point search made for that handle.  Objects are move-only and   *)
(* used by one thread at a time.  The destructor and the move assignment   *)
(* free two things in a fixed order, so they take two steps here.          *)
(***************************************************************************)
EXTENDS Integers, FiniteSets

CONSTANTS
    Slots,      \* places where a GribHandle object may live
    MaxNew      \* bound: ecCodes objects created

ASSUME HandleAssumption == MaxNew \in Nat

Null == 0

VARIABLES
    obj,        \* the object in each slot
    handles,    \* codes_handle's that exist
    searches,   \* codes_nearest's that exist
    madeFor,    \* the handle each codes_nearest was made for
    created,    \* how many were created so far; their names are 1..created
    touched,    \* history: what the last step handed to ecCodes
    busy        \* the operation between its two deletions, if any

vars == <<obj, handles, searches, madeFor, created, touched, busy>>

NoObject == [live |-> FALSE, h_ |-> Null, nearest_ |-> Null]
Object(h, n) == [live |-> TRUE, h_ |-> h, nearest_ |-> n]
Idle == [op |-> "none", to |-> Null, from |-> Null]

Empty(s) == busy = Idle /\ ~obj[s].live
Usable(s) == busy = Idle /\ obj[s].live

------------------------------------------------------------------------------
\* from_bytes() or GribFile::next() returns a new object.
Construct(s) ==
    /\ Empty(s)
    /\ created < MaxNew
    /\ created' = created + 1
    /\ handles' = handles \cup {created'}
    /\ obj' = [obj EXCEPT ![s] = Object(created', Null)]
    /\ touched' = {}
    /\ UNCHANGED <<searches, madeFor, busy>>

\* Slip: the search is copied, not taken over.
KeepsSearch(o) == Object(Null, o.nearest_)

\* What the two std::exchange() leave in a moved-from object.
MovedFrom(o) == Object(Null, Null)

MoveConstruct(s, o) ==
    /\ Empty(s)
    /\ Usable(o)
    /\ obj' = [obj EXCEPT ![s] = obj[o], ![o] = MovedFrom(obj[o])]
    /\ touched' = {}
    /\ UNCHANGED <<handles, searches, madeFor, created, busy>>

------------------------------------------------------------------------------
\* Uses.

\* Slip: h_ is not tested.
UsedUnchecked(s) == Usable(s)

\* An accessor or nearest() gets past its test of h_.
Initialised(s) == Usable(s) /\ obj[s].h_ # Null

\* get_double(), get_long(), get_string(), values(), whatever ecCodes says.
Read(s) ==
    /\ Initialised(s)
    /\ touched' = {obj[s].h_}
    /\ UNCHANGED <<obj, handles, searches, madeFor, created, busy>>

\* A call on a moved-from object, or with a bad key or bad coordinates.
UseFails(s) ==
    /\ Usable(s)
    /\ touched' = {}
    /\ UNCHANGED <<obj, handles, searches, madeFor, created, busy>>

\* nearest() without a cached search: ecCodes makes one, which is kept and used ...
NearestCreates(s) ==
    /\ Initialised(s)
    /\ obj[s].nearest_ = Null
    /\ created < MaxNew
    /\ created' = created + 1
    /\ searches' = searches \cup {created'}
    /\ madeFor' = [madeFor EXCEPT ![created'] = obj[s].h_]
    /\ obj' = [obj EXCEPT ![s].nearest_ = created']
    /\ touched' = {created', obj[s].h_}
    /\ UNCHANGED <<handles, busy>>

\* ... or makes none, or reports an error and what it made is deleted again ...
NearestFails(s) ==
    /\ Initialised(s)
    /\ obj[s].nearest_ = Null
    /\ touched' = {obj[s].h_}
    /\ UNCHANGED <<obj, handles, searches, madeFor, created, busy>>

\* ... or there is one already.
NearestReuses(s) ==
    /\ Initialised(s)
    /\ obj[s].nearest_ # Null
    /\ touched' = {obj[s].nearest_, obj[s].h_}
    /\ UNCHANGED <<obj, handles, searches, madeFor, created, busy>>

------------------------------------------------------------------------------
\* Deletions.

\* Slip: the handle goes before the search that uses it.
ReleaseHandleFirst(s) ==
    /\ handles' = handles \ {obj[s].h_}
    /\ touched' = {obj[s].h_} \ {Null}
    /\ UNCHANGED <<obj, searches, madeFor, created>>

\* The first statement of the destructor and of a real move assignment: delete the
\* search, if there is one.
ReleaseSearch(s) ==
    /\ searches' = searches \ {obj[s].nearest_}
    /\ touched' = {obj[s].nearest_} \ {Null}
    /\ UNCHANGED <<obj, handles, madeFor, created>>

Destroy(s) ==
    /\ Usable(s)
    /\ ReleaseSearch(s)
    /\ busy' = [op |-> "destroy", to |-> s, from |-> s]

\* Slip: this == &o is not tested.
AlwaysAssigns(s, o) == TRUE

\* this != &o
Assigns(s, o) == s # o

MoveAssign(s, o) ==
    /\ Usable(s)
    /\ Usable(o)
    /\ Assigns(s, o)
    /\ ReleaseSearch(s)
    /\ busy' = [op |-> "assign", to |-> s, from |-> o]

\* The rest: delete the handle, if there is one, and end the object's life or take
\* over the other object's pointers.
FinishDestroy ==
    /\ busy.op = "destroy"
    /\ handles' = handles \ {obj[busy.to].h_}
    /\ touched' = {obj[busy.to].h_} \ {Null}
    /\ obj' = [obj EXCEPT ![busy.to] = NoObject]
    /\ busy' = Idle
    /\ UNCHANGED <<searches, madeFor, created>>

FinishAssign ==
    /\ busy.op = "assign"
    /\ handles' = handles \ {obj[busy.to].h_}
    /\ touched' = {obj[busy.to].h_} \ {Null}
    /\ obj' = [obj EXCEPT ![busy.from] = MovedFrom(obj[busy.from]),
                          ![busy.to] = obj[busy.from]]
    /\ busy' = Idle
    /\ UNCHANGED <<searches, madeFor, created>>

\* The bound is reached and every object is gone.
Finished ==
    /\ created = MaxNew
    /\ \A s \in Slots : Empty(s)
    /\ UNCHANGED vars

Init ==
    /\ obj = [s \in Slots |-> NoObject]
    /\ handles = {}
    /\ searches = {}
    /\ madeFor = [n \in 1..MaxNew |-> Null]
    /\ created = 0
    /\ touched = {}
    /\ busy = Idle

Next ==
    \/ \E s \in Slots :
          \/ Construct(s)
          \/ Read(s)
          \/ UseFails(s)
          \/ NearestCreates(s)
          \/ NearestFails(s)
          \/ NearestReuses(s)
          \/ Destroy(s)
          \/ \E o \in Slots : MoveConstruct(s, o) \/ MoveAssign(s, o)
    \/ FinishDestroy
    \/ FinishAssign
    \/ Finished

Spec == Init /\ [][Next]_vars
------------------------------------------------------------------------------
\* Properties.

Settled(s) == obj[s].live /\ (busy = Idle \/ busy.to # s)

(* An object that can be used points to things that exist, and its search  *)
(* was made for the very handle it is used with, also after moves, after   *)
(* an assignment to itself and after nearest() on a reused object.         *)
PointersValid ==
    \A s \in Slots : Settled(s) =>
        /\ obj[s].h_ # Null => obj[s].h_ \in handles
        /\ obj[s].nearest_ # Null =>
              /\ obj[s].nearest_ \in searches
              /\ madeFor[obj[s].nearest_] = obj[s].h_

(* Every ecCodes object has exactly one owner: none leaks, none is deleted *)
(* twice.                                                                  *)
OneOwner ==
    /\ \A h \in handles : Cardinality({s \in Slots : obj[s].h_ = h}) = 1
    /\ \A n \in searches : Cardinality({s \in Slots : obj[s].nearest_ = n}) = 1

(* A search never outlives the handle it was made for, not even between    *)
(* the two deletions of a destructor.                                      *)
SearchDiesFirst == \A n \in searches : madeFor[n] \in handles

(* Moved-from handles fail safely: whatever is handed to ecCodes, to be    *)
(* read, searched or deleted, exists (it did before the step, or was made  *)
(* in it), so nothing is used after it was freed, freed twice, or null.    *)
OnlyLiveTouched ==
    [][touched' \subseteq handles \cup searches \cup handles' \cup searches']_vars
==============================================================================
