-------------------------- MODULE GribHandleProofs --------------------------
(***************************************************************************)
(* Ownership of ecCodes objects by GribHandle objects, proved for any set  *)
(* of objects and any number of creations.  What the runs check is not     *)
(* inductive: that a pointer is valid after a move rests on no two objects *)
(* sharing it, and that nothing leaks between the two deletions rests on   *)
(* knowing which single pointer may dangle there.  Ownership says all of   *)
(* that, and the four properties follow from it.                           *)
(***************************************************************************)
EXTENDS GribHandle, FiniteSetTheorems, TLAPS

\* Between its two deletions a destructor or a move assignment works on slot s.
HalfGone(s) == busy # Idle /\ busy.to = s

\* What an object may hold when the names 1..n have been given out.
Objects(n) == [live : BOOLEAN, h_ : 0..n, nearest_ : 0..n]

Types ==
    /\ created \in 0..MaxNew
    /\ obj \in [Slots -> Objects(created)]
    /\ handles \subseteq 1..created
    /\ searches \subseteq 1..created
    /\ madeFor \in [1..MaxNew -> 0..MaxNew]

\* The operation between its deletions, if any, works on live objects.
BusyOK ==
    \/ busy = Idle
    \/ \E s \in Slots :
          busy = [op |-> "destroy", to |-> s, from |-> s] /\ obj[s].live
    \/ \E s, o \in Slots :
          /\ busy = [op |-> "assign", to |-> s, from |-> o]
          /\ s # o /\ obj[s].live /\ obj[o].live

\* Pointers are null or valid; only the search of a slot half gone dangles.
ValidAt(s) ==
    /\ ~obj[s].live => obj[s].h_ = Null /\ obj[s].nearest_ = Null
    /\ obj[s].h_ # Null => obj[s].h_ \in handles
    /\ obj[s].nearest_ # Null /\ ~HalfGone(s) =>
          /\ obj[s].nearest_ \in searches
          /\ madeFor[obj[s].nearest_] = obj[s].h_
          /\ obj[s].h_ # Null
    /\ HalfGone(s) => obj[s].nearest_ \notin searches

Valid == \A s \in Slots : ValidAt(s)

\* No two objects share anything.
Apart ==
    \A s, o \in Slots : s # o =>
        /\ obj[s].h_ = obj[o].h_ => obj[s].h_ = Null
        /\ obj[s].nearest_ = obj[o].nearest_ => obj[s].nearest_ = Null

\* Nothing is without an owner.
Owned ==
    /\ \A h \in handles : \E s \in Slots : obj[s].h_ = h
    /\ \A n \in searches : \E s \in Slots : obj[s].nearest_ = n

Ownership == Types /\ BusyOK /\ Valid /\ Apart /\ Owned
------------------------------------------------------------------------------
\* Before the first object is made there is nothing to own.
LEMMA OwnershipInit == Init => Ownership
  BY HandleAssumption DEF Init, Ownership, Types, BusyOK, Valid, ValidAt, Apart, Owned,
     NoObject, Null, Objects

(* Every operation of GribHandle keeps the ownership: construction and     *)
(* nearest() hand the new ecCodes object to one slot, a move leaves nulls  *)
(* behind, and the two deletions of a destructor or of a move assignment   *)
(* free what their own slot alone points to.                               *)
LEMMA OwnershipStep == Ownership /\ [Next]_vars => Ownership'
  <1> SUFFICES ASSUME Ownership, [Next]_vars PROVE Ownership'
    OBVIOUS
  <1> USE HandleAssumption DEF Null
  <1>1. /\ created \in Nat /\ MaxNew \in Nat /\ created <= MaxNew
        /\ obj \in [Slots -> Objects(created)]
        /\ \A s \in Slots : /\ obj[s] \in Objects(created)
                            /\ obj[s].h_ \in 0..created
                            /\ obj[s].nearest_ \in 0..created
                            /\ obj[s].live \in BOOLEAN
    BY DEF Ownership, Types, Objects
  <1>o. \A n \in Nat : /\ [live |-> TRUE, h_ |-> 0, nearest_ |-> 0] \in Objects(n)
                       /\ [live |-> FALSE, h_ |-> 0, nearest_ |-> 0] \in Objects(n)
                       /\ Objects(n) \subseteq Objects(n + 1)
    BY DEF Objects
  <1>2. ASSUME NEW s \in Slots, Construct(s)  PROVE Ownership'
    <2>1. /\ busy = Idle /\ busy' = Idle /\ ~obj[s].live
          /\ created' = created + 1 /\ created' \in 1..MaxNew
          /\ obj' = [obj EXCEPT ![s] = [live |-> TRUE, h_ |-> created', nearest_ |-> 0]]
          /\ handles' = handles \cup {created'} /\ searches' = searches
          /\ madeFor' = madeFor
      BY <1>1, <1>2 DEF Construct, Empty, Object
    <2>2. Types'
      <3>1. [live |-> TRUE, h_ |-> created', nearest_ |-> 0] \in Objects(created')
        BY <2>1, <1>1 DEF Objects
      <3>2. obj' \in [Slots -> Objects(created')]
        BY <3>1, <2>1, <1>1, <1>o
      <3> QED  BY <3>2, <2>1, <1>1 DEF Ownership, Types
    <2>3. obj'[s].h_ = created' /\ obj'[s].nearest_ = 0 /\ obj'[s].live
      BY <2>1 DEF Ownership, Types
    <2>4. \A o \in Slots : o # s => obj'[o] = obj[o]
      BY <2>1 DEF Ownership, Types
    <2>5. BusyOK' /\ \A o \in Slots : ~HalfGone(o) /\ ~HalfGone(o)'
      BY <2>1 DEF BusyOK, HalfGone
    <2>6. Valid'
      BY <2>1, <2>3, <2>4, <2>5 DEF Ownership, Valid, ValidAt
    <2>7. Apart'
      BY <2>1, <2>3, <2>4, <1>1 DEF Ownership, Apart
    <2>8. Owned'
      BY <2>1, <2>3, <2>4, <1>1 DEF Ownership, Owned, Valid, ValidAt, Types
    <2> QED  BY <2>2, <2>5, <2>6, <2>7, <2>8 DEF Ownership
  <1>3. ASSUME NEW s \in Slots, NEW o \in Slots, MoveConstruct(s, o)
        PROVE  Ownership'
    <2>1. /\ busy = Idle /\ busy' = Idle /\ ~obj[s].live /\ obj[o].live /\ s # o
          /\ obj' = [obj EXCEPT ![s] = obj[o],
                                ![o] = [live |-> TRUE, h_ |-> 0, nearest_ |-> 0]]
          /\ UNCHANGED <<handles, searches, madeFor, created>>
      BY <1>3 DEF MoveConstruct, Empty, Usable, Object, MovedFrom
    <2>2. Types'
      <3>1. obj' \in [Slots -> Objects(created)]
        BY <2>1, <1>1, <1>o
      <3> QED  BY <3>1, <2>1 DEF Ownership, Types
    <2>3. /\ obj'[s] = obj[o]
          /\ obj'[o].h_ = 0 /\ obj'[o].nearest_ = 0 /\ obj'[o].live
          /\ obj[s].h_ = 0 /\ obj[s].nearest_ = 0
          /\ \A p \in Slots : p # s /\ p # o => obj'[p] = obj[p]
      BY <2>1 DEF Ownership, Types, Valid, ValidAt
    <2>5. BusyOK' /\ \A p \in Slots : ~HalfGone(p) /\ ~HalfGone(p)'
      BY <2>1 DEF BusyOK, HalfGone
    <2>6. Valid'
      <3>1. ASSUME NEW p \in Slots  PROVE ValidAt(p)'
        <4>1. CASE p = s
          BY <4>1, <2>1, <2>3, <2>5 DEF Ownership, Valid, ValidAt
        <4>2. CASE p = o
          BY <4>2, <2>1, <2>3, <2>5 DEF Ownership, Valid, ValidAt
        <4>3. CASE p # s /\ p # o
          <5>1. obj'[p] = obj[p]  BY <4>3, <2>3
          <5> QED  BY <4>3, <5>1, <2>1, <2>3, <2>5 DEF Ownership, Valid, ValidAt
        <4> QED  BY <4>1, <4>2, <4>3
      <3> QED  BY <3>1 DEF Valid
    <2>7. Apart'
      BY <2>1, <2>3, <1>1 DEF Ownership, Apart
    <2>8. Owned'
      <3>1. ASSUME NEW p \in Slots
            PROVE  /\ obj[p].h_ # 0 => \E q \in Slots : obj'[q].h_ = obj[p].h_
                   /\ obj[p].nearest_ # 0 =>
                         \E q \in Slots : obj'[q].nearest_ = obj[p].nearest_
        <4>1. CASE p = o  BY <4>1, <2>3
        <4>2. CASE p # o  BY <4>2, <2>3
        <4> QED  BY <4>1, <4>2
      <3>2. ASSUME NEW h \in handles'  PROVE \E q \in Slots : obj'[q].h_ = h
        BY <3>1, <2>1 DEF Ownership, Owned, Types
      <3>3. ASSUME NEW n \in searches'  PROVE \E q \in Slots : obj'[q].nearest_ = n
        BY <3>1, <2>1 DEF Ownership, Owned, Types
      <3> QED  BY <3>2, <3>3 DEF Owned
    <2> QED  BY <2>2, <2>5, <2>6, <2>7, <2>8 DEF Ownership
  <1>4. ASSUME UNCHANGED <<obj, handles, searches, madeFor, created, busy>>
        PROVE  Ownership'
    BY <1>4 DEF Ownership, Types, BusyOK, Valid, ValidAt, HalfGone, Apart, Owned
  <1>5. ASSUME NEW s \in Slots, NearestCreates(s)  PROVE Ownership'
    <2>1. /\ busy = Idle /\ busy' = Idle /\ obj[s].live
          /\ obj[s].h_ # 0 /\ obj[s].nearest_ = 0
          /\ created' = created + 1 /\ created' \in 1..MaxNew
          /\ obj' = [obj EXCEPT ![s].nearest_ = created']
          /\ searches' = searches \cup {created'} /\ handles' = handles
          /\ madeFor' = [madeFor EXCEPT ![created'] = obj[s].h_]
      BY <1>1, <1>5 DEF NearestCreates, Initialised, Usable
    <2>r. obj'[s] = [live |-> obj[s].live, h_ |-> obj[s].h_, nearest_ |-> created']
      <3>1. obj'[s] = [obj[s] EXCEPT !.nearest_ = created']
        BY <2>1, <1>1
      <3> QED  BY <3>1, <1>1 DEF Objects
    <2>3. /\ obj'[s].h_ = obj[s].h_ /\ obj'[s].nearest_ = created' /\ obj'[s].live
          /\ \A p \in Slots : p # s => obj'[p] = obj[p]
          /\ madeFor'[created'] = obj[s].h_
          /\ \A n \in searches : madeFor'[n] = madeFor[n]
      BY <2>1, <2>r, <1>1 DEF Ownership, Types
    <2>2. Types'
      <3>0. obj'[s] \in Objects(created')
        BY <2>r, <2>1, <1>1 DEF Objects
      <3>1. obj' \in [Slots -> Objects(created')]
        BY <3>0, <2>1, <2>3, <1>1, <1>o
      <3> QED  BY <3>1, <2>1, <1>1 DEF Ownership, Types
    <2>5. BusyOK' /\ \A p \in Slots : ~HalfGone(p) /\ ~HalfGone(p)'
      BY <2>1 DEF BusyOK, HalfGone
    <2>6. Valid'
      BY <2>1, <2>3, <2>5 DEF Ownership, Valid, ValidAt
    <2>7. Apart'
      BY <2>1, <2>3, <1>1 DEF Ownership, Apart
    <2>8. Owned'
      BY <2>1, <2>3, <1>1 DEF Ownership, Owned, Types
    <2> QED  BY <2>2, <2>5, <2>6, <2>7, <2>8 DEF Ownership
  <1>6. ASSUME NEW s \in Slots, busy = Idle, ReleaseSearch(s),
               obj[s].live, busy' # Idle, busy'.to = s, BusyOK'
        PROVE  Ownership'
    <2>1. /\ searches' = searches \ {obj[s].nearest_}
          /\ UNCHANGED <<obj, handles, madeFor, created>>
          /\ HalfGone(s)' /\ \A p \in Slots : ~HalfGone(p) /\ (p # s => ~HalfGone(p)')
      BY <1>6 DEF ReleaseSearch, HalfGone
    <2>2. Types'
      BY <2>1 DEF Ownership, Types
    <2>6. Valid'
      BY <2>1 DEF Ownership, Valid, ValidAt, Apart
    <2>7. Apart'
      BY <2>1 DEF Ownership, Apart
    <2>8. Owned'
      BY <2>1 DEF Ownership, Owned
    <2> QED  BY <1>6, <2>2, <2>6, <2>7, <2>8 DEF Ownership
  <1>7. ASSUME NEW s \in Slots, Destroy(s)  PROVE Ownership'
    <2>1. busy' = [op |-> "destroy", to |-> s, from |-> s] /\ busy' # Idle
          /\ obj' = obj /\ obj[s].live
      BY <1>7 DEF Destroy, Idle, Usable, ReleaseSearch
    <2> QED  BY <2>1, <1>6, <1>7 DEF Destroy, Usable, BusyOK
  <1>8. ASSUME NEW s \in Slots, NEW o \in Slots, MoveAssign(s, o)
        PROVE  Ownership'
    <2>1. busy' = [op |-> "assign", to |-> s, from |-> o] /\ busy' # Idle
          /\ obj' = obj /\ obj[s].live /\ obj[o].live /\ s # o
      BY <1>8 DEF MoveAssign, Idle, Usable, ReleaseSearch, Assigns
    <2> QED  BY <2>1, <1>6, <1>8 DEF MoveAssign, Usable, BusyOK
  <1>9. ASSUME FinishDestroy  PROVE Ownership'
    <2>1. PICK s \in Slots :
              busy = [op |-> "destroy", to |-> s, from |-> s] /\ obj[s].live
      BY <1>9 DEF FinishDestroy, Ownership, BusyOK, Idle
    <2>2. /\ busy # Idle /\ busy.to = s /\ busy' = Idle
          /\ handles' = handles \ {obj[s].h_}
          /\ obj' = [obj EXCEPT ![s] = [live |-> FALSE, h_ |-> 0, nearest_ |-> 0]]
          /\ UNCHANGED <<searches, madeFor, created>>
      BY <1>9, <2>1 DEF FinishDestroy, Idle, NoObject
    <2>3. /\ HalfGone(s) /\ \A p \in Slots : ~HalfGone(p)' /\ (p # s => ~HalfGone(p))
          /\ obj'[s].h_ = 0 /\ obj'[s].nearest_ = 0 /\ ~obj'[s].live
          /\ \A p \in Slots : p # s => obj'[p] = obj[p]
      BY <2>2 DEF HalfGone, Ownership, Types
    <2>4. Types'
      <3>1. obj' \in [Slots -> Objects(created)]
        BY <2>2, <1>1, <1>o
      <3> QED  BY <3>1, <2>2 DEF Ownership, Types
    <2>5. BusyOK'  BY <2>2 DEF BusyOK
    <2>6. Valid'
      BY <2>2, <2>3 DEF Ownership, Valid, ValidAt, Apart
    <2>7. Apart'
      BY <2>2, <2>3, <1>1 DEF Ownership, Apart
    <2>8. Owned'
      BY <2>2, <2>3 DEF Ownership, Owned, Valid, ValidAt
    <2> QED  BY <2>4, <2>5, <2>6, <2>7, <2>8 DEF Ownership
  <1>10. ASSUME FinishAssign  PROVE Ownership'
    <2>1. PICK s \in Slots, o \in Slots :
              /\ busy = [op |-> "assign", to |-> s, from |-> o]
              /\ s # o /\ obj[s].live /\ obj[o].live
      BY <1>10 DEF FinishAssign, Ownership, BusyOK, Idle
    <2>2. /\ busy # Idle /\ busy.to = s /\ busy.from = o /\ busy' = Idle
          /\ handles' = handles \ {obj[s].h_}
          /\ obj' = [obj EXCEPT ![o] = [live |-> TRUE, h_ |-> 0, nearest_ |-> 0],
                                ![s] = obj[o]]
          /\ UNCHANGED <<searches, madeFor, created>>
      BY <1>10, <2>1 DEF FinishAssign, Idle, MovedFrom, Object
    <2>3. /\ HalfGone(s) /\ \A p \in Slots : ~HalfGone(p)' /\ (p # s => ~HalfGone(p))
          /\ obj'[s] = obj[o]
          /\ obj'[o].h_ = 0 /\ obj'[o].nearest_ = 0 /\ obj'[o].live
          /\ \A p \in Slots : p # s /\ p # o => obj'[p] = obj[p]
      BY <2>1, <2>2 DEF HalfGone, Ownership, Types
    <2>4. Types'
      <3>1. obj' \in [Slots -> Objects(created)]
        BY <2>2, <1>1, <1>o
      <3> QED  BY <3>1, <2>2 DEF Ownership, Types
    <2>5. BusyOK'  BY <2>2 DEF BusyOK
    <2>6. Valid'
      <3>1. ASSUME NEW p \in Slots  PROVE ValidAt(p)'
        <4>1. CASE p = s
          BY <4>1, <2>1, <2>2, <2>3 DEF Ownership, Valid, ValidAt, Apart
        <4>2. CASE p = o
          BY <4>2, <2>1, <2>2, <2>3 DEF Ownership, Valid, ValidAt, Apart
        <4>3. CASE p # s /\ p # o
          <5>1. obj'[p] = obj[p]  BY <4>3, <2>3
          <5> QED  BY <4>3, <5>1, <2>1, <2>2, <2>3 DEF Ownership, Valid, ValidAt, Apart
        <4> QED  BY <4>1, <4>2, <4>3
      <3> QED  BY <3>1 DEF Valid
    <2>7. Apart'
      BY <2>1, <2>2, <2>3, <1>1 DEF Ownership, Apart
    <2>8. Owned'
      <3>1. ASSUME NEW p \in Slots, p # s
            PROVE  /\ obj[p].h_ # 0 => \E q \in Slots : obj'[q].h_ = obj[p].h_
                   /\ obj[p].nearest_ # 0 =>
                         \E q \in Slots : obj'[q].nearest_ = obj[p].nearest_
        <4>1. CASE p = o  BY <4>1, <2>3
        <4>2. CASE p # o  BY <3>1, <4>2, <2>3
        <4> QED  BY <4>1, <4>2
      <3>2. obj[s].nearest_ \notin searches
        BY <2>3 DEF Ownership, Valid, ValidAt
      <3>3. ASSUME NEW h \in handles'  PROVE \E q \in Slots : obj'[q].h_ = h
        BY <3>1, <2>2 DEF Ownership, Owned, Types
      <3>4. ASSUME NEW n \in searches'  PROVE \E q \in Slots : obj'[q].nearest_ = n
        BY <3>1, <3>2, <2>2 DEF Ownership, Owned, Types
      <3> QED  BY <3>3, <3>4 DEF Owned
    <2> QED  BY <2>4, <2>5, <2>6, <2>7, <2>8 DEF Ownership
  <1> QED
    BY <1>2, <1>3, <1>4, <1>5, <1>7, <1>8, <1>9, <1>10
       DEF Next, vars, Read, UseFails, NearestFails, NearestReuses, Finished

(* The ownership discipline of handle.cpp: pointers are null or valid, no  *)
(* two objects share one, nothing is without an owner, also between the    *)
(* two deletions of ~GribHandle() and operator=(GribHandle&&).             *)
THEOREM OwnershipHolds == Spec => []Ownership
  BY OwnershipInit, OwnershipStep, PTL DEF Spec

(* An object that can be used points to a handle that exists and to a      *)
(* search that exists and was made for that very handle, after any         *)
(* sequence of moves, assignments, nearest() calls and destructions.       *)
THEOREM PointersStayValid == Spec => []PointersValid
  <1>1. Ownership => PointersValid
    BY DEF Ownership, Valid, ValidAt, HalfGone, PointersValid, Settled
  <1> QED  BY <1>1, OwnershipHolds, PTL

(* Every codes_handle and every codes_nearest has exactly one owner: no    *)
(* leak and no double deletion.                                            *)
THEOREM ExactlyOneOwner == Spec => []OneOwner
  <1>1. Ownership => OneOwner
    <2> SUFFICES ASSUME Ownership PROVE OneOwner
      OBVIOUS
    <2>1. ASSUME NEW h \in handles
          PROVE  Cardinality({s \in Slots : obj[s].h_ = h}) = 1
      <3>1. PICK s \in Slots : obj[s].h_ = h
        BY DEF Ownership, Owned
      <3>2. h # Null
        BY HandleAssumption DEF Ownership, Types, Null
      <3>3. {o \in Slots : obj[o].h_ = h} = {s}
        BY <3>1, <3>2 DEF Ownership, Apart
      <3> QED  BY <3>3, FS_Singleton
    <2>2. ASSUME NEW n \in searches
          PROVE  Cardinality({s \in Slots : obj[s].nearest_ = n}) = 1
      <3>1. PICK s \in Slots : obj[s].nearest_ = n
        BY DEF Ownership, Owned
      <3>2. n # Null
        BY HandleAssumption DEF Ownership, Types, Null
      <3>3. {o \in Slots : obj[o].nearest_ = n} = {s}
        BY <3>1, <3>2 DEF Ownership, Apart
      <3> QED  BY <3>3, FS_Singleton
    <2> QED  BY <2>1, <2>2 DEF OneOwner
  <1> QED  BY <1>1, OwnershipHolds, PTL

(* The handle a cached search was made for exists as long as the search:   *)
(* the destructor and the move assignment delete them in that order.       *)
THEOREM SearchesDieFirst == Spec => []SearchDiesFirst
  <1>1. Ownership => SearchDiesFirst
    <2> SUFFICES ASSUME Ownership, NEW n \in searches PROVE madeFor[n] \in handles
      BY DEF SearchDiesFirst
    <2>1. PICK s \in Slots : obj[s].nearest_ = n
      BY DEF Ownership, Owned
    <2>2. n # Null
      BY HandleAssumption DEF Ownership, Types, Null
    <2>3. ~HalfGone(s)
      BY <2>1 DEF Ownership, Valid, ValidAt
    <2> QED  BY <2>1, <2>2, <2>3 DEF Ownership, Valid, ValidAt
  <1> QED  BY <1>1, OwnershipHolds, PTL

(* No call of GribHandle, on a moved-from object or any other, hands       *)
(* ecCodes a null pointer or something already deleted.                    *)
THEOREM NothingFreedIsTouched == Spec => OnlyLiveTouched
  <1>1. Ownership /\ [Next]_vars
          => [touched' \subseteq handles \cup searches \cup handles' \cup searches']_vars
    <2> SUFFICES ASSUME Ownership, Next
                 PROVE  \/ touched'
                              \subseteq handles \cup searches \cup handles' \cup searches'
                        \/ UNCHANGED vars
      OBVIOUS
    <2>1. ASSUME NEW s \in Slots, busy = Idle, obj[s].nearest_ # Null
          PROVE  obj[s].nearest_ \in searches
      BY <2>1 DEF Ownership, Valid, ValidAt, HalfGone
    <2>2. ASSUME NEW s \in Slots, obj[s].h_ # Null
          PROVE  obj[s].h_ \in handles
      BY <2>2 DEF Ownership, Valid, ValidAt
    <2>3. ASSUME NEW s \in Slots, Usable(s), ReleaseSearch(s)
          PROVE  touched' \subseteq searches
      BY <2>1, <2>3 DEF Usable, ReleaseSearch
    <2>4. CASE FinishDestroy \/ FinishAssign
      <3>1. busy.to \in Slots
        BY <2>4 DEF FinishDestroy, FinishAssign, Ownership, BusyOK, Idle
      <3> QED  BY <3>1, <2>2, <2>4 DEF FinishDestroy, FinishAssign
    <2>5. CASE Finished
      BY <2>5 DEF Finished
    <2>6. CASE \E s \in Slots : Read(s) \/ NearestFails(s) \/ NearestReuses(s)
                                \/ NearestCreates(s)
      BY <2>1, <2>2, <2>6 DEF Read, NearestFails, NearestReuses, NearestCreates,
                              Initialised, Usable
    <2>7. CASE \E s \in Slots : Construct(s) \/ UseFails(s)
                                \/ \E o \in Slots : MoveConstruct(s, o)
      BY <2>7 DEF Construct, UseFails, MoveConstruct
    <2>8. CASE \E s \in Slots : Destroy(s) \/ \E o \in Slots : MoveAssign(s, o)
      BY <2>3, <2>8 DEF Destroy, MoveAssign
    <2> QED  BY <2>4, <2>5, <2>6, <2>7, <2>8 DEF Next
  <1> QED  BY <1>1, OwnershipHolds, PTL DEF Spec, OnlyLiveTouched
==============================================================================
