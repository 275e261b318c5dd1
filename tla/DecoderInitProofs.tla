-------------------------- MODULE DecoderInitProofs --------------------------
(***************************************************************************)
(* The double-checked locking of make_handle_serialized() is right for any *)
(* number of threads: TLAPS proofs of the safety properties of DecoderInit.*)
(***************************************************************************)
EXTENDS DecoderInit, TLAPS

\* The types.
PCs == {"idle", "lock", "recheck", "loading", "publish", "unlock", "create",
        "creating"}

TypeOK ==
    /\ g_eccodes_ready \in BOOLEAN
    /\ version \in Nat
    /\ readyView \in 0..version
    /\ g_eccodes_init_mtx \in Threads \cup {NoThread}
    /\ mutexView \in 0..version
    /\ pc \in [Threads -> PCs]
    /\ view \in [Threads -> 0..version]
    /\ warm \in BOOLEAN
    /\ cold \in SUBSET Threads
    /\ calls \in 0..MaxCalls

\* The threads in the critical section.
Inside == {"recheck", "loading", "publish", "unlock"}

\* One thread at a time holds the mutex.
MutexOK == \A t \in Threads : pc[t] \in Inside <=> g_eccodes_init_mtx = t

\* The views: whoever holds the mutex, and a free mutex, is ordered after every
\* write; once the flag is set it carries them all, and so has every thread on
\* the fast path.
ViewsOK ==
    /\ g_eccodes_init_mtx = NoThread => mutexView = version
    /\ \A t \in Threads : g_eccodes_init_mtx = t => view[t] = version
    /\ g_eccodes_ready => warm /\ readyView = version
    /\ \A t \in Threads :
          pc[t] \in {"create", "creating"} => g_eccodes_ready /\ view[t] = version

\* Who may be where: loading happens before the flag is set, and only there.
LoadingOK ==
    /\ \A t \in cold : pc[t] = "loading"
    /\ \A t \in Threads : pc[t] \in {"loading", "publish"} => ~g_eccodes_ready
    /\ \A t \in Threads : pc[t] = "loading" => t \in cold \/ warm
    /\ \A t \in Threads : pc[t] = "publish" => warm
    /\ \A t \in Threads : pc[t] = "unlock" => g_eccodes_ready
    /\ ~g_eccodes_ready => readyView = 0

\* A thread waits for the mutex only while it is not ordered after the store.
WaitingOK ==
    \A t \in Threads :
        pc[t] = "lock" /\ g_eccodes_ready => view[t] < readyView

Inv == TypeOK /\ MutexOK /\ ViewsOK /\ LoadingOK /\ WaitingOK

\* The initial state has nobody in a call and nothing written.
LEMMA InvInit == Init => Inv
  <1> SUFFICES ASSUME Init PROVE Inv
    OBVIOUS
  <1>1. TypeOK
    <2>1. g_eccodes_ready \in BOOLEAN /\ warm \in BOOLEAN
      BY Zenon DEF Init
    <2>2. /\ version \in Nat /\ readyView \in 0..version
          /\ mutexView \in 0..version /\ view \in [Threads -> 0..version]
          /\ calls \in 0..MaxCalls
      BY DecoderAssumption DEF Init
    <2>3. /\ g_eccodes_init_mtx \in Threads \cup {NoThread}
          /\ pc \in [Threads -> PCs] /\ cold \in SUBSET Threads
      BY DEF Init, PCs
    <2> QED  BY <2>1, <2>2, <2>3 DEF TypeOK
  <1>2. MutexOK /\ ViewsOK
    BY DecoderAssumption DEF Init, MutexOK, ViewsOK, Inside
  <1>3. LoadingOK /\ WaitingOK
    BY DEF Init, LoadingOK, WaitingOK
  <1> QED
    BY <1>1, <1>2, <1>3 DEF Inv

(* Every step of a call preserves the invariant.                           *)
LEMMA InvStep == Inv /\ [Next]_vars => Inv'
  <1> SUFFICES ASSUME Inv, [Next]_vars PROVE Inv'
    OBVIOUS
  <1> USE DecoderAssumption DEF Inv
  <1>1. ASSUME NEW t \in Threads, LoadReady(t)  PROVE Inv'
    <2>1. TypeOK'
      BY <1>1 DEF TypeOK, LoadReady, AcquiredView, FastOrLock, ecCodes, PCs, Join
    <2>2. MutexOK'
      BY <1>1 DEF TypeOK, MutexOK, LoadReady, AcquiredView, FastOrLock, ecCodes, Inside
    <2>3. g_eccodes_ready => Join(view[t], readyView) = version
      BY DEF TypeOK, ViewsOK, Join
    <2>4. ViewsOK'
      BY <1>1, <2>3
         DEF TypeOK, MutexOK, ViewsOK, LoadingOK, LoadReady, AcquiredView, FastOrLock, Loads, ecCodes, Inside, PCs
    <2>5. LoadingOK'
      BY <1>1 DEF TypeOK, LoadingOK, LoadReady, AcquiredView, FastOrLock, ecCodes
    <2>6. WaitingOK'
      BY <1>1 DEF TypeOK, WaitingOK, LoadReady, AcquiredView, FastOrLock, Loads, ecCodes
    <2> QED  BY <2>1, <2>2, <2>4, <2>5, <2>6
  <1>2. ASSUME NEW t \in Threads, Lock(t)  PROVE Inv'
    <2>1. Join(view[t], mutexView) = version
      BY <1>2 DEF TypeOK, ViewsOK, Lock, Join
    <2>2. TypeOK'
      BY <1>2, <2>1 DEF TypeOK, Lock, ecCodes, PCs
    <2>3. MutexOK'
      BY <1>2 DEF TypeOK, MutexOK, Lock, ecCodes, Inside
    <2>4. ViewsOK'
      BY <1>2, <2>1 DEF TypeOK, ViewsOK, Lock, ecCodes
    <2>5. LoadingOK'
      BY <1>2 DEF TypeOK, LoadingOK, Lock, ecCodes
    <2>6. WaitingOK'
      BY <1>2 DEF TypeOK, WaitingOK, Lock, ecCodes
    <2> QED  BY <2>2, <2>3, <2>4, <2>5, <2>6
  <1>3. ASSUME NEW t \in Threads, RecheckReady(t)  PROVE Inv'
    <2>1. g_eccodes_ready /\ view[t] = version /\ g_eccodes_init_mtx = t
      BY <1>3 DEF MutexOK, ViewsOK, RecheckReady, SecondLoad, Loads, Inside
    <2>2. TypeOK'
      BY <1>3, <2>1 DEF TypeOK, RecheckReady, Unlock, ecCodes, PCs
    <2>3. MutexOK'
      BY <1>3, <2>1 DEF TypeOK, MutexOK, RecheckReady, Unlock, ecCodes, Inside
    <2>4. ViewsOK'
      BY <1>3, <2>1 DEF TypeOK, ViewsOK, RecheckReady, Unlock, ecCodes
    <2>5. LoadingOK'
      BY <1>3 DEF TypeOK, LoadingOK, RecheckReady, Unlock, ecCodes
    <2>6. WaitingOK'
      BY <1>3 DEF TypeOK, WaitingOK, RecheckReady, Unlock, ecCodes
    <2> QED  BY <2>2, <2>3, <2>4, <2>5, <2>6
  <1>4. ASSUME NEW t \in Threads, RecheckNotReady(t)  PROVE Inv'
    <2>1. view[t] = version /\ g_eccodes_init_mtx = t
      BY <1>4 DEF MutexOK, ViewsOK, RecheckNotReady, Inside
    <2>2. ~g_eccodes_ready
      BY <1>4, <2>1 DEF TypeOK, ViewsOK, RecheckNotReady, SecondLoad, Loads
    <2>3. TypeOK'
      BY <1>4 DEF TypeOK, RecheckNotReady, Begin, PCs
    <2>4. MutexOK'
      BY <1>4, <2>1 DEF TypeOK, MutexOK, RecheckNotReady, Begin, Inside
    <2>5. ViewsOK'
      BY <1>4 DEF TypeOK, ViewsOK, RecheckNotReady, Begin
    <2>6. LoadingOK'
      BY <1>4, <2>2 DEF TypeOK, LoadingOK, RecheckNotReady, Begin
    <2>7. WaitingOK'
      BY <1>4 DEF TypeOK, WaitingOK, RecheckNotReady, Begin
    <2> QED  BY <2>3, <2>4, <2>5, <2>6, <2>7
  \* The end of a creation under the mutex.
  <1>5. ASSUME NEW t \in Threads, NEW ok \in BOOLEAN, pc[t] = "loading", End(t, ok)
        PROVE  /\ version' \in Nat /\ version' >= version
               /\ view' \in [Threads -> 0..version'] /\ view'[t] = version'
               /\ \A s \in Threads \ {t} : view'[s] = view[s]
               /\ warm' \in BOOLEAN /\ (warm \/ ok => warm')
               /\ cold' = {}
    <2>1. view[t] = version /\ version \in Nat /\ view \in [Threads -> 0..version]
          /\ warm \in BOOLEAN /\ cold \subseteq Threads
      BY <1>5 DEF TypeOK, MutexOK, ViewsOK, Inside
    <2>2. cold \subseteq {t}
      BY <1>5, <2>1 DEF LoadingOK, MutexOK, Inside
    <2>3. CASE t \in cold
      BY <1>5, <2>1, <2>2, <2>3 DEF End
    <2>4. CASE t \notin cold
      <3>1. warm
        BY <1>5, <2>4 DEF LoadingOK
      <3> QED  BY <1>5, <2>1, <2>2, <2>4, <3>1 DEF End
    <2> QED  BY <2>3, <2>4
  <1>6. ASSUME NEW t \in Threads, LoadingSucceeds(t)  PROVE Inv'
    <2>1. /\ version' \in Nat /\ version' >= version
          /\ view' \in [Threads -> 0..version'] /\ view'[t] = version'
          /\ \A s \in Threads \ {t} : view'[s] = view[s]
          /\ warm' = TRUE /\ cold' = {}
      BY <1>5, <1>6 DEF LoadingSucceeds
    <2>2. /\ pc[t] = "loading" /\ pc' = [pc EXCEPT ![t] = "publish"]
          /\ UNCHANGED <<g_eccodes_ready, readyView, g_eccodes_init_mtx,
                         mutexView, calls>>
      BY <1>6 DEF LoadingSucceeds
    <2>3. ~g_eccodes_ready /\ g_eccodes_init_mtx = t
      BY <2>2 DEF LoadingOK, MutexOK, Inside
    <2>4. TypeOK'
      BY <2>1, <2>2 DEF TypeOK, PCs
    <2>5. MutexOK'
      BY <2>2, <2>3 DEF TypeOK, MutexOK, Inside
    <2>6. ViewsOK'
      BY <2>1, <2>2, <2>3 DEF TypeOK, ViewsOK
    <2>7. LoadingOK' /\ WaitingOK'
      BY <2>1, <2>2, <2>3 DEF TypeOK, LoadingOK, WaitingOK
    <2> QED  BY <2>4, <2>5, <2>6, <2>7
  <1>7. ASSUME NEW t \in Threads, LoadingFails(t)  PROVE Inv'
    <2>1. /\ version' \in Nat /\ version' >= version
          /\ view' \in [Threads -> 0..version'] /\ view'[t] = version'
          /\ \A s \in Threads \ {t} : view'[s] = view[s]
          /\ warm' \in BOOLEAN /\ cold' = {}
      BY <1>5, <1>7 DEF LoadingFails
    <2>2. /\ pc[t] = "loading" /\ pc' = [pc EXCEPT ![t] = "idle"]
          /\ g_eccodes_init_mtx' = NoThread /\ mutexView' = view'[t]
          /\ UNCHANGED <<g_eccodes_ready, readyView, calls>>
      BY <1>7 DEF LoadingFails
    <2>3. ~g_eccodes_ready /\ g_eccodes_init_mtx = t
      BY <2>2 DEF LoadingOK, MutexOK, Inside
    <2>4. TypeOK'
      BY <2>1, <2>2 DEF TypeOK, PCs
    <2>5. MutexOK'
      BY <2>2, <2>3 DEF TypeOK, MutexOK, Inside
    <2>6. ViewsOK'
      BY <2>1, <2>2, <2>3 DEF TypeOK, ViewsOK
    <2>7. LoadingOK' /\ WaitingOK'
      BY <2>1, <2>2, <2>3, <2>5 DEF TypeOK, LoadingOK, WaitingOK, MutexOK, Inside
    <2> QED  BY <2>4, <2>5, <2>6, <2>7
  <1>8. ASSUME NEW t \in Threads, Publish(t)  PROVE Inv'
    <2>1. warm /\ ~g_eccodes_ready /\ g_eccodes_init_mtx = t
      BY <1>8 DEF LoadingOK, MutexOK, Publish, Inside
    <2>2. version \in Nat /\ view \in [Threads -> 0..version]
      BY DEF TypeOK
    <2>3. TypeOK'
      BY <1>8, <2>2 DEF TypeOK, Publish, PCs
    <2>4. MutexOK'
      BY <1>8, <2>1 DEF TypeOK, MutexOK, Publish, Inside
    <2>5. ViewsOK'
      BY <1>8, <2>1 DEF TypeOK, ViewsOK, Publish
    <2>6. \A s \in Threads : s # t => pc[s] \notin Inside
      BY <2>1 DEF MutexOK
    <2>7. LoadingOK'
      BY <1>8, <2>1, <2>6 DEF TypeOK, LoadingOK, Publish, Inside
    <2>8. WaitingOK'
      BY <1>8, <2>2 DEF TypeOK, WaitingOK, Publish
    <2> QED  BY <2>3, <2>4, <2>5, <2>7, <2>8
  <1>9. ASSUME NEW t \in Threads, ReturnFirst(t)  PROVE Inv'
    <2>1. view[t] = version /\ g_eccodes_init_mtx = t
      BY <1>9 DEF MutexOK, ViewsOK, ReturnFirst, Inside
    <2>2. TypeOK'
      BY <1>9, <2>1 DEF TypeOK, ReturnFirst, Unlock, ecCodes, PCs
    <2>3. MutexOK'
      BY <1>9, <2>1 DEF TypeOK, MutexOK, ReturnFirst, Unlock, ecCodes, Inside
    <2>4. ViewsOK'
      BY <1>9, <2>1 DEF TypeOK, ViewsOK, ReturnFirst, Unlock, ecCodes
    <2>5. LoadingOK' /\ WaitingOK'
      BY <1>9 DEF TypeOK, LoadingOK, WaitingOK, ReturnFirst, Unlock, ecCodes
    <2> QED  BY <2>2, <2>3, <2>4, <2>5
  \* On the fast path the definitions are loaded, so nothing is written.
  <1>10. ASSUME NEW t \in Threads, Create(t)  PROVE Inv'
    <2>1. g_eccodes_ready /\ warm /\ cold' = cold
      BY <1>10 DEF ViewsOK, Create, Begin
    <2>2. TypeOK'
      BY <1>10, <2>1 DEF TypeOK, Create, Begin, PCs
    <2>3. MutexOK'
      BY <1>10 DEF TypeOK, MutexOK, Create, Begin, Inside
    <2>4. ViewsOK'
      BY <1>10 DEF TypeOK, ViewsOK, Create, Begin
    <2>5. LoadingOK' /\ WaitingOK'
      BY <1>10, <2>1 DEF TypeOK, LoadingOK, WaitingOK, Create, Begin
    <2> QED  BY <2>2, <2>3, <2>4, <2>5
  <1>11. ASSUME NEW t \in Threads, ReturnLater(t)  PROVE Inv'
    <2>1. t \notin cold
      BY <1>11 DEF LoadingOK, ReturnLater
    <2>2. UNCHANGED ecCodes /\ UNCHANGED view
      BY <1>11, <2>1 DEF ReturnLater, End, ecCodes
    <2>3. TypeOK'
      BY <1>11, <2>2 DEF TypeOK, ReturnLater, ecCodes, PCs
    <2>4. MutexOK'
      BY <1>11, <2>2 DEF TypeOK, MutexOK, ReturnLater, ecCodes, Inside
    <2>5. ViewsOK'
      BY <1>11, <2>2 DEF TypeOK, ViewsOK, ReturnLater, ecCodes
    <2>6. LoadingOK' /\ WaitingOK'
      BY <1>11, <2>2 DEF TypeOK, LoadingOK, WaitingOK, ReturnLater, ecCodes
    <2> QED  BY <2>3, <2>4, <2>5, <2>6
  <1>12. ASSUME UNCHANGED vars  PROVE Inv'
    BY <1>12 DEF vars, TypeOK, MutexOK, ViewsOK, LoadingOK, WaitingOK
  <1> QED
    BY <1>1, <1>2, <1>3, <1>4, <1>6, <1>7, <1>8, <1>9, <1>10, <1>11, <1>12
       DEF Next, Steps, Finished

\* The invariant holds throughout.
LEMMA InvAlways == Spec => []Inv
  BY InvInit, InvStep, PTL DEF Spec

(* With any number of threads, nobody creates a handle while another       *)
(* thread's creation is loading ecCodes' definitions.                      *)
THEOREM LoadingIsExclusive == Spec => []LoadsAlone
  <1>1. Inv => LoadsAlone
    <2> SUFFICES ASSUME Inv, NEW t \in cold PROVE Creating = {t}
      BY DEF LoadsAlone
    <2>1. t \in Threads /\ pc[t] = "loading"
      BY DEF Inv, TypeOK, LoadingOK
    <2>2. ~g_eccodes_ready /\ g_eccodes_init_mtx = t
      BY <2>1 DEF Inv, LoadingOK, MutexOK, Inside
    <2>3. \A s \in Threads : pc[s] = "loading" => s = t
      BY <2>2 DEF Inv, MutexOK, Inside
    <2>4. \A s \in Threads : pc[s] # "creating"
      BY <2>2 DEF Inv, ViewsOK
    <2> QED  BY <2>1, <2>3, <2>4 DEF Creating
  <1> QED
    BY <1>1, InvAlways, PTL

(* Every creation is ordered after all the loading done before it, on the  *)
(* fast path by the acquire load and under the mutex by the lock.          *)
THEOREM DefinitionsAreSeen == Spec => []SeesDefinitions
  <1>1. Inv => SeesDefinitions
    BY DEF Inv, SeesDefinitions, Creating, MutexOK, ViewsOK, Inside
  <1> QED
    BY <1>1, InvAlways, PTL

(* A thread that is ordered after the store of the flag never waits for    *)
(* the mutex.                                                              *)
THEOREM MutexLeavesHotPath == Spec => []FastPathStays
  <1>1. Inv => FastPathStays
    <2> SUFFICES ASSUME Inv, NEW t \in Threads, g_eccodes_ready,
                        view[t] >= readyView, pc[t] = "lock"
                 PROVE  FALSE
      BY DEF FastPathStays
    <2>1. view[t] < readyView
      BY DEF Inv, WaitingOK
    <2>2. view[t] \in Int /\ readyView \in Int
      BY DEF Inv, TypeOK
    <2> QED  BY <2>1, <2>2
  <1> QED
    BY <1>1, InvAlways, PTL

(* Once the flag is set nobody creates a handle under the mutex: a thread  *)
(* that waited for it sees the store, although its second load is relaxed, *)
(* as the mutex orders it after whoever stored the flag.                   *)
THEOREM OnlyFirstIsSerialized == Spec => []OnlyFirstSerialized
  <1>1. Inv => OnlyFirstSerialized
    BY DEF Inv, LoadingOK, OnlyFirstSerialized
  <1> QED
    BY <1>1, InvAlways, PTL
==============================================================================
