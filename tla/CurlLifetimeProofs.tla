------------------------- MODULE CurlLifetimeProofs -------------------------
(***************************************************************************)
(* libcurl outlives every easy handle, for any number of clients and any   *)
(* order of their destruction: TLAPS proofs of the safety properties of    *)
(* CurlLifetime.                                                           *)
(***************************************************************************)
EXTENDS CurlLifetime, TLAPS

\* The runtime: started once, by the static; up, or failed, as long as it has an
\* owner, and before main() returns the static is one.
RuntimeOK ==
    /\ starts = (IF static = "unset" THEN 0 ELSE 1)
    /\ static # "set" => owners = {}
    /\ static = "set" /\ ~exited => Static \in owners
    /\ owners = {} => libcurl # "up"
    /\ owners # {} => libcurl \in {"up", "failed"}

\* The handles: each is covered by an owner, until ~Impl has closed it.
HandlesOK ==
    /\ easy \subseteq owners
    /\ libcurl = "failed" => easy = {}
    /\ \A i \in Impls : dying[i] = "releasing" => i \notin easy

\* The clients: an Impl has one holder or none, and is not destroyed while it has one.
ClientsOK ==
    /\ \A c \in Clients : phase[c] = "none" => impl_[c] = Null
    /\ \A c \in Clients :
          phase[c] \in {"runtime", "easy"} => impl_[c] # Null /\ ~exited
    /\ \A c \in Clients : phase[c] = "easy" => impl_[c] \in owners
    /\ \A c \in Clients : impl_[c] # Null => dying[impl_[c]] = "no"
    /\ \A c, d \in Clients : impl_[c] # Null /\ impl_[c] = impl_[d] => c = d
    /\ \A c \in Clients : impl_[c] <= created
    /\ \A i \in Impls : dying[i] # "no" => i <= created

\* Nobody is forgotten: an owner is the static, or held by a client, or dying.
Held(i) == \E c \in Clients : impl_[c] = i
OwnersOK == \A i \in owners : i = Static \/ Held(i) \/ dying[i] # "no"

Inv == TypeOK /\ RuntimeOK /\ HandlesOK /\ ClientsOK /\ OwnersOK

\* At first there is nothing.
LEMMA InvInit == Init => Inv
  <1> SUFFICES ASSUME Init PROVE Inv
    OBVIOUS
  <1> USE LifetimeAssumption DEF Init, Impls, Null, Static
  <1>1. exited \in BOOLEAN
    BY Zenon
  <1>2. TypeOK
    BY <1>1 DEF TypeOK
  <1>3. RuntimeOK /\ HandlesOK /\ OwnersOK
    BY DEF RuntimeOK, HandlesOK, OwnersOK
  <1>4. ClientsOK
    BY DEF ClientsOK
  <1> QED  BY <1>2, <1>3, <1>4 DEF Inv

\* Every step keeps the invariant.
LEMMA InvNext == Inv /\ [Next]_vars => Inv'
  <1> SUFFICES ASSUME Inv, [Next]_vars PROVE Inv'
    OBVIOUS
  <1> USE LifetimeAssumption DEF Impls, Null, Static
  <1>1. ASSUME NEW c \in Clients, Construct(c) PROVE Inv'
    <2> USE <1>1 DEF Construct, runtime, handles
    <2>1. TypeOK'
      BY DEF Inv, TypeOK
    <2>2. RuntimeOK'
      BY DEF Inv, TypeOK, RuntimeOK
    <2>3. HandlesOK'
      BY DEF Inv, TypeOK, HandlesOK
    <2>4. ClientsOK'
      BY DEF Inv, TypeOK, ClientsOK
    <2>5. OwnersOK'
      BY DEF Inv, TypeOK, ClientsOK, OwnersOK, Held
    <2> QED  BY <2>1, <2>2, <2>3, <2>4, <2>5 DEF Inv
  <1>2. ASSUME NEW c \in Clients, InitialiseRuntime(c) PROVE Inv'
    BY <1>2 DEF InitialiseRuntime, MayInitialise, handles, clients, Inv, TypeOK,
         RuntimeOK, HandlesOK, ClientsOK, OwnersOK, Held
  <1>3. ASSUME RuntimeInitialised PROVE Inv'
    <2> USE <1>3 DEF RuntimeInitialised, handles, clients
    <2>1. TypeOK'
      BY DEF Inv, TypeOK
    <2>2. RuntimeOK' /\ HandlesOK'
      BY DEF Inv, TypeOK, RuntimeOK, HandlesOK
    <2>3. ClientsOK' /\ OwnersOK'
      BY DEF Inv, TypeOK, RuntimeOK, ClientsOK, OwnersOK, Held
    <2> QED  BY <2>1, <2>2, <2>3 DEF Inv
  <1>4. ASSUME NEW c \in Clients, ShareRuntime(c) PROVE Inv'
    <2> USE <1>4 DEF ShareRuntime, handles
    <2>1. TypeOK'
      BY DEF Inv, TypeOK
    <2>2. RuntimeOK' /\ HandlesOK'
      BY DEF Inv, TypeOK, RuntimeOK, HandlesOK, ClientsOK
    <2>3. ClientsOK'
      BY DEF Inv, TypeOK, ClientsOK
    <2>4. OwnersOK'
      BY DEF Inv, TypeOK, OwnersOK, Held
    <2> QED  BY <2>1, <2>2, <2>3, <2>4 DEF Inv
  <1>5. ASSUME NEW c \in Clients, OpenEasy(c) PROVE Inv'
    <2> USE <1>5 DEF OpenEasy, runtime
    <2>1. TypeOK' /\ RuntimeOK'
      BY DEF Inv, TypeOK, RuntimeOK, ClientsOK
    <2>2. HandlesOK'
      BY DEF Inv, TypeOK, HandlesOK, ClientsOK
    <2>3. ClientsOK' /\ OwnersOK'
      BY DEF Inv, TypeOK, ClientsOK, OwnersOK, Held
    <2> QED  BY <2>1, <2>2, <2>3 DEF Inv
  <1>6. ASSUME NEW c \in Clients, Destroy(c) PROVE Inv'
    <2> USE <1>6 DEF Destroy, Dying, runtime
    <2>1. TypeOK' /\ RuntimeOK'
      BY DEF Inv, TypeOK, RuntimeOK
    <2>2. HandlesOK'
      BY DEF Inv, TypeOK, HandlesOK, ClientsOK
    <2>3. ClientsOK'
      BY DEF Inv, TypeOK, ClientsOK
    <2>4. OwnersOK'
      BY DEF Inv, TypeOK, ClientsOK, OwnersOK, Held
    <2> QED  BY <2>1, <2>2, <2>3, <2>4 DEF Inv
  <1>7. ASSUME NEW c \in Clients, NEW d \in Clients, MoveConstruct(c, d) PROVE Inv'
    <2> USE <1>7 DEF MoveConstruct, runtime, handles
    <2>1. TypeOK' /\ RuntimeOK'
      BY DEF Inv, TypeOK, RuntimeOK
    <2>2. HandlesOK'
      BY DEF Inv, TypeOK, HandlesOK
    <2>3. ClientsOK'
      BY DEF Inv, TypeOK, ClientsOK
    <2>4. OwnersOK'
      BY DEF Inv, TypeOK, ClientsOK, OwnersOK, Held
    <2> QED  BY <2>1, <2>2, <2>3, <2>4 DEF Inv
  <1>8. ASSUME NEW c \in Clients, NEW d \in Clients, MoveAssign(c, d) PROVE Inv'
    <2> USE <1>8 DEF MoveAssign, Replaced, Dying, runtime
    <2>1. TypeOK' /\ RuntimeOK'
      BY DEF Inv, TypeOK, RuntimeOK
    <2>2. HandlesOK'
      BY DEF Inv, TypeOK, HandlesOK, ClientsOK
    <2>3. ClientsOK'
      <3> USE DEF Inv, TypeOK, ClientsOK
      <3>1. \A e \in Clients :
               impl_'[e] = (IF e = c THEN impl_[d] ELSE IF e = d THEN Null ELSE impl_[e])
        OBVIOUS
      <3>2. \A e \in Clients : impl_'[e] # Null => dying'[impl_'[e]] = "no"
        BY <3>1
      <3>3. \A e, f \in Clients : impl_'[e] # Null /\ impl_'[e] = impl_'[f] => e = f
        BY <3>1
      <3>4. \A i \in Impls : dying'[i] # "no" => i <= created'
        OBVIOUS
      <3>5. \A e \in Clients :
               /\ phase'[e] = "none" => impl_'[e] = Null
               /\ phase'[e] \in {"runtime", "easy"} => impl_'[e] # Null /\ ~exited'
               /\ phase'[e] = "easy" => impl_'[e] \in owners'
               /\ impl_'[e] <= created'
        BY <3>1
      <3> QED  BY <3>2, <3>3, <3>4, <3>5
    <2>4. OwnersOK'
      BY DEF Inv, TypeOK, ClientsOK, OwnersOK, Held
    <2> QED  BY <2>1, <2>2, <2>3, <2>4 DEF Inv
  <1>9. ASSUME NEW i \in Impls, CloseEasy(i) PROVE Inv'
    <2> USE <1>9 DEF CloseEasy, runtime, clients
    <2>1. TypeOK' /\ RuntimeOK'
      BY DEF Inv, TypeOK, RuntimeOK
    <2>2. HandlesOK'
      BY DEF Inv, TypeOK, HandlesOK
    <2>3. ClientsOK' /\ OwnersOK'
      BY DEF Inv, TypeOK, ClientsOK, OwnersOK, Held
    <2> QED  BY <2>1, <2>2, <2>3 DEF Inv
  <1>10. ASSUME NEW i \in Impls, ReleaseRuntime(i) PROVE Inv'
    <2> USE <1>10 DEF ReleaseRuntime, MayRelease, Release, clients
    <2>1. TypeOK'
      BY DEF Inv, TypeOK
    <2>2. RuntimeOK'
      <3> USE DEF Inv, TypeOK, RuntimeOK
      <3>1. /\ starts' = (IF static' = "unset" THEN 0 ELSE 1)
            /\ static' # "set" => owners' = {}
            /\ static' = "set" /\ ~exited' => Static \in owners'
        OBVIOUS
      <3>2. /\ owners' = {} => libcurl' # "up"
            /\ owners' # {} => libcurl' \in {"up", "failed"}
        OBVIOUS
      <3> QED  BY <3>1, <3>2
    <2>3. HandlesOK'
      BY DEF Inv, TypeOK, RuntimeOK, HandlesOK
    <2>4. ClientsOK'
      BY DEF Inv, TypeOK, ClientsOK
    <2>5. OwnersOK'
      BY DEF Inv, TypeOK, OwnersOK, Held
    <2> QED  BY <2>1, <2>2, <2>3, <2>4, <2>5 DEF Inv
  <1>11. ASSUME Exit PROVE Inv'
    BY <1>11 DEF Exit, runtime, handles, Inv, TypeOK, RuntimeOK, HandlesOK,
         ClientsOK, OwnersOK, Held
  <1>12. ASSUME StaticDestroyed PROVE Inv'
    <2> USE <1>12 DEF StaticDestroyed, Release, handles, clients
    <2>1. TypeOK' /\ RuntimeOK'
      BY DEF Inv, TypeOK, RuntimeOK
    <2>2. HandlesOK'
      BY DEF Inv, TypeOK, RuntimeOK, HandlesOK
    <2>3. ClientsOK' /\ OwnersOK'
      BY DEF Inv, TypeOK, ClientsOK, OwnersOK, Held
    <2> QED  BY <2>1, <2>2, <2>3 DEF Inv
  <1>13. ASSUME UNCHANGED vars PROVE Inv'
    BY <1>13 DEF vars, runtime, handles, clients, Inv, TypeOK, RuntimeOK, HandlesOK,
         ClientsOK, OwnersOK, Held
  <1> QED
    BY <1>1, <1>2, <1>3, <1>4, <1>5, <1>6, <1>7, <1>8, <1>9, <1>10, <1>11, <1>12,
       <1>13 DEF Next, Finished

(* The invariant holds throughout: started once, owned until the last      *)
(* handle is closed, nothing forgotten.                                    *)
THEOREM InvAlways == Spec => []Inv
  BY InvInit, InvNext, PTL DEF Spec

(* curl_global_init() is called at most once, however many threads         *)
(* construct their first client at the same time.                          *)
THEOREM StartedOnce == Spec => []TypeOK
  <1>1. Inv => TypeOK
    BY DEF Inv
  <1> QED  BY <1>1, InvAlways, PTL

(* While any easy handle is open libcurl is up, whatever the order in      *)
(* which clients, moved clients and the static in runtime() are destroyed. *)
THEOREM LibcurlOutlivesHandles == Spec => []HandlesNeedLibcurl
  <1>1. Inv => HandlesNeedLibcurl
    BY DEF Inv, RuntimeOK, HandlesOK, HandlesNeedLibcurl
  <1> QED  BY <1>1, InvAlways, PTL

(* Once all clients and the static are gone no easy handle is open, the    *)
(* runtime has no owner, and libcurl has been shut down.                   *)
THEOREM EverythingReleased == Spec => []NothingLeft
  <1>1. Inv => NothingLeft
    BY DEF Inv, TypeOK, RuntimeOK, HandlesOK, ClientsOK, OwnersOK, Held, NothingLeft,
         Over, Static, Null, Impls
  <1> QED  BY <1>1, InvAlways, PTL
==============================================================================
