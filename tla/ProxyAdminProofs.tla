-------------------------- MODULE ProxyAdminProofs --------------------------
(***************************************************************************)
(* Proofs about the proxy route page, for every set of routes and every   *)
(* bound: its state stays well typed; in particular the service picker   *)
(* only ever holds service names.                                         *)
(***************************************************************************)
EXTENDS ProxyAdmin, TLAPS

ProxyInv == TypeOK

(* The ready handler's state satisfies the invariant. *)
LEMMA ProxyInvInit == Init => ProxyInv
<1> SUFFICES ASSUME Init PROVE ProxyInv
  OBVIOUS
<1>1. [id |-> 1, served |-> FALSE, rows |-> {}] \in ListReq
  BY ProxyAssumption DEF ListReq
<1>2. lists \subseteq ListReq /\ nLists \in 1..MaxLists /\ shownList \in 0..MaxLists
      /\ nWrites \in 0..MaxWrites
  BY <1>1, ProxyAssumption DEF Init
<1>3. routes \subseteq Routes /\ table \subseteq Routes /\ writes = {}
  BY ProxyAssumption DEF Init
<1>4. okBox = FALSE /\ errBox = FALSE /\ picker = {} /\ servicesPending = TRUE
  BY DEF Init
<1>5. QED
  BY <1>2, <1>3, <1>4 DEF ProxyInv, TypeOK

(* Every callback and handler keeps the invariant.                       *)
LEMMA ProxyInvStep == ProxyInv /\ [Next]_vars => ProxyInv'
<1> SUFFICES ASSUME ProxyInv, [Next]_vars PROVE ProxyInv'
  OBVIOUS
<1> USE DEF ProxyInv
<1>0. ASSUME NEW S \in SUBSET Services, ServicesAnswer(S) PROVE ProxyInv'
  BY <1>0 DEF ServicesAnswer, TypeOK
<1>1. ASSUME NEW l \in lists, ServeList(l) PROVE ProxyInv'
  <2>1. [l EXCEPT !.served = TRUE, !.rows = routes] \in ListReq
    BY DEF TypeOK, ListReq
  <2>2. QED
    BY <1>1, <2>1 DEF ServeList, TypeOK
<1>2. ASSUME NEW l \in lists, ListAnswer(l) PROVE ProxyInv'
  <2>1. l \in ListReq
    BY DEF TypeOK
  <2>2. table' \subseteq Routes /\ shownList' \in 0..MaxLists
    BY <1>2, <2>1, ProxyAssumption DEF ListAnswer, ListReq
  <2>3. QED
    BY <1>2, <2>2 DEF ListAnswer, TypeOK
<1>3. ASSUME NEW l \in lists, ListFailed(l) PROVE ProxyInv'
  BY <1>3 DEF ListFailed, TypeOK
<1>4. ASSUME NEW r \in Routes, Submit(r) PROVE ProxyInv'
  <2>1. [id |-> nWrites + 1, kind |-> Put, route |-> r, served |-> FALSE, ok |-> FALSE]
          \in WriteReq /\ nWrites + 1 \in 0..MaxWrites
    BY <1>4, ProxyAssumption DEF Submit, TypeOK, WriteReq
  <2>2. QED
    BY <1>4, <2>1 DEF Submit, TypeOK
<1>5. ASSUME NEW r \in Routes, DeleteClick(r) PROVE ProxyInv'
  <2>1. [id |-> nWrites + 1, kind |-> Delete, route |-> r, served |-> FALSE, ok |-> FALSE]
          \in WriteReq /\ nWrites + 1 \in 0..MaxWrites
    BY <1>5, ProxyAssumption DEF DeleteClick, TypeOK, WriteReq
  <2>2. QED
    BY <1>5, <2>1 DEF DeleteClick, TypeOK
<1>6. ASSUME NEW w \in writes, NEW ok \in BOOLEAN, ServeWrite(w, ok) PROVE ProxyInv'
  <2>1. w \in WriteReq
    BY DEF TypeOK
  <2>2. [w EXCEPT !.served = TRUE, !.ok = ok] \in WriteReq
    BY <2>1 DEF WriteReq
  <2>3. routes' \subseteq Routes
    BY <1>6, <2>1 DEF ServeWrite, TypeOK, WriteReq
  <2>4. QED
    BY <1>6, <2>2, <2>3 DEF ServeWrite, TypeOK
<1>7. ASSUME NEW w \in writes, WriteSuccess(w) PROVE ProxyInv'
  <2>1. NewList \in ListReq /\ nLists + 1 \in 1..MaxLists
    BY <1>7, ProxyAssumption DEF WriteSuccess, NewList, ListReq, TypeOK
  <2>2. QED
    BY <1>7, <2>1 DEF WriteSuccess, TypeOK
<1>8. ASSUME NEW w \in writes, WriteError(w) PROVE ProxyInv'
  BY <1>8 DEF WriteError, TypeOK
<1>9. CASE UNCHANGED vars
  BY <1>9 DEF vars, TypeOK
<1>10. QED
  BY <1>0, <1>1, <1>2, <1>3, <1>4, <1>5, <1>6, <1>7, <1>8, <1>9 DEF Next

(* The page's state is well typed in every reachable state. *)
THEOREM ProxyTypeCorrect == Spec => []TypeOK
<1>1. ProxyInv => TypeOK
  BY DEF ProxyInv
<1>2. QED
  BY ProxyInvInit, ProxyInvStep, <1>1, PTL DEF Spec
=============================================================================
