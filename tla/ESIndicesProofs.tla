--------------------------- MODULE ESIndicesProofs ---------------------------
(***************************************************************************)
(* Proofs about the index page, for every set of indices, every cap and   *)
(* every bound: its state stays well typed, no DELETE exceeds the cap, and *)
(* no index without a timestamp is ever deleted.                           *)
(***************************************************************************)
EXTENDS ESIndices, FiniteSetTheorems, TLAPS

(* Every set of ticked rows is finite, so its size is a number. *)
LEMMA SelectionFinite ==
    ASSUME NEW S \in SUBSET Keys
    PROVE  IsFiniteSet(S) /\ Cardinality(S) \in Nat
BY KeysAssumption, FS_Subset, FS_CardinalityType

(* The constructor's state satisfies the invariant. *)
LEMMA ESInvInit == Init => ESInv
<1> SUFFICES ASSUME Init PROVE ESInv
  OBVIOUS
<1>1. TypeOK
  BY BoundsAssumption DEF Init, TypeOK, LoadReq
<1>2. Cardinality(selected) <= MaxSel
  BY FS_EmptySet, MaxSelAssumption DEF Init
<1>3. QED
  BY <1>1, <1>2, KeysAssumption DEF Init, ESInv, DeleteRequestsCapped, ProtectedKept

(* Every step keeps the invariant: a tick past the cap changes nothing, a *)
(* disabled row is never ticked, a DELETE takes the ticked rows, the       *)
(* service removes only the names of a DELETE, and a reload clears the     *)
(* ticks.                                                                  *)
LEMMA ESInvStep == ESInv /\ [Next]_vars => ESInv'
<1> SUFFICES ASSUME ESInv, [Next]_vars PROVE ESInv'
  OBVIOUS
<1> USE DEF ESInv, DeleteRequestsCapped, ProtectedKept
<1>1. ASSUME NEW l \in loads, ServeLoad(l) PROVE ESInv'
  <2>1. [l EXCEPT !.served = TRUE, !.rows = exists] \in LoadReq
    BY DEF TypeOK, LoadReq
  <2>2. loads' \subseteq LoadReq
    BY <1>1, <2>1 DEF ServeLoad, TypeOK
  <2>3. UNCHANGED <<exists, data, indices, loading, selected, deletes, nLoads, nDeletes, shownLoad>>
    BY <1>1 DEF ServeLoad
  <2>4. QED
    BY <2>2, <2>3 DEF TypeOK
<1>2. ASSUME NEW l \in loads, LoadSuccess(l) PROVE ESInv'
  <2>1. l \in LoadReq
    BY DEF TypeOK
  <2>2. l.rows \subseteq Keys
    BY <2>1 DEF LoadReq
  <2>3. loads' \subseteq LoadReq /\ indices' = l.rows /\ data' = l.rows /\ loading' = FALSE
        /\ shownLoad' = l.id /\ l.id \in 1..MaxLoads
    BY <1>2, <2>1 DEF LoadSuccess, TypeOK, LoadReq
  <2>4. UNCHANGED <<exists, selected, deletes, nLoads, nDeletes>>
    BY <1>2 DEF LoadSuccess
  <2>5. exists' \subseteq Keys /\ selected' \subseteq Keys /\ deletes' \subseteq DeleteReq
        /\ nLoads' \in 1..MaxLoads /\ nDeletes' \in 0..MaxDeletes
    BY <2>4 DEF TypeOK
  <2>6. data' \subseteq Keys /\ indices' \subseteq Keys
    BY <2>2, <2>3
  <2>7. shownLoad' \in 0..MaxLoads /\ loads' \subseteq LoadReq
    BY <2>3, BoundsAssumption
  <2>8. loading' \in BOOLEAN
    BY <2>3
  <2>9. TypeOK'
    BY <2>5, <2>6, <2>7, <2>8 DEF TypeOK
  <2>10. QED
    BY <2>4, <2>9
<1>3. ASSUME NEW l \in loads, LoadFailure(l) PROVE ESInv'
  BY <1>3 DEF LoadFailure, TypeOK
<1>4. ASSUME NEW v \in Filters, Search(v) PROVE ESInv'
  BY <1>4, MatchesAssumption DEF Search, TypeOK
<1>5. ASSUME NEW k \in Keys, Select(k) PROVE ESInv'
  <2>1. Toggled(k) \subseteq Keys /\ Toggled(k) \cap Protected = {}
    BY <1>5 DEF Select, Toggled, TypeOK
  <2>2. Cardinality(Toggled(k)) \in Nat /\ Cardinality(selected) \in Nat
    BY <2>1, SelectionFinite DEF TypeOK
  <2>3. CASE Cardinality(Toggled(k)) > MaxSel
    BY <1>5, <2>3 DEF Select, TypeOK
  <2>4. CASE ~(Cardinality(Toggled(k)) > MaxSel)
    <3>1. selected' = Toggled(k)
      BY <1>5, <2>4 DEF Select
    <3>2. Cardinality(selected') <= MaxSel
      BY <2>2, <2>4, <3>1, MaxSelAssumption
    <3>3. QED
      BY <1>5, <2>1, <3>1, <3>2 DEF Select, TypeOK
  <2>5. QED
    BY <2>3, <2>4
<1>6. CASE ConfirmDelete
  <2> DEFINE nd == [id |-> nDeletes + 1, keys |-> selected, done |-> FALSE]
  <2>1. deletes' = deletes \cup {nd} /\ nDeletes' = nDeletes + 1 /\ selected # {}
    BY <1>6 DEF ConfirmDelete
  <2>2. nd \in DeleteReq /\ nDeletes' \in 0..MaxDeletes
    BY <1>6, <2>1, BoundsAssumption DEF ConfirmDelete, TypeOK, DeleteReq
  <2>3. nd.keys \cap Protected = {} /\ nd.keys # {} /\ Cardinality(nd.keys) <= MaxSel
    BY <2>1
  <2>4. \A e \in deletes' : e.keys \cap Protected = {} /\ e.keys # {} /\ Cardinality(e.keys) <= MaxSel
    BY <2>1, <2>3
  <2>5. UNCHANGED <<exists, data, indices, loading, selected, loads, nLoads, shownLoad>>
    BY <1>6 DEF ConfirmDelete
  <2>6. deletes' \subseteq DeleteReq
    BY <2>1, <2>2 DEF TypeOK
  <2>7. QED
    BY <2>2, <2>4, <2>5, <2>6 DEF TypeOK
<1>7. ASSUME NEW d \in deletes, ServeDelete(d) PROVE ESInv'
  <2> DEFINE nd == [d EXCEPT !.done = TRUE]
  <2>1. d \in DeleteReq /\ d.keys \cap Protected = {}
       /\ d.keys # {} /\ Cardinality(d.keys) <= MaxSel
    BY DEF TypeOK
  <2>2. nd \in DeleteReq /\ nd.keys = d.keys
    BY <2>1 DEF DeleteReq
  <2>3. exists' \subseteq Keys /\ Protected \subseteq exists'
    BY <1>7, <2>1 DEF ServeDelete, TypeOK
  <2>4. deletes' = (deletes \ {d}) \cup {nd}
    BY <1>7 DEF ServeDelete
  <2>5. \A e \in deletes' : e.keys \cap Protected = {} /\ e.keys # {} /\ Cardinality(e.keys) <= MaxSel
    BY <2>1, <2>2, <2>4
  <2>6. deletes' \subseteq DeleteReq
    BY <2>2, <2>4 DEF TypeOK
  <2>7. UNCHANGED <<data, indices, loading, selected, loads, nLoads, nDeletes, shownLoad>>
    BY <1>7 DEF ServeDelete
  <2>8. QED
    BY <2>3, <2>5, <2>6, <2>7 DEF TypeOK
<1>8. ASSUME NEW d \in deletes, DeleteSuccess(d) PROVE ESInv'
  <2>1. Cardinality(selected') <= MaxSel
    BY <1>8, FS_EmptySet, MaxSelAssumption DEF DeleteSuccess
  <2>2. nLoads \in 1..MaxLoads /\ nLoads < MaxLoads /\ nLoads' = nLoads + 1
    BY <1>8 DEF DeleteSuccess, TypeOK
  <2>3. nLoads + 1 \in 1..MaxLoads
    BY <2>2, BoundsAssumption
  <2>4. NewLoad \in LoadReq
    BY <2>3 DEF NewLoad, LoadReq
  <2>5. loads' \subseteq LoadReq /\ deletes' \subseteq DeleteReq
    BY <1>8, <2>4 DEF DeleteSuccess, TypeOK
  <2>6. /\ data' = {} /\ loading' = TRUE /\ selected' = {}
        /\ UNCHANGED <<exists, indices, nDeletes, shownLoad>>
        /\ deletes' \subseteq deletes
    BY <1>8 DEF DeleteSuccess
  <2>7. TypeOK'
    BY <2>2, <2>3, <2>5, <2>6 DEF TypeOK
  <2>8. \A e \in deletes' : e.keys \cap Protected = {} /\ e.keys # {} /\ Cardinality(e.keys) <= MaxSel
    BY <2>6
  <2>9. QED
    BY <2>1, <2>6, <2>7, <2>8
<1>9. ASSUME NEW d \in deletes, DeleteFailure(d) PROVE ESInv'
  BY <1>9 DEF DeleteFailure, TypeOK
<1>10. CASE UNCHANGED vars
  BY <1>10 DEF vars, TypeOK
<1>11. ASSUME NEW k \in Keys, CreateIndex(k) PROVE ESInv'
  BY <1>11 DEF CreateIndex, TypeOK
<1>12. QED
  BY <1>1, <1>2, <1>3, <1>4, <1>5, <1>6, <1>7, <1>8, <1>9, <1>10, <1>11 DEF Next

(* ESInv holds in every reachable state of the page. *)
THEOREM ESInvariant == Spec => []ESInv
  BY ESInvInit, ESInvStep, PTL DEF Spec

(* The page's state is well typed in every reachable state. *)
THEOREM ESTypeCorrect == Spec => []TypeOK
<1>1. ESInv => TypeOK
  BY DEF ESInv
<1>2. QED
  BY ESInvariant, <1>1, PTL

(* No DELETE sent by deleteIndices names more indices than the cap of the *)
(* warning in onChange, or none at all.                                    *)
THEOREM DeleteRequestsCappedHolds == Spec => []DeleteRequestsCapped
<1>1. ESInv => DeleteRequestsCapped
  BY DEF ESInv
<1>2. QED
  BY ESInvariant, <1>1, PTL

(* No index whose checkbox getCheckboxProps disables is ever deleted. *)
THEOREM ProtectedKeptHolds == Spec => []ProtectedKept
<1>1. ESInv => ProtectedKept
  BY DEF ESInv
<1>2. QED
  BY ESInvariant, <1>1, PTL
=============================================================================
