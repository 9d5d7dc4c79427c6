---------------------------- MODULE NodeTopoProofs ----------------------------
(***************************************************************************)
(* Proofs about the topology page, for every value of the constants: its  *)
(* state stays well typed and its two safety invariants hold.             *)
(***************************************************************************)
EXTENDS NodeTopo, TopoGraphProofs

(* loadTopo below the bound keeps the requests in flight well formed. *)
LEMMA LoadTopoTyped ==
    ASSUME TypeOK, NEW c \in Clusters \cup {Empty}, issued < MaxReqs, LoadTopo(c)
    PROVE  reqs' \subseteq Request /\ issued' \in 0..MaxReqs
<1>1. CASE c = Empty
  BY <1>1 DEF LoadTopo, TypeOK
<1>2. CASE c # Empty
  <2>1. c \in Clusters
    BY <1>2
  <2>2. reqs \subseteq Request /\ issued \in 0..MaxReqs /\ range \in Ranges
    BY DEF TypeOK
  <2>3. [id |-> issued + 1, cluster |-> c, range |-> range] \in Request
    BY <2>1, <2>2, MaxReqsAssumption DEF Request
  <2>4. QED
    BY <1>2, <2>2, <2>3, MaxReqsAssumption DEF LoadTopo
<1>3. QED
  BY <1>1, <1>2

(* The page's first render (constructor, empty graph) is well typed. *)
LEMMA TypeOKInit == Init => TypeOK
<1>1. EmptySnapshot \in Snapshot /\ {} \in Pollution
  <2>1. <<>> \in Seq(NodeRec) /\ <<>> \in Seq(LinkRec)
    OBVIOUS
  <2>2. QED
    BY <2>1 DEF EmptySnapshot, Snapshot, Pollution
<1>2. GetOption(EmptySnapshot, {}).option \in Option
  BY <1>1, GetOptionType
<1>3. ASSUME Init PROVE option \in Option /\ polluted \in Pollution
  BY <1>1, <1>2, <1>3 DEF Init
<1>4. ASSUME Init PROVE issued \in 0..MaxReqs /\ shown \in 0..MaxReqs /\ reqs \subseteq Request
  BY <1>4, MaxReqsAssumption DEF Init
<1>5. QED
  BY <1>3, <1>4 DEF Init, TypeOK

(* Every callback and every handler of the page keeps its state well typed. *)
LEMMA TypeOKStep == TypeOK /\ [Next]_vars => TypeOK'
<1> SUFFICES ASSUME TypeOK, [Next]_vars PROVE TypeOK'
  OBVIOUS
<1>1. ASSUME NEW c \in Clusters \cup {Empty}, EnvsSuccess(c) PROVE TypeOK'
  <2>1. CASE c = Empty
    BY <1>1, <2>1 DEF EnvsSuccess, TypeOK
  <2>2. CASE c # Empty
    <3>1. LoadTopo(c) /\ clusterName' = c /\ issued < MaxReqs
      BY <1>1, <2>2 DEF EnvsSuccess
    <3>2. reqs' \subseteq Request /\ issued' \in 0..MaxReqs
      BY <3>1, LoadTopoTyped
    <3>3. QED
      BY <1>1, <2>2, <3>1, <3>2 DEF EnvsSuccess, TypeOK
  <2>3. QED
    BY <2>1, <2>2
<1>2. CASE EnvsFailure
  BY <1>2 DEF EnvsFailure, TypeOK
<1>3. ASSUME NEW r \in Ranges, TimeChange(r) PROVE TypeOK'
  BY <1>3 DEF TimeChange, TypeOK
<1>4. ASSUME NEW c \in Clusters \cup {Empty}, ClusterChange(c) PROVE TypeOK'
  BY <1>4 DEF ClusterChange, TypeOK
<1>5. CASE Search
  <2>1. CASE clusterName = Empty
    BY <1>5, <2>1 DEF Search, LoadTopo, TypeOK
  <2>2. CASE clusterName # Empty
    <3>1. reqs' \subseteq Request /\ issued' \in 0..MaxReqs
      <4>1. clusterName \in Clusters \cup {Empty} /\ issued < MaxReqs /\ LoadTopo(clusterName)
        BY <1>5 DEF Search, TypeOK
      <4>2. QED
        BY <4>1, LoadTopoTyped
    <3>2. QED
      BY <1>5, <3>1 DEF Search, TypeOK
  <2>3. QED
    BY <2>1, <2>2
<1>6. ASSUME NEW q \in reqs, NEW sn \in Snapshots, TopoSuccess(q, sn) PROVE TypeOK'
  <2>1. sn \in Snapshot
    BY NodeTopoSnapshotsAssumption
  <2>2. q \in Request
    BY DEF TypeOK
  <2>3. LET r == GetOption(sn, polluted)
        IN  r.option \in Option /\ r.polluted \in Pollution
    BY <2>1, GetOptionType DEF TypeOK
  <2>4. option' \in Option /\ polluted' \in Pollution
    BY <1>6, <2>3 DEF TopoSuccess
  <2>5. QED
    BY <1>6, <2>2, <2>4 DEF TopoSuccess, TypeOK, Request
<1>7. ASSUME NEW q \in reqs, TopoFailure(q) PROVE TypeOK'
  BY <1>7 DEF TopoFailure, TypeOK
<1>8. CASE UNCHANGED vars
  BY <1>8 DEF vars, TypeOK
<1>9. QED
  BY <1>1, <1>2, <1>3, <1>4, <1>5, <1>6, <1>7, <1>8
     DEF Next, EnvsAnswer, TopoAnswer

(* The page's state is well typed in every reachable state: every request *)
(* in flight names a non-empty cluster and an id within the bound, and    *)
(* every chart option is one getOption can return.                         *)
THEOREM TypeCorrect == Spec => []TypeOK
  BY TypeOKInit, TypeOKStep, PTL DEF Spec

-----------------------------------------------------------------------------
(* The page starts with the Envs request in flight and nothing typed. *)
LEMMA PageInvInit == Init => PageInv
<1> SUFFICES ASSUME Init PROVE PageInv
  OBVIOUS
<1>1. TypeOK
  BY TypeOKInit
<1>2. QED
  BY <1>1, ClustersAssumption DEF Init, PageInv, TypedValueKept, DefaultClusterQueried

(* Every step keeps the page invariant: the Envs callbacks are the only   *)
(* steps that set init, they need the request in flight, and then nothing *)
(* has been typed; onClusterChange needs init; a request only raises the  *)
(* number issued.                                                         *)
LEMMA PageInvStep == PageInv /\ [Next]_vars => PageInv'
<1> SUFFICES ASSUME PageInv, [Next]_vars PROVE PageInv'
  OBVIOUS
<1>1. TypeOK /\ TypeOK'
  BY TypeOKStep DEF PageInv
<1>2. issued \in Nat /\ issued' \in Nat
  BY <1>1 DEF TypeOK
<1> USE DEF PageInv, TypedValueKept, DefaultClusterQueried
<1>3. ASSUME NEW c \in Clusters \cup {Empty}, EnvsSuccess(c) PROVE PageInv'
  <2>1. typed = NoInput /\ typed' = NoInput
    BY <1>3 DEF EnvsSuccess
  <2>2. CASE c = Empty
    BY <1>1, <1>3, <2>1, <2>2 DEF EnvsSuccess
  <2>3. CASE c # Empty
    <3>1. issued' = issued + 1
      BY <1>3, <2>3 DEF EnvsSuccess, LoadTopo
    <3>2. init' = TRUE /\ envsPending' = FALSE
      BY <1>3 DEF EnvsSuccess
    <3>3. issued' > 0
      BY <1>2, <3>1
    <3>4. QED
      BY <1>1, <2>1, <3>2, <3>3
  <2>4. QED
    BY <2>2, <2>3
<1>4. CASE EnvsFailure
  BY <1>1, <1>4 DEF EnvsFailure
<1>5. ASSUME NEW r \in Ranges, TimeChange(r) PROVE PageInv'
  BY <1>1, <1>5 DEF TimeChange
<1>6. ASSUME NEW c \in Clusters \cup {Empty}, ClusterChange(c) PROVE PageInv'
  BY <1>1, <1>6, ClustersAssumption DEF ClusterChange
<1>7. CASE Search
  <2>1. issued' >= issued /\ UNCHANGED <<init, envsPending, clusterName, typed>>
    BY <1>2, <1>7 DEF Search, LoadTopo
  <2>2. QED
    BY <1>1, <1>2, <2>1
<1>8. ASSUME NEW q \in reqs, NEW sn \in Snapshots, TopoSuccess(q, sn) PROVE PageInv'
  BY <1>1, <1>8 DEF TopoSuccess
<1>9. ASSUME NEW q \in reqs, TopoFailure(q) PROVE PageInv'
  BY <1>1, <1>9 DEF TopoFailure
<1>10. CASE UNCHANGED vars
  BY <1>1, <1>10 DEF vars
<1>11. QED
  BY <1>3, <1>4, <1>5, <1>6, <1>7, <1>8, <1>9, <1>10
     DEF Next, EnvsAnswer, TopoAnswer

(* PageInv holds in every reachable state of the page. *)
THEOREM PageInvariant == Spec => []PageInv
  BY PageInvInit, PageInvStep, PTL DEF Spec

(* The user's input in the cluster field is never overwritten by the late *)
(* default cluster of the Envs answer (onClusterChange's !this.init test). *)
THEOREM TypedValueKeptHolds == Spec => []TypedValueKept
<1>1. PageInv => TypedValueKept
  BY DEF PageInv
<1>2. QED
  BY PageInvariant, <1>1, PTL

(* A default cluster in the field has always been queried: getDefaultCluster *)
(* calls loadTopo right after its setState.                                *)
THEOREM DefaultClusterQueriedHolds == Spec => []DefaultClusterQueried
<1>1. PageInv => DefaultClusterQueried
  BY DEF PageInv
<1>2. QED
  BY PageInvariant, <1>1, PTL

(* PageInv with what the refinement needs: before init the field is empty. *)
FieldInv == PageInv /\ (~init => clusterName = Empty)

LEMMA FieldInvInit == Init => FieldInv
BY PageInvInit DEF Init, FieldInv

(* Only the Envs callbacks set init, and only onClusterChange, which needs *)
(* init, and the Envs success change the field.                            *)
LEMMA FieldInvStep == FieldInv /\ [Next]_vars => FieldInv'
<1> SUFFICES ASSUME FieldInv, [Next]_vars PROVE FieldInv'
  OBVIOUS
<1>1. PageInv'
  BY PageInvStep DEF FieldInv
<1>2. ~init' => clusterName' = Empty
  <2>1. CASE EnvsAnswer
    BY <2>1 DEF EnvsAnswer, EnvsSuccess, EnvsFailure
  <2>2. CASE \E r \in Ranges : TimeChange(r)
    BY <2>2 DEF FieldInv, TimeChange
  <2>3. CASE \E c \in Clusters \cup {Empty} : ClusterChange(c)
    BY <2>3 DEF ClusterChange
  <2>4. CASE Search
    BY <2>4 DEF FieldInv, Search
  <2>5. CASE \E q \in reqs : TopoAnswer(q)
    BY <2>5 DEF FieldInv, TopoAnswer, TopoSuccess, TopoFailure
  <2>6. CASE UNCHANGED vars
    BY <2>6 DEF FieldInv, vars
  <2>7. QED
    BY <2>1, <2>2, <2>3, <2>4, <2>5, <2>6 DEF Next
<1>3. QED
  BY <1>1, <1>2 DEF FieldInv

(* Every step of the page is a step of the cluster field or leaves it     *)
(* alone: an Envs callback is the default arriving (the field is still    *)
(* empty, so a missing default leaves it empty), onClusterChange is       *)
(* typing, and nothing else touches the field or init.                    *)
LEMMA FieldStep == FieldInv /\ [Next]_vars => [Field!Next]_<<clusterName, init>>
<1> SUFFICES ASSUME FieldInv, [Next]_vars PROVE [Field!Next]_<<clusterName, init>>
  OBVIOUS
<1>2. ASSUME NEW c \in Clusters \cup {Empty}, EnvsSuccess(c) PROVE Field!Next
  <2>1. ~init /\ clusterName = Empty
    BY <1>2 DEF EnvsSuccess, FieldInv, PageInv
  <2>2. init' = TRUE /\ clusterName' = c
    BY <1>2, <2>1 DEF EnvsSuccess
  <2>3. Field!Default(c)
    BY <2>1, <2>2 DEF Field!Default
  <2>4. QED
    BY <2>3 DEF Field!Next
<1>3. ASSUME EnvsFailure PROVE Field!Next
  <2>1. ~init /\ clusterName = Empty
    BY <1>3 DEF EnvsFailure, FieldInv, PageInv
  <2>2. Field!Default(Empty)
    BY <1>3, <2>1 DEF EnvsFailure, Field!Default
  <2>3. QED
    BY <2>2 DEF Field!Next
<1>4. ASSUME NEW c \in Clusters \cup {Empty}, ClusterChange(c) PROVE Field!Next
  <2>1. Field!Type(c)
    BY <1>4 DEF ClusterChange, Field!Type
  <2>2. QED
    BY <2>1 DEF Field!Next
<1>5. CASE \E r \in Ranges : TimeChange(r)
  BY <1>5 DEF TimeChange
<1>6. CASE Search
  BY <1>6 DEF Search
<1>7. CASE \E q \in reqs : TopoAnswer(q)
  BY <1>7 DEF TopoAnswer, TopoSuccess, TopoFailure
<1>8. CASE UNCHANGED vars
  BY <1>8 DEF vars
<1>9. QED
  BY <1>2, <1>3, <1>4, <1>5, <1>6, <1>7, <1>8 DEF Next, EnvsAnswer

(* The page implements the safety part of the cluster field's promise     *)
(* (ClusterField under clusterName and init): the default lands only in   *)
(* the locked field, once, and afterwards only typing changes the field.  *)
THEOREM ClusterFieldRefinement == Spec => ClusterFieldSafe
<1>1. Init => Field!Init
  BY DEF Init, Field!Init
<1>2. QED
  BY <1>1, FieldInvInit, FieldInvStep, FieldStep, PTL
     DEF Spec, ClusterFieldSafe, Field!SafeSpec, Field!fvars
=============================================================================
