-------------------------- MODULE TopoBuilderProofs --------------------------
(***************************************************************************)
(* Successive getOption calls in one page keep the displayed option, the  *)
(* last snapshot and the shared pollution well formed, for every base,    *)
(* unit count, set of names and set of snapshots.                         *)
(***************************************************************************)
EXTENDS TopoBuilder, TopoGraphProofs

(* The first render, the option of an empty snapshot, is well typed. *)
LEMMA BuilderTypeInit == Init => TypeOK
<1> SUFFICES ASSUME Init PROVE TypeOK
  OBVIOUS
<1>1. EmptySnapshot \in Snapshot /\ {} \in Pollution
  BY SnapshotsAssumption DEF Pollution
<1>2. GetOption(EmptySnapshot, {}).option \in Option
  BY <1>1, GetOptionType
<1>3. QED
  BY <1>1, <1>2 DEF Init, TypeOK

(* One call on any snapshot the server may send keeps the state well      *)
(* typed: the pollution it returns is again one getOption accepts.        *)
LEMMA BuilderTypeStep == TypeOK /\ [Next]_vars => TypeOK'
<1> SUFFICES ASSUME TypeOK, [Next]_vars PROVE TypeOK'
  OBVIOUS
<1>1. ASSUME NEW s \in Snapshots, Build(s) PROVE TypeOK'
  <2>1. s \in Snapshot
    BY SnapshotsAssumption
  <2>2. GetOption(s, polluted).option \in Option /\ GetOption(s, polluted).polluted \in Pollution
    BY <2>1, GetOptionType DEF TypeOK
  <2>3. QED
    BY <1>1, <2>1, <2>2 DEF Build, TypeOK
<1>2. CASE UNCHANGED vars
  BY <1>2 DEF vars, TypeOK
<1>3. QED
  BY <1>1, <1>2 DEF Next

(* Every option the chart is given by successive getOption calls has the *)
(* shape echarts expects, whatever the hosts are named.                    *)
THEOREM BuilderTypeCorrect == Spec => []TypeOK
BY BuilderTypeInit, BuilderTypeStep, PTL DEF Spec

(* Successive getOption calls always display the option the builder's     *)
(* contract prescribes for the last snapshot, as long as no host is named *)
(* like a property of Object.prototype and no byte count reaches EB's     *)
(* upper end: the pollution earlier calls leave is then never read.  The  *)
(* runs topo_builder_proto_names and topo_builder_huge_bytes show that    *)
(* neither condition can be dropped.                                      *)
THEOREM BuilderMeetsContract ==
    ASSUME ProtoKeys = {}, \A s \in Snapshots : BytesInRange(s)
    PROVE  Spec => []OptionMatchesReference
<1>1. Init => OptionMatchesReference
  <2> SUFFICES ASSUME Init PROVE OptionMatchesReference
    OBVIOUS
  <2>1. EmptySnapshot \in Snapshot /\ BytesInRange(EmptySnapshot)
    BY SnapshotsAssumption
  <2>2. GetOption(EmptySnapshot, {}).option = RefOption(EmptySnapshot)
    BY <2>1, GetOptionMeetsContract
  <2>3. QED
    BY <2>2 DEF Init, OptionMatchesReference
<1>2. OptionMatchesReference /\ [Next]_vars => OptionMatchesReference'
  <2> SUFFICES ASSUME OptionMatchesReference, [Next]_vars
               PROVE  OptionMatchesReference'
    OBVIOUS
  <2>1. ASSUME NEW s \in Snapshots, Build(s) PROVE OptionMatchesReference'
    <3>1. s \in Snapshot /\ BytesInRange(s)
      BY SnapshotsAssumption
    <3>2. GetOption(s, polluted).option = RefOption(s)
      BY <3>1, GetOptionMeetsContract
    <3>3. QED
      BY <2>1, <3>2 DEF Build, OptionMatchesReference
  <2>2. CASE UNCHANGED vars
    BY <2>2 DEF vars, OptionMatchesReference
  <2>3. QED
    BY <2>1, <2>2 DEF Next
<1>3. QED
  BY <1>1, <1>2, PTL DEF Spec
=============================================================================
