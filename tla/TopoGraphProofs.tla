--------------------------- MODULE TopoGraphProofs ---------------------------
(***************************************************************************)
(* Facts about the topology builder's operators, for every base, unit      *)
(* count and set of names: formatBytes yields a label, and getOption a    *)
(* well-formed option and pollution.                                       *)
(***************************************************************************)
EXTENDS TopoGraph, FiniteSetTheorems, WellFoundedInduction, TLAPS

(* formatBytes(n) of a byte count is a number of hundredths and a unit    *)
(* index no larger than units.length (the index the loop can reach).      *)
LEMMA FormatBytesType ==
    ASSUME NEW n \in Nat
    PROVE  FormatBytes(n) \in Label
<1> DEFINE S == {j \in 1..UnitCount : Base^j <= n}
<1>1. IsFiniteSet(1..UnitCount) /\ Cardinality(1..UnitCount) = UnitCount
  BY UnitCountAssumption, FS_Interval
<1>2. IsFiniteSet(S) /\ Cardinality(S) <= UnitCount
  BY <1>1, FS_Subset
<1>3. UnitIndex(n) \in 0..UnitCount
  BY <1>2, FS_CardinalityType DEF UnitIndex
<1>4. Base^UnitIndex(n) \in Nat \ {0}
  BY <1>3, PowerAssumption
<1>5. (100 * n) \div (Base^UnitIndex(n)) \in Nat
  BY <1>4
<1>6. QED
  BY <1>3, <1>5 DEF FormatBytes, Label

(* getOption maps a snapshot to an option of the chart's shape, and adds  *)
(* to the shared objects only pairs of an inherited name and a name.      *)
LEMMA GetOptionType ==
    ASSUME NEW data \in Snapshot, NEW p \in Pollution
    PROVE  /\ GetOption(data, p).option \in Option
           /\ GetOption(data, p).polluted \in Pollution
<1> DEFINE ns == data.nodes
           ls == data.links
           pol == Polluted(ls, p)
<1>1. /\ ns \in Seq(NodeRec) /\ DOMAIN ns = 1..Len(ns)
      /\ ls \in Seq(LinkRec) /\ DOMAIN ls = 1..Len(ls)
  BY DEF Snapshot
<1>2. \A k \in DOMAIN ns : ns[k] \in NodeRec
  BY <1>1
<1>3. \A k \in DOMAIN ls : ls[k] \in LinkRec
  BY <1>1
<1>4. pol \in Pollution
  <2>1. \A k \in DOMAIN ls : ls[k].source \in ProtoKeys => <<ls[k].source, ls[k].target>> \in ProtoKeys \X Names
    BY <1>3 DEF LinkRec
  <2>2. QED
    BY <2>1 DEF Polluted, Pollution
<1>5. NodeNames(ns) \in Seq(Names)
  BY <1>1, <1>2 DEF NodeNames, NodeRec
<1>6. [k \in DOMAIN ns |-> [name |-> ns[k].name, value |-> ns[k].bytes,
                            label |-> FormatBytes(ns[k].bytes)]] \in Seq(RenderNode)
  <2>1. \A k \in DOMAIN ns : FormatBytes(ns[k].bytes) \in Label
    BY <1>2, FormatBytesType DEF NodeRec
  <2>2. \A k \in DOMAIN ns : [name |-> ns[k].name, value |-> ns[k].bytes,
                               label |-> FormatBytes(ns[k].bytes)] \in RenderNode
    BY <1>2, <2>1 DEF RenderNode, NodeRec
  <2>3. QED
    BY <1>1, <2>2
<1>7. [k \in DOMAIN ls |-> [source |-> ls[k].source, target |-> ls[k].target,
                            color |-> EdgeColor(ls, pol, ls[k]),
                            label |-> FormatBytes(ls[k].bytes)]] \in Seq(RenderEdge)
  <2>1. \A k \in DOMAIN ls : FormatBytes(ls[k].bytes) \in Label
    BY <1>3, FormatBytesType DEF LinkRec
  <2>2. \A k \in DOMAIN ls : EdgeColor(ls, pol, ls[k]) \in Colors
    BY DEF EdgeColor, Colors
  <2>3. \A k \in DOMAIN ls : [source |-> ls[k].source, target |-> ls[k].target,
                               color |-> EdgeColor(ls, pol, ls[k]),
                               label |-> FormatBytes(ls[k].bytes)] \in RenderEdge
    BY <1>3, <2>1, <2>2 DEF RenderEdge, LinkRec
  <2>4. QED
    BY <1>1, <2>3
<1>8. QED
  BY <1>4, <1>5, <1>6, <1>7 DEF GetOption, Option

(* Below the last unit's upper end, the unit formatBytes stops at is the  *)
(* one the contract prescribes: the loop of formatBytes counts the powers *)
(* of the base up to n, and they are 1..i for the i the contract picks.   *)
LEMMA UnitIndexMeetsContract ==
    ASSUME NEW n \in Nat, n < Base^UnitCount
    PROVE  UnitIndex(n) = RefUnitIndex(n)
<1> DEFINE Above == {j \in 1..UnitCount : n < Base^j}
           Ok(k) == /\ k = 0 \/ Base^k <= n
                    /\ k = UnitCount - 1 \/ n < Base^(k + 1)
<1> USE DEF Above, Ok
<1> USE UnitCountAssumption
<1>1. Above \subseteq Nat /\ Above # {}
  BY UnitCountAssumption
<1>2. PICK m \in Above : \A y \in Above : ~(<<y, m>> \in OpToRel(<, Nat))
  BY <1>1, NatLessThanWellFounded, WFMin
<1>3. \A y \in Above : ~(y < m)
  BY <1>1, <1>2 DEF OpToRel
<1>4. \A j \in 1..UnitCount : j < m => Base^j <= n
  BY <1>3, PowerAssumption
<1> DEFINE u == m - 1
<1> USE DEF u
<1>5. u \in 0..UnitCount - 1 /\ u + 1 = m
  BY UnitCountAssumption
<1>5a. n < Base^(u + 1)
  <2>1. n < Base^m
    OBVIOUS
  <2>2. Base^(u + 1) = Base^m
    BY <1>5
  <2>3. QED
    BY <2>1, <2>2
<1>6. Ok(u)
  BY <1>4, <1>5, <1>5a DEF Ok, u
<1>7. \A k \in 0..UnitCount - 1 : Ok(k) => k = u
  <2> SUFFICES ASSUME NEW k \in 0..UnitCount - 1, Ok(k), k # u PROVE FALSE
    OBVIOUS
  <2>1. CASE k < u
    <3>1. k + 1 \in 1..UnitCount /\ k + 1 < m /\ k # UnitCount - 1
      BY <2>1, <1>5 DEF Ok, u, Above
    <3>2. Base^(k + 1) <= n
      BY <3>1, <1>4
    <3>3. Base^(k + 1) \in Nat
      BY <3>1, PowerAssumption
    <3>4. QED
      BY <3>1, <3>2, <3>3
  <2>2. CASE k > u
    <3>1. k # 0 /\ m <= k /\ m \in 0..UnitCount /\ k \in 0..UnitCount
      BY <2>2, <1>5 DEF Ok, u, Above
    <3>2. Base^k <= n /\ Base^m <= Base^k
      BY <3>1, PowerMonotone
    <3>3. Base^k \in Nat /\ Base^m \in Nat
      BY <3>1, PowerAssumption
    <3>4. QED
      BY <3>2, <3>3
  <2>3. QED
    BY <2>1, <2>2, <1>5a
<1>8. RefUnitIndex(n) = u
  BY <1>5, <1>6, <1>7 DEF RefUnitIndex
<1>9. {j \in 1..UnitCount : Base^j <= n} = 1..u
  <2>1. ASSUME NEW j \in 1..UnitCount, j > u PROVE ~(Base^j <= n)
    <3>1. m <= j /\ m \in 0..UnitCount
      BY <2>1
    <3>2. Base^m <= Base^j
      BY <3>1, PowerMonotone
    <3>3. Base^m \in Nat /\ Base^j \in Nat
      BY <3>1, PowerAssumption
    <3>4. QED
      BY <3>2, <3>3
  <2>2. ASSUME NEW j \in 1..UnitCount, j <= u PROVE Base^j <= n
    BY <2>2, <1>4, <1>5
  <2>3. QED
    BY <2>1, <2>2, <1>5
<1>10. Cardinality(1..u) = u
  BY <1>5, FS_Interval
<1>11. QED
  BY <1>8, <1>9, <1>10 DEF UnitIndex

(* formatBytes of a byte count below EB's upper end is the contract's. *)
LEMMA FormatBytesMeetsContract ==
    ASSUME NEW n \in Nat, n < Base^UnitCount
    PROVE  FormatBytes(n) = RefFormatBytes(n)
BY UnitIndexMeetsContract DEF FormatBytes, RefFormatBytes

(* When no host is named like a property of Object.prototype, isBothway  *)
(* finds the reverse link exactly when the snapshot has one, whatever    *)
(* earlier calls left in the shared objects.                             *)
LEMMA EdgeColorMeetsContract ==
    ASSUME ProtoKeys = {}, NEW ls \in Seq(LinkRec), NEW pol, NEW k \in DOMAIN ls
    PROVE  EdgeColor(ls, pol, ls[k]) = RefColor(ls, ls[k])
<1> DEFINE s == ls[k].source
           t == ls[k].target
<1> USE DEF s, t
<1>1. HasEntry(ls, s) /\ HasEdge(ls, pol, s, t)
  BY DEF HasEntry, HasEdge, Sources, Targets
<1>2. HasEntry(ls, t) /\ HasEdge(ls, pol, t, s) <=> <<t, s>> \in LinkPairs(ls)
  BY DEF HasEntry, HasEdge, Sources, Targets, LinkPairs
<1>3. IsBothway(ls, pol, s, t) <=> <<t, s>> \in LinkPairs(ls)
  BY <1>1, <1>2 DEF IsBothway
<1>4. QED
  BY <1>3 DEF EdgeColor, RefColor

(* The byte counts of a snapshot are all below EB's upper end. *)
BytesInRange(data) ==
    /\ \A k \in DOMAIN data.nodes : data.nodes[k].bytes < Base^UnitCount
    /\ \A k \in DOMAIN data.links : data.links[k].bytes < Base^UnitCount

(* getOption builds the option the contract prescribes for every snapshot *)
(* whose hosts are not named like inherited properties and whose byte    *)
(* counts stay below EB's upper end, whatever earlier calls polluted.    *)
LEMMA GetOptionMeetsContract ==
    ASSUME ProtoKeys = {}, NEW data \in Snapshot, BytesInRange(data), NEW p
    PROVE  GetOption(data, p).option = RefOption(data)
<1> DEFINE ns == data.nodes
           ls == data.links
           pol == Polluted(ls, p)
<1> USE DEF ns, ls, pol
<1>1. /\ ns \in Seq(NodeRec) /\ DOMAIN ns = 1..Len(ns)
      /\ ls \in Seq(LinkRec) /\ DOMAIN ls = 1..Len(ls)
  BY DEF Snapshot
<1>1a. (\A k \in DOMAIN ns : ns[k] \in NodeRec) /\ \A k \in DOMAIN ls : ls[k] \in LinkRec
  BY <1>1
<1>2. ASSUME NEW k \in DOMAIN ns
      PROVE  FormatBytes(ns[k].bytes) = RefFormatBytes(ns[k].bytes)
  <2>1. ns[k].bytes \in Nat
    BY <1>1a DEF NodeRec
  <2>2. ns[k].bytes < Base^UnitCount
    BY DEF BytesInRange
  <2>3. QED
    BY <2>1, <2>2, FormatBytesMeetsContract
<1>3. ASSUME NEW k \in DOMAIN ls
      PROVE  FormatBytes(ls[k].bytes) = RefFormatBytes(ls[k].bytes)
  <2>1. ls[k].bytes \in Nat
    BY <1>1a DEF LinkRec
  <2>2. ls[k].bytes < Base^UnitCount
    BY DEF BytesInRange
  <2>3. QED
    BY <2>1, <2>2, FormatBytesMeetsContract
<1>4. \A k \in DOMAIN ls : EdgeColor(ls, pol, ls[k]) = RefColor(ls, ls[k])
  BY <1>1, EdgeColorMeetsContract
<1>5. QED
  BY <1>2, <1>3, <1>4 DEF GetOption, RefOption, NodeNames
=============================================================================
