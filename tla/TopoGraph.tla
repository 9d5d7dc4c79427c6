------------------------------ MODULE TopoGraph ------------------------------
(***************************************************************************)
(* The view-model builder of the network topology page                     *)
(* (views/NodeTopo.tsx): formatBytes, isBothway and getOption, as pure     *)
(* operators.  Node and link metrics are abstracted to their byte count,   *)
(* the only field that reaches the graph structure and its labels; the     *)
(* echarts styling constants and the HTML of the tooltip are left out.     *)
(*                                                                         *)
(* The adjacency index nm of getOption is a plain JavaScript object.  A    *)
(* lookup nm[x] on a plain object also finds the properties it inherits    *)
(* from Object.prototype ("constructor", "toString", ...), and when the    *)
(* link loop finds such an inherited value it writes its targets into that *)
(* shared object, which outlives the call.  The model keeps both effects:  *)
(* ProtoKeys are the names a plain object inherits, ProtoProps[p] the      *)
(* names the inherited value nm[p] itself answers truthily, and polluted   *)
(* the <<p, t>> pairs earlier calls have written into those values.        *)
(***************************************************************************)
EXTENDS Integers, Sequences, FiniteSets

CONSTANTS
    Names,        \* node names that occur in snapshots
    Rank,         \* Rank[n]: position of n in JavaScript string order
    ProtoKeys,    \* the names a plain {} inherits from Object.prototype
    ProtoProps,   \* ProtoProps[p]: names nm[p] has when p is inherited
    Base,         \* the divisor of formatBytes (1024 in the code)
    UnitCount     \* Len(units) = Len(<<B, KB, MB, GB, TB, PB, EB>>) = 7

ASSUME RankAssumption == Rank \in [Names -> Nat]
ASSUME ProtoAssumption == ProtoKeys \subseteq Names /\ ProtoProps \in [ProtoKeys -> SUBSET Names]
ASSUME BaseAssumption == Base \in Nat /\ Base > 1
ASSUME UnitCountAssumption == UnitCount \in Nat \ {0}
(* An arithmetic fact the provers do not know: the divisors of formatBytes *)
(* are positive.                                                           *)
ASSUME PowerAssumption == \A i \in 0..UnitCount : Base^i \in Nat \ {0}
(* Another: the divisors grow with the unit index.                         *)
ASSUME PowerMonotone == \A i, j \in 0..UnitCount : i <= j => Base^i <= Base^j

(* The three colours of isBothway's classification. *)
OneWay == "#555"
TwoWayDown == "#999"
TwoWayUp == "#777"
Colors == {OneWay, TwoWayDown, TwoWayUp}

(* A byte count as formatBytes prints it: the hundredths of the truncated *)
(* quotient and the index into units; index UnitCount prints undefined.    *)
Label == [hundredths : Nat, unit : 0..UnitCount]

NodeRec == [name : Names, bytes : Nat]
LinkRec == [source : Names, target : Names, bytes : Nat]
Snapshot == [nodes : Seq(NodeRec), links : Seq(LinkRec)]

(* The snapshot getOption receives for a response without data. *)
EmptySnapshot == [nodes |-> <<>>, links |-> <<>>]

(***************************************************************************)
(* formatBytes: the loop runs while i < units.length and increments i and *)
(* divides n by 1024 as long as n >= 1024.  Since n / Base^i >= Base iff   *)
(* n >= Base^(i+1), and Base^j grows with j, the loop exits with i equal   *)
(* to the number of j in 1..units.length with Base^j <= n.  The result is  *)
(* floor(n * 100) / 100 of the quotient, i.e. floor(100 n / Base^i)        *)
(* hundredths, and units[i].                                               *)
(***************************************************************************)
(* Seeded bug: the loop test n > 1024 instead of n >= 1024. *)
UnitIndexStrict(n) == Cardinality({j \in 1..UnitCount : Base^j < n})

UnitIndex(n) == Cardinality({j \in 1..UnitCount : Base^j <= n})

FormatBytes(n) ==
    LET i == UnitIndex(n)
    IN  [hundredths |-> (100 * n) \div (Base^i), unit |-> i]

(***************************************************************************)
(* The adjacency index after the link loop of getOption.  sm = nm[source]  *)
(* is truthy and kept when source is in ProtoKeys; otherwise it is the own *)
(* map created for it.  sm[target] is then set to true unless it is        *)
(* already truthy; for an inherited sm that write lands in the shared      *)
(* object and is added to polluted.                                        *)
(***************************************************************************)
Sources(ls) == {ls[k].source : k \in DOMAIN ls}
Targets(ls, s) == {ls[k].target : k \in {k \in DOMAIN ls : ls[k].source = s}}

Polluted(ls, polluted) ==
    polluted \cup {<<ls[k].source, ls[k].target>> :
                     k \in {k \in DOMAIN ls : /\ ls[k].source \in ProtoKeys
                                              /\ ls[k].target \notin ProtoProps[ls[k].source]}}

(* nm[n] is truthy *)
HasEntry(ls, n) == n \in Sources(ls) \cup ProtoKeys

(* nm[n1][n2] is truthy, after the loop has written pol *)
HasEdge(ls, pol, n1, n2) ==
    IF n1 \in ProtoKeys
    THEN n2 \in ProtoProps[n1] \/ <<n1, n2>> \in pol
    ELSE n2 \in Targets(ls, n1) \cup ProtoKeys

(* isBothway(nm, n1, n2): the four early returns in order *)
IsBothway(ls, pol, n1, n2) ==
    /\ HasEntry(ls, n1)
    /\ HasEdge(ls, pol, n1, n2)
    /\ HasEntry(ls, n2)
    /\ HasEdge(ls, pol, n2, n1)

(* Seeded bug: color declared without its '#555' default. *)
EdgeColorNoDefault(ls, pol, l) ==
    IF IsBothway(ls, pol, l.source, l.target)
    THEN IF Rank[l.source] > Rank[l.target] THEN TwoWayDown ELSE TwoWayUp
    ELSE ""

(* The colour of the edge of link l: the edge loop of getOption. *)
EdgeColor(ls, pol, l) ==
    IF IsBothway(ls, pol, l.source, l.target)
    THEN IF Rank[l.source] > Rank[l.target] THEN TwoWayDown ELSE TwoWayUp
    ELSE OneWay

(* The names array of getOption, which is both legend.data and, one      *)
(* {name} per node, the categories.                                       *)
NodeNames(ns) == [k \in DOMAIN ns |-> ns[k].name]

(***************************************************************************)
(* getOption(data) called while the shared objects hold polluted: the      *)
(* node loop, the index loop, the edge loop and the formatters of the      *)
(* returned option (node label: name and formatBytes(value); edge label:   *)
(* formatBytes(metrics.bytes)).  The result is the option together with    *)
(* the pollution the call leaves behind.                                   *)
(***************************************************************************)
GetOption(data, polluted) ==
    LET ns  == data.nodes
        ls  == data.links
        pol == Polluted(ls, polluted)
    IN  [option |->
            [categories |-> NodeNames(ns),
             legend     |-> NodeNames(ns),
             nodes      |-> [k \in DOMAIN ns |->
                               [name  |-> ns[k].name,
                                value |-> ns[k].bytes,
                                label |-> FormatBytes(ns[k].bytes)]],
             edges      |-> [k \in DOMAIN ls |->
                               [source |-> ls[k].source,
                                target |-> ls[k].target,
                                color  |-> EdgeColor(ls, pol, ls[k]),
                                label  |-> FormatBytes(ls[k].bytes)]]],
         polluted |-> pol]

RenderNode == [name : Names, value : Nat, label : Label]
RenderEdge == [source : Names, target : Names, color : Colors, label : Label]
Option == [categories : Seq(Names), legend : Seq(Names),
           nodes : Seq(RenderNode), edges : Seq(RenderEdge)]
Pollution == SUBSET (ProtoKeys \X Names)

-----------------------------------------------------------------------------
(***************************************************************************)
(* Reference definitions, from the contract of the builder: formatBytes    *)
(* divides while the value is >= 1024 and stops unconditionally at the     *)
(* last unit (EB); an edge is two-way iff the snapshot has links in both   *)
(* directions, coloured #999 when source > target and #777 otherwise.      *)
(***************************************************************************)
RefUnitIndex(n) ==
    CHOOSE i \in 0..UnitCount - 1 :
        /\ i = 0 \/ Base^i <= n
        /\ i = UnitCount - 1 \/ n < Base^(i + 1)

RefFormatBytes(n) ==
    [hundredths |-> (100 * n) \div (Base^RefUnitIndex(n)), unit |-> RefUnitIndex(n)]

LinkPairs(ls) == {<<ls[k].source, ls[k].target>> : k \in DOMAIN ls}

RefColor(ls, l) ==
    IF <<l.target, l.source>> \in LinkPairs(ls)
    THEN IF Rank[l.source] > Rank[l.target] THEN TwoWayDown ELSE TwoWayUp
    ELSE OneWay

(* The option the contract prescribes for a snapshot. *)
RefOption(data) ==
    LET ns == data.nodes
        ls == data.links
    IN  [categories |-> [k \in DOMAIN ns |-> ns[k].name],
         legend     |-> [k \in DOMAIN ns |-> ns[k].name],
         nodes      |-> [k \in DOMAIN ns |->
                           [name |-> ns[k].name, value |-> ns[k].bytes,
                            label |-> RefFormatBytes(ns[k].bytes)]],
         edges      |-> [k \in DOMAIN ls |->
                           [source |-> ls[k].source, target |-> ls[k].target,
                            color |-> RefColor(ls, ls[k]),
                            label |-> RefFormatBytes(ls[k].bytes)]]]
=============================================================================
