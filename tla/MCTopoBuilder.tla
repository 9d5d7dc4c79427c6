---------------------------- MODULE MCTopoBuilder ----------------------------
(***************************************************************************)
(* Instances of TopoBuilder for TLC.  Base is 4 instead of 1024 so that    *)
(* byte counts reaching every unit, EB and beyond, stay within TLC's       *)
(* integers; the loop of formatBytes does not depend on the value of Base. *)
(***************************************************************************)
EXTENDS TopoBuilder, SequencesExt

(* Host names as the topology service reports them, in string order. *)
MCHosts == {"h1", "h2", "h3"}
MCHostRank == [n \in MCHosts |-> CASE n = "h1" -> 1 [] n = "h2" -> 2 [] n = "h3" -> 3]

(* Byte counts at the unit boundaries: 0, just below and at one KB, just *)
(* below EB's upper end.                                                 *)
MCNodeBytes == {0, Base - 1, Base, Base^2 + Base \div 2, Base^UnitCount - 1}
MCLinkBytes == {Base + Base \div 2}

MCSnapshotsOf(names, maxNodes, maxLinks, nodeBytes, linkBytes) ==
    [nodes : BoundedSeq([name : names, bytes : nodeBytes], maxNodes),
     links : BoundedSeq([source : names, target : names, bytes : linkBytes], maxLinks)]

MCSnapshots == MCSnapshotsOf(MCHosts, 1, 2, MCNodeBytes, MCLinkBytes)

(* A node of EB size times Base: formatBytes leaves the last unit. *)
MCHugeBytes == {Base^UnitCount}
MCHugeNames == {"h1"}
MCHugeRank == [n \in MCHugeNames |-> 1]
MCHugeSnapshots == MCSnapshotsOf(MCHugeNames, 1, 0, MCHugeBytes, MCLinkBytes)

(* A host called "constructor": nm["constructor"] is Object itself.  In *)
(* JS string order "constructor" sorts before "h1".                    *)
MCProtoNames == {"h1", "constructor"}
MCProtoRank == [n \in MCProtoNames |-> IF n = "constructor" THEN 1 ELSE 2]
MCProtoKeys == {"constructor"}
MCProtoProps == [p \in MCProtoKeys |-> {}]
MCNoProtoProps == [p \in {} |-> {}]
MCProtoSnapshots == MCSnapshotsOf(MCProtoNames, 0, 2, {0}, MCLinkBytes)
=============================================================================
