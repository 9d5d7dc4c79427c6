----------------------------- MODULE MCNodeTopo -----------------------------
(***************************************************************************)
(* Instances of NodeTopo for TLC: two hosts and the three snapshots that   *)
(* tell the edge colours apart (none, one-way, two-way).                   *)
(***************************************************************************)
EXTENDS NodeTopo

MCHosts == {"h1", "h2"}
MCHostRank == [n \in MCHosts |-> IF n = "h1" THEN 1 ELSE 2]
MCNoProtoProps == [p \in {} |-> {}]

MCLink(a, b) == [source |-> a, target |-> b, bytes |-> Base]
MCNode(a) == [name |-> a, bytes |-> Base * Base]

MCSnapshots ==
    { EmptySnapshot,
      [nodes |-> <<MCNode("h1"), MCNode("h2")>>, links |-> <<MCLink("h1", "h2")>>],
      [nodes |-> <<MCNode("h1"), MCNode("h2")>>,
       links |-> <<MCLink("h1", "h2"), MCLink("h2", "h1")>>] }
=============================================================================
