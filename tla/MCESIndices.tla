---------------------------- MODULE MCESIndices ----------------------------
(***************************************************************************)
(* An instance of ESIndices for TLC: three deletable indices and one       *)
(* system index, a cap of two instead of fifteen so that a third tick      *)
(* crosses it, and two search texts.                                       *)
(***************************************************************************)
EXTENDS ESIndices

MCKeys == {"k1", "k2", "k3", "sys"}
MCProtected == {"sys"}
MCFilters == {"k", "sys"}
MCMatches == [v \in MCFilters |-> IF v = "k" THEN {"k1", "k2", "k3"} ELSE {"sys"}]
=============================================================================
