--------------------------- MODULE MCMetricsQuery ---------------------------
(***************************************************************************)
(* An instance of MetricsQuery for TLC: one real query text besides the    *)
(* empty one, two time ranges, two non-empty result tables besides the     *)
(* empty one, and up to three queries so that answers can cross.           *)
(***************************************************************************)
EXTENDS MetricsQuery

MCQueries == {"", "q1"}
MCTables == {"none", "t1", "t2"}
=============================================================================
