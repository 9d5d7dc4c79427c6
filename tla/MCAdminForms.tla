---------------------------- MODULE MCAdminForms ----------------------------
(***************************************************************************)
(* An instance of AdminForms for TLC: two topics, a default and an empty   *)
(* payload, one cluster and one host, and two POSTs per form.              *)
(***************************************************************************)
EXTENDS AdminForms

MCTopics == {"spot-metrics", "spot-trace"}
MCPayloads == {"json", ""}
MCClusters == {"c1", ""}
=============================================================================
