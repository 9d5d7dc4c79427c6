----------------------------- MODULE ClusterField -----------------------------
(***************************************************************************)
(* What the topology page promises about its cluster field, as the user    *)
(* sees it: the field starts empty and read-only; exactly once it takes   *)
(* the default cluster (or stays empty when there is none) and becomes     *)
(* editable; from then on only the user's typing changes it.  Searches,   *)
(* answers and range changes are invisible here.                          *)
(***************************************************************************)
CONSTANTS
    Clusters,     \* cluster names
    Empty         \* the empty field

VARIABLES
    field,        \* the text of the cluster field
    editable      \* the field accepts input

fvars == <<field, editable>>

Init ==
    /\ field = Empty
    /\ editable = FALSE

(* The default arrives: c, or Empty when there is none; the field unlocks. *)
Default(c) ==
    /\ ~editable
    /\ editable' = TRUE
    /\ field' = c

(* The user types c into the unlocked field. *)
Type(c) ==
    /\ editable
    /\ field' = c
    /\ UNCHANGED editable

Next == \E c \in Clusters \cup {Empty} : Default(c) \/ Type(c)

SafeSpec == Init /\ [][Next]_fvars

(* The field does not stay locked: the default eventually arrives. *)
Spec == SafeSpec /\ WF_fvars(\E c \in Clusters \cup {Empty} : Default(c))
=============================================================================
