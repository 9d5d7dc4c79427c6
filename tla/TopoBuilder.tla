----------------------------- MODULE TopoBuilder -----------------------------
(***************************************************************************)
(* Successive calls of getOption in one page: every topology response the  *)
(* page receives is turned into the option the chart displays.  Calls do   *)
(* not overlap (the builder is synchronous), but they share the JavaScript *)
(* realm, so what one call writes into an inherited object is seen by the *)
(* next (see TopoGraph).                                                   *)
(***************************************************************************)
EXTENDS TopoGraph

CONSTANT Snapshots    \* the snapshots the server may answer with

ASSUME SnapshotsAssumption == Snapshots \subseteq Snapshot /\ EmptySnapshot \in Snapshots

VARIABLES
    snap,       \* the snapshot of the last call
    view,       \* the option that call returned
    polluted    \* the pairs written into shared inherited objects so far

vars == <<snap, view, polluted>>

(* The first render of the page shows the option of an empty snapshot. *)
Init ==
    /\ snap = EmptySnapshot
    /\ view = GetOption(EmptySnapshot, {}).option
    /\ polluted = {}

(* getOption(data) on a snapshot s *)
Build(s) ==
    LET r == GetOption(s, polluted)
    IN  /\ snap' = s
        /\ view' = r.option
        /\ polluted' = r.polluted

Next == \E s \in Snapshots : Build(s)

Spec == Init /\ [][Next]_vars

-----------------------------------------------------------------------------
TypeOK ==
    /\ snap \in Snapshot
    /\ view \in Option
    /\ polluted \in Pollution

(* The option of every call is the one the builder's contract prescribes  *)
(* for that call's snapshot: same nodes, legend and categories in input   *)
(* order, one edge per link in input order, each edge coloured by whether *)
(* the snapshot has the reverse link and by the order of the two names,   *)
(* and every byte label divided down to the last unit and no further.     *)
OptionMatchesReference == view = RefOption(snap)
=============================================================================
