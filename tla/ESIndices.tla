------------------------------ MODULE ESIndices ------------------------------
(***************************************************************************)
(* The Elasticsearch index page (views/ESIndices.tsx) against the index    *)
(* service behind AdminApi.ESIndices and AdminApi.ESDeleteIndices.  The    *)
(* page lists the indices, filters them with the search dropdown, lets the *)
(* user tick rows and deletes the ticked indices with one DELETE of their  *)
(* comma-joined names; a successful delete reloads the list.               *)
(*                                                                         *)
(* Every fetch callback runs to completion on the event loop (one atomic   *)
(* step) and the answers come back in any order.  fetch resolves for any  *)
(* HTTP status, so an error answer of the service reaches Success and only *)
(* a network error reaches Failture.  The service deletes a list of names  *)
(* all or nothing: a name that no longer exists fails the whole request    *)
(* (index_not_found), and ingestion may recreate an index after its       *)
(* delete.  An index is a model value; its columns, the time text and the *)
(* sort and highlight state are display only and left out.                *)
(* While loading is set the table is covered by antd's spinner, which      *)
(* takes no clicks, so rows can be ticked and searched only when it is     *)
(* off; the delete button sits outside the table.                          *)
(***************************************************************************)
EXTENDS Integers, FiniteSets

CONSTANTS
    Keys,         \* index names the service may hold
    Protected,    \* indices with timestamp <= 0: their checkbox is disabled
    MaxSel,       \* the cap of the warning "at most 15 indices at once"
    Filters,      \* search texts the user may type
    Matches,      \* Matches[v]: the indices whose name includes v
    MaxLoads,     \* bound on the list requests issued in one run
    MaxDeletes    \* bound on the delete requests issued in one run

ASSUME KeysAssumption == IsFiniteSet(Keys) /\ Protected \subseteq Keys
ASSUME MaxSelAssumption == MaxSel \in Nat \ {0}
ASSUME MatchesAssumption == Matches \in [Filters -> SUBSET Keys]
ASSUME BoundsAssumption == MaxLoads \in Nat \ {0} /\ MaxDeletes \in Nat

VARIABLES
    exists,       \* the indices the service holds
    data,         \* this.state.data: the rows the table shows
    indices,      \* this.indices: the rows of the last list answer
    loading,      \* this.state.loading
    selected,     \* this.state.selectedRowKeys
    loads,        \* list requests in flight, with the rows once served
    deletes,      \* delete requests in flight
    nLoads,       \* list requests issued so far
    nDeletes,     \* delete requests issued so far
    shownLoad     \* history: the id of the list request the table shows

vars == <<exists, data, indices, loading, selected, loads, deletes, nLoads, nDeletes, shownLoad>>

LoadReq == [id : 1..MaxLoads, served : BOOLEAN, rows : SUBSET Keys]
DeleteReq == [id : 1..MaxDeletes, keys : SUBSET Keys, done : BOOLEAN]

(* A list request for the service, not yet served. *)
NewLoad == [id |-> nLoads + 1, served |-> FALSE, rows |-> {}]

(* The constructor: LoadIndices(true) assigns the fresh state and asks for *)
(* the list.                                                              *)
Init ==
    /\ exists = Keys
    /\ data = {}
    /\ indices = {}
    /\ loading = TRUE
    /\ selected = {}
    /\ loads = {[id |-> 1, served |-> FALSE, rows |-> {}]}
    /\ nLoads = 1
    /\ deletes = {}
    /\ nDeletes = 0
    /\ shownLoad = 0

(* The service reads its indices for list request l. *)
ServeLoad(l) ==
    /\ ~l.served
    /\ loads' = (loads \ {l}) \cup {[l EXCEPT !.served = TRUE, !.rows = exists]}
    /\ UNCHANGED <<exists, data, indices, loading, selected, deletes, nLoads, nDeletes, shownLoad>>

(* LoadIndices, Success: the rows become this.indices and the table. *)
LoadSuccess(l) ==
    /\ l.served
    /\ loads' = loads \ {l}
    /\ indices' = l.rows
    /\ data' = l.rows
    /\ loading' = FALSE
    /\ shownLoad' = l.id
    /\ UNCHANGED <<exists, selected, deletes, nLoads, nDeletes>>

(* LoadIndices, Success with no data.data: the early return; and          *)
(* Failture: only a message.  Either way the request is over and loading  *)
(* stays as it is.                                                        *)
LoadFailure(l) ==
    /\ loads' = loads \ {l}
    /\ UNCHANGED <<exists, data, indices, loading, selected, deletes, nLoads, nDeletes, shownLoad>>

(* handleSearch: the rows of this.indices whose name includes the text. *)
Search(v) ==
    /\ ~loading
    /\ data' = indices \cap Matches[v]
    /\ UNCHANGED <<exists, indices, loading, selected, loads, deletes, nLoads, nDeletes, shownLoad>>

(* The keys the table passes to onChange when row k is ticked or unticked. *)
Toggled(k) == IF k \in selected THEN selected \ {k} ELSE selected \cup {k}

(* Seeded bug: onChange without the statement that throws past the cap. *)
SelectNoThrow(k) ==
    /\ ~loading
    /\ k \in data \ Protected
    /\ selected' = Toggled(k)
    /\ UNCHANGED <<exists, data, indices, loading, loads, deletes, nLoads, nDeletes, shownLoad>>

(* Seeded bug: getCheckboxProps does not disable the rows without time. *)
SelectAnyRow(k) ==
    /\ ~loading
    /\ k \in data
    /\ IF Cardinality(Toggled(k)) > MaxSel
       THEN UNCHANGED selected
       ELSE selected' = Toggled(k)
    /\ UNCHANGED <<exists, data, indices, loading, loads, deletes, nLoads, nDeletes, shownLoad>>

(* rowSelection.onChange on an enabled row.  Past the cap the handler     *)
(* warns and then evaluates selectedRowKeys.list.slice: list is undefined  *)
(* on an array, the TypeError ends the handler before setState, and the   *)
(* controlled table keeps the old selection.                              *)
Select(k) ==
    /\ ~loading
    /\ k \in data \ Protected
    /\ IF Cardinality(Toggled(k)) > MaxSel
       THEN UNCHANGED selected
       ELSE selected' = Toggled(k)
    /\ UNCHANGED <<exists, data, indices, loading, loads, deletes, nLoads, nDeletes, shownLoad>>

(* deleteIndices, from the Popconfirm: returns when nothing is ticked,    *)
(* otherwise sends one DELETE for the ticked names.  Neither the button   *)
(* nor the selection is touched until the answer.                          *)
ConfirmDelete ==
    /\ selected # {}
    /\ nDeletes < MaxDeletes
    /\ deletes' = deletes \cup {[id |-> nDeletes + 1, keys |-> selected, done |-> FALSE]}
    /\ nDeletes' = nDeletes + 1
    /\ UNCHANGED <<exists, data, indices, loading, selected, loads, nLoads, shownLoad>>

(* The service handles delete request d, all or nothing. *)
ServeDelete(d) ==
    /\ ~d.done
    /\ exists' = IF d.keys \subseteq exists THEN exists \ d.keys ELSE exists
    /\ deletes' = (deletes \ {d}) \cup {[d EXCEPT !.done = TRUE]}
    /\ UNCHANGED <<data, indices, loading, selected, loads, nLoads, nDeletes, shownLoad>>

(* deleteIndices, Success (whatever the service answered):               *)
(* LoadIndices(false) resets the page state with setState and asks for    *)
(* the list again.                                                        *)
DeleteSuccess(d) ==
    /\ d.done
    /\ nLoads < MaxLoads
    /\ deletes' = deletes \ {d}
    /\ data' = {}
    /\ loading' = TRUE
    /\ selected' = {}
    /\ loads' = loads \cup {NewLoad}
    /\ nLoads' = nLoads + 1
    /\ UNCHANGED <<exists, indices, nDeletes, shownLoad>>

(* The cluster creates index k: ingestion writing to a time-based index  *)
(* recreates it after a delete.  System indices are never deleted, so     *)
(* only an ordinary index reappears.                                       *)
CreateIndex(k) ==
    /\ k \notin exists
    /\ exists' = exists \cup {k}
    /\ UNCHANGED <<data, indices, loading, selected, loads, deletes, nLoads, nDeletes, shownLoad>>

(* deleteIndices, Failture: a network error, before or after the service  *)
(* handled the request; only a message.                                   *)
DeleteFailure(d) ==
    /\ deletes' = deletes \ {d}
    /\ UNCHANGED <<exists, data, indices, loading, selected, loads, nLoads, nDeletes, shownLoad>>

Next ==
    \/ \E l \in loads : ServeLoad(l)
    \/ \E l \in loads : LoadSuccess(l)
    \/ \E l \in loads : LoadFailure(l)
    \/ \E v \in Filters : Search(v)
    \/ \E k \in Keys : Select(k)
    \/ ConfirmDelete
    \/ \E d \in deletes : ServeDelete(d)
    \/ \E d \in deletes : DeleteSuccess(d)
    \/ \E d \in deletes : DeleteFailure(d)
    \/ \E k \in Keys : CreateIndex(k)

Spec == Init /\ [][Next]_vars

-----------------------------------------------------------------------------
TypeOK ==
    /\ exists \subseteq Keys
    /\ data \subseteq Keys
    /\ indices \subseteq Keys
    /\ loading \in BOOLEAN
    /\ selected \subseteq Keys
    /\ loads \subseteq LoadReq
    /\ deletes \subseteq DeleteReq
    /\ nLoads \in 1..MaxLoads
    /\ nDeletes \in 0..MaxDeletes
    /\ shownLoad \in 0..MaxLoads

(* No DELETE ever names more indices than the warning allows, nor none:   *)
(* the cap is enforced only by the TypeError in onChange, and the empty   *)
(* case by the Popconfirm's disabled flag and deleteIndices' early return. *)
DeleteRequestsCapped ==
    \A d \in deletes : d.keys # {} /\ Cardinality(d.keys) <= MaxSel

(* The indices without a timestamp (system indices) are never deleted,    *)
(* however ticking, searching, reloading and deleting interleave: only     *)
(* getCheckboxProps keeps them out of every DELETE.                        *)
ProtectedKept == Protected \subseteq exists

(* Last write wins at the page: the list is never replaced by the answer  *)
(* to a list request older than the one it shows, so after two deletes   *)
(* in quick succession the table does not go back to an index list from   *)
(* before the second delete.                                              *)
NoStaleList == [][shownLoad' # shownLoad => shownLoad' > shownLoad]_shownLoad

(* The inductive invariant of the proofs of the two invariants above:    *)
(* what is ticked, and so every DELETE in flight, names only enabled rows *)
(* and stays within the cap.                                              *)
ESInv ==
    /\ TypeOK
    /\ selected \cap Protected = {}
    /\ Cardinality(selected) <= MaxSel
    /\ \A d \in deletes : d.keys \cap Protected = {}
    /\ DeleteRequestsCapped
    /\ ProtectedKept
=============================================================================
