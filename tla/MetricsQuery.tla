----------------------------- MODULE MetricsQuery -----------------------------
(***************************************************************************)
(* The metric query page (views/MetricsQuery.tsx) with MonitorApi.         *)
(* QueryMetric.  The user picks a time range and runs query texts; each    *)
(* non-empty text sends one GET with the range of the moment, and its     *)
(* answer fills or clears the result table.  Every callback runs to        *)
(* completion on the event loop; the answers of separate queries arrive   *)
(* in any order.  A query text, a time range and a result table are model *)
(* values: the parsing of the InfluxDB-style series into columns and rows *)
(* is a conversion of the answer into the table and is left out.          *)
(***************************************************************************)
EXTENDS Integers

CONSTANTS
    Queries,      \* query texts the user may run
    Ranges,       \* time ranges the user may pick
    Tables,       \* result tables the service may answer with
    NoRows,       \* the empty table: columns [] and values []
    Empty,        \* the empty query text
    MaxQueries    \* bound on the queries sent in one run

VARIABLES
    range,        \* this.start and this.end
    table,        \* this.state.columns and this.state.values
    reqs,         \* queries in flight
    issued,       \* queries sent so far
    shown         \* history: the id of the query whose callback set the table

vars == <<range, table, reqs, issued, shown>>

Query == [id : 1..MaxQueries, query : Queries \ {Empty}, range : Ranges]

(* The constructor: the last hour, an empty table, nothing sent. *)
Init ==
    /\ range \in Ranges
    /\ table = NoRows
    /\ reqs = {}
    /\ issued = 0
    /\ shown = 0

(* onTimeChange: the range later queries are sent with. *)
TimeChange(r) ==
    /\ range' = r
    /\ UNCHANGED <<table, reqs, issued, shown>>

(* onSearch: QueryMetric returns without a request for an empty text;     *)
(* otherwise a GET for the text and the current range is in flight.       *)
Search(v) ==
    /\ v # Empty
    /\ issued < MaxQueries
    /\ reqs' = reqs \cup {[id |-> issued + 1, query |-> v, range |-> range]}
    /\ issued' = issued + 1
    /\ UNCHANGED <<range, table, shown>>

(* Success: an answer without data, results, series or values sets the    *)
(* empty table and returns; any other sets the columns and rows of its    *)
(* first series.  Either way the table is the answer's.                   *)
Success(q, t) ==
    /\ reqs' = reqs \ {q}
    /\ table' = t
    /\ shown' = q.id
    /\ UNCHANGED <<range, issued>>

(* Failture: a network error, an answer that is not JSON, or a TypeError *)
(* thrown inside Success on a series without columns.  The table is       *)
(* cleared.                                                               *)
Failure(q) ==
    /\ reqs' = reqs \ {q}
    /\ table' = NoRows
    /\ shown' = q.id
    /\ UNCHANGED <<range, issued>>

(* The promise of query q settles: one of its two callbacks runs. *)
Settle(q) == (\E t \in Tables : Success(q, t)) \/ Failure(q)

Next ==
    \/ \E r \in Ranges : TimeChange(r)
    \/ \E v \in Queries : Search(v)
    \/ \E q \in reqs, t \in Tables : Success(q, t)
    \/ \E q \in reqs : Failure(q)

(* A fetch eventually resolves or rejects (the browser times a connection *)
(* out) and the event loop then runs its callback; the user owes nothing. *)
Fairness == \A i \in 1..MaxQueries : WF_vars(\E q \in reqs : q.id = i /\ Settle(q))

Spec == Init /\ [][Next]_vars /\ Fairness

-----------------------------------------------------------------------------
TypeOK ==
    /\ range \in Ranges
    /\ table \in Tables
    /\ reqs \subseteq Query
    /\ issued \in 0..MaxQueries
    /\ shown \in 0..MaxQueries

(* Last write wins at the page: once the answers have all come back, the *)
(* table stays the outcome of the last query the user sent (its rows, the *)
(* empty table of an answer without series, or the clearing of its       *)
(* Failture), not of an older query whose answer happened to come later.  *)
LastQueryShown == <>[](reqs = {} => shown = issued)

=============================================================================
