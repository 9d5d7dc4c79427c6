----------------------------- MODULE ProxyAdmin -----------------------------
(***************************************************************************)
(* The proxy route admin page of openapi-ng (routes/dynamic/static/        *)
(* proxy.js) against the ../apis service.  On load the page asks for the   *)
(* route list; the form PUTs a route, each row's Delete button DELETEs     *)
(* one; every write answer shows "OK" or the error text, and a successful *)
(* write asks for the list again.  jQuery runs each callback to           *)
(* completion, and the answers of separate requests arrive in any order.  *)
(* A route is a model value standing for its (method, path) pair, and a  *)
(* service one for its (name, url) pair; the rendering of a row and the   *)
(* form fields a click on a picker entry fills are left out.              *)
(***************************************************************************)
EXTENDS Integers, FiniteSets

CONSTANTS
    Routes,       \* the routes the form may submit
    InitRoutes,   \* the routes the service holds when the page opens
    Services,     \* the services ../services may list
    MaxLists,     \* bound on the list requests issued in one run
    MaxWrites     \* bound on the PUT and DELETE requests issued in one run

ASSUME ProxyAssumption ==
    /\ InitRoutes \subseteq Routes
    /\ MaxLists \in Nat \ {0}
    /\ MaxWrites \in Nat

Put == "PUT"
Delete == "DELETE"

VARIABLES
    picker,           \* the entries of #service-list
    servicesPending,  \* the ../services request of the ready handler is in flight
    routes,       \* the routes the service holds
    table,        \* the rows of #proxy-list
    okBox,        \* #msg-box shows "OK"
    errBox,       \* #error-msg-box shows an error
    lists,        \* list requests in flight, with the rows once served
    writes,       \* PUT and DELETE requests in flight
    nLists,       \* list requests issued so far
    nWrites,      \* write requests issued so far
    shownList     \* history: the id of the list request the table shows

vars == <<picker, servicesPending, routes, table, okBox, errBox, lists, writes, nLists, nWrites, shownList>>

ListReq == [id : 1..MaxLists, served : BOOLEAN, rows : SUBSET Routes]
WriteReq == [id : 1..MaxWrites, kind : {Put, Delete}, route : Routes,
             served : BOOLEAN, ok : BOOLEAN]

(* loadProxies: a list request, not yet served. *)
NewList == [id |-> nLists + 1, served |-> FALSE, rows |-> {}]

(* The ready handler: loadServices and loadProxies, with an empty picker, *)
(* an empty table and no message.                                         *)
Init ==
    /\ picker = {}
    /\ servicesPending = TRUE
    /\ routes = InitRoutes
    /\ table = {}
    /\ okBox = FALSE
    /\ errBox = FALSE
    /\ lists = {[id |-> 1, served |-> FALSE, rows |-> {}]}
    /\ nLists = 1
    /\ writes = {}
    /\ nWrites = 0
    /\ shownList = 0

(* loadServices' callback: an answer with !resp.success or no data       *)
(* returns early and a failed getJSON has no error callback, so the       *)
(* picker gains the listed services S, none in those cases.  The entries  *)
(* are appended to what the picker holds.                                 *)
ServicesAnswer(S) ==
    /\ servicesPending
    /\ servicesPending' = FALSE
    /\ picker' = picker \cup S
    /\ UNCHANGED <<routes, table, okBox, errBox, lists, writes, nLists, nWrites, shownList>>

(* The service reads its routes for list request l. *)
ServeList(l) ==
    /\ ~l.served
    /\ lists' = (lists \ {l}) \cup {[l EXCEPT !.served = TRUE, !.rows = routes]}
    /\ UNCHANGED <<picker, servicesPending, routes, table, okBox, errBox, writes, nLists, nWrites, shownList>>

(* Seeded bug: the routes of the answer are appended to #service-list,  *)
(* the copy-paste slip between loadServices and loadProxies.              *)
ListAnswerIntoPicker(l) ==
    /\ l.served
    /\ lists' = lists \ {l}
    /\ picker' = picker \cup l.rows
    /\ shownList' = l.id
    /\ UNCHANGED <<servicesPending, routes, table, okBox, errBox, writes, nLists, nWrites>>

(* loadProxies' callback on a successful answer: the table body is        *)
(* emptied and one row appended per route, in the same callback.          *)
ListAnswer(l) ==
    /\ l.served
    /\ lists' = lists \ {l}
    /\ table' = l.rows
    /\ shownList' = l.id
    /\ UNCHANGED <<picker, servicesPending, routes, okBox, errBox, writes, nLists, nWrites>>

(* An answer with !resp.success or no data returns early; a failed        *)
(* getJSON has no error callback.  Either way the table stays.            *)
ListFailed(l) ==
    /\ lists' = lists \ {l}
    /\ UNCHANGED <<picker, servicesPending, routes, table, okBox, errBox, writes, nLists, nWrites, shownList>>

(* #submit: PUT of the route the form holds. *)
Submit(r) ==
    /\ nWrites < MaxWrites
    /\ writes' = writes \cup {[id |-> nWrites + 1, kind |-> Put, route |-> r,
                               served |-> FALSE, ok |-> FALSE]}
    /\ nWrites' = nWrites + 1
    /\ UNCHANGED <<picker, servicesPending, routes, table, okBox, errBox, lists, nLists, shownList>>

(* A row's Delete button, confirmed: deleteProxy of that row's route. *)
DeleteClick(r) ==
    /\ r \in table
    /\ nWrites < MaxWrites
    /\ writes' = writes \cup {[id |-> nWrites + 1, kind |-> Delete, route |-> r,
                               served |-> FALSE, ok |-> FALSE]}
    /\ nWrites' = nWrites + 1
    /\ UNCHANGED <<picker, servicesPending, routes, table, okBox, errBox, lists, nLists, shownList>>

(* The service handles write w: a PUT stores the route, a DELETE removes  *)
(* a route it holds; a DELETE of a route it does not hold is an error,    *)
(* and any write may be refused.                                          *)
ServeWrite(w, ok) ==
    /\ ~w.served
    /\ ok => w.kind = Put \/ w.route \in routes
    /\ routes' = IF ~ok THEN routes
                 ELSE IF w.kind = Put THEN routes \cup {w.route}
                 ELSE routes \ {w.route}
    /\ writes' = (writes \ {w}) \cup {[w EXCEPT !.served = TRUE, !.ok = ok]}
    /\ UNCHANGED <<picker, servicesPending, table, okBox, errBox, lists, nLists, nWrites, shownList>>

(* success of the PUT or the DELETE: "OK", the error box hidden, and      *)
(* loadProxies again.                                                     *)
WriteSuccess(w) ==
    /\ w.served /\ w.ok
    /\ nLists < MaxLists
    /\ writes' = writes \ {w}
    /\ okBox' = TRUE
    /\ errBox' = FALSE
    /\ lists' = lists \cup {NewList}
    /\ nLists' = nLists + 1
    /\ UNCHANGED <<picker, servicesPending, routes, table, nWrites, shownList>>

(* error of the PUT or the DELETE: the service refused it, or the         *)
(* connection failed before or after the service handled it.  "OK" is     *)
(* hidden and the error text shown.                                       *)
WriteError(w) ==
    /\ writes' = writes \ {w}
    /\ okBox' = FALSE
    /\ errBox' = TRUE
    /\ UNCHANGED <<picker, servicesPending, routes, table, lists, nLists, nWrites, shownList>>

Next ==
    \/ \E S \in SUBSET Services : ServicesAnswer(S)
    \/ \E l \in lists : ServeList(l)
    \/ \E l \in lists : ListAnswer(l)
    \/ \E l \in lists : ListFailed(l)
    \/ \E r \in Routes : Submit(r)
    \/ \E r \in Routes : DeleteClick(r)
    \/ \E w \in writes, ok \in BOOLEAN : ServeWrite(w, ok)
    \/ \E w \in writes : WriteSuccess(w)
    \/ \E w \in writes : WriteError(w)

Spec == Init /\ [][Next]_vars

-----------------------------------------------------------------------------
(* Every value the page holds is of its kind: the service picker holds    *)
(* only service names (never a route of the proxy table), the tables only *)
(* routes, and the request counters stay within their bounds.             *)
TypeOK ==
    /\ picker \subseteq Services
    /\ servicesPending \in BOOLEAN
    /\ routes \subseteq Routes
    /\ table \subseteq Routes
    /\ okBox \in BOOLEAN
    /\ errBox \in BOOLEAN
    /\ lists \subseteq ListReq
    /\ writes \subseteq WriteReq
    /\ nLists \in 1..MaxLists
    /\ nWrites \in 0..MaxWrites
    /\ shownList \in 0..MaxLists

(* Last write wins at the page: the route table is never replaced by the  *)
(* answer to a list request older than the one it shows.                  *)
NoStaleProxyList == [][shownList' # shownList => shownList' > shownList]_shownList
=============================================================================
