------------------------------- MODULE NodeTopo -------------------------------
(***************************************************************************)
(* The network topology page (views/NodeTopoContent) with its two          *)
(* asynchronous collaborators: AdminApi.Envs, asked once by the            *)
(* constructor for the default cluster name, and MonitorApi.NodeTopo,      *)
(* asked by loadTopo for a cluster and time range.  Each fetch resolves    *)
(* (Success) or rejects (Failture) later, in any order.  Every response    *)
(* callback runs to completion on the event loop, so a callback is one     *)
(* atomic step.  setState outside a React event handler is applied        *)
(* synchronously (legacy React rendering), so loadTopo called right after  *)
(* setState in getDefaultCluster sees the new cluster name.                *)
(***************************************************************************)
EXTENDS TopoGraph

CONSTANTS
    Clusters,     \* cluster names the Envs service or the user may give
    Ranges,       \* time ranges the user may pick
    Snapshots,    \* snapshots the topology service may answer with
    MaxReqs,      \* bound on the topology requests issued in one run
    Empty,        \* the empty string: an empty field, or no data.data
    NoInput       \* typed before the user has typed anything

ASSUME ClustersAssumption == Empty \notin Clusters /\ NoInput \notin Clusters \cup {Empty}
ASSUME NodeTopoSnapshotsAssumption == Snapshots \subseteq Snapshot /\ EmptySnapshot \in Snapshots
ASSUME MaxReqsAssumption == MaxReqs \in Nat \ {0}
ASSUME RangesAssumption == Ranges # {}

VARIABLES
    init,         \* this.init: the Envs request has been answered
    clusterName,  \* this.state.clusterName (Empty when empty)
    range,        \* this.start and this.end
    option,       \* this.state.option, the chart's input
    envsPending,  \* the Envs request of the constructor is in flight
    reqs,         \* the NodeTopo requests in flight
    issued,       \* the number of NodeTopo requests issued so far
    polluted,     \* what getOption calls wrote into shared objects
    shown,        \* history: id of the request whose answer is displayed
    typed         \* history: the value the user last typed, or NoInput

vars == <<init, clusterName, range, option, envsPending, reqs, issued, polluted, shown, typed>>

Request == [id : 1..MaxReqs, cluster : Clusters, range : Ranges]

(* The chart before any answer: an empty graph. *)
Init ==
    /\ init = FALSE
    /\ clusterName = Empty
    /\ range \in Ranges
    /\ option = GetOption(EmptySnapshot, {}).option
    /\ envsPending = TRUE
    /\ reqs = {}
    /\ issued = 0
    /\ polluted = {}
    /\ shown = 0
    /\ typed = NoInput

(* loadTopo for cluster c: api.NodeTopo returns before fetching when c is *)
(* empty; otherwise a request for c and the current range is in flight.  *)
LoadTopo(c) ==
    IF c = Empty
    THEN UNCHANGED <<reqs, issued>>
    ELSE /\ reqs' = reqs \cup {[id |-> issued + 1, cluster |-> c, range |-> range]}
         /\ issued' = issued + 1

(* Seeded bug: loadTopo reads the cluster name before setState is        *)
(* applied, as under batched (React 18) state updates.                   *)
EnvsSuccessStale(c) ==
    /\ envsPending
    /\ issued < MaxReqs
    /\ envsPending' = FALSE
    /\ init' = TRUE
    /\ \/ /\ c = Empty
          /\ UNCHANGED <<clusterName, reqs, issued>>
       \/ /\ c # Empty
          /\ clusterName' = c
          /\ LoadTopo(clusterName)
    /\ UNCHANGED <<range, option, polluted, shown, typed>>

(* getDefaultCluster, Success: data.data is c, or Empty when absent, and the *)
(* callback returns before setState and loadTopo.                         *)
EnvsSuccess(c) ==
    /\ envsPending
    /\ issued < MaxReqs
    /\ envsPending' = FALSE
    /\ init' = TRUE
    /\ \/ /\ c = Empty
          /\ UNCHANGED <<clusterName, reqs, issued>>
       \/ /\ c # Empty
          /\ clusterName' = c
          /\ LoadTopo(c)
    /\ UNCHANGED <<range, option, polluted, shown, typed>>

(* Seeded bug: the Failture callback does not set init. *)
EnvsFailureKeepsLock ==
    /\ envsPending
    /\ envsPending' = FALSE
    /\ UNCHANGED <<init, clusterName, range, option, reqs, issued, polluted, shown, typed>>

(* getDefaultCluster, Failture *)
EnvsFailure ==
    /\ envsPending
    /\ envsPending' = FALSE
    /\ init' = TRUE
    /\ UNCHANGED <<clusterName, range, option, reqs, issued, polluted, shown, typed>>

(* onTimeChange *)
TimeChange(r) ==
    /\ range' = r
    /\ UNCHANGED <<init, clusterName, option, envsPending, reqs, issued, polluted, shown, typed>>

(* Seeded bug: onClusterChange without the !this.init test. *)
ClusterChangeUnguarded(c) ==
    /\ clusterName' = c
    /\ typed' = c
    /\ UNCHANGED <<init, range, option, envsPending, reqs, issued, polluted, shown>>

(* onClusterChange: ignored until the Envs request has been answered. *)
ClusterChange(c) ==
    /\ init
    /\ clusterName' = c
    /\ typed' = c
    /\ UNCHANGED <<init, range, option, envsPending, reqs, issued, polluted, shown>>

(* onSearch *)
Search ==
    /\ issued < MaxReqs
    /\ LoadTopo(clusterName)
    /\ UNCHANGED <<init, clusterName, range, option, envsPending, polluted, shown, typed>>

(* loadTopo, Success: the option of the answer, or of an empty snapshot *)
(* when data.data is absent (s = EmptySnapshot).                         *)
TopoSuccess(q, s) ==
    LET r == GetOption(s, polluted)
    IN  /\ q \in reqs
        /\ reqs' = reqs \ {q}
        /\ option' = r.option
        /\ polluted' = r.polluted
        /\ shown' = q.id
        /\ UNCHANGED <<init, clusterName, range, envsPending, issued, typed>>

(* loadTopo, Failture: only a message; the old chart stays. *)
TopoFailure(q) ==
    /\ q \in reqs
    /\ reqs' = reqs \ {q}
    /\ UNCHANGED <<init, clusterName, range, option, envsPending, issued, polluted, shown, typed>>

EnvsAnswer == EnvsFailure \/ \E c \in Clusters \cup {Empty} : EnvsSuccess(c)

TopoAnswer(q) == TopoFailure(q) \/ \E s \in Snapshots : TopoSuccess(q, s)

Next ==
    \/ EnvsAnswer
    \/ \E r \in Ranges : TimeChange(r)
    \/ \E c \in Clusters \cup {Empty} : ClusterChange(c)
    \/ Search
    \/ \E q \in reqs : TopoAnswer(q)

(* Every fetch eventually settles: the browser resolves or rejects it. *)
Fairness ==
    /\ WF_vars(EnvsAnswer)
    /\ \A i \in 1..MaxReqs : WF_vars(\E q \in reqs : q.id = i /\ TopoAnswer(q))

Spec == Init /\ [][Next]_vars /\ Fairness

-----------------------------------------------------------------------------
TypeOK ==
    /\ init \in BOOLEAN
    /\ clusterName \in Clusters \cup {Empty}
    /\ range \in Ranges
    /\ option \in Option
    /\ envsPending \in BOOLEAN
    /\ reqs \subseteq Request
    /\ issued \in 0..MaxReqs
    /\ polluted \in Pollution
    /\ shown \in 0..MaxReqs
    /\ typed \in Clusters \cup {Empty, NoInput}

(* What the user typed in the cluster field is what the field holds until *)
(* they type again: the default cluster from the Envs answer, which may   *)
(* arrive at any time, never overwrites it (onClusterChange ignores input *)
(* until init).                                                           *)
TypedValueKept == typed # NoInput => clusterName = typed

(* The default cluster is queried without a click on search: whenever the *)
(* field holds a cluster the user did not type, a topology request has     *)
(* been issued (getDefaultCluster calls loadTopo after setState, and       *)
(* loadTopo reads the cluster back from this.state).                       *)
DefaultClusterQueried == (typed = NoInput /\ clusterName # Empty) => issued > 0

(* The two invariants above, strengthened so that every step preserves   *)
(* them: init is set exactly when the Envs request is no longer in flight, *)
(* and the user can only have typed once init is set, so the Envs answer  *)
(* (which needs the request in flight) never finds a typed value.          *)
PageInv ==
    /\ TypeOK
    /\ init = ~envsPending
    /\ typed # NoInput => init
    /\ TypedValueKept
    /\ DefaultClusterQueried


(* Last write wins at the page: the displayed graph is never replaced by  *)
(* the answer to a query older than the one it shows.                     *)
NoStaleOverwrite == [][shown' # shown => shown' > shown]_shown

(* The cluster field seen by the user: its text and whether it takes input *)
(* (this.init).                                                            *)
Field == INSTANCE ClusterField WITH field <- clusterName, editable <- init

(* The page implements the cluster field's promise: the field is empty    *)
(* and ignores input until the Envs request settles, then takes the      *)
(* default cluster once and becomes editable for good, and afterwards     *)
(* changes only by typing, however the Envs answer, searches and topology *)
(* answers interleave; and it does become editable.                       *)
ClusterFieldSpec == Field!Spec

(* The safety part of the same promise, which the proofs establish. *)
ClusterFieldSafe == Field!SafeSpec
=============================================================================
