------------------------------ MODULE AdminForms ------------------------------
(***************************************************************************)
(* The two write forms of the admin tools: the Kafka push form             *)
(* (views/KafkaPush.tsx, AdminApi.KafkaPush) and the machine offline form  *)
(* (views/OfflineMachine.tsx, MonitorApi.OfflineMachine).  Each click      *)
(* sends one POST with the form's values of the moment; nothing stops a    *)
(* second click while the first is in flight.  fetch resolves for any     *)
(* HTTP status, so an error answer of the service in JSON reaches Success; *)
(* Failture sees network errors and answers that are not JSON.  Topics,   *)
(* payloads, clusters and hosts are model values; a topic list is a set   *)
(* (the tag select holds no duplicates) and its comma join is left out.   *)
(* Each message toast is recorded as the request it reports on.           *)
(***************************************************************************)
EXTENDS Integers

CONSTANTS
    Topics,         \* topics the tag select may hold
    DefaultTopics,  \* defaultTopics: ['spot-metrics']
    Payloads,       \* texts the payload area may hold
    DefaultPayload, \* defaultPayload
    EmptyText,      \* the empty text
    Clusters,       \* cluster names the offline form may hold
    Hosts,          \* host IPs the offline form may list
    MaxPosts        \* bound on the POSTs of each form in one run

VARIABLES
    topics,       \* this.state.topics
    payload,      \* this.state.payload
    posts,        \* POSTs of either form in flight
    nPush,        \* pushes sent so far
    nOffline,     \* offline requests sent so far
    succeeded     \* history: the requests a "Success" toast reported on

vars == <<topics, payload, posts, nPush, nOffline, succeeded>>

Push == [form : {"push"}, id : 1..MaxPosts, topics : SUBSET Topics, payload : Payloads,
         served : BOOLEAN, ok : BOOLEAN]
Offline == [form : {"offline"}, id : 1..MaxPosts, cluster : Clusters, hosts : SUBSET Hosts,
            served : BOOLEAN, ok : BOOLEAN]

(* The constructors: the form holds the default topics and payload. *)
Init ==
    /\ topics = DefaultTopics
    /\ payload = DefaultPayload
    /\ posts = {}
    /\ nPush = 0
    /\ nOffline = 0
    /\ succeeded = {}

(* onTopicsChange: the tags the select now holds, possibly none. *)
TopicsChange(T) ==
    /\ topics' = T
    /\ UNCHANGED <<payload, posts, nPush, nOffline, succeeded>>

(* onPlayloadChange: the text the area now holds, possibly empty. *)
PayloadChange(v) ==
    /\ payload' = v
    /\ UNCHANGED <<topics, posts, nPush, nOffline, succeeded>>

(* onPushButtonClick: the button is htmlType="button", so the form's rules *)
(* are not run; the POST carries the state's topics and payload.          *)
PushClick ==
    /\ nPush < MaxPosts
    /\ posts' = posts \cup {[form |-> "push", id |-> nPush + 1, topics |-> topics,
                             payload |-> payload, served |-> FALSE, ok |-> FALSE]}
    /\ nPush' = nPush + 1
    /\ UNCHANGED <<topics, payload, nOffline, succeeded>>

(* onFinish, after antd checked the required cluster and host fields: it  *)
(* returns without a request when the cluster is empty or no host is      *)
(* listed, and otherwise POSTs the cluster and hosts.                     *)
OfflineFinish(c, H) ==
    /\ c # EmptyText
    /\ H # {}
    /\ nOffline < MaxPosts
    /\ posts' = posts \cup {[form |-> "offline", id |-> nOffline + 1, cluster |-> c,
                             hosts |-> H, served |-> FALSE, ok |-> FALSE]}
    /\ nOffline' = nOffline + 1
    /\ UNCHANGED <<topics, payload, nPush, succeeded>>

(* The service handles request p and answers in JSON, accepting it or     *)
(* not (an HTTP error status with an error body).                         *)
Serve(p, ok) ==
    /\ ~p.served
    /\ posts' = (posts \ {p}) \cup {[p EXCEPT !.served = TRUE, !.ok = ok]}
    /\ UNCHANGED <<topics, payload, nPush, nOffline, succeeded>>

(* Success of either form: message.info("Success"), whatever the answer.  *)
Success(p) ==
    /\ p.served
    /\ posts' = posts \ {p}
    /\ succeeded' = succeeded \cup {p}
    /\ UNCHANGED <<topics, payload, nPush, nOffline>>

(* Failture of either form: message.error with the error, before or after *)
(* the service handled the request.                                       *)
Failure(p) ==
    /\ posts' = posts \ {p}
    /\ UNCHANGED <<topics, payload, nPush, nOffline, succeeded>>

Next ==
    \/ \E T \in SUBSET Topics : TopicsChange(T)
    \/ \E v \in Payloads : PayloadChange(v)
    \/ PushClick
    \/ \E c \in Clusters, H \in SUBSET Hosts : OfflineFinish(c, H)
    \/ \E p \in posts, ok \in BOOLEAN : Serve(p, ok)
    \/ \E p \in posts : Success(p)
    \/ \E p \in posts : Failure(p)

Spec == Init /\ [][Next]_vars

-----------------------------------------------------------------------------
TypeOK ==
    /\ topics \subseteq Topics
    /\ payload \in Payloads
    /\ posts \subseteq Push \cup Offline
    /\ nPush \in 0..MaxPosts
    /\ nOffline \in 0..MaxPosts
    /\ succeeded \subseteq Push \cup Offline

(* The push form declares Topics and the JSON payload required (the rules *)
(* of its Form.Items): no push is sent without a topic or with an empty   *)
(* payload.                                                               *)
PushComplete == \A p \in posts : p.form = "push" => p.topics # {} /\ p.payload # EmptyText

(* A "Success" toast of either form reports a request the service         *)
(* accepted.                                                              *)
SuccessMeansAccepted == \A p \in succeeded : p.ok
=============================================================================
