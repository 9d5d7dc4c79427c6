CONSTANTS
    Topics <- MCTopics
    DefaultTopics = {"spot-metrics"}
    Payloads <- MCPayloads
    DefaultPayload = "json"
    EmptyText = ""
    Clusters <- MCClusters
    Hosts = {"10.0.0.1"}
    MaxPosts = 2
SPECIFICATION Spec
CHECK_DEADLOCK FALSE
INVARIANT PushComplete
