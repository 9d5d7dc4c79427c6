\* The topology page with Envs and NodeTopo answers in any order.
CONSTANTS
    Names <- MCHosts
    Rank <- MCHostRank
    ProtoKeys = {}
    ProtoProps <- MCNoProtoProps
    Base = 4
    UnitCount = 7
    Clusters = {"c1", "c2"}
    Ranges = {r1, r2}
    Snapshots <- MCSnapshots
    MaxReqs = 3
    Empty = ""
    NoInput = NoInput
SPECIFICATION Spec
INVARIANTS
    TypeOK
    TypedValueKept
    DefaultClusterQueried
PROPERTY
    ClusterFieldSpec
