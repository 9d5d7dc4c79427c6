\* Two topology queries in flight answered newest first.
CONSTANTS
    Names <- MCHosts
    Rank <- MCHostRank
    ProtoKeys = {}
    ProtoProps <- MCNoProtoProps
    Base = 4
    UnitCount = 7
    Clusters = {"c1", "c2"}
    Ranges = {r1, r2}
    Snapshots <- MCSnapshots
    MaxReqs = 2
    Empty = ""
    NoInput = NoInput
SPECIFICATION Spec
PROPERTY NoStaleOverwrite
