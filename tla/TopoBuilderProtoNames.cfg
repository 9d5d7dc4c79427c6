\* Successive calls with a host named "constructor".
CONSTANTS
    Names <- MCProtoNames
    Rank <- MCProtoRank
    ProtoKeys <- MCProtoKeys
    ProtoProps <- MCProtoProps
    Base = 4
    UnitCount = 7
    Snapshots <- MCProtoSnapshots
SPECIFICATION Spec
INVARIANT OptionMatchesReference
