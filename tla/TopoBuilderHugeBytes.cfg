\* A node of Base^7 bytes: formatBytes against the clamp at EB.
CONSTANTS
    Names <- MCHugeNames
    Rank <- MCHugeRank
    ProtoKeys = {}
    ProtoProps <- MCNoProtoProps
    Base = 4
    UnitCount = 7
    Snapshots <- MCHugeSnapshots
SPECIFICATION Spec
INVARIANT OptionMatchesReference
