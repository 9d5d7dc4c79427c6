\* Every getOption call on host-named snapshots matches the contract.
CONSTANTS
    Names <- MCHosts
    Rank <- MCHostRank
    ProtoKeys = {}
    ProtoProps <- MCNoProtoProps
    Base = 4
    UnitCount = 7
    Snapshots <- MCSnapshots
SPECIFICATION Spec
INVARIANTS
    TypeOK
    OptionMatchesReference
