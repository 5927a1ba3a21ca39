CONSTANTS
    EnvData = {d0, d1}
    Empty = d0
    NoHash = NoHash
    Absent = Absent
    MaxVersion = 2
    MaxGeneration = 2
    MaxEdits = 1
    MaxReadinessChanges = 1
    MaxFaults = 1
    MaxLag = 2
SPECIFICATION Spec
INVARIANTS
    TypeOK
    VersionsInOrder
    TrafficOnlyToProven
    RestsConverged
PROPERTIES
    ImplementsRollout
    Converges
