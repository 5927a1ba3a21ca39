CONSTANTS
    EnvData = {d0, d1}
    Empty = d0
    NoHash = NoHash
    Absent = Absent
    MaxVersion = 3
    MaxGeneration = 2
    MaxEdits = 1
    MaxReadinessChanges = 1
    MaxFaults = 1
    MaxLag = 3
SPECIFICATION SystemSafety
INVARIANTS
    VersionsHaveCauses
    TrafficHasItsEnv
    CalmEditsAreReleased
PROPERTIES
    StatusNeverGoesBack
