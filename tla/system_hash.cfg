CONSTANTS
    EnvData = {d0, d1}
    Empty = d0
    NoHash = NoHash
    Absent = Absent
    MaxVersion = 2
    MaxGeneration = 1
    MaxEdits = 1
    MaxReadinessChanges = 0
    MaxFaults = 0
    MaxLag = 3
SPECIFICATION SystemSafety
INVARIANTS
    HashIsOfLatestEnv
