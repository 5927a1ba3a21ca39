CONSTANTS
    EnvData = {d0}
    Empty = d0
    NoHash = NoHash
    Absent = Absent
    MaxVersion = 3
    MaxGeneration = 3
    MaxEdits = 2
    MaxReadinessChanges = 2
    MaxFaults = 0
    MaxLag = 3
SPECIFICATION Safety
INVARIANTS
    ActiveVersionReceivesTraffic
