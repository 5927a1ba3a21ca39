CONSTANTS
    Absent = Absent
    MaxBuildRuns = 1
    MaxChanges = 1
    MaxFaults = 0
    MaxLag = 2
SPECIFICATION Safety
INVARIANTS
    ReportedSecretIsMissing
