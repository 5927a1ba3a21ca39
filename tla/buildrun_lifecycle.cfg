CONSTANTS
    Absent = Absent
    MaxBuildRuns = 2
    MaxChanges = 1
    MaxFaults = 1
    MaxLag = 2
SPECIFICATION Spec
INVARIANTS
    TypeOK
    BuildsOnce
    BuildHasItsAccount
    RestsTruthful
PROPERTIES
    LeavesNothing
    ResultStays
    DeletedBuildRunEnds
