CONSTANTS
    Absent = Absent
    MaxServices = 2
    MaxChanges = 0
    MaxFaults = 0
    MaxLag = 1
SPECIFICATION Spec
INVARIANTS
    LatestIsItsOwn
