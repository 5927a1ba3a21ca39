CONSTANTS
    Absent = Absent
    MaxServices = 2
    MaxChanges = 1
    MaxFaults = 1
    MaxLag = 2
SPECIFICATION Spec
INVARIANTS
    TypeOK
    RestsSettled
PROPERTIES
    DeletedServiceEnds
