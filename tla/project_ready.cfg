CONSTANTS
    Absent = Absent
    MaxProjects = 1
    MaxForeign = 0
    MaxDeletes = 1
    MaxFaults = 0
SPECIFICATION Spec
INVARIANTS
    ReadyProjectHasNamespace
