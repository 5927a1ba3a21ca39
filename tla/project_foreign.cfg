CONSTANTS
    Absent = Absent
    MaxProjects = 1
    MaxForeign = 1
    MaxDeletes = 1
    MaxFaults = 0
SPECIFICATION Spec
PROPERTIES
    UnmanagedNamespaceIsSpared
