CONSTANTS
    Absent = Absent
    MaxProjects = 2
    MaxForeign = 1
    MaxDeletes = 1
    MaxFaults = 1
SPECIFICATION Spec
INVARIANTS
    TypeOK
    RestsTruthful
PROPERTIES
    CreatesUnderFinalizer
    SparesLiveProjects
    NamespaceGoesFirst
    DeletedProjectEnds
