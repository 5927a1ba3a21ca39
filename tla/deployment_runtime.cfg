CONSTANTS
    EnvData = {d0, d1}
    FirstData = d0
    Absent = Absent
    MaxSpec = 2
    MaxChanges = 2
    MaxFaults = 1
    MaxLag = 3
SPECIFICATION Spec
INVARIANTS
    TypeOK
    KubeHasItsClone
    ReadyWasServed
    RestsConverged
PROPERTIES
    ImplementsVersionEnv
    Converges
