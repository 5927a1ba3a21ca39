CONSTANTS
    Chars = {"s", "1", "-"}
    Dash = "-"
    MaxLength = 7
    LongestName = 6
    HashLength = 1
    Hash <- OneDigit
    ServicePrefix <- Service
    BuildRunPrefix <- BuildRun
    EnvSuffix <- Env
    VersionSuffix <- Suffix
    Versions = {1}
    Labels = {"kudeploy.com/service", "kudeploy.com/deployment", "team"}
    isManagedLabel <- NotOfTheTeam
    LabelValues = {1, 2}
    SortedKeys <- SomeKeys
    Nul = 0
    Bytes = {0, 1}
    LongestValue = 2
    PortNumbers = {1, 2}
    MostPorts = 2
SPECIFICATION Spec
INVARIANTS
    NamesAreWellFormed
    ChildrenHaveOneParent
    MetadataIsMerged
    EditsChangeTheHash
    PortsMeet
