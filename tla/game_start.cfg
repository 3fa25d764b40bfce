SPECIFICATION FairSpec
CONSTANTS
    None = None
    Malformed = Malformed
    Raised = Raised
    BaseJvm <- MCBaseJvm
    NumParts <- MCNumParts
    Suffixed <- MCSuffixed
    MainJars = {"v1"}
    Files <- MCFiles
    Manifest = "manifest"
    Links <- MCLinks
    Dirs <- MCDirs
    DirOf <- MCDirOf
    MaxFaults = 2
    Versions <- MCVersions
    TargetOf <- MCTargetOf
    Trees <- MCTrees
    Manifests <- MCManifests
    Java <- MCJava
    AssetsDir = "assets"
    LogConfigs = "log_configs"
    Accounts = {a1, a2}
    MaxVersions = 3
    SoundTrees = {1,2,3}
INVARIANTS
    TypeOK
    InheritanceComplete
    RulesObeyed
    CommandCarriesAccount
    InstalledIntact
PROPERTIES
    IntactIsKept
    LoadEnds
    Completed
