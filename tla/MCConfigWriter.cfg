SPECIFICATION Spec
CONSTANTS
    Up = Up
    MustBeDir = MustBeDir
    Nowhere = Nowhere
    Blank = Blank
    MaxHops = 3
    KernelHops = 2
    MaxSteps = 24
    MaxRetargets = 2
    ExtraRepos = "EXTRA_REPOS"
    TaintedRepos = "TAINTED_REPOS"
    TaintedRefs = "TAINTED_REFS"
    DataDir = "DATA_DIR"
    ConfigFile = "CONFIG_FILE"
    Home <- MCHome
    DefaultConfig <- MCDefaultConfig
    DefaultDataDir <- MCDefaultDataDir
    DefaultRepos <- MCDefaultRepos
    DotenvPath <- MCDotenvPath
    ConfigPaths <- MCConfigPaths
    DataDirs <- MCDataDirs
    Writer <- MCWriter
    Scenarios <- MCScenarios
INVARIANTS
    LookupIsTheKernels
    ResetSparesConfig
    ProvenanceIsTrue
    ExclusionLossIsSaid
    EditTakesEffect
PROPERTY
    NeverTorn
CHECK_DEADLOCK FALSE
