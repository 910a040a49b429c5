\* Two stable releases; a job may fail once and be run again.
CONSTANTS
    Channels <- ChannelsMC
    Builds <- RerunBuilds
    InitialArtifact <- Release180
    CacheVersionAmount <- KeepAll
    MaxRuns = 3
    MaxCrashes = 1
    NoCv = NoCv
    NoArtifact = NoArtifact
    NoManifest = NoManifest

SPECIFICATION Spec

INVARIANT StableUrlIsCurrent

CHECK_DEADLOCK FALSE
