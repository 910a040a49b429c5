\* Release 1.10.0 after 1.9.0, with no job failing.
CONSTANTS
    Channels <- ChannelsMC
    Builds <- MinorTenBuilds
    InitialArtifact <- Release190
    CacheVersionAmount <- KeepAll
    MaxRuns = 1
    MaxCrashes = 0
    NoCv = NoCv
    NoArtifact = NoArtifact
    NoManifest = NoManifest

SPECIFICATION Spec

INVARIANT CurrentVersionIsHighest

CHECK_DEADLOCK FALSE
