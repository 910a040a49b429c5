\* Three builds over up to six jobs, two of which may fail anywhere.
CONSTANTS
    Channels <- ChannelsMC
    Builds <- PassBuilds
    InitialArtifact <- Release180
    CacheVersionAmount = 1
    MaxRuns = 6
    MaxCrashes = 2
    NoCv = NoCv
    NoArtifact = NoArtifact
    NoManifest = NoManifest

SPECIFICATION Spec

INVARIANT TypeOK
INVARIANT NoArtifactLost
INVARIANT DeployedManifestResolves
PROPERTY PublishedVersionNeverRegresses

\* CI stops starting jobs after MaxRuns.
CHECK_DEADLOCK FALSE
