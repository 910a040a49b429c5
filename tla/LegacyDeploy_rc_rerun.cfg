\* A release candidate built twice; a job may fail once and be run again.
CONSTANTS
    Builds <- RebuiltCandidate
    InitialVersion <- Legacy180
    CacheVersionAmount <- KeepAll
    ReleaseCandidate = TRUE
    RcVersion = 1
    MaxRuns = 3
    MaxCrashes = 1
    None = None

SPECIFICATION Spec

INVARIANT RcPublishedAsCandidate

CHECK_DEADLOCK FALSE
