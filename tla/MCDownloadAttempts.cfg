CONSTANTS
    Downloaders = {d1, d2}
    MaxLevel = 1
    Connections <- TwoLevels
    NoLevel = NoLevel
    Retries = 2
    RetryOnCrcError = TRUE
    ContinuePartial = TRUE
    DupeCheck = TRUE
    DirectWrite = TRUE
    Watchdog = TRUE
    OnDisk = TRUE
    DiskFails = TRUE

SPECIFICATION Spec

INVARIANTS
    ConnectionOfLevel
    LevelFollowsRetries
    OutputCreatedOnce

PROPERTIES
    GivesUpForAReason
    ImplementsDownloads
