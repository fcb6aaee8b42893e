CONSTANTS
    Downloaders = {d1, d2}
    MaxLevel = 1
    Connections <- OneEach
    NoLevel = NoLevel
    Retries = 1
    RetryOnCrcError = TRUE
    ContinuePartial = FALSE
    DupeCheck = TRUE
    DirectWrite = TRUE
    Watchdog = FALSE
    OnDisk = FALSE
    DiskFails = FALSE

SPECIFICATION FairSpec

INVARIANTS
    OutputMutexIsOwned

PROPERTIES
    CancelledDownloadsEnd
    DownloadsEnd
