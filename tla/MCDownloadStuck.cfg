CONSTANTS
    Downloaders = {d1, d2}
    MaxLevel = 1
    Connections <- TwoLevels
    NoLevel = NoLevel
    Retries = 1
    RetryOnCrcError = TRUE
    ContinuePartial = TRUE
    DupeCheck = TRUE
    DirectWrite = TRUE
    Watchdog = FALSE
    OnDisk = TRUE
    DiskFails = TRUE

SPECIFICATION FairSpec

PROPERTIES
    CancelledDownloadsEnd
