CONSTANTS
    Files <- OneFile
    ArticleCount <- TwoArticles
    Priority <- OnePriority
    Nzbs <- OneNzb
    FilesOf <- OneFilesOf
    Downloaders = {d1, d2}
    Coordinator = coordinator
    Conns = {c1}
    NoConn = NoConn
    NoArticle = NoArticle
    ThreadLimit = 2
    DupeCheck = TRUE
    DiskFails = TRUE
    ContinuePartial = FALSE
    TerminateTimeout = 0

SPECIFICATION FairSpec

PROPERTIES
    StopEndsCoordinator
    DeletedFilesLeave
    FilesAreDownloaded
