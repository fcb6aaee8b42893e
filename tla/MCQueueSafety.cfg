CONSTANTS
    Files <- OneFile
    ArticleCount <- ThreeArticles
    Priority <- OnePriority
    Nzbs <- OneNzb
    FilesOf <- OneFilesOf
    Downloaders = {d1, d2}
    Coordinator = coordinator
    Conns = {c1, c2}
    NoConn = NoConn
    NoArticle = NoArticle
    ThreadLimit = 2
    DupeCheck = TRUE
    DiskFails = FALSE
    ContinuePartial = TRUE
    TerminateTimeout = 600

SPECIFICATION Spec
SYMMETRY MCSymmetry

INVARIANTS
    RunningIffDownloaded
    NoDanglingFile
    JoinsAlone
    StopReachesAllDownloads

PROPERTIES
    UsesPoolCorrectly
    LeavesQueueAnnounced
    DownloadersKeepContract
