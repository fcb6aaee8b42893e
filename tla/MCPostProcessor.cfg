CONSTANTS
    n1 = n1
    n2 = n2
    a = a
    m = m
    v = v
    w = w
    s1 = s1
    s2 = s2
    NoSet = NoSet
    Collections = {n1}
    Files = {m, v, w}
    NzbOf <- OneNzb
    SetOf <- TwoSets
    Volumes = {v}
    MaxJobs = 3
    ParThreads = {1}
    ParCheck = TRUE
    ParRepair = TRUE
    PostScript = TRUE
    ParPauseQueue = TRUE
    PostPauseQueue = FALSE
    ParCleanupQueue = TRUE
    LoadPars = "one"
    AllowReProcess = FALSE
    DeleteCleanupDisk = TRUE
    ScriptResults = {"failure", "success"}
    Requests = {"deleteFile", "deleteGroup", "pauseFile", "resumeFile", "pauseDownload",
                "move", "deleteJob", "historyDelete", "historyReturn", "historyProcess"}

SPECIFICATION Spec

INVARIANTS
    TypeOK
    OneJobAtWork
    FilesInOneList
    HistoryIsDone
    PauseIsUndone

PROPERTIES
    ProcessedIsRecorded
    DeletedIsRecorded
    CleansUpOnlyIfGood
