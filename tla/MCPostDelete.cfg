CONSTANTS
    n1 = n1
    n2 = n2
    a = a
    m = m
    v = v
    w = w
    s1 = s1
    s2 = s2
    NoSet = NoSet
    Collections = {n1, n2}
    Files = {m, v, a}
    NzbOf <- TwoNzbs
    SetOf <- OneSet
    Volumes = {v}
    MaxJobs = 3
    ParThreads = {1}
    ParCheck = TRUE
    ParRepair = TRUE
    PostScript = TRUE
    ParPauseQueue = TRUE
    PostPauseQueue = FALSE
    ParCleanupQueue = TRUE
    LoadPars = "one"
    AllowReProcess = FALSE
    DeleteCleanupDisk = TRUE
    ScriptResults = {"failure", "success"}
    Requests = {"deleteGroup"}

SPECIFICATION Spec

PROPERTIES
    KeepsFilesIfParsAreLeft
