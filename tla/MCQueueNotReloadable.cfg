SPECIFICATION Spec
CONSTANTS
    n1 = n1  n2 = n2  u = u  a = a  b = b  c = c  NoUrl = NoUrl
    Collections = {n1, n2}
    Urls = {u}
    FilesOf <- TwoFiles
    UrlOf <- FromUrl
    MaxId = 4
    MaxCrashes = 0
    ReloadOptions <- OnlyEverything
INVARIANTS
    SavedQueueCanBeReloaded
