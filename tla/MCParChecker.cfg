SPECIFICATION Spec
CONSTANTS
    v1 = v1  v2 = v2  v4 = v4
    Vols <- ThreeVols
    Blocks <- PowersOfTwo
    SameName = {v1}
    SimilarName = {v1, v2}
    SameParCollection = {v1, v2, v4}
    StrictParName = FALSE
    Missing = {3, 6}
INVARIANTS WaitsForSomething ArrivedParsAreUsed StopEndsCheck
PROPERTIES RequestIsRight ChecksEnd
CHECK_DEADLOCK FALSE
