CONSTANTS
    NoData = NoData
    Marker <- MCMarker
    Trees <- WellFormedTrees
SPECIFICATION Spec
CHECK_DEADLOCK FALSE
INVARIANTS
    DecryptedInPlace
