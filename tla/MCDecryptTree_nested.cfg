CONSTANTS
    NoData = NoData
    Marker <- MCMarker
    Trees <- NestedTrees
SPECIFICATION Spec
CHECK_DEADLOCK FALSE
INVARIANTS
    OnlyLeavesRead
