CONSTANTS
    NoData = NoData
    Trees <- WellFormedAndSent
    Marker <- MCMarker
SPECIFICATION Spec
CHECK_DEADLOCK FALSE
INVARIANTS
    TriesExactlyCandidates
    SentEnvelopeDecrypted
    ArmorScanChecked
