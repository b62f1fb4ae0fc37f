CONSTANTS
    a1 = a1
    a2 = a2
    k1 = k1
    k2 = k2
    NoFrom = NoFrom
    NoDate = NoDate
    NoHeader = NoHeader
    Absent = Absent
    Addrs <- MCAddrs
    Keys <- MCKeys
    Senders <- SendersWithFrom
    MaxTime = 3
SPECIFICATION Spec
INVARIANTS
    TypeOK
    LatestHeaderWins
    PeerstateNotInFuture
PROPERTIES
    PeerstateRefined
