CONSTANTS
    a1 = a1
    a2 = a2
    NULL = NULL
    NoString = NoString
    EmptyRaw = EmptyRaw
    NoComma = NoComma
    Absent = Absent
    Addrs <- MCAddrs
    Words <- MCWords
    MaxVerified = 2
    MaxIds = 3
SPECIFICATION Spec
PROPERTY
    KnownStaysKnown
