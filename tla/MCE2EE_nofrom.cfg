CONSTANTS
    t1 = t1
    m1 = m1
    b1 = b1
    k1 = k1
    k2 = k2
    NoThread = NoThread
    NoKey = NoKey
    Absent = Absent
    NoFrom = NoFrom
    NoDate = NoDate
    NoHeader = NoHeader
    MB = m1
    Threads <- MCThreads
    Addrs <- MCAddrs
    Keys <- MCKeys
    RecipientSets <- MCRecipientSets
    Senders <- MCSendersAny
    MaxTime = 2
SPECIFICATION Spec
INVARIANTS
    EncryptedToAuthenticKey
