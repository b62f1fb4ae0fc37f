CONSTANTS
    t1 = t1
    t2 = t2
    t3 = t3
    m1 = m1
    m2 = m2
    b1 = b1
    b2 = b2
    k1 = k1
    k2 = k2
    NoThread = NoThread
    NoKey = NoKey
    Absent = Absent
    Threads <- TwoMailboxThreads
    Mailboxes <- TwoMailboxes
    MailboxOf <- TwoMailboxOf
    Addrs <- MCAddrs
    Keys <- MCKeys
    RecipientSets <- MCRecipientSets
    PeerRows <- MutualPeerRows
SPECIFICATION Spec
INVARIANT
    SingleSelfKey
