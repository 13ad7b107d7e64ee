CONSTANTS
    j1 = j1
    j2 = j2
    e1 = e1
    e2 = e2
    b1 = b1
    b2 = b2
    i1 = i1
    i2 = i2
    NoOne = NoOne
    Job <- TwoJobs
    Engineer <- Engineers
    Bid <- Bids
    Invitation <- Invitations
    MaxPending = 1
    Tolerated = {}
SPECIFICATION FairSpec
INVARIANTS
    OneAcceptedBid
    OneHire
    PayeeIsHired
    AwaitingCanPay
    TalkWithHired
SYMMETRY Symmetry
CHECK_DEADLOCK FALSE
