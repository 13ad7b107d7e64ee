CONSTANTS
    c1 = c1
    c2 = c2
    s1 = s1
    s2 = s2
    r1 = r1
    r2 = r2
    r3 = r3
    m1 = m1
    m2 = m2
    a1 = a1
    a2 = a2
    k1 = k1
    k2 = k2
    x1 = x1
    p1 = p1
    p2 = p2
    l1 = l1
    l2 = l2
    l3 = l3
    t1 = t1
    t2 = t2
    o1 = o1
    h1 = h1
    h2 = h2
    w1 = w1
    w2 = w2
    NoRow = NoRow
    Clerk <- Clerks
    Submission <- SubmissionRows
    Reference <- References
    Written = {"IN_PROGRESS"}
    MaxReceipts = 2
    Method <- Methods
    Account <- Accounts
    Older = a1
    Fresh = a2
    MaxEdits = 1
    Conversation <- Conversations
    Message <- Messages
    Nowhere = Nowhere
    MaxJoins = 2
    MaxFrames = 2
    MaxStrokes = 2
    Player <- Players
    Preview = Preview
    MaxMounts = 3
    Line <- Lines
    Settler <- Settlers
    MaxFreeze = 2
    Request <- Requests
    Blank = Blank
    PROCESSING = PROCESSING
    Transaction <- Transactions
    Outsider <- Outsiders
    MaxEntries = 4
    Ticks = 2
    MaxTime = 5
    MaxChanges = 2
    FileWidth = 5
    FileHeight = 3
    Smallest = 2
    Longest = 4
    Moves <- PointerMoves
    Paths <- PointerPaths
    MaxChanged = 2
    Handler <- Handlers
    Enough = 2
    MaxSamples = 5
    Socket <- Sockets
    Web = Web
    MostMessages = 1
    MaxSaid = 2
    MaxBans = 2
SPECIFICATION Spec
INVARIANTS
    ReceivedOnce
    RecordedWherePaid
    ShowsConversation
    StrokesFit
    SendsWhatIsShown
    OneVoice
    BalancesMatchLines
    OncePerKey
    OneChain
    SessionsFollowPassword
    StrokesStay
    UnfinishedCanFinish
    SpeaksInTurn
PROPERTIES
    ImplementsFunding
CHECK_DEADLOCK FALSE
