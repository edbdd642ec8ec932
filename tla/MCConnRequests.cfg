\* Requests: timeouts, cancellation, late and repeated answers, reuse of pooled
\* channels.
CONSTANTS
    Requesters = {r1, r2}
    Senders = {}
    Repliers = {}
    FailedReplies = {}
    Unmapped = {}
    Cancellable = {r1}
    HandlerCtx = {}
    PoolChans = {c1, c2}
    AppChan = app
    RecvCap = 1
    NoChan = nochan
    IncomingBuffer = 1
    OutgoingBuffer = 1
    InitialID = 5
    IDSpace = 8
    HandlerDoes = {}
    PeerDoes = {"answer"}
    MaxPeerMsgs = 2
    PeerRepeats = TRUE
    AppCloses = FALSE
    CleanupEnabled = TRUE
    CheckHeartbeat = FALSE
SPECIFICATION Spec
SYMMETRY Symmetry
INVARIANTS
    TypeOK
    WholeInv
    PoolClean
    Correlated
    NoCallLost
PROPERTIES
    OnlyAppReceiverBlocks
    AnswerRefusedOnlyIfResolved
