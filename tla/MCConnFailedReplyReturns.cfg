\* A Reply that carries an error.
CONSTANTS
    Requesters = {}
    Senders = {}
    Repliers = {p1}
    FailedReplies = {p1}
    Unmapped = {}
    Cancellable = {p1}
    HandlerCtx = {}
    PoolChans = {c1, c2}
    AppChan = app
    RecvCap = 1
    NoChan = nochan
    IncomingBuffer = 1
    OutgoingBuffer = 1
    InitialID = 1
    IDSpace = 64
    HandlerDoes = {"defer"}
    PeerDoes = {"request"}
    MaxPeerMsgs = 1
    PeerRepeats = FALSE
    AppCloses = TRUE
    CleanupEnabled = FALSE
    CheckHeartbeat = FALSE
SPECIFICATION Spec
INVARIANT FailedReplyReturns
