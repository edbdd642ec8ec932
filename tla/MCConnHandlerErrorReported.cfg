\* A Handler error on a connection nobody else ends.
CONSTANTS
    Requesters = {}
    Senders = {}
    Repliers = {}
    FailedReplies = {}
    Unmapped = {}
    Cancellable = {}
    HandlerCtx = {}
    PoolChans = {c1, c2}
    AppChan = app
    RecvCap = 1
    NoChan = nochan
    IncomingBuffer = 1
    OutgoingBuffer = 1
    InitialID = 1
    IDSpace = 64
    HandlerDoes = {"error"}
    PeerDoes = {"request"}
    MaxPeerMsgs = 1
    PeerRepeats = FALSE
    AppCloses = FALSE
    CleanupEnabled = FALSE
    CheckHeartbeat = FALSE
SPECIFICATION Spec
INVARIANT HandlerErrorReported
