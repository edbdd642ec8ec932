\* Liveness: a Request, cleanup, and a remote that may keep silent.
CONSTANTS
    Requesters = {r1}
    Senders = {}
    Repliers = {}
    FailedReplies = {}
    Unmapped = {}
    Cancellable = {}
    HandlerCtx = {}
    PoolChans = {c1}
    AppChan = app
    RecvCap = 1
    NoChan = nochan
    IncomingBuffer = 1
    OutgoingBuffer = 1
    InitialID = 1
    IDSpace = 64
    HandlerDoes = {"reply"}
    PeerDoes = {"answer", "request"}
    MaxPeerMsgs = 1
    PeerRepeats = FALSE
    AppCloses = TRUE
    CleanupEnabled = TRUE
    CheckHeartbeat = FALSE
SPECIFICATION FairSpec
PROPERTIES
    StopEnds
    CallsReturn
