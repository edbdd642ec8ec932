\* A Request overtaken by the shutdown between its state check and its Add.
CONSTANTS
    Requesters = {r1}
    Senders = {}
    Repliers = {}
    FailedReplies = {}
    Unmapped = {}
    Cancellable = {}
    HandlerCtx = {}
    PoolChans = {c1, c2}
    AppChan = app
    RecvCap = 1
    NoChan = nochan
    IncomingBuffer = 1
    OutgoingBuffer = 1
    InitialID = 1
    IDSpace = 64
    HandlerDoes = {}
    PeerDoes = {}
    MaxPeerMsgs = 1
    PeerRepeats = FALSE
    AppCloses = TRUE
    CleanupEnabled = FALSE
    CheckHeartbeat = FALSE
SPECIFICATION Spec
INVARIANT NoPanic
