\* Sends that share a receiver channel the application may leave full, one of them
\* rejected by the Mapper, the cleanup, and every way a connection ends: the
\* application closes it, a thread fails, the heartbeat check, the Handler.
CONSTANTS
    Requesters = {}
    Senders = {s1, s2}
    Repliers = {}
    FailedReplies = {}
    Unmapped = {s2}
    Cancellable = {}
    HandlerCtx = {}
    PoolChans = {c1, c2}
    AppChan = app
    RecvCap = 1
    NoChan = nochan
    IncomingBuffer = 1
    OutgoingBuffer = 1
    InitialID = 1
    IDSpace = 64
    HandlerDoes = {"error", "unmapped"}
    PeerDoes = {"answer", "request", "heartbeat"}
    MaxPeerMsgs = 1
    PeerRepeats = FALSE
    AppCloses = TRUE
    CleanupEnabled = TRUE
    CheckHeartbeat = TRUE
SPECIFICATION Spec
SYMMETRY Symmetry
INVARIANTS
    AtMostOneResult
    StoppedMeansHalted
PROPERTY
    ImplementsCallOutcomes
