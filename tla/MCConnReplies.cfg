\* Replies of retained requests, one with an error and one with the handlers'
\* context, and the Handler's own answers, against a shutdown from any side.
CONSTANTS
    Requesters = {}
    Senders = {}
    Repliers = {p1, p2}
    FailedReplies = {p2}
    Unmapped = {}
    Cancellable = {p2}
    HandlerCtx = {p1}
    PoolChans = {c1, c2}
    AppChan = app
    RecvCap = 1
    NoChan = nochan
    IncomingBuffer = 1
    OutgoingBuffer = 1
    InitialID = 5
    IDSpace = 8
    HandlerDoes = {"reply", "defer"}
    PeerDoes = {"request"}
    MaxPeerMsgs = 2
    PeerRepeats = FALSE
    AppCloses = FALSE
    CleanupEnabled = FALSE
    CheckHeartbeat = FALSE
SPECIFICATION Spec
SYMMETRY Symmetry
INVARIANTS
    NeverIDZero
    ToldIsSent
    EndTellsWhy
PROPERTY
    ImplementsCallOutcomes
