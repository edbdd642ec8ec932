\* Two addresses, an address that comes back under a second communicator, every
\* channel full at one message.
CONSTANTS
    Addrs = {a, b}
    MaxComms = 2
    MaxPackets = 3
    QueueCap = 1
    AcceptCap = 1
    InboxCap = 1
SPECIFICATION FairSpec
INVARIANTS
    TypeOK
    MapHoldsOpen
    InOrder
PROPERTIES
    ClosesItselfOrLate
    StopEndsListen
    WritesReturn
CHECK_DEADLOCK FALSE
