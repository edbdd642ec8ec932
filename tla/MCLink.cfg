\* Every pair of lists over every transport; a heartbeat may be sent while the
\* list is still on its way.
CONSTANTS
    Lists <- MCLists
    Transports = {"stream", "websocket", "packet"}
    ReadLimit = 2
    PacketPing = ping
    MaxWire = 2
SPECIFICATION FairSpec
INVARIANTS
    TypeOK
    Agreement
    RejectsTogether
    HeartbeatsKeep
PROPERTY
    HalfOpenEnds
CHECK_DEADLOCK FALSE
