\* Three websockets that wait for a queue of one and contend for the lock, with
\* and without an onError, with IDs that carry with and without room; the server
\* stops when a callback is missing.
CONSTANTS
    MaxConns = 3
    PastConns = {98, 998}
    Base = 10
    GrowSize = 2
    Requests = {w1, w2, w3}
    QueueCap = 1
SPECIFICATION FairWebSpec
INVARIANTS
    TypeOK
    IDsCountUp
    ConnectFirst
    MapHoldsLive
PROPERTIES
    EachIsTold
    HandlersReturn
CHECK_DEADLOCK FALSE
