\* Two runs and three clients: a dial that fails or is overtaken by Close, a
\* client that ends before it is stored, a Dial of a stopped reconnector.
CONSTANTS
    MaxRuns = 2
    MaxClients = 3
SPECIFICATION FairSpec
INVARIANTS
    TypeOK
    OneSignal
    ClientIsCurrent
    ClosedButLate
PROPERTIES
    CallbacksReturn
    StopsRunning
    Reconnects
