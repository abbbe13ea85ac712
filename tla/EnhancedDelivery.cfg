\* Two connections, of one agent or of two, one direct message and
\* one restart.
CONSTANTS
    Agents = {a1, a2}
    Conns = {c1, c2}
    Msgs = {m1}
    MaxRestarts = 1
    MayStall = { }
    Filters = {"all", "other"}
    NoConn = NoConn
    NoAgent = NoAgent
    NoMsg = NoMsg
    Stopper = Stopper
SPECIFICATION Spec
SYMMETRY ServerSymmetry
INVARIANTS
    TypeOK AtMostOncePerConnection OnlyToRecipient GoneIsOffline
    ServedAloneIsReachable
PROPERTIES
    QueuedIsKept ImplementsDurableMailbox
\* Handlers that deadlock on the mutex, or have all ended, stop the system.
CHECK_DEADLOCK FALSE
