\* Two handlers of one agent and Stop on the mutex, one direct message, one peer
\* that may stop reading.
CONSTANTS
    Agents = {a1}
    Conns = {c1, c2}
    Msgs = {m1}
    MaxRestarts = 0
    MayStall = {c1}
    Filters = {"all"}
    NoConn = NoConn
    NoAgent = NoAgent
    NoMsg = NoMsg
    Stopper = Stopper
SPECIFICATION FairSpec
INVARIANT MutexIsReleased
PROPERTY DisconnectEndsHandler
\* Handlers that deadlock on the mutex, or have all ended, stop the system.
CHECK_DEADLOCK FALSE
