\* A sender and a recipient, one message.
CONSTANTS
    Agents = {a1, a2}
    Conns = {c1, c2}
    Msgs = {m1}
    MaxRestarts = 0
    MayStall = { }
    Filters = {"all", "other"}
    NoConn = NoConn
    NoAgent = NoAgent
    NoMsg = NoMsg
    Stopper = Stopper
SPECIFICATION Spec
PROPERTY QueuedUntilDelivered
\* Handlers that deadlock on the mutex, or have all ended, stop the system.
CHECK_DEADLOCK FALSE
