\* Two handlers on the mutex; no direct messages.
CONSTANTS
    Agents = {a1}
    Conns = {c1, c2}
    Msgs = { }
    MaxRestarts = 0
    MayStall = { }
    Filters = {"all", "direct"}
    NoConn = NoConn
    NoAgent = NoAgent
    NoMsg = NoMsg
    Stopper = Stopper
SPECIFICATION FairSpec
PROPERTY RegistrationAnswered
\* Handlers that deadlock on the mutex, or have all ended, stop the system.
CHECK_DEADLOCK FALSE
