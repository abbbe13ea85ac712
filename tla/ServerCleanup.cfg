\* One connection.
CONSTANTS
    Agents = {a1}
    Conns = {c1}
    WriteCap = 1
    ReadCap = 1
    MaxOffline = 1
    NoConn = NoConn
    NoAgent = NoAgent
    Everyone = Everyone
SPECIFICATION FairSpec
PROPERTY CleanupOnDisconnect
\* A model whose connections have come and gone stops.
CHECK_DEADLOCK FALSE
