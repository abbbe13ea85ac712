\* Three messages of two senders for a queue of two and a writeChan of one.
CONSTANTS
    m1 = m1
    m2 = m2
    m3 = m3
    g1 = g1
    g2 = g2
    Agents = {a1}
    Conns = {c1}
    Msgs = {m1, m2, m3}
    Callers = {g1, g2}
    From <- MCFrom
    Priority <- MCPriority
    MaxOffline = 2
    WriteCap = 1
    NoConn = NoConn
    NoAgent = NoAgent
    Everyone = Everyone
SPECIFICATION FairSpec
INVARIANTS QueueBounded SenderOrder NilMeansAccepted RouteNeverStuck
PROPERTY RouteReturns
\* Nothing restarts a model whose messages and connections are used up.
CHECK_DEADLOCK FALSE
