\* Two messages race one registration.
CONSTANTS
    m1 = m1
    m2 = m2
    m3 = m3
    g1 = g1
    g2 = g2
    Agents = {a1}
    Conns = {c1}
    Msgs = {m1, m2}
    Callers = {g1, g2}
    From <- MCFromTwo
    Priority <- MCPriorityTwo
    MaxOffline = 1
    WriteCap = 1
    NoConn = NoConn
    NoAgent = NoAgent
    Everyone = Everyone
SPECIFICATION Spec
INVARIANT QueuedForDisconnectedOnly
\* Nothing restarts a model whose messages and connections are used up.
CHECK_DEADLOCK FALSE
