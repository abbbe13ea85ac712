\* Two agents, two connections and one sender, so that a message can go astray.
CONSTANTS
    m1 = m1
    m2 = m2
    m3 = m3
    g1 = g1
    g2 = g2
    Agents = {a1, a2}
    Conns = {c1, c2}
    Msgs = {m1, m2}
    Callers = {g1, g2}
    From <- MCFromOne
    Priority <- MCPriorityTwo
    MaxOffline = 1
    WriteCap = 1
    NoConn = NoConn
    NoAgent = NoAgent
    Everyone = Everyone
SPECIFICATION Spec
INVARIANTS TypeOK AtMostOnce
PROPERTY ImplementsMailbox
\* Nothing restarts a model whose messages and connections are used up.
CHECK_DEADLOCK FALSE
