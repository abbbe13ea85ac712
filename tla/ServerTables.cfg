\* Two connections, of one agent or of two.
CONSTANTS
    Agents = {a1, a2}
    Conns = {c1, c2}
    WriteCap = 1
    ReadCap = 1
    MaxOffline = 1
    NoConn = NoConn
    NoAgent = NoAgent
    Everyone = Everyone
SPECIFICATION Spec
SYMMETRY ServerSymmetry
INVARIANTS TypeOK NoGhostAgents ServedAgentsReachable StopNeverStuck
\* A model whose connections have come and gone stops.
CHECK_DEADLOCK FALSE
