\* A caller, a message of another agent, and two calls or heartbeats, so that
\* a second one finds the writeChan full; of the bridge four frames, of which
\* one is taken, one is in the channel and one in readLoop's hand.
CONSTANTS
    Conn = c1
    Conns = {c1}
    Callers = {t1}
    MaxCalls = 3
    MaxMessages = 1
    WriteCap = 1
    ReadCap = 1
    BridgeFrames = 4
    BridgeCalls = 1
    BridgeCap = 1
SPECIFICATION MCSpec
INVARIANTS
    TypesOK
    ConnectedMeansConfirmed
    FailedConnectIsClosed
    NoHandlerAfterDisconnect
    DisconnectNotStuck
    BridgeDropsNothing
    BridgeStopsSending
PROPERTIES
    DisconnectReturns
    CallsReturn
    BridgeLoopEnds
\* A client that has disconnected stops.
CHECK_DEADLOCK FALSE
