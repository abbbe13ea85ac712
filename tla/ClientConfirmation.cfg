\* A client whose queue holds one message when it connects.
CONSTANTS
    Conn = c1
    Conns = {c1}
    Callers = {t1}
    MaxCalls = 2
    MaxMessages = 1
    WriteCap = 1
    ReadCap = 1
SPECIFICATION Spec
INVARIANT ConfirmationIsTheAnswer
\* A client that has disconnected stops.
CHECK_DEADLOCK FALSE
