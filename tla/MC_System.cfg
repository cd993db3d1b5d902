\* Two clients, two chat lines each, room for two messages in a queue_t
\* and one in a socket; either client may stall.
CONSTANTS
    Clients <- MCClients2
    QCap = 2
    SockCap = 1
    MaxLines = 2
    MaxStalls = 1
SPECIFICATION Spec
INVARIANTS TypeOK SameOrder
CHECK_DEADLOCK FALSE
