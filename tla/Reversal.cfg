\* The server and its clients end.
CHECK_DEADLOCK FALSE
SPECIFICATION Spec
CONSTANTS
    Clients = {1, 2, 3, 4}
    MAX_CLIENTS = 3
    MAXLINE = 4
    MESSAGE_FROM_CLIENT <- MCMessages
INVARIANTS
    OwnMessageReversed
PROPERTY EveryClientEnds
