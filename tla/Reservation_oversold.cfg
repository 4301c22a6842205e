\* The server ends and the clients leave.
CHECK_DEADLOCK FALSE
SPECIFICATION Spec
CONSTANTS
    Clients = {c1, c2}
    AC_NUM = 2
    SL_NUM = 1
    MAX_CLIENTS = 2
    Counts = {0, 2}
    MaxRequests = 1
INVARIANT NeverOversold
