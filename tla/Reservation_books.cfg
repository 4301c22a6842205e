\* The server ends and the clients leave.
CHECK_DEADLOCK FALSE
SPECIFICATION Spec
CONSTANTS
    Clients = {c1, c2}
    AC_NUM = 2
    SL_NUM = 1
    MAX_CLIENTS = 2
    Counts = {1}
    MaxRequests = 2
INVARIANTS
    OneRecordBehind
    RequestInOnePlace
PROPERTY Answered
