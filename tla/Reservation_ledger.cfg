\* The server ends and the clients leave.
CHECK_DEADLOCK FALSE
SPECIFICATION SalesSpec
SYMMETRY Interchangeable
CONSTRAINT FewBookings
CONSTANTS
    Clients = {c1, c2, c3}
    AC_NUM = 2
    SL_NUM = 1
    MAX_CLIENTS = 2
    Counts <- SignedCounts
    MaxRequests = 2
INVARIANTS
    TypeOK
    SalesRecorded
    SoldWhatThereWas
PROPERTY ImplementsLedger
