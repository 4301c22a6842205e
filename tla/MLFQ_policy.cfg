\* The program ends when every job has finished.
CHECK_DEADLOCK FALSE
SPECIFICATION PolicySpec
CONSTANTS
    NumJobs = 4
    NUMQUEUES = 2
    IOTIME = 2
    QUANTUM = 2
    ALLOTMENT = 5
    BOOSTTIME = 20
    StartTimes = {0, 20}
    RunTimes = {22}
    IoFreqs = {0, 3}
    MaxTime = 150
INVARIANTS
    TypeOK
    OnePlace
    PriorityIsQueue
    IoQueueInOrder
    AccountsExact
    NoStarvation
PROPERTIES
    AllJobsFinish
    ImplementsScheduler
