\* The shell exits and its tasks end.
CHECK_DEADLOCK FALSE
SPECIFICATION Spec
CONSTANTS
    Pids = {p1, p2, p3}
    MAX_BG_CMD = 3
INVARIANTS
    TypeOK
    TableIsOurs
    ForegroundAlone
    EveryTaskListed
PROPERTIES
    
    EndedTasksReaped
