\* The shell exits and its tasks end.
CHECK_DEADLOCK FALSE
SPECIFICATION Spec
CONSTANTS
    Pids = {p1, p2}
    MAX_BG_CMD = 1
PROPERTY ExitStopsTasks
