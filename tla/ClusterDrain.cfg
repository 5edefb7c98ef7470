SPECIFICATION Spec
CONSTANTS
    Task = {t1}
    PreferLocal = {}
    Worker = {w1}
    MaxConcurrent = 1
    ChanCap = 1
    MaxRetries = 2
    MaxSessions = 2
    MaxFaults = 3
PROPERTY DrainPreventsAssignments
\* A panic ends the server, and every task may be done.
CHECK_DEADLOCK FALSE
