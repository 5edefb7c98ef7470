SPECIFICATION Spec
CONSTANTS
    t1 = t1
    t2 = t2
    t3 = t3
    Task = {t1, t2, t3}
    Needs <- MCNeeds
    Plans <- MCPlans
    MaxErrors = 2
    MaxLogBuf = 1
    MaxLines = 2
    MaxSize = 3
INVARIANTS TypeOK StoppedIsNotSuccess ReportAgrees NoLineLost
PROPERTY ClientPresence
\* The CLI exits, and a run that has ended is at rest.
CHECK_DEADLOCK FALSE
