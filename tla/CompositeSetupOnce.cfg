SPECIFICATION Spec
CONSTANTS
    t1 = t1
    t2 = t2
    t3 = t3
    k1 = k1
    k2 = k2
    Task = {t1, t2, t3}
    Key = {k1, k2}
    Uses <- MCUses
INVARIANT SetupRunsOnce
\* The run ends.
CHECK_DEADLOCK FALSE
