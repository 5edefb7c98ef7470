SPECIFICATION Spec
CONSTANTS
    Task = {t1, t2}
    Request = {c1}
    MaxAttempts = 2
    MaxFaults = 1
INVARIANTS TypeOK SettledRunIsAccurate SuccessIsEarned
PROPERTY CancelledRunNotRevived
\* A run ends.
CHECK_DEADLOCK FALSE
