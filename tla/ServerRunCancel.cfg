SPECIFICATION Spec
CONSTANTS
    Task = {t1}
    Request = {c1}
    MaxAttempts = 1
    MaxFaults = 0
INVARIANT CancelledRunNeverSucceeds
CHECK_DEADLOCK FALSE
