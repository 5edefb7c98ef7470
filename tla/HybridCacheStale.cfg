SPECIFICATION Spec
CONSTANTS
    Host = {h1}
    Key = {k1, k2}
    File = {f1}
    Sampled = {f1}
    MaxRuns = 3
    MaxFaults = 0
INVARIANT HitDelivers
\* The runs are bounded.
CHECK_DEADLOCK FALSE
