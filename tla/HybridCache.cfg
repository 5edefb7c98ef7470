SPECIFICATION Spec
CONSTANTS
    Host = {h1, h2}
    Key = {k1, k2}
    File = {f1, f2}
    Sampled = {f1, f2}
    MaxRuns = 3
    MaxFaults = 1
SYMMETRY Symmetry
INVARIANTS TypeOK EntriesComplete RunDelivers
\* The runs are bounded.
CHECK_DEADLOCK FALSE
