SPECIFICATION FairSpec
CONSTANTS
    a = a
    b = b
    c = c
    d = d
    Task = {a, b, c, d}
    Needs <- MCNeeds
    Plans <- MCPlans
    Options <- MCOptions
    Kind <- MCKind
    Conditional = {b, c}
    Cacheable = {a, d}
INVARIANTS
    TypeOK RunsAfterNeeds FailureIsContained SlotsBounded SummaryAgrees
    NoTaskDropped CallbacksPaired SuccessHookSound
PROPERTIES ImplementsDagRun QuietAfterReturn RunExits
\* The process exits.
CHECK_DEADLOCK FALSE
