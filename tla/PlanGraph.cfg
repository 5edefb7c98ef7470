SPECIFICATION PlanSpec
CONSTANTS
    Node = {a, b, c}
    NoNode = NoNode
INVARIANTS PlanTypeOK GrayIsCurrentPath DetectsExactlyCycles PathIsSimpleCycle
           CountersExact LevelsRespectNeeds PlanIsEarliest
PROPERTY PlanEnds
\* Planning ends.
CHECK_DEADLOCK FALSE
