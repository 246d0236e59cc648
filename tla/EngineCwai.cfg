CONSTANTS
    Machines <- MCCwai
    SpInit = 60
    CellAdr = 20
    Plan <- MCPlan
    BreakAdrs <- MCAdrs
    BreakCounts <- MCCounts
    StepCounts <- MCSteps
    ContinueCounts <- MCContinues
    MaxBreaks = 1
    MaxTemps = 1
SPECIFICATION FairSpec
PROPERTY CwaiTakesInterrupt
CHECK_DEADLOCK FALSE
