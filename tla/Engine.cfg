CONSTANTS
    Machines <- MCMachines
    SpInit = 60
    CellAdr = 20
    Plan <- MCPlan
    BreakAdrs <- MCAdrs
    BreakCounts <- MCCounts
    StepCounts <- MCSteps
    ContinueCounts <- MCContinues
    MaxBreaks = 1
    MaxTemps = 1
SPECIFICATION FairSpec
INVARIANTS TypeOK NotDerailed TickBitAtPoll BreakStops StepsExact DebuggerInv
INVARIANT FinishStopsAfterStep
PROPERTIES EngineImplementsGuest EscapeHeard
CHECK_DEADLOCK FALSE
