\* The instructions of engine.c beside v09s.c, v09st.c, d09.c and nexti.
SPECIFICATION Spec
CONSTANTS
    RomStart = 32768
    MaxPrefix = 3
    Place <- MCPlace
    Data <- MCData
    Programs <- MCPrograms
    Junk <- MCJunk
CHECK_DEADLOCK FALSE
INVARIANTS TypeOK OldSimulatorsAgree ListingAgrees StepOverReturns BranchOrder SumsRight StackRestores
