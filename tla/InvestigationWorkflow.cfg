\* One run, any signals at any time; a budget of 0.50 USD and the default of 2.00.
SPECIFICATION Spec
CONSTANTS
    Budgets = {50, 200}
    HardStop = 500
    Cost <- MCCost
\* The run ends, and an ended run takes no step.
CHECK_DEADLOCK FALSE
INVARIANTS
    TypeOK
    SealedRunsAreUndisturbed
PROPERTIES
    SignalsStopScheduling
    FinalStatusStays
    CancelEnds
    RunEnds
