\* Three steps: the fewest with a first, a last and a middle one to halt at.
CONSTANTS
    StepCount = 3
    MaxAttempts = 3
    MaxRuns = 2
SPECIFICATION Spec
INVARIANTS
    TypeOK
    ReportsAreTrue
PROPERTIES
    ContractHonoured
    IrreversibleStands
    SagaEnds
CHECK_DEADLOCK FALSE
