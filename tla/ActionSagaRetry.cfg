\* Two steps and one retry.
CONSTANTS
    StepCount = 2
    MaxAttempts = 3
    MaxRuns = 2
SPECIFICATION Spec
INVARIANT RetriesAreSafe
CHECK_DEADLOCK FALSE
