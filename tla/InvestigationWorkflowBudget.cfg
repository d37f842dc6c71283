\* The instance of InvestigationWorkflow.cfg, asked whether the budget of a run is kept.
SPECIFICATION Spec
CONSTANTS
    Budgets = {50, 200}
    HardStop = 500
    Cost <- MCCost
\* The run ends, and an ended run takes no step.
CHECK_DEADLOCK FALSE
INVARIANT
    SpendWithinBudget
