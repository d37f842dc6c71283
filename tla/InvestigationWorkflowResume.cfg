\* The instance of InvestigationWorkflow.cfg, asked whether a resumed run goes on.
SPECIFICATION Spec
CONSTANTS
    Budgets = {50, 200}
    HardStop = 500
    Cost <- MCCost
\* The run ends, and an ended run takes no step.
CHECK_DEADLOCK FALSE
INVARIANT
    ResumedRunsContinue
