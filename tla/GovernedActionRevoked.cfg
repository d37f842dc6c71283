\* One approval is enough for the counterexample.
CONSTANTS
    cheap = cheap
    dear = dear
    manager = manager
    agent = agent
    Approvals = {a1, a2}
    Intents = {i1}
    Attempts = {l1}
    Keys = {k1}
    Payloads <- MCPayloads
    Approvers <- MCApprovers
    RequiredTier <- MCRequiredTier
    Tier <- MCTier
    Humans <- MCHumans
SPECIFICATION Spec
PROPERTY RevokedRejectsIntents
CHECK_DEADLOCK FALSE
