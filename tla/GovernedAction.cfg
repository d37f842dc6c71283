\* An approval and its amendment, two intents, two attempts, two keys.
CONSTANTS
    cheap = cheap
    dear = dear
    manager = manager
    agent = agent
    Approvals = {a1, a2}
    Intents = {i1, i2}
    Attempts = {l1, l2}
    Keys = {k1, k2}
    Payloads <- MCPayloads
    Approvers <- MCApprovers
    RequiredTier <- MCRequiredTier
    Tier <- MCTier
    Humans <- MCHumans
SYMMETRY MCSymmetry
SPECIFICATION Spec
INVARIANTS
    TypeOK
    IntentsAreSigned
    AmendedRequestsAreOut
    OneIntentPerKey
    IntentFollowsAttempts
    JournalIsNumbered
PROPERTIES
    WithdrawnStaysWithdrawn
CHECK_DEADLOCK FALSE
