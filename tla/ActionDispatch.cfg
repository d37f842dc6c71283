\* Two workers, two requests in flight, one approval: every race of
\* approving, rejecting and dispatching it, with failures and restarts.
SPECIFICATION Spec
CONSTANTS
    Workers = {w1, w2}
    Slots = {s1, s2}
    Approvals = {a1}
    Keys = {k1}
    alice = alice
    bob = bob
    eve = eve
    t1 = t1
    t2 = t2
    Principals = {alice, bob, eve}
    Tenants = {t1, t2}
    Operators = {bob, eve}
    TenantOf <- MCTenantOf
    Level <- MCLevel
    Requester <- MCRequester
    RequiredTier <- MCRequiredTier
    Cost <- MCCost
    Global = Global
    SwitchScopes <- MCSwitchScopes
    None = None
    RequesterLevel = 1
SYMMETRY MCSymmetry
INVARIANTS
    TypeOK
    CallsAreSigned
    CachedRecordCallsOnce
    RowCallsAreDurable
    HaltedRequestsStop
    ReplaysAreOfExecutedActions
PROPERTIES
    DecisionsAreFinal
