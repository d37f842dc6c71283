\* The instance of ActionDispatch.cfg, asked whether an approval is executed once.
SPECIFICATION Spec
CONSTANTS
    Workers = {w1, w2}
    Slots = {s1, s2}
    Approvals = {a1}
    Keys = {k1}
    alice = alice
    bob = bob
    eve = eve
    t1 = t1
    t2 = t2
    Principals = {alice, bob, eve}
    Tenants = {t1, t2}
    Operators = {bob, eve}
    TenantOf <- MCTenantOf
    Level <- MCLevel
    Requester <- MCRequester
    RequiredTier <- MCRequiredTier
    Cost <- MCCost
    Global = Global
    SwitchScopes <- MCSwitchScopes
    None = None
    RequesterLevel = 1
SYMMETRY MCSymmetry
INVARIANT
    ExecutedAtMostOnce
