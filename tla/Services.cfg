\* One instance of every service, with the fewest actors that can disagree; the plans are all of four tasks.
SPECIFICATION Spec
CHECK_DEADLOCK FALSE
CONSTANTS
    KsNodes = {"n1", "n2"}
    KsIds = {"tenant", "tool"}
    KsCalls = {"c1", "c2"}
    KsCovers <- MCCovers
    QtTokens = {"t1", "t2", "t3"}
    QtAmounts = {1, 2}
    QtLimits = {2, 3}
    QtDefault = 3
    QtCap = 1
    QtMaxSettings = 2
    SrRefs = {"zendesk", "vault"}
    SrPlain = {"zendesk"}
    SrSessions = {"rot1", "rot2"}
    SrOf <- MCRotates
    SrMaxRegistered = 2
    SrMaxCalls = 2
    CrBundles = {"b1", "b2", "b3"}
    CrNone = "nobundle"
    RgControls = {"k1", "k2"}
    RgContents = {"d1", "d2"}
    RgNoContent = "nocontent"
    RgIds = {"manifest"}
    TnMatters = {"m1", "m2"}
    TnNoMatter = "nomatter"
    TnSagas = {"saga1", "saga2"}
    CnPayloads = {"p1", "p2", "p3"}
    IbEvents = {"w1", "w2", "w3", "ping"}
    IbEntity <- MCEntity
    IbStamps <- MCStamps
    IbNone = "nothing"
    AnAnomalies = {"a1", "a2"}
    AnBreaches = {"high", "low"}
    AnNormal = "normal"
    AnMaxVersion = 5
    EsTopics = {"inv1", "inv2"}
    EsStreams = {"live1", "live2"}
    EsReplays = {"replay"}
    EsTopicOf <- MCTopics
    EsCapacity = 1
    EsMilestones = 1
    EsMaxEvents = 3
    AcAppends = {"e1", "e2", "e3"}
    AcCorrelation <- MCCorrelation
    AcGenesis = "genesis"
    AcMaxSeconds = 1
    BlCalls = {"r1", "r2", "r3", "r4"}
    BlAmount <- MCAmounts
    BlBudget = 3
    BlNobody = "nobody"
    DgPlans <- MCPlans
    DgMaxTasks = 4
    DgMaxWidth = 2
    DgMaxDepth = 3
INVARIANTS
    ServicesTypeOK
    KsFailoverKeepsBlocks
    QtBooksBalance
    SrCacheIsCurrent
    CrAbortedStayOut
    RgManifestsStand
    TnHoldOutlivesStatus
    CnActiveIsClean
    IbOrderIsIrrelevant
    AnFreshIsCurrent
    EsOnlyFullQueuesLose
    AcForksNeedOverlap
    BlReservedFits
    DgVerdictIsRight
PROPERTIES
    SrCommittedStays
