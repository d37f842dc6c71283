\* Two live streams on topics of their own, and a replay on the first.
SPECIFICATION EsSpec
CHECK_DEADLOCK FALSE
CONSTANTS
    EsTopics = {"inv1", "inv2"}
    EsStreams = {"live1", "live2"}
    EsReplays = {"replay"}
    EsTopicOf <- MCTopics
    EsCapacity = 1
    EsMilestones = 1
    EsMaxEvents = 3
INVARIANTS
    EsGoesOn
