SPECIFICATION FairSpec
CONSTANTS
    Cid = {c1, c2, c3}
    SessionId = {s1}
    NoSession = NoSession
    Topic = {t1}
    Namespace = {n1}
    Key = {k1}
    Deltas <- MCDeltas
    UserLists <- MCNoUserLists
    NewConnTimeout = 0
    MaxIdle = 0
    LatticeInterval = 1
    MaxPublished = 2
    Strangers = {c3}
    Removed = TRUE
    AttachAfterUpdate = FALSE
    MaxVersion = 0
INVARIANTS TypeOK TopicsInSync PanicsExplained DeliveredInOrder
PROPERTY IdleSessionsExpire
