SPECIFICATION Spec
CONSTANTS
    Cid = {c1, c2}
    SessionId = {s1}
    NoSession = NoSession
    Topic = {t1}
    Namespace = {n1}
    Key = {k1}
    Deltas <- MCDeltas
    UserLists <- MCNoUserLists
    NewConnTimeout = 0
    MaxIdle = 0
    LatticeInterval = 1
    MaxPublished = 1
    Strangers = {}
    Removed = FALSE
    AttachAfterUpdate = TRUE
    MaxVersion = 1
INVARIANT NoPanic
