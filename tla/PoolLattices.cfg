SPECIFICATION Spec
CONSTANTS
    Cid = {c1, c2}
    SessionId = {s1}
    NoSession = NoSession
    Topic = {}
    Namespace = {n1}
    Key = {k1, k2}
    Deltas <- MCDeltas
    UserLists <- MCNoUserLists
    NewConnTimeout = 0
    MaxIdle = 0
    LatticeInterval = 1
    MaxPublished = 0
    Strangers = {}
    Removed = FALSE
    AttachAfterUpdate = FALSE
    MaxVersion = 2
SYMMETRY Symmetry
INVARIANTS KeysSubscribed PrivateCopyCurrent SharedCopyNotStale
