SPECIFICATION Spec
CONSTANTS
    Cid = {c1, c2, c3}
    SessionId = {s1, s2}
    NoSession = NoSession
    Topic = {}
    Namespace = {}
    Key = {}
    Deltas <- MCNoDeltas
    UserLists <- MCUserLists
    NewConnTimeout = 1
    MaxIdle = 1
    LatticeInterval = 0
    MaxPublished = 0
    Strangers = {}
    Removed = FALSE
    AttachAfterUpdate = FALSE
    MaxVersion = 0
SYMMETRY Symmetry
INVARIANTS SessionsInSync StatusShown
PROPERTY InactiveOnlyWhenExpired
