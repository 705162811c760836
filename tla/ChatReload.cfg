SPECIFICATION FairSpec
CONSTANTS
    Cid = {c1}
    MaxReloads = 3
    MaxPublished = 1
INVARIANTS ForgottenWhenClosed
PROPERTIES PoolFollowsConfig
CHECK_DEADLOCK FALSE
