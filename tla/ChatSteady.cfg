SPECIFICATION FairSpec
CONSTANTS
    Cid = {c1, c2}
    MaxReloads = 0
    MaxPublished = 1
INVARIANTS TypeOK OnlyDropsPanic OpenIsServed
PROPERTIES HandshakeEnds
CHECK_DEADLOCK FALSE
