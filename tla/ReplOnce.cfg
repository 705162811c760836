SPECIFICATION Spec
CONSTANTS
    Node = {n1, n2}
    Operation = {"Subscribe", "LatticeSubscribe"}
    Configured <- Pair
    MaxRestarts = 1
    MaxUpdates = 1
    MaxSockets = 2
    MaxRequests = 1
SYMMETRY Symmetry
INVARIANTS TypeOK AppliedOnce LatticeBeforeAttach
CHECK_DEADLOCK FALSE
