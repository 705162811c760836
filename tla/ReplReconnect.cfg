SPECIFICATION FairSpec
CONSTANTS
    Node = {n1, n2}
    Operation = {"UpdateActivity"}
    Configured <- OneWay
    MaxRestarts = 0
    MaxUpdates = 0
    MaxSockets = 3
    MaxRequests = 1
PROPERTIES Reconnected
CHECK_DEADLOCK FALSE
