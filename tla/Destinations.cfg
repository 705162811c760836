CONSTANTS
    d1 = d1  d2 = d2  c1 = c1  x1 = x1
    Dests = {d1, d2}
    Calls = {c1}
    Proxied = {x1}
    Sessions = {"s"}
    Handlers <- MCHandlers
    Upstream <- MCUpstream
    MinIdle = 1  MaxIdle = 1
    QueueSize = 1
    InFlight = 2
    MaxReloads = 2
SPECIFICATION Spec
INVARIANTS TypeOK AcceptedAnsweredOnce UndisturbedByReload GaugesCount
CHECK_DEADLOCK FALSE
