\* Graceful shutdown against handlers, signals, callers and peers.
CONSTANTS
    Requests = {r1, r2}
    Signals = {s1}
    Callers = {a1, a2}
    Peers = {p1, p2}
    CounterModulus = 8
SPECIFICATION FairSpec
INVARIANT TypeOK
INVARIANT DrainedBeforeStop
PROPERTY NothingStartsAfterShutdown
PROPERTY ShutdownReturns
CHECK_DEADLOCK FALSE
