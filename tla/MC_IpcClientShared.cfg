\* Two threads share one connection; the server behaves.
CONSTANTS
    Callers = {t1, t2}
    NoCaller = NoCaller
    Conns = {c1}
    CallerConn <- SharedConn
    MaxCalls = 2
    MaxQueue = 2
    Faults = {}

SPECIFICATION Spec

INVARIANT ResponseMatchesRequest
