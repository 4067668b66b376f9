\* One thread on one connection; the server may also send a frame on
\* another stream.
CONSTANTS
    Callers = {t1}
    NoCaller = NoCaller
    Conns = {c1}
    CallerConn <- SharedConn
    MaxCalls = 3
    MaxQueue = 2
    Faults = {"foreign"}

SPECIFICATION Spec

INVARIANT ResponseMatchesRequest
