\* Two threads, each with its own connection to the server; the server may
\* reject a handshake, send an oversize frame, or hang up.
CONSTANTS
    Callers = {t1, t2}
    NoCaller = NoCaller
    Conns = {c1, c2}
    CallerConn <- OwnConn
    MaxCalls = 3
    MaxQueue = 2
    Faults = {"big", "reject", "hangup"}

SPECIFICATION Spec

INVARIANT ResponseMatchesRequest
