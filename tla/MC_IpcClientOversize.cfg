\* One thread on one connection; the server may send an oversize frame.
CONSTANTS
    Callers = {t1}
    NoCaller = NoCaller
    Conns = {c1}
    CallerConn <- SharedConn
    MaxCalls = 3
    MaxQueue = 2
    Faults = {"big"}

SPECIFICATION Spec

INVARIANT StreamInSync
