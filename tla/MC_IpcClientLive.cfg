\* Two threads on their own connections; the server may push a frame on
\* another stream or send an oversize frame (handshake faults and hang-ups
\* are explored by MC_IpcClient.cfg).
CONSTANTS
    Callers = {t1, t2}
    NoCaller = NoCaller
    Conns = {c1, c2}
    CallerConn <- OwnConn
    MaxCalls = 3
    MaxQueue = 2
    Faults = {"foreign", "big"}

SPECIFICATION Spec

PROPERTY CallsReturn
