CONSTANTS
    Threads = {t1, t2}
    NoThread = NoThread
    MaxFds = 1
    Fds = {3, 4}
    GenBits = 16
    MaxEpoch = 2
    IOLen = 1
    HooksMayFail = TRUE

SPECIFICATION Spec

INVARIANT TypeOK
INVARIANT HandleSafety
INVARIANT FdOwnership
PROPERTY ImplementsHandleTable
 
