CONSTANTS
    Keeper = t1
    Cycler = t2
    Threads = {t1, t2}
    NoThread = NoThread
    MaxFds = 1
    Fds = {3, 4}
    GenBits = 16
    MaxEpoch = 65537
    IOLen = 1
    HooksMayFail = FALSE

SPECIFICATION WrapSpec
CONSTRAINT WrapScenario

INVARIANT HandleSafety
