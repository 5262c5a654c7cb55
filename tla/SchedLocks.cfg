CONSTANTS
    Slots = {p0, p1, p2}
    Idle = p0
    Locks = {b0}
    NoProc = none
    NoLock = nolock
    Creators = {p0, p1}
    Leavers = {}
    WaitTicks = {}
SPECIFICATION FairSpec
PROPERTIES LockServed IrqServed
