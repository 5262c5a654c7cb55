CONSTANTS
    Slots = {p0, p1, p2, p3}
    Idle = p0
    Locks = {b0}
    NoProc = none
    NoLock = nolock
    Creators = {p0, p1, p2, p3}
    Leavers = {p1, p2, p3}
    WaitTicks = {}
SPECIFICATION Spec
INVARIANTS MutualExclusion  RingIntact StackAlive
PROPERTIES BypassedOnce
SYMMETRY Workers
