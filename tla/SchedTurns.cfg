CONSTANTS
    Slots = {p0, p1, p2}
    Idle = p0
    Locks = {}
    NoProc = none
    NoLock = nolock
    Creators = {p0, p1, p2}
    Leavers = {p1, p2}
    WaitTicks = {0, 2}
SPECIFICATION FairSpec
PROPERTIES ScanEnds WaitOver TurnComes
