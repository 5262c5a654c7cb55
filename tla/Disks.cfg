SPECIFICATION Spec
CONSTANTS
    Machines <- MCMachines
    Word = 64
    PerSector = 2
    Rooms = {3, 14}
    MaxErrors = 1
INVARIANTS PartsInside  AllFound
CHECK_DEADLOCK FALSE
