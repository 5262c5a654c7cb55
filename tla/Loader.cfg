\* Two programs start at once, after the disks, over four pages of heap.
CONSTANTS
    Pages = {0, 1, 2, 3}
    PageSize = 5
    Lengths <- MCLengths
    Callers = {boot, j1, j2}
    NoBlock = null
    Boot = boot
    Programs <- MCPrograms
SPECIFICATION LoaderSpec
INVARIANTS BlocksApart PagesHeld  NothingKept 
SYMMETRY Starts
CHECK_DEADLOCK FALSE
