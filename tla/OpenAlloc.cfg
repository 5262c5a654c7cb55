\* One process maps a segment, the other allocates.
CONSTANTS
    MemPages = 8
    BasePage = 3
    Counts = {1, 2}
    Procs = {p1, p2}
    Loaders = {p1}
    Nobody = Nobody
SPECIFICATION RaceSpec
INVARIANTS OneHolder
