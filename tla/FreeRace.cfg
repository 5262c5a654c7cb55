\* Two processes, five pages behind three reserved ones.
CONSTANTS
    MemPages = 8
    BasePage = 3
    Counts = {1, 2}
    Procs = {p1, p2}
    Loaders = {p1}
    Nobody = Nobody
SPECIFICATION RaceSpec
INVARIANTS BitsTold CountOwed LossNeedsOverlap
