\* Two processes, a failed read, and files of up to four clusters of two-byte sectors.
CONSTANTS
    SectorSize = 2
    Volumes <- MCVolumes
    Clusters = {2, 3, 4, 5}
    Word = 12
    Callers = {p1, p2}
    Offsets = {0, 1, 2, 3}
    MaxErrors = 1
SPECIFICATION FatSpec
INVARIANTS BytesInPlace AnswerExact  ListingExact
SYMMETRY Symmetry
CHECK_DEADLOCK FALSE
