\* One process prints while keys are echoed; a screen of two lines of four.
CONSTANTS
    Columns = 4
    Lines = 2
    TabSize = 2
    Byte = 4
    Procs = {p1}
    Keys <- MCKeys
SPECIFICATION Spec
INVARIANTS Settled CursorShown FlagsAgree
