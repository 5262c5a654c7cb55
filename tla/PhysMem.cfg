CONSTANTS
    MemPages = 12
    BasePage = 3
    Counts = {1, 2, 3}
SPECIFICATION Spec
INVARIANTS Accounted FreeInWindow CountExact
 
