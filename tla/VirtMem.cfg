\* One user process and a kernel path beside it; four frames, a window of four pages.
CONSTANTS
    Frames = {f1, f2, f3, f4}
    Zero = Zero
    None = None
    Window = 4
    Counts = {1, 2}
    Procs = {p1, p2}
    Users = {p1}
    UserPages = {0, 1, 2}
    PerTable = 2
    Nobody = Nobody
SPECIFICATION Spec
INVARIANTS FrameOnce BlocksApart  CountExact 
SYMMETRY FrameSymmetry
CHECK_DEADLOCK FALSE
