------------------------------- MODULE Loader -------------------------------
(***************************************************************************)
(* Starting a program: exec of kernel/process/exec.c copies the path to    *)
(* the heap and creates a process, which reads the file (kernel/binfmt/    *)
(* binfmt.c, elf.c), maps and fills its segments, frees the path and       *)
(* enters user mode, or gives up and exits.  Many programs start at once,  *)
(* by sys_exec; they meet in the heap.                                     *)
(***************************************************************************)
EXTENDS Heap, Sequences

CONSTANTS Boot,         \* the caller that stands for the disks found at boot
          Programs      \* what files hold: [elf, segs], segs[i] the type of a program header

ASSUME LoaderAssumption ==
    /\ Boot \in Callers
    /\ \A f \in Programs : f.elf \in BOOLEAN /\ f.segs \in Seq({"load", "other"})

Jobs == Callers \ {Boot}

VARIABLES
    step,       \* step[j]: where each exec and then its process is
    path,       \* path[j]: the copy of the path
    pde,        \* pde[j]: it has a page directory
    win,        \* win[j]: it has a segment mapped into the kernel window
    file,       \* file[j]: what the file holds
    seen,       \* seen[j]: what elf_exec has in header
    n,          \* n[j]: program headers done, load_program's n
    loaded,     \* loaded[j]: the segments filled
    short       \* short[j]: ghost, a file_read returned less than a header

progVars == <<file, seen, n, loaded, short>>
loaderVars == <<step, path, pde, win, progVars>>
allVars == <<heapVars, loaderVars>>

NoFile == [elf |-> FALSE, segs |-> <<>>]

LoaderInit ==
    /\ HeapInit
    /\ step = [j \in Callers |-> IF j = Boot THEN "boot" ELSE "over"]
    /\ path = [j \in Callers |-> NoBlock]
    /\ pde = [j \in Callers |-> FALSE]
    /\ win = [j \in Callers |-> FALSE]
    /\ file = [j \in Callers |-> NoFile]
    /\ seen = [j \in Callers |-> NoFile]
    /\ n = [j \in Callers |-> 0]
    /\ loaded = [j \in Callers |-> {}]
    /\ short = [j \in Callers |-> FALSE]

Step(j, there) == step' = [step EXCEPT ![j] = there]
At(j, here) == step[j] = here /\ at[j] = "out" /\ ~raced

-----------------------------------------------------------------------------
(* What calls of the heap do to their caller.  disk_create and fat_init keep *)
(* their blocks for good; exec goes on with the path, or drops the page      *)
(* directory.                                                                *)
Malloc(j) ==
    /\ step[j] \in {"boot", "path"}
    /\ \E len \in Lengths : MallocTail(j, len) \/ MallocPages(j, len)
    /\ UNCHANGED loaderVars

MallocGoesOn(j) == (Grant(j) \/ Fresh(j)) /\ UNCHANGED loaderVars

MallocFails(j) ==
    /\ step[j] = "path" /\ Refuse(j)
    /\ Step(j, "nopath")
    /\ UNCHANGED <<path, pde, win, progVars>>

MallocDone(j) ==
    /\ Link(j)
    /\ path' = [path EXCEPT ![j] = mem[j]]
    /\ Step(j, IF j = Boot THEN "kept" ELSE "create")
    /\ UNCHANGED <<pde, win, progVars>>

FreePathEarly(j) ==                     \* mutation: elf_exec frees the path before it loads
    /\ step[j] \in {"segs", "giveup"} /\ at[j] = "out" /\ path[j] # NoBlock
    /\ Free(j, path[j])
    /\ UNCHANGED loaderVars

FreePath(j) ==
    /\ step[j] \in {"ready", "giveup"} /\ at[j] = "out" /\ path[j] # NoBlock
    /\ Free(j, path[j])
    /\ UNCHANGED loaderVars

FreeGoesOn(j) ==
    /\ Unlink(j)
    /\ path' = [path EXCEPT ![j] = NoBlock]
    /\ UNCHANGED <<step, pde, win, progVars>>

FreeDone(j) == GiveBack(j) /\ UNCHANGED loaderVars

-----------------------------------------------------------------------------
(* exec: the page directory ...                                              *)
Exec(j) ==
    /\ At(j, "over") /\ step[Boot] = "kept"
    /\ pde' = [pde EXCEPT ![j] = TRUE]
    /\ Step(j, "path")
    /\ UNCHANGED <<heapVars, path, win, progVars>>

(* ... and the process ...                                                   *)
Create(j) ==
    /\ At(j, "create")
    /\ Step(j, "open")
    /\ UNCHANGED <<heapVars, path, pde, win, progVars>>

CreateFailsDirty(j) ==                  \* mutation: the page directory is not freed
    /\ At(j, "create")
    /\ Step(j, "noprocess")
    /\ UNCHANGED <<heapVars, path, pde, win, progVars>>

(* ... or none: the directory is freed, the path is not.                     *)
CreateFails(j) ==
    /\ At(j, "create")
    /\ pde' = [pde EXCEPT ![j] = FALSE]
    /\ Step(j, "noprocess")
    /\ UNCHANGED <<heapVars, path, win, progVars>>
-----------------------------------------------------------------------------
(* The new process has not read anything, or will not read any more.         *)
ForgetFile(j) ==
    /\ file' = [file EXCEPT ![j] = NoFile] /\ seen' = [seen EXCEPT ![j] = NoFile]
    /\ n' = [n EXCEPT ![j] = 0] /\ loaded' = [loaded EXCEPT ![j] = {}]
    /\ short' = [short EXCEPT ![j] = FALSE]
GiveUp(j) == Step(j, "giveup") /\ ForgetFile(j)

(* elf_exec, in the new process: the header.  -1 ends it; an answer that is  *)
(* too short goes unnoticed and leaves in header whatever the stack held.    *)
ReadHeader(j) ==
    /\ At(j, "open")
    /\ \E f, g \in Programs :
        /\ file' = [file EXCEPT ![j] = f]
        /\ seen' = [seen EXCEPT ![j] = g]
        /\ short' = [short EXCEPT ![j] = g # f]
        /\ g.elf
    /\ Step(j, "segs")
    /\ UNCHANGED <<heapVars, path, pde, win, n, loaded>>

(* A header that is not an executable's.                                     *)
NotElf(j) ==
    /\ At(j, "open") /\ \E g \in Programs : ~g.elf
    /\ GiveUp(j)
    /\ UNCHANGED <<heapVars, path, pde, win>>

ReadFails(j) ==
    /\ At(j, "open") \/ (At(j, "segs") /\ n[j] < Len(seen[j].segs))
    /\ GiveUp(j)
    /\ UNCHANGED <<heapVars, path, pde, win>>

(* load_program: a program header, short ones as above ...                   *)
NextSegment(j) ==
    /\ At(j, "segs") /\ n[j] < Len(seen[j].segs)
    /\ \E type \in {"load", "other"} :
        /\ short' = [short EXCEPT ![j] = @ \/ type # seen[j].segs[n[j] + 1]]
        /\ IF type = "load" THEN Step(j, "map") /\ UNCHANGED n
                            ELSE n' = [n EXCEPT ![j] = @ + 1] /\ UNCHANGED step
    /\ UNCHANGED <<heapVars, path, pde, win, file, seen, loaded>>

(* ... umm_mmap_kmm ...                                                      *)
MapSegment(j) ==
    /\ At(j, "map")
    /\ win' = [win EXCEPT ![j] = TRUE]
    /\ Step(j, "fill")
    /\ UNCHANGED <<heapVars, path, pde, progVars>>

MapFails(j) ==
    /\ At(j, "map")
    /\ GiveUp(j)
    /\ UNCHANGED <<heapVars, path, pde, win>>

(* ... the segment's bytes, zeros behind them, umm_ummap_kmm ...             *)
FillSegment(j) ==
    /\ At(j, "fill")
    /\ loaded' = [loaded EXCEPT ![j] = @ \cup {n[j] + 1}]
    /\ n' = [n EXCEPT ![j] = @ + 1]
    /\ win' = [win EXCEPT ![j] = FALSE]
    /\ Step(j, "segs")
    /\ UNCHANGED <<heapVars, path, pde, file, seen, short>>

FillFailsGoesOn(j) ==                   \* mutation: load_program goes on with the next one
    /\ At(j, "fill")
    /\ n' = [n EXCEPT ![j] = @ + 1]
    /\ win' = [win EXCEPT ![j] = FALSE]
    /\ Step(j, "segs")
    /\ UNCHANGED <<heapVars, path, pde, file, seen, loaded, short>>

FillFails(j) ==
    /\ At(j, "fill")
    /\ win' = [win EXCEPT ![j] = FALSE]
    /\ GiveUp(j)
    /\ UNCHANGED <<heapVars, path, pde>>

(* ... and when the headers are done, kfree(path).                           *)
Loaded(j) ==
    /\ At(j, "segs") /\ n[j] = Len(seen[j].segs)
    /\ Step(j, "ready")
    /\ UNCHANGED <<heapVars, path, pde, win, progVars>>

(* switch_to_user_mode.                                                      *)
EnterUser(j) ==
    /\ At(j, "ready") /\ path[j] = NoBlock
    /\ Step(j, "user")
    /\ UNCHANGED <<heapVars, path, pde, win, progVars>>

(* exec_exit: when a program calls sys_exit or faults, and when binfmt_exec  *)
(* returns, having freed the path.                                           *)
Exit(j) ==
    /\ At(j, "user") \/ (At(j, "giveup") /\ path[j] = NoBlock)
    /\ pde' = [pde EXCEPT ![j] = FALSE]
    /\ Step(j, "over") /\ ForgetFile(j)
    /\ UNCHANGED <<heapVars, path, win>>

LoaderNext ==
    \E j \in Callers :
        \/ Malloc(j) \/ MallocGoesOn(j) \/ MallocFails(j) \/ MallocDone(j)
        \/ FreePath(j) \/ FreeGoesOn(j) \/ FreeDone(j)
        \/ Exec(j) \/ Create(j) \/ CreateFails(j)
        \/ ReadHeader(j) \/ NotElf(j) \/ ReadFails(j) \/ NextSegment(j) \/ MapSegment(j) \/ MapFails(j)
        \/ FillSegment(j) \/ FillFails(j) \/ Loaded(j) \/ EnterUser(j) \/ Exit(j)

LoaderSpec == LoaderInit /\ [][LoaderNext]_allVars

-----------------------------------------------------------------------------
(* While a process still reads its file by its path, the path is a block of  *)
(* the heap, and nobody else's.                                              *)
Reading == {"create", "open", "segs", "map", "fill"}
PathAlive ==
    ~raced => \A j \in Jobs : step[j] \in Reading =>
        /\ path[j] \in Live
        /\ \A k \in Callers \ {j} : path[k] # path[j]

(* Whatever fails, a program that is over has given back its page directory, *)
(* its path and its mapped segment, except in two places: exec drops the     *)
(* directory when there is no memory for the path, and the path when there   *)
(* is no process.  The heap holds nothing else.                              *)
NothingKept ==
    /\ \A j \in Jobs : step[j] \in {"over", "nopath", "noprocess"} =>
        /\ pde[j] = (step[j] = "nopath")
        /\ (path[j] # NoBlock) = (step[j] = "noprocess")
        /\ ~win[j]
    /\ ~raced => Live = {path[j] : j \in Callers} \ {NoBlock}

(* A program that runs is an executable all of whose segments were loaded,   *)
(* unless a read of a header came back short, which nothing tests.           *)
RunsWhole ==
    \A j \in Jobs : step[j] = "user" /\ ~short[j] =>
        /\ file[j].elf
        /\ loaded[j] = {i \in DOMAIN file[j].segs : file[j].segs[i] = "load"}
=============================================================================
