------------------------------ MODULE FreeRace ------------------------------
(***************************************************************************)
(* The page allocator under the timer.  The callers in vmm.c disable       *)
(* interrupts around an allocation, which is then one step of PhysMem; two *)
(* paths do not, and are split here at every access to memory:             *)
(*   - pmm_free_page, reached with interrupts enabled from umm_free,       *)
(*     vmm_free_page and dmm_alloc_page;                                   *)
(*   - pmm_alloc_page for the second and later pages of                    *)
(*     vmm_mmap_pde_page: for the first page of a segment set_umm_value    *)
(*     calls dmm_alloc_page for a page table, and its enable_intr ends the *)
(*     section vmm_mmap_pde_page had opened with disable_intr.             *)
(* The compiled code (gcc -O, one CPU) sets and clears a bit and adds to   *)
(* the count in one instruction; pmm_alloc_page keeps the head and the     *)
(* tail it read in registers.                                              *)
(***************************************************************************)
EXTENDS PhysMem

CONSTANTS Procs,        \* processes that allocate and free pages
          Loaders,      \* those that load program segments of several pages
          Nobody

ASSUME FreeRaceAssumption == Loaders \subseteq Procs /\ Nobody \notin Procs

VARIABLES job,          \* job[p]: where p is in an operation, and the operation's locals
          masked,       \* the process that runs with interrupts disabled, or Nobody
          overlap,      \* ghost: a free overlapped another free or an open allocation
          shared        \* ghost: pages handed out although their bit was set

ghosts == <<overlap, shared>>
raceVars == <<vars, job, masked, ghosts>>

(* page is index in pmm_free_page and %ebx in pmm_alloc_page, done is i, and *)
(* bottom is pmm_head_pos as pmm_alloc_page read it.                         *)
Run == [at |-> "run", page |-> 0, count |-> 0, done |-> 0, bottom |-> 0]

RaceInit ==
    /\ PmmInit
    /\ job = [p \in Procs |-> Run]
    /\ masked = Nobody
    /\ overlap = FALSE
    /\ shared = {}

(* The timer may give the CPU to p whenever no other process masks it.      *)
(* Nothing is said of what follows the first page handed out twice.         *)
At(p, here) == masked \in {p, Nobody} /\ shared = {} /\ job[p].at = here
Goto(p, there) == job' = [job EXCEPT ![p].at = there]
Return(p) == job' = [job EXCEPT ![p] = Run]

Freeing(p) == job[p].at \in {"clear", "head1", "head2", "tail1", "tail2", "count"}
Opened(p) == job[p].at \in {"open2", "test", "skip", "take", "store", "less"}

-----------------------------------------------------------------------------
(* vmm_alloc_page and dmm_alloc_page of a process, disable_intr to           *)
(* enable_intr.                                                              *)
Allocate(p) ==
    /\ At(p, "run")
    /\ AllocPage \/ AllocPageFail \/ \E n \in Counts : UpAllocPage(n)
    /\ UNCHANGED <<job, masked, ghosts>>

(* pmm_free_page of a block the process holds. *)
FreeEnter(p) ==
    /\ At(p, "run")
    /\ \E x \in Usable, n \in Counts :
        /\ Block(x, n) \subseteq held
        /\ held' = held \ Block(x, n)
        /\ job' = [job EXCEPT ![p] = [Run EXCEPT !.at = "clear", !.page = x, !.count = n]]
    /\ overlap' = (overlap \/ \E q \in Procs \ {p} : Freeing(q) \/ Opened(q))
    /\ UNCHANGED <<used, head, tail, freeCount, masked, shared>>

FreeClear(p) ==
    /\ At(p, "clear")
    /\ LET j == job[p] IN
        /\ used' = used \ {j.page + j.done}
        /\ job' = [job EXCEPT ![p].done = j.done + 1,
                              ![p].at = IF j.done + 1 = j.count THEN "head1" ELSE "clear"]
    /\ UNCHANGED <<head, tail, freeCount, held, masked, ghosts>>

FreeTestHead(p) ==
    /\ At(p, "head1")
    /\ Goto(p, IF job[p].page < head THEN "head2" ELSE "tail1")
    /\ UNCHANGED <<vars, masked, ghosts>>

FreeSetHeadNot(p) ==                            \* mutation: the window is not widened
    /\ At(p, "head2")
    /\ Goto(p, "tail1")
    /\ UNCHANGED <<vars, masked, ghosts>>

FreeSetHead(p) ==
    /\ At(p, "head2")
    /\ head' = job[p].page
    /\ Goto(p, "tail1")
    /\ UNCHANGED <<used, tail, freeCount, held, masked, ghosts>>

LastPage(p) == job[p].page + job[p].count - 1

FreeTestTail(p) ==
    /\ At(p, "tail1")
    /\ Goto(p, IF LastPage(p) > tail THEN "tail2" ELSE "count")
    /\ UNCHANGED <<vars, masked, ghosts>>

FreeSetTail(p) ==
    /\ At(p, "tail2")
    /\ tail' = LastPage(p)
    /\ Goto(p, "count")
    /\ UNCHANGED <<used, head, freeCount, held, masked, ghosts>>

FreeAddOne(p) ==                                \* mutation: counts one page of the block
    /\ At(p, "count")
    /\ freeCount' = freeCount + 1
    /\ Return(p)
    /\ UNCHANGED <<used, head, tail, held, masked, ghosts>>

FreeAdd(p) ==
    /\ At(p, "count")
    /\ freeCount' = freeCount + job[p].count
    /\ Return(p)
    /\ UNCHANGED <<used, head, tail, held, masked, ghosts>>

-----------------------------------------------------------------------------
(* vmm_mmap_pde_page: disable_intr and the frame of a page not mapped yet.   *)
MapFirst(p) ==
    /\ At(p, "run") /\ p \in Loaders
    /\ AllocPage
    /\ masked' = p
    /\ Goto(p, "mapped")
    /\ UNCHANGED ghosts

(* set_umm_value found the page table there: the next frame, still masked... *)
MapNext(p) ==
    /\ At(p, "mapped")
    /\ AllocPage
    /\ UNCHANGED <<job, masked, ghosts>>

(* ... or no frame is left, or no page; enable_intr. *)
MapStop(p) ==
    /\ At(p, "mapped")
    /\ AllocPageFail \/ UNCHANGED vars
    /\ masked' = Nobody
    /\ Return(p)
    /\ UNCHANGED ghosts

(* set_umm_value allocates the page table: dmm_alloc_page enables            *)
(* interrupts, whether it found a page or not.                               *)
MapTable(p) ==
    /\ At(p, "mapped")
    /\ UpAllocPage(1) \/ UpAllocPageFail(1)
    /\ masked' = Nobody
    /\ Goto(p, "open1")
    /\ UNCHANGED ghosts

(* pmm_alloc_page for a further page, interrupts enabled.                    *)
OpenReadHead(p) ==
    /\ At(p, "open1")
    /\ job' = [job EXCEPT ![p].bottom = head, ![p].at = "open2"]
    /\ overlap' = (overlap \/ \E q \in Procs \ {p} : Freeing(q))
    /\ UNCHANGED <<vars, masked, shared>>

OpenReadTail(p) ==
    /\ At(p, "open2")
    /\ IF job[p].bottom < tail
       THEN job' = [job EXCEPT ![p].page = tail, ![p].at = "test"]
       ELSE Return(p)
    /\ UNCHANGED <<vars, masked, ghosts>>

OpenTest(p) ==
    /\ At(p, "test")
    /\ Goto(p, IF job[p].page \in used THEN "skip" ELSE "take")
    /\ UNCHANGED <<vars, masked, ghosts>>

OpenSkip(p) ==
    /\ At(p, "skip")
    /\ tail' = job[p].page - 1
    /\ IF tail' > job[p].bottom
       THEN job' = [job EXCEPT ![p].page = tail', ![p].at = "test"]
       ELSE Return(p)
    /\ UNCHANGED <<used, head, freeCount, held, masked, ghosts>>

OpenTakeUnset(p) ==                             \* mutation: the bit is not set
    /\ At(p, "take")
    /\ held' = held \cup {job[p].page}
    /\ shared' = used \cap {job[p].page}
    /\ Goto(p, "store")
    /\ UNCHANGED <<used, head, tail, freeCount, masked, overlap>>

OpenTake(p) ==
    /\ At(p, "take")
    /\ used' = used \cup {job[p].page}
    /\ held' = held \cup {job[p].page}
    /\ shared' = used \cap {job[p].page}
    /\ Goto(p, "store")
    /\ UNCHANGED <<head, tail, freeCount, masked, overlap>>

OpenStore(p) ==
    /\ At(p, "store")
    /\ tail' = job[p].page - 1
    /\ Goto(p, "less")
    /\ UNCHANGED <<used, head, freeCount, held, masked, ghosts>>

(* One page less; the loop of vmm_mmap_pde_page goes on or ends. *)
OpenCount(p) ==
    /\ At(p, "less")
    /\ freeCount' = freeCount - 1
    /\ \E there \in {"open1", "run"} : job' = [job EXCEPT ![p] = [Run EXCEPT !.at = there]]
    /\ UNCHANGED <<used, head, tail, held, masked, ghosts>>

Shared == shared # {} /\ UNCHANGED raceVars

RaceNext ==
    \/ \E p \in Procs :
        \/ Allocate(p)
        \/ FreeEnter(p) \/ FreeClear(p) \/ FreeTestHead(p) \/ FreeSetHead(p)
        \/ FreeTestTail(p) \/ FreeSetTail(p) \/ FreeAdd(p)
        \/ MapFirst(p) \/ MapNext(p) \/ MapStop(p) \/ MapTable(p)
        \/ OpenReadHead(p) \/ OpenReadTail(p) \/ OpenTest(p) \/ OpenSkip(p)
        \/ OpenTake(p) \/ OpenStore(p) \/ OpenCount(p)
    \/ Shared

RaceSpec == RaceInit /\ [][RaceNext]_raceVars

-----------------------------------------------------------------------------
(* The pages of the block p is freeing, and those whose bit it has cleared.  *)
Leaving(p) == IF Freeing(p) THEN Block(job[p].page, job[p].count) ELSE {}
Cleared(p) == IF Freeing(p) THEN Block(job[p].page, job[p].done) ELSE {}

(* Wherever the timer cuts a free or an allocation, a set bit belongs to a   *)
(* reserved page, to one somebody holds, or to one whose bit is about to be  *)
(* cleared; no bit of a held page is clear.                                  *)
BitsTold ==
    used = (Bitmap \ Usable) \cup held
           \cup UNION {Leaving(p) \ Cleared(p) : p \in Procs}

(* The count of free pages is never wrong for good: it differs from the      *)
(* bitmap exactly by what the processes in the middle of an operation have   *)
(* not added or taken off yet.                                               *)
CountOwed ==
    LET owed == UNION {{p} \X Cleared(p) : p \in Procs}
        taken == {p \in Procs : job[p].at \in {"store", "less"}}
    IN  shared = {} =>
        freeCount + Cardinality(owed) = Cardinality(Free) + Cardinality(taken)

(* A free page leaves the window the allocators search, and is lost to them, *)
(* only after a free was cut by another free or by an allocation that runs   *)
(* with interrupts enabled: atomic allocations and one free cannot lose one. *)
LossNeedsOverlap ==
    ~overlap =>
        \A x \in Free : (head <= x /\ x <= tail) \/ \E p \in Procs : x \in Leaving(p)

(* An allocation the caller runs with interrupts disabled, as the commented  *)
(* process_lock of vmm_mmap_pde_page asks: no page has two holders.          *)
OneHolder == shared = {}
=============================================================================
