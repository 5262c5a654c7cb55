------------------------------ MODULE VirtMem ------------------------------
(***************************************************************************)
(* Virtual memory: the window of kernel pages behind the direct mapping    *)
(* (kernel/mm/vmm.c, kmm.c) and the page tables of user processes (umm.c), *)
(* for several processes inside the kernel at once.  Memory is at most     *)
(* DMMAP_PAGE_MAX pages, so every frame has a direct address and           *)
(* vmm_mmap_page returns its argument.                                     *)
(*                                                                         *)
(* Frames come from the page allocator: any frame of the free set, as      *)
(* PageAllocator promises.  What runs with interrupts disabled is one      *)
(* step; vmm_free_page, vmm_ummap_page, umm_free and the part of           *)
(* vmm_mmap_pde_page behind the enable_intr of dmm_alloc_page are not.     *)
(***************************************************************************)
EXTENDS Integers, FiniteSets

CONSTANTS Frames,       \* the frames of pmm.c
          Zero,         \* page 0, which pmm_free_page(NULL, 1) frees
          None,         \* an entry that is 0
          Window,       \* vmmap_page_count
          Counts,       \* the sizes of kernel blocks and of user buffers
          Procs,        \* processes in the kernel
          Users,        \* those with a user address space
          UserPages,    \* the pages of a user address space ...
          PerTable,     \* ... and how many of them one page table maps
          Nobody

ASSUME VirtMemAssumption ==
    /\ Window \in Nat \ {0, 1} /\ PerTable \in Nat \ {0}
    /\ UserPages \subseteq Nat /\ Counts \subseteq Nat \ {0}
    /\ Users \subseteq Procs /\ Nobody \notin Procs /\ IsFiniteSet(Procs)
    /\ Zero \notin Frames /\ None \notin Frames \cup {Zero}

VARIABLES free,         \* frames whose bit in pmm_bitmap is clear
          kmap,         \* globl_mmap_pte behind the direct mapping
          vmmPos,       \* vmm_pos
          vmmFree,      \* vmm_free_page_count
          dir,          \* dir[u]: the frame of u's page directory
          table,        \* table[u]: the frames of u's page tables
          page,         \* page[u]: the frames of u's pages
          job,          \* job[p]: where p is in an operation, and its locals
          masked,       \* who runs with interrupts disabled
          own,          \* ghost: kernel blocks handed out, <<head, count>>
          failed,       \* ghost: an allocation failed half-way
          raced,        \* ghost: unprotected sections overlapped
          broken        \* ghost: the size of a block searched for below the window

window == <<kmap, vmmPos, vmmFree>>
space == <<dir, table, page>>
ghosts == <<own, failed, raced, broken>>
vars == <<free, window, space, job, masked, ghosts>>

Tables == {u \div PerTable : u \in UserPages}
Pages == 0 .. Window - 1
Block(h, n) == h .. h + n - 1
Run == [at |-> "run", head |-> 0, count |-> 0, done |-> 0, first |-> 0,
        phy |-> None, open |-> FALSE]

Init ==
    /\ free = Frames
    /\ kmap = [i \in Pages |-> None]
    /\ vmmPos = Window - 1
    /\ vmmFree = Window
    /\ dir = [u \in Users |-> None]
    /\ table = [u \in Users |-> [t \in Tables |-> None]]
    /\ page = [u \in Users |-> [a \in UserPages |-> None]]
    /\ job = [p \in Procs |-> Run]
    /\ masked = Nobody
    /\ own = {} /\ failed = FALSE /\ raced = FALSE /\ broken = 0

(* The timer may give the CPU to p whenever no other process masks it.      *)
(* Nothing is said of what follows a block mapped below the window or an    *)
(* overlap of unprotected sections.                                          *)
At(p, here) ==
    masked \in {p, Nobody} /\ broken = 0 /\ ~raced /\ job[p].at = here
Goto(p, there) == job' = [job EXCEPT ![p].at = there]
Return(p) == job' = [job EXCEPT ![p] = Run]

-----------------------------------------------------------------------------
(* A request for one frame can fail only when less than two are free, or    *)
(* when it is given page 0, whose address is NULL.                           *)
NoFrame ==
    \/ Cardinality(free) <= 1 /\ UNCHANGED free
    \/ Zero \in free /\ free' = free \ {Zero}

FitShort(count) ==                              \* mutation: one page less is tested
    {p \in 1 .. vmmPos : \A i \in 0 .. count - 2 : p - i >= 0 => kmap[p - i] = None}

(* The starts p at which vmm_alloc_page and vmm_mmap_pde_page find count     *)
(* pages.  Indices are unsigned, p - i < 0 is never true, and get_vmm_page   *)
(* answers 0 for one that wrapped: below page 0 everything looks free.       *)
Fit(count) == {p \in 1 .. vmmPos : \A i \in 0 .. count - 1 :
                    p - i >= 0 => kmap[p - i] = None}
FirstFit(p, count) == p \in Fit(count) /\ \A q \in Fit(count) : q <= p

(* The search stepped below page 0, or will, because vmm_pos -= i wraps.     *)
Below(p, count) == p - count + 1 < 0 \/ (p = vmmPos /\ p - count < 0)
StepsBelow(count) ==
    /\ Fit(count) = {} /\ count > 1 /\ vmmPos > 0
    /\ kmap[0] # None /\ kmap[1] = None

SearchBreaks(p, count) ==
    /\ At(p, "run")
    /\ StepsBelow(count) \/ \E q \in Pages : FirstFit(q, count) /\ Below(q, count)
    /\ broken' = count
    /\ UNCHANGED <<free, window, space, job, masked, own, failed, raced>>

(* Someone takes pages while another process is behind the enable_intr that  *)
(* ended its section early.                                                  *)
Cuts(p) == \E q \in Procs \ {p} : job[q].open

-----------------------------------------------------------------------------
(* vmm_alloc_page for kernel stacks and kmalloc.                             *)
KAlloc(p, count) ==
    /\ At(p, "run")
    /\ \E q \in Pages, f \in [Block(0, count) -> free \ {Zero}] :
        /\ FirstFit(q, count) /\ ~Below(q, count)
        /\ \A i, j \in Block(0, count) : f[i] = f[j] => i = j
        /\ LET h == q - count + 1 IN
            /\ kmap' = [i \in Pages |-> IF i \in Block(h, count) THEN f[i - h] ELSE kmap[i]]
            /\ own' = own \cup {<<h, count>>}
            /\ free' = free \ {f[i] : i \in Block(0, count)}
        /\ vmmPos' = IF q = vmmPos THEN q - count ELSE vmmPos
    /\ vmmFree' = vmmFree - count
    /\ raced' = (raced \/ Cuts(p))
    /\ UNCHANGED <<space, job, masked, failed, broken>>

(* The frames run out after the first done of them.  The clean-up removes    *)
(* the pages behind head, page head + done first, then frees the frames it   *)
(* reads from the removed entries: page 0.                                   *)
KAllocFail(p, count) ==
    /\ At(p, "run")
    /\ \E q \in Pages, done \in Block(0, count) :
       \E f \in [Block(0, done) -> free \ {Zero}] :
        /\ FirstFit(q, count) /\ ~Below(q, count)
        /\ \A i, j \in Block(0, done) : f[i] = f[j] => i = j
        /\ LET rest == free \ {f[i] : i \in Block(0, done)} IN
            /\ Cardinality(rest) <= 1 \/ Zero \in rest
            /\ free' = IF done > 0 THEN rest \cup {Zero} ELSE rest \ {Zero}
        /\ kmap' = IF done > 0 THEN [kmap EXCEPT ![q - count + 1] = f[0]] ELSE kmap
        /\ failed' = (failed \/ done > 0)
    /\ UNCHANGED <<vmmPos, vmmFree, space, job, masked, own, raced, broken>>

(* vmm_free_page: the frame of a page, then its entry, page by page.         *)
KFree(p) ==
    /\ At(p, "run")
    /\ \E b \in own :
        /\ own' = own \ {b}
        /\ job' = [job EXCEPT ![p] = [Run EXCEPT !.at = "give", !.head = b[1], !.count = b[2]]]
    /\ UNCHANGED <<free, window, space, masked, failed, raced, broken>>

KFreeFrame(p) ==
    /\ At(p, "give")
    /\ LET f == kmap[job[p].head + job[p].done] IN
        free' = free \cup {IF f = None THEN Zero ELSE f}
    /\ Goto(p, "remove")
    /\ UNCHANGED <<window, space, masked, ghosts>>

Remove(p) ==
    /\ At(p, "remove") \/ At(p, "unmap")
    /\ LET j == job[p] IN
        /\ kmap' = [kmap EXCEPT ![j.head + j.done] = None]
        /\ job' = [job EXCEPT ![p].done = j.done + 1,
                    ![p].at = IF j.done + 1 = j.count THEN "test"
                              ELSE IF j.at = "remove" THEN "give" ELSE "unmap"]
    /\ UNCHANGED <<free, vmmPos, vmmFree, space, masked, ghosts>>

Last(p) == job[p].head + job[p].count - 1

TestPosHead(p) ==                               \* mutation: the first page, not the last
    /\ At(p, "test")
    /\ Goto(p, IF job[p].head > vmmPos THEN "store" ELSE "count")
    /\ UNCHANGED <<free, window, space, masked, ghosts>>

TestPos(p) ==
    /\ At(p, "test")
    /\ Goto(p, IF Last(p) > vmmPos THEN "store" ELSE "count")
    /\ UNCHANGED <<free, window, space, masked, ghosts>>

StorePos(p) ==
    /\ At(p, "store")
    /\ vmmPos' = Last(p)
    /\ raced' = (raced \/ \E q \in Procs \ {p} : job[q].at = "store")
    /\ Goto(p, "count")
    /\ UNCHANGED <<free, kmap, vmmFree, space, masked, own, failed, broken>>

AddCountOne(p) ==                               \* mutation: counts one page
    /\ At(p, "count")
    /\ vmmFree' = vmmFree + 1
    /\ Return(p)
    /\ UNCHANGED <<free, kmap, vmmPos, space, masked, ghosts>>

AddCount(p) ==
    /\ At(p, "count")
    /\ vmmFree' = vmmFree + job[p].count
    /\ Return(p)
    /\ UNCHANGED <<free, kmap, vmmPos, space, masked, ghosts>>

-----------------------------------------------------------------------------
(* umm_alloc_pde, and umm_free's counterpart: the tables with their pages,   *)
(* one after the other, then the directory.                                  *)
AllocPde(u) ==
    /\ At(u, "run") /\ dir[u] = None
    /\ \E f \in free \ {Zero} : dir' = [dir EXCEPT ![u] = f] /\ free' = free \ {f}
    /\ UNCHANGED <<window, table, page, job, masked, ghosts>>

Exit(u) ==
    /\ At(u, "run") /\ dir[u] # None
    /\ Goto(u, "exit")
    /\ UNCHANGED <<free, window, space, masked, ghosts>>

Mapped(u, t) == {page[u][a] : a \in {b \in UserPages : b \div PerTable = t}} \ {None}

FreeTable(u) ==
    /\ At(u, "exit")
    /\ \E t \in Tables :
        /\ table[u][t] # None /\ \A s \in Tables : table[u][s] # None => t <= s
        /\ free' = free \cup Mapped(u, t) \cup {table[u][t]}
        /\ table' = [table EXCEPT ![u][t] = None]
        /\ page' = [page EXCEPT ![u] =
                        [a \in UserPages |-> IF a \div PerTable = t THEN None ELSE @[a]]]
    /\ UNCHANGED <<window, dir, job, masked, ghosts>>

FreePde(u) ==
    /\ At(u, "exit") /\ \A t \in Tables : table[u][t] = None
    /\ free' = free \cup {dir[u]}
    /\ dir' = [dir EXCEPT ![u] = None]
    /\ Return(u)
    /\ UNCHANGED <<window, table, page, masked, ghosts>>

SetUserAgain(u, a, f, left) ==                  \* mutation: the frame of a table stays free
    \E g \in left \ {Zero} :
        /\ table' = [table EXCEPT ![u][a \div PerTable] = g]
        /\ page' = [page EXCEPT ![u][a] = f]
        /\ free' = left

(* set_umm_value enters frame f at page a, in a page table it may have to    *)
(* allocate first from the frames left.                                      *)
SetUser(u, a, f, left) ==
    \/ /\ table[u][a \div PerTable] # None
       /\ page' = [page EXCEPT ![u][a] = f]
       /\ free' = left
       /\ UNCHANGED table
    \/ /\ table[u][a \div PerTable] = None
       /\ \E g \in left \ {Zero} :
            /\ table' = [table EXCEPT ![u][a \div PerTable] = g]
            /\ page' = [page EXCEPT ![u][a] = f]
            /\ free' = left \ {g}

SetUserFail(u, a, left) ==
    /\ table[u][a \div PerTable] = None
    /\ Cardinality(left) <= 1 \/ Zero \in left
    /\ UNCHANGED <<table, page>>

(* umm_handler: a page fault of the user program; if it gets no frame or no  *)
(* page table the process ends.                                              *)
Fault(u) ==
    /\ At(u, "run") /\ dir[u] # None
    /\ \E a \in UserPages :
        /\ page[u][a] = None
        /\ \/ \E f \in free \ {Zero} : SetUser(u, a, f, free \ {f}) /\ UNCHANGED job
           \/ \E f \in free \ {Zero} :
                SetUserFail(u, a, free \ {f}) /\ free' = free \ {Zero} /\ Goto(u, "exit")
           \/ NoFrame /\ UNCHANGED <<table, page>> /\ Goto(u, "exit")
    /\ UNCHANGED <<window, dir, masked, ghosts>>

-----------------------------------------------------------------------------
(* umm_mmap_kmm of one page that is not mapped yet: vmm_alloc_page(1) ...    *)
MapOne(u) ==
    /\ At(u, "run") /\ dir[u] # None
    /\ \E q \in Pages, f \in free \ {Zero}, a \in UserPages :
        /\ page[u][a] = None
        /\ FirstFit(q, 1) /\ ~Below(q, 1)
        /\ kmap' = [kmap EXCEPT ![q] = f]
        /\ vmmPos' = IF q = vmmPos THEN q - 1 ELSE vmmPos
        /\ free' = free \ {f}
        /\ job' = [job EXCEPT ![u] = [Run EXCEPT !.at = "setone", !.head = q, !.count = 1,
                                                 !.first = a, !.phy = f]]
    /\ vmmFree' = vmmFree - 1
    /\ raced' = (raced \/ Cuts(u))
    /\ UNCHANGED <<space, masked, own, failed, broken>>

(* ... and set_umm_value, whose answer it does not look at.                  *)
SetOne(u) ==
    /\ At(u, "setone")
    /\ LET j == job[u] IN
        /\ \/ SetUser(u, j.first, j.phy, free) /\ UNCHANGED failed
           \/ SetUserFail(u, j.first, free) /\ free' = free \ {Zero} /\ failed' = TRUE
        /\ job' = [job EXCEPT ![u] = [Run EXCEPT !.at = "buffer", !.head = j.head, !.count = 1]]
    /\ UNCHANGED <<window, dir, masked, own, raced, broken>>

(* vmm_mmap_pde_page: disable_intr and the search for count pages ...        *)
MapBegin(u, count) ==
    /\ At(u, "run") /\ dir[u] # None /\ count > 1
    /\ \E q \in Pages, a \in UserPages :
        /\ Block(a, count) \subseteq UserPages
        /\ FirstFit(q, count) /\ ~Below(q, count)
        /\ job' = [job EXCEPT ![u] = [Run EXCEPT !.at = "frame", !.head = q - count + 1,
                                                 !.count = count, !.first = a]]
    /\ masked' = u
    /\ raced' = (raced \/ Cuts(u))
    /\ UNCHANGED <<free, window, space, own, failed, broken>>

UserPage(u) == job[u].first + job[u].done

(* ... then page by page: the frame the process has there, or a new one ...  *)
MapFrame(u) ==
    /\ At(u, "frame")
    /\ \/ /\ page[u][UserPage(u)] # None
          /\ job' = [job EXCEPT ![u].at = "map", ![u].phy = page[u][UserPage(u)]]
          /\ UNCHANGED free
       \/ /\ page[u][UserPage(u)] = None
          /\ \E f \in free \ {Zero} :
                /\ free' = free \ {f}
                /\ job' = [job EXCEPT ![u].at = "set", ![u].phy = f]
    /\ UNCHANGED <<window, space, masked, ghosts>>

(* ... entered into the user's tables; a page table allocated on the way     *)
(* ends the section, as the enable_intr of dmm_alloc_page does ...           *)
MapSet(u) ==
    /\ At(u, "set")
    /\ LET opens == table[u][UserPage(u) \div PerTable] = None IN
        /\ job' = [job EXCEPT ![u].at = "map", ![u].open = @ \/ opens]
        /\ masked' = IF opens THEN Nobody ELSE masked
    /\ \/ SetUser(u, UserPage(u), job[u].phy, free) /\ UNCHANGED failed
       \/ SetUserFail(u, UserPage(u), free) /\ free' = free \ {Zero} /\ failed' = TRUE
    /\ UNCHANGED <<window, dir, own, raced, broken>>

(* ... and into the window.                                                  *)
MapEnter(u) ==
    /\ At(u, "map")
    /\ LET j == job[u] IN
        /\ kmap' = [kmap EXCEPT ![j.head + j.done] = j.phy]
        /\ job' = [job EXCEPT ![u].done = j.done + 1, ![u].phy = None,
                              ![u].at = IF j.done + 1 = j.count THEN "end" ELSE "frame"]
    /\ UNCHANGED <<free, vmmPos, vmmFree, space, masked, ghosts>>

MapEnd(u) ==
    /\ At(u, "end")
    /\ vmmPos' = IF Last(u) = vmmPos THEN vmmPos - job[u].count ELSE vmmPos
    /\ vmmFree' = vmmFree - job[u].count
    /\ masked' = Nobody
    /\ job' = [job EXCEPT ![u] = [Run EXCEPT !.at = "buffer", !.head = job[u].head,
                                             !.count = job[u].count]]
    /\ UNCHANGED <<free, kmap, space, ghosts>>

(* No frame: the clean-up removes the pages behind the first.                *)
MapFail(u) ==
    /\ At(u, "frame")
    /\ page[u][UserPage(u)] = None /\ NoFrame
    /\ LET j == job[u] IN
        /\ kmap' = [i \in Pages |-> IF i \in j.head + 1 .. j.head + j.done
                                    THEN None ELSE kmap[i]]
        /\ failed' = (failed \/ j.done > 0)
    /\ masked' = Nobody
    /\ Return(u)
    /\ UNCHANGED <<vmmPos, vmmFree, space, own, raced, broken>>

(* umm_ummap_kmm, vmm_ummap_page: the buffer has been read or written.       *)
Unmap(u) ==
    /\ At(u, "buffer")
    /\ Goto(u, "unmap")
    /\ UNCHANGED <<free, window, space, masked, ghosts>>

-----------------------------------------------------------------------------
Next ==
    \/ \E p \in Procs :
        \/ \E n \in Counts : KAlloc(p, n) \/ KAllocFail(p, n) \/ SearchBreaks(p, n)
        \/ KFree(p) \/ KFreeFrame(p) \/ Remove(p) \/ TestPos(p) \/ StorePos(p) \/ AddCount(p)
    \/ \E u \in Users :
        \/ AllocPde(u) \/ Exit(u) \/ FreeTable(u) \/ FreePde(u) \/ Fault(u)
        \/ MapOne(u) \/ SetOne(u) \/ Unmap(u)
        \/ \E n \in Counts : MapBegin(u, n)
        \/ MapFrame(u) \/ MapSet(u) \/ MapEnter(u) \/ MapEnd(u) \/ MapFail(u)

Spec == Init /\ [][Next]_vars

-----------------------------------------------------------------------------
Taken(u) == IF job[u].at \in {"set", "setone"} THEN {job[u].phy} ELSE {}
Owned(u) == Taken(u) \cup {dir[u]} \cup {table[u][t] : t \in Tables}
                     \cup {page[u][a] : a \in UserPages}
Kernel == UNION {Block(b[1], b[2]) : b \in own}
(* The pages of a block that is being freed and has not reached its frame.   *)
Dying(p) == IF job[p].at = "give" THEN Block(job[p].head + job[p].done, job[p].count - job[p].done)
            ELSE IF job[p].at = "remove"
            THEN Block(job[p].head + job[p].done + 1, job[p].count - job[p].done - 1)
            ELSE {}
KernelFrames == {kmap[i] : i \in Kernel \cup UNION {Dying(p) : p \in Procs}}

(* The pages of the window that operations and blocks occupy.                *)
Occupies(p) ==
    LET j == job[p] IN
    CASE j.at \in {"frame", "set", "map", "end", "buffer", "setone"} -> Block(j.head, j.count)
      [] j.at \in {"unmap", "give", "remove"} -> Block(j.head + j.done, j.count - j.done)
      [] OTHER -> {}

(* No frame has two uses: a page, table or directory of one process, a       *)
(* kernel block, or free.  A frame without any use exists only if an         *)
(* allocation had failed half-way.                                           *)
FrameOnce ==
    ~raced =>
        /\ \A u \in Users :
            /\ free \cap Owned(u) = {} /\ KernelFrames \cap Owned(u) \subseteq {None}
            /\ \A v \in Users \ {u} : Owned(u) \cap Owned(v) \subseteq {None}
            /\ \A a, b \in UserPages : page[u][a] = page[u][b] /\ page[u][a] # None => a = b
        /\ free \cap KernelFrames = {}
        /\ failed \/ Frames \subseteq free \cup KernelFrames \cup UNION {Owned(u) : u \in Users}

(* Two blocks or buffers never lie on the same page of the window.           *)
BlocksApart ==
    ~raced => \A p \in Procs :
        /\ Occupies(p) \cap Kernel = {}
        /\ \A q \in Procs \ {p} : Occupies(p) \cap Occupies(q) = {}

(* Pages that vmm_free_page or vmm_ummap_page has not given back entirely.   *)
Leaving == UNION {Block(job[p].head, job[p].count) :
    p \in {q \in Procs : job[q].at \in {"unmap", "give", "remove", "test", "store"}}}

(* No free page of the window is left above vmm_pos, where no search looks.  *)
WindowComplete ==
    ~raced => \A i \in Pages \ Leaving : kmap[i] = None => i <= vmmPos

(* get_vmm_free_count counts the pages of the window that are not mapped.    *)
CountExact ==
    ~raced /\ ~failed /\ (\A p \in Procs : job[p].at \in {"run", "buffer", "exit"}) =>
        vmmFree = Cardinality({i \in Pages : kmap[i] = None})

(* The search runs below the window only when no block of that size is left. *)
BreaksOnlyFull ==
    ~raced /\ broken > 0 => \A i \in Pages \ {0} :
        i + broken <= Window => \E j \in Block(i, broken) : kmap[j] # None \/ j \in Leaving
=============================================================================
