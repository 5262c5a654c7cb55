--------------------------- MODULE VirtMemProofs ---------------------------
(***************************************************************************)
(* The window of kernel pages and the user address spaces for every size   *)
(* of memory and any number of processes in vmm.c, kmm.c and umm.c: where  *)
(* each operation is and what it relies on there (Jobs), who has which     *)
(* page (Apart), where the search may look (SearchInv), who has which      *)
(* frame (Once), and what the counter is off by (Counted).                 *)
(***************************************************************************)
EXTENDS VirtMem, FiniteSetTheorems, TLAPS

(* Places inside the section of vmm_mmap_pde_page, and of giving pages back.  *)
Mapping == {"frame", "set", "map", "end"}
Givers == {"give", "remove", "unmap"}
Ats == Mapping \cup Givers \cup {"run", "exit", "test", "store", "count", "setone", "buffer"}

Job == [at : Ats, head : Nat, count : Nat, done : Nat, first : Nat,
        phy : Frames \cup {None}, open : BOOLEAN]

VirtTypeOK ==
    /\ free \subseteq Frames \cup {Zero}
    /\ kmap \in [Pages -> Frames \cup {None}]
    /\ vmmPos \in Pages /\ vmmFree \in Int
    /\ dir \in [Users -> Frames \cup {None}]
    /\ table \in [Users -> [Tables -> Frames \cup {None}]]
    /\ page \in [Users -> [UserPages -> Frames \cup {None}]]
    /\ job \in [Procs -> Job]
    /\ masked \in Procs \cup {Nobody}
    /\ own \subseteq Nat \X Nat
    /\ failed \in BOOLEAN /\ raced \in BOOLEAN /\ broken \in Nat

(* Where an operation is, and what it knows there.                           *)
Placed(p) ==
    LET j == job[p] IN
    /\ j.at \notin {"run", "exit"} => j.count > 0 /\ j.head + j.count <= Window
    /\ j.at \in Givers \cup {"frame", "set", "map"} => j.done < j.count
    /\ j.at = "end" => j.done = j.count
    /\ j.at = "buffer" => j.done = 0
    /\ j.at \in Mapping \cup {"setone", "exit"} => p \in Users
    /\ j.at \in {"set", "setone", "map"} => j.phy # None
    /\ j.at \in {"frame", "set", "map"} => Block(j.first, j.count) \subseteq UserPages
    /\ j.at = "set" => page[p][UserPage(p)] = None
    /\ j.at = "setone" => j.count = 1 /\ j.first \in UserPages /\ page[p][j.first] = None
    /\ j.at = "exit" => dir[p] # None
    /\ j.open => j.at \in Mapping
    /\ j.at \in Mapping => masked = p \/ j.open
    /\ masked = p => j.at \in Mapping
    /\ ~raced => /\ j.at = "store" => vmmPos < Last(p)
                 /\ j.at \in Mapping => Last(p) <= vmmPos /\ (Last(p) = vmmPos => j.head > 0)

(* Until a section is overlapped one process at most maps pages: the position *)
(* it searched from stays where it found it.                                 *)
Jobs == /\ \A p \in Procs : Placed(p)
        /\ ~raced => \A p, q \in Procs : job[p].at \in Mapping /\ job[q].at \in Mapping => p = q

(* Blocks and buffers have pages of their own, and those are mapped.         *)
Entered(p) == IF job[p].at \in Mapping THEN Block(job[p].head, job[p].done) ELSE Occupies(p)
Apart ==
    /\ \A b \in own : b[2] > 0 /\ b[1] + b[2] <= Window
    /\ ~raced =>
        /\ \A b, c \in own : b # c => Block(b[1], b[2]) \cap Block(c[1], c[2]) = {}
        /\ \A p \in Procs : Occupies(p) \cap Kernel = {}
        /\ \A p, q \in Procs : p # q => Occupies(p) \cap Occupies(q) = {}
        /\ \A i \in Kernel : kmap[i] # None
        /\ \A p \in Procs : \A i \in Entered(p) : kmap[i] # None

(* Kernel pages that hold a frame of their own, those being given back too.  *)
KPages == Kernel \cup UNION {Dying(p) : p \in Procs}
(* Inside one address space no frame is entered twice, and one taken and not *)
(* entered yet is nowhere.                                                   *)
Distinct(u) ==
    /\ \A s, t \in Tables : table[u][s] = table[u][t] /\ table[u][s] # None => s = t
    /\ \A a, b \in UserPages : page[u][a] = page[u][b] /\ page[u][a] # None => a = b
    /\ \A t \in Tables : table[u][t] = dir[u] => dir[u] = None
    /\ \A a \in UserPages : page[u][a] = dir[u] => dir[u] = None
    /\ \A a \in UserPages, t \in Tables : page[u][a] = table[u][t] => page[u][a] = None
    /\ job[u].at \in {"set", "setone"} => 
         /\ job[u].phy # dir[u] /\ \A t \in Tables : table[u][t] # job[u].phy
         /\ \A a \in UserPages : page[u][a] # job[u].phy
(* FrameOnce with what it needs of the window: each of those pages has a     *)
(* frame of its own.                                                         *)
Once == ~raced =>
    /\ \A i, j \in KPages : kmap[i] = kmap[j] => i = j
    /\ free \cap KernelFrames = {}
    /\ \A u \in Users : /\ Distinct(u) /\ free \cap Owned(u) = {}
                        /\ KernelFrames \cap Owned(u) \subseteq {None}
                        /\ \A v \in Users \ {u} : Owned(u) \cap Owned(v) \subseteq {None}
    /\ failed \/ Frames \subseteq free \cup KernelFrames \cup UNION {Owned(u) : u \in Users}

Unmapped == {i \in Pages : kmap[i] = None}
(* Pages given back and not counted yet, and mapped and not counted yet.     *)
GivenOf(j) == CASE j.at \in Givers -> j.done
                [] j.at \in {"test", "store", "count"} -> j.count
                [] OTHER -> 0
GotOf(j) == IF j.at \in Mapping THEN j.done ELSE 0
Owe(n) == UNION {{p} \X (0 .. n[p] - 1) : p \in Procs}
DueGiven == Owe([p \in Procs |-> GivenOf(job[p])])
DueGot == Owe([p \in Procs |-> GotOf(job[p])])
(* The counter, what is due given and taken into account; and the pages a    *)
(* mapping has chosen and not reached are not mapped.                        *)
Counted == ~raced /\ ~failed =>
    /\ vmmFree + Cardinality(DueGiven) = Cardinality(Unmapped) + Cardinality(DueGot)
    /\ \A p \in Procs : job[p].at \in Mapping =>
        \A i \in Block(job[p].head + job[p].done, job[p].count - job[p].done) : kmap[i] = None

-----------------------------------------------------------------------------
(* Nothing happens after an overlap of unprotected sections or a search      *)
(* below the window.                                                         *)
LEMMA Running == Next => ~raced /\ broken = 0
BY DEF Next, At, KAlloc, KAllocFail, SearchBreaks, KFree, KFreeFrame, Remove, TestPos, StorePos,
       AddCount, AllocPde, Exit, FreeTable, FreePde, Fault, MapOne, SetOne, Unmap, MapBegin,
       MapFrame, MapSet, MapEnter, MapEnd, MapFail

LEMMA RunJob == Run \in Job
BY DEF Run, Job, Ats, Mapping, Givers

LEMMA JobFields ==
    ASSUME VirtTypeOK, NEW p \in Procs
    PROVE  /\ job[p].at \in Ats /\ job[p].phy \in Frames \cup {None} /\ job[p].open \in BOOLEAN
           /\ job[p].head \in Nat /\ job[p].count \in Nat /\ job[p].done \in Nat /\ job[p].first \in Nat
           /\ job[p] \in Job /\ DOMAIN job = Procs
BY DEF VirtTypeOK, Job

LEMMA UserPageIn ==
    ASSUME VirtTypeOK, Jobs, NEW u \in Users, job[u].at \in {"frame", "set", "map"}
    PROVE  UserPage(u) \in UserPages
<1>1. u \in Procs /\ job[u].done < job[u].count /\ Block(job[u].first, job[u].count) \subseteq UserPages
  BY VirtMemAssumption DEF Jobs, Placed
<1>2. job[u].first + job[u].done \in Block(job[u].first, job[u].count)
  BY <1>1, JobFields DEF Block
<1>3. QED
  BY <1>1, <1>2 DEF UserPage

LEMMA TypeInit == Init => VirtTypeOK
<1> SUFFICES ASSUME Init PROVE VirtTypeOK
  OBVIOUS
<1> USE VirtMemAssumption DEF Init
<1>1. free \subseteq Frames \cup {Zero} /\ kmap \in [Pages -> Frames \cup {None}]
  OBVIOUS
<1>2. vmmPos \in Pages /\ vmmFree \in Int
  BY DEF Pages
<1>3. /\ dir \in [Users -> Frames \cup {None}]
      /\ table \in [Users -> [Tables -> Frames \cup {None}]]
      /\ page \in [Users -> [UserPages -> Frames \cup {None}]]
  OBVIOUS
<1>4. job \in [Procs -> Job]
  BY RunJob
<1>5. QED
  BY <1>1, <1>2, <1>3, <1>4 DEF VirtTypeOK

LEMMA SetUserType ==
    ASSUME VirtTypeOK, NEW u \in Users, NEW a \in UserPages, NEW f \in Frames \cup {Zero}, f # Zero,
           NEW left \in SUBSET free, SetUser(u, a, f, left)
    PROVE  /\ free' \subseteq Frames \cup {Zero}
           /\ table' \in [Users -> [Tables -> Frames \cup {None}]]
           /\ page' \in [Users -> [UserPages -> Frames \cup {None}]]
<1>1. a \div PerTable \in Tables
  BY DEF Tables
<1>2. free \subseteq Frames \cup {Zero}
  BY DEF VirtTypeOK
<1>3. page' \in [Users -> [UserPages -> Frames \cup {None}]]
  <2>1. page' = [page EXCEPT ![u][a] = f] /\ f \in Frames
    BY DEF SetUser
  <2>2. QED
    BY <2>1 DEF VirtTypeOK
<1>4. CASE UNCHANGED table /\ free' = left
  BY <1>2, <1>3, <1>4 DEF VirtTypeOK
<1>5. ASSUME NEW g \in left \ {Zero}, free' = left \ {g},
             table' = [table EXCEPT ![u][a \div PerTable] = g]
      PROVE  /\ free' \subseteq Frames \cup {Zero}
             /\ table' \in [Users -> [Tables -> Frames \cup {None}]]
  BY <1>1, <1>2, <1>5 DEF VirtTypeOK
<1>6. QED
  BY <1>3, <1>4, <1>5 DEF SetUser

LEMMA TypeKernel ==
    ASSUME VirtTypeOK, NEW p \in Procs, NEW n \in Counts,
           KAlloc(p, n) \/ KAllocFail(p, n) \/ SearchBreaks(p, n)
    PROVE  VirtTypeOK'
<1> USE VirtMemAssumption DEF VirtTypeOK, window, space, ghosts
<1>1. CASE KAlloc(p, n)
  <2>1. PICK q \in Pages, f \in [Block(0, n) -> free \ {Zero}] :
        /\ FirstFit(q, n) /\ ~Below(q, n)
        /\ LET h == q - n + 1 IN
            /\ kmap' = [i \in Pages |-> IF i \in Block(h, n) THEN f[i - h] ELSE kmap[i]]
            /\ own' = own \cup {<<h, n>>}
            /\ free' = free \ {f[i] : i \in Block(0, n)}
        /\ vmmPos' = IF q = vmmPos THEN q - n ELSE vmmPos
    BY <1>1 DEF KAlloc
  <2>2. q - n + 1 \in Nat /\ (q = vmmPos => q - n \in Pages) /\ n \in Nat /\ q \in Nat
    BY <2>1 DEF Below, Pages
  <2>3. kmap' \in [Pages -> Frames \cup {None}]
    <3>1. \A i \in Block(q - n + 1, n) : i - (q - n + 1) \in Block(0, n)
      BY <2>2 DEF Block
    <3>2. QED
      BY <2>1, <3>1
  <2>4. QED
    BY <1>1, <2>1, <2>2, <2>3 DEF KAlloc
<1>2. CASE KAllocFail(p, n)
  <2>1. PICK q \in Pages, done \in Block(0, n) :
       \E f \in [Block(0, done) -> free \ {Zero}] :
        /\ FirstFit(q, n) /\ ~Below(q, n)
        /\ LET rest == free \ {f[i] : i \in Block(0, done)} IN
            /\ Cardinality(rest) <= 1 \/ Zero \in rest
            /\ free' = IF done > 0 THEN rest \cup {Zero} ELSE rest \ {Zero}
        /\ kmap' = IF done > 0 THEN [kmap EXCEPT ![q - n + 1] = f[0]] ELSE kmap
        /\ failed' = (failed \/ done > 0)
    BY <1>2 DEF KAllocFail
  <2>2. PICK f \in [Block(0, done) -> free \ {Zero}] :
        /\ free' \subseteq free \cup {Zero}
        /\ kmap' = IF done > 0 THEN [kmap EXCEPT ![q - n + 1] = f[0]] ELSE kmap
        /\ failed' = (failed \/ done > 0)
    BY <2>1
  <2>3. done > 0 => f[0] \in Frames
    <3>1. done > 0 => 0 \in Block(0, done)
      BY DEF Block
    <3>2. QED
      BY <2>2, <3>1
  <2>4. QED
    BY <1>2, <2>2, <2>3 DEF KAllocFail
<1>3. CASE SearchBreaks(p, n)
  BY <1>3 DEF SearchBreaks
<1>4. QED
  BY <1>1, <1>2, <1>3

LEMMA TypeFree ==
    ASSUME VirtTypeOK, Jobs, NEW p \in Procs,
           \/ KFree(p) \/ KFreeFrame(p) \/ Remove(p) \/ TestPos(p) \/ StorePos(p) \/ AddCount(p)
    PROVE  VirtTypeOK'
<1> USE VirtMemAssumption, RunJob
        DEF VirtTypeOK, Job, Ats, Mapping, Givers, window, space, ghosts, At, Goto, Return
<1>0. Placed(p)
  BY DEF Jobs
<1>1. CASE KFree(p)
  <2>1. PICK b \in own :
          job' = [job EXCEPT ![p] = [Run EXCEPT !.at = "give", !.head = b[1], !.count = b[2]]]
    BY <1>1 DEF KFree
  <2>2. [Run EXCEPT !.at = "give", !.head = b[1], !.count = b[2]] \in Job
    BY DEF Run
  <2>3. own' \subseteq own
    BY <1>1 DEF KFree
  <2>4. QED
    BY <1>1, <2>1, <2>2, <2>3 DEF KFree
<1>2. CASE KFreeFrame(p)
  <2>1. job[p].head + job[p].done \in Pages
    BY <1>0, <1>2 DEF KFreeFrame, Placed, Pages
  <2>2. free' \subseteq Frames \cup {Zero}
    BY <1>2, <2>1 DEF KFreeFrame
  <2>3. QED
    BY <1>2, <2>2 DEF KFreeFrame
<1>3. CASE Remove(p)
  <2>1. kmap' \in [Pages -> Frames \cup {None}]
    BY <1>3 DEF Remove
  <2>2. job' \in [Procs -> Job]
    <3>1. job[p].done + 1 \in Nat
      BY JobFields
    <3>2. PICK there \in {"test", "give", "unmap"} :
            job' = [job EXCEPT ![p].done = job[p].done + 1, ![p].at = there]
      BY <1>3 DEF Remove
    <3>3. QED
      BY <3>1, <3>2
  <2>3. QED
    BY <1>3, <2>1, <2>2 DEF Remove
<1>4. CASE TestPos(p)
  BY <1>4 DEF TestPos
<1>5. CASE StorePos(p)
  <2>1. Last(p) \in Pages
    <3>1. job[p].at = "store"
      BY <1>5 DEF StorePos
    <3>2. job[p].count > 0 /\ job[p].head + job[p].count <= Window
      BY <1>0, <3>1 DEF Placed
    <3>3. job[p].head \in Nat /\ job[p].count \in Nat
      OBVIOUS
    <3>4. QED
      BY <3>2, <3>3 DEF Pages, Last
  <2>2. QED
    BY <1>5, <2>1 DEF StorePos
<1>6. CASE AddCount(p)
  BY <1>6 DEF AddCount
<1>7. QED
  BY <1>1, <1>2, <1>3, <1>4, <1>5, <1>6

LEMMA TypeSpace ==
    ASSUME VirtTypeOK, Jobs, NEW u \in Users,
           AllocPde(u) \/ Exit(u) \/ FreeTable(u) \/ FreePde(u) \/ Fault(u)
    PROVE  VirtTypeOK'
<1> USE VirtMemAssumption, RunJob DEF window, space, ghosts
<1>0. Placed(u) /\ u \in Procs
  BY DEF Jobs
<1>1. CASE AllocPde(u)
  BY <1>1 DEF AllocPde, VirtTypeOK
<1>2. CASE Exit(u)
  BY <1>2 DEF Exit, VirtTypeOK, Goto, Job, Ats
<1>3. CASE FreeTable(u)
  <2>1. PICK t \in Tables :
        /\ table[u][t] # None
        /\ free' = free \cup Mapped(u, t) \cup {table[u][t]}
        /\ table' = [table EXCEPT ![u][t] = None]
        /\ page' = [page EXCEPT ![u] =
                        [a \in UserPages |-> IF a \div PerTable = t THEN None ELSE @[a]]]
    BY <1>3 DEF FreeTable
  <2>2. Mapped(u, t) \subseteq Frames /\ table[u][t] \in Frames
    BY <2>1 DEF Mapped, VirtTypeOK
  <2>3. free' \subseteq Frames \cup {Zero}
    BY <2>1, <2>2 DEF VirtTypeOK
  <2>4. table' \in [Users -> [Tables -> Frames \cup {None}]]
    BY <2>1 DEF VirtTypeOK
  <2>5. page' \in [Users -> [UserPages -> Frames \cup {None}]]
    BY <2>1 DEF VirtTypeOK
  <2>6. QED
    BY <1>3, <2>3, <2>4, <2>5 DEF FreeTable, VirtTypeOK
<1>4. CASE FreePde(u)
  <2>1. dir[u] \in Frames
    BY <1>0, <1>4 DEF FreePde, VirtTypeOK, Placed, At
  <2>2. QED
    BY <1>0, <1>4, <2>1 DEF FreePde, VirtTypeOK, Return
<1>5. CASE Fault(u)
  <2>1. PICK a \in UserPages :
           \/ \E f \in free \ {Zero} : SetUser(u, a, f, free \ {f}) /\ UNCHANGED job
           \/ \E f \in free \ {Zero} :
                SetUserFail(u, a, free \ {f}) /\ free' = free \ {Zero} /\ Goto(u, "exit")
           \/ NoFrame /\ UNCHANGED <<table, page>> /\ Goto(u, "exit")
    BY <1>5 DEF Fault
  <2>2. UNCHANGED <<window, dir, masked, ghosts>>
    BY <1>5 DEF Fault
  <2>3. Goto(u, "exit") => job' \in [Procs -> Job]
    <3>1. [job[u] EXCEPT !.at = "exit"] \in Job
      BY <1>0, JobFields DEF Job, Ats
    <3>2. QED
      BY <1>0, <3>1 DEF VirtTypeOK, Goto
  <2>4. ASSUME NEW f \in free \ {Zero}, SetUser(u, a, f, free \ {f}), UNCHANGED job
        PROVE VirtTypeOK'
    <3>1. f \in Frames \cup {Zero}
      BY DEF VirtTypeOK
    <3>2. /\ free' \subseteq Frames \cup {Zero}
          /\ table' \in [Users -> [Tables -> Frames \cup {None}]]
          /\ page' \in [Users -> [UserPages -> Frames \cup {None}]]
      BY <2>4, <3>1, SetUserType
    <3>3. QED
      BY <2>2, <2>4, <3>2 DEF VirtTypeOK
  <2>5. ASSUME free' \subseteq free, UNCHANGED <<table, page>>, Goto(u, "exit") PROVE VirtTypeOK'
    BY <2>2, <2>3, <2>5 DEF VirtTypeOK
  <2>6. QED
    BY <2>1, <2>4, <2>5 DEF SetUserFail, NoFrame
<1>6. QED
  BY <1>1, <1>2, <1>3, <1>4, <1>5

LEMMA TypeMap ==
    ASSUME VirtTypeOK, Jobs, NEW u \in Users,
           \/ MapOne(u) \/ SetOne(u) \/ Unmap(u) \/ (\E n \in Counts : MapBegin(u, n)) \/ MapFrame(u)
           \/ MapSet(u) \/ MapEnter(u) \/ MapEnd(u) \/ MapFail(u)
    PROVE  VirtTypeOK'
<1> USE VirtMemAssumption, RunJob DEF window, space, ghosts
<1>0. Placed(u) /\ u \in Procs
  BY DEF Jobs
<1>1. CASE MapOne(u)
  <2>1. PICK q \in Pages, f \in free \ {Zero}, a \in UserPages :
        /\ FirstFit(q, 1) /\ ~Below(q, 1)
        /\ kmap' = [kmap EXCEPT ![q] = f]
        /\ vmmPos' = IF q = vmmPos THEN q - 1 ELSE vmmPos
        /\ free' = free \ {f}
        /\ job' = [job EXCEPT ![u] = [Run EXCEPT !.at = "setone", !.head = q, !.count = 1,
                                                 !.first = a, !.phy = f]]
    BY <1>1 DEF MapOne
  <2>2. q = vmmPos => q - 1 \in Pages
    BY <2>1 DEF Below, Pages
  <2>3. f \in Frames /\ q \in Nat /\ a \in Nat
    BY DEF VirtTypeOK, Pages
  <2>4. [Run EXCEPT !.at = "setone", !.head = q, !.count = 1, !.first = a, !.phy = f] \in Job
    BY <2>3 DEF Run, Job, Ats
  <2>5. QED
    <3>1. kmap' \in [Pages -> Frames \cup {None}] /\ vmmPos' \in Pages /\ free' \subseteq Frames \cup {Zero}
      BY <2>1, <2>2, <2>3 DEF VirtTypeOK
    <3>2. job' \in [Procs -> Job]
      BY <1>0, <2>1, <2>4 DEF VirtTypeOK
    <3>3. vmmFree' = vmmFree - 1 /\ vmmFree \in Int
      BY <1>1 DEF MapOne, VirtTypeOK
    <3>4. raced' \in BOOLEAN
      BY <1>1 DEF MapOne
    <3>5. QED
      <4>1. UNCHANGED <<dir, table, page, masked, own, failed, broken>>
        BY <1>1 DEF MapOne
      <4>2. QED
        BY <3>1, <3>2, <3>3, <3>4, <4>1 DEF VirtTypeOK
<1>2. CASE SetOne(u)
  <2>1. job[u].first \in UserPages /\ job[u].phy \in Frames
    BY <1>0, <1>2 DEF SetOne, At, Placed, VirtTypeOK, Job
  <2>2. job' \in [Procs -> Job]
    BY <1>0, <1>2 DEF SetOne, VirtTypeOK, Run, Job, Ats
  <2>3. UNCHANGED <<window, dir, masked, own, raced, broken>> /\ failed' \in BOOLEAN
    BY <1>2 DEF SetOne, VirtTypeOK
  <2>4. CASE SetUser(u, job[u].first, job[u].phy, free)
    <3>1. /\ free' \subseteq Frames \cup {Zero}
          /\ table' \in [Users -> [Tables -> Frames \cup {None}]]
          /\ page' \in [Users -> [UserPages -> Frames \cup {None}]]
      BY <2>1, <2>4, SetUserType
    <3>2. QED
      BY <2>2, <2>3, <3>1 DEF VirtTypeOK
  <2>5. CASE UNCHANGED <<table, page>> /\ free' = free \ {Zero}
    BY <2>2, <2>3, <2>5 DEF VirtTypeOK
  <2>6. QED
    BY <1>2, <2>4, <2>5 DEF SetOne, SetUserFail
<1>3. CASE Unmap(u)
  BY <1>0, <1>3 DEF Unmap, Goto, VirtTypeOK, Job, Ats, Givers
<1>4. ASSUME NEW n \in Counts, MapBegin(u, n) PROVE VirtTypeOK'
  <2>1. PICK q \in Pages, a \in UserPages :
        /\ FirstFit(q, n) /\ ~Below(q, n)
        /\ job' = [job EXCEPT ![u] = [Run EXCEPT !.at = "frame", !.head = q - n + 1,
                                                 !.count = n, !.first = a]]
    BY <1>4 DEF MapBegin
  <2>2. q - n + 1 \in Nat /\ n \in Nat /\ a \in Nat
    BY <2>1 DEF Below, Pages
  <2>3. [Run EXCEPT !.at = "frame", !.head = q - n + 1, !.count = n, !.first = a] \in Job
    BY <2>2 DEF Run, Job, Ats, Mapping
  <2>4. QED
    BY <1>0, <1>4, <2>1, <2>3 DEF MapBegin, VirtTypeOK
<1>5. CASE MapFrame(u)
  <2>1. UserPage(u) \in UserPages
    BY <1>5, UserPageIn DEF MapFrame, At
  <2>2. page[u][UserPage(u)] \in Frames \cup {None}
    <3>1. page[u] \in [UserPages -> Frames \cup {None}]
      BY DEF VirtTypeOK
    <3>2. QED
      BY <2>1, <3>1
  <2>3. job' \in [Procs -> Job] /\ free' \subseteq free
    <3>1. PICK there \in {"map", "set"}, g \in Frames \cup {None, Zero} :
            /\ job' = [job EXCEPT ![u].at = there, ![u].phy = g]
            /\ g # Zero /\ free' \subseteq free
      BY <1>5, <2>2 DEF MapFrame, VirtTypeOK
    <3>2. [job[u] EXCEPT !.at = there, !.phy = g] \in Job
      BY <1>0, <3>1, JobFields DEF Job, Ats, Mapping
    <3>3. job' = [job EXCEPT ![u] = [job[u] EXCEPT !.at = there, !.phy = g]]
      BY <1>0, <3>1, JobFields DEF Job
    <3>4. QED
      BY <1>0, <3>1, <3>2, <3>3 DEF VirtTypeOK
  <2>4. QED
    BY <1>5, <2>3 DEF MapFrame, VirtTypeOK
<1>6. CASE MapSet(u)
  <2>1. UserPage(u) \in UserPages /\ job[u].phy \in Frames
    BY <1>0, <1>6, UserPageIn, JobFields DEF MapSet, At, Placed
  <2>2. job' \in [Procs -> Job]
    BY <1>0, <1>6 DEF MapSet, VirtTypeOK, Job, Ats, Mapping
  <2>3. UNCHANGED <<window, dir, own, raced, broken>> /\ failed' \in BOOLEAN /\ masked' \in Procs \cup {Nobody}
    BY <1>6 DEF MapSet, VirtTypeOK
  <2>4. CASE SetUser(u, UserPage(u), job[u].phy, free)
    <3>1. /\ free' \subseteq Frames \cup {Zero}
          /\ table' \in [Users -> [Tables -> Frames \cup {None}]]
          /\ page' \in [Users -> [UserPages -> Frames \cup {None}]]
      BY <2>1, <2>4, SetUserType
    <3>2. QED
      BY <2>2, <2>3, <3>1 DEF VirtTypeOK
  <2>5. CASE UNCHANGED <<table, page>> /\ free' = free \ {Zero}
    BY <2>2, <2>3, <2>5 DEF VirtTypeOK
  <2>6. QED
    BY <1>6, <2>4, <2>5 DEF MapSet, SetUserFail
<1>7. CASE MapEnter(u)
  <2>1. job' \in [Procs -> Job]
    <3>1. PICK there \in {"end", "frame"} :
            job' = [job EXCEPT ![u].done = job[u].done + 1, ![u].phy = None, ![u].at = there]
      BY <1>7 DEF MapEnter
    <3>2. [job[u] EXCEPT !.done = job[u].done + 1, !.phy = None, !.at = there] \in Job
      <4>1. there \in Ats /\ job[u].done + 1 \in Nat
        BY <1>0, JobFields DEF Ats, Mapping
      <4>2. QED
        BY <1>0, <4>1, JobFields DEF Job
    <3>3. job' = [job EXCEPT ![u] = [job[u] EXCEPT !.done = job[u].done + 1, !.phy = None, !.at = there]]
      BY <1>0, <3>1, JobFields
    <3>4. QED
      BY <1>0, <3>1, <3>2, <3>3 DEF VirtTypeOK
  <2>2. kmap' \in [Pages -> Frames \cup {None}]
    BY <1>0, <1>7 DEF MapEnter, VirtTypeOK, Job
  <2>3. QED
    BY <1>7, <2>1, <2>2 DEF MapEnter, VirtTypeOK
<1>8. CASE MapEnd(u)
  <2>1. Last(u) = vmmPos => vmmPos - job[u].count \in Pages
    BY <1>0, <1>8, Running DEF MapEnd, At, Placed, Mapping, Last, Pages, VirtTypeOK, Job
  <2>2. job' \in [Procs -> Job]
    BY <1>0, <1>8 DEF MapEnd, VirtTypeOK, Run, Job, Ats
  <2>3. QED
    BY <1>0, <1>8, <2>1, <2>2 DEF MapEnd, VirtTypeOK, Job
<1>9. CASE MapFail(u)
  BY <1>0, <1>9 DEF MapFail, NoFrame, Return, VirtTypeOK
<1>10. QED
  BY <1>1, <1>2, <1>3, <1>4, <1>5, <1>6, <1>7, <1>8, <1>9

LEMMA TypeNext == VirtTypeOK /\ Jobs /\ [Next]_vars => VirtTypeOK'
<1> SUFFICES ASSUME VirtTypeOK, Jobs, [Next]_vars PROVE VirtTypeOK'
  OBVIOUS
<1>1. CASE UNCHANGED vars
  BY <1>1 DEF vars, window, space, ghosts, VirtTypeOK
<1>2. QED
  BY <1>1, TypeKernel, TypeFree, TypeSpace, TypeMap DEF Next

-----------------------------------------------------------------------------
KernelActs(p) ==
    \/ \E n \in Counts : KAlloc(p, n) \/ KAllocFail(p, n) \/ SearchBreaks(p, n)
    \/ KFree(p) \/ KFreeFrame(p) \/ Remove(p) \/ TestPos(p) \/ StorePos(p) \/ AddCount(p)
UserActs(p) ==
    /\ p \in Users
    /\ \/ AllocPde(p) \/ Exit(p) \/ FreeTable(p) \/ FreePde(p) \/ Fault(p)
       \/ MapOne(p) \/ SetOne(p) \/ Unmap(p)
       \/ \E n \in Counts : MapBegin(p, n)
       \/ MapFrame(p) \/ MapSet(p) \/ MapEnter(p) \/ MapEnd(p) \/ MapFail(p)
Acts(p) == KernelActs(p) \/ UserActs(p)

(* A step of p leaves the other processes' operations and memory alone.      *)
Alone(p) ==
    /\ ~raced /\ broken = 0 /\ masked \in {p, Nobody} /\ masked' \in {p, Nobody}
    /\ \A q \in Procs \ {p} : job'[q] = job[q]
    /\ \A q \in Users \ {p} : dir'[q] = dir[q] /\ table'[q] = table[q] /\ page'[q] = page[q]

LEMMA KernelAlone == ASSUME VirtTypeOK, NEW p \in Procs, KernelActs(p)
      PROVE Alone(p) /\ UNCHANGED space
<1> USE DEF Alone, VirtTypeOK, At, Goto, Return, window, space, ghosts
<1>1. ASSUME NEW n \in Counts, KAlloc(p, n) \/ KAllocFail(p, n) \/ SearchBreaks(p, n)
      PROVE  Alone(p) /\ UNCHANGED space
  BY <1>1 DEF KAlloc, KAllocFail, SearchBreaks
<1>2. CASE KFree(p) \/ KFreeFrame(p)
  BY <1>2 DEF KFree, KFreeFrame
<1>3. CASE Remove(p) \/ TestPos(p) \/ StorePos(p) \/ AddCount(p)
  BY <1>3 DEF Remove, TestPos, StorePos, AddCount
<1>4. QED
  BY <1>1, <1>2, <1>3 DEF KernelActs

LEMMA UserAlone == ASSUME VirtTypeOK, NEW p \in Procs, UserActs(p) PROVE Alone(p)
<1> USE DEF Alone, VirtTypeOK, At, Goto, Return, window, space, ghosts
<1>0. p \in Users
  BY DEF UserActs
<1>1. CASE AllocPde(p) \/ Exit(p)
  BY <1>0, <1>1 DEF AllocPde, Exit
<1>2. CASE FreeTable(p)
  BY <1>0, <1>2 DEF FreeTable
<1>3. CASE FreePde(p)
  BY <1>0, <1>3 DEF FreePde
<1>4. CASE Fault(p)
  <2>1. PICK a \in UserPages :
           \/ \E f \in free \ {Zero} : SetUser(p, a, f, free \ {f}) /\ UNCHANGED job
           \/ \E f \in free \ {Zero} :
                SetUserFail(p, a, free \ {f}) /\ free' = free \ {Zero} /\ Goto(p, "exit")
           \/ NoFrame /\ UNCHANGED <<table, page>> /\ Goto(p, "exit")
    BY <1>4 DEF Fault
  <2>2. \A q \in Procs \ {p} : job'[q] = job[q]
    BY <2>1
  <2>3. \A q \in Users \ {p} : table'[q] = table[q] /\ page'[q] = page[q]
    BY <1>0, <2>1 DEF SetUser, SetUserFail
  <2>4. QED
    BY <1>4, <2>2, <2>3 DEF Fault
<1>5. CASE MapOne(p)
  BY <1>0, <1>5 DEF MapOne
<1>6. CASE SetOne(p) \/ MapSet(p)
  <2>1. \A q \in Procs \ {p} : job'[q] = job[q]
    BY <1>6 DEF SetOne, MapSet
  <2>2. \A q \in Users \ {p} : table'[q] = table[q] /\ page'[q] = page[q]
    BY <1>0, <1>6 DEF SetOne, MapSet, SetUser, SetUserFail
  <2>3. QED
    BY <1>6, <2>1, <2>2 DEF SetOne, MapSet
<1>7. CASE Unmap(p) \/ MapFrame(p)
  BY <1>7 DEF Unmap, MapFrame
<1>8. ASSUME NEW n \in Counts, MapBegin(p, n) PROVE Alone(p)
  BY <1>8 DEF MapBegin
<1>9. CASE MapEnter(p) \/ MapEnd(p) \/ MapFail(p)
  BY <1>9 DEF MapEnter, MapEnd, MapFail
<1>10. QED
  BY <1>1, <1>2, <1>3, <1>4, <1>5, <1>6, <1>7, <1>8, <1>9 DEF UserActs

LEMMA Actor ==
    ASSUME VirtTypeOK, [Next]_vars, ~UNCHANGED vars
    PROVE  \E p \in Procs : Acts(p) /\ Alone(p)
<1>1. \E p \in Procs : Acts(p)
  BY VirtMemAssumption DEF Next, Acts, KernelActs, UserActs
<1>2. QED
  BY <1>1, KernelAlone, UserAlone DEF Acts

(* vmm_pos goes up only by a store, and down only by an allocation.          *)
LEMMA PosKinds ==
    ASSUME VirtTypeOK, Jobs, NEW p \in Procs, Acts(p)
    PROVE  \/ vmmPos' = vmmPos
           \/ StorePos(p)
           \/ vmmPos' < vmmPos /\ (MapEnd(p) \/ (Cuts(p) => raced'))
<1> USE VirtMemAssumption DEF window, space, ghosts
<1>1. ASSUME NEW n \in Counts, KAlloc(p, n) PROVE vmmPos' <= vmmPos /\ (Cuts(p) => raced')
  <2>1. PICK q \in Pages : vmmPos' = IF q = vmmPos THEN q - n ELSE vmmPos
    BY <1>1 DEF KAlloc
  <2>2. Cuts(p) => raced'
    BY <1>1 DEF KAlloc
  <2>3. QED
    BY <2>1, <2>2 DEF Pages, VirtTypeOK
<1>2. CASE p \in Users /\ MapOne(p)
  <2>1. PICK q \in Pages : vmmPos' = IF q = vmmPos THEN q - 1 ELSE vmmPos
    BY <1>2 DEF MapOne
  <2>2. Cuts(p) => raced'
    BY <1>2 DEF MapOne
  <2>3. QED
    BY <2>1, <2>2 DEF Pages, VirtTypeOK
<1>3. CASE MapEnd(p)
  <2>1. job[p].count \in Nat /\ vmmPos \in Nat /\ vmmPos' = IF Last(p) = vmmPos THEN vmmPos - job[p].count ELSE vmmPos
    BY <1>3, JobFields DEF MapEnd, VirtTypeOK, Pages
  <2>2. QED
    BY <1>3, <2>1
<1>4. ASSUME NEW n \in Counts, KAllocFail(p, n) \/ SearchBreaks(p, n) PROVE vmmPos' = vmmPos
  BY <1>4 DEF KAllocFail, SearchBreaks
<1>5. KFree(p) \/ KFreeFrame(p) \/ Remove(p) \/ TestPos(p) \/ AddCount(p) => vmmPos' = vmmPos
  BY DEF KFree, KFreeFrame, Remove, TestPos, AddCount
<1>6. AllocPde(p) \/ Exit(p) \/ FreeTable(p) \/ FreePde(p) \/ Fault(p) => vmmPos' = vmmPos
  BY DEF AllocPde, Exit, FreeTable, FreePde, Fault
<1>7. SetOne(p) \/ Unmap(p) \/ MapFrame(p) \/ MapSet(p) \/ MapEnter(p) \/ MapFail(p) => vmmPos' = vmmPos
  BY DEF SetOne, Unmap, MapFrame, MapSet, MapEnter, MapFail
<1>8. ASSUME NEW n \in Counts, MapBegin(p, n) PROVE vmmPos' = vmmPos
  BY <1>8 DEF MapBegin
<1>9. vmmPos' <= vmmPos => vmmPos' = vmmPos \/ vmmPos' < vmmPos
  <2>1. vmmPos' \in Int /\ vmmPos \in Int
    BY TypeKernel, TypeFree, TypeSpace, TypeMap DEF Acts, KernelActs, UserActs, VirtTypeOK, Pages
  <2>2. QED
    BY <2>1
<1>10. QED
  BY <1>1, <1>2, <1>3, <1>4, <1>5, <1>6, <1>7, <1>8, <1>9 DEF Acts, KernelActs, UserActs

-----------------------------------------------------------------------------
OneMapper == ~raced => \A p, q \in Procs : job[p].at \in Mapping /\ job[q].at \in Mapping => p = q

(* Who has masked interrupts, or opened them again, is mapping.              *)
LEMMA MapperCuts ==
    ASSUME VirtTypeOK, Jobs, NEW p \in Procs, NEW q \in Procs \ {p},
           masked \in {p, Nobody}, job[q].at \in Mapping
    PROVE  job[q].open /\ Cuts(p)
BY VirtMemAssumption DEF Jobs, Placed, Cuts

LEMMA PlacedOther ==
    ASSUME VirtTypeOK, Jobs, NEW p \in Procs, Acts(p), Alone(p), NEW q \in Procs \ {p}
    PROVE  Placed(q)'
<1>0. Placed(q)
  BY DEF Jobs
<1>1. job'[q] = job[q] /\ (q \in Users => page'[q] = page[q] /\ dir'[q] = dir[q])
  BY DEF Alone
<1>2. UserPage(q)' = UserPage(q) /\ Last(q)' = Last(q)
  BY <1>1 DEF UserPage, Last
<1>3. job[q].at \in Mapping => job[q].open /\ Cuts(p) /\ masked # q
  BY MapperCuts, VirtMemAssumption DEF Alone
<1>4. masked' # q
  BY VirtMemAssumption DEF Alone
<1>5. ASSUME ~raced'
      PROVE  /\ job[q].at = "store" => vmmPos' < Last(q)
             /\ job[q].at \in Mapping => Last(q) <= vmmPos' /\ (Last(q) = vmmPos' => job[q].head > 0)
  <2>1. /\ job[q].at = "store" => vmmPos < Last(q)
        /\ job[q].at \in Mapping => Last(q) <= vmmPos /\ (Last(q) = vmmPos => job[q].head > 0)
    BY <1>0 DEF Alone, Placed
  <2>2. Last(q) \in Int /\ vmmPos \in Int /\ vmmPos' \in Int
    <3>1. VirtTypeOK'
      BY TypeKernel, TypeFree, TypeSpace, TypeMap DEF Acts, KernelActs, UserActs
    <3>2. QED
      BY <3>1, JobFields DEF Last, VirtTypeOK, Pages
  <2>3. CASE vmmPos' = vmmPos
    BY <2>1, <2>3
  <2>4. CASE StorePos(p)
    <3>1. job[q].at # "store" /\ vmmPos' = Last(p) /\ job[p].at = "store"
      BY <1>5, <2>4 DEF StorePos, At
    <3>2. vmmPos < Last(p)
      BY <3>1 DEF Jobs, Placed, Alone
    <3>3. QED
      BY <2>1, <2>2, <3>1, <3>2
  <2>5. CASE vmmPos' < vmmPos /\ (MapEnd(p) \/ (Cuts(p) => raced'))
    <3>1. job[q].at \notin Mapping
      <4>1. CASE MapEnd(p)
        BY <4>1 DEF MapEnd, At, Jobs, Alone, Mapping
      <4>2. QED
        BY <1>3, <1>5, <2>5, <4>1
    <3>2. QED
      BY <2>1, <2>2, <2>5, <3>1
  <2>6. QED
    BY <2>3, <2>4, <2>5, PosKinds
<1>6. /\ job[q].at = "set" => page'[q][UserPage(q)] = None
      /\ job[q].at = "setone" =>
            job[q].count = 1 /\ job[q].first \in UserPages /\ page'[q][job[q].first] = None
      /\ job[q].at = "exit" => dir'[q] # None
  BY <1>0, <1>1 DEF Placed, Mapping
<1>7. /\ job[q].at \in Mapping => masked' = q \/ job[q].open
      /\ masked' = q => job[q].at \in Mapping
  BY <1>3, <1>4
<1> DEFINE Rest ==
       /\ job[q].at \notin {"run", "exit"} => job[q].count > 0 /\ job[q].head + job[q].count <= Window
       /\ job[q].at \in Givers \cup {"frame", "set", "map"} => job[q].done < job[q].count
       /\ job[q].at = "end" => job[q].done = job[q].count
       /\ job[q].at = "buffer" => job[q].done = 0
       /\ job[q].at \in Mapping \cup {"setone", "exit"} => q \in Users
       /\ job[q].at \in {"set", "setone", "map"} => job[q].phy # None
       /\ job[q].at \in {"frame", "set", "map"} => Block(job[q].first, job[q].count) \subseteq UserPages
       /\ job[q].open => job[q].at \in Mapping
<1>8. Rest
  BY <1>0 DEF Placed
<1>9. QED
  BY <1>1, <1>2, <1>5, <1>6, <1>7, <1>8 DEF Placed

(* The process that acts.                                                    *)
LEMMA PlacedKernel ==
    ASSUME VirtTypeOK, Jobs, Apart, NEW p \in Procs, KernelActs(p), Alone(p)
    PROVE  Placed(p)'
<1> USE VirtMemAssumption DEF window, space, ghosts
<1>0. Placed(p) /\ masked \in {p, Nobody} /\ ~raced
  BY DEF Jobs, Alone
<1>1. job[p].at = "run" => masked = Nobody
  BY <1>0 DEF Placed, Mapping
<1>2. ASSUME NEW n \in Counts, KAlloc(p, n) \/ KAllocFail(p, n) \/ SearchBreaks(p, n)
      PROVE  Placed(p)'
  <2>1. UNCHANGED <<job, page, dir, masked>> /\ job[p].at = "run" /\ ~job[p].open
    BY <1>0, <1>2 DEF KAlloc, KAllocFail, SearchBreaks, At, Placed, Mapping
  <2>2. QED
    BY <1>1, <2>1 DEF Placed, Mapping, Givers
<1>3. CASE KFree(p)
  <2>1. PICK b \in own :
          job' = [job EXCEPT ![p] = [Run EXCEPT !.at = "give", !.head = b[1], !.count = b[2]]]
    BY <1>3 DEF KFree
  <2>2. b[2] > 0 /\ b[1] + b[2] <= Window /\ b[2] \in Nat
    BY DEF Apart, VirtTypeOK
  <2>3. /\ job'[p].at = "give" /\ job'[p].head = b[1] /\ job'[p].count = b[2] /\ job'[p].done = 0
        /\ job'[p].open = FALSE
    BY <2>1 DEF Run, VirtTypeOK
  <2>4. masked' = masked /\ job[p].at = "run"
    BY <1>3 DEF KFree, At
  <2>5. QED
    BY <1>1, <2>2, <2>3, <2>4 DEF Placed, Mapping, Givers
<1>4. CASE KFreeFrame(p)
  <2>1. /\ job[p].at = "give" /\ job'[p] = [job[p] EXCEPT !.at = "remove"] /\ UNCHANGED <<masked, vmmPos, raced>>
    BY <1>4 DEF KFreeFrame, At, Goto, VirtTypeOK
  <2>2. QED
    BY <1>0, <2>1, JobFields DEF Placed, Mapping, Givers, Job
<1>5. CASE Remove(p)
  <2>1. /\ job[p].at \in {"remove", "unmap"} /\ UNCHANGED <<masked, vmmPos, raced>>
        /\ job'[p] = [job[p] EXCEPT !.done = job[p].done + 1,
                        !.at = IF job[p].done + 1 = job[p].count THEN "test"
                               ELSE IF job[p].at = "remove" THEN "give" ELSE "unmap"]
    BY <1>5, JobFields DEF Remove, At
  <2>2. QED
    BY <1>0, <2>1, JobFields DEF Placed, Mapping, Givers, Job
<1>6. CASE TestPos(p)
  <2>1. /\ job[p].at = "test" /\ UNCHANGED <<masked, vmmPos, raced>>
        /\ job'[p] = [job[p] EXCEPT !.at = IF Last(p) > vmmPos THEN "store" ELSE "count"]
    BY <1>6, JobFields DEF TestPos, At, Goto
  <2>2. Last(p) > vmmPos => vmmPos < Last(p)
    BY JobFields DEF Last, VirtTypeOK, Pages
  <2>3. QED
    BY <1>0, <2>1, <2>2, JobFields DEF Placed, Mapping, Givers, Job, Last
<1>7. CASE StorePos(p)
  <2>1. job[p].at = "store" /\ UNCHANGED masked /\ job'[p] = [job[p] EXCEPT !.at = "count"]
    BY <1>7, JobFields DEF StorePos, At, Goto
  <2>2. QED
    BY <1>0, <2>1, JobFields DEF Placed, Mapping, Givers, Job
<1>8. CASE AddCount(p)
  <2>1. job[p].at = "count" /\ UNCHANGED masked /\ job'[p] = Run
    BY <1>8, JobFields DEF AddCount, At, Return
  <2>2. QED
    BY <1>0, <2>1 DEF Placed, Mapping, Givers, Run
<1>9. QED
  BY <1>2, <1>3, <1>4, <1>5, <1>6, <1>7, <1>8 DEF KernelActs

(* What a search that stays in the window finds.                             *)
LEMMA Fitting ==
    ASSUME VirtTypeOK, NEW q \in Pages, NEW n \in Nat \ {0}, FirstFit(q, n), ~Below(q, n)
    PROVE  /\ q - n + 1 \in Nat /\ q \in Nat /\ q < Window /\ q <= vmmPos /\ (q = vmmPos => q - n \in Nat)
           /\ \A i \in Block(q - n + 1, n) : i \in Pages /\ kmap[i] = None
<1>1. /\ q \in 1 .. vmmPos /\ q - n + 1 >= 0 /\ (q = vmmPos => q - n >= 0)
      /\ \A i \in 0 .. n - 1 : q - i >= 0 => kmap[q - i] = None
  BY DEF FirstFit, Fit, Below, Pages, VirtTypeOK
<1>2. q \in Nat /\ q < Window /\ vmmPos \in Nat /\ Window \in Nat
  BY VirtMemAssumption DEF Pages, VirtTypeOK
<1>3. ASSUME NEW i \in Block(q - n + 1, n) PROVE i \in Pages /\ kmap[i] = None
  <2>1. q - i \in 0 .. n - 1 /\ i = q - (q - i) /\ i \in Pages
    BY <1>1, <1>2 DEF Block, Pages
  <2>2. q - (q - i) >= 0
    BY <2>1 DEF Pages
  <2>3. QED
    BY <1>1, <2>1, <2>2
<1>4. QED
  BY <1>1, <1>2, <1>3

LEMMA PlacedUser ==
    ASSUME VirtTypeOK, Jobs, NEW p \in Procs, UserActs(p), Alone(p)
    PROVE  Placed(p)'
<1> USE VirtMemAssumption DEF window, space, ghosts
<1>0. Placed(p) /\ masked \in {p, Nobody} /\ ~raced /\ p \in Users
  BY DEF Jobs, Alone, UserActs
<1>1. job[p].at \notin Mapping => masked = Nobody /\ ~job[p].open
  BY <1>0 DEF Placed
<1>2. job'[p] = Run /\ masked' = Nobody => Placed(p)'
  BY <1>0 DEF Placed, Mapping, Givers, Run
<1>3. job[p].at = "run" /\ job' = job /\ masked' = Nobody => Placed(p)'
  BY <1>0, <1>1 DEF Placed, Mapping, Givers
<1>4. job[p].at = "run" /\ Goto(p, "exit") /\ masked' = Nobody /\ dir'[p] # None => Placed(p)'
  <2> SUFFICES ASSUME job[p].at = "run", Goto(p, "exit"), masked' = Nobody, dir'[p] # None
               PROVE  Placed(p)'
    OBVIOUS
  <2>1. job'[p] = [job[p] EXCEPT !.at = "exit"]
    BY JobFields DEF Goto
  <2>2. job'[p].at = "exit" /\ job'[p].open = job[p].open
    BY <2>1, JobFields DEF Job
  <2>3. QED
    BY <1>0, <1>1, <2>2 DEF Placed, Mapping, Givers
<1>5. CASE AllocPde(p) \/ Exit(p) \/ FreePde(p)
  <2>1. AllocPde(p) \/ Exit(p) => job[p].at = "run"
    BY DEF AllocPde, Exit, At
  <2>2. job[p].at \notin Mapping /\ masked' = masked
    BY <1>5 DEF AllocPde, Exit, FreePde, At, Mapping
  <2>3. CASE AllocPde(p)
    BY <1>1, <1>3, <2>1, <2>2, <2>3 DEF AllocPde
  <2>4. CASE Exit(p)
    BY <1>1, <1>4, <2>1, <2>2, <2>4 DEF Exit
  <2>5. CASE FreePde(p)
    BY <1>1, <1>2, <2>2, <2>5, JobFields DEF FreePde, Return
  <2>6. QED
    BY <1>5, <2>3, <2>4, <2>5
<1>6. CASE FreeTable(p)
  <2>1. job[p].at = "exit" /\ UNCHANGED <<job, masked, dir>>
    BY <1>6 DEF FreeTable, At
  <2>2. QED
    BY <1>0, <2>1 DEF Placed, Mapping, Givers
<1>7. CASE Fault(p)
  <2>1. job[p].at = "run" /\ masked' = masked /\ dir' = dir /\ dir[p] # None
        /\ (UNCHANGED job \/ Goto(p, "exit"))
    BY <1>7 DEF Fault, At
  <2>2. QED
    BY <1>1, <1>3, <1>4, <2>1 DEF Mapping
<1>8. CASE MapOne(p)
  <2>1. PICK q \in Pages, f \in free \ {Zero}, a \in UserPages :
        /\ page[p][a] = None
        /\ FirstFit(q, 1) /\ ~Below(q, 1)
        /\ job' = [job EXCEPT ![p] = [Run EXCEPT !.at = "setone", !.head = q, !.count = 1,
                                                 !.first = a, !.phy = f]]
    BY <1>8 DEF MapOne
  <2>2. /\ job'[p].at = "setone" /\ job'[p].head = q /\ job'[p].count = 1 /\ job'[p].first = a
        /\ job'[p].phy = f /\ job'[p].open = FALSE
    BY <2>1, JobFields DEF Run
  <2>3. masked' = masked /\ page' = page /\ job[p].at = "run" /\ f # None
    BY <1>8 DEF MapOne, At, VirtTypeOK
  <2>4. QED
    BY <1>0, <1>1, <2>1, <2>2, <2>3 DEF Placed, Mapping, Givers, Pages
<1>9. CASE SetOne(p)
  <2>1. job[p].at = "setone" /\ masked' = masked
        /\ job' = [job EXCEPT ![p] = [Run EXCEPT !.at = "buffer", !.head = job[p].head, !.count = 1]]
    BY <1>9 DEF SetOne, At
  <2>2. /\ job'[p].at = "buffer" /\ job'[p].head = job[p].head /\ job'[p].count = 1
        /\ job'[p].open = FALSE /\ job'[p].done = 0
    BY <2>1, JobFields DEF Run
  <2>3. job[p].head + 1 <= Window
    BY <1>0, <2>1, JobFields DEF Placed
  <2>4. QED
    BY <1>1, <2>1, <2>2, <2>3 DEF Placed, Mapping, Givers
<1>10. CASE Unmap(p)
  <2>1. job[p].at = "buffer" /\ masked' = masked /\ job'[p] = [job[p] EXCEPT !.at = "unmap"]
    BY <1>10, JobFields DEF Unmap, At, Goto
  <2>2. QED
    BY <1>0, <1>1, <2>1, JobFields DEF Placed, Mapping, Givers, Job
<1>11. ASSUME NEW n \in Counts, MapBegin(p, n) PROVE Placed(p)'
  <2>1. PICK q \in Pages, a \in UserPages :
        /\ Block(a, n) \subseteq UserPages
        /\ FirstFit(q, n) /\ ~Below(q, n)
        /\ job' = [job EXCEPT ![p] = [Run EXCEPT !.at = "frame", !.head = q - n + 1,
                                                 !.count = n, !.first = a]]
    BY <1>11 DEF MapBegin
  <2>2. /\ job'[p].at = "frame" /\ job'[p].head = q - n + 1 /\ job'[p].count = n
        /\ job'[p].first = a /\ job'[p].done = 0 /\ job'[p].open = FALSE
    BY <2>1, JobFields DEF Run
  <2>3. masked' = p /\ vmmPos' = vmmPos /\ n > 1 /\ n \in Nat
    BY <1>11 DEF MapBegin
  <2>4. q - n + 1 \in Nat /\ q \in Nat /\ q < Window /\ q <= vmmPos /\ (q = vmmPos => q - n \in Nat)
    BY <2>1, <2>3, Fitting
  <2>5. Last(p)' = q
    BY <2>2, <2>3, <2>4 DEF Last
  <2>6. q - n + 1 + n <= Window /\ (q = vmmPos => q - n + 1 > 0)
    BY <2>3, <2>4
  <2>7. QED
    BY <1>0, <2>1, <2>2, <2>3, <2>4, <2>5, <2>6 DEF Placed, Mapping, Givers
<1>12. CASE MapFrame(p)
  <2>1. job[p].at = "frame" /\ UNCHANGED <<vmmPos, raced, page, masked>>
    BY <1>12 DEF MapFrame, At
  <2>2. \/ /\ page[p][UserPage(p)] # None
           /\ job'[p] = [job[p] EXCEPT !.at = "map", !.phy = page[p][UserPage(p)]]
        \/ /\ page[p][UserPage(p)] = None
           /\ \E f \in free \ {Zero} : job'[p] = [job[p] EXCEPT !.at = "set", !.phy = f]
    BY <1>12, JobFields DEF MapFrame
  <2>3. PICK there \in {"map", "set"}, g \in free \cup {page[p][UserPage(p)]} :
          /\ job'[p] = [job[p] EXCEPT !.at = there, !.phy = g] /\ g # None
          /\ there = "set" => page[p][UserPage(p)] = None
    BY <2>2 DEF VirtTypeOK
  <2>4. /\ job'[p].at = there /\ job'[p].phy = g /\ job'[p].head = job[p].head
        /\ job'[p].count = job[p].count /\ job'[p].done = job[p].done
        /\ job'[p].first = job[p].first /\ job'[p].open = job[p].open
    BY <2>3, JobFields DEF Job
  <2>5. Last(p)' = Last(p) /\ UserPage(p)' = UserPage(p)
    BY <2>4 DEF Last, UserPage
  <2>6. QED
    BY <1>0, <2>1, <2>3, <2>4, <2>5 DEF Placed, Mapping, Givers
<1>13. CASE MapSet(p)
  <2>1. job[p].at = "set" /\ UNCHANGED <<vmmPos, raced>>
    BY <1>13 DEF MapSet, At, window
  <2>2. PICK opens \in BOOLEAN :
          /\ job' = [job EXCEPT ![p].at = "map", ![p].open = @ \/ opens]
          /\ masked' = IF opens THEN Nobody ELSE masked
    BY <1>13 DEF MapSet
  <2>3. /\ job'[p].at = "map" /\ job'[p].phy = job[p].phy /\ job'[p].head = job[p].head
        /\ job'[p].count = job[p].count /\ job'[p].done = job[p].done
        /\ job'[p].first = job[p].first /\ job'[p].open = (job[p].open \/ opens)
    BY <2>2, JobFields DEF Job
  <2>4. Last(p)' = Last(p)
    BY <2>3 DEF Last
  <2>5. QED
    BY <1>0, <2>1, <2>2, <2>3, <2>4 DEF Placed, Mapping, Givers
<1>14. CASE MapEnter(p)
  <2>1. job[p].at = "map" /\ UNCHANGED <<vmmPos, raced, masked>>
    BY <1>14 DEF MapEnter, At
  <2>2. PICK there :
          job' = [job EXCEPT ![p].done = job[p].done + 1, ![p].phy = None, ![p].at = there]
                     /\ there = IF job[p].done + 1 = job[p].count THEN "end" ELSE "frame"
    BY <1>14 DEF MapEnter
  <2>3. /\ job'[p].at = there /\ job'[p].head = job[p].head
        /\ job'[p].count = job[p].count /\ job'[p].done = job[p].done + 1
        /\ job'[p].first = job[p].first /\ job'[p].open = job[p].open
    BY <2>2, JobFields DEF Job
  <2>4. Last(p)' = Last(p)
    BY <2>3 DEF Last
  <2>5. job[p].done < job[p].count /\ job[p].done \in Nat /\ job[p].count \in Nat
    BY <1>0, <2>1, JobFields DEF Placed
  <2>6. CASE there = "end"
    BY <1>0, <2>1, <2>2, <2>3, <2>4, <2>5, <2>6 DEF Placed, Mapping, Givers
  <2>7. CASE there = "frame"
    <3>1. job[p].done + 1 < job[p].count
      BY <2>2, <2>5, <2>7
    <3>2. job'[p].at = "frame" /\ Last(p)' = Last(p)
      BY <2>3, <2>4, <2>7
    <3> HIDE DEF Last
    <3>3. QED
      BY <1>0, <2>1, <2>3, <3>1, <3>2 DEF Placed, Mapping, Givers
  <2>8. QED
    BY <2>2, <2>6, <2>7
<1>15. CASE MapEnd(p)
  <2>1. job[p].at = "end" /\ masked' = Nobody
        /\ job' = [job EXCEPT ![p] = [Run EXCEPT !.at = "buffer", !.head = job[p].head,
                                                 !.count = job[p].count]]
    BY <1>15 DEF MapEnd, At
  <2>2. /\ job'[p].at = "buffer" /\ job'[p].head = job[p].head /\ job'[p].count = job[p].count
        /\ job'[p].open = FALSE /\ job'[p].done = 0
    BY <2>1, JobFields DEF Run
  <2>3. QED
    BY <1>0, <2>1, <2>2 DEF Placed, Mapping, Givers
<1>16. CASE MapFail(p)
  BY <1>2, <1>16, JobFields DEF MapFail, Return
<1>17. QED
  BY <1>5, <1>6, <1>7, <1>8, <1>9, <1>10, <1>11, <1>12, <1>13, <1>14, <1>15, <1>16 DEF UserActs

(* Only vmm_mmap_pde_page begins to map.                                     *)
LEMMA MappingBegins ==
    ASSUME VirtTypeOK, NEW p \in Procs, Acts(p), job'[p].at \in Mapping, job[p].at \notin Mapping
    PROVE  \E n \in Counts : p \in Users /\ MapBegin(p, n)
<1> USE DEF Mapping, At, Return, Run
<1>1. \A n \in Counts : ~KAlloc(p, n) /\ ~KAllocFail(p, n) /\ ~SearchBreaks(p, n)
  BY DEF KAlloc, KAllocFail, SearchBreaks
<1>0. ASSUME NEW there, Goto(p, there) PROVE job'[p].at = there
  <2>1. job'[p] = [job[p] EXCEPT !.at = there]
    BY <1>0, JobFields DEF Goto
  <2>2. QED
    BY <2>1, JobFields DEF Job
<1>2. ~KFree(p) /\ ~KFreeFrame(p) /\ ~TestPos(p) /\ ~StorePos(p) /\ ~AddCount(p)
  <2>1. KFree(p) => job'[p].at = "give"
    BY JobFields DEF KFree
  <2>0. AddCount(p) => job'[p].at = "run"
    BY JobFields DEF AddCount
  <2>2. KFreeFrame(p) => job'[p].at = "remove"
    BY <1>0 DEF KFreeFrame
  <2>3. TestPos(p) \/ StorePos(p) => job'[p].at \in {"store", "count"}
    BY <1>0 DEF TestPos, StorePos
  <2>4. QED
    BY <2>0, <2>1, <2>2, <2>3
<1>3. ~Remove(p)
  <2>1. SUFFICES ASSUME Remove(p) PROVE FALSE
    OBVIOUS
  <2>2. job'[p] = [job[p] EXCEPT !.done = job[p].done + 1,
                     !.at = IF job[p].done + 1 = job[p].count THEN "test"
                            ELSE IF job[p].at = "remove" THEN "give" ELSE "unmap"]
    BY <2>1, JobFields DEF Remove
  <2>3. QED
    BY <2>2, JobFields DEF Job
<1>4. ~AllocPde(p) /\ ~Exit(p) /\ ~FreeTable(p) /\ ~FreePde(p)
  <2>1. AllocPde(p) \/ FreeTable(p) => job' = job
    BY DEF AllocPde, FreeTable
  <2>2. Exit(p) => job'[p].at = "exit"
    BY <1>0 DEF Exit
  <2>3. FreePde(p) => job'[p].at = "run"
    BY JobFields DEF FreePde
  <2>4. QED
    BY <2>1, <2>2, <2>3
<1>5. ~Fault(p)
  <2>1. Fault(p) => job' = job \/ Goto(p, "exit")
    BY DEF Fault
  <2>2. QED
    <3>1. Goto(p, "exit") => job'[p].at = "exit"
      BY <1>0
    <3>2. QED
      BY <2>1, <3>1
<1>6. ~MapOne(p)
  BY JobFields DEF MapOne
<1>7. ~SetOne(p) /\ ~Unmap(p)
  <2>1. SetOne(p) => job'[p].at = "buffer"
    BY JobFields DEF SetOne
  <2>2. Unmap(p) => job'[p].at = "unmap"
    BY <1>0 DEF Unmap
  <2>3. QED
    BY <2>1, <2>2
<1>8. ~MapFrame(p) /\ ~MapSet(p) /\ ~MapEnter(p) /\ ~MapEnd(p) /\ ~MapFail(p)
  BY DEF MapFrame, MapSet, MapEnter, MapEnd, MapFail
<1>9. QED
  BY <1>1, <1>2, <1>3, <1>4, <1>5, <1>6, <1>7, <1>8 DEF Acts, KernelActs, UserActs

LEMMA JobsNext == VirtTypeOK /\ Jobs /\ Apart /\ [Next]_vars => Jobs'
<1> SUFFICES ASSUME VirtTypeOK, Jobs, Apart, [Next]_vars PROVE Jobs'
  OBVIOUS
<1>1. CASE UNCHANGED vars
  BY <1>1 DEF vars, window, space, ghosts, Jobs, Placed, UserPage, Last
<1>2. ASSUME NEW p \in Procs, Acts(p), Alone(p) PROVE Jobs'
  <2>1. \A q \in Procs : Placed(q)'
    BY <1>2, PlacedOther, PlacedKernel, PlacedUser DEF Acts
  <2>2. ASSUME ~raced', NEW q \in Procs \ {p}, job'[q].at \in Mapping, job'[p].at \in Mapping
        PROVE FALSE
    <3>1. job[q].at \in Mapping /\ job[q].open /\ Cuts(p)
      BY <1>2, <2>2, MapperCuts DEF Alone
    <3>2. job[p].at \notin Mapping
      BY <1>2, <3>1 DEF Jobs, Alone
    <3>3. ~(\E n \in Counts : p \in Users /\ MapBegin(p, n))
      BY <2>2, <3>1 DEF MapBegin
    <3>4. QED
      BY <1>2, <2>1, <2>2, <3>2, <3>3, MappingBegins
  <2>3. QED
    BY <1>2, <2>1, <2>2 DEF Jobs, Alone
<1>3. QED
  BY <1>1, <1>2, Actor

-----------------------------------------------------------------------------

LEMMA OccupiesFacts ==
    ASSUME VirtTypeOK, Jobs, NEW p \in Procs
    PROVE  /\ Occupies(p) \subseteq Pages /\ Entered(p) \subseteq Occupies(p)
           /\ job[p].at \notin Mapping => Entered(p) = Occupies(p)
           /\ job[p].at \in {"run", "exit", "test", "store", "count"} => Occupies(p) = {}
           /\ job[p].at \in Mapping \cup {"buffer", "setone"} =>
                Occupies(p) = Block(job[p].head, job[p].count)
           /\ job[p].at \in Givers =>
                Occupies(p) = Block(job[p].head + job[p].done, job[p].count - job[p].done)
<1>1. Placed(p)
  BY DEF Jobs
<1>2. /\ job[p].at \in {"run", "exit", "test", "store", "count"} => Occupies(p) = {}
      /\ job[p].at \in Mapping \cup {"buffer", "setone"} =>
            Occupies(p) = Block(job[p].head, job[p].count)
      /\ job[p].at \in Givers =>
            Occupies(p) = Block(job[p].head + job[p].done, job[p].count - job[p].done)
  BY DEF Occupies, Mapping, Givers
<1>3. job[p].at \notin Mapping => Entered(p) = Occupies(p)
  BY DEF Entered
<1>4. job[p].at \in Mapping => Entered(p) \subseteq Occupies(p)
  <2>1. job[p].at \in Mapping => job[p].done <= job[p].count
    BY <1>1, JobFields DEF Placed, Mapping
  <2>2. QED
    BY <1>2, <2>1, JobFields DEF Entered, Block
<1>5. Occupies(p) \subseteq Pages
  <2>1. job[p].at \in Ats
    BY JobFields
  <2>2. job[p].at \notin {"run", "exit"} => job[p].head + job[p].count <= Window
    BY <1>1 DEF Placed
  <2>3. job[p].head \in Nat /\ job[p].count \in Nat /\ job[p].done \in Nat /\ Window \in Nat
    BY JobFields, VirtMemAssumption
  <2>4. CASE job[p].at \in Mapping \cup {"buffer", "setone"}
    BY <1>2, <2>2, <2>3, <2>4 DEF Block, Pages, Mapping
  <2>5. CASE job[p].at \in Givers
    <3>1. /\ job[p].head + job[p].done \in Nat
          /\ job[p].head + job[p].done + (job[p].count - job[p].done) - 1 <= Window - 1
      BY <2>2, <2>3, <2>5 DEF Givers
    <3>2. Block(job[p].head + job[p].done, job[p].count - job[p].done) \subseteq Pages
      BY <2>3, <3>1 DEF Block, Pages
    <3>3. QED
      BY <1>2, <2>5, <3>2
  <2>6. QED
    BY <1>2, <2>1, <2>4, <2>5 DEF Ats
<1>6. QED
  BY <1>2, <1>3, <1>4, <1>5

(* What a step must see to, so that blocks and buffers stay apart: N are the *)
(* pages it takes.                                                           *)
LEMMA ApartStep ==
    ASSUME VirtTypeOK, Jobs, Apart, NEW p \in Procs, Alone(p), NEW N,
           \A i \in N : kmap[i] = None,
           N = {} \/ ~Cuts(p),
           Kernel' \subseteq Kernel \cup N, Occupies(p)' \subseteq Kernel \cup Occupies(p) \cup N,
           Kernel' \cap Occupies(p)' = {},
           \A b, c \in own' : b # c => Block(b[1], b[2]) \cap Block(c[1], c[2]) = {},
           \A i \in Kernel' \cup Entered(p)' : kmap'[i] # None,
           \A i \in Pages \ Occupies(p) : kmap[i] # None => kmap'[i] # None
    PROVE  /\ \A b, c \in own' : b # c => Block(b[1], b[2]) \cap Block(c[1], c[2]) = {}
           /\ \A q \in Procs : Occupies(q)' \cap Kernel' = {}
           /\ \A q, r \in Procs : q # r => Occupies(q)' \cap Occupies(r)' = {}
           /\ \A i \in Kernel' : kmap'[i] # None
           /\ \A q \in Procs : \A i \in Entered(q)' : kmap'[i] # None
<1>1. \A q \in Procs \ {p} : Occupies(q)' = Occupies(q) /\ Entered(q)' = Entered(q)
  BY DEF Alone, Occupies, Entered
<1>2. ~raced
  BY DEF Alone
<1>3. ASSUME NEW q \in Procs \ {p} PROVE Occupies(q) \cap N = {}
  <2>1. CASE N = {}
    BY <2>1
  <2>2. CASE ~Cuts(p)
    <3>1. job[q].at \notin Mapping
      BY <2>2, MapperCuts DEF Alone
    <3>2. QED
      BY <1>2, <3>1, OccupiesFacts DEF Apart
  <2>3. QED
    BY <2>1, <2>2
<1>4. /\ \A q \in Procs : Occupies(q) \cap Kernel = {}
      /\ \A q, r \in Procs : q # r => Occupies(q) \cap Occupies(r) = {}
      /\ \A q \in Procs : \A i \in Entered(q) : kmap[i] # None
  BY <1>2 DEF Apart
<1>5. \A q \in Procs \ {p} : Occupies(q)' \cap Kernel' = {} /\ Occupies(q)' \cap Occupies(p)' = {}
  BY <1>1, <1>3, <1>4
<1>6. ASSUME NEW q \in Procs \ {p}, NEW i \in Entered(q) PROVE kmap'[i] # None
  BY <1>4, <1>6, OccupiesFacts
<1>7. \A q \in Procs : Occupies(q)' \cap Kernel' = {}
  BY <1>5
<1>8. \A q, r \in Procs : q # r => Occupies(q)' \cap Occupies(r)' = {}
  BY <1>1, <1>4, <1>5
<1>9. QED
  BY <1>1, <1>6, <1>7, <1>8

(* The pages of the window an operation occupies, and those it has entered.  *)
OccOf(j) ==
    CASE j.at \in {"frame", "set", "map", "end", "buffer", "setone"} -> Block(j.head, j.count)
      [] j.at \in {"unmap", "give", "remove"} -> Block(j.head + j.done, j.count - j.done)
      [] OTHER -> {}
EntOf(j) == IF j.at \in Mapping THEN Block(j.head, j.done) ELSE OccOf(j)

LEMMA OccFacts ==
    ASSUME NEW j
    PROVE  /\ j.at \in {"run", "exit", "test", "store", "count"} => OccOf(j) = {} /\ EntOf(j) = {}
           /\ j.at \in Mapping => OccOf(j) = Block(j.head, j.count) /\ EntOf(j) = Block(j.head, j.done)
           /\ j.at \in {"buffer", "setone"} =>
                OccOf(j) = Block(j.head, j.count) /\ EntOf(j) = OccOf(j)
           /\ j.at \in Givers =>
                OccOf(j) = Block(j.head + j.done, j.count - j.done) /\ EntOf(j) = OccOf(j)
BY DEF OccOf, EntOf, Mapping, Givers

LEMMA OccJob ==
    \A p \in Procs : /\ Occupies(p) = OccOf(job[p]) /\ Entered(p) = EntOf(job[p])
                     /\ Occupies(p)' = OccOf(job'[p]) /\ Entered(p)' = EntOf(job'[p])
BY DEF Occupies, Entered, OccOf, EntOf

(* Steps that change neither the window nor the kernel's blocks.             *)
LEMMA ApartQuiet ==
    ASSUME VirtTypeOK, Jobs, Apart, NEW p \in Procs, Alone(p), UNCHANGED <<kmap, own>>,
           OccOf(job'[p]) \subseteq OccOf(job[p]), EntOf(job'[p]) \subseteq EntOf(job[p])
    PROVE  Apart'
<1>1. Kernel' = Kernel
  BY DEF Kernel
<1>2. ~raced
  BY DEF Alone
<1>3. Occupies(p)' \subseteq Occupies(p) /\ Entered(p)' \subseteq Entered(p)
  BY OccJob
<1>4. Kernel' \cap Occupies(p)' = {}
  BY <1>1, <1>2, <1>3 DEF Apart
<1>5. \A b, c \in own' : b # c => Block(b[1], b[2]) \cap Block(c[1], c[2]) = {}
  BY <1>2 DEF Apart
<1>6. \A i \in Kernel' \cup Entered(p)' : kmap'[i] # None
  BY <1>1, <1>2, <1>3 DEF Apart
<1>7. /\ \A b, c \in own' : b # c => Block(b[1], b[2]) \cap Block(c[1], c[2]) = {}
      /\ \A q \in Procs : Occupies(q)' \cap Kernel' = {}
      /\ \A q, r \in Procs : q # r => Occupies(q)' \cap Occupies(r)' = {}
      /\ \A i \in Kernel' : kmap'[i] # None
      /\ \A q \in Procs : \A i \in Entered(q)' : kmap'[i] # None
  <2> DEFINE N == {}
  <2>1. (\A i \in N : kmap[i] = None) /\ N = {}
    OBVIOUS
  <2>2. Kernel' \subseteq Kernel \cup N /\ Occupies(p)' \subseteq Kernel \cup Occupies(p) \cup N
    BY <1>1, <1>3
  <2> HIDE DEF N
  <2>3. QED
    BY <1>4, <1>5, <1>6, <2>1, <2>2, ApartStep
<1>8. QED
  BY <1>7 DEF Apart

(* The search's block goes to the kernel, or to p.                           *)
LEMMA ApartTake ==
    ASSUME VirtTypeOK, Jobs, Apart, NEW p \in Procs, Alone(p), job[p].at = "run",
           NEW q \in Pages, NEW n \in Nat \ {0}, FirstFit(q, n), ~Below(q, n), Cuts(p) => raced',
           \A i \in Pages \ Block(q - n + 1, n) : kmap'[i] = kmap[i],
           \/ /\ own' = own \cup {<<q - n + 1, n>>} /\ job' = job
              /\ \A i \in Block(q - n + 1, n) : kmap'[i] # None
           \/ /\ own' = own
              /\ OccOf(job'[p]) = Block(q - n + 1, n)
              /\ \A i \in EntOf(job'[p]) : i \in Block(q - n + 1, n) /\ kmap'[i] # None
    PROVE  Apart'
<1> DEFINE B == Block(q - n + 1, n)
<1>1. /\ q - n + 1 \in Nat /\ q \in Nat /\ q < Window
      /\ \A i \in B : i \in Pages /\ kmap[i] = None
  BY Fitting
<1>2. /\ ~raced /\ OccOf(job[p]) = {} /\ EntOf(job[p]) = {} /\ Occupies(p) = {}
      /\ Occupies(p)' = OccOf(job'[p]) /\ Entered(p)' = EntOf(job'[p])
  BY OccFacts, OccJob DEF Alone
<1>3. \A b \in own' : b[2] > 0 /\ b[1] + b[2] <= Window
  <2>1. q - n + 1 + n <= Window /\ n > 0
    BY <1>1, VirtMemAssumption
  <2>2. QED
    BY <2>1 DEF Apart
<1>4. Kernel \subseteq Pages
  <2>1. ASSUME NEW b \in own PROVE Block(b[1], b[2]) \subseteq Pages
    BY VirtMemAssumption DEF Block, Pages, Apart, VirtTypeOK
  <2>2. QED
    BY <2>1 DEF Kernel
<1>5. \A i \in Kernel : kmap[i] # None
  BY <1>2 DEF Apart
<1>6. Kernel \cap B = {} /\ (\A i \in Kernel : kmap'[i] # None)
  BY <1>1, <1>4, <1>5
<1>7. ASSUME ~raced'
      PROVE  /\ \A b, c \in own' : b # c => Block(b[1], b[2]) \cap Block(c[1], c[2]) = {}
             /\ \A r \in Procs : Occupies(r)' \cap Kernel' = {}
             /\ \A r, s \in Procs : r # s => Occupies(r)' \cap Occupies(s)' = {}
             /\ \A i \in Kernel' : kmap'[i] # None
             /\ \A r \in Procs : \A i \in Entered(r)' : kmap'[i] # None
  <2>1. ~Cuts(p)
    BY <1>7
  <2>2. \A b \in own : Block(b[1], b[2]) \subseteq Kernel
    BY DEF Kernel
  <2>3. /\ Kernel' \subseteq Kernel \cup B /\ Occupies(p)' \subseteq Kernel \cup Occupies(p) \cup B
        /\ Kernel' \cap Occupies(p)' = {}
        /\ \A b, c \in own' : b # c => Block(b[1], b[2]) \cap Block(c[1], c[2]) = {}
        /\ \A i \in Kernel' \cup Entered(p)' : kmap'[i] # None
    <3>1. CASE own' = own \cup {<<q - n + 1, n>>} /\ job' = job /\ \A i \in B : kmap'[i] # None
      <4>1. Kernel' = Kernel \cup B
        <5>1. Kernel' = UNION {Block(b[1], b[2]) : b \in own \cup {<<q - n + 1, n>>}}
          BY <3>1 DEF Kernel
        <5> DEFINE new == <<q - n + 1, n>>
        <5>2. Block(new[1], new[2]) = B
          OBVIOUS
        <5> HIDE DEF new, B
        <5>3. Kernel' = UNION {Block(b[1], b[2]) : b \in own \cup {new}}
          BY <5>1 DEF new
        <5>4. QED
          BY <5>2, <5>3 DEF Kernel
      <4>2. Occupies(p)' = {} /\ Entered(p)' = {}
        BY <1>2, <3>1
      <4>3. \A b, c \in own' : b # c => Block(b[1], b[2]) \cap Block(c[1], c[2]) = {}
        <5>1. \A b, c \in own : b # c => Block(b[1], b[2]) \cap Block(c[1], c[2]) = {}
          BY <1>2 DEF Apart
        <5>2. \A b \in own : Block(b[1], b[2]) \cap B = {}
          BY <1>6, <2>2
        <5>3. ASSUME NEW b \in own', NEW c \in own', b # c
              PROVE  Block(b[1], b[2]) \cap Block(c[1], c[2]) = {}
          <6>1. b = <<q - n + 1, n>> => Block(b[1], b[2]) = B
            OBVIOUS
          <6>2. c = <<q - n + 1, n>> => Block(c[1], c[2]) = B
            OBVIOUS
          <6> HIDE DEF B
          <6>3. QED
            BY <3>1, <5>1, <5>2, <5>3, <6>1, <6>2
        <5>4. QED
          BY <5>3
      <4>4. QED
        BY <1>6, <3>1, <4>1, <4>2, <4>3
    <3>2. CASE /\ own' = own /\ OccOf(job'[p]) = B
               /\ \A i \in EntOf(job'[p]) : i \in B /\ kmap'[i] # None
      <4>1. Kernel' = Kernel
        BY <3>2 DEF Kernel
      <4>2. QED
        BY <1>2, <1>6, <3>2, <4>1 DEF Apart
    <3>3. QED
      BY <3>1, <3>2
  <2>4. \A i \in Pages \ Occupies(p) : kmap[i] # None => kmap'[i] # None
    BY <1>1
  <2>5. \A i \in B : kmap[i] = None
    BY <1>1
  <2> HIDE DEF B
  <2>6. QED
    BY <2>1, <2>3, <2>4, <2>5, ApartStep
<1>8. QED
  BY <1>3, <1>7 DEF Apart

(* Steps that leave the kernel's blocks or give one up, and map nothing      *)
(* outside what p occupies away.                                             *)
LEMMA ApartGive ==
    ASSUME VirtTypeOK, Jobs, Apart, NEW p \in Procs, Alone(p), own' \subseteq own,
           Kernel' \cap OccOf(job'[p]) = {},
           OccOf(job'[p]) \subseteq Kernel \cup OccOf(job[p]),
           \A i \in Kernel' \cup EntOf(job'[p]) : kmap'[i] # None,
           \A i \in Pages \ OccOf(job[p]) : kmap[i] # None => kmap'[i] # None
    PROVE  Apart'
<1> DEFINE N == {}
<1>1. (\A i \in N : kmap[i] = None) /\ N = {}
  OBVIOUS
<1>2. Kernel' \subseteq Kernel \cup N
  BY DEF Kernel
<1>3. Occupies(p)' \subseteq Kernel \cup Occupies(p) \cup N /\ Kernel' \cap Occupies(p)' = {}
  BY OccJob
<1>4. \A b, c \in own' : b # c => Block(b[1], b[2]) \cap Block(c[1], c[2]) = {}
  BY DEF Apart, Alone
<1>5. \A i \in Kernel' \cup Entered(p)' : kmap'[i] # None
  BY OccJob
<1>6. \A i \in Pages \ Occupies(p) : kmap[i] # None => kmap'[i] # None
  BY OccJob
<1> HIDE DEF N
<1>7. /\ \A b, c \in own' : b # c => Block(b[1], b[2]) \cap Block(c[1], c[2]) = {}
      /\ \A q \in Procs : Occupies(q)' \cap Kernel' = {}
      /\ \A q, r \in Procs : q # r => Occupies(q)' \cap Occupies(r)' = {}
      /\ \A i \in Kernel' : kmap'[i] # None
      /\ \A q \in Procs : \A i \in Entered(q)' : kmap'[i] # None
  BY <1>1, <1>2, <1>3, <1>4, <1>5, <1>6, ApartStep
<1>8. QED
  BY <1>7 DEF Apart

(* What Apart says of p and the kernel.                                      *)
LEMMA ApartFacts ==
    ASSUME VirtTypeOK, Jobs, Apart, ~raced, NEW p \in Procs
    PROVE  /\ Kernel \cap OccOf(job[p]) = {} /\ OccOf(job[p]) \subseteq Pages /\ Kernel \subseteq Pages
           /\ \A i \in Kernel \cup EntOf(job[p]) : kmap[i] # None
<1>1. ASSUME NEW b \in own PROVE Block(b[1], b[2]) \subseteq Pages
  BY VirtMemAssumption DEF Block, Pages, Apart, VirtTypeOK
<1>2. Kernel \subseteq Pages
  BY <1>1 DEF Kernel
<1>3. QED
  BY <1>2, OccupiesFacts, OccJob DEF Apart

LEMMA ApartKernel ==
    ASSUME VirtTypeOK, Jobs, Apart, NEW p \in Procs, KernelActs(p), Alone(p)
    PROVE  Apart'
<1> USE DEF window, space, ghosts
<1>0. ~raced
  BY DEF Alone
<1>1. ASSUME NEW n \in Counts, KAlloc(p, n) PROVE Apart'
  <2>1. n \in Nat \ {0}
    BY VirtMemAssumption
  <2>2. PICK q \in Pages, f \in [Block(0, n) -> free \ {Zero}] :
           /\ FirstFit(q, n) /\ ~Below(q, n)
           /\ kmap' = [i \in Pages |-> IF i \in Block(q - n + 1, n) THEN f[i - (q - n + 1)] ELSE kmap[i]]
           /\ own' = own \cup {<<q - n + 1, n>>}
    BY <1>1 DEF KAlloc
  <2>3. job[p].at = "run" /\ job' = job /\ (Cuts(p) => raced')
    BY <1>1 DEF KAlloc, At
  <2>4. \A i \in Pages \ Block(q - n + 1, n) : kmap'[i] = kmap[i]
    BY <2>2
  <2>5. ASSUME NEW i \in Block(q - n + 1, n) PROVE kmap'[i] # None
    <3>1. i \in Pages /\ q - n + 1 \in Nat
      BY <2>1, <2>2, Fitting
    <3>2. i - (q - n + 1) \in Block(0, n)
      BY <2>1, <3>1 DEF Block, Pages
    <3>3. f[i - (q - n + 1)] \in Frames
      BY <3>2 DEF VirtTypeOK
    <3>4. QED
      BY <2>2, <3>1, <3>3, VirtMemAssumption
  <2>6. QED
    BY <2>1, <2>2, <2>3, <2>4, <2>5, ApartTake
<1>2. ASSUME NEW n \in Counts, KAllocFail(p, n) PROVE Apart'
  <2>1. own' = own /\ job' = job /\ Kernel' = Kernel
    BY <1>2 DEF KAllocFail, Kernel
  <2>2. ASSUME NEW i \in Pages, kmap[i] # None PROVE kmap'[i] # None
    <3>1. PICK q \in Pages, done \in Block(0, n) : \E f \in [Block(0, done) -> free \ {Zero}] :
             kmap' = IF done > 0 THEN [kmap EXCEPT ![q - n + 1] = f[0]] ELSE kmap
      BY <1>2 DEF KAllocFail
    <3>2. PICK f \in [Block(0, done) -> free \ {Zero}] :
             kmap' = IF done > 0 THEN [kmap EXCEPT ![q - n + 1] = f[0]] ELSE kmap
      BY <3>1
    <3>3. done > 0 => f[0] \in Frames
      <4>1. done > 0 => 0 \in Block(0, done)
        BY DEF Block
      <4>2. QED
        BY <4>1 DEF VirtTypeOK
    <3>4. QED
      BY <2>2, <3>2, <3>3, VirtMemAssumption DEF VirtTypeOK
  <2>3. \A i \in Kernel' \cup EntOf(job'[p]) : kmap'[i] # None
    <3>1. EntOf(job[p]) \subseteq Pages
      BY OccupiesFacts, OccJob
    <3>2. QED
      BY <1>0, <2>1, <2>2, <3>1, ApartFacts
  <2>4. QED
    BY <1>0, <2>1, <2>2, <2>3, ApartFacts, ApartGive
<1>3. CASE KFree(p)
  <2>1. PICK b \in own : /\ own' = own \ {b}
                         /\ job' = [job EXCEPT ![p] = [Run EXCEPT !.at = "give", !.head = b[1], !.count = b[2]]]
    BY <1>3 DEF KFree
  <2>2. job[p].at = "run" /\ kmap' = kmap
    BY <1>3 DEF KFree, At
  <2>3. job'[p].at = "give" /\ job'[p].head = b[1] /\ job'[p].count = b[2] /\ job'[p].done = 0
    BY <2>1 DEF Run, VirtTypeOK
  <2>4. OccOf(job'[p]) = Block(b[1], b[2]) /\ EntOf(job'[p]) = Block(b[1], b[2])
    <3>1. b[1] \in Nat /\ b[2] \in Nat
      BY DEF VirtTypeOK
    <3>2. OccOf(job'[p]) = Block(b[1] + 0, b[2] - 0) /\ EntOf(job'[p]) = OccOf(job'[p])
      BY <2>3, OccFacts DEF Givers
    <3>3. QED
      BY <3>1, <3>2 DEF Block
  <2>5. Kernel' \subseteq Kernel /\ Block(b[1], b[2]) \subseteq Kernel
    BY <2>1 DEF Kernel
  <2>6. Kernel' \cap Block(b[1], b[2]) = {}
    <3>1. \A c \in own' : Block(c[1], c[2]) \cap Block(b[1], b[2]) = {}
      BY <1>0, <2>1 DEF Apart
    <3>2. QED
      BY <3>1 DEF Kernel
  <2>7. own' \subseteq own /\ Kernel' \cap OccOf(job'[p]) = {} /\ OccOf(job'[p]) \subseteq Kernel
    BY <2>1, <2>4, <2>5, <2>6
  <2>8. \A i \in Kernel' \cup EntOf(job'[p]) : kmap'[i] # None
    BY <1>0, <2>2, <2>4, <2>5, ApartFacts
  <2>9. QED
    BY <2>2, <2>7, <2>8, ApartGive
<1>4. CASE Remove(p)
  <2>1. /\ job[p].at \in {"remove", "unmap"} /\ own' = own /\ Kernel' = Kernel
        /\ kmap' = [kmap EXCEPT ![job[p].head + job[p].done] = None]
    BY <1>4 DEF Remove, At, Kernel
  <2>2. /\ job'[p].head = job[p].head /\ job'[p].count = job[p].count /\ job'[p].done = job[p].done + 1
        /\ job'[p].at \in Givers \cup {"test"}
    BY <1>4, JobFields DEF Remove, At, Givers, Job
  <2>3. job[p].head \in Nat /\ job[p].count \in Nat /\ job[p].done \in Nat /\ job[p].done < job[p].count
    BY <2>1, JobFields DEF Jobs, Placed, Givers
  <2>4. /\ OccOf(job[p]) = Block(job[p].head + job[p].done, job[p].count - job[p].done)
        /\ EntOf(job[p]) = OccOf(job[p])
    BY <2>1, OccFacts DEF Givers
  <2>5. \/ OccOf(job'[p]) = {} /\ EntOf(job'[p]) = {}
        \/ /\ OccOf(job'[p]) = Block(job[p].head + (job[p].done + 1), job[p].count - (job[p].done + 1))
           /\ EntOf(job'[p]) = OccOf(job'[p])
    BY <2>2, OccFacts
  <2>6. OccOf(job'[p]) \subseteq OccOf(job[p]) /\ job[p].head + job[p].done \in OccOf(job[p])
    <3>1. \A h, d, c \in Nat : d < c => /\ h + d \in Block(h + d, c - d)
                                       /\ Block(h + (d + 1), c - (d + 1)) \subseteq Block(h + d, c - d)
      BY DEF Block
    <3>2. /\ job[p].head + job[p].done \in OccOf(job[p])
          /\ Block(job[p].head + (job[p].done + 1), job[p].count - (job[p].done + 1)) \subseteq OccOf(job[p])
      BY <2>3, <2>4, <3>1
    <3>3. QED
      BY <2>5, <3>2
  <2>7. job[p].head + job[p].done \notin OccOf(job'[p])
    BY <2>3, <2>5 DEF Block
  <2>8. \A i \in Pages : i # job[p].head + job[p].done => kmap'[i] = kmap[i]
    BY <2>1 DEF VirtTypeOK
  <2>9. \A i \in Kernel' \cup EntOf(job'[p]) : kmap'[i] # None
    BY <1>0, <2>1, <2>4, <2>5, <2>6, <2>7, <2>8, ApartFacts
  <2>10. Kernel' \cap OccOf(job'[p]) = {}
    BY <1>0, <2>1, <2>6, ApartFacts
  <2>11. QED
    BY <2>1, <2>6, <2>8, <2>9, <2>10, ApartGive
<1>5. CASE KFreeFrame(p)
  <2>1. /\ job[p].at = "give" /\ job'[p].at = "remove" /\ UNCHANGED <<kmap, own>>
        /\ job'[p].head = job[p].head /\ job'[p].count = job[p].count /\ job'[p].done = job[p].done
    BY <1>5, JobFields DEF KFreeFrame, At, Goto, Job
  <2>2. OccOf(job'[p]) = OccOf(job[p]) /\ EntOf(job'[p]) = EntOf(job[p])
    BY <2>1, OccFacts DEF Givers
  <2>3. QED
    BY <2>1, <2>2, ApartQuiet
<1>6. CASE TestPos(p) \/ StorePos(p) \/ AddCount(p)
  <2>1. UNCHANGED <<kmap, own>> /\ job'[p].at \in {"store", "count", "run"}
    BY <1>6, JobFields DEF TestPos, StorePos, AddCount, At, Goto, Return, Job, Run
  <2>2. QED
    BY <2>1, OccFacts, ApartQuiet
<1>7. ASSUME NEW n \in Counts, SearchBreaks(p, n) PROVE Apart'
  BY <1>7, ApartQuiet DEF SearchBreaks
<1>8. QED
  BY <1>1, <1>2, <1>3, <1>4, <1>5, <1>6, <1>7 DEF KernelActs

LEMMA ApartUser ==
    ASSUME VirtTypeOK, Jobs, Apart, NEW p \in Procs, UserActs(p), Alone(p)
    PROVE  Apart'
<1> USE DEF window, space, ghosts
<1>0. ~raced /\ p \in Users
  BY DEF Alone, UserActs
<1>1. CASE AllocPde(p) \/ FreeTable(p)
  BY <1>1, ApartQuiet DEF AllocPde, FreeTable
<1>2. CASE Exit(p) \/ FreePde(p)
  <2>1. UNCHANGED <<kmap, own>> /\ job'[p].at \in {"exit", "run"}
    BY <1>2, JobFields DEF Exit, FreePde, Goto, Return, Job, Run
  <2>2. QED
    BY <2>1, OccFacts, ApartQuiet
<1>3. CASE Fault(p)
  <2>1. UNCHANGED <<kmap, own>> /\ (UNCHANGED job \/ Goto(p, "exit"))
    BY <1>3 DEF Fault
  <2>2. CASE UNCHANGED job
    BY <2>1, <2>2, ApartQuiet
  <2>3. CASE Goto(p, "exit")
    <3>1. job'[p].at = "exit"
      BY <2>3, JobFields DEF Goto, Job
    <3>2. QED
      BY <2>1, <3>1, OccFacts, ApartQuiet
  <2>4. QED
    BY <2>1, <2>2, <2>3
<1>4. CASE MapOne(p)
  <2>1. PICK q \in Pages, f \in free \ {Zero}, a \in UserPages :
           /\ FirstFit(q, 1) /\ ~Below(q, 1)
           /\ kmap' = [kmap EXCEPT ![q] = f]
           /\ job' = [job EXCEPT ![p] = [Run EXCEPT !.at = "setone", !.head = q, !.count = 1,
                                                    !.first = a, !.phy = f]]
    BY <1>4 DEF MapOne
  <2>2. job[p].at = "run" /\ own' = own /\ (Cuts(p) => raced')
    BY <1>4 DEF MapOne, At
  <2>3. /\ q \in Nat /\ q - 1 + 1 = q /\ Block(q, 1) = {q} /\ f # None
        /\ \A i \in Pages : kmap'[i] = IF i = q THEN f ELSE kmap[i]
    BY <2>1, VirtMemAssumption DEF Pages, Block, VirtTypeOK
  <2>4. job'[p].at = "setone" /\ job'[p].head = q /\ job'[p].count = 1
    BY <2>1, JobFields DEF Run
  <2>5. OccOf(job'[p]) = Block(q - 1 + 1, 1) /\ EntOf(job'[p]) = {q}
    BY <2>3, <2>4, OccFacts
  <2>6. \A i \in EntOf(job'[p]) : i \in Block(q - 1 + 1, 1) /\ kmap'[i] # None
    BY <2>3, <2>5
  <2>7. \A i \in Pages \ Block(q - 1 + 1, 1) : kmap'[i] = kmap[i]
    BY <2>3
  <2>8. 1 \in Nat \ {0}
    OBVIOUS
  <2>9. QED
    BY <2>1, <2>2, <2>5, <2>6, <2>7, <2>8, ApartTake
<1>5. ASSUME NEW n \in Counts, MapBegin(p, n) PROVE Apart'
  <2>1. n \in Nat \ {0}
    BY VirtMemAssumption
  <2>2. PICK q \in Pages, a \in UserPages :
           /\ FirstFit(q, n) /\ ~Below(q, n)
           /\ job' = [job EXCEPT ![p] = [Run EXCEPT !.at = "frame", !.head = q - n + 1,
                                                    !.count = n, !.first = a]]
    BY <1>5 DEF MapBegin
  <2>3. job[p].at = "run" /\ own' = own /\ kmap' = kmap /\ (Cuts(p) => raced')
    BY <1>5 DEF MapBegin, At
  <2>4. /\ job'[p].at = "frame" /\ job'[p].head = q - n + 1 /\ job'[p].count = n
        /\ job'[p].done = 0
    BY <2>2, JobFields DEF Run
  <2>5. OccOf(job'[p]) = Block(q - n + 1, n) /\ EntOf(job'[p]) = Block(q - n + 1, 0)
    BY <2>4, OccFacts DEF Mapping
  <2>6. Block(q - n + 1, 0) = {}
    BY <2>1, <2>2 DEF Block, Pages
  <2>7. QED
    BY <2>1, <2>2, <2>3, <2>5, <2>6, ApartTake
<1>6. CASE SetOne(p)
  <2>1. /\ job[p].at = "setone" /\ UNCHANGED <<kmap, own>>
        /\ job'[p] = [Run EXCEPT !.at = "buffer", !.head = job[p].head, !.count = 1]
    BY <1>6, JobFields DEF SetOne, At
  <2>2. /\ job[p].at = "setone" /\ job'[p].at = "buffer"
        /\ job'[p].head = job[p].head /\ job'[p].count = job[p].count
    BY <2>1, <1>0 DEF Run, Jobs, Placed
  <2>3. OccOf(job'[p]) = OccOf(job[p]) /\ EntOf(job'[p]) = EntOf(job[p])
    BY <2>2, OccFacts
  <2>4. QED
    BY <2>1, <2>3, ApartQuiet
<1>7. CASE Unmap(p)
  <2>1. /\ job[p].at = "buffer" /\ UNCHANGED <<kmap, own>> /\ job'[p].at = "unmap"
        /\ job'[p].head = job[p].head /\ job'[p].count = job[p].count /\ job'[p].done = job[p].done
    BY <1>7, JobFields DEF Unmap, At, Goto, Job
  <2>2. job[p].done = 0 /\ job[p].head \in Nat /\ job[p].count \in Nat
    BY <2>1, JobFields DEF Jobs, Placed
  <2>3. Block(job[p].head + job[p].done, job[p].count - job[p].done) = Block(job[p].head, job[p].count)
    BY <2>2 DEF Block
  <2>4. QED
    BY <2>1, <2>3, OccFacts, ApartQuiet DEF Givers
<1>8. CASE MapFrame(p) \/ MapSet(p)
  <2>1. /\ job[p].at \in Mapping /\ job'[p].at \in Mapping /\ UNCHANGED <<kmap, own>>
        /\ job'[p].head = job[p].head /\ job'[p].count = job[p].count /\ job'[p].done = job[p].done
    <3>1. CASE MapFrame(p)
      BY <3>1, JobFields DEF MapFrame, At, Mapping, Job
    <3>2. CASE MapSet(p)
      <4>1. PICK o : job' = [job EXCEPT ![p].at = "map", ![p].open = o]
        BY <3>2 DEF MapSet
      <4>2. QED
        BY <3>2, <4>1, JobFields DEF MapSet, At, Mapping, Job
    <3>3. QED
      BY <1>8, <3>1, <3>2
  <2>2. QED
    BY <2>1, OccFacts, ApartQuiet
<1>9. CASE MapEnter(p)
  <2>1. /\ job[p].at = "map" /\ own' = own /\ Kernel' = Kernel
        /\ kmap' = [kmap EXCEPT ![job[p].head + job[p].done] = job[p].phy]
    BY <1>9 DEF MapEnter, At, Kernel
  <2>2. /\ job'[p].head = job[p].head /\ job'[p].count = job[p].count /\ job'[p].done = job[p].done + 1
        /\ job'[p].at \in Mapping
    BY <1>9, JobFields DEF MapEnter, Mapping, Job
  <2>3. /\ job[p].head \in Nat /\ job[p].count \in Nat /\ job[p].done \in Nat
        /\ job[p].done < job[p].count /\ job[p].phy # None
    BY <2>1, JobFields DEF Jobs, Placed
  <2>4. \A i \in Pages : kmap'[i] = IF i = job[p].head + job[p].done THEN job[p].phy ELSE kmap[i]
    BY <2>1 DEF VirtTypeOK
  <2>5. \A i \in Pages : kmap[i] # None => kmap'[i] # None
    BY <2>3, <2>4
  <2>6. OccOf(job'[p]) = OccOf(job[p]) /\ OccOf(job[p]) = Block(job[p].head, job[p].count)
    BY <2>1, <2>2, OccFacts DEF Mapping
  <2>7. /\ EntOf(job'[p]) = Block(job[p].head, job[p].done + 1)
        /\ EntOf(job[p]) = Block(job[p].head, job[p].done)
    BY <2>1, <2>2, OccFacts DEF Mapping
  <2>8. \A i \in EntOf(job'[p]) : i \in EntOf(job[p]) \/ i = job[p].head + job[p].done
    <3>1. \A h, d \in Nat : \A i \in Block(h, d + 1) : i \in Block(h, d) \/ i = h + d
      BY DEF Block
    <3>2. QED
      BY <2>3, <2>7, <3>1
  <2>9. EntOf(job'[p]) \subseteq Pages
    <3>1. \A h, d, c \in Nat : d < c => Block(h, d + 1) \subseteq Block(h, c)
      BY DEF Block
    <3>2. QED
      BY <1>0, <2>3, <2>6, <2>7, <3>1, ApartFacts
  <2>10. \A i \in Kernel' \cup EntOf(job'[p]) : kmap'[i] # None
    BY <1>0, <2>1, <2>3, <2>4, <2>5, <2>8, <2>9, ApartFacts
  <2>11. QED
    BY <1>0, <2>1, <2>5, <2>6, <2>10, ApartFacts, ApartGive
<1>10. CASE MapEnd(p)
  <2>1. /\ job[p].at = "end" /\ UNCHANGED <<kmap, own>>
        /\ job'[p] = [Run EXCEPT !.at = "buffer", !.head = job[p].head, !.count = job[p].count]
    BY <1>10, JobFields DEF MapEnd, At
  <2>2. /\ job[p].at = "end" /\ job'[p].at = "buffer" /\ job[p].done = job[p].count
        /\ job'[p].head = job[p].head /\ job'[p].count = job[p].count
    BY <2>1 DEF Run, Jobs, Placed
  <2>3. OccOf(job'[p]) = OccOf(job[p]) /\ EntOf(job'[p]) = EntOf(job[p])
    <3>1. /\ OccOf(job'[p]) = Block(job'[p].head, job'[p].count) /\ EntOf(job'[p]) = OccOf(job'[p])
          /\ OccOf(job[p]) = Block(job[p].head, job[p].count)
          /\ EntOf(job[p]) = Block(job[p].head, job[p].done)
      BY <2>2, OccFacts DEF Mapping
    <3>2. QED
      BY <2>2, <3>1
  <2>4. QED
    BY <2>1, <2>3, ApartQuiet
<1>11. CASE MapFail(p)
  <2>1. /\ job[p].at = "frame" /\ own' = own /\ Kernel' = Kernel /\ job'[p].at = "run"
        /\ kmap' = [i \in Pages |-> IF i \in job[p].head + 1 .. job[p].head + job[p].done
                                    THEN None ELSE kmap[i]]
    BY <1>11, JobFields DEF MapFail, At, Kernel, Return, Run
  <2>2. job[p].head \in Nat /\ job[p].count \in Nat /\ job[p].done \in Nat /\ job[p].done < job[p].count
    BY <2>1, JobFields DEF Jobs, Placed
  <2>3. OccOf(job[p]) = Block(job[p].head, job[p].count) /\ OccOf(job'[p]) = {} /\ EntOf(job'[p]) = {}
    BY <2>1, OccFacts DEF Mapping
  <2>4. job[p].head + 1 .. job[p].head + job[p].done \subseteq OccOf(job[p])
    BY <2>2, <2>3 DEF Block
  <2>5. \A i \in Pages \ OccOf(job[p]) : kmap'[i] = kmap[i]
    BY <2>1, <2>4
  <2>6. \A i \in Kernel' \cup EntOf(job'[p]) : kmap'[i] # None
    BY <1>0, <2>1, <2>3, <2>5, ApartFacts
  <2>7. QED
    BY <2>1, <2>3, <2>5, <2>6, ApartGive
<1>12. QED
  BY <1>1, <1>2, <1>3, <1>4, <1>5, <1>6, <1>7, <1>8, <1>9, <1>10, <1>11 DEF UserActs

LEMMA ApartNext == VirtTypeOK /\ Jobs /\ Apart /\ [Next]_vars => Apart'
<1> SUFFICES ASSUME VirtTypeOK, Jobs, Apart, [Next]_vars PROVE Apart'
  OBVIOUS
<1>1. CASE UNCHANGED vars
  <2>1. UNCHANGED <<kmap, own, raced, job>>
    BY <1>1 DEF vars, window, ghosts
  <2>2. Kernel' = Kernel /\ \A p \in Procs : Occupies(p)' = Occupies(p) /\ Entered(p)' = Entered(p)
    BY <2>1 DEF Kernel, Occupies, Entered
  <2>3. QED
    BY <2>1, <2>2 DEF Apart
<1>2. QED
  BY <1>1, Actor, ApartKernel, ApartUser DEF Acts

-----------------------------------------------------------------------------
LayoutInv == VirtTypeOK /\ Jobs /\ Apart

LEMMA LayoutInit == Init => LayoutInv
<1> SUFFICES ASSUME Init PROVE LayoutInv
  OBVIOUS
<1>1. \A p \in Procs : job[p] = Run /\ masked # p
  BY VirtMemAssumption DEF Init
<1>2. Jobs
  BY <1>1 DEF Jobs, Placed, Run, Mapping, Givers
<1>3. Apart
  BY <1>1 DEF Init, Apart, Kernel, Occupies, Entered, Run, Mapping
<1>4. QED
  BY <1>2, <1>3, TypeInit DEF LayoutInv

(* vmm_alloc_page, vmm_free_page and vmm_mmap_pde_page (vmm.c), umm.c: what  *)
(* every operation in the middle relies on, wherever the others are.         *)
THEOREM LayoutInvariant == Spec => []LayoutInv
<1>1. LayoutInv /\ [Next]_vars => LayoutInv'
  BY TypeNext, JobsNext, ApartNext DEF LayoutInv
<1>2. QED
  BY <1>1, LayoutInit, PTL DEF Spec

(* vmm_alloc_page (vmm.c:18-66), vmm_mmap_pde_page (vmm.c:112-192): two      *)
(* blocks or buffers never lie on the same page of the window, until a       *)
(* section opened by enable_intr is overlapped.                              *)
THEOREM PagesApart == Spec => []BlocksApart
<1>1. LayoutInv => BlocksApart
  BY DEF LayoutInv, Apart, BlocksApart
<1>2. QED
  BY <1>1, LayoutInvariant, PTL

-----------------------------------------------------------------------------
(* Pages of one operation that has begun to give them back.                  *)
LeavOf(j) == IF j.at \in {"unmap", "give", "remove", "test", "store"} THEN Block(j.head, j.count) ELSE {}

LEMMA LeavingOf ==
    /\ \A i : i \in Leaving <=> \E p \in Procs : i \in LeavOf(job[p])
    /\ \A i : i \in Leaving' <=> \E p \in Procs : i \in LeavOf(job'[p])
BY DEF Leaving, LeavOf

LEMMA WindowStep ==
    ASSUME VirtTypeOK, WindowComplete, NEW p \in Procs, Alone(p),
           \A i \in Pages : kmap'[i] = None =>
                \/ i \in LeavOf(job'[p]) \/ i <= vmmPos'
                \/ kmap[i] = None /\ i \notin LeavOf(job[p]) /\ (i <= vmmPos => i <= vmmPos')
    PROVE  WindowComplete'
<1>1. SUFFICES ASSUME NEW i \in Pages, i \notin Leaving', kmap'[i] = None PROVE i <= vmmPos'
  BY DEF WindowComplete, Pages
<1>2. \A q \in Procs : i \notin LeavOf(job'[q])
  BY <1>1, LeavingOf
<1>3. CASE kmap[i] = None /\ i \notin LeavOf(job[p]) /\ (i <= vmmPos => i <= vmmPos')
  <2>1. \A q \in Procs : i \notin LeavOf(job[q])
    BY <1>2, <1>3 DEF Alone
  <2>2. i \notin Leaving
    BY <2>1, LeavingOf
  <2>3. QED
    BY <1>3, <2>2 DEF WindowComplete, Alone
<1>4. QED
  BY <1>1, <1>2, <1>3

(* Steps that unmap nothing and leave vmm_pos alone.                         *)
LEMMA WindowQuiet ==
    ASSUME VirtTypeOK, WindowComplete, NEW p \in Procs, Alone(p), vmmPos' = vmmPos,
           \A i \in Pages : kmap'[i] = None => kmap[i] = None,
           LeavOf(job[p]) \subseteq LeavOf(job'[p])
    PROVE  WindowComplete'
BY WindowStep

LEMMA WindowKernel ==
    ASSUME LayoutInv, WindowComplete, NEW p \in Procs, KernelActs(p), Alone(p)
    PROVE  WindowComplete'
<1> USE DEF window, space, ghosts
<1>0. VirtTypeOK /\ Jobs /\ Apart /\ ~raced
  BY DEF Alone, LayoutInv
<1>1. ASSUME NEW n \in Counts, KAlloc(p, n) PROVE WindowComplete'
  <2>1. n \in Nat \ {0}
    BY VirtMemAssumption
  <2>2. PICK q \in Pages, f \in [Block(0, n) -> free \ {Zero}] :
           /\ FirstFit(q, n) /\ ~Below(q, n)
           /\ kmap' = [i \in Pages |-> IF i \in Block(q - n + 1, n) THEN f[i - (q - n + 1)] ELSE kmap[i]]
           /\ vmmPos' = IF q = vmmPos THEN q - n ELSE vmmPos
    BY <1>1 DEF KAlloc
  <2>3. job[p].at = "run" /\ job' = job
    BY <1>1 DEF KAlloc, At
  <2>4. q - n + 1 \in Nat /\ q \in Nat /\ vmmPos \in Nat
    BY <1>0, <2>1, <2>2, Fitting DEF VirtTypeOK, Pages
  <2>5. ASSUME NEW i \in Pages, kmap'[i] = None
        PROVE  kmap[i] = None /\ (i <= vmmPos => i <= vmmPos')
    <3>1. i \notin Block(q - n + 1, n)
      <4>1. ASSUME i \in Block(q - n + 1, n) PROVE i - (q - n + 1) \in Block(0, n)
        BY <2>1, <2>4, <4>1 DEF Block, Pages
      <4>2. i \in Block(q - n + 1, n) => f[i - (q - n + 1)] \in Frames
        BY <1>0, <4>1 DEF VirtTypeOK
      <4>3. QED
        BY <2>2, <2>5, <4>2, VirtMemAssumption
    <3>2. kmap[i] = None
      BY <2>2, <2>5, <3>1
    <3>3. i \in Nat /\ (i < q - n + 1 \/ i > q)
      BY <2>1, <2>4, <3>1 DEF Block, Pages
    <3>4. QED
      BY <2>1, <2>2, <2>4, <3>2, <3>3
  <2>6. \A i : i \notin LeavOf(job[p])
    BY <2>3 DEF LeavOf
  <2>7. QED
    BY <1>0, <2>5, <2>6, WindowStep
<1>2. ASSUME NEW n \in Counts, KAllocFail(p, n) PROVE WindowComplete'
  <2>1. PICK q \in Pages, done \in Block(0, n) : \E f \in [Block(0, done) -> free \ {Zero}] :
           kmap' = IF done > 0 THEN [kmap EXCEPT ![q - n + 1] = f[0]] ELSE kmap
    BY <1>2 DEF KAllocFail
  <2>2. PICK f \in [Block(0, done) -> free \ {Zero}] :
           kmap' = IF done > 0 THEN [kmap EXCEPT ![q - n + 1] = f[0]] ELSE kmap
    BY <2>1
  <2>3. done > 0 => f[0] \in Frames
    <3>1. done > 0 => 0 \in Block(0, done)
      BY DEF Block
    <3>2. QED
      BY <1>0, <3>1 DEF VirtTypeOK
  <2>4. \A i \in Pages : kmap'[i] = None => kmap[i] = None
    BY <1>0, <2>2, <2>3, VirtMemAssumption DEF VirtTypeOK
  <2>5. vmmPos' = vmmPos /\ job' = job
    BY <1>2 DEF KAllocFail
  <2>6. QED
    BY <1>0, <2>4, <2>5, WindowQuiet
<1>3. CASE KFree(p)
  <2>1. job[p].at = "run" /\ UNCHANGED <<kmap, vmmPos>>
    BY <1>3 DEF KFree, At
  <2>2. LeavOf(job[p]) = {}
    BY <2>1 DEF LeavOf
  <2>3. QED
    BY <1>0, <2>1, <2>2, WindowQuiet
<1>4. CASE Remove(p)
  <2>1. /\ job[p].at \in {"remove", "unmap"} /\ vmmPos' = vmmPos
        /\ kmap' = [kmap EXCEPT ![job[p].head + job[p].done] = None]
    BY <1>4 DEF Remove, At
  <2>2. /\ job'[p].head = job[p].head /\ job'[p].count = job[p].count
        /\ job'[p].at \in Givers \cup {"test"}
    BY <1>0, <1>4, JobFields DEF Remove, At, Givers, Job
  <2>3. /\ job[p].head \in Nat /\ job[p].count \in Nat /\ job[p].done \in Nat
        /\ job[p].done < job[p].count
    BY <1>0, <2>1, JobFields DEF Jobs, Placed, Givers
  <2>4. /\ LeavOf(job[p]) = Block(job[p].head, job[p].count)
        /\ LeavOf(job'[p]) = Block(job[p].head, job[p].count)
    BY <2>1, <2>2 DEF LeavOf, Givers
  <2>5. job[p].head + job[p].done \in Block(job[p].head, job[p].count)
    BY <2>3 DEF Block
  <2>6. \A i \in Pages : i # job[p].head + job[p].done => kmap'[i] = kmap[i]
    BY <1>0, <2>1 DEF VirtTypeOK
  <2>7. QED
    BY <1>0, <2>1, <2>4, <2>5, <2>6, WindowStep
<1>5. CASE KFreeFrame(p)
  <2>1. /\ job[p].at = "give" /\ job'[p].at = "remove" /\ UNCHANGED <<kmap, vmmPos>>
        /\ job'[p].head = job[p].head /\ job'[p].count = job[p].count
    BY <1>0, <1>5, JobFields DEF KFreeFrame, At, Goto, Job
  <2>2. QED
    BY <1>0, <2>1, WindowQuiet DEF LeavOf
<1>6. CASE TestPos(p)
  <2>1. /\ job[p].at = "test" /\ UNCHANGED <<kmap, vmmPos>>
        /\ job'[p].head = job[p].head /\ job'[p].count = job[p].count
        /\ job'[p].at = IF Last(p) > vmmPos THEN "store" ELSE "count"
    BY <1>0, <1>6, JobFields DEF TestPos, At, Goto, Job
  <2>2. vmmPos \in Nat /\ job[p].head \in Nat /\ job[p].count \in Nat
    BY <1>0, JobFields DEF VirtTypeOK, Pages
  <2>3. CASE Last(p) > vmmPos
    BY <1>0, <2>1, <2>3, WindowQuiet DEF LeavOf
  <2>4. CASE ~(Last(p) > vmmPos)
    <3>1. \A i \in LeavOf(job[p]) : i <= vmmPos
      BY <2>1, <2>2, <2>4 DEF LeavOf, Block, Last
    <3>2. QED
      BY <1>0, <2>1, <3>1, WindowStep
  <2>5. QED
    BY <2>3, <2>4
<1>7. CASE StorePos(p)
  <2>1. job[p].at = "store" /\ kmap' = kmap /\ vmmPos' = Last(p) /\ vmmPos < Last(p)
    BY <1>0, <1>7 DEF StorePos, At, Jobs, Placed
  <2>2. vmmPos \in Nat /\ job[p].head \in Nat /\ job[p].count \in Nat
    BY <1>0, JobFields DEF VirtTypeOK, Pages
  <2>3. \A i \in LeavOf(job[p]) : i <= vmmPos'
    BY <2>1, <2>2 DEF LeavOf, Block, Last
  <2>4. \A i \in Pages : i <= vmmPos => i <= vmmPos'
    BY <2>1, <2>2 DEF Last, Pages
  <2>5. QED
    BY <1>0, <2>1, <2>3, <2>4, WindowStep
<1>8. CASE AddCount(p)
  <2>1. job[p].at = "count" /\ UNCHANGED <<kmap, vmmPos>>
    BY <1>8 DEF AddCount, At
  <2>2. LeavOf(job[p]) = {}
    BY <2>1 DEF LeavOf
  <2>3. QED
    BY <1>0, <2>1, <2>2, WindowQuiet
<1>9. ASSUME NEW n \in Counts, SearchBreaks(p, n) PROVE WindowComplete'
  BY <1>0, <1>9, WindowQuiet DEF SearchBreaks
<1>10. QED
  BY <1>1, <1>2, <1>3, <1>4, <1>5, <1>6, <1>7, <1>8, <1>9 DEF KernelActs

LEMMA WindowUser ==
    ASSUME LayoutInv, WindowComplete, NEW p \in Procs, UserActs(p), Alone(p)
    PROVE  WindowComplete'
<1> USE DEF window, space, ghosts
<1>0. VirtTypeOK /\ Jobs /\ Apart /\ ~raced
  BY DEF Alone, LayoutInv
<1>1. job[p].at \notin {"unmap", "give", "remove", "test", "store"}
  BY DEF UserActs, AllocPde, Exit, FreeTable, FreePde, Fault, MapOne, SetOne, Unmap, MapBegin,
         MapFrame, MapSet, MapEnter, MapEnd, MapFail, At
<1>2. LeavOf(job[p]) = {}
  BY <1>1 DEF LeavOf
<1>3. CASE UNCHANGED <<kmap, vmmPos>>
  BY <1>0, <1>2, <1>3, WindowQuiet
<1>4. CASE MapOne(p)
  <2>1. PICK q \in Pages, f \in free \ {Zero} :
           /\ FirstFit(q, 1) /\ ~Below(q, 1)
           /\ kmap' = [kmap EXCEPT ![q] = f]
           /\ vmmPos' = IF q = vmmPos THEN q - 1 ELSE vmmPos
    BY <1>4 DEF MapOne
  <2>2. \A i \in Pages : kmap'[i] = None => kmap[i] = None /\ i # q
    BY <1>0, <2>1, VirtMemAssumption DEF VirtTypeOK
  <2>3. \A i \in Pages : i # q => (i <= vmmPos => i <= vmmPos')
    BY <1>0, <2>1 DEF Pages, VirtTypeOK
  <2>4. QED
    BY <1>0, <1>2, <2>2, <2>3, WindowStep
<1>5. CASE MapEnter(p)
  <2>1. /\ job[p].at = "map" /\ vmmPos' = vmmPos
        /\ kmap' = [kmap EXCEPT ![job[p].head + job[p].done] = job[p].phy]
    BY <1>5 DEF MapEnter, At
  <2>2. job[p].phy # None
    BY <1>0, <2>1 DEF Jobs, Placed
  <2>3. \A i \in Pages : kmap'[i] = None => kmap[i] = None
    BY <1>0, <2>1, <2>2 DEF VirtTypeOK
  <2>4. QED
    BY <1>0, <1>2, <2>1, <2>3, WindowQuiet
<1>6. CASE MapEnd(p)
  <2>1. /\ job[p].at = "end" /\ kmap' = kmap
        /\ vmmPos' = IF Last(p) = vmmPos THEN vmmPos - job[p].count ELSE vmmPos
    BY <1>6 DEF MapEnd, At
  <2>2. /\ vmmPos \in Nat /\ job[p].head \in Nat /\ job[p].count \in Nat
        /\ job[p].done = job[p].count
    BY <1>0, <2>1, JobFields DEF VirtTypeOK, Pages, Jobs, Placed
  <2>3. EntOf(job[p]) = Block(job[p].head, job[p].count)
    BY <2>1, <2>2, OccFacts DEF Mapping
  <2>4. \A i \in Pages : kmap[i] = None => i \notin Block(job[p].head, job[p].count)
    BY <1>0, <2>3, ApartFacts
  <2>5. ASSUME NEW i \in Pages, kmap[i] = None, i <= vmmPos PROVE i <= vmmPos'
    <3>1. i \in Nat /\ (i < job[p].head \/ i > Last(p))
      BY <2>2, <2>4, <2>5 DEF Block, Last, Pages
    <3>2. QED
      BY <2>1, <2>2, <2>5, <3>1 DEF Last
  <2>6. QED
    BY <1>0, <1>2, <2>1, <2>5, WindowStep
<1>7. CASE MapFail(p)
  <2>1. /\ job[p].at = "frame" /\ vmmPos' = vmmPos
        /\ kmap' = [i \in Pages |-> IF i \in job[p].head + 1 .. job[p].head + job[p].done
                                    THEN None ELSE kmap[i]]
    BY <1>7 DEF MapFail, At
  <2>2. /\ vmmPos \in Nat /\ job[p].head \in Nat /\ job[p].count \in Nat /\ job[p].done \in Nat
        /\ job[p].done < job[p].count /\ Last(p) <= vmmPos
    BY <1>0, <2>1, JobFields DEF VirtTypeOK, Pages, Jobs, Placed, Mapping
  <2>3. \A i \in Pages : kmap'[i] = None => kmap[i] = None \/ i <= vmmPos'
    BY <2>1, <2>2 DEF Last, Pages
  <2>4. QED
    BY <1>0, <1>2, <2>1, <2>3, WindowStep
<1>8. MapOne(p) \/ MapEnter(p) \/ MapEnd(p) \/ MapFail(p) \/ UNCHANGED <<kmap, vmmPos>>
  BY DEF UserActs, AllocPde, Exit, FreeTable, FreePde, Fault, SetOne, Unmap, MapBegin, MapFrame,
         MapSet
<1>9. QED
  BY <1>3, <1>4, <1>5, <1>6, <1>7, <1>8

(* A search stepped below the window although a block of that size is left.  *)
LEMMA BreaksStep ==
    ASSUME VirtTypeOK, WindowComplete, NEW p \in Procs, NEW n \in Counts, SearchBreaks(p, n), ~raced
    PROVE  BreaksOnlyFull'
<1>1. n \in Nat \ {0} /\ broken' = n /\ UNCHANGED <<kmap, job, vmmPos>> /\ vmmPos \in Nat
  BY VirtMemAssumption DEF SearchBreaks, window, VirtTypeOK, Pages
<1>2. Leaving' = Leaving
  BY <1>1 DEF Leaving
<1>3. SUFFICES ASSUME NEW i \in Pages \ {0}, i + n <= Window,
                      \A j \in Block(i, n) : kmap[j] = None /\ j \notin Leaving
               PROVE  FALSE
  BY <1>1, <1>2 DEF BreaksOnlyFull
<1>4. i \in Nat /\ i > 0 /\ Window \in Nat
  BY VirtMemAssumption DEF Pages
<1>5. i + n - 1 \in Pages /\ i + n - 1 \in Block(i, n)
  BY <1>1, <1>3, <1>4 DEF Block, Pages
<1>6. i + n - 1 <= vmmPos
  BY <1>3, <1>5 DEF WindowComplete
<1> DEFINE s == i + n - 1
<1>7. s \in Fit(n)
  <2>1. \A k \in 0 .. n - 1 : kmap[s - k] = None
    <3>1. \A k \in 0 .. n - 1 : s - k \in Block(i, n)
      BY <1>1, <1>4 DEF Block
    <3>2. QED
      BY <1>3, <3>1
  <2>2. s \in 1 .. vmmPos
    BY <1>1, <1>4, <1>6
  <2> HIDE DEF s
  <2>3. QED
    BY <2>1, <2>2 DEF Fit
<1>8. ASSUME NEW q \in Pages, FirstFit(q, n) PROVE ~Below(q, n)
  <2>1. s <= q
    BY <1>7, <1>8 DEF FirstFit
  <2>2. q \in Nat /\ s \in Nat /\ n <= s
    BY <1>1, <1>4 DEF Pages
  <2>3. q - n + 1 >= 0 /\ q - n >= 0
    BY <1>1, <2>1, <2>2
  <2>4. QED
    BY <1>1, <2>3, <2>2 DEF Below
<1>9. QED
  BY <1>7, <1>8 DEF SearchBreaks, StepsBelow

SearchInv == WindowComplete /\ BreaksOnlyFull

LEMMA SearchNext == LayoutInv /\ SearchInv /\ [Next]_vars => SearchInv'
<1> SUFFICES ASSUME LayoutInv, SearchInv, [Next]_vars PROVE SearchInv'
  OBVIOUS
<1>1. CASE UNCHANGED vars
  <2>1. UNCHANGED <<kmap, vmmPos, raced, broken, job>>
    BY <1>1 DEF vars, window, ghosts
  <2>2. Leaving' = Leaving
    BY <2>1 DEF Leaving
  <2>3. QED
    BY <2>1, <2>2 DEF SearchInv, WindowComplete, BreaksOnlyFull
<1>2. ASSUME NEW p \in Procs, Acts(p), Alone(p) PROVE SearchInv'
  <2>1. WindowComplete'
    BY <1>2, WindowKernel, WindowUser DEF SearchInv, Acts
  <2>2. ASSUME NEW n \in Counts, SearchBreaks(p, n) PROVE BreaksOnlyFull'
    BY <1>2, <2>2, BreaksStep DEF SearchInv, LayoutInv, Alone
  <2>3. (\A n \in Counts : ~SearchBreaks(p, n)) => broken' = 0
    <3>1. broken = 0
      BY <1>2 DEF Alone
    <3>2. (KernelActs(p) /\ \A n \in Counts : ~SearchBreaks(p, n)) => broken' = broken
      BY DEF KernelActs, KAlloc, KAllocFail, KFree, KFreeFrame, Remove, TestPos, StorePos,
             AddCount, ghosts
    <3>3. UserActs(p) => broken' = broken
      BY DEF UserActs, AllocPde, Exit, FreeTable, FreePde, Fault, MapOne, SetOne, Unmap, MapBegin,
             MapFrame, MapSet, MapEnter, MapEnd, MapFail, ghosts
    <3>4. QED
      BY <1>2, <3>1, <3>2, <3>3 DEF Acts
  <2>4. QED
    BY <2>1, <2>2, <2>3 DEF SearchInv, BreaksOnlyFull
<1>3. QED
  BY <1>1, <1>2, Actor DEF LayoutInv

LEMMA SearchInit == Init => SearchInv
<1> SUFFICES ASSUME Init PROVE SearchInv
  OBVIOUS
<1>1. \A i \in Pages : i <= vmmPos
  BY VirtMemAssumption DEF Init, Pages
<1>2. broken = 0
  BY DEF Init
<1>3. QED
  BY <1>1, <1>2 DEF SearchInv, WindowComplete, BreaksOnlyFull

(* vmm_pos (vmm.c): no free page is left above it, where no search looks,    *)
(* once vmm_free_page has raised it behind the block given back.             *)
THEOREM NoPageLostAbove == Spec => []WindowComplete
<1>1. Spec => []SearchInv
  BY LayoutInvariant, SearchInit, SearchNext, PTL DEF Spec
<1>2. SearchInv => WindowComplete
  BY DEF SearchInv
<1>3. QED
  BY <1>1, <1>2, PTL

(* vmm_alloc_page (vmm.c:40-52): the search runs below the window only when  *)
(* no block of that size is left in it.                                      *)
THEOREM SearchFindsABlock == Spec => []BreaksOnlyFull
<1>1. Spec => []SearchInv
  BY LayoutInvariant, SearchInit, SearchNext, PTL DEF Spec
<1>2. SearchInv => BreaksOnlyFull
  BY DEF SearchInv
<1>3. QED
  BY <1>1, <1>2, PTL

-----------------------------------------------------------------------------
(* Frames.                                                                   *)
DyingOf(j) == IF j.at = "give" THEN Block(j.head + j.done, j.count - j.done)
              ELSE IF j.at = "remove" THEN Block(j.head + j.done + 1, j.count - j.done - 1)
              ELSE {}

LEMMA KPagesIn ==
    /\ \A i : i \in KPages <=> i \in Kernel \/ \E p \in Procs : i \in DyingOf(job[p])
    /\ \A i : i \in KPages' <=> i \in Kernel' \/ \E p \in Procs : i \in DyingOf(job'[p])
    /\ KernelFrames = {kmap[i] : i \in KPages} /\ KernelFrames' = {kmap'[i] : i \in KPages'}
BY DEF KPages, Dying, DyingOf, KernelFrames

LEMMA OwnedIn ==
    ASSUME NEW u \in Users
    PROVE  /\ \A x : x \in Owned(u) <=>
                \/ job[u].at \in {"set", "setone"} /\ x = job[u].phy
                \/ x = dir[u]
                \/ \E t \in Tables : x = table[u][t]
                \/ \E a \in UserPages : x = page[u][a]
           /\ \A x : x \in Owned(u)' <=>
                \/ job'[u].at \in {"set", "setone"} /\ x = job'[u].phy
                \/ x = dir'[u]
                \/ \E t \in Tables : x = table'[u][t]
                \/ \E a \in UserPages : x = page'[u][a]
BY DEF Owned, Taken

LEMMA OwnedType ==
    ASSUME VirtTypeOK, NEW u \in Users
    PROVE  Owned(u) \subseteq Frames \cup {None}
<1>1. job[u].phy \in Frames \cup {None}
  BY JobFields, VirtMemAssumption
<1>2. /\ dir[u] \in Frames \cup {None}
      /\ \A t \in Tables : table[u][t] \in Frames \cup {None}
      /\ \A a \in UserPages : page[u][a] \in Frames \cup {None}
  BY DEF VirtTypeOK
<1>3. QED
  BY <1>1, <1>2, OwnedIn

(* What the kernel's pages are, and that they are mapped.                    *)
LEMMA KPagesFacts ==
    ASSUME LayoutInv, ~raced
    PROVE  /\ KPages \subseteq Pages /\ \A i \in KPages : kmap[i] \in Frames /\ kmap[i] # None
           /\ \A p \in Procs : DyingOf(job[p]) \subseteq OccOf(job[p])
           /\ \A p \in Procs : job[p].at \notin {"give", "remove"} => OccOf(job[p]) \cap KPages = {}
           /\ KernelFrames \subseteq Frames
<1>0. VirtTypeOK /\ Jobs /\ Apart
  BY DEF LayoutInv
<1>1. ASSUME NEW p \in Procs PROVE DyingOf(job[p]) \subseteq OccOf(job[p])
  <2>1. CASE job[p].at = "give"
    BY <2>1, OccFacts DEF DyingOf, Givers
  <2>2. CASE job[p].at = "remove"
    <3>1. \A h, d, c \in Nat : d < c => Block(h + d + 1, c - d - 1) \subseteq Block(h + d, c - d)
      BY DEF Block
    <3>2. /\ job[p].head \in Nat /\ job[p].count \in Nat /\ job[p].done \in Nat
          /\ job[p].done < job[p].count
      BY <1>0, <2>2, JobFields DEF Jobs, Placed, Givers
    <3>3. DyingOf(job[p]) = Block(job[p].head + job[p].done + 1, job[p].count - job[p].done - 1)
      BY <2>2 DEF DyingOf
    <3>4. OccOf(job[p]) = Block(job[p].head + job[p].done, job[p].count - job[p].done)
      BY <2>2, OccFacts DEF Givers
    <3>5. QED
      BY <3>1, <3>2, <3>3, <3>4
  <2>3. QED
    BY <2>1, <2>2 DEF DyingOf
<1>2. ASSUME NEW p \in Procs, NEW i \in DyingOf(job[p]) PROVE i \in Pages /\ kmap[i] # None
  <2>1. job[p].at \in {"give", "remove"}
    BY <1>2 DEF DyingOf
  <2>2. EntOf(job[p]) = OccOf(job[p])
    BY <2>1, OccFacts DEF Givers
  <2>3. QED
    BY <1>0, <1>1, <1>2, <2>2, ApartFacts
<1>3. \A i \in Kernel : i \in Pages /\ kmap[i] # None
  <2>1. ASSUME NEW b \in own PROVE Block(b[1], b[2]) \subseteq Pages
    BY <1>0, VirtMemAssumption DEF Block, Pages, Apart, VirtTypeOK
  <2>2. QED
    BY <1>0, <2>1 DEF Kernel, Apart
<1>4. \A i \in KPages : i \in Pages /\ kmap[i] # None
  BY <1>2, <1>3, KPagesIn
<1>5. \A i \in KPages : kmap[i] \in Frames
  BY <1>0, <1>4 DEF VirtTypeOK
<1>6. ASSUME NEW p \in Procs, job[p].at \notin {"give", "remove"}, NEW i \in OccOf(job[p])
      PROVE i \notin KPages
  <2>1. i \notin Kernel
    BY <1>0, <1>6, ApartFacts
  <2>2. ASSUME NEW q \in Procs, i \in DyingOf(job[q]) PROVE FALSE
    <3>1. q # p
      BY <1>6, <2>2 DEF DyingOf
    <3>2. i \in OccOf(job[q])
      BY <1>1, <2>2
    <3>3. QED
      BY <1>0, <1>6, <3>1, <3>2, OccJob DEF Apart
  <2>3. QED
    BY <2>1, <2>2, KPagesIn
<1>7. QED
  BY <1>1, <1>4, <1>5, <1>6, KPagesIn

(* A step that keeps all the processes' frames.                              *)
LEMMA OnceKernel ==
    ASSUME LayoutInv, Once, ~raced, VirtTypeOK',
           UNCHANGED space, \A u \in Users : Taken(u)' = Taken(u),
           failed => failed',
           \A i, j \in KPages' : kmap'[i] = kmap'[j] => i = j,
           KernelFrames' \subseteq KernelFrames \cup free,
           free' \subseteq free \cup KernelFrames \cup {Zero}, free' \cap KernelFrames' = {},
           failed' \/ (Frames \cap (free \cup KernelFrames) \subseteq free' \cup KernelFrames')
    PROVE  Once'
<1>1. \A u \in Users : Owned(u)' = Owned(u)
  BY DEF Owned, space
<1>2. ASSUME NEW u \in Users PROVE Distinct(u)'
  <2>1. Distinct(u)
    BY DEF Once
  <2>2. dir'[u] = dir[u] /\ table'[u] = table[u] /\ page'[u] = page[u]
    BY DEF space
  <2>3. job'[u].at \in {"set", "setone"} => job[u].at \in {"set", "setone"} /\ job'[u].phy = job[u].phy
    BY DEF Taken
  <2>4. QED
    BY <2>1, <2>2, <2>3 DEF Distinct
<1>3. \A u \in Users : Owned(u) \subseteq Frames \cup {None}
  BY OwnedType DEF LayoutInv
<1>4. None \notin free' /\ Zero \notin Frames \cup {None}
  BY VirtMemAssumption DEF VirtTypeOK
<1>5. KernelFrames \subseteq Frames /\ None \notin Frames
  BY KPagesFacts, VirtMemAssumption
<1>6. ASSUME NEW u \in Users
      PROVE  free' \cap Owned(u)' = {} /\ KernelFrames' \cap Owned(u)' \subseteq {None}
  <2>1. free \cap Owned(u) = {} /\ KernelFrames \cap Owned(u) \subseteq {None}
    BY DEF Once
  <2>2. QED
    BY <1>1, <1>3, <1>4, <1>5, <2>1
<1>7. \A u \in Users, v \in Users : u # v => Owned(u)' \cap Owned(v)' \subseteq {None}
  BY <1>1 DEF Once
<1>8. failed' \/ Frames \subseteq free' \cup KernelFrames' \cup UNION {Owned(u)' : u \in Users}
  <2>1. UNION {Owned(u)' : u \in Users} = UNION {Owned(u) : u \in Users}
    BY <1>1
  <2>2. QED
    BY <2>1 DEF Once
<1>9. QED
  BY <1>2, <1>6, <1>7, <1>8 DEF Once

(* A step that keeps the kernel's frames and those of all but one process.   *)
LEMMA OnceUser ==
    ASSUME LayoutInv, Once, NEW p \in Procs, Alone(p), p \in Users, VirtTypeOK',
           failed => failed',
           KPages' = KPages, \A i \in KPages : kmap'[i] = kmap[i],
           Distinct(p)',
           Owned(p)' \subseteq Owned(p) \cup free \cup {None},
           free' \subseteq free \cup Owned(p) \cup {Zero}, free' \cap Owned(p)' = {},
           failed' \/ (Frames \cap (free \cup Owned(p)) \subseteq free' \cup Owned(p)')
    PROVE  Once'
<1>0. ~raced
  BY DEF Alone
<1>1. ASSUME NEW v \in Users \ {p} PROVE Owned(v)' = Owned(v) /\ Distinct(v)'
  <2>1. dir'[v] = dir[v] /\ table'[v] = table[v] /\ page'[v] = page[v] /\ job'[v] = job[v]
    BY VirtMemAssumption DEF Alone
  <2>2. Distinct(v)
    BY <1>0 DEF Once
  <2>3. QED
    BY <2>1, <2>2 DEF Owned, Taken, Distinct
<1>2. KernelFrames' = KernelFrames
  BY KPagesIn
<1>3. \A i, j \in KPages' : kmap'[i] = kmap'[j] => i = j
  BY <1>0 DEF Once
<1>4. \A u \in Users : Owned(u) \subseteq Frames \cup {None}
  BY OwnedType DEF LayoutInv
<1>5. None \notin free' /\ Zero \notin Frames \cup {None}
  BY VirtMemAssumption DEF VirtTypeOK
<1>6. KernelFrames \subseteq Frames /\ None \notin Frames
  BY <1>0, KPagesFacts, VirtMemAssumption
<1>7. /\ free \cap KernelFrames = {}
      /\ \A u \in Users : /\ free \cap Owned(u) = {} /\ KernelFrames \cap Owned(u) \subseteq {None}
                          /\ \A v \in Users \ {u} : Owned(u) \cap Owned(v) \subseteq {None}
      /\ failed \/ Frames \subseteq free \cup KernelFrames \cup UNION {Owned(u) : u \in Users}
  BY <1>0 DEF Once
<1>8. free' \cap KernelFrames' = {}
  BY <1>2, <1>5, <1>6, <1>7
<1>9. ASSUME NEW v \in Users \ {p}
      PROVE  /\ free' \cap Owned(v)' = {} /\ KernelFrames' \cap Owned(v)' \subseteq {None}
             /\ Owned(v)' \cap Owned(p)' \subseteq {None}
  <2>1. /\ free \cap Owned(v) = {} /\ KernelFrames \cap Owned(v) \subseteq {None}
        /\ Owned(v) \cap Owned(p) \subseteq {None} /\ Owned(v)' = Owned(v)
    BY <1>1, <1>7
  <2>2. free' \cap Owned(v) = {}
    BY <1>4, <1>5, <2>1
  <2>3. QED
    BY <1>2, <2>1, <2>2
<1>10. KernelFrames' \cap Owned(p)' \subseteq {None}
  BY <1>2, <1>6, <1>7
<1>11. \A u \in Users : \A v \in Users \ {u} : Owned(u)' \cap Owned(v)' \subseteq {None}
  <2>1. ASSUME NEW u \in Users \ {p}, NEW v \in Users \ {p}, u # v
        PROVE  Owned(u)' \cap Owned(v)' \subseteq {None}
    BY <1>1, <1>7, <2>1
  <2>2. QED
    BY <1>9, <2>1
<1>12. failed' \/ Frames \subseteq free' \cup KernelFrames' \cup UNION {Owned(u)' : u \in Users}
  <2>1. SUFFICES ASSUME ~failed', NEW f \in Frames, f \notin free', f \notin KernelFrames'
                 PROVE  \E u \in Users : f \in Owned(u)'
    OBVIOUS
  <2>2. f \in free \/ \E u \in Users : f \in Owned(u)
    BY <1>2, <1>7, <2>1
  <2>3. QED
    BY <1>1, <2>1, <2>2
<1>13. QED
  BY <1>1, <1>3, <1>8, <1>9, <1>10, <1>11, <1>12 DEF Once

(* A kernel step that keeps the kernel's pages and what they hold.           *)
LEMMA OnceQuiet ==
    ASSUME LayoutInv, Once, ~raced, VirtTypeOK',
           UNCHANGED space, \A u \in Users : Taken(u)' = Taken(u),
           failed => failed', KPages' = KPages, \A i \in KPages : kmap'[i] = kmap[i],
           free' \subseteq free \cup {Zero}, failed' \/ free \ {Zero} \subseteq free'
    PROVE  Once'
<1>1. KernelFrames' = KernelFrames
  BY KPagesIn
<1>2. \A i, j \in KPages' : kmap'[i] = kmap'[j] => i = j
  BY DEF Once
<1>3. Zero \notin KernelFrames /\ Zero \notin Frames
  BY KPagesFacts, VirtMemAssumption
<1>4. free' \cap KernelFrames' = {}
  BY <1>1, <1>3 DEF Once
<1>5. QED
  BY <1>1, <1>2, <1>3, <1>4, OnceKernel

LEMMA OnceKernelActs ==
    ASSUME LayoutInv, VirtTypeOK', Once, NEW p \in Procs, KernelActs(p), Alone(p)
    PROVE  Once'
<1> USE DEF window, ghosts
<1>0. VirtTypeOK /\ Jobs /\ Apart /\ ~raced /\ UNCHANGED space
  BY KernelAlone DEF Alone, LayoutInv
<1>a. ASSUME job[p].at \notin {"set", "setone"}, job'[p].at \notin {"set", "setone"}
      PROVE  \A u \in Users : Taken(u)' = Taken(u)
  BY <1>a, VirtMemAssumption DEF Taken, Alone
<1>b. ASSUME DyingOf(job'[p]) = DyingOf(job[p]), own' = own PROVE KPages' = KPages
  <2>1. Kernel' = Kernel
    BY <1>b DEF Kernel
  <2>2. \A q \in Procs : DyingOf(job'[q]) = DyingOf(job[q])
    BY <1>b DEF Alone
  <2>3. QED
    BY <2>1, <2>2, KPagesIn
<1>1. ASSUME NEW n \in Counts, KAlloc(p, n) PROVE Once'
  <2>1. n \in Nat \ {0}
    BY VirtMemAssumption
  <2>2. PICK q \in Pages, f \in [Block(0, n) -> free \ {Zero}] :
           /\ FirstFit(q, n) /\ ~Below(q, n)
           /\ \A i, j \in Block(0, n) : f[i] = f[j] => i = j
           /\ kmap' = [i \in Pages |-> IF i \in Block(q - n + 1, n) THEN f[i - (q - n + 1)] ELSE kmap[i]]
           /\ own' = own \cup {<<q - n + 1, n>>}
           /\ free' = free \ {f[i] : i \in Block(0, n)}
    BY <1>1 DEF KAlloc
  <2>3. job' = job /\ failed' = failed
    BY <1>1 DEF KAlloc
  <2> DEFINE h == q - n + 1
             B == Block(h, n)
  <2>4. /\ h \in Nat /\ B \subseteq Pages /\ \A i \in B : kmap[i] = None
        /\ \A i \in B : i - h \in Block(0, n)
        /\ \A k \in Block(0, n) : \E i \in B : i - h = k
    <3>1. h \in Nat /\ \A i \in B : i \in Pages /\ kmap[i] = None
      BY <1>0, <2>1, <2>2, Fitting
    <3>2. (\A i \in B : i - h \in Block(0, n)) /\ \A k \in Block(0, n) : h + k \in B /\ h + k - h = k
      BY <2>1, <3>1 DEF Block
    <3>3. ASSUME NEW k \in Block(0, n) PROVE \E i \in B : i - h = k
      <4> DEFINE i == h + k
      <4>1. k \in 0 .. n - 1 /\ h \in Int /\ n \in Int
        BY <2>1, <3>1 DEF Block
      <4>2. i \in B /\ i \in Int /\ i = h + k
        BY <3>2, <4>1
      <4> HIDE DEF i, h, B
      <4>3. QED
        BY <4>1, <4>2
    <3>4. QED
      BY <3>1, <3>2, <3>3
  <2>5. Kernel' = Kernel \cup B
    <3> DEFINE new == <<h, n>>
    <3>1. Kernel' = UNION {Block(b[1], b[2]) : b \in own \cup {new}}
      BY <2>2 DEF Kernel
    <3>2. Block(new[1], new[2]) = B
      OBVIOUS
    <3> HIDE DEF new, B
    <3>3. QED
      BY <3>1, <3>2 DEF Kernel
  <2>6. /\ \A i \in B : kmap'[i] = f[i - h]
        /\ \A i \in Pages \ B : kmap'[i] = kmap[i]
        /\ \A k \in Block(0, n) : f[k] \in free \ {Zero}
        /\ \A i, j \in Block(0, n) : f[i] = f[j] => i = j
    BY <2>2, <2>4
  <2> HIDE DEF h, B
  <2>7. \A i : i \in KPages' <=> i \in KPages \/ i \in B
    BY <2>3, <2>5, KPagesIn
  <2>8. (\A i \in KPages : i \in Pages /\ kmap[i] # None) /\ KPages \cap B = {} /\ KernelFrames \subseteq Frames
    BY <1>0, <2>4, KPagesFacts
  <2>9. \A i \in KPages : kmap'[i] = kmap[i] /\ kmap[i] \in KernelFrames
    <3>1. \A i \in KPages : kmap'[i] = kmap[i]
      <4>1. \A i \in Pages \ B : kmap'[i] = kmap[i]
        BY <2>6
      <4>2. KPages \subseteq Pages \ B
        BY <2>8
      <4>3. QED
        BY <4>1, <4>2
    <3>2. \A i \in KPages : kmap[i] \in KernelFrames
      BY KPagesIn
    <3>3. QED
      BY <3>1, <3>2
  <2>10. \A i \in B : kmap'[i] = f[i - h] /\ kmap'[i] \in free /\ kmap'[i] # Zero
    BY <2>4, <2>6
  <2>11. free \cap KernelFrames = {} /\ \A i, j \in KPages : kmap[i] = kmap[j] => i = j
    BY <1>0 DEF Once
  <2>12. \A i, j \in KPages' : kmap'[i] = kmap'[j] => i = j
    <3>1. ASSUME NEW i \in B, NEW j \in B, kmap'[i] = kmap'[j] PROVE i = j
      <4>1. i - h = j - h
        <5>1. f[i - h] = f[j - h]
          BY <2>10, <3>1
        <5>2. i - h \in Block(0, n) /\ j - h \in Block(0, n)
          BY <2>4
        <5>3. QED
          BY <2>6, <5>1, <5>2
      <4>2. i \in Nat /\ j \in Nat
        BY <2>4 DEF Pages
      <4>3. QED
        BY <2>4, <4>1, <4>2
    <3>2. QED
      BY <2>7, <2>9, <2>10, <2>11, <3>1
  <2>13. KernelFrames' \subseteq KernelFrames \cup free
    BY <2>7, <2>9, <2>10, KPagesIn
  <2>14. \A x : x \in free' <=> x \in free /\ \A k \in Block(0, n) : x # f[k]
    BY <2>2
  <2>15. \A k \in Block(0, n) : f[k] \in KernelFrames'
    <3>1. ASSUME NEW k \in Block(0, n) PROVE \E i \in KPages' : kmap'[i] = f[k]
      <4>1. PICK i \in B : i - h = k
        BY <2>4
      <4>2. kmap'[i] = f[k]
        BY <2>10, <4>1
      <4>3. QED
        BY <2>7, <4>2
    <3>2. QED
      BY <3>1, KPagesIn
  <2>16. free' \cap KernelFrames' = {}
    BY <2>4, <2>7, <2>9, <2>10, <2>11, <2>14, KPagesIn
  <2>17. free \cup KernelFrames \subseteq free' \cup KernelFrames'
    <3>1. KernelFrames \subseteq KernelFrames'
      BY <2>7, <2>9, KPagesIn
    <3>2. QED
      BY <2>14, <2>15, <3>1
  <2>18. \A u \in Users : Taken(u)' = Taken(u)
    BY <2>3 DEF Taken
  <2>19. QED
    BY <1>0, <2>3, <2>12, <2>13, <2>14, <2>16, <2>17, <2>18, OnceKernel
<1>2. ASSUME NEW n \in Counts, KAllocFail(p, n) PROVE Once'
  <2>1. n \in Nat \ {0}
    BY VirtMemAssumption
  <2>2. PICK q \in Pages, done \in Block(0, n) :
        \E f \in [Block(0, done) -> free \ {Zero}] :
           /\ FirstFit(q, n) /\ ~Below(q, n)
           /\ LET rest == free \ {f[i] : i \in Block(0, done)} IN
               free' = IF done > 0 THEN rest \cup {Zero} ELSE rest \ {Zero}
           /\ kmap' = IF done > 0 THEN [kmap EXCEPT ![q - n + 1] = f[0]] ELSE kmap
           /\ failed' = (failed \/ done > 0)
    BY <1>2 DEF KAllocFail
  <2>3. PICK f \in [Block(0, done) -> free \ {Zero}] :
           /\ FirstFit(q, n) /\ ~Below(q, n)
           /\ LET rest == free \ {f[i] : i \in Block(0, done)} IN
               free' = IF done > 0 THEN rest \cup {Zero} ELSE rest \ {Zero}
           /\ kmap' = IF done > 0 THEN [kmap EXCEPT ![q - n + 1] = f[0]] ELSE kmap
           /\ failed' = (failed \/ done > 0)
    BY <2>2
  <2>4. job' = job /\ own' = own
    BY <1>2 DEF KAllocFail
  <2>5. KPages' = KPages
    BY <1>b, <2>4
  <2>6. \A i \in KPages : kmap'[i] = kmap[i]
    <3>1. q - n + 1 \in Block(q - n + 1, n)
      BY <2>1 DEF Block, Pages
    <3>2. kmap[q - n + 1] = None
      BY <1>0, <2>1, <2>3, <3>1, Fitting
    <3>3. \A i \in KPages : i \in Pages /\ i # q - n + 1
      BY <1>0, <3>2, KPagesFacts
    <3>4. QED
      BY <1>0, <2>3, <3>3 DEF VirtTypeOK
  <2>7. free' \subseteq free \cup {Zero} /\ (failed => failed')
    BY <2>3
  <2>8. failed' \/ free \ {Zero} \subseteq free'
    <3>1. done \in Nat /\ (~(done > 0) => Block(0, done) = {})
      BY DEF Block
    <3>2. CASE done > 0
      BY <2>3, <3>2
    <3>3. CASE ~(done > 0)
      BY <2>3, <3>1, <3>3
    <3>4. QED
      BY <3>2, <3>3
  <2>9. \A u \in Users : Taken(u)' = Taken(u)
    BY <2>4 DEF Taken
  <2>10. QED
    BY <1>0, <2>5, <2>6, <2>7, <2>8, <2>9, OnceQuiet
<1>3. CASE KFree(p)
  <2>1. PICK b \in own : /\ own' = own \ {b}
                         /\ job' = [job EXCEPT ![p] = [Run EXCEPT !.at = "give", !.head = b[1], !.count = b[2]]]
    BY <1>3 DEF KFree
  <2>2. job[p].at = "run" /\ UNCHANGED <<kmap, free, failed>>
    BY <1>3 DEF KFree, At
  <2>3. job'[p].at = "give" /\ job'[p].head = b[1] /\ job'[p].count = b[2] /\ job'[p].done = 0
    BY <1>0, <2>1 DEF Run, VirtTypeOK
  <2>4. DyingOf(job'[p]) = Block(b[1], b[2]) /\ DyingOf(job[p]) = {}
    <3>1. b[1] \in Nat /\ b[2] \in Nat
      BY <1>0 DEF VirtTypeOK
    <3>2. DyingOf(job'[p]) = Block(b[1] + 0, b[2] - 0) /\ DyingOf(job[p]) = {}
      BY <2>2, <2>3 DEF DyingOf
    <3>3. QED
      BY <3>1, <3>2 DEF Block
  <2>5. Kernel = Kernel' \cup Block(b[1], b[2])
    BY <2>1 DEF Kernel
  <2>6. KPages' = KPages
    <3>1. \A q \in Procs \ {p} : DyingOf(job'[q]) = DyingOf(job[q])
      BY DEF Alone
    <3>2. \A i : i \in KPages' <=> i \in KPages
      BY <2>4, <2>5, <3>1, KPagesIn
    <3>3. QED
      BY <3>2
  <2>7. \A u \in Users : Taken(u)' = Taken(u)
    BY <1>a, <2>2, <2>3
  <2>8. QED
    BY <1>0, <2>2, <2>6, <2>7, OnceQuiet
<1>4. CASE KFreeFrame(p)
  <2> DEFINE e == job[p].head + job[p].done
  <2>1. /\ job[p].at = "give" /\ job'[p].at = "remove" /\ UNCHANGED <<kmap, own, failed>>
        /\ job'[p].head = job[p].head /\ job'[p].count = job[p].count /\ job'[p].done = job[p].done
        /\ free' = free \cup {IF kmap[e] = None THEN Zero ELSE kmap[e]}
    BY <1>0, <1>4, JobFields DEF KFreeFrame, At, Goto, Job
  <2>2. /\ job[p].head \in Nat /\ job[p].count \in Nat /\ job[p].done \in Nat
        /\ job[p].done < job[p].count
    BY <1>0, <2>1, JobFields DEF Jobs, Placed, Givers
  <2>3. /\ e \in DyingOf(job[p]) /\ e \notin DyingOf(job'[p])
        /\ \A i \in DyingOf(job[p]) : i # e => i \in DyingOf(job'[p])
        /\ DyingOf(job'[p]) \subseteq DyingOf(job[p])
    <3>1. /\ DyingOf(job[p]) = Block(job[p].head + job[p].done, job[p].count - job[p].done)
          /\ DyingOf(job'[p]) = Block(job[p].head + job[p].done + 1, job[p].count - job[p].done - 1)
      BY <2>1 DEF DyingOf
    <3>2. \A h, d, c \in Nat : d < c =>
             /\ h + d \in Block(h + d, c - d) /\ h + d \notin Block(h + d + 1, c - d - 1)
             /\ \A i \in Block(h + d, c - d) : i # h + d => i \in Block(h + d + 1, c - d - 1)
             /\ Block(h + d + 1, c - d - 1) \subseteq Block(h + d, c - d)
      BY DEF Block
    <3>3. /\ e \in DyingOf(job[p]) /\ e \notin DyingOf(job'[p])
          /\ \A i \in DyingOf(job[p]) : i # e => i \in DyingOf(job'[p])
          /\ DyingOf(job'[p]) \subseteq DyingOf(job[p])
      <4>1. \A h, d, c \in Nat :
               h = job[p].head /\ d = job[p].done /\ c = job[p].count =>
                 /\ e = h + d /\ d < c
                 /\ DyingOf(job[p]) = Block(h + d, c - d)
                 /\ DyingOf(job'[p]) = Block(h + d + 1, c - d - 1)
        BY <2>2, <3>1
      <4> HIDE DEF e
      <4>2. QED
        BY <2>2, <3>2, <4>1
    <3>4. QED
      BY <3>3
  <2> HIDE DEF e
  <2>4. e \in OccOf(job[p])
    BY <1>0, <2>3, KPagesFacts
  <2>5. e \notin Kernel /\ \A q \in Procs \ {p} : e \notin DyingOf(job[q])
    <3>1. e \notin Kernel
      BY <1>0, <2>4, ApartFacts
    <3>2. \A q \in Procs \ {p} : OccOf(job[q]) \cap OccOf(job[p]) = {}
      BY <1>0, OccJob DEF Apart
    <3>3. QED
      BY <1>0, <2>4, <3>1, <3>2, KPagesFacts
  <2>6. Kernel' = Kernel /\ \A q \in Procs \ {p} : job'[q] = job[q]
    BY <2>1 DEF Kernel, Alone
  <2>7. e \in KPages /\ \A i : i \in KPages' <=> i \in KPages /\ i # e
    BY <2>3, <2>5, <2>6, KPagesIn
  <2>8. kmap[e] # None /\ kmap[e] \in Frames /\ free' = free \cup {kmap[e]} /\ kmap[e] \in KernelFrames
    BY <1>0, <2>1, <2>7, KPagesFacts, KPagesIn
  <2>9. free \cap KernelFrames = {} /\ \A i, j \in KPages : kmap[i] = kmap[j] => i = j
    BY <1>0 DEF Once
  <2>10. KernelFrames' = KernelFrames \ {kmap[e]}
    BY <2>1, <2>7, <2>9, KPagesIn
  <2>11. \A u \in Users : Taken(u)' = Taken(u)
    BY <1>a, <2>1
  <2>12. \A i, j \in KPages' : kmap'[i] = kmap'[j] => i = j
    BY <2>1, <2>7, <2>9
  <2>13. QED
    BY <1>0, <2>1, <2>8, <2>9, <2>10, <2>11, <2>12, OnceKernel
<1>5. CASE Remove(p)
  <2>1. /\ job[p].at \in {"remove", "unmap"} /\ own' = own /\ UNCHANGED <<free, failed>>
        /\ kmap' = [kmap EXCEPT ![job[p].head + job[p].done] = None]
    BY <1>5 DEF Remove, At
  <2>2. /\ job'[p].head = job[p].head /\ job'[p].count = job[p].count /\ job'[p].done = job[p].done + 1
        /\ job'[p].at = IF job[p].done + 1 = job[p].count THEN "test"
                        ELSE IF job[p].at = "remove" THEN "give" ELSE "unmap"
    BY <1>0, <1>5, JobFields DEF Remove, At, Job
  <2>3. /\ job[p].head \in Nat /\ job[p].count \in Nat /\ job[p].done \in Nat
        /\ job[p].done < job[p].count
    BY <1>0, <2>1, JobFields DEF Jobs, Placed, Givers
  <2>4. DyingOf(job'[p]) = DyingOf(job[p]) /\ job[p].head + job[p].done \notin DyingOf(job[p])
    <3>1. CASE job[p].at = "unmap"
      BY <2>2, <3>1 DEF DyingOf
    <3>2. CASE job[p].at = "remove" /\ job[p].done + 1 # job[p].count
      <4>1. /\ DyingOf(job[p]) = Block(job[p].head + job[p].done + 1, job[p].count - job[p].done - 1)
            /\ DyingOf(job'[p]) = Block(job[p].head + (job[p].done + 1), job[p].count - (job[p].done + 1))
        BY <2>2, <3>2 DEF DyingOf
      <4>2. \A h, d, c \in Nat : /\ Block(h + d + 1, c - d - 1) = Block(h + (d + 1), c - (d + 1))
                                /\ h + d \notin Block(h + d + 1, c - d - 1)
        BY DEF Block
      <4>3. QED
        BY <2>3, <4>1, <4>2
    <3>3. CASE job[p].at = "remove" /\ job[p].done + 1 = job[p].count
      <4>1. /\ DyingOf(job[p]) = Block(job[p].head + job[p].done + 1, job[p].count - job[p].done - 1)
            /\ DyingOf(job'[p]) = {}
        BY <2>2, <3>3 DEF DyingOf
      <4>2. Block(job[p].head + job[p].done + 1, job[p].count - job[p].done - 1) = {}
        BY <2>3, <3>3 DEF Block
      <4>3. QED
        BY <4>1, <4>2
    <3>4. QED
      BY <2>1, <3>1, <3>2, <3>3
  <2>5. job[p].head + job[p].done \in OccOf(job[p])
    <3>1. OccOf(job[p]) = Block(job[p].head + job[p].done, job[p].count - job[p].done)
      BY <2>1, OccFacts DEF Givers
    <3>2. QED
      BY <2>3, <3>1 DEF Block
  <2>6. job[p].head + job[p].done \notin KPages
    <3>1. job[p].head + job[p].done \notin Kernel
      BY <1>0, <2>5, ApartFacts
    <3>2. \A q \in Procs \ {p} : OccOf(job[q]) \cap OccOf(job[p]) = {}
      BY <1>0, OccJob DEF Apart
    <3>3. QED
      BY <1>0, <2>4, <2>5, <3>1, <3>2, KPagesFacts, KPagesIn
  <2>7. \A i \in KPages : kmap'[i] = kmap[i]
    BY <1>0, <2>1, <2>6, KPagesFacts DEF VirtTypeOK
  <2>8. KPages' = KPages
    BY <1>b, <2>1, <2>4
  <2>9. \A u \in Users : Taken(u)' = Taken(u)
    BY <1>a, <2>1, <2>2
  <2>10. QED
    BY <1>0, <2>1, <2>7, <2>8, <2>9, OnceQuiet
<1>6. CASE TestPos(p) \/ StorePos(p) \/ AddCount(p)
  <2>1. /\ UNCHANGED <<kmap, own, free, failed>> /\ job[p].at \in {"test", "store", "count"}
        /\ job'[p].at \in {"store", "count", "run"}
    BY <1>0, <1>6, JobFields DEF TestPos, StorePos, AddCount, At, Goto, Return, Job, Run
  <2>2. DyingOf(job'[p]) = DyingOf(job[p])
    BY <2>1 DEF DyingOf
  <2>3. \A u \in Users : Taken(u)' = Taken(u)
    BY <1>a, <2>1
  <2>4. KPages' = KPages
    BY <1>b, <2>1, <2>2
  <2>5. QED
    BY <1>0, <2>1, <2>3, <2>4, OnceQuiet
<1>7. ASSUME NEW n \in Counts, SearchBreaks(p, n) PROVE Once'
  <2>1. UNCHANGED <<kmap, own, free, failed, job>>
    BY <1>7 DEF SearchBreaks
  <2>2. KPages' = KPages /\ \A u \in Users : Taken(u)' = Taken(u)
    BY <1>b, <2>1 DEF Taken
  <2>3. QED
    BY <1>0, <2>1, <2>2, OnceQuiet
<1>8. QED
  BY <1>1, <1>2, <1>3, <1>4, <1>5, <1>6, <1>7 DEF KernelActs

(* set_umm_value keeps the frames of a process distinct, and none is free.   *)
LEMMA SetUserOnce ==
    ASSUME LayoutInv, Once, ~raced, NEW u \in Users, NEW a \in UserPages, NEW f \in Frames,
           NEW left \in SUBSET free, SetUser(u, a, f, left), page[u][a] = None, dir' = dir,
           f \notin left, free \subseteq left \cup {f}, Zero # f,
           f \in free \/ job[u].at \in {"set", "setone"},
           job[u].at \in {"set", "setone"} => job[u].phy = f,
           job'[u].at \notin {"set", "setone"}
    PROVE  /\ Distinct(u)' /\ Owned(u)' \subseteq Owned(u) \cup free \cup {None}
           /\ free' \subseteq free /\ free' \cap Owned(u)' = {}
           /\ Frames \cap (free \cup Owned(u)) \subseteq free' \cup Owned(u)'
<1> DEFINE T == a \div PerTable
<1>0. /\ VirtTypeOK /\ T \in Tables /\ f # None /\ Distinct(u) /\ free \cap Owned(u) = {}
      /\ None \notin free /\ None \notin Frames
  BY VirtMemAssumption DEF LayoutInv, Tables, Once, VirtTypeOK
<1>1. f # dir[u] /\ (\A t \in Tables : table[u][t] # f) /\ (\A b \in UserPages : page[u][b] # f)
  <2>1. CASE f \in free
    BY <1>0, <2>1, OwnedIn
  <2>2. CASE job[u].at \in {"set", "setone"}
    BY <1>0, <2>2 DEF Distinct
  <2>3. QED
    BY <2>1, <2>2
<1>2. \A b \in UserPages : page'[u][b] = IF b = a THEN f ELSE page[u][b]
  BY <1>0 DEF SetUser, VirtTypeOK
<1>3. PICK g : /\ g # None
               /\ \A t \in Tables : table'[u][t] = IF t = T THEN g ELSE table[u][t]
               /\ \/ table[u][T] = g /\ free' = left
                  \/ table[u][T] = None /\ g \in left /\ g # Zero /\ free' = left \ {g}
  <2>1. CASE table[u][T] # None /\ free' = left /\ UNCHANGED table
    BY <2>1
  <2>2. CASE table[u][T] = None /\ \E g \in left \ {Zero} :
               table' = [table EXCEPT ![u][T] = g] /\ free' = left \ {g}
    <3>1. PICK g \in left \ {Zero} : table' = [table EXCEPT ![u][T] = g] /\ free' = left \ {g}
      BY <2>2
    <3>2. g # None
      BY <1>0
    <3>3. \A t \in Tables : table'[u][t] = IF t = T THEN g ELSE table[u][t]
      BY <1>0, <3>1 DEF VirtTypeOK
    <3>4. QED
      BY <2>2, <3>1, <3>2, <3>3
  <2>3. QED
    BY <2>1, <2>2 DEF SetUser
<1> HIDE DEF T
<1>4. /\ g # f /\ g # dir[u] /\ (\A b \in UserPages : page[u][b] # g)
      /\ \A t \in Tables : t # T => table[u][t] # g
  <2>1. CASE table[u][T] = g
    BY <1>0, <1>1, <1>3, <2>1 DEF Distinct
  <2>2. CASE g \in left
    <3>1. g \notin Owned(u) /\ g # f
      BY <1>0, <2>2
    <3>2. QED
      BY <3>1, OwnedIn
  <2>3. QED
    BY <1>3, <2>1, <2>2
<1>5. Distinct(u)'
  <2>1. \A s, t \in Tables : table'[u][s] = table'[u][t] /\ table'[u][s] # None => s = t
    BY <1>0, <1>3, <1>4 DEF Distinct
  <2>2. \A b, c \in UserPages : page'[u][b] = page'[u][c] /\ page'[u][b] # None => b = c
    BY <1>0, <1>1, <1>2 DEF Distinct
  <2>3. \A t \in Tables : table'[u][t] = dir'[u] => dir'[u] = None
    BY <1>0, <1>3, <1>4 DEF Distinct
  <2>4. \A b \in UserPages : page'[u][b] = dir'[u] => dir'[u] = None
    BY <1>0, <1>1, <1>2 DEF Distinct
  <2>5. \A b \in UserPages, t \in Tables : page'[u][b] = table'[u][t] => page'[u][b] = None
    BY <1>0, <1>1, <1>2, <1>3, <1>4 DEF Distinct
  <2>6. QED
    BY <2>1, <2>2, <2>3, <2>4, <2>5 DEF Distinct
<1>6. \A x : x \in Owned(u)' <=> \/ x = dir[u] \/ x = f \/ x = g
                                 \/ \E t \in Tables \ {T} : x = table[u][t]
                                 \/ \E b \in UserPages \ {a} : x = page[u][b]
  <2>1. \A x : (\E t \in Tables : x = table'[u][t]) <=> x = g \/ \E t \in Tables \ {T} : x = table[u][t]
    BY <1>0, <1>3
  <2>2. \A x : (\E b \in UserPages : x = page'[u][b]) <=> x = f \/ \E b \in UserPages \ {a} : x = page[u][b]
    BY <1>2
  <2>3. \A x : x \in Owned(u)' <=> \/ x = dir'[u] \/ \E t \in Tables : x = table'[u][t]
                                   \/ \E b \in UserPages : x = page'[u][b]
    BY OwnedIn
  <2>4. QED
    BY <2>1, <2>2, <2>3
<1>7. f \in Owned(u) \cup free /\ g \in Owned(u) \cup free
  BY <1>0, <1>3, OwnedIn
<1>8. Owned(u)' \subseteq Owned(u) \cup free \cup {None}
  BY <1>6, <1>7, OwnedIn
<1>9. free' \subseteq left /\ f \notin free' /\ g \notin free'
  <2>1. CASE table[u][T] = g /\ free' = left
    <3>1. g \in Owned(u)
      BY <1>0, <2>1, OwnedIn
    <3>2. QED
      BY <1>0, <2>1, <3>1
  <2>2. CASE free' = left \ {g}
    BY <2>2
  <2>3. QED
    BY <1>3, <2>1, <2>2
<1>10. free' \cap Owned(u)' = {}
  <2>1. ASSUME NEW x \in free', x \in Owned(u)' PROVE FALSE
    <3>1. x # f /\ x # g /\ x \in free
      BY <1>9, <2>1
    <3>2. x \in Owned(u)
      BY <1>6, <2>1, <3>1, OwnedIn
    <3>3. QED
      BY <1>0, <3>1, <3>2
  <2>2. QED
    BY <2>1
<1>11. ASSUME NEW x \in Frames, x \in free \cup Owned(u) PROVE x \in free' \cup Owned(u)'
  <2>1. CASE x \in free
    BY <1>3, <1>6, <2>1
  <2>2. CASE x \in Owned(u)
    <3>0. \/ job[u].at \in {"set", "setone"} /\ x = job[u].phy
          \/ x = dir[u]
          \/ \E t \in Tables : x = table[u][t]
          \/ \E b \in UserPages : x = page[u][b]
      BY <2>2, OwnedIn
    <3>1. x = f \/ x = dir[u] \/ (\E t \in Tables : x = table[u][t]) \/ (\E b \in UserPages : x = page[u][b])
      BY <3>0
    <3>2. x # None
      BY <1>0
    <3>3. x = table[u][T] => x = g
      BY <1>3, <3>2
    <3>4. x # page[u][a]
      BY <3>2
    <3>5. QED
      BY <1>6, <3>1, <3>3, <3>4
  <2>3. QED
    BY <1>11, <2>1, <2>2
<1>12. QED
  BY <1>5, <1>8, <1>9, <1>10, <1>11

(* Steps of a process that change nothing of its memory but free page 0.     *)
LEMMA OnceStill ==
    ASSUME LayoutInv, Once, NEW p \in Procs, Alone(p), p \in Users, VirtTypeOK',
           UNCHANGED space, failed => failed',
           KPages' = KPages, \A i \in KPages : kmap'[i] = kmap[i],
           job[p].at \notin {"set", "setone"}, job'[p].at \notin {"set", "setone"},
           free' = free \/ free' = free \ {Zero}
    PROVE  Once'
<1>1. Owned(p)' = Owned(p)
  BY DEF Owned, Taken, space
<1>2. Distinct(p) /\ free \cap Owned(p) = {}
  BY DEF Once, Alone
<1>3. Distinct(p)'
  BY <1>2 DEF Distinct, space
<1>4. Zero \notin Frames
  BY VirtMemAssumption
<1>5. QED
  BY <1>1, <1>2, <1>3, <1>4, OnceUser

(* A process takes a free frame and remembers it.                            *)
LEMMA OnceTake ==
    ASSUME LayoutInv, Once, NEW p \in Procs, Alone(p), p \in Users, VirtTypeOK',
           UNCHANGED space, failed => failed',
           KPages' = KPages, \A i \in KPages : kmap'[i] = kmap[i],
           job[p].at \notin {"set", "setone"}, job'[p].at \in {"set", "setone"},
           job'[p].phy \in free \ {Zero}, free' = free \ {job'[p].phy}
    PROVE  Once'
<1>1. Distinct(p) /\ free \cap Owned(p) = {}
  BY DEF Once, Alone
<1>2. \A x : x \in Owned(p)' <=> x \in Owned(p) \/ x = job'[p].phy
  BY OwnedIn DEF space
<1>3. Distinct(p)'
  <2>1. /\ job'[p].phy # dir[p] /\ \A t \in Tables : table[p][t] # job'[p].phy
        /\ \A a \in UserPages : page[p][a] # job'[p].phy
    BY <1>1, OwnedIn
  <2>2. QED
    BY <1>1, <2>1 DEF Distinct, space
<1>4. QED
  BY <1>1, <1>2, <1>3, OnceUser

LEMMA OnceUserActs ==
    ASSUME LayoutInv, VirtTypeOK', Once, NEW p \in Procs, UserActs(p), Alone(p)
    PROVE  Once'
<1> USE DEF window, ghosts
<1>0. /\ VirtTypeOK /\ Jobs /\ Apart /\ ~raced /\ p \in Users
      /\ Distinct(p) /\ free \cap Owned(p) = {} /\ None \notin free /\ None \notin Frames /\ Zero \notin Frames
  BY VirtMemAssumption DEF Alone, LayoutInv, Once, UserActs, VirtTypeOK
<1>a. ASSUME job[p].at \notin {"give", "remove"}, job'[p].at \notin {"give", "remove"}, own' = own
      PROVE KPages' = KPages
  <2>1. Kernel' = Kernel
    BY <1>a DEF Kernel
  <2>2. \A q \in Procs : DyingOf(job'[q]) = DyingOf(job[q])
    BY <1>a DEF Alone, DyingOf
  <2>3. QED
    BY <2>1, <2>2, KPagesIn
<1>1. CASE AllocPde(p)
  <2>1. PICK f \in free \ {Zero} : dir' = [dir EXCEPT ![p] = f] /\ free' = free \ {f}
    BY <1>1 DEF AllocPde
  <2>2. job[p].at = "run" /\ dir[p] = None /\ UNCHANGED <<kmap, own, job, failed, table, page>>
    BY <1>1 DEF AllocPde, At
  <2>3. KPages' = KPages
    BY <1>a, <2>2
  <2>4. dir'[p] = f
    BY <1>0, <2>1 DEF VirtTypeOK
  <2>5. \A x : x \in Owned(p)' => x \in Owned(p) \/ x = f
    BY <1>0, <2>2, <2>4, OwnedIn
  <2>6. \A x \in Owned(p) : x # None => x \in Owned(p)'
    BY <1>0, <2>2, <2>4, OwnedIn
  <2>7. f \in Owned(p)'
    BY <1>0, <2>4, OwnedIn
  <2>8. Distinct(p)'
    <3>1. (\A t \in Tables : table[p][t] # f) /\ (\A a \in UserPages : page[p][a] # f)
      BY <1>0, <2>1, OwnedIn
    <3>2. QED
      BY <1>0, <2>2, <2>4, <3>1 DEF Distinct
  <2>9. free' \cap Owned(p)' = {}
    BY <1>0, <2>1, <2>5
  <2>10. Frames \cap (free \cup Owned(p)) \subseteq free' \cup Owned(p)'
    BY <1>0, <2>1, <2>6, <2>7
  <2>11. QED
    BY <1>0, <2>1, <2>2, <2>3, <2>5, <2>8, <2>9, <2>10, OnceUser
<1>2. CASE Exit(p)
  <2>1. job[p].at = "run" /\ job'[p].at = "exit" /\ UNCHANGED <<free, kmap, own, failed, space>>
    BY <1>0, <1>2, JobFields DEF Exit, At, Goto, Job
  <2>2. QED
    BY <1>0, <1>a, <2>1, OnceStill
<1>3. CASE FreeTable(p)
  <2>1. PICK t \in Tables :
           /\ table[p][t] # None
           /\ free' = free \cup Mapped(p, t) \cup {table[p][t]}
           /\ table' = [table EXCEPT ![p][t] = None]
           /\ page' = [page EXCEPT ![p] =
                           [a \in UserPages |-> IF a \div PerTable = t THEN None ELSE @[a]]]
    BY <1>3 DEF FreeTable
  <2>2. job[p].at = "exit" /\ UNCHANGED <<kmap, own, job, failed, dir>>
    BY <1>3 DEF FreeTable, At
  <2>3. KPages' = KPages
    BY <1>a, <2>2
  <2>4. /\ \A s \in Tables : table'[p][s] = IF s = t THEN None ELSE table[p][s]
        /\ \A a \in UserPages : page'[p][a] = IF a \div PerTable = t THEN None ELSE page[p][a]
    BY <1>0, <2>1 DEF VirtTypeOK
  <2>5. \A x : x \in free' <=> \/ x \in free \/ x = table[p][t]
                              \/ \E a \in UserPages : a \div PerTable = t /\ x = page[p][a] /\ x # None
    BY <2>1 DEF Mapped
  <2>6. Distinct(p)'
    BY <1>0, <2>2, <2>4 DEF Distinct
  <2>7. \A x : x \in Owned(p)' =>
              \/ x = None \/ x = dir[p]
              \/ \E s \in Tables \ {t} : x = table[p][s]
              \/ \E a \in UserPages : a \div PerTable # t /\ x = page[p][a]
    BY <1>0, <2>2, <2>4, OwnedIn
  <2>8. Owned(p)' \subseteq Owned(p) \cup {None}
    BY <1>0, <2>7, OwnedIn
  <2>9. free' \subseteq free \cup Owned(p)
    BY <1>0, <2>5, OwnedIn
  <2>10. free' \cap Owned(p)' = {}
    <3>1. None \notin free'
      BY <1>0, <2>1, <2>5
    <3>2. ASSUME NEW x, x \in free', x \in Owned(p)', x # None PROVE FALSE
      <4>1. x \notin free
        BY <1>0, <2>8, <3>2
      <4>2. CASE x = table[p][t]
        BY <1>0, <2>7, <3>2, <4>2 DEF Distinct
      <4>3. CASE \E a \in UserPages : a \div PerTable = t /\ x = page[p][a]
        BY <1>0, <2>7, <3>2, <4>3 DEF Distinct
      <4>4. QED
        BY <2>5, <3>2, <4>1, <4>2, <4>3
    <3>3. QED
      BY <3>1, <3>2
  <2>11. Frames \cap (free \cup Owned(p)) \subseteq free' \cup Owned(p)'
    <3>1. ASSUME NEW x \in Frames, x \in Owned(p), x \notin free' PROVE x \in Owned(p)'
      <4>1. x # None
        BY <1>0
      <4>2. x = dir[p] => x \in Owned(p)'
        BY <1>0, <2>2, OwnedIn
      <4>3. ASSUME NEW s \in Tables, x = table[p][s] PROVE x \in Owned(p)'
        <5>1. x = table'[p][s]
          BY <2>4, <2>5, <3>1, <4>3
        <5>2. QED
          BY <1>0, <5>1, OwnedIn
      <4>4. ASSUME NEW a \in UserPages, x = page[p][a] PROVE x \in Owned(p)'
        <5>1. x = page'[p][a]
          BY <2>4, <2>5, <3>1, <4>1, <4>4
        <5>2. QED
          BY <1>0, <5>1, OwnedIn
      <4>5. QED
        BY <1>0, <2>2, <3>1, <4>2, <4>3, <4>4, OwnedIn
    <3>2. free \subseteq free'
      BY <2>5
    <3>3. QED
      BY <3>1, <3>2
  <2>12. QED
    BY <1>0, <2>2, <2>3, <2>6, <2>8, <2>9, <2>10, <2>11, OnceUser
<1>4. CASE FreePde(p)
  <2>1. /\ job[p].at = "exit" /\ job'[p].at = "run" /\ free' = free \cup {dir[p]} /\ dir'[p] = None
        /\ UNCHANGED <<kmap, own, failed, table, page>> /\ dir[p] # None
    BY <1>0, <1>4, JobFields DEF FreePde, At, Return, Run, VirtTypeOK, Jobs, Placed
  <2>2. KPages' = KPages
    BY <1>a, <2>1
  <2>3. Distinct(p)'
    BY <1>0, <2>1, VirtMemAssumption DEF Distinct
  <2>4. \A x : x \in Owned(p)' => x = None \/ (x \in Owned(p) /\ x # dir[p])
    BY <1>0, <2>1, OwnedIn DEF Distinct
  <2>5. dir[p] \in Owned(p) /\ \A x \in Owned(p) : x # dir[p] => x \in Owned(p)'
    BY <1>0, <2>1, OwnedIn
  <2>6. QED
    BY <1>0, <2>1, <2>2, <2>3, <2>4, <2>5, OnceUser
<1>5. CASE Fault(p)
  <2>1. PICK a \in UserPages :
           /\ page[p][a] = None
           /\ \/ \E f \in free \ {Zero} : SetUser(p, a, f, free \ {f}) /\ UNCHANGED job
              \/ \E f \in free \ {Zero} :
                   SetUserFail(p, a, free \ {f}) /\ free' = free \ {Zero} /\ Goto(p, "exit")
              \/ NoFrame /\ UNCHANGED <<table, page>> /\ Goto(p, "exit")
    BY <1>5 DEF Fault
  <2>2. job[p].at = "run" /\ UNCHANGED <<kmap, own, failed, dir>>
    BY <1>5 DEF Fault, At
  <2>3. ASSUME NEW f \in free \ {Zero}, SetUser(p, a, f, free \ {f}), UNCHANGED job PROVE Once'
    <3>1. f \in Frames
      BY <1>0 DEF VirtTypeOK
    <3>2. KPages' = KPages
      BY <1>a, <2>2, <2>3
    <3>3. /\ Distinct(p)' /\ Owned(p)' \subseteq Owned(p) \cup free \cup {None}
          /\ free' \subseteq free /\ free' \cap Owned(p)' = {}
          /\ Frames \cap (free \cup Owned(p)) \subseteq free' \cup Owned(p)'
      <4> DEFINE left == free \ {f}
      <4>1. /\ left \in SUBSET free /\ SetUser(p, a, f, left) /\ f \notin left /\ free \subseteq left \cup {f}
        BY <2>3
      <4> HIDE DEF left
      <4>2. job'[p].at \notin {"set", "setone"} /\ job[p].at \notin {"set", "setone"}
        BY <2>2, <2>3
      <4>3. QED
        BY <1>0, <2>1, <2>2, <2>3, <3>1, <4>1, <4>2, SetUserOnce
    <3>4. QED
      BY <1>0, <2>2, <3>2, <3>3, OnceUser
  <2>4. ASSUME UNCHANGED <<table, page>>, Goto(p, "exit"), free' = free \/ free' = free \ {Zero}
        PROVE Once'
    <3>1. job'[p].at = "exit"
      BY <1>0, <2>4, JobFields DEF Goto, Job
    <3>2. KPages' = KPages
      BY <1>a, <2>2, <3>1
    <3>3. QED
      BY <1>0, <2>2, <2>4, <3>1, <3>2, OnceStill DEF space
  <2>5. QED
    BY <2>1, <2>3, <2>4 DEF SetUserFail, NoFrame
<1>6. CASE MapOne(p)
  <2>1. PICK q \in Pages, f \in free \ {Zero}, a \in UserPages :
           /\ FirstFit(q, 1) /\ ~Below(q, 1)
           /\ kmap' = [kmap EXCEPT ![q] = f]
           /\ free' = free \ {f}
           /\ job' = [job EXCEPT ![p] = [Run EXCEPT !.at = "setone", !.head = q, !.count = 1,
                                                    !.first = a, !.phy = f]]
    BY <1>6 DEF MapOne
  <2>2. job[p].at = "run" /\ UNCHANGED <<own, failed, space>>
    BY <1>6 DEF MapOne, At
  <2>3. job'[p].at = "setone" /\ job'[p].phy = f
    BY <1>0, <2>1, JobFields DEF Run
  <2>4. \A i \in KPages : kmap'[i] = kmap[i]
    <3>1. q \in Block(q - 1 + 1, 1) /\ 1 \in Nat \ {0}
      BY DEF Block, Pages
    <3>2. kmap[q] = None
      BY <1>0, <2>1, <3>1, Fitting
    <3>3. \A i \in KPages : i \in Pages /\ i # q
      BY <1>0, <3>2, KPagesFacts
    <3>4. QED
      BY <1>0, <2>1, <3>3 DEF VirtTypeOK
  <2>5. KPages' = KPages
    BY <1>a, <2>2, <2>3
  <2>6. QED
    BY <1>0, <2>1, <2>2, <2>3, <2>4, <2>5, OnceTake
<1>7. CASE SetOne(p) \/ MapSet(p)
  <2> DEFINE a == IF job[p].at = "setone" THEN job[p].first ELSE UserPage(p)
             f == job[p].phy
  <2>1. job[p].at \in {"set", "setone"} /\ UNCHANGED <<kmap, own, dir>>
    BY <1>7 DEF SetOne, MapSet, At
  <2>2. job'[p].at \in {"buffer", "map"}
    <3>1. SetOne(p) => job'[p].at = "buffer"
      BY <1>0, JobFields DEF SetOne, Run
    <3>2. MapSet(p) => job'[p].at = "map"
      <4>1. ASSUME MapSet(p) PROVE \E o : job' = [job EXCEPT ![p].at = "map", ![p].open = o]
        BY <4>1 DEF MapSet
      <4>2. QED
        BY <1>0, <4>1, JobFields DEF Job
    <3>3. QED
      BY <1>7, <3>1, <3>2
  <2>3. \/ SetUser(p, a, f, free) /\ UNCHANGED failed
        \/ SetUserFail(p, a, free) /\ free' = free \ {Zero} /\ failed' = TRUE
    BY <1>7 DEF SetOne, MapSet, At
  <2>4. a \in UserPages /\ page[p][a] = None
    <3>1. job[p].at = "set" => UserPage(p) \in UserPages
      BY <1>0, UserPageIn
    <3>2. QED
      BY <1>0, <2>1, <3>1 DEF Jobs, Placed
  <2>5. f \in Frames /\ f # None
    BY <1>0, <2>1, JobFields DEF Jobs, Placed
  <2>6. f \in Owned(p) /\ f \notin free /\ f # Zero
    BY <1>0, <2>1, <2>5, OwnedIn
  <2>7. KPages' = KPages
    BY <1>a, <2>1, <2>2
  <2> HIDE DEF a
  <2>8. CASE SetUser(p, a, f, free) /\ UNCHANGED failed
    <3>1. free \in SUBSET free /\ free \subseteq free \cup {f}
      OBVIOUS
    <3>2. job'[p].at \notin {"set", "setone"}
      BY <2>2
    <3>3. /\ Distinct(p)' /\ Owned(p)' \subseteq Owned(p) \cup free \cup {None}
          /\ free' \subseteq free /\ free' \cap Owned(p)' = {}
          /\ Frames \cap (free \cup Owned(p)) \subseteq free' \cup Owned(p)'
      BY <1>0, <2>1, <2>4, <2>5, <2>6, <2>8, <3>1, <3>2, SetUserOnce
    <3>4. QED
      BY <1>0, <2>1, <2>7, <2>8, <3>3, OnceUser
  <2>9. CASE SetUserFail(p, a, free) /\ free' = free \ {Zero} /\ failed' = TRUE
    <3>1. UNCHANGED <<table, page>>
      BY <2>9 DEF SetUserFail
    <3>2. Distinct(p)'
      BY <1>0, <2>1, <2>2, <3>1 DEF Distinct
    <3>3. Owned(p)' \subseteq Owned(p)
      BY <1>0, <2>1, <2>2, <3>1, OwnedIn
    <3>4. QED
      BY <1>0, <2>1, <2>7, <2>9, <3>2, <3>3, OnceUser
  <2>10. QED
    BY <2>3, <2>8, <2>9
<1>8. CASE Unmap(p)
  <2>1. job[p].at = "buffer" /\ job'[p].at = "unmap" /\ UNCHANGED <<free, kmap, own, failed, space>>
    BY <1>0, <1>8, JobFields DEF Unmap, At, Goto, Job
  <2>2. QED
    BY <1>0, <1>a, <2>1, OnceStill
<1>9. ASSUME NEW n \in Counts, MapBegin(p, n) PROVE Once'
  <2>1. PICK h, a :
          job' = [job EXCEPT ![p] = [Run EXCEPT !.at = "frame", !.head = h, !.count = n, !.first = a]]
    BY <1>9 DEF MapBegin
  <2>2. job[p].at = "run" /\ job'[p].at = "frame" /\ UNCHANGED <<free, kmap, own, failed, space>>
    BY <1>0, <1>9, <2>1, JobFields DEF MapBegin, At, Run
  <2>3. QED
    BY <1>0, <1>a, <2>2, OnceStill
<1>10. CASE MapFrame(p)
  <2>1. job[p].at = "frame" /\ UNCHANGED <<kmap, own, failed, space>>
    BY <1>10 DEF MapFrame, At
  <2>2. CASE job' = [job EXCEPT ![p].at = "map", ![p].phy = page[p][UserPage(p)]] /\ UNCHANGED free
    <3>1. job'[p].at = "map"
      BY <1>0, <2>2, JobFields DEF Job
    <3>2. QED
      BY <1>0, <1>a, <2>1, <2>2, <3>1, OnceStill
  <2>3. ASSUME NEW f \in free \ {Zero}, free' = free \ {f},
               job' = [job EXCEPT ![p].at = "set", ![p].phy = f]
        PROVE  Once'
    <3>1. job'[p].at = "set" /\ job'[p].phy = f
      BY <1>0, <2>3, JobFields DEF Job
    <3>2. QED
      BY <1>0, <1>a, <2>1, <2>3, <3>1, OnceTake
  <2>4. QED
    BY <1>10, <2>2, <2>3 DEF MapFrame
<1>11. CASE MapEnter(p)
  <2>1. /\ job[p].at = "map" /\ job'[p].at \in {"end", "frame"} /\ UNCHANGED <<free, own, failed, space>>
        /\ kmap' = [kmap EXCEPT ![job[p].head + job[p].done] = job[p].phy]
    BY <1>0, <1>11, JobFields DEF MapEnter, At, Job
  <2>2. job[p].head + job[p].done \in OccOf(job[p])
    <3>1. OccOf(job[p]) = Block(job[p].head, job[p].count)
      BY <2>1, OccFacts DEF Mapping
    <3>2. /\ job[p].head \in Nat /\ job[p].count \in Nat /\ job[p].done \in Nat
          /\ job[p].done < job[p].count
      BY <1>0, <2>1, JobFields DEF Jobs, Placed
    <3>3. QED
      BY <3>1, <3>2 DEF Block
  <2>3. \A i \in KPages : i \in Pages /\ i # job[p].head + job[p].done
    BY <1>0, <2>1, <2>2, KPagesFacts
  <2>4. \A i \in KPages : kmap'[i] = kmap[i]
    BY <1>0, <2>1, <2>3 DEF VirtTypeOK
  <2>5. KPages' = KPages
    BY <1>a, <2>1
  <2>6. QED
    BY <1>0, <2>1, <2>4, <2>5, OnceStill
<1>12. CASE MapEnd(p)
  <2>1. job[p].at = "end" /\ job'[p].at = "buffer" /\ UNCHANGED <<free, kmap, own, failed, space>>
    BY <1>0, <1>12, JobFields DEF MapEnd, At, Run
  <2>2. QED
    BY <1>0, <1>a, <2>1, OnceStill
<1>13. CASE MapFail(p)
  <2>1. /\ job[p].at = "frame" /\ job'[p].at = "run" /\ UNCHANGED <<own, space>> /\ (failed => failed')
        /\ kmap' = [i \in Pages |-> IF i \in job[p].head + 1 .. job[p].head + job[p].done
                                    THEN None ELSE kmap[i]]
        /\ free' = free \/ free' = free \ {Zero}
    BY <1>0, <1>13, JobFields DEF MapFail, At, Return, Run, NoFrame
  <2>2. job[p].head + 1 .. job[p].head + job[p].done \subseteq OccOf(job[p])
    <3>1. OccOf(job[p]) = Block(job[p].head, job[p].count)
      BY <2>1, OccFacts DEF Mapping
    <3>2. /\ job[p].head \in Nat /\ job[p].count \in Nat /\ job[p].done \in Nat
          /\ job[p].done < job[p].count
      BY <1>0, <2>1, JobFields DEF Jobs, Placed
    <3>3. QED
      BY <3>1, <3>2 DEF Block
  <2>3. \A i \in KPages : i \in Pages /\ i \notin OccOf(job[p])
    BY <1>0, <2>1, KPagesFacts
  <2>4. \A i \in KPages : kmap'[i] = kmap[i]
    BY <2>1, <2>2, <2>3
  <2>5. KPages' = KPages
    BY <1>a, <2>1
  <2>6. QED
    BY <1>0, <2>1, <2>4, <2>5, OnceStill
<1>14. QED
  BY <1>1, <1>2, <1>3, <1>4, <1>5, <1>6, <1>7, <1>8, <1>9, <1>10, <1>11, <1>12, <1>13 DEF UserActs

LEMMA OnceNext == LayoutInv /\ LayoutInv' /\ Once /\ [Next]_vars => Once'
<1> SUFFICES ASSUME LayoutInv, LayoutInv', Once, [Next]_vars PROVE Once'
  OBVIOUS
<1>0. VirtTypeOK /\ VirtTypeOK'
  BY DEF LayoutInv
<1>1. CASE UNCHANGED vars
  <2>1. UNCHANGED <<kmap, own, raced, failed, job, free, dir, table, page>>
    BY <1>1 DEF vars, window, ghosts, space
  <2>2. KPages' = KPages /\ KernelFrames' = KernelFrames
    BY <2>1 DEF KPages, KernelFrames, Kernel, Dying
  <2>3. \A u \in Users : Owned(u)' = Owned(u) /\ (Distinct(u)' <=> Distinct(u))
    BY <2>1 DEF Owned, Taken, Distinct
  <2>4. UNION {Owned(u)' : u \in Users} = UNION {Owned(u) : u \in Users}
    BY <2>3
  <2>5. QED
    BY <2>1, <2>2, <2>3, <2>4 DEF Once
<1>2. QED
  BY <1>0, <1>1, Actor, OnceKernelActs, OnceUserActs DEF Acts

LEMMA OnceInit == Init => Once
<1> SUFFICES ASSUME Init PROVE Once
  OBVIOUS
<1>1. \A p \in Procs : job[p] = Run
  BY DEF Init
<1>2. KPages = {} /\ KernelFrames = {}
  BY <1>1 DEF Init, KPages, KernelFrames, Kernel, Dying, Run
<1>3. ASSUME NEW u \in Users PROVE Owned(u) \subseteq {None} /\ Distinct(u)
  <2>1. /\ dir[u] = None /\ (\A t \in Tables : table[u][t] = None)
        /\ (\A a \in UserPages : page[u][a] = None) /\ job[u].at = "run"
    BY <1>1, VirtMemAssumption DEF Init, Run
  <2>2. QED
    BY <2>1, OwnedIn DEF Distinct
<1>4. None \notin free /\ free = Frames
  BY VirtMemAssumption DEF Init
<1>5. QED
  BY <1>2, <1>3, <1>4 DEF Once

(* vmm_alloc_page, umm_mmap_kmm, vmm_mmap_pde_page and umm_free: a frame has *)
(* one use, a page, a table or a directory of one process or a kernel page,  *)
(* and unless an allocation failed half-way none is left without a use.      *)
THEOREM FramesOnce == Spec => []FrameOnce
<1>1. Spec => []Once
  BY LayoutInvariant, OnceInit, OnceNext, PTL DEF Spec
<1>2. Once => FrameOnce
  BY DEF Once, FrameOnce, Distinct
<1>3. QED
  BY <1>1, <1>2, PTL

-----------------------------------------------------------------------------
(* Counting.                                                                 *)
LEMMA Intervals ==
    ASSUME NEW p, NEW k \in Nat
    PROVE  IsFiniteSet({p} \X (0 .. k - 1)) /\ Cardinality({p} \X (0 .. k - 1)) = k
<1>1. IsFiniteSet({p}) /\ Cardinality({p}) = 1
  BY FS_Singleton
<1>2. IsFiniteSet(0 .. k - 1) /\ Cardinality(0 .. k - 1) = k
  BY FS_Interval
<1>3. QED
  BY <1>1, <1>2, FS_Product

Sums(a, b, c, d) == a + b = c + d

LEMMA Owing ==
    ASSUME NEW m \in [Procs -> 0 .. Window], NEW n \in [Procs -> 0 .. Window], NEW p \in Procs,
           \A q \in Procs \ {p} : m[q] = n[q]
    PROVE  /\ Cardinality(Owe(m)) \in Nat /\ Cardinality(Owe(n)) \in Nat
           /\ Sums(Cardinality(Owe(n)), m[p], Cardinality(Owe(m)), n[p])
<1> DEFINE rest == UNION {{q} \X (0 .. m[q] - 1) : q \in Procs \ {p}}
           this(k) == {p} \X (0 .. k - 1)
<1>1. IsFiniteSet(Procs \X (0 .. Window))
  <2>1. IsFiniteSet(Procs) /\ IsFiniteSet(0 .. Window)
    BY VirtMemAssumption, FS_Interval
  <2>2. QED
    BY <2>1, FS_Product
<1>2. rest \subseteq Procs \X (0 .. Window)
  BY VirtMemAssumption
<1>3. IsFiniteSet(rest)
  BY <1>1, <1>2, FS_Subset
<1>4. Owe(m) = rest \cup this(m[p]) /\ Owe(n) = rest \cup this(n[p])
  BY DEF Owe
<1>5. \A k \in Nat : rest \cap this(k) = {}
  OBVIOUS
<1>6. \A k \in Nat : IsFiniteSet(this(k)) /\ Cardinality(this(k)) = k
  BY Intervals
<1> HIDE DEF rest, this
<1>7. ASSUME NEW k \in Nat PROVE Cardinality(rest \cup this(k)) = Cardinality(rest) + k
  <2>1. Cardinality(rest \cup this(k)) = Cardinality(rest) + Cardinality(this(k)) - Cardinality(rest \cap this(k))
    BY <1>3, <1>6, FS_Union
  <2>2. Cardinality(rest \cap this(k)) = 0
    BY <1>5, FS_EmptySet
  <2>3. Cardinality(rest) \in Nat
    BY <1>3, FS_CardinalityType
  <2>4. QED
    BY <1>6, <2>1, <2>2, <2>3
<1>8. Cardinality(rest) \in Nat /\ m[p] \in Nat /\ n[p] \in Nat
  BY <1>3, FS_CardinalityType, VirtMemAssumption
<1>9. QED
  BY <1>4, <1>7, <1>8 DEF Sums

(* A step changes what p owes, and what p has got.                           *)
LEMMA DueFacts ==
    ASSUME VirtTypeOK, Jobs, VirtTypeOK', Jobs', NEW p \in Procs, Alone(p)
    PROVE  /\ Cardinality(DueGiven) \in Nat /\ Cardinality(DueGiven') \in Nat
           /\ Cardinality(DueGot) \in Nat /\ Cardinality(DueGot') \in Nat
           /\ Sums(Cardinality(DueGiven'), GivenOf(job[p]), Cardinality(DueGiven), GivenOf(job'[p]))
           /\ Sums(Cardinality(DueGot'), GotOf(job[p]), Cardinality(DueGot), GotOf(job'[p]))
           /\ GivenOf(job[p]) \in Nat /\ GivenOf(job'[p]) \in Nat
           /\ GotOf(job[p]) \in Nat /\ GotOf(job'[p]) \in Nat
<1> DEFINE Small(j) == GivenOf(j) \in 0 .. Window /\ GotOf(j) \in 0 .. Window
<1>1. ASSUME NEW q \in Procs PROVE Small(job[q])
  <2>1. /\ job[q].head \in Nat /\ job[q].count \in Nat /\ job[q].done \in Nat /\ job[q].at \in Ats
        /\ Window \in Nat
    BY JobFields, VirtMemAssumption
  <2>2. /\ job[q].at \notin {"run", "exit"} => job[q].head + job[q].count <= Window
        /\ job[q].at \in Givers \cup {"frame", "set", "map"} => job[q].done < job[q].count
        /\ job[q].at = "end" => job[q].done = job[q].count
    BY DEF Jobs, Placed
  <2>3. QED
    BY <2>1, <2>2 DEF GivenOf, GotOf, Mapping, Givers, Ats
<1>2. ASSUME NEW q \in Procs PROVE Small(job'[q])
  <2>1. /\ job'[q].head \in Nat /\ job'[q].count \in Nat /\ job'[q].done \in Nat /\ job'[q].at \in Ats
        /\ Window \in Nat
    BY VirtMemAssumption DEF VirtTypeOK, Job
  <2>2. /\ job'[q].at \notin {"run", "exit"} => job'[q].head + job'[q].count <= Window
        /\ job'[q].at \in Givers \cup {"frame", "set", "map"} => job'[q].done < job'[q].count
        /\ job'[q].at = "end" => job'[q].done = job'[q].count
    BY DEF Jobs, Placed
  <2>3. QED
    BY <2>1, <2>2 DEF GivenOf, GotOf, Mapping, Givers, Ats
<1> DEFINE given == [q \in Procs |-> GivenOf(job[q])]
           given2 == [q \in Procs |-> GivenOf(job'[q])]
           got == [q \in Procs |-> GotOf(job[q])]
           got2 == [q \in Procs |-> GotOf(job'[q])]
<1>3. /\ given \in [Procs -> 0 .. Window] /\ given2 \in [Procs -> 0 .. Window]
      /\ got \in [Procs -> 0 .. Window] /\ got2 \in [Procs -> 0 .. Window]
  BY <1>1, <1>2
<1>4. \A q \in Procs \ {p} : given[q] = given2[q] /\ got[q] = got2[q]
  BY DEF Alone
<1>5. /\ given[p] = GivenOf(job[p]) /\ given2[p] = GivenOf(job'[p])
      /\ got[p] = GotOf(job[p]) /\ got2[p] = GotOf(job'[p])
  OBVIOUS
<1>6. /\ DueGiven = Owe(given) /\ DueGiven' = Owe(given2)
      /\ DueGot = Owe(got) /\ DueGot' = Owe(got2)
  BY DEF DueGiven, DueGot
<1> HIDE DEF given, given2, got, got2
<1>7. /\ Cardinality(Owe(given)) \in Nat /\ Cardinality(Owe(given2)) \in Nat
      /\ Sums(Cardinality(Owe(given2)), given[p], Cardinality(Owe(given)), given2[p])
  BY <1>3, <1>4, Owing
<1>8. /\ Cardinality(Owe(got)) \in Nat /\ Cardinality(Owe(got2)) \in Nat
      /\ Sums(Cardinality(Owe(got2)), got[p], Cardinality(Owe(got)), got2[p])
  BY <1>3, <1>4, Owing
<1>9. /\ GivenOf(job[p]) \in Nat /\ GivenOf(job'[p]) \in Nat
      /\ GotOf(job[p]) \in Nat /\ GotOf(job'[p]) \in Nat
  BY <1>1, <1>2, VirtMemAssumption
<1>10. QED
  BY <1>5, <1>6, <1>7, <1>8, <1>9

LEMMA UnmappedFinite ==
    /\ IsFiniteSet(Unmapped) /\ IsFiniteSet(Unmapped')
    /\ Cardinality(Unmapped) \in Nat /\ Cardinality(Unmapped') \in Nat
<1>1. IsFiniteSet(Pages)
  BY VirtMemAssumption, FS_Interval DEF Pages
<1>2. Unmapped \in SUBSET Pages /\ Unmapped' \in SUBSET Pages
  BY DEF Unmapped
<1>3. QED
  BY <1>1, <1>2, FS_Subset, FS_CardinalityType

LEMMA BlockSize ==
    ASSUME NEW h \in Nat, NEW n \in Nat \ {0}
    PROVE  IsFiniteSet(Block(h, n)) /\ Cardinality(Block(h, n)) = n
<1>1. h \in Int /\ h + n - 1 \in Int /\ ~(h > h + n - 1) /\ h + n - 1 - h + 1 = n
  OBVIOUS
<1>2. QED
  BY <1>1, FS_Interval DEF Block

(* What a step adds to the counter and to what is due, it takes elsewhere.   *)
Moves(v, v2, g, g2, t, t2, un, un2) == v2 + g2 + un + t = v + g + un2 + t2

LEMMA Balance ==
    ASSUME NEW v \in Int, NEW v2 \in Int, NEW un \in Int, NEW un2 \in Int,
           NEW given \in Int, NEW given2 \in Int, NEW got \in Int, NEW got2 \in Int,
           NEW g \in Int, NEW g2 \in Int, NEW t \in Int, NEW t2 \in Int,
           Sums(v, given, un, got), Sums(given2, g, given, g2), Sums(got2, t, got, t2),
           Moves(v, v2, g, g2, t, t2, un, un2)
    PROVE  Sums(v2, given2, un2, got2)
BY DEF Sums, Moves

LEMMA CountedStep ==
    ASSUME LayoutInv, LayoutInv', Counted, NEW p \in Procs, Alone(p), ~failed,
           Moves(vmmFree, vmmFree', GivenOf(job[p]), GivenOf(job'[p]), GotOf(job[p]), GotOf(job'[p]),
                 Cardinality(Unmapped), Cardinality(Unmapped')),
           \/ \A i \in Pages \ OccOf(job[p]) : kmap[i] = None => kmap'[i] = None
           \/ Cuts(p) => raced',
           job'[p].at \in Mapping =>
             \A i \in Block(job'[p].head + job'[p].done, job'[p].count - job'[p].done) : kmap'[i] = None
    PROVE  Counted'
<1>0. VirtTypeOK /\ Jobs /\ Apart /\ VirtTypeOK' /\ Jobs' /\ ~raced
  BY DEF LayoutInv, Alone
<1>1. SUFFICES ASSUME ~raced' PROVE Counted'
  BY DEF Counted
<1>2. vmmFree' + Cardinality(DueGiven') = Cardinality(Unmapped') + Cardinality(DueGot')
  <2>1. vmmFree + Cardinality(DueGiven) = Cardinality(Unmapped) + Cardinality(DueGot)
    BY <1>0 DEF Counted
  <2>2. vmmFree \in Int /\ vmmFree' \in Int
    BY <1>0 DEF VirtTypeOK
  <2>3. /\ Cardinality(DueGiven) \in Nat /\ Cardinality(DueGiven') \in Nat
        /\ Cardinality(DueGot) \in Nat /\ Cardinality(DueGot') \in Nat
        /\ Sums(Cardinality(DueGiven'), GivenOf(job[p]), Cardinality(DueGiven), GivenOf(job'[p]))
        /\ Sums(Cardinality(DueGot'), GotOf(job[p]), Cardinality(DueGot), GotOf(job'[p]))
        /\ GivenOf(job[p]) \in Nat /\ GivenOf(job'[p]) \in Nat
        /\ GotOf(job[p]) \in Nat /\ GotOf(job'[p]) \in Nat
    BY <1>0, DueFacts
  <2>4. Cardinality(Unmapped) \in Nat /\ Cardinality(Unmapped') \in Nat
    BY UnmappedFinite
  <2> DEFINE v == vmmFree
             v2 == vmmFree'
             un == Cardinality(Unmapped)
             un2 == Cardinality(Unmapped')
             given == Cardinality(DueGiven)
             given2 == Cardinality(DueGiven')
             got == Cardinality(DueGot)
             got2 == Cardinality(DueGot')
             g == GivenOf(job[p])
             g2 == GivenOf(job'[p])
             t == GotOf(job[p])
             t2 == GotOf(job'[p])
  <2>5. /\ un \in Int /\ un2 \in Int /\ given \in Int /\ given2 \in Int /\ got \in Int /\ got2 \in Int
        /\ g \in Int /\ g2 \in Int /\ t \in Int /\ t2 \in Int /\ v \in Int /\ v2 \in Int
    BY <2>2, <2>3, <2>4
  <2>6. Sums(given2, g, given, g2) /\ Sums(got2, t, got, t2)
    BY <2>3
  <2>7. Sums(v, given, un, got) /\ Moves(v, v2, g, g2, t, t2, un, un2)
    BY <2>1 DEF Sums
  <2> HIDE DEF v, v2, un, un2, given, given2, got, got2, g, g2, t, t2
  <2>8. Sums(v2, given2, un2, got2)
    BY <2>5, <2>6, <2>7, Balance
  <2>9. QED
    BY <2>8 DEF v2, un2, given2, got2, Sums
<1>3. ASSUME NEW q \in Procs \ {p}, job'[q].at \in Mapping,
             NEW i \in Block(job'[q].head + job'[q].done, job'[q].count - job'[q].done)
      PROVE  kmap'[i] = None
  <2>1. job'[q] = job[q]
    BY DEF Alone
  <2>2. kmap[i] = None
    BY <1>0, <1>3, <2>1 DEF Counted
  <2>3. ~(Cuts(p) => raced')
    BY <1>0, <1>1, <1>3, <2>1, MapperCuts DEF Alone
  <2>4. i \in OccOf(job[q])
    <3>1. OccOf(job[q]) = Block(job[q].head, job[q].count)
      BY <1>3, <2>1, OccFacts
    <3>2. job[q].head \in Nat /\ job[q].count \in Nat /\ job[q].done \in Nat
      BY <1>0, JobFields
    <3>3. QED
      BY <1>3, <2>1, <3>1, <3>2 DEF Block
  <2>5. i \in Pages /\ i \notin OccOf(job[p])
    BY <1>0, <2>4, ApartFacts, OccJob DEF Apart
  <2>6. QED
    BY <2>2, <2>3, <2>5
<1>4. QED
  BY <1>2, <1>3 DEF Counted

(* Steps that map and unmap nothing.                                         *)
LEMMA CountedQuiet ==
    ASSUME LayoutInv, LayoutInv', Counted, NEW p \in Procs, Alone(p), ~failed, kmap' = kmap,
           vmmFree' + GivenOf(job'[p]) + GotOf(job[p]) = vmmFree + GivenOf(job[p]) + GotOf(job'[p]),
           job'[p].at \in Mapping =>
             \A i \in Block(job'[p].head + job'[p].done, job'[p].count - job'[p].done) : kmap[i] = None
    PROVE  Counted'
<1>0. VirtTypeOK /\ Jobs /\ VirtTypeOK' /\ Jobs'
  BY DEF LayoutInv
<1>1. Unmapped' = Unmapped /\ Cardinality(Unmapped) \in Nat
  BY UnmappedFinite DEF Unmapped
<1>2. vmmFree \in Int /\ vmmFree' \in Int
  BY <1>0 DEF VirtTypeOK
<1>3. /\ GivenOf(job[p]) \in Nat /\ GivenOf(job'[p]) \in Nat
      /\ GotOf(job[p]) \in Nat /\ GotOf(job'[p]) \in Nat
  BY <1>0, DueFacts
<1>4. Moves(vmmFree, vmmFree', GivenOf(job[p]), GivenOf(job'[p]), GotOf(job[p]), GotOf(job'[p]),
              Cardinality(Unmapped), Cardinality(Unmapped'))
  BY <1>1, <1>2, <1>3 DEF Moves
<1>5. QED
  BY <1>4, CountedStep

(* What is due, by where an operation is.                                    *)
LEMMA DueOf ==
    ASSUME NEW j
    PROVE  /\ j.at \in {"run", "exit", "setone", "buffer"} => GivenOf(j) = 0 /\ GotOf(j) = 0
           /\ j.at \in Givers => GivenOf(j) = j.done /\ GotOf(j) = 0
           /\ j.at \in {"test", "store", "count"} => GivenOf(j) = j.count /\ GotOf(j) = 0
           /\ j.at \in Mapping => GivenOf(j) = 0 /\ GotOf(j) = j.done
BY DEF GivenOf, GotOf, Mapping, Givers

LEMMA CountedKernel ==
    ASSUME LayoutInv, LayoutInv', Counted, NEW p \in Procs, KernelActs(p), Alone(p), ~failed'
    PROVE  Counted'
<1> USE DEF window, ghosts
<1>0. /\ VirtTypeOK /\ Jobs /\ Apart /\ VirtTypeOK' /\ Jobs' /\ ~raced
      /\ vmmFree \in Int /\ Cardinality(Unmapped) \in Nat /\ IsFiniteSet(Unmapped)
  BY UnmappedFinite DEF LayoutInv, Alone, VirtTypeOK
<1>1. ~failed
  BY DEF KernelActs, KAlloc, KAllocFail, SearchBreaks, KFree, KFreeFrame, Remove, TestPos,
         StorePos, AddCount
<1>2. ASSUME NEW n \in Counts, KAlloc(p, n) PROVE Counted'
  <2>1. n \in Nat \ {0}
    BY VirtMemAssumption
  <2>2. PICK q \in Pages, f \in [Block(0, n) -> free \ {Zero}] :
           /\ FirstFit(q, n) /\ ~Below(q, n)
           /\ kmap' = [i \in Pages |-> IF i \in Block(q - n + 1, n) THEN f[i - (q - n + 1)] ELSE kmap[i]]
    BY <1>2 DEF KAlloc
  <2>3. job[p].at = "run" /\ job' = job /\ vmmFree' = vmmFree - n /\ (Cuts(p) => raced')
    BY <1>2 DEF KAlloc, At
  <2> DEFINE h == q - n + 1
             B == Block(h, n)
  <2>4. h \in Nat /\ \A i \in B : i \in Pages /\ kmap[i] = None
    BY <1>0, <2>1, <2>2, Fitting
  <2>5. \A i \in B : kmap'[i] # None
    <3>1. ASSUME NEW i \in B PROVE kmap'[i] # None
      <4>1. i - h \in Block(0, n) /\ i \in Pages
        BY <2>1, <2>4 DEF Block, Pages
      <4>2. f[i - h] \in Frames
        BY <1>0, <4>1 DEF VirtTypeOK
      <4>3. kmap'[i] = f[i - h]
        BY <2>2, <4>1
      <4>4. QED
        BY <4>2, <4>3, VirtMemAssumption
    <3>2. QED
      BY <3>1
  <2>6. \A i \in Pages \ B : kmap'[i] = kmap[i]
    BY <2>2
  <2>7. IsFiniteSet(B) /\ Cardinality(B) = n
    BY <2>1, <2>4, BlockSize
  <2> HIDE DEF B, h
  <2>8. Unmapped = Unmapped' \cup B /\ Unmapped' \cap B = {}
    BY <2>4, <2>5, <2>6 DEF Unmapped
  <2>9. Cardinality(Unmapped) = Cardinality(Unmapped') + n
    <3>1. Cardinality(Unmapped' \cup B) = Cardinality(Unmapped') + Cardinality(B) - Cardinality(Unmapped' \cap B)
      BY <2>7, UnmappedFinite, FS_Union
    <3>2. Cardinality(Unmapped' \cap B) = 0
      BY <2>8, FS_EmptySet
    <3>3. QED
      BY <2>1, <2>7, <2>8, <3>1, <3>2, UnmappedFinite
  <2>10. GivenOf(job[p]) = 0 /\ GotOf(job[p]) = 0 /\ job'[p] = job[p] /\ job'[p].at \notin Mapping
    BY <2>3, DueOf DEF Mapping
  <2>11. Moves(vmmFree, vmmFree', GivenOf(job[p]), GivenOf(job'[p]), GotOf(job[p]), GotOf(job'[p]),
              Cardinality(Unmapped), Cardinality(Unmapped'))
    BY <1>0, <2>1, <2>3, <2>9, <2>10, UnmappedFinite DEF Moves
  <2>12. QED
    BY <1>1, <2>3, <2>10, <2>11, CountedStep
<1>3. ASSUME NEW n \in Counts, KAllocFail(p, n) PROVE Counted'
  <2>1. PICK q \in Pages, done \in Block(0, n) :
        \E f \in [Block(0, done) -> free \ {Zero}] :
           /\ kmap' = IF done > 0 THEN [kmap EXCEPT ![q - n + 1] = f[0]] ELSE kmap
           /\ failed' = (failed \/ done > 0)
    BY <1>3 DEF KAllocFail
  <2>2. kmap' = kmap /\ vmmFree' = vmmFree /\ job' = job /\ job[p].at = "run"
    BY <1>3, <2>1 DEF KAllocFail, At
  <2>3. GivenOf(job[p]) = 0 /\ GotOf(job[p]) = 0 /\ job'[p] = job[p] /\ job'[p].at \notin Mapping
    BY <2>2, DueOf DEF Mapping
  <2>4. QED
    BY <1>0, <1>1, <2>2, <2>3, CountedQuiet
<1>4. CASE KFree(p)
  <2>1. PICK b \in own :
          job' = [job EXCEPT ![p] = [Run EXCEPT !.at = "give", !.head = b[1], !.count = b[2]]]
    BY <1>4 DEF KFree
  <2>2. job[p].at = "run" /\ UNCHANGED <<kmap, vmmFree>> /\ job'[p].at = "give" /\ job'[p].done = 0
    BY <1>0, <1>4, <2>1, JobFields DEF KFree, At, Run
  <2>3. /\ GivenOf(job[p]) = 0 /\ GotOf(job[p]) = 0 /\ GivenOf(job'[p]) = 0 /\ GotOf(job'[p]) = 0
        /\ job'[p].at \notin Mapping
    BY <2>2, DueOf DEF Mapping, Givers
  <2>4. QED
    BY <1>0, <1>1, <2>2, <2>3, CountedQuiet
<1>5. CASE KFreeFrame(p)
  <2>1. /\ job[p].at = "give" /\ UNCHANGED <<kmap, vmmFree>> /\ job'[p].at = "remove"
        /\ job'[p].done = job[p].done /\ job[p].done \in Nat
    BY <1>0, <1>5, JobFields DEF KFreeFrame, At, Goto, Job
  <2>2. /\ GivenOf(job[p]) = job[p].done /\ GotOf(job[p]) = 0
        /\ GivenOf(job'[p]) = job[p].done /\ GotOf(job'[p]) = 0 /\ job'[p].at \notin Mapping
    BY <2>1, DueOf DEF Mapping, Givers
  <2>3. QED
    BY <1>0, <1>1, <2>1, <2>2, CountedQuiet
<1>6. CASE Remove(p)
  <2> DEFINE e == job[p].head + job[p].done
  <2>1. /\ job[p].at \in {"remove", "unmap"} /\ kmap' = [kmap EXCEPT ![e] = None] /\ vmmFree' = vmmFree
    BY <1>6 DEF Remove, At
  <2>2. /\ job'[p].count = job[p].count /\ job'[p].done = job[p].done + 1
        /\ job'[p].at = IF job[p].done + 1 = job[p].count THEN "test"
                        ELSE IF job[p].at = "remove" THEN "give" ELSE "unmap"
    BY <1>0, <1>6, JobFields DEF Remove, At, Job
  <2>3. /\ job[p].head \in Nat /\ job[p].count \in Nat /\ job[p].done \in Nat
        /\ job[p].done < job[p].count
    BY <1>0, <2>1, JobFields DEF Jobs, Placed, Givers
  <2>4. e \in Pages /\ kmap[e] # None
    <3>1. OccOf(job[p]) = Block(e, job[p].count - job[p].done) /\ EntOf(job[p]) = OccOf(job[p])
      BY <2>1, OccFacts DEF Givers
    <3>2. e \in OccOf(job[p])
      BY <2>3, <3>1 DEF Block
    <3>3. QED
      BY <1>0, <3>1, <3>2, ApartFacts
  <2> HIDE DEF e
  <2>5. \A i \in Pages : kmap'[i] = IF i = e THEN None ELSE kmap[i]
    BY <1>0, <2>1 DEF VirtTypeOK
  <2>6. Unmapped' = Unmapped \cup {e} /\ e \notin Unmapped
    BY <2>4, <2>5 DEF Unmapped
  <2>7. Cardinality(Unmapped') = Cardinality(Unmapped) + 1
    BY <1>0, <2>6, FS_AddElement
  <2>8. /\ GivenOf(job[p]) = job[p].done /\ GotOf(job[p]) = 0
        /\ GivenOf(job'[p]) = job[p].done + 1 /\ GotOf(job'[p]) = 0
        /\ job'[p].at \notin Mapping
    <3>1. GivenOf(job[p]) = job[p].done /\ GotOf(job[p]) = 0
      BY <2>1, DueOf DEF Givers
    <3>2. job'[p].at \in Givers \/ (job'[p].at = "test" /\ job'[p].count = job[p].done + 1)
      <4>1. CASE job[p].done + 1 = job[p].count
        BY <2>2, <4>1
      <4>2. CASE job[p].done + 1 # job[p].count
        BY <2>1, <2>2, <4>2 DEF Givers
      <4>3. QED
        BY <4>1, <4>2
    <3>3. job'[p].at \notin Mapping
      BY <3>2 DEF Givers, Mapping
    <3>4. QED
      BY <2>2, <3>1, <3>2, <3>3, DueOf
  <2>9. Moves(vmmFree, vmmFree', GivenOf(job[p]), GivenOf(job'[p]), GotOf(job[p]), GotOf(job'[p]),
              Cardinality(Unmapped), Cardinality(Unmapped'))
    BY <1>0, <2>1, <2>3, <2>7, <2>8 DEF Moves
  <2>10. \A i \in Pages : kmap[i] = None => kmap'[i] = None
    BY <2>5
  <2>11. QED
    BY <1>1, <2>8, <2>9, <2>10, CountedStep
<1>7. CASE TestPos(p) \/ StorePos(p)
  <2>1. /\ job[p].at \in {"test", "store"} /\ UNCHANGED <<kmap, vmmFree>>
        /\ job'[p].at \in {"store", "count"} /\ job'[p].count = job[p].count /\ job[p].count \in Nat
    BY <1>0, <1>7, JobFields DEF TestPos, StorePos, At, Goto, Job
  <2>2. /\ GivenOf(job[p]) = job[p].count /\ GotOf(job[p]) = 0
        /\ GivenOf(job'[p]) = job[p].count /\ GotOf(job'[p]) = 0 /\ job'[p].at \notin Mapping
    BY <2>1, DueOf DEF Mapping
  <2>3. QED
    BY <1>0, <1>1, <2>1, <2>2, CountedQuiet
<1>8. CASE AddCount(p)
  <2>1. /\ job[p].at = "count" /\ kmap' = kmap /\ vmmFree' = vmmFree + job[p].count
        /\ job'[p].at = "run" /\ job[p].count \in Nat
    BY <1>0, <1>8, JobFields DEF AddCount, At, Return, Run
  <2>2. /\ GivenOf(job[p]) = job[p].count /\ GotOf(job[p]) = 0
        /\ GivenOf(job'[p]) = 0 /\ GotOf(job'[p]) = 0 /\ job'[p].at \notin Mapping
    BY <2>1, DueOf DEF Mapping
  <2>3. QED
    BY <1>0, <1>1, <2>1, <2>2, CountedQuiet
<1>9. ASSUME NEW n \in Counts, SearchBreaks(p, n) PROVE Counted'
  <2>1. UNCHANGED <<kmap, vmmFree, job>> /\ job[p].at = "run"
    BY <1>9 DEF SearchBreaks, At
  <2>2. GivenOf(job[p]) = 0 /\ GotOf(job[p]) = 0 /\ job'[p] = job[p] /\ job'[p].at \notin Mapping
    BY <2>1, DueOf DEF Mapping
  <2>3. QED
    BY <1>0, <1>1, <2>1, <2>2, CountedQuiet
<1>10. QED
  BY <1>2, <1>3, <1>4, <1>5, <1>6, <1>7, <1>8, <1>9 DEF KernelActs

LEMMA CountedUser ==
    ASSUME LayoutInv, LayoutInv', Counted, NEW p \in Procs, UserActs(p), Alone(p), ~failed'
    PROVE  Counted'
<1> USE DEF window, ghosts
<1>0. /\ VirtTypeOK /\ Jobs /\ Apart /\ VirtTypeOK' /\ Jobs' /\ ~raced /\ p \in Users
      /\ vmmFree \in Int /\ Cardinality(Unmapped) \in Nat /\ IsFiniteSet(Unmapped)
  BY UnmappedFinite DEF LayoutInv, Alone, VirtTypeOK, UserActs
<1>1. ~failed
  BY DEF UserActs, AllocPde, Exit, FreeTable, FreePde, Fault, MapOne, SetOne, Unmap, MapBegin,
         MapFrame,
         MapSet, MapEnter, MapEnd, MapFail
<1>2. CASE /\ UNCHANGED <<kmap, vmmFree>> /\ job[p].at \in {"run", "exit", "setone", "buffer"}
           /\ job'[p].at \in {"run", "exit", "setone", "buffer"}
  <2>1. GivenOf(job[p]) = 0 /\ GotOf(job[p]) = 0
    BY <1>2, DueOf
  <2>2. GivenOf(job'[p]) = 0 /\ GotOf(job'[p]) = 0
    BY <1>2, DueOf
  <2>3. job'[p].at \notin Mapping
    BY <1>2 DEF Mapping
  <2>4. QED
    BY <1>0, <1>1, <1>2, <2>1, <2>2, <2>3, CountedQuiet
<1>3. CASE AllocPde(p) \/ FreeTable(p)
  BY <1>2, <1>3 DEF AllocPde, FreeTable, At
<1>4. CASE Exit(p) \/ FreePde(p) \/ SetOne(p)
  <2>1. job'[p].at \in {"exit", "run", "buffer"}
    <3>1. Exit(p) => job'[p].at = "exit"
      BY <1>0, JobFields DEF Exit, Goto, Job
    <3>2. FreePde(p) => job'[p].at = "run"
      BY <1>0, JobFields DEF FreePde, Return, Run
    <3>3. SetOne(p) => job'[p].at = "buffer"
      BY <1>0, JobFields DEF SetOne, Run
    <3>4. QED
      BY <1>4, <3>1, <3>2, <3>3
  <2>2. QED
    BY <1>2, <1>4, <2>1 DEF Exit, FreePde, SetOne, At
<1>5. CASE Fault(p)
  <2>1. UNCHANGED <<kmap, vmmFree>> /\ job[p].at = "run" /\ (UNCHANGED job \/ Goto(p, "exit"))
    BY <1>5 DEF Fault, At
  <2>2. job'[p].at \in {"run", "exit"}
    BY <1>0, <2>1, JobFields DEF Goto, Job
  <2>3. QED
    BY <1>2, <2>1, <2>2
<1>6. CASE MapOne(p)
  <2>1. PICK q \in Pages, f \in free \ {Zero}, a \in UserPages :
           /\ FirstFit(q, 1) /\ ~Below(q, 1)
           /\ kmap' = [kmap EXCEPT ![q] = f]
           /\ job' = [job EXCEPT ![p] = [Run EXCEPT !.at = "setone", !.head = q, !.count = 1,
                                                    !.first = a, !.phy = f]]
    BY <1>6 DEF MapOne
  <2>2. job[p].at = "run" /\ vmmFree' = vmmFree - 1 /\ (Cuts(p) => raced') /\ job'[p].at = "setone"
    BY <1>0, <1>6, <2>1, JobFields DEF MapOne, At, Run
  <2>3. kmap[q] = None
    <3>1. q \in Block(q - 1 + 1, 1) /\ 1 \in Nat \ {0}
      BY DEF Block, Pages
    <3>2. QED
      BY <1>0, <2>1, <3>1, Fitting
  <2>4. f # None
    BY <1>0, VirtMemAssumption DEF VirtTypeOK
  <2>5. \A i \in Pages : kmap'[i] = IF i = q THEN f ELSE kmap[i]
    BY <1>0, <2>1 DEF VirtTypeOK
  <2>6. Unmapped' = Unmapped \ {q} /\ q \in Unmapped
    BY <2>3, <2>4, <2>5 DEF Unmapped
  <2>7. Cardinality(Unmapped') = Cardinality(Unmapped) - 1
    BY <1>0, <2>6, FS_RemoveElement
  <2>8. /\ GivenOf(job[p]) = 0 /\ GotOf(job[p]) = 0 /\ GivenOf(job'[p]) = 0 /\ GotOf(job'[p]) = 0
        /\ job'[p].at \notin Mapping
    BY <2>2, DueOf DEF Mapping
  <2>9. Moves(vmmFree, vmmFree', GivenOf(job[p]), GivenOf(job'[p]), GotOf(job[p]), GotOf(job'[p]),
              Cardinality(Unmapped), Cardinality(Unmapped'))
    BY <1>0, <2>2, <2>7, <2>8 DEF Moves
  <2>10. QED
    BY <1>1, <2>2, <2>8, <2>9, CountedStep
<1>7. CASE Unmap(p)
  <2>1. /\ job[p].at = "buffer" /\ job'[p].at = "unmap" /\ job'[p].done = job[p].done
        /\ UNCHANGED <<kmap, vmmFree>>
    BY <1>0, <1>7, JobFields DEF Unmap, At, Goto, Job
  <2>2. job[p].done = 0
    BY <1>0, <2>1 DEF Jobs, Placed
  <2>3. GivenOf(job[p]) = 0 /\ GotOf(job[p]) = 0
    BY <2>1, DueOf
  <2>4. GivenOf(job'[p]) = 0 /\ GotOf(job'[p]) = 0 /\ job'[p].at \notin Mapping
    BY <2>1, <2>2, DueOf DEF Givers, Mapping
  <2>5. QED
    BY <1>0, <1>1, <2>1, <2>3, <2>4, CountedQuiet
<1>8. ASSUME NEW n \in Counts, MapBegin(p, n) PROVE Counted'
  <2>1. n \in Nat \ {0}
    BY VirtMemAssumption
  <2>2. PICK q \in Pages, a \in UserPages :
           /\ FirstFit(q, n) /\ ~Below(q, n)
           /\ job' = [job EXCEPT ![p] = [Run EXCEPT !.at = "frame", !.head = q - n + 1,
                                                    !.count = n, !.first = a]]
    BY <1>8 DEF MapBegin
  <2>3. job[p].at = "run" /\ UNCHANGED <<kmap, vmmFree>>
    BY <1>8 DEF MapBegin, At
  <2>4. /\ job'[p].at = "frame" /\ job'[p].head = q - n + 1 /\ job'[p].count = n
        /\ job'[p].done = 0
    BY <1>0, <2>2, JobFields DEF Run
  <2>5. \A i \in Block(q - n + 1, n) : kmap[i] = None
    BY <1>0, <2>1, <2>2, Fitting
  <2>6. Block(q - n + 1 + 0, n - 0) = Block(q - n + 1, n)
    BY <2>1 DEF Block, Pages
  <2>7. \A i \in Block(job'[p].head + job'[p].done, job'[p].count - job'[p].done) : kmap[i] = None
    BY <2>4, <2>5, <2>6
  <2>8. GivenOf(job[p]) = 0 /\ GotOf(job[p]) = 0
    BY <2>3, DueOf
  <2>9. GivenOf(job'[p]) = 0 /\ GotOf(job'[p]) = 0
    BY <2>4, DueOf DEF Mapping
  <2>10. QED
    BY <1>0, <1>1, <2>3, <2>7, <2>8, <2>9, CountedQuiet
<1>9. CASE MapFrame(p) \/ MapSet(p)
  <2>1. /\ job[p].at \in Mapping /\ job'[p].at \in Mapping /\ UNCHANGED <<kmap, vmmFree>>
        /\ job'[p].head = job[p].head /\ job'[p].count = job[p].count /\ job'[p].done = job[p].done
    <3>1. CASE MapFrame(p)
      BY <1>0, <3>1, JobFields DEF MapFrame, At, Mapping, Job
    <3>2. CASE MapSet(p)
      <4>1. PICK o : job' = [job EXCEPT ![p].at = "map", ![p].open = o]
        BY <3>2 DEF MapSet
      <4>2. QED
        BY <1>0, <3>2, <4>1, JobFields DEF MapSet, At, Mapping, Job
    <3>3. QED
      BY <1>9, <3>1, <3>2
  <2>2. \A i \in Block(job'[p].head + job'[p].done, job'[p].count - job'[p].done) : kmap[i] = None
    BY <1>0, <1>1, <2>1 DEF Counted
  <2>3. GivenOf(job[p]) = 0 /\ GotOf(job[p]) = job[p].done /\ job[p].done \in Nat
    BY <1>0, <2>1, DueOf, JobFields
  <2>4. GivenOf(job'[p]) = 0 /\ GotOf(job'[p]) = job[p].done
    BY <2>1, DueOf
  <2>5. QED
    BY <1>0, <1>1, <2>1, <2>2, <2>3, <2>4, CountedQuiet
<1>10. CASE MapEnter(p)
  <2> DEFINE e == job[p].head + job[p].done
  <2>1. /\ job[p].at = "map" /\ vmmFree' = vmmFree
        /\ kmap' = [kmap EXCEPT ![e] = job[p].phy]
    BY <1>10 DEF MapEnter, At
  <2>2. /\ job'[p].head = job[p].head /\ job'[p].count = job[p].count /\ job'[p].done = job[p].done + 1
        /\ job'[p].at \in Mapping
    BY <1>0, <1>10, JobFields DEF MapEnter, Mapping, Job
  <2>3. /\ job[p].head \in Nat /\ job[p].count \in Nat /\ job[p].done \in Nat
        /\ job[p].done < job[p].count /\ job[p].phy # None
    BY <1>0, <2>1, JobFields DEF Jobs, Placed
  <2>4. \A i \in Block(e, job[p].count - job[p].done) : kmap[i] = None
    BY <1>0, <1>1, <2>1 DEF Counted, Mapping
  <2>5. /\ e \in Block(e, job[p].count - job[p].done) /\ e \in Block(job[p].head, job[p].count)
        /\ Block(job[p].head + (job[p].done + 1), job[p].count - (job[p].done + 1))
              \subseteq Block(e, job[p].count - job[p].done) \ {e}
    <3>1. \A h, d, c \in Nat : d < c =>
             /\ h + d \in Block(h + d, c - d) /\ h + d \in Block(h, c)
             /\ Block(h + (d + 1), c - (d + 1)) \subseteq Block(h + d, c - d) \ {h + d}
      BY DEF Block
    <3>2. QED
      BY <2>3, <3>1
  <2>6. e \in Pages /\ e \in OccOf(job[p])
    <3>1. OccOf(job[p]) = Block(job[p].head, job[p].count)
      BY <2>1, OccFacts DEF Mapping
    <3>2. QED
      BY <1>0, <2>5, <3>1, ApartFacts
  <2> HIDE DEF e
  <2>7. \A i \in Pages : kmap'[i] = IF i = e THEN job[p].phy ELSE kmap[i]
    BY <1>0, <2>1 DEF VirtTypeOK
  <2>8. Unmapped' = Unmapped \ {e} /\ e \in Unmapped
    BY <2>3, <2>4, <2>5, <2>6, <2>7 DEF Unmapped
  <2>9. Cardinality(Unmapped') = Cardinality(Unmapped) - 1
    BY <1>0, <2>8, FS_RemoveElement
  <2>10. GivenOf(job[p]) = 0 /\ GotOf(job[p]) = job[p].done
    BY <2>1, DueOf DEF Mapping
  <2>11. GivenOf(job'[p]) = 0 /\ GotOf(job'[p]) = job[p].done + 1
    BY <2>2, DueOf
  <2>12. Moves(vmmFree, vmmFree', GivenOf(job[p]), GivenOf(job'[p]), GotOf(job[p]), GotOf(job'[p]),
              Cardinality(Unmapped), Cardinality(Unmapped'))
    BY <1>0, <2>1, <2>3, <2>9, <2>10, <2>11 DEF Moves
  <2>13. \A i \in Block(job'[p].head + job'[p].done, job'[p].count - job'[p].done) : kmap'[i] = None
    <3>1. Block(e, job[p].count - job[p].done) \subseteq Pages
      <4>1. /\ Window \in Nat /\ job[p].head + job[p].count <= Window
        BY <1>0, <2>1, VirtMemAssumption DEF Jobs, Placed
      <4>2. QED
        BY <2>3, <4>1 DEF Block, Pages, e
    <3>2. \A i \in Block(job'[p].head + job'[p].done, job'[p].count - job'[p].done) :
             i \in Block(e, job[p].count - job[p].done) /\ i # e
      BY <2>2, <2>5
    <3>3. QED
      BY <2>4, <2>7, <3>1, <3>2
  <2>14. \A i \in Pages \ OccOf(job[p]) : kmap[i] = None => kmap'[i] = None
    BY <2>6, <2>7
  <2>15. QED
    BY <1>1, <2>12, <2>13, <2>14, CountedStep
<1>11. CASE MapEnd(p)
  <2>1. /\ job[p].at = "end" /\ kmap' = kmap /\ vmmFree' = vmmFree - job[p].count
        /\ job'[p].at = "buffer" /\ job[p].count \in Nat
    BY <1>0, <1>11, JobFields DEF MapEnd, At, Run
  <2>2. job[p].done = job[p].count
    BY <1>0, <2>1 DEF Jobs, Placed
  <2>3. GivenOf(job[p]) = 0 /\ GotOf(job[p]) = job[p].count
    BY <2>1, <2>2, DueOf DEF Mapping
  <2>4. GivenOf(job'[p]) = 0 /\ GotOf(job'[p]) = 0 /\ job'[p].at \notin Mapping
    BY <2>1, DueOf DEF Mapping
  <2>5. QED
    BY <1>0, <1>1, <2>1, <2>3, <2>4, CountedQuiet
<1>12. CASE MapFail(p)
  <2>1. /\ job[p].at = "frame" /\ vmmFree' = vmmFree /\ job'[p].at = "run"
        /\ kmap' = [i \in Pages |-> IF i \in job[p].head + 1 .. job[p].head + job[p].done
                                    THEN None ELSE kmap[i]]
        /\ ~(job[p].done > 0)
    BY <1>0, <1>12, JobFields DEF MapFail, At, Return, Run
  <2>2. job[p].done = 0 /\ job[p].head \in Nat
    BY <1>0, <2>1, JobFields
  <2>3. kmap' = kmap
    <3>1. \A i \in Pages : i \notin job[p].head + 1 .. job[p].head + job[p].done
      BY <2>2
    <3>2. QED
      BY <1>0, <2>1, <3>1 DEF VirtTypeOK
  <2>4. GivenOf(job[p]) = 0 /\ GotOf(job[p]) = 0
    BY <2>1, <2>2, DueOf DEF Mapping
  <2>5. GivenOf(job'[p]) = 0 /\ GotOf(job'[p]) = 0 /\ job'[p].at \notin Mapping
    BY <2>1, DueOf DEF Mapping
  <2>6. QED
    BY <1>0, <1>1, <2>1, <2>3, <2>4, <2>5, CountedQuiet
<1>13. QED
  BY <1>3, <1>4, <1>5, <1>6, <1>7, <1>8, <1>9, <1>10, <1>11, <1>12 DEF UserActs

LEMMA CountedNext == LayoutInv /\ LayoutInv' /\ Counted /\ [Next]_vars => Counted'
<1> SUFFICES ASSUME LayoutInv, LayoutInv', Counted, [Next]_vars PROVE Counted'
  OBVIOUS
<1>0. VirtTypeOK
  BY DEF LayoutInv
<1>1. CASE UNCHANGED vars
  <2>1. UNCHANGED <<kmap, vmmFree, raced, failed, job>>
    BY <1>1 DEF vars, window, ghosts
  <2>2. Unmapped' = Unmapped /\ DueGiven' = DueGiven /\ DueGot' = DueGot
    BY <2>1 DEF Unmapped, DueGiven, DueGot
  <2>3. QED
    BY <2>1, <2>2 DEF Counted
<1>2. CASE failed'
  BY <1>2 DEF Counted
<1>3. QED
  BY <1>0, <1>1, <1>2, Actor, CountedKernel, CountedUser DEF Acts

(* Nothing is due when no operation is on its way.                           *)
LEMMA NothingDue ==
    ASSUME \A p \in Procs : job[p].at \in {"run", "buffer", "exit"}
    PROVE  Cardinality(DueGiven) = 0 /\ Cardinality(DueGot) = 0
<1>1. \A p \in Procs : GivenOf(job[p]) = 0 /\ GotOf(job[p]) = 0
  BY DueOf
<1>2. DueGiven = {} /\ DueGot = {}
  BY <1>1 DEF DueGiven, DueGot, Owe
<1>3. QED
  BY <1>2, FS_EmptySet

LEMMA CountedInit == Init => Counted
<1> SUFFICES ASSUME Init PROVE Counted
  OBVIOUS
<1>1. \A p \in Procs : job[p].at = "run"
  BY DEF Init, Run
<1>2. Cardinality(DueGiven) = 0 /\ Cardinality(DueGot) = 0
  BY <1>1, NothingDue
<1>3. Unmapped = 0 .. Window - 1
  BY DEF Unmapped, Init, Pages
<1>4. Cardinality(0 .. Window - 1) = Window
  BY VirtMemAssumption, FS_Interval
<1>5. \A p \in Procs : job[p].at \notin Mapping
  BY <1>1 DEF Mapping
<1>6. QED
  BY <1>2, <1>3, <1>4, <1>5, VirtMemAssumption DEF Counted, Init

(* vmm_free_page_count (vmm.c): between operations it is the number of pages *)
(* of the window that are not mapped.                                        *)
THEOREM FreeCountExact == Spec => []CountExact
<1>1. Spec => []Counted
  BY LayoutInvariant, CountedInit, CountedNext, PTL DEF Spec
<1>2. LayoutInv /\ Counted => CountExact
  <2> SUFFICES ASSUME LayoutInv, Counted, ~raced, ~failed,
                      \A p \in Procs : job[p].at \in {"run", "buffer", "exit"}
               PROVE  vmmFree = Cardinality(Unmapped)
    BY DEF CountExact, Unmapped
  <2>1. Cardinality(DueGiven) = 0 /\ Cardinality(DueGot) = 0
    BY NothingDue
  <2>2. vmmFree + 0 = Cardinality(Unmapped) + 0
    BY <2>1 DEF Counted
  <2>3. vmmFree \in Int /\ Cardinality(Unmapped) \in Nat
    BY UnmappedFinite DEF LayoutInv, VirtTypeOK
  <2>4. QED
    BY <2>2, <2>3
<1>3. QED
  BY <1>1, <1>2, LayoutInvariant, PTL
=============================================================================
