--------------------------- MODULE FreeRaceProofs ---------------------------
(***************************************************************************)
(* The page allocator, for every size of memory, every position of the     *)
(* first usable page and any number of processes: first with every call    *)
(* one step (PhysMem), where the conjunction Inv of the properties its run *)
(* checks is inductive as it stands: the window invariant needs the        *)
(* accounting (a freed block lies in Usable), and the count needs both.    *)
(* Then cut anywhere by the timer (FreeRace): what the bitmap says, what   *)
(* the count is off by, and when the window loses a page.                  *)
(***************************************************************************)
EXTENDS FreeRace, FiniteSetTheorems, TLAPS

(* The bitmap covers every page of memory. *)
LEMMA BitmapCovers ==
    /\ BitmapBits \in Nat
    /\ MemPages <= BitmapBits
    /\ Usable \subseteq Bitmap
BY PhysMemAssumption DEF BitmapBits, Bitmap, Usable

(* A block of count pages has count pages. *)
LEMMA BlockSize ==
    ASSUME NEW p \in Int, NEW count \in Nat \ {0}
    PROVE  IsFiniteSet(Block(p, count)) /\ Cardinality(Block(p, count)) = count
BY FS_Interval, p + count - 1 \in Int, ~(p > p + count - 1), (p + count - 1) - p + 1 = count DEF Block

(* Taking a subset out of a finite set takes its size off the cardinality. *)
LEMMA TakeOut ==
    ASSUME NEW S, IsFiniteSet(S), NEW B, B \subseteq S
    PROVE  /\ IsFiniteSet(S \ B)
           /\ Cardinality(S \ B) = Cardinality(S) - Cardinality(B)
<1>1. S \cap B = B
  OBVIOUS
<1>2. QED
  BY <1>1, FS_Difference

(* Adding a disjoint finite set adds its size to the cardinality. *)
LEMMA PutIn ==
    ASSUME NEW S, IsFiniteSet(S), NEW B, IsFiniteSet(B), S \cap B = {}
    PROVE  /\ IsFiniteSet(S \cup B)
           /\ Cardinality(S \cup B) = Cardinality(S) + Cardinality(B)
<1>1. Cardinality(S) \in Nat /\ Cardinality(B) \in Nat
  BY FS_CardinalityType
<1>2. Cardinality(S \cup B) = Cardinality(S) + Cardinality(B) - Cardinality({})
  BY FS_Union
<1>3. QED
  BY <1>1, <1>2, FS_EmptySet, FS_Union

(* The clear bits are those of the usable pages nobody holds. *)
LEMMA FreeShape ==
    ASSUME Accounted
    PROVE  /\ Free = Usable \ held
           /\ IsFiniteSet(Free)
           /\ Cardinality(Free) \in Nat
<1>1. Free = Usable \ held
  BY BitmapCovers DEF Accounted, Free
<1>2. IsFiniteSet(Usable)
  BY PhysMemAssumption, FS_Interval DEF Usable
<1>3. IsFiniteSet(Free)
  BY <1>1, <1>2, FS_Difference
<1>4. QED
  BY <1>1, <1>3, FS_CardinalityType

(* An exact count is a natural number, before a step and after it. *)
LEMMA CountNat ==
    ASSUME Accounted, CountExact
    PROVE  freeCount \in Nat
BY FreeShape DEF CountExact

LEMMA CountNatNext == Accounted' /\ CountExact' => freeCount' \in Nat
<1>1. Accounted /\ CountExact => freeCount \in Nat
  BY CountNat
<1>2. (Accounted /\ CountExact => freeCount \in Nat)'
  BY <1>1, PTL
<1>3. QED
  BY <1>2

(* A block taken from the free pages or returned to them keeps the count exact. *)
LEMMA CountAfterTake ==
    ASSUME Accounted, CountExact, NEW B, B \subseteq Free,
           used' = used \cup B, freeCount' = freeCount - Cardinality(B)
    PROVE  CountExact'
<1>1. Free' = Free \ B
  BY DEF Free
<1>2. QED
  BY <1>1, FreeShape, TakeOut DEF CountExact

LEMMA CountAfterGive ==
    ASSUME Accounted, CountExact, NEW B, IsFiniteSet(B), B \subseteq held,
           used' = used \ B, freeCount' = freeCount + Cardinality(B)
    PROVE  CountExact'
<1>1. B \subseteq Bitmap /\ B \cap Free = {}
  BY BitmapCovers, FreeShape DEF Accounted
<1>2. Free' = Free \cup B
  BY <1>1 DEF Free
<1>3. Free \cap B = {}
  BY <1>1
<1>4. QED
  BY <1>2, <1>3, FreeShape, PutIn DEF CountExact

-----------------------------------------------------------------------------
LEMMA InvInit == PmmInit => Inv
<1> SUFFICES ASSUME PmmInit PROVE Inv
  OBVIOUS
<1> USE DEF PmmInit
<1>1. Accounted
  BY DEF Accounted
<1>2. Free = Usable
  BY <1>1, FreeShape
<1>3. CountExact
  BY <1>2 DEF CountExact
<1>4. FreeInWindow
  BY <1>2, PhysMemAssumption DEF FreeInWindow, Usable
<1>5. freeCount \in Nat
  BY <1>1, <1>3, CountNat
<1>6. TypeOK
  BY <1>5, PhysMemAssumption DEF TypeOK
<1>7. QED
  BY <1>1, <1>3, <1>4, <1>6 DEF Inv

LEMMA InvNext == Inv /\ [Next]_vars => Inv'
<1> SUFFICES ASSUME Inv, [Next]_vars PROVE Inv'
  OBVIOUS
<1> USE PhysMemAssumption
<1>1. Free = Usable \ held
  BY FreeShape DEF Inv
<1>2. CASE AllocPage
  <2>1. PICK p \in TailFit :
          /\ \A q \in TailFit : q <= p
          /\ used' = used \cup {p}
          /\ freeCount' = freeCount - 1
          /\ held' = held \cup {p}
          /\ tail' = p - 1
          /\ head' = head
    BY <1>2 DEF AllocPage
  <2>2. p \in Free /\ p \in Usable /\ head < p /\ p <= tail
    BY <1>1 DEF TailFit
  <2>3. Accounted'
    BY <2>1, <2>2 DEF Inv, Accounted
  <2>4. FreeInWindow'
    <3>1. ASSUME NEW q \in Free, q # p PROVE head <= q /\ q <= p - 1
      <4>1. q \in Int /\ p \in Int /\ head <= q /\ q <= tail
        BY <1>1, <2>2 DEF Inv, FreeInWindow, Usable
      <4>2. q <= p
        <5>1. CASE head < q
          BY <2>1, <3>1, <4>1, <5>1 DEF TailFit
        <5>2. CASE ~(head < q)
          BY <2>2, <4>1, <5>2 DEF Inv, TypeOK
        <5>3. QED
          BY <5>1, <5>2
      <4>3. QED
        BY <3>1, <4>1, <4>2
    <3>2. Free' = Free \ {p}
      BY <2>1 DEF Free
    <3>3. QED
      BY <2>1, <3>1, <3>2 DEF FreeInWindow
  <2>5. CountExact'
    <3>1. Cardinality({p}) = 1
      BY FS_Singleton
    <3>2. freeCount' = freeCount - Cardinality({p}) /\ {p} \subseteq Free
      BY <2>1, <2>2, <3>1
    <3>3. QED
      BY <2>1, <3>2, CountAfterTake DEF Inv
  <2>6. TypeOK'
    <3>1. freeCount' \in Nat
      BY <2>3, <2>5, CountNatNext
    <3>2. QED
      BY <2>1, <2>2, <3>1, BitmapCovers DEF Inv, TypeOK, Usable
  <2>7. QED
    BY <2>3, <2>4, <2>5, <2>6 DEF Inv
<1>3. CASE AllocPageFail
  <2>1. Free' = Free
    BY <1>3 DEF AllocPageFail, Free
  <2>2. FreeInWindow'
    <3>1. ASSUME NEW q \in Free PROVE q = head
      <4>1. q \in Int /\ head <= q /\ q <= tail
        BY <1>1 DEF Inv, FreeInWindow, Usable
      <4>2. ~(head < q)
        BY <1>3, <4>1 DEF AllocPageFail, TailFit
      <4>3. QED
        BY <4>1, <4>2 DEF Inv, TypeOK
    <3>2. head' = head /\ (tail' = head \/ tail' = tail)
      BY <1>3 DEF AllocPageFail
    <3>3. QED
      BY <2>1, <3>1, <3>2 DEF Inv, TypeOK, FreeInWindow
  <2>3. Accounted' /\ CountExact'
    BY <1>3, <2>1 DEF AllocPageFail, Inv, Accounted, CountExact
  <2>4. TypeOK'
    BY <1>3 DEF AllocPageFail, Inv, TypeOK
  <2>5. QED
    BY <2>2, <2>3, <2>4 DEF Inv
<1>4. ASSUME NEW count \in Counts, UpAllocPage(count) PROVE Inv'
  <2>1. PICK p \in HeadFit(count) :
          /\ used' = used \cup Block(p, count)
          /\ freeCount' = freeCount - count
          /\ held' = held \cup Block(p, count)
          /\ head' = IF p = head THEN head + count ELSE head
          /\ tail' = tail
    BY <1>4 DEF UpAllocPage
  <2>2. /\ p \in Int /\ head <= p /\ count \in Nat \ {0}
        /\ Block(p, count) \subseteq Free
        /\ Block(p, count) \subseteq Usable
    BY <1>1 DEF HeadFit
  <2>3. Accounted'
    BY <2>1, <2>2 DEF Inv, Accounted
  <2>4. FreeInWindow'
    <3>1. Free' = Free \ Block(p, count)
      BY <2>1 DEF Free
    <3>2. ASSUME NEW q \in Free \ Block(p, count) PROVE head' <= q
      <4>1. q \in Int /\ head \in Int /\ head <= q
        BY <1>1 DEF Inv, TypeOK, FreeInWindow, Usable
      <4>2. q < p \/ p + count <= q
        BY <2>2, <3>2, <4>1 DEF Block
      <4>3. QED
        BY <2>1, <2>2, <4>1, <4>2
    <3>3. QED
      BY <2>1, <3>1, <3>2 DEF Inv, FreeInWindow
  <2>5. CountExact'
    <3>1. freeCount' = freeCount - Cardinality(Block(p, count))
      BY <2>1, <2>2, BlockSize
    <3>2. QED
      BY <2>1, <2>2, <3>1, CountAfterTake DEF Inv
  <2>6. TypeOK'
    <3>1. freeCount' \in Nat
      BY <2>3, <2>5, CountNatNext
    <3>2. head' \in BasePage .. MemPages
      <4>1. CASE p = head
        <5>1. p + count - 1 \in Block(p, count)
          BY <2>2 DEF Block
        <5>2. p + count - 1 \in Usable
          BY <2>2, <5>1
        <5>3. QED
          BY <2>1, <2>2, <4>1, <5>2 DEF Inv, TypeOK, Usable
      <4>2. CASE p # head
        BY <2>1, <4>2 DEF Inv, TypeOK
      <4>3. QED
        BY <4>1, <4>2
    <3>3. QED
      BY <2>1, <2>2, <3>1, <3>2, BitmapCovers DEF Inv, TypeOK
  <2>7. QED
    BY <2>3, <2>4, <2>5, <2>6 DEF Inv
<1>5. ASSUME NEW p \in Usable, NEW count \in Counts, FreePage(p, count) PROVE Inv'
  <2>1. /\ Block(p, count) \subseteq held
        /\ used' = used \ Block(p, count)
        /\ held' = held \ Block(p, count)
        /\ head' = IF p < head THEN p ELSE head
        /\ tail' = IF p + count - 1 > tail THEN p + count - 1 ELSE tail
        /\ freeCount' = freeCount + count
    BY <1>5 DEF FreePage
  <2>2. /\ p \in Int /\ count \in Nat \ {0}
        /\ Block(p, count) \subseteq Usable
    <3>1. p \in Int /\ count \in Nat \ {0}
      BY DEF Usable
    <3>2. Block(p, count) \subseteq Usable
      BY <2>1 DEF Inv, Accounted
    <3>3. QED
      BY <3>1, <3>2
  <2>3. Accounted'
    BY <2>1, <2>2 DEF Inv, Accounted
  <2>4. Free' = Free \cup Block(p, count)
    BY <1>1, <2>1, <2>2, BitmapCovers DEF Free
  <2>5. FreeInWindow'
    <3>1. head' <= head /\ head' <= p /\ tail <= tail' /\ p + count - 1 <= tail'
          /\ head' \in Int /\ tail' \in Int
      BY <2>1, <2>2 DEF Inv, TypeOK
    <3>2. ASSUME NEW q \in Free PROVE head' <= q /\ q <= tail'
      BY <1>1, <3>1 DEF Inv, TypeOK, FreeInWindow, Usable
    <3>3. ASSUME NEW q \in Block(p, count) PROVE head' <= q /\ q <= tail'
      BY <2>2, <3>1 DEF Block
    <3>4. QED
      BY <2>4, <3>2, <3>3 DEF FreeInWindow
  <2>6. CountExact'
    <3>1. IsFiniteSet(Block(p, count)) /\ freeCount' = freeCount + Cardinality(Block(p, count))
      BY <2>1, <2>2, BlockSize
    <3>2. QED
      BY <2>1, <3>1, CountAfterGive DEF Inv
  <2>7. TypeOK'
    <3>1. freeCount' \in Nat
      BY <2>3, <2>6, CountNatNext
    <3>2. p + count - 1 \in BasePage .. MemPages - 1
      <4>1. p + count - 1 \in Block(p, count)
        BY <2>2 DEF Block
      <4>2. QED
        BY <2>2, <4>1 DEF Usable
    <3>3. head' \in BasePage .. MemPages
      BY <2>1 DEF Inv, TypeOK, Usable
    <3>4. tail' \in BasePage .. MemPages - 1
      BY <2>1, <3>2 DEF Inv, TypeOK
    <3>5. used' \subseteq Bitmap /\ held' \subseteq Usable
      BY <2>1 DEF Inv, TypeOK
    <3>6. QED
      BY <3>1, <3>3, <3>4, <3>5 DEF TypeOK
  <2>8. QED
    BY <2>3, <2>5, <2>6, <2>7 DEF Inv
<1>6. CASE UNCHANGED vars
  BY <1>6 DEF vars, Inv, TypeOK, Accounted, FreeInWindow, CountExact, Free
<1>7. QED
  BY <1>2, <1>3, <1>4, <1>5, <1>6 DEF Next, UpAllocPageFail

(* The window, the count and the ownership of pages are right in every      *)
(* reachable state of pmm.c.                                                *)
THEOREM PhysMemInvariant == Spec => []Inv
<1>1. QED
  BY InvInit, InvNext, PTL DEF Spec

(* pmm.c: the set bits are exactly those of reserved and held pages.        *)
THEOREM PagesAccounted == Spec => []Accounted
<1>1. Inv => Accounted
  BY DEF Inv
<1>2. QED
  BY <1>1, PhysMemInvariant, PTL

(* pmm.c: no sequence of allocations and frees leaves a free page outside   *)
(* the window the allocators search.                                        *)
THEOREM WindowComplete == Spec => []FreeInWindow
<1>1. Inv => FreeInWindow
  BY DEF Inv
<1>2. QED
  BY <1>1, PhysMemInvariant, PTL

(* pmm.c: get_pmm_free_count is exact.                                      *)
THEOREM FreeCountExact == Spec => []CountExact
<1>1. Inv => CountExact
  BY DEF Inv
<1>2. QED
  BY <1>1, PhysMemInvariant, PTL

(* pmm.c: a request for one page fails only when at most one page is free.  *)
THEOREM OnePageAlwaysServed == Spec => []OnePageServed
<1>1. Inv => OnePageServed
  <2> SUFFICES ASSUME Inv, NEW p \in Free, NEW q \in Free, p # q
               PROVE  TailFit # {} /\ HeadFit(1) # {}
    BY DEF OnePageServed
  <2>1. Free \subseteq Int
    BY FreeShape, PhysMemAssumption DEF Inv, Usable
  <2>2. head <= p /\ p <= tail /\ head <= q /\ q <= tail
    BY DEF Inv, FreeInWindow
  <2>3. PICK low \in Free, high \in Free : low < high /\ head <= low /\ high <= tail
    BY <2>1, <2>2
  <2>4. high \in TailFit
    BY <2>1, <2>3, PhysMemAssumption DEF TailFit, Inv, TypeOK
  <2>5. low \in HeadFit(1)
    <3>1. Block(low, 1) = {low}
      BY <2>1 DEF Block
    <3>2. low \in head .. tail - 1
      BY <2>1, <2>3, PhysMemAssumption DEF Inv, TypeOK
    <3>3. QED
      BY <3>1, <3>2 DEF HeadFit
  <2>6. QED
    BY <2>4, <2>5
<1>2. QED
  BY <1>1, PhysMemInvariant, PTL

(* Every step of pmm.c is a grant, a return or a stutter of the abstract    *)
(* allocator.                                                               *)
THEOREM Refinement == Spec => ImplementsAllocator
<1> USE DEF Allocator!pageVars
<1>1. PmmInit => Allocator!PagesInit
  BY BitmapCovers DEF PmmInit, Allocator!PagesInit, Free
<1>2. Inv /\ [Next]_vars => [Allocator!PagesNext]_(Allocator!pageVars)
  <2> SUFFICES ASSUME Inv, [Next]_vars
               PROVE  [Allocator!PagesNext]_(Allocator!pageVars)
    OBVIOUS
  <2>1. Free = Usable \ held
    BY FreeShape DEF Inv
  <2>2. CASE AllocPage
    <3>1. PICK p \in Free : used' = used \cup {p} /\ held' = held \cup {p}
      BY <2>2 DEF AllocPage, TailFit
    <3>2. Free' = Free \ {p}
      BY <3>1 DEF Free
    <3>3. QED
      BY <3>1, <3>2 DEF Allocator!PagesNext, Allocator!Grant
  <2>3. CASE AllocPageFail
    BY <2>3 DEF AllocPageFail, Free
  <2>4. ASSUME NEW count \in Counts, UpAllocPage(count)
        PROVE  Allocator!Grant
    <3>1. PICK B \in SUBSET Free : used' = used \cup B /\ held' = held \cup B
      BY <2>4 DEF UpAllocPage, HeadFit
    <3>2. Free' = Free \ B
      BY <3>1 DEF Free
    <3>3. QED
      BY <3>1, <3>2 DEF Allocator!Grant
  <2>5. ASSUME NEW p \in Usable, NEW count \in Counts, FreePage(p, count)
        PROVE  Allocator!Return
    <3>1. PICK B \in SUBSET held : used' = used \ B /\ held' = held \ B
      BY <2>5 DEF FreePage
    <3>2. Free' = Free \cup B
      BY <2>1, <3>1, BitmapCovers DEF Free, Inv, Accounted
    <3>3. QED
      BY <3>1, <3>2 DEF Allocator!Return
  <2>6. CASE UNCHANGED vars
    BY <2>6 DEF vars, Free
  <2>7. QED
    BY <2>2, <2>3, <2>4, <2>5, <2>6 DEF Next, UpAllocPageFail, Allocator!PagesNext
<1>3. QED
  BY <1>1, <1>2, PhysMemInvariant, PTL DEF Spec, ImplementsAllocator, Allocator!PagesSpec

-----------------------------------------------------------------------------
(* The allocator under the timer.                                            *)
FreeSteps == {"clear", "head1", "head2", "tail1", "tail2", "count"}
OpenSteps == {"open2", "test", "skip", "take", "store", "less"}
Quiet == {"run", "mapped", "open1"}

JobType == [at : FreeSteps \cup OpenSteps \cup Quiet, page : Int, count : Int, done : Int, bottom : Int]

(* A free is of a block of usable pages, its bits cleared from the first on; *)
(* an open allocation tests pages above the head it read.                    *)
JobOK(j) ==
    /\ j.at \in FreeSteps =>
        /\ j.count \in Nat \ {0} /\ Block(j.page, j.count) \subseteq Usable
        /\ j.done \in 0 .. j.count
        /\ j.done = j.count <=> j.at # "clear"
    /\ j.at \in OpenSteps => j.bottom \in BasePage .. MemPages
    /\ j.at \in OpenSteps \ {"open2"} => j.bottom < j.page /\ j.page < MemPages

RaceTypeOK ==
    /\ head \in BasePage .. MemPages /\ tail \in BasePage .. MemPages - 1
    /\ freeCount \in Int /\ held \subseteq Usable /\ overlap \in BOOLEAN
    /\ job \in [Procs -> JobType]
    /\ \A p \in Procs : JobOK(job[p])

(* The pages whose bits a free has still to clear are nobody else's, until a *)
(* page has been handed out twice.                                           *)
NotYet(p) == Leaving(p) \ Cleared(p)
BitsInv ==
    /\ BitsTold
    /\ shared = {} =>
        /\ \A p \in Procs : NotYet(p) \cap held = {}
        /\ \A p, q \in Procs : p # q => NotYet(p) \cap NotYet(q) = {}

Owed == UNION {{p} \X Cleared(p) : p \in Procs}
Taken == {p \in Procs : job[p].at \in {"store", "less"}}
CountInv ==
    shared = {} =>
        /\ IsFiniteSet(Owed) /\ IsFiniteSet(Taken)
        /\ freeCount + Cardinality(Owed) = Cardinality(Free) + Cardinality(Taken)

(* As long as nothing overlapped, a free runs against atomic allocations     *)
(* only: it widens the window by what it finds, and what an open allocation  *)
(* passes stays in use.                                                      *)
Alone == \A p, q \in Procs : p # q /\ Freeing(p) => ~Freeing(q) /\ ~Opened(q)
AboveHead(x) == head <= x \/ \E p \in Procs : x \in Leaving(p) /\ job[p].at \in {"clear", "head1", "head2"}
BelowTail(x) == x <= tail \/ \E p \in Procs : x \in Leaving(p) /\ job[p].at # "count"
JobSees(j) ==
    /\ j.at = "head2" => j.page < head
    /\ j.at = "tail2" => j.page + j.count - 1 > tail
    /\ j.at \in {"test", "take"} => \A x \in Free : x <= j.page
    /\ j.at \in {"skip", "store"} => \A x \in Free : x < j.page
WindowInv ==
    ~overlap =>
        /\ Alone
        /\ \A x \in Free : AboveHead(x) /\ BelowTail(x)
        /\ \A p \in Procs : JobSees(job[p])

RInv == RaceTypeOK /\ BitsInv /\ CountInv /\ WindowInv

-----------------------------------------------------------------------------
LEMMA FreePages ==
    ASSUME BitsTold
    PROVE  Free \subseteq Usable /\ IsFiniteSet(Free) /\ Free \subseteq Int
<1>1. Free \subseteq Usable
  BY DEF BitsTold, Free
<1>2. IsFiniteSet(Usable) /\ Usable \subseteq Int
  BY PhysMemAssumption, FS_Interval DEF Usable
<1>3. QED
  BY <1>1, <1>2, FS_Subset

(* A step that changes the job of one process leaves the others' alone.      *)
LeavingOf(j) == IF j.at \in FreeSteps THEN Block(j.page, j.count) ELSE {}
ClearedOf(j) == IF j.at \in FreeSteps THEN Block(j.page, j.done) ELSE {}

LEMMA OneMoves ==
    ASSUME job \in [Procs -> JobType], NEW p \in Procs, NEW j, job' = [job EXCEPT ![p] = j]
    PROVE  /\ job'[p] = j
           /\ \A q \in Procs \ {p} :
               /\ job'[q] = job[q]
               /\ Leaving(q)' = Leaving(q) /\ Cleared(q)' = Cleared(q) /\ NotYet(q)' = NotYet(q)
               /\ Freeing(q)' = Freeing(q) /\ Opened(q)' = Opened(q)
           /\ Leaving(p)' = LeavingOf(j) /\ Cleared(p)' = ClearedOf(j)
           /\ NotYet(p)' = LeavingOf(j) \ ClearedOf(j)
           /\ Freeing(p)' <=> j.at \in FreeSteps
           /\ Opened(p)' <=> j.at \in OpenSteps
<1>1. job'[p] = j /\ \A q \in Procs \ {p} : job'[q] = job[q]
  OBVIOUS
<1>2. QED
  BY <1>1 DEF Leaving, Cleared, NotYet, LeavingOf, ClearedOf, Freeing, Opened, FreeSteps, OpenSteps

(* What a step may write into a job.                                         *)
LEMMA JobTyped ==
    ASSUME NEW r \in JobType, NEW there \in FreeSteps \cup OpenSteps \cup Quiet,
           NEW v \in Int, NEW w \in Int
    PROVE  /\ Run \in JobType
           /\ [r EXCEPT !.at = there] \in JobType
           /\ [r EXCEPT !.done = v, !.at = there] \in JobType
           /\ [r EXCEPT !.page = v, !.at = there] \in JobType
           /\ [r EXCEPT !.bottom = v, !.at = there] \in JobType
           /\ [r EXCEPT !.at = there, !.page = v, !.count = w] \in JobType
<1>1. Run \in JobType
  BY DEF JobType, Run, Quiet
<1>2. [r EXCEPT !.at = there] \in JobType
  BY DEF JobType
<1>3. [r EXCEPT !.done = v, !.at = there] \in JobType
  BY DEF JobType
<1>4. [r EXCEPT !.page = v, !.at = there] \in JobType
  BY DEF JobType
<1>5. [r EXCEPT !.bottom = v, !.at = there] \in JobType
  BY DEF JobType
<1>6. [r EXCEPT !.at = there, !.page = v, !.count = w] \in JobType
  BY DEF JobType
<1>7. QED
  BY <1>1, <1>2, <1>3, <1>4, <1>5, <1>6

LEMMA TypeKept ==
    ASSUME RaceTypeOK, NEW p \in Procs, NEW j \in JobType, JobOK(j), job' = [job EXCEPT ![p] = j],
           head' \in BasePage .. MemPages, tail' \in BasePage .. MemPages - 1,
           freeCount' \in Int, held' \subseteq Usable, overlap' \in BOOLEAN
    PROVE  RaceTypeOK'
BY DEF RaceTypeOK, JobOK

(* Steps that touch neither bits nor count.                                  *)
LEMMA SilentStep ==
    ASSUME RaceTypeOK, BitsInv, CountInv, UNCHANGED <<used, held, freeCount, shared>>,
           NEW p \in Procs, NEW j, job' = [job EXCEPT ![p] = j],
           LeavingOf(j) = Leaving(p), ClearedOf(j) = Cleared(p),
           (j.at \in {"store", "less"}) = (job[p].at \in {"store", "less"})
    PROVE  BitsInv' /\ CountInv'
<1>1. \A q \in Procs : Leaving(q)' = Leaving(q) /\ Cleared(q)' = Cleared(q) /\ NotYet(q)' = NotYet(q)
  BY OneMoves DEF RaceTypeOK, NotYet
<1>2. BitsTold'
  BY <1>1 DEF BitsInv, BitsTold
<1>3. BitsInv'
  BY <1>1, <1>2 DEF BitsInv
<1>4. Owed' = Owed
  BY <1>1 DEF Owed
<1>5. Taken' = Taken
  BY OneMoves DEF RaceTypeOK, Taken
<1>6. Free' = Free
  BY DEF Free
<1>7. QED
  BY <1>3, <1>4, <1>5, <1>6 DEF CountInv

-----------------------------------------------------------------------------
(* An allocation in one step takes free pages and narrows the window over    *)
(* pages in use only.                                                        *)
Granted(B) ==
    /\ B \subseteq Free /\ IsFiniteSet(B)
    /\ used' = used \cup B /\ held' = held \cup B /\ freeCount' = freeCount - Cardinality(B)
    /\ head' \in BasePage .. MemPages /\ tail' \in BasePage .. MemPages - 1
    /\ head <= head' /\ tail' <= tail
    /\ \A x \in Free \ B : (head <= x => head' <= x) /\ (x <= tail => x <= tail')

LEMMA Granting ==
    ASSUME RaceTypeOK, BitsTold,
           AllocPage \/ AllocPageFail \/ UNCHANGED vars \/ \E n \in Nat \ {0} : UpAllocPage(n)
    PROVE  \E B : Granted(B)
<1> USE PhysMemAssumption
<1>1. head \in BasePage .. MemPages /\ tail \in BasePage .. MemPages - 1 /\ freeCount \in Int
  BY DEF RaceTypeOK
<1>2. CASE AllocPage
  <2>1. PICK p \in TailFit :
          /\ \A q \in TailFit : q <= p
          /\ used' = used \cup {p} /\ held' = held \cup {p}
          /\ freeCount' = freeCount - 1 /\ tail' = p - 1 /\ head' = head
    BY <1>2 DEF AllocPage
  <2>2. p \in Free /\ p \in Int /\ head < p /\ p <= tail
    BY FreePages DEF TailFit
  <2>3. ASSUME NEW x \in Free \ {p}, x <= tail PROVE x <= p - 1
    <3>1. x \in Int
      BY FreePages
    <3>2. head < x => x <= p
      BY <2>1, <2>3 DEF TailFit
    <3>3. QED
      BY <1>1, <2>2, <2>3, <3>1, <3>2
  <2>4. IsFiniteSet({p}) /\ Cardinality({p}) = 1
    BY FS_Singleton
  <2>5. Granted({p})
    BY <1>1, <2>1, <2>2, <2>3, <2>4 DEF Granted
  <2>6. QED
    BY <2>5
<1>3. CASE AllocPageFail \/ UNCHANGED vars
  <2>1. /\ UNCHANGED <<used, head, freeCount, held>>
        /\ tail' = tail \/ (TailFit = {} /\ head < tail /\ tail' = head)
    BY <1>3 DEF AllocPageFail, vars
  <2>2. ASSUME NEW x \in Free, x <= tail PROVE x <= tail'
    <3>1. x \in Int
      BY FreePages
    <3>2. TailFit = {} => ~(head < x)
      BY <2>2 DEF TailFit
    <3>3. QED
      BY <1>1, <2>1, <2>2, <3>1, <3>2
  <2>3. IsFiniteSet({}) /\ Cardinality({}) = 0
    BY FS_EmptySet
  <2>4. Granted({})
    BY <1>1, <2>1, <2>2, <2>3 DEF Granted
  <2>5. QED
    BY <2>4
<1>4. ASSUME NEW n \in Nat \ {0}, UpAllocPage(n) PROVE \E B : Granted(B)
  <2>1. PICK p \in HeadFit(n) :
          /\ used' = used \cup Block(p, n) /\ held' = held \cup Block(p, n)
          /\ freeCount' = freeCount - n
          /\ head' = IF p = head THEN head + n ELSE head
          /\ tail' = tail
    BY <1>4 DEF UpAllocPage
  <2>2. p \in Int /\ head <= p /\ Block(p, n) \subseteq Free
    BY <1>1 DEF HeadFit
  <2>3. p + n - 1 \in Usable
    BY <2>2, FreePages DEF Block
  <2>4. ASSUME NEW x \in Free \ Block(p, n), head <= x PROVE head' <= x
    <3>1. x \in Int /\ (x < p \/ p + n <= x)
      BY <2>2, FreePages DEF Block
    <3>2. QED
      BY <1>1, <2>1, <2>2, <2>4, <3>1
  <2>5. head' \in BasePage .. MemPages /\ head <= head'
    BY <1>1, <2>1, <2>2, <2>3 DEF Usable
  <2>6. IsFiniteSet(Block(p, n)) /\ Cardinality(Block(p, n)) = n
    BY <2>2, BlockSize
  <2>7. Granted(Block(p, n))
    BY <1>1, <2>1, <2>2, <2>4, <2>5, <2>6 DEF Granted
  <2>8. QED
    BY <2>7
<1>5. QED
  BY <1>2, <1>3, <1>4

LEMMA GrantKeeps ==
    ASSUME RInv, NEW B, Granted(B), UNCHANGED <<overlap, shared>>,
           NEW p \in Procs, NEW there \in Quiet, job[p].at \in Quiet,
           job' = [job EXCEPT ![p] = [job[p] EXCEPT !.at = there]]
              \/ job' = [job EXCEPT ![p] = [Run EXCEPT !.at = there]]
    PROVE  RInv'
<1>1. job \in [Procs -> JobType] /\ BitsTold /\ B \subseteq Usable
  BY FreePages DEF RInv, RaceTypeOK, BitsInv, Granted
<1>2. PICK j \in JobType : job' = [job EXCEPT ![p] = j] /\ j.at \in Quiet
  <2>1. [job[p] EXCEPT !.at = there] \in JobType /\ [Run EXCEPT !.at = there] \in JobType
    BY <1>1 DEF JobType, Run
  <2>2. [job[p] EXCEPT !.at = there].at = there /\ [Run EXCEPT !.at = there].at = there
    BY <1>1 DEF JobType, Run
  <2>3. QED
    BY <2>1, <2>2
<1>3. /\ job'[p].at \in Quiet /\ job[p].at \in Quiet
      /\ \A q \in Procs \ {p} : job'[q] = job[q]
  BY <1>1, <1>2
<1>4. /\ \A q \in Procs : /\ Leaving(q)' = Leaving(q) /\ Cleared(q)' = Cleared(q)
                          /\ NotYet(q)' = NotYet(q)
                          /\ Freeing(q)' = Freeing(q) /\ Opened(q)' = Opened(q)
  BY <1>3 DEF Leaving, Cleared, NotYet, Freeing, Opened, Quiet
<1>5. Free' = Free \ B /\ B \subseteq Free
  BY DEF Granted, Free
<1>6. RaceTypeOK'
  <2>1. freeCount' \in Int /\ held' \subseteq Usable
    BY <1>1, FS_CardinalityType DEF Granted, RInv, RaceTypeOK
  <2>2. JobOK(j)
    BY <1>2 DEF JobOK, Quiet, FreeSteps, OpenSteps
  <2>3. QED
    BY <1>2, <2>1, <2>2, TypeKept DEF Granted, RInv, RaceTypeOK
<1>7. BitsInv'
  <2>1. BitsTold'
    BY <1>1, <1>4 DEF BitsTold, Granted
  <2>2. \A q \in Procs : NotYet(q) \cap B = {}
    BY <1>1, <1>5 DEF BitsTold, NotYet, Free
  <2>3. QED
    BY <1>4, <2>1, <2>2 DEF BitsInv, RInv, Granted
<1>8. CountInv'
  <2>1. Owed' = Owed
    BY <1>4 DEF Owed
  <2>2. Taken' = Taken
    BY <1>3 DEF Taken, Quiet
  <2>3. IsFiniteSet(Free') /\ Cardinality(Free') = Cardinality(Free) - Cardinality(B)
    BY <1>1, <1>5, FreePages, TakeOut
  <2>4. SUFFICES ASSUME shared = {}
                 PROVE  freeCount' + Cardinality(Owed) = Cardinality(Free') + Cardinality(Taken)
    BY <2>1, <2>2 DEF CountInv, RInv
  <2>5. /\ freeCount + Cardinality(Owed) = Cardinality(Free) + Cardinality(Taken)
        /\ Cardinality(Owed) \in Nat /\ Cardinality(Taken) \in Nat
        /\ Cardinality(Free) \in Nat /\ Cardinality(B) \in Nat
    BY <1>1, <2>4, FreePages, FS_CardinalityType DEF CountInv, RInv, Granted
  <2>6. freeCount' = freeCount - Cardinality(B) /\ freeCount \in Int
    BY DEF Granted, RInv, RaceTypeOK
  <2>7. QED
    BY <2>3, <2>5, <2>6
<1>9. WindowInv'
  <2> SUFFICES ASSUME ~overlap PROVE WindowInv'
    BY DEF WindowInv
  <2>1. Alone'
    BY <1>4 DEF RInv, WindowInv, Alone
  <2>2. ASSUME NEW x \in Free' PROVE (AboveHead(x) /\ BelowTail(x))'
    <3>1. AboveHead(x) /\ BelowTail(x) /\ x \in Free \ B
      BY <1>5, <2>2 DEF RInv, WindowInv
    <3>2. \A q \in Procs : x \in Leaving(q) => job'[q] = job[q]
      BY <1>3 DEF Leaving, Freeing, Quiet
    <3>3. QED
      BY <1>4, <3>1, <3>2 DEF AboveHead, BelowTail, Granted
  <2>3. ASSUME NEW q \in Procs PROVE JobSees(job[q])'
    <3>1. CASE q = p
      BY <1>3, <3>1 DEF JobSees, Quiet
    <3>2. CASE q # p
      <4>1. job'[q] = job[q] /\ JobSees(job[q]) /\ job[q] \in JobType /\ head \in Int /\ tail \in Int
        BY <1>1, <1>3, <3>2 DEF RInv, WindowInv, RaceTypeOK
      <4>2. head' \in Int /\ tail' \in Int /\ head <= head' /\ tail' <= tail
        BY PhysMemAssumption DEF Granted
      <4>3. QED
        BY <1>5, <4>1, <4>2 DEF JobSees, JobType
    <3>3. QED
      BY <3>1, <3>2
  <2>4. QED
    BY <2>1, <2>2, <2>3 DEF WindowInv
<1>10. QED
  BY <1>6, <1>7, <1>8, <1>9 DEF RInv

-----------------------------------------------------------------------------
(* pmm_free_page.                                                            *)
LEMMA EnterKeeps ==
    ASSUME RInv, NEW p \in Procs, FreeEnter(p)
    PROVE  RInv'
<1> USE PhysMemAssumption
<1>1. PICK x \in Usable, n \in Counts :
        /\ Block(x, n) \subseteq held /\ held' = held \ Block(x, n)
        /\ job' = [job EXCEPT ![p] = [Run EXCEPT !.at = "clear", !.page = x, !.count = n]]
  BY DEF FreeEnter
<1> DEFINE j == [Run EXCEPT !.at = "clear", !.page = x, !.count = n]
<1>2. /\ job' = [job EXCEPT ![p] = j] /\ j \in JobType /\ x \in Int /\ n \in Nat \ {0}
      /\ j.at = "clear" /\ j.page = x /\ j.count = n /\ j.done = 0
  <2>1. x \in Int /\ n \in Nat \ {0}
    BY DEF Usable
  <2>2. j.at = "clear" /\ j.page = x /\ j.count = n /\ j.done = 0
    BY DEF Run
  <2>3. j \in JobType
    <3>1. Run \in JobType /\ "clear" \in FreeSteps \cup OpenSteps \cup Quiet
      BY DEF Run, JobType, FreeSteps, Quiet
    <3>2. x \in Int /\ n \in Int
      BY <2>1
    <3>3. QED
      BY <3>1, <3>2, JobTyped
  <2>4. QED
    BY <1>1, <2>1, <2>2, <2>3
<1> HIDE DEF j
<1>3. /\ job[p].at = "run" /\ shared = {} /\ UNCHANGED <<used, head, tail, freeCount, shared>>
      /\ overlap' = (overlap \/ \E q \in Procs \ {p} : Freeing(q) \/ Opened(q))
  BY DEF FreeEnter, At
<1>4. job \in [Procs -> JobType] /\ Block(x, n) \subseteq Usable
  BY <1>1 DEF RInv, RaceTypeOK
<1>5. ~Freeing(p) /\ Leaving(p) = {} /\ Cleared(p) = {} /\ NotYet(p) = {}
  BY <1>3 DEF Freeing, Leaving, Cleared, NotYet
<1>6. /\ Leaving(p)' = Block(x, n) /\ Cleared(p)' = {} /\ NotYet(p)' = Block(x, n)
      /\ job'[p] = j /\ Freeing(p)' /\ ~Opened(p)'
  <2>1. LeavingOf(j) = Block(x, n) /\ ClearedOf(j) = {} /\ j.at = "clear"
    BY <1>2 DEF LeavingOf, ClearedOf, FreeSteps, Block
  <2>2. QED
    <3>1. j.at \in FreeSteps /\ j.at \notin OpenSteps
      BY <2>1 DEF FreeSteps, OpenSteps
    <3>2. /\ job'[p] = j /\ Freeing(p)' /\ ~Opened(p)' /\ Leaving(p)' = LeavingOf(j)
          /\ Cleared(p)' = ClearedOf(j) /\ NotYet(p)' = LeavingOf(j) \ ClearedOf(j)
      BY <1>2, <1>4, <3>1, OneMoves
    <3>3. QED
      BY <2>1, <3>2
<1>7. \A q \in Procs \ {p} : /\ job'[q] = job[q] /\ Leaving(q)' = Leaving(q) /\ Cleared(q)' = Cleared(q)
                             /\ NotYet(q)' = NotYet(q)
                             /\ Freeing(q)' = Freeing(q) /\ Opened(q)' = Opened(q)
  BY <1>2, <1>4, OneMoves
<1>8. RaceTypeOK'
  <2>1. JobOK(j)
    BY <1>2, <1>4 DEF JobOK, OpenSteps
  <2>2. QED
    BY <1>1, <1>2, <1>3, <2>1, TypeKept DEF RInv, RaceTypeOK
<1>9. BitsInv'
  <2>1. \A q \in Procs \ {p} : NotYet(q) \cap Block(x, n) = {}
    BY <1>1, <1>3 DEF RInv, BitsInv
  <2>2. /\ \A q \in Procs : NotYet(q) \subseteq NotYet(q)'
        /\ Block(x, n) \subseteq UNION {NotYet(q)' : q \in Procs}
        /\ \A q \in Procs : NotYet(q)' \subseteq NotYet(q) \cup Block(x, n)
    BY <1>5, <1>6, <1>7
  <2>3. used = (Bitmap \ Usable) \cup held \cup UNION {NotYet(q) : q \in Procs}
    BY DEF RInv, BitsInv, BitsTold, NotYet
  <2>4. used' = (Bitmap \ Usable) \cup held' \cup UNION {NotYet(q)' : q \in Procs}
    BY <1>1, <1>3, <2>2, <2>3
  <2>5. BitsTold'
    BY <2>4 DEF BitsTold, NotYet
  <2>6. \A q \in Procs : NotYet(q)' \cap held' = {}
    BY <1>1, <1>3, <1>6, <1>7 DEF RInv, BitsInv
  <2>7. \A q, r \in Procs : q # r => NotYet(q)' \cap NotYet(r)' = {}
    BY <1>3, <1>6, <1>7, <2>1 DEF RInv, BitsInv
  <2>8. QED
    BY <2>5, <2>6, <2>7 DEF BitsInv
<1>10. CountInv'
  <2>1. Owed' = Owed
    BY <1>5, <1>6, <1>7 DEF Owed
  <2>2. Taken' = Taken
    BY <1>2, <1>3, <1>6, <1>7 DEF Taken
  <2>3. Free' = Free
    BY <1>3 DEF Free
  <2>4. QED
    BY <1>3, <2>1, <2>2, <2>3 DEF RInv, CountInv
<1>11. WindowInv'
  <2> SUFFICES ASSUME ~overlap' PROVE WindowInv'
    BY DEF WindowInv
  <2>1. ~overlap /\ \A q \in Procs \ {p} : ~Freeing(q) /\ ~Opened(q)
    BY <1>3
  <2>2. Alone'
    BY <1>7, <2>1 DEF Alone
  <2>3. ASSUME NEW y \in Free' PROVE (AboveHead(y) /\ BelowTail(y))'
    <3>1. AboveHead(y) /\ BelowTail(y) /\ ~(\E q \in Procs : y \in Leaving(q))
      BY <1>3, <1>5, <2>1, <2>3 DEF RInv, WindowInv, Leaving, Free
    <3>2. QED
      BY <1>3, <3>1 DEF AboveHead, BelowTail
  <2>4. ASSUME NEW q \in Procs PROVE JobSees(job[q])'
    <3>1. CASE q = p
      BY <1>2, <1>6, <3>1 DEF JobSees
    <3>2. CASE q # p
      BY <1>3, <1>7, <2>1, <3>2 DEF RInv, WindowInv, JobSees, Free
    <3>3. QED
      BY <3>1, <3>2
  <2>5. QED
    BY <2>2, <2>3, <2>4 DEF WindowInv
<1>12. QED
  BY <1>8, <1>9, <1>10, <1>11 DEF RInv

LEMMA ClearKeeps ==
    ASSUME RInv, NEW p \in Procs, FreeClear(p)
    PROVE  RInv'
<1> USE PhysMemAssumption
<1> DEFINE x == job[p].page + job[p].done
           there == IF job[p].done + 1 = job[p].count THEN "head1" ELSE "clear"
           j == [job[p] EXCEPT !.done = job[p].done + 1, !.at = there]
<1>1. /\ job[p].at = "clear" /\ shared = {} /\ used' = used \ {x}
      /\ UNCHANGED <<head, tail, freeCount, held, overlap, shared>>
      /\ job' = [job EXCEPT ![p] = j]
  BY DEF FreeClear, At, ghosts
<1>2. job \in [Procs -> JobType] /\ JobOK(job[p]) /\ job[p] \in JobType
  BY DEF RInv, RaceTypeOK
<1>3. /\ job[p].page \in Int /\ job[p].count \in Nat \ {0} /\ job[p].done \in Nat
      /\ job[p].done < job[p].count
      /\ Block(job[p].page, job[p].count) \subseteq Usable
  BY <1>1, <1>2 DEF JobType, JobOK, FreeSteps
<1>4. /\ j \in JobType /\ j.at = there /\ j.done = job[p].done + 1 /\ j.page = job[p].page
      /\ j.count = job[p].count /\ j.bottom = job[p].bottom /\ there \in {"head1", "clear"}
  <2>1. there \in {"head1", "clear"}
    OBVIOUS
  <2> HIDE DEF there
  <2>2. /\ j.at = there /\ j.done = job[p].done + 1 /\ j.page = job[p].page
        /\ j.count = job[p].count /\ j.bottom = job[p].bottom
    BY <1>2 DEF JobType
  <2>3. j \in JobType
    <3>1. job[p].done + 1 \in Int /\ there \in FreeSteps
      BY <1>3, <2>1 DEF FreeSteps
    <3>2. QED
      BY <1>2, <3>1, JobTyped
  <2>4. QED
    BY <2>1, <2>2, <2>3
<1>5. JobOK(j)
  BY <1>3, <1>4 DEF JobOK, FreeSteps, OpenSteps
<1> HIDE DEF j
<1>6. /\ job'[p] = j /\ Freeing(p) /\ Freeing(p)' /\ ~Opened(p)'
      /\ Leaving(p)' = Leaving(p) /\ x \in Leaving(p)
      /\ Cleared(p)' = Cleared(p) \cup {x} /\ x \notin Cleared(p)
      /\ NotYet(p)' = NotYet(p) \ {x} /\ x \in NotYet(p)
  <2>1. /\ Leaving(p) = Block(job[p].page, job[p].count) /\ Freeing(p)
        /\ Cleared(p) = Block(job[p].page, job[p].done)
    BY <1>1 DEF Leaving, Cleared, Freeing
  <2>2. /\ LeavingOf(j) = Block(job[p].page, job[p].count)
        /\ ClearedOf(j) = Block(job[p].page, job[p].done + 1)
    BY <1>4 DEF LeavingOf, ClearedOf, FreeSteps
  <2>3. x \in Block(job[p].page, job[p].count) /\ x \notin Block(job[p].page, job[p].done)
    BY <1>3 DEF Block
  <2>4. Block(job[p].page, job[p].done + 1) = Block(job[p].page, job[p].done) \cup {x}
    BY <1>3 DEF Block
  <2>5. QED
    <3>1. j.at \in FreeSteps /\ j.at \notin OpenSteps
      BY <1>4 DEF FreeSteps, OpenSteps
    <3>2. /\ job'[p] = j /\ Freeing(p)' /\ ~Opened(p)' /\ Leaving(p)' = LeavingOf(j)
          /\ Cleared(p)' = ClearedOf(j) /\ NotYet(p)' = LeavingOf(j) \ ClearedOf(j)
      BY <1>1, <1>2, <3>1, OneMoves
    <3> HIDE DEF x
    <3>3. QED
      BY <2>1, <2>2, <2>3, <2>4, <3>2 DEF NotYet
<1> HIDE DEF x
<1>7. \A q \in Procs \ {p} : /\ job'[q] = job[q] /\ Leaving(q)' = Leaving(q) /\ Cleared(q)' = Cleared(q)
                             /\ NotYet(q)' = NotYet(q)
                             /\ Freeing(q)' = Freeing(q) /\ Opened(q)' = Opened(q)
  BY <1>1, <1>2, OneMoves
<1>8. /\ x \in used /\ x \in Bitmap /\ x \in Usable /\ x \notin held
      /\ \A q \in Procs \ {p} : x \notin NotYet(q)
  <2>1. x \in Usable
    BY <1>2, <1>6, <1>3, <1>1 DEF Leaving
  <2>2. QED
    BY <1>1, <1>6, <2>1, BitmapCovers DEF RInv, BitsInv, BitsTold, NotYet
<1>9. RaceTypeOK'
  BY <1>1, <1>4, <1>5, TypeKept DEF RInv, RaceTypeOK
<1>10. BitsInv'
  <2>1. used = (Bitmap \ Usable) \cup held \cup UNION {NotYet(q) : q \in Procs}
    BY DEF RInv, BitsInv, BitsTold, NotYet
  <2>2. UNION {NotYet(q)' : q \in Procs} = (UNION {NotYet(q) : q \in Procs}) \ {x}
    BY <1>6, <1>7, <1>8
  <2>4. used' = (Bitmap \ Usable) \cup held' \cup UNION {NotYet(q)' : q \in Procs}
    BY <1>1, <1>8, <2>1, <2>2
  <2>5. BitsTold'
    BY <2>4 DEF BitsTold, NotYet
  <2>6. \A q \in Procs : NotYet(q)' \subseteq NotYet(q)
    BY <1>6, <1>7
  <2>7. QED
    BY <1>1, <2>5, <2>6 DEF RInv, BitsInv
<1>11. CountInv'
  <2>1. Owed' = Owed \cup {<<p, x>>} /\ <<p, x>> \notin Owed
    BY <1>6, <1>7 DEF Owed
  <2>2. Taken' = Taken
    BY <1>1, <1>4, <1>6, <1>7 DEF Taken
  <2>3. Free' = Free \cup {x} /\ x \notin Free
    BY <1>1, <1>8 DEF Free
  <2>4. /\ IsFiniteSet(Owed) /\ IsFiniteSet(Taken) /\ IsFiniteSet(Free)
        /\ freeCount + Cardinality(Owed) = Cardinality(Free) + Cardinality(Taken)
    BY <1>1, FreePages DEF RInv, CountInv, BitsInv
  <2>5. /\ IsFiniteSet(Owed') /\ Cardinality(Owed') = Cardinality(Owed) + 1
        /\ Cardinality(Free') = Cardinality(Free) + 1
    BY <2>1, <2>3, <2>4, FS_AddElement
  <2>6. /\ Cardinality(Owed) \in Nat /\ Cardinality(Free) \in Nat /\ Cardinality(Taken) \in Nat
        /\ freeCount \in Int
    BY <2>4, FS_CardinalityType DEF RInv, RaceTypeOK
  <2>7. freeCount' + Cardinality(Owed') = Cardinality(Free') + Cardinality(Taken)
    BY <1>1, <2>4, <2>5, <2>6
  <2>8. QED
    BY <2>2, <2>4, <2>5, <2>7 DEF CountInv
<1>12. WindowInv'
  <2> SUFFICES ASSUME ~overlap PROVE WindowInv'
    BY <1>1 DEF WindowInv
  <2>1. Alone' /\ \A q \in Procs \ {p} : ~Freeing(q) /\ ~Opened(q)
    BY <1>6, <1>7 DEF RInv, WindowInv, Alone
  <2>2. ASSUME NEW y \in Free' PROVE (AboveHead(y) /\ BelowTail(y))'
    <3>1. y \in Free \/ y = x
      BY <1>1, <2>2 DEF Free
    <3>2. CASE y = x
      BY <1>4, <1>6, <3>2 DEF AboveHead, BelowTail
    <3>3. CASE y \in Free
      <4>1. AboveHead(y) /\ BelowTail(y)
        BY <3>3 DEF RInv, WindowInv
      <4>2. QED
        BY <1>1, <1>4, <1>6, <1>7, <4>1 DEF AboveHead, BelowTail
    <3>4. QED
      BY <3>1, <3>2, <3>3
  <2>3. ASSUME NEW q \in Procs PROVE JobSees(job[q])'
    <3>1. CASE q = p
      BY <1>4, <1>6, <3>1 DEF JobSees
    <3>2. CASE q # p
      BY <1>1, <1>7, <2>1, <3>2 DEF RInv, WindowInv, JobSees, Freeing, Opened
    <3>3. QED
      BY <3>1, <3>2
  <2>4. QED
    BY <2>1, <2>2, <2>3 DEF WindowInv
<1>13. QED
  BY <1>9, <1>10, <1>11, <1>12 DEF RInv

(* A process that frees while nothing overlaps is the only one that does,    *)
(* and the only one that may hide a free page from the window.               *)
LEMMA OnlyFree ==
    ASSUME RInv, ~overlap, NEW p \in Procs, Freeing(p)
    PROVE  /\ \A q \in Procs \ {p} : ~Freeing(q) /\ ~Opened(q)
           /\ JobSees(job[p])
           /\ \A y \in Free :
               /\ head <= y \/ (y \in Leaving(p) /\ job[p].at \in {"clear", "head1", "head2"})
               /\ y <= tail \/ (y \in Leaving(p) /\ job[p].at # "count")
<1>1. \A q \in Procs \ {p} : ~Freeing(q) /\ ~Opened(q) /\ Leaving(q) = {}
  BY DEF RInv, WindowInv, Alone, Leaving
<1>2. \A y \in Free : AboveHead(y) /\ BelowTail(y)
  BY DEF RInv, WindowInv
<1>3. QED
  BY <1>1, <1>2 DEF RInv, WindowInv, AboveHead, BelowTail

LEMMA FreeMoves ==
    ASSUME RInv, NEW p \in Procs, NEW there \in {"head2", "tail1", "tail2", "count"},
           job[p].at \in {"head1", "head2", "tail1", "tail2"}, Goto(p, there),
           UNCHANGED <<used, freeCount, held, overlap, shared>>,
           head' \in BasePage .. MemPages, tail' \in BasePage .. MemPages - 1,
           ~overlap =>
               /\ there = "head2" => job[p].page < head'
               /\ there = "tail2" => LastPage(p) > tail'
               /\ \A y \in Free : /\ head' <= y \/ (y \in Leaving(p) /\ there = "head2")
                                  /\ y <= tail' \/ (y \in Leaving(p) /\ there # "count")
    PROVE  RInv'
<1> DEFINE j == [job[p] EXCEPT !.at = there]
<1>1. job \in [Procs -> JobType] /\ JobOK(job[p]) /\ job[p] \in JobType /\ Freeing(p)
  BY DEF RInv, RaceTypeOK, Freeing
<1>2. /\ j.at = there /\ j.done = job[p].done /\ j.page = job[p].page /\ j.count = job[p].count
      /\ j.bottom = job[p].bottom /\ job' = [job EXCEPT ![p] = j]
  BY <1>1 DEF JobType, Goto
<1>3. j \in JobType /\ j.at \in FreeSteps /\ j.at \notin OpenSteps
  <2>1. there \in FreeSteps \cup OpenSteps \cup Quiet
    BY DEF FreeSteps
  <2>2. j \in JobType
    BY <1>1, <2>1, 0 \in Int, JobTyped
  <2> HIDE DEF j
  <2>3. QED
    BY <1>2, <2>2 DEF FreeSteps, OpenSteps
<1> HIDE DEF j
<1>4. JobOK(j) /\ LeavingOf(j) = Leaving(p) /\ ClearedOf(j) = Cleared(p)
  BY <1>1, <1>2, <1>3 DEF JobOK, FreeSteps, OpenSteps, LeavingOf, ClearedOf, Leaving, Cleared
<1>5. RaceTypeOK'
  BY <1>2, <1>3, <1>4, TypeKept DEF RInv, RaceTypeOK
<1>6. BitsInv' /\ CountInv'
  <2>1. (j.at \in {"store", "less"}) = (job[p].at \in {"store", "less"})
    BY <1>2
  <2>2. QED
    BY <1>2, <1>4, <2>1, SilentStep DEF RInv
<1>7. WindowInv'
  <2> SUFFICES ASSUME ~overlap PROVE WindowInv'
    BY DEF WindowInv
  <2>1. \A q \in Procs \ {p} : ~Freeing(q) /\ ~Opened(q)
    BY <1>1, OnlyFree
  <2>2. /\ \A q \in Procs \ {p} : ~Freeing(q)' /\ ~Opened(q)' /\ job'[q] = job[q]
        /\ job'[p] = j /\ Leaving(p)' = Leaving(p) /\ ~Opened(p)'
    BY <1>1, <1>2, <1>3, <1>4, <2>1, OneMoves
  <2>3. Alone'
    BY <2>2 DEF Alone
  <2>4. ASSUME NEW y \in Free' PROVE (AboveHead(y) /\ BelowTail(y))'
    <3>1. y \in Free
      BY DEF Free
    <3>2. QED
      BY <1>2, <2>2, <3>1 DEF AboveHead, BelowTail
  <2>5. ASSUME NEW q \in Procs PROVE JobSees(job[q])'
    <3>1. CASE q = p
      BY <1>2, <2>2, <3>1 DEF JobSees, LastPage
    <3>2. CASE q # p
      BY <2>2, <3>2 DEF JobSees, Freeing, Opened
    <3>3. QED
      BY <3>1, <3>2
  <2>6. QED
    BY <2>3, <2>4, <2>5 DEF WindowInv
<1>8. QED
  BY <1>5, <1>6, <1>7 DEF RInv

LEMMA TestsKeep ==
    ASSUME RInv, NEW p \in Procs,
           FreeTestHead(p) \/ FreeSetHead(p) \/ FreeTestTail(p) \/ FreeSetTail(p)
    PROVE  RInv'
<1>1. /\ head \in BasePage .. MemPages /\ tail \in BasePage .. MemPages - 1 /\ head \in Int /\ tail \in Int
      /\ job[p] \in JobType /\ JobOK(job[p])
  BY PhysMemAssumption DEF RInv, RaceTypeOK
<1>2. Freeing(p) /\ Leaving(p) = Block(job[p].page, job[p].count)
  BY DEF FreeTestHead, FreeSetHead, FreeTestTail, FreeSetTail, At, Freeing, Leaving
<1>3. /\ job[p].page \in Int /\ job[p].count \in Nat \ {0} /\ LastPage(p) \in Int
      /\ job[p].page \in Usable /\ LastPage(p) \in Usable
      /\ \A y \in Leaving(p) : y \in Int /\ job[p].page <= y /\ y <= LastPage(p)
  <2>1. job[p].page \in Int /\ job[p].count \in Nat \ {0} /\ Leaving(p) \subseteq Usable
    BY <1>1, <1>2 DEF JobType, JobOK, Freeing, FreeSteps
  <2>2. job[p].page \in Leaving(p) /\ LastPage(p) \in Leaving(p)
    BY <1>2, <2>1 DEF Block, LastPage
  <2>3. QED
    BY <1>2, <2>1, <2>2 DEF Block, LastPage
<1>4. Free \subseteq Int
  BY FreePages DEF RInv, BitsInv
<1>5. CASE FreeTestHead(p)
  <2>1. /\ job[p].at = "head1" /\ UNCHANGED <<used, head, tail, freeCount, held, overlap, shared>>
        /\ Goto(p, IF job[p].page < head THEN "head2" ELSE "tail1")
    BY <1>5 DEF FreeTestHead, At, vars, ghosts
  <2>2. CASE job[p].page < head
    BY <1>1, <1>2, <2>1, <2>2, OnlyFree, FreeMoves
  <2>3. CASE ~(job[p].page < head)
    BY <1>1, <1>2, <1>3, <2>1, <2>3, OnlyFree, FreeMoves
  <2>4. QED
    BY <2>2, <2>3
<1>6. CASE FreeSetHead(p)
  <2>1. /\ job[p].at = "head2" /\ UNCHANGED <<used, tail, freeCount, held, overlap, shared>>
        /\ Goto(p, "tail1") /\ head' = job[p].page
    BY <1>6 DEF FreeSetHead, At, ghosts
  <2>2. head' \in BasePage .. MemPages
    BY <1>3, <2>1, PhysMemAssumption DEF Usable
  <2>3. ASSUME ~overlap, NEW y \in Free
        PROVE  head' <= y /\ (y <= tail' \/ y \in Leaving(p))
    <3>1. job[p].page < head
      BY <1>2, <2>1, <2>3, OnlyFree DEF JobSees
    <3>2. (head <= y \/ y \in Leaving(p)) /\ (y <= tail \/ y \in Leaving(p))
      BY <1>2, <2>3, OnlyFree
    <3>3. QED
      BY <1>1, <1>3, <1>4, <2>1, <2>3, <3>1, <3>2
  <2>4. QED
    BY <1>1, <2>1, <2>2, <2>3, FreeMoves
<1>7. CASE FreeTestTail(p)
  <2>1. /\ job[p].at = "tail1" /\ UNCHANGED <<used, head, tail, freeCount, held, overlap, shared>>
        /\ Goto(p, IF LastPage(p) > tail THEN "tail2" ELSE "count")
    BY <1>7 DEF FreeTestTail, At, vars, ghosts
  <2>2. CASE LastPage(p) > tail
    BY <1>1, <1>2, <2>1, <2>2, OnlyFree, FreeMoves
  <2>3. CASE ~(LastPage(p) > tail)
    BY <1>1, <1>2, <1>3, <2>1, <2>3, OnlyFree, FreeMoves
  <2>4. QED
    BY <2>2, <2>3
<1>8. CASE FreeSetTail(p)
  <2>1. /\ job[p].at = "tail2" /\ UNCHANGED <<used, head, freeCount, held, overlap, shared>>
        /\ Goto(p, "count") /\ tail' = LastPage(p)
    BY <1>8 DEF FreeSetTail, At, ghosts
  <2>2. tail' \in BasePage .. MemPages - 1
    BY <1>3, <2>1 DEF Usable
  <2>3. ASSUME ~overlap, NEW y \in Free
        PROVE  head' <= y /\ y <= tail'
    <3>1. LastPage(p) > tail
      BY <1>2, <2>1, <2>3, OnlyFree DEF JobSees, LastPage
    <3>2. head <= y /\ (y <= tail \/ y \in Leaving(p))
      BY <1>2, <2>1, <2>3, OnlyFree
    <3>3. QED
      BY <1>1, <1>3, <1>4, <2>1, <2>3, <3>1, <3>2
  <2>4. QED
    BY <1>1, <2>1, <2>2, <2>3, FreeMoves
<1>9. QED
  BY <1>5, <1>6, <1>7, <1>8

(* pmm_free_page is done: what it owed the count is paid.                    *)
LEMMA AddKeeps ==
    ASSUME RInv, NEW p \in Procs, FreeAdd(p)
    PROVE  RInv'
<1>1. /\ job[p].at = "count" /\ shared = {} /\ freeCount' = freeCount + job[p].count
      /\ UNCHANGED <<used, head, tail, held, overlap, shared>> /\ job' = [job EXCEPT ![p] = Run]
  BY DEF FreeAdd, At, Return, ghosts
<1>2. job \in [Procs -> JobType] /\ JobOK(job[p]) /\ job[p] \in JobType /\ Freeing(p)
  BY <1>1 DEF RInv, RaceTypeOK, Freeing
<1>3. /\ Run \in JobType /\ Run.at \notin FreeSteps /\ Run.at \notin OpenSteps
      /\ Run.at \in Quiet
  BY DEF Run, JobType, Quiet, FreeSteps, OpenSteps
<1>4. /\ job[p].count \in Nat \ {0} /\ job[p].page \in Int
      /\ Cleared(p) = Block(job[p].page, job[p].count) /\ Leaving(p) = Cleared(p)
  BY <1>1, <1>2 DEF JobOK, JobType, Cleared, Leaving, FreeSteps
<1>5. /\ job'[p] = Run /\ Leaving(p)' = {} /\ Cleared(p)' = {} /\ NotYet(p)' = {}
      /\ ~Freeing(p)' /\ ~Opened(p)' /\ NotYet(p) = {}
      /\ \A q \in Procs \ {p} : /\ job'[q] = job[q] /\ Leaving(q)' = Leaving(q) /\ Cleared(q)' = Cleared(q)
                                /\ NotYet(q)' = NotYet(q)
                                /\ Freeing(q)' = Freeing(q) /\ Opened(q)' = Opened(q)
  <2>1. LeavingOf(Run) = {} /\ ClearedOf(Run) = {}
    BY <1>3 DEF LeavingOf, ClearedOf
  <2>2. NotYet(p) = {}
    BY <1>4 DEF NotYet
  <2>3. QED
    BY <1>1, <1>2, <1>3, <2>1, <2>2, OneMoves
<1>6. RaceTypeOK'
  <2>1. JobOK(Run) /\ freeCount' \in Int
    BY <1>1, <1>3, <1>4 DEF JobOK, RInv, RaceTypeOK
  <2>2. QED
    BY <1>1, <1>3, <2>1, TypeKept DEF RInv, RaceTypeOK
<1>7. BitsInv'
  <2>1. \A q \in Procs : NotYet(q)' = NotYet(q)
    BY <1>5
  <2>2. BitsTold'
    BY <1>1, <2>1 DEF RInv, BitsInv, BitsTold, NotYet
  <2>3. QED
    BY <1>1, <2>1, <2>2 DEF RInv, BitsInv
<1>8. CountInv'
  <2>1. Owed' = Owed \ ({p} \X Cleared(p)) /\ {p} \X Cleared(p) \subseteq Owed
    BY <1>5 DEF Owed
  <2>2. Taken' = Taken /\ Free' = Free
    BY <1>1, <1>3, <1>5 DEF Taken, Free, Quiet
  <2>3. /\ IsFiniteSet(Cleared(p)) /\ Cardinality(Cleared(p)) = job[p].count
    BY <1>4, BlockSize
  <2>4. Cardinality({p} \X Cleared(p)) = job[p].count
    <3>1. IsFiniteSet({p}) /\ Cardinality({p}) = 1
      BY FS_Singleton
    <3>2. Cardinality({p} \X Cleared(p)) = 1 * job[p].count
      BY <2>3, <3>1, FS_Product
    <3>3. QED
      BY <1>4, <3>2
  <2>5. /\ IsFiniteSet(Owed) /\ IsFiniteSet(Taken) /\ IsFiniteSet(Free)
        /\ freeCount + Cardinality(Owed) = Cardinality(Free) + Cardinality(Taken)
    BY <1>1, FreePages DEF RInv, CountInv, BitsInv
  <2>6. IsFiniteSet(Owed') /\ Cardinality(Owed') = Cardinality(Owed) - job[p].count
    BY <2>1, <2>4, <2>5, TakeOut
  <2>7. /\ Cardinality(Owed) \in Nat /\ Cardinality(Free) \in Nat /\ Cardinality(Taken) \in Nat
        /\ freeCount \in Int
    BY <2>5, FS_CardinalityType DEF RInv, RaceTypeOK
  <2>8. freeCount' + Cardinality(Owed') = Cardinality(Free) + Cardinality(Taken)
    BY <1>1, <1>4, <2>5, <2>6, <2>7
  <2>9. QED
    BY <2>2, <2>5, <2>6, <2>8 DEF CountInv
<1>9. WindowInv'
  <2> SUFFICES ASSUME ~overlap PROVE WindowInv'
    BY <1>1 DEF WindowInv
  <2>1. /\ \A q \in Procs \ {p} : ~Freeing(q) /\ ~Opened(q)
        /\ \A y \in Free : head <= y /\ y <= tail
    BY <1>1, <1>2, OnlyFree
  <2>2. Alone'
    BY <1>5, <2>1 DEF Alone
  <2>3. \A y \in Free' : (AboveHead(y) /\ BelowTail(y))'
    BY <1>1, <2>1 DEF AboveHead, BelowTail, Free
  <2>4. ASSUME NEW q \in Procs PROVE JobSees(job[q])'
    <3>1. CASE q = p
      BY <1>3, <1>5, <3>1 DEF JobSees, Quiet
    <3>2. CASE q # p
      BY <1>5, <2>1, <3>2 DEF JobSees, Freeing, Opened
    <3>3. QED
      BY <3>1, <3>2
  <2>5. QED
    BY <2>2, <2>3, <2>4 DEF WindowInv
<1>10. QED
  BY <1>6, <1>7, <1>8, <1>9 DEF RInv

-----------------------------------------------------------------------------
(* pmm_alloc_page with interrupts enabled.  While nothing overlaps, no free  *)
(* is under way and every free page lies in the window.                      *)
LEMMA NoFree ==
    ASSUME RInv, ~overlap, NEW p \in Procs, ~Freeing(p), \A q \in Procs \ {p} : ~Freeing(q)
    PROVE  \A y \in Free : head <= y /\ y <= tail
BY DEF RInv, WindowInv, AboveHead, BelowTail, Leaving

LEMMA OpenMoves ==
    ASSUME RInv, NEW p \in Procs, NEW j \in JobType, JobOK(j), job' = [job EXCEPT ![p] = j],
           job[p].at \in {"open1", "open2", "test", "skip", "store"},
           j.at \in {"run", "open2", "test", "skip", "take", "less"},
           j.at = "less" <=> job[p].at = "store",
           UNCHANGED <<used, head, freeCount, held, shared>>,
           tail' \in BasePage .. MemPages - 1, overlap' \in BOOLEAN, overlap => overlap',
           ~overlap' =>
               /\ \A q \in Procs \ {p} : ~Freeing(q)
               /\ \A y \in Free : y <= tail'
               /\ j.at \in {"test", "take"} => \A y \in Free : y <= j.page
               /\ j.at = "skip" => \A y \in Free : y < j.page
    PROVE  RInv'
<1>1. job \in [Procs -> JobType] /\ ~Freeing(p) /\ Free' = Free
  BY DEF RInv, RaceTypeOK, Freeing, Free
<1>2. LeavingOf(j) = Leaving(p) /\ ClearedOf(j) = Cleared(p)
  BY <1>1 DEF LeavingOf, ClearedOf, Leaving, Cleared, FreeSteps
<1>3. RaceTypeOK'
  BY TypeKept DEF RInv, RaceTypeOK
<1>4. BitsInv' /\ CountInv'
  <2>1. (j.at \in {"store", "less"}) = (job[p].at \in {"store", "less"})
    OBVIOUS
  <2>2. QED
    BY <1>2, <2>1, SilentStep DEF RInv
<1>5. WindowInv'
  <2> SUFFICES ASSUME ~overlap' PROVE WindowInv'
    BY DEF WindowInv
  <2>1. /\ job'[p] = j /\ ~Freeing(p)'
        /\ \A q \in Procs \ {p} : job'[q] = job[q] /\ ~Freeing(q)'
    <3>1. j.at \notin FreeSteps
      BY DEF FreeSteps
    <3>2. QED
      BY <1>1, <3>1, OneMoves
  <2>2. Alone'
    BY <2>1 DEF Alone
  <2>3. \A y \in Free' : (AboveHead(y) /\ BelowTail(y))'
    BY <1>1, NoFree DEF AboveHead, BelowTail
  <2>4. ASSUME NEW q \in Procs PROVE JobSees(job[q])'
    <3>1. CASE q = p
      BY <1>1, <2>1, <3>1 DEF JobSees
    <3>2. CASE q # p
      BY <1>1, <2>1, <3>2 DEF RInv, WindowInv, JobSees, Freeing
    <3>3. QED
      BY <3>1, <3>2
  <2>5. QED
    BY <2>2, <2>3, <2>4 DEF WindowInv
<1>6. QED
  BY <1>3, <1>4, <1>5 DEF RInv

LEMMA OpensKeep ==
    ASSUME RInv, NEW p \in Procs,
           OpenReadHead(p) \/ OpenReadTail(p) \/ OpenTest(p) \/ OpenSkip(p) \/ OpenStore(p)
    PROVE  RInv'
<1> USE PhysMemAssumption
<1>1. /\ head \in BasePage .. MemPages /\ tail \in BasePage .. MemPages - 1 /\ head \in Int /\ tail \in Int
      /\ job[p] \in JobType /\ JobOK(job[p]) /\ job \in [Procs -> JobType]
      /\ job[p].page \in Int /\ job[p].bottom \in Int /\ overlap \in BOOLEAN
  BY DEF RInv, RaceTypeOK, JobType
<1>2. /\ job[p].at \in {"open1", "open2", "test", "skip", "store"}
      /\ ~Freeing(p) /\ (Opened(p) \/ job[p].at = "open1")
  BY DEF OpenReadHead, OpenReadTail, OpenTest, OpenSkip, OpenStore, At, Freeing, Opened
<1>3. /\ job[p].at # "open1" => job[p].bottom \in BasePage .. MemPages
      /\ job[p].at \in {"test", "skip", "store"} => job[p].bottom < job[p].page /\ job[p].page < MemPages
  BY <1>1, <1>2 DEF JobOK, OpenSteps
<1>4. ASSUME ~overlap, \A q \in Procs \ {p} : ~Freeing(q)
      PROVE  /\ \A y \in Free : y <= tail
             /\ JobSees(job[p])
  BY <1>2, <1>4, NoFree DEF RInv, WindowInv
<1>5. ASSUME ~overlap, Opened(p), NEW q \in Procs \ {p}
      PROVE  ~Freeing(q)
  BY <1>5 DEF RInv, WindowInv, Alone
<1>6. Free \subseteq Int
  BY FreePages DEF RInv, BitsInv
<1>7. /\ Run \in JobType /\ JobOK(Run) /\ Run.at = "run" /\ 0 \in Int
  BY DEF Run, JobType, Quiet, JobOK, FreeSteps, OpenSteps
<1>8. CASE OpenReadHead(p)
  <2> DEFINE j == [job[p] EXCEPT !.bottom = head, !.at = "open2"]
  <2>1. /\ job[p].at = "open1" /\ UNCHANGED <<used, head, tail, freeCount, held, shared>>
        /\ job' = [job EXCEPT ![p] = j]
        /\ overlap' = (overlap \/ \E q \in Procs \ {p} : Freeing(q))
    BY <1>8 DEF OpenReadHead, At, vars
  <2>2. j \in JobType
    BY <1>1, "open2" \in OpenSteps, JobTyped DEF OpenSteps
  <2>3. j.at = "open2" /\ j.bottom = head
    BY <1>1 DEF JobType
  <2> HIDE DEF j
  <2>4. JobOK(j)
    BY <1>1, <2>3 DEF JobOK, FreeSteps
  <2>5. QED
    BY <1>1, <1>4, <2>1, <2>2, <2>3, <2>4, OpenMoves
<1>9. CASE OpenReadTail(p)
  <2>1. job[p].at = "open2" /\ UNCHANGED <<used, head, tail, freeCount, held, overlap, shared>>
    BY <1>9 DEF OpenReadTail, At, vars, ghosts
  <2>2. Opened(p)
    BY <1>2, <2>1
  <2>3. CASE job[p].bottom < tail
    <3> DEFINE j == [job[p] EXCEPT !.page = tail, !.at = "test"]
    <3>1. job' = [job EXCEPT ![p] = j]
      BY <1>9, <2>3 DEF OpenReadTail
    <3>2. j \in JobType
      BY <1>1, "test" \in OpenSteps, JobTyped DEF OpenSteps
    <3>3. j.at = "test" /\ j.page = tail /\ j.bottom = job[p].bottom
      BY <1>1 DEF JobType
    <3> HIDE DEF j
    <3>4. JobOK(j)
      BY <1>1, <1>3, <2>1, <2>3, <3>3 DEF JobOK, FreeSteps
    <3>5. QED
      BY <1>1, <1>4, <1>5, <2>1, <2>2, <3>1, <3>2, <3>3, <3>4, OpenMoves
  <2>4. CASE ~(job[p].bottom < tail)
    <3>1. job' = [job EXCEPT ![p] = Run]
      BY <1>9, <2>4 DEF OpenReadTail, Return
    <3>2. QED
      BY <1>1, <1>4, <1>5, <1>7, <2>1, <2>2, <3>1, OpenMoves
  <2>5. QED
    BY <2>3, <2>4
<1>10. CASE OpenTest(p)
  <2>1. PICK there \in {"skip", "take"} :
            /\ job[p].at = "test" /\ UNCHANGED <<used, head, tail, freeCount, held, overlap, shared>>
            /\ job' = [job EXCEPT ![p] = [job[p] EXCEPT !.at = there]]
            /\ there = "skip" => job[p].page \in used
    BY <1>10 DEF OpenTest, At, vars, ghosts, Goto
  <2> DEFINE j == [job[p] EXCEPT !.at = there]
  <2>2. j \in JobType
    BY <1>1, <1>7, there \in OpenSteps, JobTyped DEF OpenSteps
  <2>3. j.at = there /\ j.page = job[p].page /\ j.bottom = job[p].bottom
    BY <1>1 DEF JobType
  <2>4. Opened(p)
    BY <1>2, <2>1
  <2>5. job' = [job EXCEPT ![p] = j]
    BY <2>1
  <2> HIDE DEF j
  <2>6. JobOK(j)
    BY <1>3, <2>1, <2>3 DEF JobOK, FreeSteps
  <2>7. ASSUME ~overlap, NEW y \in Free
        PROVE  y <= tail /\ y <= j.page /\ (j.at = "skip" => y < j.page)
    <3>1. y <= tail /\ y <= job[p].page
      BY <1>4, <1>5, <2>1, <2>4, <2>7 DEF JobSees
    <3>2. j.at = "skip" => y # job[p].page
      BY <2>1, <2>3, <2>7 DEF Free
    <3>3. QED
      BY <1>1, <1>6, <2>3, <2>7, <3>1, <3>2
  <2>8. QED
    BY <1>1, <1>5, <2>1, <2>2, <2>3, <2>4, <2>5, <2>6, <2>7, OpenMoves
<1>11. CASE OpenSkip(p)
  <2>1. /\ job[p].at = "skip" /\ UNCHANGED <<used, head, freeCount, held, overlap, shared>>
        /\ tail' = job[p].page - 1 /\ tail' \in Int
    BY <1>1, <1>11 DEF OpenSkip, At, ghosts
  <2>2. Opened(p)
    BY <1>2, <2>1
  <2>3. tail' \in BasePage .. MemPages - 1
    BY <1>1, <1>3, <2>1
  <2>4. ASSUME ~overlap, NEW y \in Free
        PROVE  y <= tail'
    <3>1. y < job[p].page
      BY <1>4, <1>5, <2>1, <2>2, <2>4 DEF JobSees
    <3>2. QED
      BY <1>1, <1>6, <2>1, <2>4, <3>1
  <2>5. CASE tail' > job[p].bottom
    <3> DEFINE j == [job[p] EXCEPT !.page = tail', !.at = "test"]
    <3>1. job' = [job EXCEPT ![p] = j]
      BY <1>11, <2>5 DEF OpenSkip
    <3>2. j \in JobType
      BY <1>1, <2>1, "test" \in OpenSteps, JobTyped DEF OpenSteps
    <3>3. j.at = "test" /\ j.page = tail' /\ j.bottom = job[p].bottom
      BY <1>1 DEF JobType
    <3> HIDE DEF j
    <3>4. JobOK(j)
      BY <1>1, <1>3, <2>1, <2>3, <2>5, <3>3 DEF JobOK, FreeSteps
    <3>5. QED
      BY <1>1, <1>5, <2>1, <2>2, <2>3, <2>4, <3>1, <3>2, <3>3, <3>4, OpenMoves
  <2>6. CASE ~(tail' > job[p].bottom)
    <3>1. job' = [job EXCEPT ![p] = Run]
      BY <1>11, <2>6 DEF OpenSkip, Return
    <3>2. QED
      BY <1>1, <1>5, <1>7, <2>1, <2>2, <2>3, <2>4, <3>1, OpenMoves
  <2>7. QED
    BY <2>5, <2>6
<1>12. CASE OpenStore(p)
  <2> DEFINE j == [job[p] EXCEPT !.at = "less"]
  <2>1. /\ job[p].at = "store" /\ UNCHANGED <<used, head, freeCount, held, overlap, shared>>
        /\ tail' = job[p].page - 1 /\ tail' \in Int /\ job' = [job EXCEPT ![p] = j]
    BY <1>1, <1>12 DEF OpenStore, At, ghosts, Goto
  <2>2. j \in JobType
    BY <1>1, <1>7, "less" \in OpenSteps, JobTyped DEF OpenSteps
  <2>3. j.at = "less" /\ j.page = job[p].page /\ j.bottom = job[p].bottom
    BY <1>1 DEF JobType
  <2>4. Opened(p)
    BY <1>2, <2>1
  <2> HIDE DEF j
  <2>5. JobOK(j)
    BY <1>3, <2>1, <2>3 DEF JobOK, FreeSteps
  <2>6. ASSUME ~overlap, NEW y \in Free
        PROVE  y <= tail'
    <3>1. y < job[p].page
      BY <1>4, <1>5, <2>1, <2>4, <2>6 DEF JobSees
    <3>2. QED
      BY <1>1, <1>6, <2>1, <2>6, <3>1
  <2>7. tail' \in BasePage .. MemPages - 1
    BY <1>1, <1>3, <2>1
  <2>8. QED
    BY <1>1, <1>5, <2>1, <2>2, <2>3, <2>4, <2>5, <2>6, <2>7, OpenMoves
<1>13. QED
  BY <1>8, <1>9, <1>10, <1>11, <1>12

LEMMA TakeKeeps ==
    ASSUME RInv, NEW p \in Procs, OpenTake(p)
    PROVE  RInv'
<1> USE PhysMemAssumption
<1> DEFINE x == job[p].page
           j == [job[p] EXCEPT !.at = "store"]
<1>1. /\ job[p].at = "take" /\ shared = {} /\ shared' = used \cap {x}
      /\ used' = used \cup {x} /\ held' = held \cup {x}
      /\ UNCHANGED <<head, tail, freeCount, overlap>> /\ job' = [job EXCEPT ![p] = j]
  BY DEF OpenTake, At, Goto
<1>2. job \in [Procs -> JobType] /\ JobOK(job[p]) /\ job[p] \in JobType
  BY DEF RInv, RaceTypeOK
<1>3. x \in Usable /\ job[p].bottom < x
  BY <1>1, <1>2 DEF JobOK, JobType, OpenSteps, Usable
<1>4. j.at = "store" /\ j.page = x /\ j.bottom = job[p].bottom
  BY <1>2 DEF JobType
<1>5. j \in JobType
  BY <1>2, 0 \in Int, "store" \in OpenSteps, JobTyped DEF OpenSteps
<1> HIDE DEF j, x
<1>6. JobOK(j)
  BY <1>1, <1>2, <1>4 DEF JobOK, x, FreeSteps, OpenSteps
<1>7. /\ job'[p] = j /\ ~Freeing(p)' /\ ~Freeing(p) /\ Opened(p)
      /\ \A q \in Procs \ {p} : job'[q] = job[q]
      /\ \A q \in Procs : /\ Leaving(q)' = Leaving(q) /\ Cleared(q)' = Cleared(q) /\ NotYet(q)' = NotYet(q)
                          /\ Freeing(q)' = Freeing(q)
  <2>1. j.at \notin FreeSteps /\ LeavingOf(j) = {} /\ ClearedOf(j) = {}
    BY <1>4 DEF FreeSteps, LeavingOf, ClearedOf
  <2>2. ~Freeing(p) /\ Leaving(p) = {} /\ Cleared(p) = {} /\ NotYet(p) = {} /\ Opened(p)
    BY <1>1 DEF Freeing, Leaving, Cleared, NotYet, Opened
  <2>3. /\ job'[p] = j /\ ~Freeing(p)' /\ Leaving(p)' = {} /\ Cleared(p)' = {}
        /\ NotYet(p)' = LeavingOf(j) \ ClearedOf(j)
        /\ \A q \in Procs \ {p} : /\ job'[q] = job[q] /\ Leaving(q)' = Leaving(q) /\ Cleared(q)' = Cleared(q)
                                  /\ NotYet(q)' = NotYet(q) /\ Freeing(q)' = Freeing(q)
    BY <1>1, <1>2, <2>1, OneMoves
  <2>4. Freeing(p)' = Freeing(p)
    BY <2>2, <2>3 DEF Freeing
  <2>5. QED
    BY <2>1, <2>2, <2>3, <2>4
<1>8. RaceTypeOK'
  BY <1>1, <1>3, <1>5, <1>6, TypeKept DEF RInv, RaceTypeOK
<1>9. BitsInv'
  <2>1. BitsTold'
    BY <1>1, <1>7 DEF RInv, BitsInv, BitsTold
  <2>2. CASE x \in used
    BY <1>1, <2>1, <2>2 DEF BitsInv
  <2>3. CASE x \notin used
    <3>1. \A q \in Procs : x \notin NotYet(q)
      BY <2>3 DEF RInv, BitsInv, BitsTold, NotYet
    <3>2. QED
      BY <1>1, <1>7, <2>1, <3>1 DEF RInv, BitsInv
  <2>4. QED
    BY <2>2, <2>3
<1>10. CountInv'
  <2> SUFFICES ASSUME shared' = {} PROVE CountInv'
    BY DEF CountInv
  <2>1. Owed' = Owed
    BY <1>7 DEF Owed
  <2>2. Taken' = Taken \cup {p} /\ p \notin Taken
    BY <1>1, <1>4, <1>7 DEF Taken
  <2>3. Free' = Free \ {x} /\ x \in Free
    BY <1>1, <1>3, BitmapCovers DEF Free
  <2>4. /\ IsFiniteSet(Owed) /\ IsFiniteSet(Taken) /\ IsFiniteSet(Free)
        /\ freeCount + Cardinality(Owed) = Cardinality(Free) + Cardinality(Taken)
    BY <1>1, FreePages DEF RInv, CountInv, BitsInv
  <2>5. /\ IsFiniteSet(Taken') /\ Cardinality(Taken') = Cardinality(Taken) + 1
        /\ Cardinality(Free') = Cardinality(Free) - 1
    BY <2>2, <2>3, <2>4, FS_AddElement, FS_RemoveElement
  <2>6. /\ Cardinality(Owed) \in Nat /\ Cardinality(Free) \in Nat /\ Cardinality(Taken) \in Nat
        /\ freeCount \in Int
    BY <2>4, FS_CardinalityType DEF RInv, RaceTypeOK
  <2>7. freeCount' + Cardinality(Owed) = Cardinality(Free') + Cardinality(Taken')
    BY <1>1, <2>4, <2>5, <2>6
  <2>8. QED
    BY <2>1, <2>4, <2>5, <2>7 DEF CountInv
<1>11. WindowInv'
  <2> SUFFICES ASSUME ~overlap PROVE WindowInv'
    BY <1>1 DEF WindowInv
  <2>1. \A q \in Procs \ {p} : ~Freeing(q)
    BY <1>7 DEF RInv, WindowInv, Alone
  <2>2. Alone'
    BY <1>7, <2>1 DEF Alone
  <2>3. ASSUME NEW y \in Free'
        PROVE  y \in Free /\ head <= y /\ y <= tail /\ y < x
    <3>1. y \in Free /\ y # x /\ y \in Int /\ x \in Int
      BY <1>1, <1>3, <2>3, FreePages DEF Free, RInv, BitsInv, Usable
    <3>2. head <= y /\ y <= tail
      BY <1>7, <2>1, <3>1, NoFree
    <3>3. y <= x
      BY <1>1, <3>1 DEF RInv, WindowInv, JobSees, x
    <3>4. QED
      BY <3>1, <3>2, <3>3
  <2>4. \A y \in Free' : (AboveHead(y) /\ BelowTail(y))'
    BY <1>1, <2>3 DEF AboveHead, BelowTail
  <2>5. ASSUME NEW q \in Procs PROVE JobSees(job[q])'
    <3>1. CASE q = p
      BY <1>4, <1>7, <2>3, <3>1 DEF JobSees
    <3>2. CASE q # p
      BY <1>1, <1>7, <2>3, <3>2 DEF RInv, WindowInv, JobSees
    <3>3. QED
      BY <3>1, <3>2
  <2>6. QED
    BY <2>2, <2>4, <2>5 DEF WindowInv
<1>12. QED
  BY <1>8, <1>9, <1>10, <1>11 DEF RInv

LEMMA LessKeeps ==
    ASSUME RInv, NEW p \in Procs, OpenCount(p)
    PROVE  RInv'
<1>1. PICK there \in {"open1", "run"} :
        /\ job[p].at = "less" /\ shared = {} /\ freeCount' = freeCount - 1
        /\ UNCHANGED <<used, head, tail, held, overlap, shared>>
        /\ job' = [job EXCEPT ![p] = [Run EXCEPT !.at = there]]
  BY DEF OpenCount, At, ghosts
<1> DEFINE j == [Run EXCEPT !.at = there]
<1>2. j \in JobType /\ j.at = there /\ job' = [job EXCEPT ![p] = j]
  BY <1>1 DEF Run, JobType, Quiet
<1> HIDE DEF j
<1>3. job \in [Procs -> JobType] /\ JobOK(j)
  BY <1>2 DEF RInv, RaceTypeOK, JobOK, FreeSteps, OpenSteps
<1>4. /\ job'[p] = j /\ \A q \in Procs \ {p} : job'[q] = job[q]
      /\ \A q \in Procs : /\ Leaving(q)' = Leaving(q) /\ Cleared(q)' = Cleared(q) /\ NotYet(q)' = NotYet(q)
                          /\ Freeing(q)' = Freeing(q)
                          /\ Opened(q)' => Opened(q)
  <2>1. j.at \notin FreeSteps /\ j.at \notin OpenSteps /\ LeavingOf(j) = {} /\ ClearedOf(j) = {}
    BY <1>2 DEF FreeSteps, OpenSteps, LeavingOf, ClearedOf
  <2>2. ~Freeing(p) /\ Leaving(p) = {} /\ Cleared(p) = {} /\ NotYet(p) = {}
    BY <1>1 DEF Freeing, Leaving, Cleared, NotYet
  <2>3. /\ job'[p] = j /\ ~Freeing(p)' /\ ~Opened(p)' /\ Leaving(p)' = {} /\ Cleared(p)' = {}
        /\ NotYet(p)' = LeavingOf(j) \ ClearedOf(j)
        /\ \A q \in Procs \ {p} : /\ job'[q] = job[q] /\ Leaving(q)' = Leaving(q) /\ Cleared(q)' = Cleared(q)
                                  /\ NotYet(q)' = NotYet(q) /\ Freeing(q)' = Freeing(q)
                                  /\ Opened(q)' = Opened(q)
    BY <1>2, <1>3, <2>1, OneMoves
  <2>4. Freeing(p)' = Freeing(p)
    BY <2>2, <2>3 DEF Freeing
  <2>5. QED
    BY <2>1, <2>2, <2>3, <2>4
<1>5. RaceTypeOK'
  <2>1. freeCount' \in Int
    BY <1>1 DEF RInv, RaceTypeOK
  <2>2. QED
    BY <1>1, <1>2, <1>3, <2>1, TypeKept DEF RInv, RaceTypeOK
<1>6. BitsInv'
  <2>1. BitsTold'
    BY <1>1, <1>4 DEF RInv, BitsInv, BitsTold
  <2>2. QED
    BY <1>1, <1>4, <2>1 DEF RInv, BitsInv
<1>7. CountInv'
  <2>1. Owed' = Owed /\ Free' = Free
    BY <1>1, <1>4 DEF Owed, Free
  <2>2. Taken' = Taken \ {p} /\ p \in Taken
    BY <1>1, <1>2, <1>4 DEF Taken
  <2>3. /\ IsFiniteSet(Owed) /\ IsFiniteSet(Taken) /\ IsFiniteSet(Free)
        /\ freeCount + Cardinality(Owed) = Cardinality(Free) + Cardinality(Taken)
    BY <1>1, FreePages DEF RInv, CountInv, BitsInv
  <2>4. IsFiniteSet(Taken') /\ Cardinality(Taken') = Cardinality(Taken) - 1
    BY <2>2, <2>3, FS_RemoveElement
  <2>5. /\ Cardinality(Owed) \in Nat /\ Cardinality(Free) \in Nat /\ Cardinality(Taken) \in Nat
        /\ freeCount \in Int
    BY <2>3, FS_CardinalityType DEF RInv, RaceTypeOK
  <2>6. freeCount' + Cardinality(Owed) = Cardinality(Free) + Cardinality(Taken')
    BY <1>1, <2>3, <2>4, <2>5
  <2>7. QED
    BY <2>1, <2>3, <2>4, <2>6 DEF CountInv
<1>8. WindowInv'
  <2> SUFFICES ASSUME ~overlap PROVE WindowInv'
    BY <1>1 DEF WindowInv
  <2>1. Alone'
    BY <1>4 DEF RInv, WindowInv, Alone
  <2>2. \A y \in Free' : y \in Free /\ AboveHead(y) /\ BelowTail(y)
    BY <1>1 DEF RInv, WindowInv, Free
  <2>3. \A q \in Procs : Leaving(q) # {} => job'[q] = job[q]
    BY <1>1, <1>4 DEF Leaving, Freeing
  <2>4. \A y \in Free' : (AboveHead(y) /\ BelowTail(y))'
    BY <1>1, <1>4, <2>2, <2>3 DEF AboveHead, BelowTail
  <2>5. ASSUME NEW q \in Procs PROVE JobSees(job[q])'
    <3>1. CASE q = p
      BY <1>2, <1>4, <3>1 DEF JobSees
    <3>2. CASE q # p
      BY <1>1, <1>4, <2>2, <3>2 DEF RInv, WindowInv, JobSees
    <3>3. QED
      BY <3>1, <3>2
  <2>6. QED
    BY <2>1, <2>4, <2>5 DEF WindowInv
<1>9. QED
  BY <1>5, <1>6, <1>7, <1>8 DEF RInv

-----------------------------------------------------------------------------
LEMMA RaceStart == RaceInit => RInv
<1> SUFFICES ASSUME RaceInit PROVE RInv
  OBVIOUS
<1> USE PhysMemAssumption DEF RaceInit, PmmInit
<1>1. IsFiniteSet(Usable) /\ Free = Usable
  BY FS_Interval, BitmapCovers DEF Usable, Free
<1>2. \A p \in Procs : /\ job[p] = Run /\ ~Freeing(p) /\ ~Opened(p) /\ Leaving(p) = {} /\ Cleared(p) = {}
                       /\ NotYet(p) = {} /\ job[p].at = "run"
  BY DEF Freeing, Opened, Leaving, Cleared, NotYet, Run
<1>3. RaceTypeOK
  <2>1. Run \in JobType /\ JobOK(Run)
    BY DEF Run, JobType, Quiet, JobOK, FreeSteps, OpenSteps
  <2>2. freeCount \in Int
    BY <1>1, FS_CardinalityType
  <2>3. QED
    <3>1. job \in [Procs -> JobType]
      BY <2>1
    <3>2. head \in BasePage .. MemPages /\ tail \in BasePage .. MemPages - 1
      OBVIOUS
    <3>3. \A p \in Procs : JobOK(job[p])
      BY <1>2, <2>1
    <3>4. QED
      BY <2>2, <3>1, <3>2, <3>3 DEF RaceTypeOK
<1>4. BitsInv
  BY <1>2 DEF BitsInv, BitsTold
<1>5. CountInv
  <2>1. Owed = {} /\ Taken = {}
    BY <1>2 DEF Owed, Taken
  <2>2. QED
    BY <1>1, <2>1, FS_EmptySet, FS_CardinalityType DEF CountInv
<1>6. WindowInv
  BY <1>1, <1>2 DEF WindowInv, Alone, AboveHead, BelowTail, JobSees, Usable
<1>7. QED
  BY <1>3, <1>4, <1>5, <1>6 DEF RInv

LEMMA RaceStep == RInv /\ [RaceNext]_raceVars => RInv'
<1> SUFFICES ASSUME RInv, [RaceNext]_raceVars PROVE RInv'
  OBVIOUS
<1>1. CASE UNCHANGED raceVars
  <2>1. UNCHANGED <<used, head, tail, freeCount, held, job, overlap, shared>>
    BY <1>1 DEF raceVars, vars, ghosts
  <2>2. \A p \in Procs : /\ Leaving(p)' = Leaving(p) /\ Cleared(p)' = Cleared(p)
                         /\ Freeing(p)' = Freeing(p) /\ Opened(p)' = Opened(p)
    BY <2>1 DEF Leaving, Cleared, Freeing, Opened
  <2>3. RaceTypeOK'
    BY <2>1 DEF RInv, RaceTypeOK, JobOK
  <2>4. BitsInv'
    BY <2>1, <2>2 DEF RInv, BitsInv, BitsTold, NotYet
  <2>5. Owed' = Owed /\ Taken' = Taken /\ Free' = Free
    BY <2>1, <2>2 DEF Owed, Taken, Free
  <2>6. CountInv'
    BY <2>1, <2>5 DEF RInv, CountInv
  <2>7. WindowInv'
    BY <2>1, <2>2, <2>5 DEF RInv, WindowInv, Alone, AboveHead, BelowTail, JobSees
  <2>8. QED
    BY <2>3, <2>4, <2>6, <2>7 DEF RInv
<1>2. ASSUME NEW p \in Procs, Allocate(p) \/ MapFirst(p) \/ MapNext(p) \/ MapStop(p) \/ MapTable(p)
      PROVE  RInv'
  <2>1. AllocPage \/ AllocPageFail \/ UNCHANGED vars \/ \E n \in Nat \ {0} : UpAllocPage(n)
    BY <1>2, PhysMemAssumption
    DEF Allocate, MapFirst, MapNext, MapStop, MapTable, UpAllocPageFail
  <2>2. PICK B : Granted(B)
    BY <2>1, Granting DEF RInv, BitsInv
  <2>3. job \in [Procs -> JobType] /\ job[p] \in JobType
    BY DEF RInv, RaceTypeOK
  <2>4. UNCHANGED <<overlap, shared>> /\ job[p].at \in Quiet
    BY <1>2 DEF Allocate, MapFirst, MapNext, MapStop, MapTable, At, ghosts, Quiet
  <2>5. \E there \in Quiet :
            \/ job' = [job EXCEPT ![p] = [job[p] EXCEPT !.at = there]]
            \/ job' = [job EXCEPT ![p] = [Run EXCEPT !.at = there]]
    <3>1. CASE UNCHANGED job
      <4>1. job' = [job EXCEPT ![p] = [job[p] EXCEPT !.at = job[p].at]]
        BY <2>3, <3>1 DEF JobType
      <4>2. QED
        BY <2>4, <4>1
    <3>2. CASE Goto(p, "mapped") \/ Goto(p, "open1")
      BY <3>2 DEF Goto, Quiet
    <3>3. CASE Return(p)
      <4>1. Run = [Run EXCEPT !.at = "run"]
        BY DEF Run
      <4>2. QED
        BY <3>3, <4>1 DEF Return, Quiet
    <3>4. QED
      BY <1>2, <3>1, <3>2, <3>3 DEF Allocate, MapFirst, MapNext, MapStop, MapTable
  <2>6. QED
    BY <2>2, <2>4, <2>5, GrantKeeps
<1>3. CASE Shared
  BY <1>1, <1>3 DEF Shared
<1>4. QED
  BY <1>1, <1>2, <1>3, EnterKeeps, ClearKeeps, TestsKeep, AddKeeps, OpensKeep, TakeKeeps, LessKeeps
  DEF RaceNext

(* pmm.c under the timer: wherever frees and open allocations are cut, this  *)
(* holds.                                                                    *)
THEOREM RaceInvariant == RaceSpec => []RInv
BY RaceStart, RaceStep, PTL DEF RaceSpec

(* pmm_free_page (pmm.c): a set bit is a reserved page's, a held page's, or  *)
(* one a free is about to clear, wherever the timer cuts.                    *)
THEOREM BitsAlwaysTold == RaceSpec => []BitsTold
<1>1. RInv => BitsTold
  BY DEF RInv, BitsInv
<1>2. QED
  BY <1>1, RaceInvariant, PTL

(* pmm_free_page_count (pmm.c): it is off by what the operations in the      *)
(* middle owe it, and by nothing else.                                       *)
THEOREM CountNeverLost == RaceSpec => []CountOwed
<1>1. RInv => CountOwed
  BY DEF RInv, CountInv, CountOwed, Owed, Taken
<1>2. QED
  BY <1>1, RaceInvariant, PTL

(* pmm_head_pos and pmm_tail_pos (pmm.c): a page is lost to the allocators   *)
(* only after a free overlapped a free or an open allocation.                *)
THEOREM LossComesFromOverlap == RaceSpec => []LossNeedsOverlap
<1>1. ASSUME RInv, ~overlap, NEW x \in Free
      PROVE  (head <= x /\ x <= tail) \/ \E p \in Procs : x \in Leaving(p)
  BY <1>1 DEF RInv, WindowInv, AboveHead, BelowTail
<1>2. RInv => LossNeedsOverlap
  BY <1>1 DEF LossNeedsOverlap
<1>3. QED
  BY <1>2, RaceInvariant, PTL
=============================================================================
