------------------------------- MODULE PhysMem -------------------------------
(***************************************************************************)
(* The physical page allocator, kernel/mm/pmm.c: a bitmap with one bit per *)
(* page, a cached count of the clear bits and a window [head, tail] outside *)
(* which the allocators never look.  pmm_alloc_page scans the window down  *)
(* from its tail, pmm_up_alloc_page up from its head.                      *)
(*                                                                         *)
(* Every operation is one step here, as it is for a caller that runs with  *)
(* interrupts disabled or before the timer starts; FreeRace refines        *)
(* pmm_free_page into the steps a timer interrupt can separate.            *)
(***************************************************************************)
EXTENDS Integers, FiniteSets

CONSTANTS MemPages,     \* mem_page_count: the pages of physical memory
          BasePage,     \* mem_base_page: the first page behind kernel and bitmap
          Counts        \* the block sizes callers ask for

ASSUME PhysMemAssumption ==
    /\ MemPages \in Nat /\ BasePage \in Nat
    /\ 0 < BasePage /\ BasePage < MemPages
    /\ Counts \subseteq Nat \ {0}

VARIABLES used,         \* the pages whose bit is set in pmm_bitmap
          head,         \* pmm_head_pos
          tail,         \* pmm_tail_pos
          freeCount,    \* pmm_free_page_count
          held          \* ghost: pages handed to callers and not freed since

vars == <<used, head, tail, freeCount, held>>

-----------------------------------------------------------------------------
(* The bitmap has whole bytes: up to seven of its bits stand for no page.  *)
BitmapBits == 8 * ((MemPages + 7) \div 8)
Bitmap == 0 .. BitmapBits - 1
Usable == BasePage .. MemPages - 1

(* get_bit_mask answers -1, which is not 0, for an index behind the bitmap. *)
Free == Bitmap \ used
Block(p, count) == p .. p + count - 1

PmmInit ==
    /\ used = Bitmap \ Usable
    /\ freeCount = Cardinality(Usable)
    /\ head = BasePage
    /\ tail = MemPages - 1
    /\ held = {}

-----------------------------------------------------------------------------
(* The pages the downward scan of pmm_alloc_page can stop at: its loop      *)
(* condition is head < tail, so it never tests the page at the head.        *)
TailFit == {p \in Free : head < p /\ p <= tail}

AllocPage == \E p \in TailFit :
    /\ \A q \in TailFit : q <= p
    /\ used' = used \cup {p}
    /\ freeCount' = freeCount - 1
    /\ held' = held \cup {p}
    /\ tail' = p - 1
    /\ UNCHANGED head

(* The scan met no clear bit: it has walked the tail down to the head.      *)
AllocPageFail ==
    /\ TailFit = {}
    /\ tail' = IF head < tail THEN head ELSE tail
    /\ UNCHANGED <<used, head, freeCount, held>>

(* First fit from the head.  Jumping behind a set bit (p += i) skips only   *)
(* starts whose block contains that bit.                                    *)
HeadFit(count) == {p \in head .. tail - 1 : Block(p, count) \subseteq Free}

UpAllocPageCountsOne(count) == \E p \in HeadFit(count) :
    /\ \A q \in HeadFit(count) : p <= q
    /\ used' = used \cup Block(p, count)
    /\ freeCount' = freeCount - 1                 \* mutation: one page
    /\ held' = held \cup Block(p, count)
    /\ head' = IF p = head THEN head + count ELSE head
    /\ UNCHANGED tail

UpAllocPageMovesHead(count) == \E p \in HeadFit(count) :
    /\ \A q \in HeadFit(count) : p <= q
    /\ used' = used \cup Block(p, count)
    /\ freeCount' = freeCount - count
    /\ held' = held \cup Block(p, count)
    /\ head' = head + count                        \* mutation: wherever p is
    /\ UNCHANGED tail

UpAllocPage(count) == \E p \in HeadFit(count) :
    /\ \A q \in HeadFit(count) : p <= q
    /\ used' = used \cup Block(p, count)
    /\ freeCount' = freeCount - count
    /\ held' = held \cup Block(p, count)
    /\ head' = IF p = head THEN head + count ELSE head
    /\ UNCHANGED tail

UpAllocPageFail(count) == HeadFit(count) = {} /\ UNCHANGED vars

(* pmm_free_page, called with a run of pages the caller holds.              *)
FreePageOneMore(p, count) ==
    /\ Block(p, count) \subseteq held
    /\ used' = used \ Block(p, count + 1)           \* mutation: i <= count
    /\ held' = held \ Block(p, count)
    /\ head' = IF p < head THEN p ELSE head
    /\ tail' = IF p + count - 1 > tail THEN p + count - 1 ELSE tail
    /\ freeCount' = freeCount + count

FreePage(p, count) ==
    /\ Block(p, count) \subseteq held
    /\ used' = used \ Block(p, count)
    /\ held' = held \ Block(p, count)
    /\ head' = IF p < head THEN p ELSE head
    /\ tail' = IF p + count - 1 > tail THEN p + count - 1 ELSE tail
    /\ freeCount' = freeCount + count

Next ==
    \/ AllocPage
    \/ AllocPageFail
    \/ \E count \in Counts : UpAllocPage(count)
    \/ \E count \in Counts : UpAllocPageFail(count)
    \/ \E p \in Usable, count \in Counts : FreePage(p, count)

Spec == PmmInit /\ [][Next]_vars

-----------------------------------------------------------------------------
(* pmm_head_pos and pmm_tail_pos never leave the usable pages by more than  *)
(* one, and the bitmap is never addressed outside its bytes.                *)
TypeOK ==
    /\ used \subseteq Bitmap
    /\ head \in BasePage .. MemPages
    /\ tail \in BasePage .. MemPages - 1
    /\ freeCount \in Nat
    /\ held \subseteq Usable

(* A page is handed out at most once at a time and the reserved pages       *)
(* (kernel, bitmap, padding bits) never: the set bits are exactly those of  *)
(* the reserved pages and of the pages some caller holds.                   *)
Accounted ==
    /\ used = held \cup (Bitmap \ Usable)
    /\ held \subseteq Usable

(* No free page leaves the window the allocators search, whatever order     *)
(* allocations from either end and frees come in.                           *)
FreeInWindow == \A p \in Free : head <= p /\ p <= tail

(* get_pmm_free_count reports the number of clear bits.                     *)
CountExact == freeCount = Cardinality(Free)

(* A request for one page, from either end, cannot fail while two pages are *)
(* free: only the single page at the head (or tail) can be overlooked.      *)
OnePageServed ==
    \A p, q \in Free : p # q => TailFit # {} /\ HeadFit(1) # {}

Inv == TypeOK /\ Accounted /\ FreeInWindow /\ CountExact

(* Every operation of pmm.c is a grant or a return of the abstract          *)
(* allocator: no page is granted twice, lost or conjured up.                *)
Allocator == INSTANCE PageAllocator WITH Pages <- Usable, free <- Free
ImplementsAllocator == Allocator!PagesSpec
=============================================================================
