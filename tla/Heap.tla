-------------------------------- MODULE Heap --------------------------------
(***************************************************************************)
(* The kernel heap, kernel/mm/alloc.c.  Blocks lie in pages of the kernel  *)
(* window and form one doubly linked list, in the order of allocation,     *)
(* whose last block is pos.  kmalloc cuts a block from the rest of the     *)
(* last block's page or asks the window for pages; kfree gives back the    *)
(* pages of a block that its neighbours in the list do not use.            *)
(*                                                                         *)
(* Both run with interrupts enabled.  An operation that reads the list and *)
(* stores into it is inside a section nothing protects; asking the window  *)
(* for pages and giving it pages lies outside.                             *)
(***************************************************************************)
EXTENDS Integers

CONSTANTS Pages,        \* pages of the window the heap can be given
          PageSize,     \* bytes of a page
          Lengths,      \* lengths of blocks, the header included
          Callers,      \* who calls kmalloc and kfree
          NoBlock       \* NULL

(* A length of (num - 1) * PageSize + end bytes.                             *)
Length == [num : Nat \ {0}, end : 1 .. PageSize]
Addr == Nat \X (0 .. PageSize - 1)

ASSUME HeapAssumption ==
    /\ Pages \subseteq Nat
    /\ PageSize \in Nat \ {0}
    /\ Lengths \subseteq Length
    /\ NoBlock \notin Addr

VARIABLES
    pos,        \* the last block of the list
    block,      \* block[a]: the header at a of each block of the list
    held,       \* the pages vmm_alloc_page has granted and not got back
    at,         \* at[c]: where each caller is
    mem,        \* mem[c]: the block it is adding or removing
    want,       \* want[c]: the length it asks for
    give,       \* give[c]: the pages it is about to give back
    raced       \* ghost: a section was entered while another caller was in one

list == <<pos, block>>
calls == <<at, mem, want, give>>
heapVars == <<pos, block, held, at, mem, want, give, raced>>

Live == DOMAIN block
Inside == {"link", "unlink"}

(* Where the len bytes at address a end: the page of the last byte, and the  *)
(* offset in it of the byte behind.                                          *)
LastPage(a, len) == a[1] + len.num - 1 + (IF a[2] + len.end > PageSize THEN 1 ELSE 0)
EndOffset(a, len) == IF a[2] + len.end > PageSize THEN a[2] + len.end - PageSize ELSE a[2] + len.end
PagesOf(a, len) == a[1] .. LastPage(a, len)
Run(q, n) == q .. q + n - 1

HeapInit ==
    /\ pos = NoBlock
    /\ block = [a \in {} |-> NoBlock]
    /\ held = {}
    /\ at = [c \in Callers |-> "out"]
    /\ mem = [c \in Callers |-> NoBlock]
    /\ want = [c \in Callers |-> NoBlock]
    /\ give = [c \in Callers |-> {}]
    /\ raced = FALSE

Goto(c, there) == at' = [at EXCEPT ![c] = there]
Return(c) ==
    /\ Goto(c, "out")
    /\ mem' = [mem EXCEPT ![c] = NoBlock]
    /\ want' = [want EXCEPT ![c] = NoBlock]

(* Entering a section: the list must not be in the middle of a change.       *)
EnterSection(c, there) ==
    /\ Goto(c, there)
    /\ raced' = (\E d \in Callers \ {c} : at[d] \in Inside)

-----------------------------------------------------------------------------
FitsWhole(len) ==                       \* mutation: the tail counts as a whole page
    /\ pos # NoBlock
    /\ len.num = 1

(* The rest of the last block's page is long enough.                         *)
Fits(len) ==
    /\ pos # NoBlock
    /\ len.num = 1
    /\ len.end <= PageSize - EndOffset(pos, block[pos])

Rest == <<LastPage(pos, block[pos]), EndOffset(pos, block[pos])>>

(* kmalloc: the test of the tail ...                                         *)
MallocTail(c, len) ==
    /\ at[c] = "out" /\ ~raced
    /\ Fits(len)
    /\ mem' = [mem EXCEPT ![c] = Rest]
    /\ want' = [want EXCEPT ![c] = len]
    /\ EnterSection(c, "link")
    /\ UNCHANGED <<list, held, give>>

MallocPages(c, len) ==
    /\ at[c] = "out" /\ ~raced
    /\ ~Fits(len)
    /\ want' = [want EXCEPT ![c] = len]
    /\ Goto(c, "pages")
    /\ UNCHANGED <<list, held, mem, give, raced>>

(* ... vmm_alloc_page grants the pages, side by side, or fails ...           *)
Grant(c) ==
    /\ at[c] = "pages" /\ ~raced
    /\ \E q \in Pages :
        /\ Run(q, want[c].num) \subseteq Pages \ held
        /\ held' = held \cup Run(q, want[c].num)
        /\ mem' = [mem EXCEPT ![c] = <<q, 0>>]
    /\ Goto(c, "fresh")
    /\ UNCHANGED <<list, want, give, raced>>

Refuse(c) ==
    /\ at[c] = "pages" /\ ~raced
    /\ Return(c)
    /\ UNCHANGED <<list, held, give, raced>>

(* ... pos is read again ...                                                 *)
Fresh(c) ==
    /\ at[c] = "fresh" /\ ~raced
    /\ EnterSection(c, "link")
    /\ UNCHANGED <<list, held, mem, want, give>>

(* ... and the block becomes the last of the list.                           *)
Link(c) ==
    /\ at[c] = "link" /\ ~raced
    /\ LET new == [num |-> want[c].num, end |-> want[c].end, last |-> pos, next |-> NoBlock] IN
        block' = [a \in Live \cup {mem[c]} |->
                    IF a = mem[c] THEN new
                    ELSE IF a = pos THEN [block[a] EXCEPT !.next = mem[c]] ELSE block[a]]
    /\ pos' = mem[c]
    /\ Return(c)
    /\ UNCHANGED <<held, give, raced>>

(* kfree.                                                                    *)
Free(c, b) ==
    /\ at[c] = "out" /\ ~raced
    /\ b \in Live
    /\ \A d \in Callers : at[d] = "unlink" => mem[d] # b
    /\ mem' = [mem EXCEPT ![c] = b]
    /\ EnterSection(c, "unlink")
    /\ UNCHANGED <<list, held, want, give>>

GivenNextKept(b) ==                     \* mutation: the next block's page is given back
    LET h == block[b]
        skip == IF h.last # NoBlock /\ LastPage(h.last, block[h.last]) = b[1] THEN 1 ELSE 0
    IN  Run(b[1] + skip, h.num - skip)

(* The pages kfree gives back: not the first if the block before ends there, *)
(* nor the last if the block behind begins there.                            *)
Given(b) ==
    LET h == block[b]
        skip == IF h.last # NoBlock /\ LastPage(h.last, block[h.last]) = b[1] THEN 1 ELSE 0
        keep == IF h.next # NoBlock /\ LastPage(b, h) = h.next[1] THEN 1 ELSE 0
    IN  Run(b[1] + skip, h.num - skip - keep)

Unlink(c) ==
    /\ at[c] = "unlink" /\ ~raced
    /\ LET b == mem[c]
           h == block[b]
       IN  /\ block' = [a \in Live \ {b} |->
                            [block[a] EXCEPT !.next = IF a = h.last THEN h.next ELSE @,
                                             !.last = IF a = h.next THEN h.last ELSE @]]
           /\ pos' = IF h.next = NoBlock THEN h.last ELSE pos
           /\ give' = [give EXCEPT ![c] = Given(b)]
    /\ Goto(c, "give")
    /\ UNCHANGED <<held, mem, want, raced>>

(* vmm_free_page, if there are pages to give back.                           *)
GiveBack(c) ==
    /\ at[c] = "give" /\ ~raced
    /\ held' = held \ give[c]
    /\ give' = [give EXCEPT ![c] = {}]
    /\ Return(c)
    /\ UNCHANGED <<list, raced>>

HeapNext ==
    \E c \in Callers :
        \/ \E len \in Lengths : MallocTail(c, len) \/ MallocPages(c, len)
        \/ Grant(c) \/ Refuse(c) \/ Fresh(c) \/ Link(c)
        \/ \E b \in Live : Free(c, b)
        \/ Unlink(c) \/ GiveBack(c)

HeapSpec == HeapInit /\ [][HeapNext]_heapVars

-----------------------------------------------------------------------------
(* Block a begins in the page where block b ends, behind it.                 *)
Follows(a, b) ==
    /\ a[1] = LastPage(b, block[b])
    /\ a[2] >= EndOffset(b, block[b])

(* Two blocks of the heap never share a byte, whatever was allocated and     *)
(* freed before and in which order.                                          *)
BlocksApart ==
    ~raced => \A a, b \in Live : a # b =>
        \/ Follows(a, b) \/ Follows(b, a)
        \/ PagesOf(a, block[a]) \cap PagesOf(b, block[b]) = {}

(* Pages between the window and the list: granted, or about to go back.      *)
Passing(c) ==
    IF at[c] = "fresh" \/ (at[c] = "link" /\ mem[c][2] = 0)
    THEN PagesOf(mem[c], want[c]) ELSE give[c]

(* A page goes back to the window when its last block is freed, not earlier  *)
(* and not never: kfree looks at two neighbours only, yet no third block     *)
(* uses a page it gives back, and no page without a block is kept.           *)
PagesHeld ==
    ~raced => held = UNION ({PagesOf(a, block[a]) : a \in Live} \cup {Passing(c) : c \in Callers})

=============================================================================
