---------------------------- MODULE LoaderProofs ----------------------------
(***************************************************************************)
(* The heap of the kernel for every size of pages and blocks, any number   *)
(* of callers and any order of allocations and frees: blocks never share a *)
(* byte and a page goes back exactly with its last block.  Then the        *)
(* programs that are started: they implement the callers of the heap, so   *)
(* what it promises holds for any number of them; and nobody frees the     *)
(* path of a program that is still being loaded.                           *)
(***************************************************************************)
EXTENDS Loader, TLAPS

Header == [num : Nat \ {0}, end : 1 .. PageSize,
           last : Addr \cup {NoBlock}, next : Addr \cup {NoBlock}]

HeapTypeOK ==
    /\ Live \subseteq Addr
    /\ \A a \in Live : block[a] \in Header
    /\ pos \in Live \cup {NoBlock}
    /\ at \in [Callers -> {"out", "pages", "fresh", "link", "unlink", "give"}]
    /\ mem \in [Callers -> Addr \cup {NoBlock}]
    /\ want \in [Callers -> Lengths \cup {NoBlock}]
    /\ give \in [Callers -> SUBSET Nat]

(* A block that does not begin its page ends in it.                          *)
Shape == \A a \in Live :
    /\ a[2] + block[a].end <= PageSize
    /\ a[2] = 0 \/ block[a].num = 1

(* Links go both ways, and along a rank: there is no cycle.                  *)
Linked ==
    /\ \A a \in Live : block[a].next # NoBlock =>
            block[a].next \in Live /\ block[block[a].next].last = a
    /\ \A a \in Live : block[a].last # NoBlock =>
            block[a].last \in Live /\ block[block[a].last].next = a
    /\ \A a \in Live : block[a].next = NoBlock <=> a = pos
    /\ \E rank \in [Live -> Nat] :
            \A a \in Live : block[a].next # NoBlock => rank[a] < rank[block[a].next]

(* Blocks that share a page stand side by side in the list: between a block  *)
(* and one behind it in its page there are only blocks of that page.         *)
Neighbours == \A a, b \in Live : Follows(a, b) =>
    /\ block[a].last # NoBlock
    /\ LastPage(block[a].last, block[block[a].last]) = a[1]
    /\ block[a].last = b \/ Follows(block[a].last, b)
    /\ block[b].next # NoBlock
    /\ block[b].next[1] = a[1]
    /\ block[b].next = a \/ Follows(a, block[b].next)

Separate == \A a, b \in Live : a # b =>
    \/ Follows(a, b) \/ Follows(b, a)
    \/ PagesOf(a, block[a]) \cap PagesOf(b, block[b]) = {}

(* What callers in the middle of an operation rely on.                       *)
Placed == \A c \in Callers :
    /\ at[c] \in {"pages", "fresh", "link"} => want[c] \in Lengths
    /\ at[c] = "fresh" => mem[c] \in Addr /\ mem[c][2] = 0
    /\ at[c] = "link" =>
        /\ mem[c] \in Addr
        /\ mem[c][2] # 0 =>
            /\ pos # NoBlock /\ mem[c] = Rest
            /\ want[c].num = 1 /\ mem[c][2] + want[c].end <= PageSize
    /\ at[c] = "unlink" => mem[c] \in Live
    /\ at[c] # "give" => give[c] = {}

OneInside == \A c, d \in Callers :
    at[c] \in Inside /\ at[d] \in Inside => c = d

(* Pages on their way between the window and the list belong to nobody else. *)
Accounts ==
    /\ held = UNION ({PagesOf(a, block[a]) : a \in Live} \cup {Passing(c) : c \in Callers})
    /\ \A c \in Callers, a \in Live : Passing(c) \cap PagesOf(a, block[a]) = {}
    /\ \A c, d \in Callers : c # d => Passing(c) \cap Passing(d) = {}

Core ==
    /\ HeapTypeOK /\ Shape /\ Linked /\ Neighbours
    /\ Separate /\ Placed /\ OneInside /\ Accounts

HInv == ~raced => Core

-----------------------------------------------------------------------------
(* Addresses and lengths taken apart.                                        *)
LEMMA AddrParts ==
    /\ \A a \in Addr : a[1] \in Nat /\ a[2] \in 0 .. PageSize - 1
    /\ \A x \in Nat, y \in 0 .. PageSize - 1 : <<x, y>> \in Addr
  BY DEF Addr

LEMMA LengthParts ==
    /\ \A len \in Lengths : len.num \in Nat \ {0} /\ len.end \in 1 .. PageSize
    /\ PageSize \in Nat \ {0} /\ NoBlock \notin Addr /\ Pages \subseteq Nat
  BY HeapAssumption DEF Length

(* In a block that ends in its page the last page is found without a carry.  *)
LEMMA NoCarry ==
    ASSUME NEW a \in Addr, NEW len, len.num \in Nat \ {0}, len.end \in 1 .. PageSize,
           a[2] + len.end <= PageSize
    PROVE  /\ LastPage(a, len) = a[1] + len.num - 1
           /\ EndOffset(a, len) = a[2] + len.end
           /\ LastPage(a, len) \in Nat /\ a[1] <= LastPage(a, len)
           /\ a[1] \in PagesOf(a, len) /\ LastPage(a, len) \in PagesOf(a, len)
  BY AddrParts, LengthParts DEF LastPage, EndOffset, PagesOf

(* The same for the blocks of the heap.                                      *)
LEMMA BlockParts ==
    ASSUME HeapTypeOK, Shape, NEW a \in Live
    PROVE  /\ a \in Addr /\ a[1] \in Nat /\ a[2] \in 0 .. PageSize - 1
           /\ block[a].num \in Nat \ {0} /\ block[a].end \in 1 .. PageSize
           /\ LastPage(a, block[a]) = a[1] + block[a].num - 1
           /\ EndOffset(a, block[a]) = a[2] + block[a].end
           /\ a[1] \in PagesOf(a, block[a])
           /\ LastPage(a, block[a]) \in PagesOf(a, block[a])
  <1>1. a \in Addr /\ block[a] \in Header
    BY DEF HeapTypeOK
  <1>2. block[a].num \in Nat \ {0} /\ block[a].end \in 1 .. PageSize
    BY <1>1 DEF Header
  <1>3. a[2] + block[a].end <= PageSize
    BY DEF Shape
  <1> QED
    BY <1>1, <1>2, <1>3, NoCarry, AddrParts

-----------------------------------------------------------------------------
(* Nothing of the heap follows the last block in its page.                   *)
LEMMA RestFree ==
    ASSUME Core, pos # NoBlock
    PROVE  /\ pos \in Live
           /\ \A a \in Live : ~Follows(a, pos)
           /\ \A a \in Live : a # pos /\ LastPage(pos, block[pos]) \in PagesOf(a, block[a])
                    => Follows(pos, a)
  <1>1. pos \in Live /\ block[pos].next = NoBlock
    BY DEF Core, HeapTypeOK, Linked
  <1>2. \A a \in Live : ~Follows(a, pos)
    BY <1>1 DEF Core, Neighbours
  <1>3. LastPage(pos, block[pos]) \in PagesOf(pos, block[pos])
    BY <1>1, BlockParts DEF Core
  <1> QED
    BY <1>1, <1>2, <1>3 DEF Core, Separate

-----------------------------------------------------------------------------
(* Actions that leave the list alone.                                        *)
LEMMA ListKept ==
    ASSUME Core, UNCHANGED list
    PROVE  /\ Shape' /\ Linked' /\ Neighbours' /\ Separate'
           /\ Live' = Live /\ pos' = pos /\ block' = block
           /\ pos \in Live \cup {NoBlock} /\ Live \subseteq Addr
           /\ \A a \in Live : block[a] \in Header
  <1>1. pos' = pos /\ block' = block
    BY DEF list
  <1>2. Shape' /\ Linked' /\ Neighbours' /\ Separate'
    BY <1>1 DEF Core, Live, Shape, Linked, Neighbours, Separate, Follows, LastPage, EndOffset, PagesOf
  <1> QED
    BY <1>1, <1>2 DEF Core, HeapTypeOK, Live

(* A step of c that moves no page keeps the accounts.                        *)
LEMMA NothingMoves ==
    ASSUME Core, UNCHANGED <<list, held>>, NEW c \in Callers,
           Passing(c)' = Passing(c),
           \A d \in Callers \ {c} : at'[d] = at[d] /\ mem'[d] = mem[d]
                                  /\ want'[d] = want[d] /\ give'[d] = give[d]
    PROVE  Accounts'
  <1>1. \A d \in Callers : Passing(d)' = Passing(d)
    BY DEF Passing, PagesOf, LastPage
  <1>2. Live' = Live /\ \A a \in Live : PagesOf(a, block[a])' = PagesOf(a, block[a])
    BY DEF list, Live, PagesOf, LastPage
  <1> QED
    BY <1>1, <1>2 DEF Core, Accounts

LEMMA MallocTailKeeps ==
    ASSUME Core, NEW c \in Callers, NEW len \in Lengths, MallocTail(c, len), ~raced'
    PROVE  Core'
  <1> USE DEF MallocTail
  <1>1. Shape' /\ Linked' /\ Neighbours' /\ Separate'
    BY ListKept
  <1>2. /\ at' = [at EXCEPT ![c] = "link"] /\ at[c] = "out"
        /\ \A d \in Callers \ {c} : at[d] \notin Inside
    BY DEF EnterSection, Goto
  <1>3. Rest \in Addr /\ Rest[2] # 0 /\ Rest[2] + len.end <= PageSize /\ len.num = 1 /\ pos # NoBlock
    <2>1. pos # NoBlock /\ pos \in Live
      BY RestFree DEF Fits
    <2>2. /\ EndOffset(pos, block[pos]) \in Nat \ {0}
          /\ LastPage(pos, block[pos]) \in Nat
          /\ EndOffset(pos, block[pos]) + len.end <= PageSize
      BY <2>1, BlockParts, LengthParts DEF Core, Fits
    <2> QED
      BY <2>1, <2>2, AddrParts, LengthParts DEF Rest, Fits
  <1>4. HeapTypeOK'
    BY <1>2, <1>3 DEF Core, HeapTypeOK, list, Live
  <1>5. Placed'
    BY <1>2, <1>3 DEF Core, Placed, HeapTypeOK, list, Live, Rest, LastPage, EndOffset
  <1>6. OneInside'
    BY <1>2 DEF Core, OneInside, HeapTypeOK
  <1>7. Accounts'
    <2>1. Passing(c)' = Passing(c)
      BY <1>2, <1>3 DEF Core, HeapTypeOK, Passing, Placed
    <2> QED
      BY <2>1, <1>2, NothingMoves DEF Core, HeapTypeOK
  <1> QED
    BY <1>1, <1>4, <1>5, <1>6, <1>7 DEF Core

LEMMA MallocPagesKeeps ==
    ASSUME Core, NEW c \in Callers, NEW len \in Lengths, MallocPages(c, len)
    PROVE  Core'
  <1> USE DEF MallocPages
  <1>1. Shape' /\ Linked' /\ Neighbours' /\ Separate'
    BY ListKept
  <1>2. at' = [at EXCEPT ![c] = "pages"] /\ at[c] = "out"
    BY DEF Goto
  <1>3. HeapTypeOK'
    BY <1>2 DEF Core, HeapTypeOK, list, Live
  <1>4. Placed'
    BY <1>2 DEF Core, Placed, HeapTypeOK, list, Live, Rest, LastPage, EndOffset
  <1>5. OneInside'
    BY <1>2 DEF Core, OneInside, HeapTypeOK, Inside
  <1>6. Accounts'
    <2>1. Passing(c)' = Passing(c)
      BY <1>2 DEF Core, HeapTypeOK, Passing
    <2> QED
      BY <2>1, <1>2, NothingMoves DEF Core, HeapTypeOK
  <1> QED
    BY <1>1, <1>3, <1>4, <1>5, <1>6 DEF Core

LEMMA GrantKeeps ==
    ASSUME Core, NEW c \in Callers, Grant(c)
    PROVE  Core'
  <1> USE DEF Grant
  <1>1. Shape' /\ Linked' /\ Neighbours' /\ Separate'
    BY ListKept
  <1>2. at' = [at EXCEPT ![c] = "fresh"] /\ at[c] = "pages"
    BY DEF Goto
  <1>3. want[c] \in Lengths /\ give[c] = {}
    BY <1>2 DEF Core, Placed
  <1>4. PICK q \in Pages :
            /\ Run(q, want[c].num) \subseteq Pages \ held
            /\ held' = held \cup Run(q, want[c].num)
            /\ mem' = [mem EXCEPT ![c] = <<q, 0>>]
    OBVIOUS
  <1>5. <<q, 0>> \in Addr /\ PagesOf(<<q, 0>>, want[c]) = Run(q, want[c].num)
    <2>1. <<q, 0>> \in Addr
      BY LengthParts, AddrParts
    <2>2. LastPage(<<q, 0>>, want[c]) = q + want[c].num - 1
      BY <1>3, LengthParts DEF LastPage
    <2> QED
      BY <2>1, <2>2 DEF PagesOf, Run
  <1>6. HeapTypeOK'
    BY <1>2, <1>4, <1>5 DEF Core, HeapTypeOK, list, Live
  <1>7. Placed'
    BY <1>2, <1>3, <1>4, <1>5 DEF Core, Placed, HeapTypeOK, list, Live, Rest, LastPage, EndOffset
  <1>8. OneInside'
    BY <1>2 DEF Core, OneInside, HeapTypeOK, Inside
  <1>9. Accounts'
    <2>1. Passing(c) = {} /\ Passing(c)' = Run(q, want[c].num)
      BY <1>2, <1>3, <1>4, <1>5 DEF Core, HeapTypeOK, Passing, PagesOf, LastPage
    <2>2. \A d \in Callers \ {c} : Passing(d)' = Passing(d)
      BY <1>2, <1>4 DEF Core, HeapTypeOK, Passing, PagesOf, LastPage
    <2>3. Live' = Live /\ \A a \in Live : PagesOf(a, block[a])' = PagesOf(a, block[a])
      BY DEF list, Live, PagesOf, LastPage
    <2>4. /\ \A a \in Live : PagesOf(a, block[a]) \subseteq held
          /\ \A d \in Callers : Passing(d) \subseteq held
      BY DEF Core, Accounts
    <2>5. held' = held \cup Passing(c)'
      BY <1>4, <2>1
    <2>6. held' = UNION ({PagesOf(a, block[a])' : a \in Live'} \cup {Passing(d)' : d \in Callers})
      BY <2>1, <2>2, <2>3, <2>5 DEF Core, Accounts
    <2> QED
      BY <1>4, <2>1, <2>2, <2>3, <2>4, <2>6 DEF Core, Accounts
  <1> QED
    BY <1>1, <1>6, <1>7, <1>8, <1>9 DEF Core

LEMMA RefuseKeeps ==
    ASSUME Core, NEW c \in Callers, Refuse(c)
    PROVE  Core'
  <1> USE DEF Refuse, Return
  <1>1. Shape' /\ Linked' /\ Neighbours' /\ Separate'
    BY ListKept
  <1>2. at' = [at EXCEPT ![c] = "out"] /\ at[c] = "pages"
    BY DEF Goto
  <1>3. HeapTypeOK'
    BY <1>2 DEF Core, HeapTypeOK, list, Live
  <1>4. Placed'
    BY <1>2 DEF Core, Placed, HeapTypeOK, list, Live, Rest, LastPage, EndOffset
  <1>5. OneInside'
    BY <1>2 DEF Core, OneInside, HeapTypeOK, Inside
  <1>6. Accounts'
    <2>1. Passing(c)' = Passing(c)
      BY <1>2 DEF Core, HeapTypeOK, Passing
    <2> QED
      BY <2>1, <1>2, NothingMoves DEF Core, HeapTypeOK
  <1> QED
    BY <1>1, <1>3, <1>4, <1>5, <1>6 DEF Core

LEMMA FreshKeeps ==
    ASSUME Core, NEW c \in Callers, Fresh(c), ~raced'
    PROVE  Core'
  <1> USE DEF Fresh
  <1>1. Shape' /\ Linked' /\ Neighbours' /\ Separate'
    BY ListKept
  <1>2. /\ at' = [at EXCEPT ![c] = "link"] /\ at[c] = "fresh"
        /\ \A d \in Callers \ {c} : at[d] \notin Inside
    BY DEF EnterSection, Goto
  <1>3. HeapTypeOK'
    BY <1>2 DEF Core, HeapTypeOK, list, Live
  <1>4. Placed'
    BY <1>2 DEF Core, Placed, HeapTypeOK, list, Live, Rest, LastPage, EndOffset
  <1>5. OneInside'
    BY <1>2 DEF Core, OneInside, HeapTypeOK
  <1>6. Accounts'
    <2>1. mem[c][2] = 0
      BY <1>2 DEF Core, Placed
    <2>2. Passing(c)' = Passing(c)
      BY <1>2, <2>1 DEF Core, HeapTypeOK, Passing, PagesOf, LastPage
    <2> QED
      BY <2>2, <1>2, NothingMoves DEF Core, HeapTypeOK
  <1> QED
    BY <1>1, <1>3, <1>4, <1>5, <1>6 DEF Core

LEMMA FreeKeeps ==
    ASSUME Core, NEW c \in Callers, NEW b \in Live, Free(c, b), ~raced'
    PROVE  Core'
  <1> USE DEF Free
  <1>1. Shape' /\ Linked' /\ Neighbours' /\ Separate'
    BY ListKept
  <1>2. /\ at' = [at EXCEPT ![c] = "unlink"] /\ at[c] = "out"
        /\ \A d \in Callers \ {c} : at[d] \notin Inside
    BY DEF EnterSection, Goto
  <1>3. HeapTypeOK'
    BY <1>2 DEF Core, HeapTypeOK, list, Live
  <1>4. Placed'
    BY <1>2 DEF Core, Placed, HeapTypeOK, list, Live, Rest, LastPage, EndOffset
  <1>5. OneInside'
    BY <1>2 DEF Core, OneInside, HeapTypeOK
  <1>6. Accounts'
    <2>1. Passing(c)' = Passing(c)
      BY <1>2 DEF Core, HeapTypeOK, Passing
    <2> QED
      BY <2>1, <1>2, NothingMoves DEF Core, HeapTypeOK
  <1> QED
    BY <1>1, <1>3, <1>4, <1>5, <1>6 DEF Core

LEMMA GiveBackKeeps ==
    ASSUME Core, NEW c \in Callers, GiveBack(c)
    PROVE  Core'
  <1> USE DEF GiveBack, Return
  <1>1. Shape' /\ Linked' /\ Neighbours' /\ Separate'
    BY ListKept
  <1>2. at' = [at EXCEPT ![c] = "out"] /\ at[c] = "give"
    BY DEF Goto
  <1>3. HeapTypeOK'
    BY <1>2 DEF Core, HeapTypeOK, list, Live
  <1>4. Placed'
    BY <1>2 DEF Core, Placed, HeapTypeOK, list, Live, Rest, LastPage, EndOffset
  <1>5. OneInside'
    BY <1>2 DEF Core, OneInside, HeapTypeOK, Inside
  <1>6. Accounts'
    <2>1. Passing(c) = give[c] /\ Passing(c)' = {}
      BY <1>2 DEF Core, HeapTypeOK, Passing
    <2>2. \A d \in Callers \ {c} : Passing(d)' = Passing(d)
      BY <1>2 DEF Core, HeapTypeOK, Passing, PagesOf, LastPage
    <2>3. Live' = Live /\ \A a \in Live : PagesOf(a, block[a])' = PagesOf(a, block[a])
      BY DEF list, Live, PagesOf, LastPage
    <2>4. held' = UNION ({PagesOf(a, block[a])' : a \in Live'} \cup {Passing(d)' : d \in Callers})
      BY <2>1, <2>2, <2>3 DEF Core, Accounts
    <2> QED
      BY <2>1, <2>2, <2>3, <2>4 DEF Core, Accounts
  <1> QED
    BY <1>1, <1>3, <1>4, <1>5, <1>6 DEF Core

-----------------------------------------------------------------------------
(* A block about to join the list begins where the last one ends, or in      *)
(* pages of its own.                                                         *)
LEMMA Joins ==
    ASSUME Core, NEW c \in Callers, at[c] = "link"
    PROVE  LET m == mem[c]
               w == want[c]
           IN  /\ m \in Addr /\ m \notin Live /\ w \in Lengths
               /\ m[2] + w.end <= PageSize /\ (m[2] = 0 \/ w.num = 1)
               /\ \A a \in Live :
                    /\ ~(a[1] = LastPage(m, w) /\ a[2] >= EndOffset(m, w))
                    /\ PagesOf(m, w) \cap PagesOf(a, block[a]) = {} \/ Follows(m, a)
                    /\ Follows(m, a) => /\ pos # NoBlock /\ m = Rest
                                        /\ pos = a \/ Follows(pos, a)
               /\ m[2] # 0 => /\ pos \in Live /\ Passing(c) = {}
                              /\ PagesOf(m, w) \subseteq PagesOf(pos, block[pos])
               /\ m[2] = 0 => Passing(c) = PagesOf(m, w)
  <1> DEFINE m == mem[c]
             w == want[c]
  <1>1. /\ m \in Addr /\ w \in Lengths /\ give[c] = {}
        /\ m[2] # 0 => pos # NoBlock /\ m = Rest /\ w.num = 1 /\ m[2] + w.end <= PageSize
    BY DEF Core, Placed
  <1>2. m[1] \in Nat /\ m[2] \in 0 .. PageSize - 1 /\ w.num \in Nat \ {0} /\ w.end \in 1 .. PageSize
        /\ PageSize \in Nat
    BY <1>1, AddrParts, LengthParts
  <1>3. m[2] + w.end <= PageSize /\ (m[2] = 0 \/ w.num = 1)
    BY <1>1, <1>2
  <1>4. /\ LastPage(m, w) = m[1] + w.num - 1 /\ EndOffset(m, w) = m[2] + w.end
        /\ m[1] \in PagesOf(m, w) /\ LastPage(m, w) \in PagesOf(m, w)
    BY <1>1, <1>2, <1>3, NoCarry
  <1>5. CASE m[2] = 0
    <2>1. Passing(c) = PagesOf(m, w)
      BY <1>5 DEF Passing
    <2>2. \A a \in Live : PagesOf(m, w) \cap PagesOf(a, block[a]) = {}
      BY <2>1 DEF Core, Accounts
    <2>3. \A a \in Live : a[1] \in PagesOf(a, block[a]) /\ LastPage(a, block[a]) \in PagesOf(a, block[a])
      BY BlockParts DEF Core
    <2>4. m \notin Live
      BY <1>4, <2>2, <2>3
    <2>5. \A a \in Live : a[1] # LastPage(m, w) /\ m[1] # LastPage(a, block[a])
      BY <1>4, <2>2, <2>3
    <2> QED
      BY <1>1, <1>3, <1>5, <2>1, <2>2, <2>4, <2>5 DEF Follows
  <1>6. CASE m[2] # 0
    <2>1. /\ pos \in Live /\ w.num = 1
          /\ m[1] = LastPage(pos, block[pos]) /\ m[2] = EndOffset(pos, block[pos])
          /\ \A a \in Live : a # pos /\ m[1] \in PagesOf(a, block[a]) => Follows(pos, a)
      BY <1>1, <1>6, RestFree DEF Rest
    <2>2. \A a \in Live :
             /\ a[1] \in Nat /\ a[2] \in Nat /\ block[a].num \in Nat \ {0} /\ block[a].end \in Nat \ {0}
             /\ LastPage(a, block[a]) = a[1] + block[a].num - 1
             /\ EndOffset(a, block[a]) = a[2] + block[a].end
             /\ a[1] \in PagesOf(a, block[a]) /\ LastPage(a, block[a]) \in PagesOf(a, block[a])
      BY BlockParts DEF Core
    <2>3. PagesOf(m, w) = {m[1]}
      BY <1>2, <1>4, <2>1 DEF PagesOf
    <2>4. ASSUME NEW a \in Live, m[1] \in PagesOf(a, block[a])
          PROVE  /\ m # a /\ m[1] = LastPage(a, block[a]) /\ m[2] >= EndOffset(a, block[a])
                 /\ ~(a[1] = m[1] /\ a[2] >= m[2] + w.end)
      <3>1. CASE a = pos
        BY <3>1, <1>2, <2>1, <2>2
      <3>2. CASE a # pos
        <4>1. pos[1] = LastPage(a, block[a]) /\ pos[2] >= EndOffset(a, block[a])
          BY <3>2, <2>1, <2>4 DEF Follows
        <4>2. a[1] <= m[1] /\ m[1] <= LastPage(a, block[a])
          BY <2>4, <2>2, <1>2 DEF PagesOf
        <4> QED
          BY <4>1, <4>2, <1>2, <2>1, <2>2
      <3> QED
        BY <3>1, <3>2
    <2>5. m \notin Live
      BY <2>2, <2>4
    <2>6. \A a \in Live : ~(a[1] = LastPage(m, w) /\ a[2] >= EndOffset(m, w))
      BY <1>2, <1>4, <2>1, <2>2, <2>4
    <2>7. \A a \in Live : PagesOf(m, w) \cap PagesOf(a, block[a]) = {} \/ Follows(m, a)
      BY <2>3, <2>4 DEF Follows
    <2>8. \A a \in Live : Follows(m, a) => pos = a \/ Follows(pos, a)
      BY <2>1, <2>2 DEF Follows
    <2>9. Passing(c) = {}
      BY <1>1, <1>6 DEF Passing
    <2>10. PagesOf(m, w) \subseteq PagesOf(pos, block[pos])
      BY <2>1, <2>2, <2>3
    <2> QED
      BY <1>1, <1>3, <1>6, <2>1, <2>5, <2>6, <2>7, <2>8, <2>9, <2>10
  <1> QED
    BY <1>5, <1>6

LEMMA LinkKeeps ==
    ASSUME Core, NEW c \in Callers, Link(c)
    PROVE  Core'
  <1> DEFINE m == mem[c]
             w == want[c]
             After(a, b) == a[1] = LastPage(b, block'[b]) /\ a[2] >= EndOffset(b, block'[b])
  <1>1. /\ m \in Addr /\ m \notin Live /\ w \in Lengths /\ m # NoBlock
        /\ m[2] + w.end <= PageSize /\ (m[2] = 0 \/ w.num = 1)
        /\ m[1] \in Nat /\ m[2] \in Nat /\ w.num \in Nat \ {0} /\ w.end \in 1 .. PageSize
    BY Joins, AddrParts, LengthParts DEF Link
  <1>2. /\ Live' = Live \cup {m} /\ pos' = m
        /\ block'[m] = [num |-> w.num, end |-> w.end, last |-> pos, next |-> NoBlock]
        /\ \A a \in Live : block'[a] = IF a = pos THEN [block[a] EXCEPT !.next = m] ELSE block[a]
    BY <1>1 DEF Link, Live
  <1>3. /\ Live \subseteq Addr /\ pos \in Live \cup {NoBlock}
        /\ \A a \in Live : block[a] \in Header
    BY DEF Core, HeapTypeOK
  <1>4. \A a \in Live :
            /\ block'[a].num = block[a].num /\ block'[a].end = block[a].end
            /\ block'[a].last = block[a].last
            /\ block'[a].next = IF a = pos THEN m ELSE block[a].next
    BY <1>2, <1>3 DEF Header
  <1>5. /\ \A a \in Live : /\ LastPage(a, block'[a]) = LastPage(a, block[a])
                           /\ EndOffset(a, block'[a]) = EndOffset(a, block[a])
                           /\ PagesOf(a, block'[a]) = PagesOf(a, block[a])
        /\ \A a, b \in Live : After(a, b) <=> Follows(a, b)
        /\ \A b \in Live : LastPage(m, w) = LastPage(m, block'[m]) /\ PagesOf(m, w) = PagesOf(m, block'[m])
    BY <1>2, <1>4 DEF LastPage, EndOffset, PagesOf, Follows
  <1>6. /\ LastPage(m, block'[m]) = m[1] + w.num - 1 /\ EndOffset(m, block'[m]) = m[2] + w.end
        /\ m[1] \in PagesOf(m, w) /\ PagesOf(m, w) = PagesOf(m, block'[m])
    BY <1>1, <1>2, NoCarry, LengthParts DEF LastPage, EndOffset, PagesOf
  <1>7. /\ at' = [at EXCEPT ![c] = "out"] /\ at[c] = "link"
        /\ mem' = [mem EXCEPT ![c] = NoBlock] /\ want' = [want EXCEPT ![c] = NoBlock]
        /\ held' = held /\ give' = give
        /\ \A d \in Callers \ {c} : at[d] \notin Inside
    BY DEF Link, Return, Goto, Core, OneInside, Inside
  <1>8. HeapTypeOK'
    <2>1. block'[m] \in Header
      BY <1>1, <1>2, <1>3 DEF Header
    <2>2. \A a \in Live : block'[a] \in Header
      <3>1. \A h \in Header : [h EXCEPT !.next = m] \in Header
        BY <1>1 DEF Header
      <3> QED
        BY <3>1, <1>2, <1>3
    <2> QED
      BY <1>1, <1>2, <1>3, <1>7, <2>1, <2>2 DEF Core, HeapTypeOK, Header
  <1>9. Shape'
    BY <1>1, <1>2, <1>4 DEF Core, Shape
  <1>10. Linked'
    <2>1. \A a \in Live' : block'[a].next = NoBlock <=> a = m
      BY <1>1, <1>2, <1>4 DEF Core, Linked
    <2>2. \A a \in Live' : block'[a].next # NoBlock =>
             block'[a].next \in Live' /\ block'[block'[a].next].last = a
      BY <1>1, <1>2, <1>4 DEF Core, Linked
    <2>3. \A a \in Live' : block'[a].last # NoBlock =>
             block'[a].last \in Live' /\ block'[block'[a].last].next = a
      <3>1. block'[m].last # NoBlock => block'[m].last \in Live' /\ block'[block'[m].last].next = m
        BY <1>1, <1>2, <1>3, <1>4
      <3>2. ASSUME NEW a \in Live, block'[a].last # NoBlock
            PROVE  block'[a].last \in Live' /\ block'[block'[a].last].next = a
        <4>1. block[a].last \in Live /\ block[block[a].last].next = a
          BY <3>2, <1>4 DEF Core, Linked
        <4>2. block[a].last # pos
          BY <4>1, <1>3, LengthParts DEF Core, Linked
        <4> QED
          BY <4>1, <4>2, <1>2, <1>4
      <3> QED
        BY <3>1, <3>2, <1>2
    <2>4. \E rank \in [Live' -> Nat] :
             \A a \in Live' : block'[a].next # NoBlock => rank[a] < rank[block'[a].next]
      <3>1. PICK rank \in [Live -> Nat] :
                \A a \in Live : block[a].next # NoBlock => rank[a] < rank[block[a].next]
        BY DEF Core, Linked
      <3> DEFINE top == IF pos \in Live THEN rank[pos] + 1 ELSE 0
                 new == [a \in Live' |-> IF a = m THEN top ELSE rank[a]]
      <3>2. top \in Nat /\ new \in [Live' -> Nat]
        BY <3>1, <1>2
      <3>3. ASSUME NEW a \in Live', block'[a].next # NoBlock
            PROVE  new[a] < new[block'[a].next]
        <4>1. a \in Live /\ a # m
          BY <3>3, <2>1, <1>2
        <4>2. CASE a = pos
          BY <4>1, <4>2, <1>1, <1>2, <1>4, <3>1
        <4>3. CASE a # pos
          <5>1. block'[a].next = block[a].next /\ block[a].next \in Live /\ block[a].next # m
            BY <4>1, <4>3, <3>3, <1>1, <1>4 DEF Core, Linked
          <5> QED
            BY <4>1, <5>1, <3>3, <3>1, <1>2
        <4> QED
          BY <4>2, <4>3
      <3> QED
        BY <3>2, <3>3
    <2> QED
      BY <2>1, <2>2, <2>3, <2>4, <1>2 DEF Linked, Live
  <1>11. ASSUME NEW a \in Live
         PROVE  /\ ~After(a, m)
                /\ After(m, a) <=> Follows(m, a)
                /\ PagesOf(m, w) \cap PagesOf(a, block[a]) = {} \/ Follows(m, a)
                /\ Follows(m, a) => /\ pos # NoBlock /\ m = Rest
                                    /\ pos = a \/ Follows(pos, a)
    <2>1. /\ ~(a[1] = LastPage(m, w) /\ a[2] >= EndOffset(m, w))
          /\ PagesOf(m, w) \cap PagesOf(a, block[a]) = {} \/ Follows(m, a)
          /\ Follows(m, a) => pos # NoBlock /\ m = Rest /\ (pos = a \/ Follows(pos, a))
      BY <1>7, Joins
    <2>2. LastPage(m, w) = m[1] + w.num - 1 /\ EndOffset(m, w) = m[2] + w.end
      BY <1>1, NoCarry
    <2> QED
      BY <2>1, <2>2, <1>5, <1>6 DEF Follows
  <1>12. ~After(m, m)
    BY <1>1, <1>6 DEF Follows
  <1>13. Neighbours'
    <2>1. ASSUME NEW a \in Live, NEW b \in Live, Follows(a, b)
          PROVE  /\ block'[a].last # NoBlock
                 /\ LastPage(block'[a].last, block'[block'[a].last]) = a[1]
                 /\ block'[a].last = b \/ After(block'[a].last, b)
                 /\ block'[b].next # NoBlock
                 /\ block'[b].next[1] = a[1]
                 /\ block'[b].next = a \/ After(a, block'[b].next)
      <3>1. /\ block[a].last \in Live /\ block[b].next \in Live
            /\ LastPage(block[a].last, block[block[a].last]) = a[1]
            /\ block[a].last = b \/ Follows(block[a].last, b)
            /\ block[b].next[1] = a[1] /\ block[b].next # NoBlock
            /\ block[b].next = a \/ Follows(a, block[b].next)
        BY <2>1 DEF Core, Neighbours, Linked
      <3>2. b # pos /\ block[a].last # NoBlock
        BY <3>1, <1>3, LengthParts DEF Core, Linked
      <3> QED
        BY <3>1, <3>2, <1>4, <1>5
    <2>2. ASSUME NEW b \in Live, Follows(m, b)
          PROVE  /\ block'[m].last # NoBlock
                 /\ LastPage(block'[m].last, block'[block'[m].last]) = m[1]
                 /\ block'[m].last = b \/ After(block'[m].last, b)
                 /\ block'[b].next # NoBlock
                 /\ block'[b].next[1] = m[1]
                 /\ block'[b].next = m \/ After(m, block'[b].next)
      <3>1. pos \in Live /\ m = Rest /\ (pos = b \/ Follows(pos, b)) /\ block'[m].last = pos
        BY <2>2, <1>11, <1>2, <1>3
      <3>2. m[1] = LastPage(pos, block[pos]) /\ m[2] = EndOffset(pos, block[pos])
        BY <3>1 DEF Rest
      <3>3. CASE b = pos
        BY <3>1, <3>2, <3>3, <1>1, <1>2, <1>3, <1>4, <1>5, LengthParts
      <3>4. CASE b # pos
        <4>1. Follows(pos, b) /\ pos[1] = LastPage(b, block[b]) /\ m[1] = LastPage(b, block[b])
          BY <3>1, <3>4, <2>2 DEF Follows
        <4>2. /\ block[b].next \in Live /\ block[b].next # NoBlock /\ block[b].next[1] = pos[1]
              /\ block[b].next = pos \/ Follows(pos, block[b].next)
          BY <4>1, <3>1 DEF Core, Neighbours, Linked
        <4>3. Follows(m, block[b].next)
          <5>1. CASE block[b].next = pos
            BY <5>1, <3>2, <1>1 DEF Follows
          <5>2. CASE Follows(pos, block[b].next)
            <6>1. /\ pos[1] = LastPage(block[b].next, block[block[b].next])
                  /\ pos[2] >= EndOffset(block[b].next, block[block[b].next])
              BY <5>2 DEF Follows
            <6>2. m[2] = pos[2] + block[pos].end /\ pos[2] \in Nat /\ block[pos].end \in Nat
              BY <3>1, <3>2, BlockParts DEF Core
            <6>3. EndOffset(block[b].next, block[block[b].next]) \in Nat
              BY <4>2, BlockParts DEF Core
            <6> QED
              BY <4>1, <6>1, <6>2, <6>3 DEF Follows
          <5> QED
            BY <4>2, <5>1, <5>2
        <4> QED
          BY <3>1, <3>2, <3>4, <4>1, <4>2, <4>3, <1>3, <1>4, <1>5, <1>11, LengthParts
      <3> QED
        BY <3>3, <3>4
    <2>3. \A a, b \in Live' : After(a, b) =>
            /\ a \in Live \/ a = m
            /\ b \in Live /\ Follows(a, b)
      BY <1>2, <1>5, <1>11, <1>12
    <2>4. SUFFICES ASSUME NEW a \in Live', NEW b \in Live', After(a, b)
                   PROVE  /\ block'[a].last # NoBlock
                          /\ LastPage(block'[a].last, block'[block'[a].last]) = a[1]
                          /\ block'[a].last = b \/ After(block'[a].last, b)
                          /\ block'[b].next # NoBlock
                          /\ block'[b].next[1] = a[1]
                          /\ block'[b].next = a \/ After(a, block'[b].next)
      BY DEF Neighbours, Follows, LastPage, EndOffset
    <2> QED
      BY <2>1, <2>2, <2>3, <2>4
  <1>14. Separate'
    <2>1. ASSUME NEW a \in Live', NEW b \in Live', a # b
          PROVE  After(a, b) \/ After(b, a) \/ PagesOf(a, block'[a]) \cap PagesOf(b, block'[b]) = {}
      <3>1. CASE a \in Live /\ b \in Live
        BY <2>1, <3>1, <1>5 DEF Core, Separate
      <3>2. CASE a = m \/ b = m
        BY <2>1, <3>2, <1>2, <1>5, <1>6, <1>11
      <3> QED
        BY <3>1, <3>2, <1>2
    <2> QED
      BY <2>1 DEF Separate, Follows, LastPage, EndOffset, PagesOf
  <1>15. Placed'
    BY <1>7 DEF Core, Placed, HeapTypeOK, Inside
  <1>16. OneInside'
    BY <1>7 DEF Core, OneInside, HeapTypeOK, Inside
  <1>17. Accounts'
    <2>1. /\ Passing(c)' = {}
          /\ \A d \in Callers \ {c} : Passing(d)' = Passing(d)
      BY <1>7 DEF Core, HeapTypeOK, Placed, Passing, PagesOf, LastPage
    <2>2. /\ m[2] # 0 => pos \in Live /\ Passing(c) = {} /\ PagesOf(m, w) \subseteq PagesOf(pos, block[pos])
          /\ m[2] = 0 => Passing(c) = PagesOf(m, w)
      BY <1>7, Joins
    <2>3. held' = UNION ({PagesOf(a, block'[a]) : a \in Live'} \cup {Passing(d)' : d \in Callers})
      <3>1. held = UNION ({PagesOf(a, block[a]) : a \in Live} \cup {Passing(d) : d \in Callers})
        BY DEF Core, Accounts
      <3>2. \A a \in Live' : a \in Live \/ a = m
        BY <1>2
      <3>3. PagesOf(m, w) \subseteq held
        BY <2>2, <3>1
      <3>4. \A x \in held : (\E a \in Live' : x \in PagesOf(a, block'[a])) \/ \E d \in Callers : x \in Passing(d)'
        BY <3>1, <2>1, <2>2, <1>2, <1>5, <1>6
      <3>5. \A x : (\E a \in Live' : x \in PagesOf(a, block'[a])) => x \in held
        BY <3>1, <3>2, <3>3, <1>5, <1>6
      <3>6. \A d \in Callers : Passing(d)' \subseteq held
        BY <3>1, <2>1
      <3> QED
        BY <3>4, <3>5, <3>6, <1>7, <1>5
    <2>4. ASSUME NEW d \in Callers, NEW a \in Live'
          PROVE  Passing(d)' \cap PagesOf(a, block'[a]) = {}
      BY <2>1, <2>2, <1>2, <1>5, <1>6 DEF Core, Accounts
    <2>5. \A d, e \in Callers : d # e => Passing(d)' \cap Passing(e)' = {}
      BY <2>1 DEF Core, Accounts
    <2> QED
      BY <2>3, <2>4, <2>5 DEF Accounts, PagesOf, LastPage
  <1> QED
    BY <1>8, <1>9, <1>10, <1>13, <1>14, <1>15, <1>16, <1>17 DEF Core

-----------------------------------------------------------------------------
(* kfree gives back the pages of a block that no other block uses: looking   *)
(* at the two neighbours is enough.                                          *)
LEMMA GivenPages ==
    ASSUME Core, NEW b \in Live
    PROVE  /\ Given(b) \subseteq PagesOf(b, block[b]) /\ PagesOf(b, block[b]) \subseteq Nat
           /\ \A a \in Live \ {b} : Given(b) \cap PagesOf(a, block[a]) = {}
           /\ \A x \in PagesOf(b, block[b]) \ Given(b) :
                 \E a \in Live \ {b} : x \in PagesOf(a, block[a])
  <1> DEFINE p == block[b].last
             q == block[b].next
             skip == IF p # NoBlock /\ LastPage(p, block[p]) = b[1] THEN 1 ELSE 0
             keep == IF q # NoBlock /\ LastPage(b, block[b]) = q[1] THEN 1 ELSE 0
  <1>1. \A a \in Live : /\ a[1] \in Nat /\ block[a].num \in Nat \ {0}
                        /\ LastPage(a, block[a]) = a[1] + block[a].num - 1
                        /\ a[1] \in PagesOf(a, block[a])
                        /\ LastPage(a, block[a]) \in PagesOf(a, block[a])
    BY BlockParts DEF Core
  <1>2. \A x : x \in Given(b) <=> x \in b[1] + skip .. LastPage(b, block[b]) - keep
    BY <1>1 DEF Given, Run
  <1>3. /\ p # NoBlock => p \in Live /\ p # b
        /\ q # NoBlock => q \in Live /\ q # b
    BY DEF Core, Linked
  <1>4. Given(b) \subseteq PagesOf(b, block[b]) /\ PagesOf(b, block[b]) \subseteq Nat
    BY <1>1, <1>2 DEF PagesOf
  <1>5. ASSUME NEW a \in Live, a # b
        PROVE  Given(b) \cap PagesOf(a, block[a]) = {}
    <2>1. CASE Follows(a, b)
      <3>1. keep = 1 /\ a[1] = LastPage(b, block[b])
        BY <2>1 DEF Core, Neighbours, Follows
      <3> QED
        BY <3>1, <1>1, <1>2 DEF PagesOf
    <2>2. CASE Follows(b, a)
      <3>1. skip = 1 /\ b[1] = LastPage(a, block[a])
        BY <2>2 DEF Core, Neighbours, Follows
      <3> QED
        BY <3>1, <1>1, <1>2 DEF PagesOf
    <2>3. CASE PagesOf(a, block[a]) \cap PagesOf(b, block[b]) = {}
      BY <2>3, <1>4
    <2> QED
      BY <1>5, <2>1, <2>2, <2>3 DEF Core, Separate
  <1>6. ASSUME NEW x \in PagesOf(b, block[b]), x \notin Given(b)
        PROVE  \E a \in Live \ {b} : x \in PagesOf(a, block[a])
    <2>1. (skip = 1 /\ x = b[1]) \/ (keep = 1 /\ x = LastPage(b, block[b]))
      BY <1>6, <1>1, <1>2 DEF PagesOf
    <2>2. CASE skip = 1 /\ x = b[1]
      BY <2>2, <1>1, <1>3
    <2>3. CASE keep = 1 /\ x = LastPage(b, block[b])
      BY <2>3, <1>1, <1>3
    <2> QED
      BY <2>1, <2>2, <2>3
  <1> QED
    BY <1>4, <1>5, <1>6

LEMMA UnlinkKeeps ==
    ASSUME Core, NEW c \in Callers, Unlink(c)
    PROVE  Core'
  <1> DEFINE b == mem[c]
             p == block[b].last
             q == block[b].next
             After(x, y) == x[1] = LastPage(y, block'[y]) /\ x[2] >= EndOffset(y, block'[y])
  <1>1. b \in Live /\ at[c] = "unlink" /\ give[c] = {}
    BY DEF Unlink, Core, Placed
  <1>2. /\ Live \subseteq Addr /\ \A a \in Live : block[a] \in Header
        /\ NoBlock \notin Live
    BY LengthParts DEF Core, HeapTypeOK
  <1>3. /\ p # NoBlock => p \in Live /\ block[p].next = b
        /\ q # NoBlock => q \in Live /\ block[q].last = b
    BY <1>1 DEF Core, Linked
  <1>4. PICK rank \in [Live -> Nat] :
            \A a \in Live : block[a].next # NoBlock => rank[a] < rank[block[a].next]
    BY DEF Core, Linked
  <1>5. /\ p # b /\ q # b
        /\ p # NoBlock /\ q # NoBlock => p # q /\ rank[p] < rank[q]
    BY <1>1, <1>2, <1>3, <1>4
  <1>6. Live' = Live \ {b} /\ pos' = IF q = NoBlock THEN p ELSE pos
    BY DEF Unlink, Live
  <1>7. \A a \in Live' :
            /\ block'[a].num = block[a].num /\ block'[a].end = block[a].end
            /\ block'[a].next = IF a = p THEN q ELSE block[a].next
            /\ block'[a].last = IF a = q THEN p ELSE block[a].last
            /\ block'[a] \in [num : Nat \ {0}, end : 1 .. PageSize,
                              last : {p, block[a].last}, next : {q, block[a].next}]
    <2>2. ASSUME NEW a \in Live'
          PROVE  block'[a] = [block[a] EXCEPT !.next = IF a = p THEN q ELSE block[a].next,
                                              !.last = IF a = q THEN p ELSE block[a].last]
      BY DEF Unlink, Live
    <2>3. SUFFICES ASSUME NEW a \in Live' PROVE
            /\ block'[a].num = block[a].num /\ block'[a].end = block[a].end
            /\ block'[a].next = IF a = p THEN q ELSE block[a].next
            /\ block'[a].last = IF a = q THEN p ELSE block[a].last
            /\ block'[a] \in [num : Nat \ {0}, end : 1 .. PageSize,
                              last : {p, block[a].last}, next : {q, block[a].next}]
      OBVIOUS
    <2>4. block[a] \in Header
      BY <1>2, <1>6
    <2> DEFINE x == IF a = p THEN q ELSE block[a].next
               y == IF a = q THEN p ELSE block[a].last
    <2>5. block'[a] = [block[a] EXCEPT !.next = x, !.last = y]
      BY <2>2
    <2>6. x \in {q, block[a].next} /\ y \in {p, block[a].last}
      OBVIOUS
    <2> HIDE DEF x, y
    <2>7. /\ block'[a].num = block[a].num /\ block'[a].end = block[a].end
          /\ block'[a].next = x /\ block'[a].last = y
          /\ block'[a] \in [num : Nat \ {0}, end : 1 .. PageSize, last : {y}, next : {x}]
      BY <2>4, <2>5 DEF Header
    <2>8. block'[a] \in [num : Nat \ {0}, end : 1 .. PageSize,
                         last : {p, block[a].last}, next : {q, block[a].next}]
      BY <2>6, <2>7
    <2> QED
      BY <2>7, <2>8 DEF x, y
  <1>8. /\ \A a \in Live' : /\ LastPage(a, block'[a]) = LastPage(a, block[a])
                            /\ EndOffset(a, block'[a]) = EndOffset(a, block[a])
                            /\ PagesOf(a, block'[a]) = PagesOf(a, block[a])
        /\ \A x, y \in Live' : After(x, y) <=> Follows(x, y)
    BY <1>7 DEF LastPage, EndOffset, PagesOf, Follows
  <1>9. /\ at' = [at EXCEPT ![c] = "give"] /\ give' = [give EXCEPT ![c] = Given(b)]
        /\ held' = held /\ mem' = mem /\ want' = want
        /\ \A d \in Callers \ {c} : at[d] \notin Inside
    BY <1>1 DEF Unlink, Goto, Core, OneInside, Inside
  <1>10. HeapTypeOK'
    <2>1. p \in Addr \cup {NoBlock} /\ q \in Addr \cup {NoBlock}
      BY <1>2, <1>3
    <2>2. \A a \in Live' : block[a].last \in Addr \cup {NoBlock} /\ block[a].next \in Addr \cup {NoBlock}
      BY <1>2, <1>6 DEF Header
    <2>3. \A a \in Live' : block'[a] \in Header
      BY <2>1, <2>2, <1>7 DEF Header
    <2>4. pos' \in Live' \cup {NoBlock}
      BY <1>1, <1>3, <1>5, <1>6 DEF Core, HeapTypeOK, Linked
    <2>5. Given(b) \subseteq Nat
      BY <1>1, GivenPages
    <2> QED
      BY <2>3, <2>4, <2>5, <1>2, <1>6, <1>9 DEF Core, HeapTypeOK
  <1>11. Shape'
    BY <1>6, <1>7 DEF Core, Shape
  <1>12. Linked'
    <2>1. ASSUME NEW a \in Live', block'[a].next # NoBlock
          PROVE  block'[a].next \in Live' /\ block'[block'[a].next].last = a
      <3>1. CASE a = p
        BY <3>1, <2>1, <1>3, <1>5, <1>6, <1>7
      <3>2. CASE a # p
        <4>1. /\ block'[a].next = block[a].next /\ block[a].next \in Live
              /\ block[block[a].next].last = a
          BY <3>2, <2>1, <1>6, <1>7 DEF Core, Linked
        <4>2. block[a].next # b /\ block[a].next # q
          BY <4>1, <3>2, <1>2, <1>3, <1>6
        <4> QED
          BY <4>1, <4>2, <1>6, <1>7
      <3> QED
        BY <3>1, <3>2
    <2>2. ASSUME NEW a \in Live', block'[a].last # NoBlock
          PROVE  block'[a].last \in Live' /\ block'[block'[a].last].next = a
      <3>1. CASE a = q
        BY <3>1, <2>2, <1>3, <1>5, <1>6, <1>7
      <3>2. CASE a # q
        <4>1. /\ block'[a].last = block[a].last /\ block[a].last \in Live
              /\ block[block[a].last].next = a
          BY <3>2, <2>2, <1>6, <1>7 DEF Core, Linked
        <4>2. block[a].last # b /\ block[a].last # p
          BY <4>1, <3>2, <1>2, <1>3, <1>6
        <4> QED
          BY <4>1, <4>2, <1>6, <1>7
      <3> QED
        BY <3>1, <3>2
    <2>3. ASSUME NEW a \in Live'
          PROVE  block'[a].next = NoBlock <=> a = pos'
      BY <1>1, <1>2, <1>3, <1>6, <1>7 DEF Core, Linked
    <2>4. \E new \in [Live' -> Nat] :
             \A a \in Live' : block'[a].next # NoBlock => new[a] < new[block'[a].next]
      <3> DEFINE new == [a \in Live' |-> rank[a]]
      <3>1. new \in [Live' -> Nat]
        BY <1>4, <1>6
      <3>2. ASSUME NEW a \in Live', block'[a].next # NoBlock
            PROVE  new[a] < new[block'[a].next]
        <4>1. block'[a].next \in Live'
          BY <2>1, <3>2
        <4>2. rank[a] < rank[block'[a].next]
          BY <3>2, <1>2, <1>3, <1>4, <1>5, <1>6, <1>7
        <4> QED
          BY <4>1, <4>2
      <3> QED
        BY <3>1, <3>2
    <2> QED
      BY <2>1, <2>2, <2>3, <2>4 DEF Linked, Live
  <1>13. Neighbours'
    <2>1. ASSUME NEW a \in Live', NEW x \in Live', After(a, x)
          PROVE  /\ block'[a].last # NoBlock
                 /\ LastPage(block'[a].last, block'[block'[a].last]) = a[1]
                 /\ block'[a].last = x \/ After(block'[a].last, x)
      <3>1. /\ block[a].last \in Live /\ block[block[a].last].next = a
            /\ LastPage(block[a].last, block[block[a].last]) = a[1]
            /\ block[a].last = x \/ Follows(block[a].last, x)
        BY <2>1, <1>6, <1>8 DEF Core, Neighbours, Linked
      <3>2. CASE a = q
        <4>1. block[a].last = b /\ Follows(b, x)
          BY <3>1, <3>2, <1>2, <1>3, <1>6
        <4>2. /\ p # NoBlock /\ LastPage(p, block[p]) = b[1] /\ (p = x \/ Follows(p, x))
              /\ b[1] = a[1]
          BY <4>1, <2>1, <1>1, <1>6, <1>8 DEF Core, Neighbours, Follows
        <4> QED
          BY <3>2, <4>2, <1>3, <1>5, <1>6, <1>7, <1>8
      <3>3. CASE a # q
        <4>1. block[a].last # b
          BY <3>1, <3>3
        <4> QED
          BY <3>1, <3>3, <4>1, <1>2, <1>6, <1>7, <1>8
      <3> QED
        BY <3>2, <3>3
    <2>2. ASSUME NEW a \in Live', NEW x \in Live', After(a, x)
          PROVE  /\ block'[x].next # NoBlock
                 /\ block'[x].next[1] = a[1]
                 /\ block'[x].next = a \/ After(a, block'[x].next)
      <3>1. /\ block[x].next \in Live /\ block[block[x].next].last = x
            /\ block[x].next[1] = a[1]
            /\ block[x].next = a \/ Follows(a, block[x].next)
        BY <2>2, <1>6, <1>8 DEF Core, Neighbours, Linked
      <3>2. CASE x = p
        <4>1. block[x].next = b /\ Follows(a, b)
          BY <3>1, <3>2, <1>2, <1>3, <1>6
        <4>2. q # NoBlock /\ q[1] = a[1] /\ (q = a \/ Follows(a, q))
          BY <4>1, <1>1, <1>6 DEF Core, Neighbours
        <4> QED
          BY <3>2, <4>2, <1>3, <1>5, <1>6, <1>7, <1>8
      <3>3. CASE x # p
        <4>1. block[x].next # b
          BY <3>1, <3>3
        <4> QED
          BY <3>1, <3>3, <4>1, <1>2, <1>6, <1>7, <1>8
      <3> QED
        BY <3>2, <3>3
    <2> QED
      BY <2>1, <2>2 DEF Neighbours, Follows, LastPage, EndOffset
  <1>14. Separate'
    <2>1. ASSUME NEW a \in Live', NEW x \in Live', a # x
          PROVE  After(a, x) \/ After(x, a) \/ PagesOf(a, block'[a]) \cap PagesOf(x, block'[x]) = {}
      BY <2>1, <1>6, <1>8 DEF Core, Separate
    <2> QED
      BY <2>1 DEF Separate, Follows, LastPage, EndOffset, PagesOf
  <1>15. Placed'
    BY <1>9 DEF Core, Placed, HeapTypeOK, Inside
  <1>16. OneInside'
    BY <1>9 DEF Core, OneInside, HeapTypeOK, Inside
  <1>17. Accounts'
    <2>1. /\ Passing(c)' = Given(b) /\ Passing(c) = {}
          /\ \A d \in Callers \ {c} : Passing(d)' = Passing(d)
      BY <1>1, <1>9 DEF Core, HeapTypeOK, Passing, PagesOf, LastPage
    <2>2. /\ Given(b) \subseteq PagesOf(b, block[b])
          /\ \A a \in Live' : Given(b) \cap PagesOf(a, block[a]) = {}
          /\ \A x \in PagesOf(b, block[b]) \ Given(b) : \E a \in Live' : x \in PagesOf(a, block[a])
      BY <1>1, <1>6, GivenPages
    <2>3. /\ \A x \in held : (\E a \in Live : x \in PagesOf(a, block[a])) \/ \E d \in Callers : x \in Passing(d)
          /\ \A a \in Live : PagesOf(a, block[a]) \subseteq held
          /\ \A d \in Callers : Passing(d) \subseteq held
      BY DEF Core, Accounts
    <2>4. \A x \in held : (\E a \in Live' : x \in PagesOf(a, block'[a])) \/ \E d \in Callers : x \in Passing(d)'
      BY <2>1, <2>2, <2>3, <1>6, <1>8
    <2>5. /\ \A a \in Live' : PagesOf(a, block'[a]) \subseteq held
          /\ \A d \in Callers : Passing(d)' \subseteq held
      BY <2>1, <2>2, <2>3, <1>1, <1>6, <1>8
    <2>6. held' = UNION ({PagesOf(a, block'[a]) : a \in Live'} \cup {Passing(d)' : d \in Callers})
      BY <2>4, <2>5, <1>9
    <2>7. ASSUME NEW d \in Callers, NEW a \in Live'
          PROVE  Passing(d)' \cap PagesOf(a, block'[a]) = {}
      BY <2>1, <2>2, <1>6, <1>8 DEF Core, Accounts
    <2>8. \A d, e \in Callers : d # e => Passing(d)' \cap Passing(e)' = {}
      BY <2>1, <2>2, <1>1 DEF Core, Accounts
    <2> QED
      BY <2>6, <2>7, <2>8 DEF Accounts, PagesOf, LastPage
  <1> QED
    BY <1>10, <1>11, <1>12, <1>13, <1>14, <1>15, <1>16, <1>17 DEF Core

-----------------------------------------------------------------------------
LEMMA HeapStart == HeapInit => HInv
  <1> SUFFICES ASSUME HeapInit PROVE Core
    BY DEF HInv
  <1>1. Live = {} /\ pos = NoBlock
    BY DEF HeapInit, Live
  <1>2. HeapTypeOK
    BY <1>1 DEF HeapInit, HeapTypeOK
  <1>3. Linked
    <2>1. [a \in Live |-> 0] \in [Live -> Nat]
      OBVIOUS
    <2> QED
      BY <1>1, <2>1 DEF Linked
  <1>4. \A c \in Callers : Passing(c) = {}
    BY DEF HeapInit, Passing
  <1>5. Accounts
    BY <1>1, <1>4 DEF Accounts, HeapInit
  <1> QED
    BY <1>1, <1>2, <1>3, <1>5
       DEF Core, Shape, Neighbours, Separate, Placed, OneInside, HeapInit, Inside

LEMMA HeapStep == HInv /\ [HeapNext]_heapVars => HInv'
  <1> SUFFICES ASSUME HInv, [HeapNext]_heapVars, ~raced'
               PROVE  Core'
    BY DEF HInv
  <1>1. CASE UNCHANGED heapVars
    <2>1. Core
      BY <1>1 DEF HInv, heapVars
    <2>2. /\ UNCHANGED list
          /\ \A c \in Callers : Passing(c)' = Passing(c)
      BY <1>1 DEF heapVars, list, Passing, PagesOf, LastPage
    <2>3. Shape' /\ Linked' /\ Neighbours' /\ Separate'
      BY <2>1, <2>2, ListKept
    <2> QED
      BY <1>1, <2>1, <2>2, <2>3
         DEF heapVars, Core, HeapTypeOK, Placed, OneInside, Accounts, Live, Rest, PagesOf, LastPage, EndOffset
  <1>2. ASSUME NEW c \in Callers, NEW len \in Lengths, MallocTail(c, len)
        PROVE  Core'
    BY <1>2, MallocTailKeeps DEF HInv, MallocTail
  <1>3. ASSUME NEW c \in Callers, NEW len \in Lengths, MallocPages(c, len)
        PROVE  Core'
    BY <1>3, MallocPagesKeeps DEF HInv, MallocPages
  <1>4. ASSUME NEW c \in Callers, Grant(c)
        PROVE  Core'
    BY <1>4, GrantKeeps DEF HInv, Grant
  <1>5. ASSUME NEW c \in Callers, Refuse(c)
        PROVE  Core'
    BY <1>5, RefuseKeeps DEF HInv, Refuse
  <1>6. ASSUME NEW c \in Callers, Fresh(c)
        PROVE  Core'
    BY <1>6, FreshKeeps DEF HInv, Fresh
  <1>7. ASSUME NEW c \in Callers, Link(c)
        PROVE  Core'
    BY <1>7, LinkKeeps DEF HInv, Link
  <1>8. ASSUME NEW c \in Callers, NEW b \in Live, Free(c, b)
        PROVE  Core'
    BY <1>8, FreeKeeps DEF HInv, Free
  <1>9. ASSUME NEW c \in Callers, Unlink(c)
        PROVE  Core'
    BY <1>9, UnlinkKeeps DEF HInv, Unlink
  <1>10. ASSUME NEW c \in Callers, GiveBack(c)
         PROVE  Core'
    BY <1>10, GiveBackKeeps DEF HInv, GiveBack
  <1> QED
    BY <1>1, <1>2, <1>3, <1>4, <1>5, <1>6, <1>7, <1>8, <1>9, <1>10 DEF HeapNext

(* kmalloc and kfree keep the structure of the heap as long as no two        *)
(* callers have been inside the sections of the list at once.                *)
THEOREM HeapInvariant == HeapSpec => []HInv
  BY HeapStart, HeapStep, PTL DEF HeapSpec

(* kmalloc (alloc.c:27-49): two blocks never share a byte.                   *)
THEOREM BlocksStayApart == HeapSpec => []BlocksApart
  <1>1. HInv => BlocksApart
    BY DEF HInv, Core, Separate, BlocksApart
  <1> QED
    BY <1>1, HeapInvariant, PTL

(* kfree (alloc.c:51-79): a page of the heap goes back to the window exactly *)
(* when its last block is freed.                                             *)
THEOREM PagesExact == HeapSpec => []PagesHeld
  <1>1. HInv => PagesHeld
    BY DEF HInv, Core, Accounts, PagesHeld
  <1> QED
    BY <1>1, HeapInvariant, PTL

-----------------------------------------------------------------------------
(* Programs as callers of the heap.                                          *)
(* Steps at which a process has no path in the heap.                         *)
WithoutPath == {"boot", "over", "path", "nopath", "user"}

(* The blocks of the heap are the paths, each of one program; a call of the  *)
(* heap in the middle belongs to the step its caller is at.                  *)
Owned ==
    /\ Live = {path[j] : j \in Callers} \ {NoBlock}
    /\ \A j, k \in Callers : j # k /\ path[j] = path[k] => path[j] = NoBlock
    /\ \A j \in Callers :
        /\ step[j] \in Reading => path[j] # NoBlock
        /\ step[j] \in WithoutPath => path[j] = NoBlock
        /\ at[j] \in {"pages", "fresh", "link"} => step[j] \in {"boot", "path"}
        /\ at[j] = "unlink" => mem[j] = path[j] /\ step[j] \in {"ready", "giveup"}
        /\ at[j] = "give" => step[j] \in {"ready", "giveup"}

PathInv ==
    /\ DOMAIN step = Callers /\ DOMAIN path = Callers
    /\ ~raced => Owned

-----------------------------------------------------------------------------
(* Every step of a program is a step of the heap or leaves the heap alone.   *)
LEMMA LoaderStep == [LoaderNext]_allVars => [HeapNext]_heapVars
  <1> SUFFICES ASSUME [LoaderNext]_allVars PROVE [HeapNext]_heapVars
    OBVIOUS
  <1>1. CASE UNCHANGED allVars
    BY <1>1 DEF allVars
  <1>2. ASSUME NEW j \in Callers, Malloc(j) \/ MallocGoesOn(j) \/ MallocFails(j) \/ MallocDone(j)
        PROVE  HeapNext
    BY <1>2 DEF Malloc, MallocGoesOn, MallocFails, MallocDone, HeapNext
  <1>3. ASSUME NEW j \in Callers, FreePath(j) \/ FreeGoesOn(j) \/ FreeDone(j)
        PROVE  HeapNext
    <2>1. ASSUME NEW b, Free(j, b) PROVE b \in Live
      BY <2>1 DEF Free
    <2> QED
      BY <1>3, <2>1 DEF FreePath, FreeGoesOn, FreeDone, HeapNext
  <1>4. ASSUME NEW j \in Callers,
               \/ Exec(j) \/ Create(j) \/ CreateFails(j) \/ ReadHeader(j) \/ NotElf(j) \/ ReadFails(j)
               \/ NextSegment(j) \/ MapSegment(j) \/ MapFails(j) \/ FillSegment(j) \/ FillFails(j)
               \/ Loaded(j) \/ EnterUser(j) \/ Exit(j)
        PROVE  UNCHANGED heapVars
    BY <1>4 DEF Exec, Create, CreateFails, ReadHeader, NotElf, ReadFails, NextSegment, MapSegment,
                MapFails, FillSegment, FillFails, Loaded, EnterUser, Exit
  <1> QED
    BY <1>1, <1>2, <1>3, <1>4 DEF LoaderNext

(* exec and exec_exit with the loader (exec.c:21-117, elf.c:80-136) use the  *)
(* heap as any caller may: programs that start at once are an instance of    *)
(* the heap's specification.                                                 *)
THEOREM LoaderImplementsHeap == LoaderSpec => HeapSpec
  <1>1. LoaderInit => HeapInit
    BY DEF LoaderInit
  <1> QED
    BY <1>1, LoaderStep, PTL DEF LoaderSpec, HeapSpec

(* kmalloc (alloc.c:27-49): whatever programs start, fail and end, two       *)
(* blocks of the heap never share a byte.                                    *)
THEOREM LoaderBlocksApart == LoaderSpec => []BlocksApart
  BY LoaderImplementsHeap, BlocksStayApart, PTL

(* kfree (alloc.c:51-79): the heap has exactly the pages of its blocks.      *)
THEOREM LoaderPagesHeld == LoaderSpec => []PagesHeld
  BY LoaderImplementsHeap, PagesExact, PTL

-----------------------------------------------------------------------------
(* Steps that leave the heap and the paths alone: j goes from one step to    *)
(* another that promises no more about its path.                             *)
LEMMA PathKept ==
    ASSUME PathInv, ~raced, UNCHANGED <<heapVars, path>>, NEW j \in Callers, NEW there,
           Step(j, there), at[j] = "out",
           there \in Reading => path[j] # NoBlock,
           there \in WithoutPath => path[j] = NoBlock
    PROVE  PathInv'
  <1>1. /\ pos' = pos /\ Live' = Live /\ at' = at /\ mem' = mem /\ path' = path /\ raced' = raced
        /\ step' = [step EXCEPT ![j] = there] /\ DOMAIN step = Callers
    BY DEF heapVars, Live, Step, PathInv
  <1>2. \A k \in Callers : step'[k] = IF k = j THEN there ELSE step[k]
    BY <1>1
  <1> QED
    BY <1>1, <1>2 DEF PathInv, Owned, Reading, WithoutPath

LEMMA PathStep == HInv /\ PathInv /\ [LoaderNext]_allVars => PathInv'
  <1> SUFFICES ASSUME HInv, PathInv, [LoaderNext]_allVars PROVE PathInv'
    OBVIOUS
  <1>1. CASE UNCHANGED allVars
    BY <1>1 DEF allVars, heapVars, loaderVars, PathInv, Owned, Live
  <1>2. ASSUME NEW j \in Callers, Malloc(j)
        PROVE  PathInv'
    <2>1. /\ ~raced /\ block' = block /\ UNCHANGED <<step, path>> /\ step[j] \in {"boot", "path"}
          /\ \E there \in {"link", "pages"} : at' = [at EXCEPT ![j] = there]
          /\ \A k \in Callers \ {j} : mem'[k] = mem[k]
      BY <1>2 DEF Malloc, MallocTail, MallocPages, EnterSection, Goto, list, loaderVars, HInv, Core, HeapTypeOK
    <2>2. \A k \in Callers \ {j} : at'[k] = at[k]
      BY <2>1 DEF HInv, Core, HeapTypeOK
    <2>3. at'[j] \in {"link", "pages"}
      BY <2>1 DEF HInv, Core, HeapTypeOK
    <2> QED
      BY <2>1, <2>2, <2>3 DEF PathInv, Owned, Live
  <1>3. ASSUME NEW j \in Callers, MallocGoesOn(j)
        PROVE  PathInv'
    <2>1. /\ ~raced /\ block' = block /\ UNCHANGED <<step, path>> /\ at[j] \in {"pages", "fresh"}
          /\ \E there \in {"link", "fresh"} : at' = [at EXCEPT ![j] = there]
          /\ \A k \in Callers \ {j} : mem'[k] = mem[k]
      BY <1>3 DEF MallocGoesOn, Grant, Fresh, EnterSection, Goto, list, loaderVars, HInv, Core, HeapTypeOK
    <2>2. \A k \in Callers \ {j} : at'[k] = at[k]
      BY <2>1 DEF HInv, Core, HeapTypeOK
    <2>3. at'[j] \in {"link", "fresh"}
      BY <2>1 DEF HInv, Core, HeapTypeOK
    <2> QED
      BY <2>1, <2>2, <2>3 DEF PathInv, Owned, Live
  <1>4. ASSUME NEW j \in Callers, MallocFails(j)
        PROVE  PathInv'
    <2>1. /\ ~raced /\ block' = block /\ UNCHANGED path /\ step[j] = "path"
          /\ step' = [step EXCEPT ![j] = "nopath"] /\ at' = [at EXCEPT ![j] = "out"]
          /\ mem' = [mem EXCEPT ![j] = NoBlock]
      BY <1>4 DEF MallocFails, Refuse, Return, Goto, Step, list
    <2>2. \A k \in Callers \ {j} : at'[k] = at[k] /\ mem'[k] = mem[k] /\ step'[k] = step[k]
      BY <2>1 DEF HInv, Core, HeapTypeOK, PathInv
    <2>3. at'[j] = "out" /\ step'[j] = "nopath"
      BY <2>1 DEF HInv, Core, HeapTypeOK, PathInv
    <2> QED
      BY <2>1, <2>2, <2>3 DEF PathInv, Owned, Live, Reading, WithoutPath
  <1>5. ASSUME NEW j \in Callers, MallocDone(j)
        PROVE  PathInv'
    <2>1. /\ ~raced /\ at[j] = "link" /\ Live' = Live \cup {mem[j]}
          /\ path' = [path EXCEPT ![j] = mem[j]]
          /\ step' = [step EXCEPT ![j] = IF j = Boot THEN "kept" ELSE "create"]
          /\ at' = [at EXCEPT ![j] = "out"] /\ mem' = [mem EXCEPT ![j] = NoBlock]
      BY <1>5 DEF MallocDone, Link, Return, Goto, Step, Live
    <2>2. Core /\ Owned
      BY <2>1 DEF HInv, PathInv
    <2>3. mem[j] \in Addr /\ mem[j] \notin Live /\ mem[j] # NoBlock
      BY <2>1, <2>2, Joins, LengthParts
    <2>4. path[j] = NoBlock
      BY <2>1, <2>2 DEF Owned, WithoutPath
    <2>5. /\ \A k \in Callers \ {j} : /\ at'[k] = at[k] /\ mem'[k] = mem[k] /\ step'[k] = step[k]
                                      /\ path'[k] = path[k]
          /\ at'[j] = "out" /\ step'[j] \in {"kept", "create"} /\ path'[j] = mem[j]
          /\ DOMAIN step' = Callers /\ DOMAIN path' = Callers
      BY <2>1, <2>2 DEF Core, HeapTypeOK, PathInv
    <2>6. \A k \in Callers : path[k] # mem[j]
      BY <2>2, <2>3 DEF Owned
    <2>7. Live' = {path'[k] : k \in Callers} \ {NoBlock}
      BY <2>1, <2>2, <2>3, <2>4, <2>5 DEF Owned
    <2> QED
      BY <2>2, <2>3, <2>5, <2>6, <2>7 DEF PathInv, Owned, Reading, WithoutPath
  <1>6. ASSUME NEW j \in Callers, FreePath(j)
        PROVE  PathInv'
    <2>1. /\ ~raced /\ block' = block /\ UNCHANGED <<step, path>> /\ step[j] \in {"ready", "giveup"}
          /\ at' = [at EXCEPT ![j] = "unlink"] /\ mem' = [mem EXCEPT ![j] = path[j]]
      BY <1>6 DEF FreePath, Free, EnterSection, Goto, list, loaderVars
    <2>2. /\ \A k \in Callers \ {j} : at'[k] = at[k] /\ mem'[k] = mem[k]
          /\ at'[j] = "unlink" /\ mem'[j] = path[j]
      BY <2>1 DEF HInv, Core, HeapTypeOK
    <2> QED
      BY <2>1, <2>2 DEF PathInv, Owned, Live
  <1>7. ASSUME NEW j \in Callers, FreeGoesOn(j)
        PROVE  PathInv'
    <2>1. /\ ~raced /\ at[j] = "unlink" /\ Live' = Live \ {mem[j]} /\ UNCHANGED <<step, mem>>
          /\ path' = [path EXCEPT ![j] = NoBlock] /\ at' = [at EXCEPT ![j] = "give"]
      BY <1>7 DEF FreeGoesOn, Unlink, Goto, Live
    <2>2. Core /\ Owned
      BY <2>1 DEF HInv, PathInv
    <2>3. mem[j] = path[j] /\ step[j] \in {"ready", "giveup"} /\ mem[j] \in Live
      BY <2>1, <2>2 DEF Owned, Core, Placed
    <2>4. /\ \A k \in Callers \ {j} : at'[k] = at[k] /\ path'[k] = path[k]
          /\ at'[j] = "give" /\ path'[j] = NoBlock
          /\ DOMAIN path' = Callers
      BY <2>1, <2>2 DEF Core, HeapTypeOK, PathInv
    <2>5. Live' = {path'[k] : k \in Callers} \ {NoBlock}
      BY <2>1, <2>2, <2>3, <2>4 DEF Owned
    <2> QED
      BY <2>1, <2>2, <2>3, <2>4, <2>5 DEF PathInv, Owned, Reading
  <1>8. ASSUME NEW j \in Callers, FreeDone(j)
        PROVE  PathInv'
    <2>1. /\ ~raced /\ block' = block /\ UNCHANGED <<step, path>>
          /\ at' = [at EXCEPT ![j] = "out"] /\ mem' = [mem EXCEPT ![j] = NoBlock]
      BY <1>8 DEF FreeDone, GiveBack, Return, Goto, list, loaderVars
    <2>2. /\ \A k \in Callers \ {j} : at'[k] = at[k] /\ mem'[k] = mem[k]
          /\ at'[j] = "out"
      BY <2>1 DEF HInv, Core, HeapTypeOK
    <2> QED
      BY <2>1, <2>2 DEF PathInv, Owned, Live
  <1>9. ASSUME NEW j \in Callers, Exec(j) \/ Create(j) \/ CreateFails(j)
        PROVE  PathInv'
    <2>1. /\ ~raced /\ at[j] = "out" /\ UNCHANGED <<heapVars, path>>
          /\ \/ step[j] = "over" /\ Step(j, "path")
             \/ step[j] = "create" /\ Step(j, "open")
             \/ step[j] = "create" /\ Step(j, "noprocess")
      BY <1>9 DEF Exec, Create, CreateFails, At
    <2> QED
      BY <2>1, PathKept DEF PathInv, Owned, Reading, WithoutPath
  <1>10. ASSUME NEW j \in Callers, ReadHeader(j) \/ NotElf(j) \/ ReadFails(j)
         PROVE  PathInv'
    <2>1. /\ ~raced /\ at[j] = "out" /\ UNCHANGED <<heapVars, path>>
          /\ step[j] \in Reading
          /\ Step(j, "segs") \/ Step(j, "giveup")
      BY <1>10 DEF ReadHeader, NotElf, ReadFails, At, GiveUp, Reading
    <2> QED
      BY <2>1, PathKept DEF PathInv, Owned, Reading, WithoutPath
  <1>11. ASSUME NEW j \in Callers, NextSegment(j)
         PROVE  PathInv'
    <2>1. ~raced /\ at[j] = "out" /\ UNCHANGED <<heapVars, path>> /\ step[j] = "segs"
      BY <1>11 DEF NextSegment, At
    <2>2. CASE Step(j, "map")
      BY <2>1, <2>2, PathKept DEF PathInv, Owned, Reading, WithoutPath
    <2>3. CASE UNCHANGED step
      BY <2>1, <2>3 DEF PathInv, Owned, Live, heapVars
    <2> QED
      BY <1>11, <2>2, <2>3 DEF NextSegment
  <1>12. ASSUME NEW j \in Callers,
                MapSegment(j) \/ MapFails(j) \/ FillSegment(j) \/ FillFails(j) \/ Loaded(j)
         PROVE  PathInv'
    <2>1. /\ ~raced /\ at[j] = "out" /\ UNCHANGED <<heapVars, path>>
          /\ step[j] \in Reading
          /\ Step(j, "fill") \/ Step(j, "segs") \/ Step(j, "giveup") \/ Step(j, "ready")
      BY <1>12 DEF MapSegment, MapFails, FillSegment, FillFails, Loaded, At, GiveUp, Reading
    <2> QED
      BY <2>1, PathKept DEF PathInv, Owned, Reading, WithoutPath
  <1>13. ASSUME NEW j \in Callers, EnterUser(j) \/ Exit(j)
         PROVE  PathInv'
    <2>1. /\ ~raced /\ at[j] = "out" /\ UNCHANGED <<heapVars, path>>
          /\ step[j] = "user" \/ path[j] = NoBlock
          /\ Step(j, "user") \/ Step(j, "over")
      BY <1>13 DEF EnterUser, Exit, At
    <2> QED
      BY <2>1, PathKept DEF PathInv, Owned, Reading, WithoutPath
  <1> QED
    BY <1>1, <1>2, <1>3, <1>4, <1>5, <1>6, <1>7, <1>8, <1>9, <1>10, <1>11, <1>12, <1>13 DEF LoaderNext

(* elf_exec (elf.c:80-136) reads the file by the copy of its path: as long   *)
(* as it does, the copy is a block of the heap and nobody else's.            *)
THEOREM PathStaysAlive == LoaderSpec => []PathAlive
  <1>1. LoaderInit => HInv /\ PathInv
    <2>1. LoaderInit => HInv
      BY HeapStart DEF LoaderInit
    <2>2. LoaderInit => PathInv
      BY DEF LoaderInit, HeapInit, PathInv, Owned, Live, Reading, WithoutPath
    <2> QED
      BY <2>1, <2>2
  <1>2. HInv /\ PathInv /\ [LoaderNext]_allVars => (HInv /\ PathInv)'
    BY HeapStep, LoaderStep, PathStep
  <1>3. PathInv => PathAlive
    <2>1. ASSUME PathInv, ~raced, NEW j \in Jobs, step[j] \in Reading
          PROVE  path[j] \in Live /\ \A k \in Callers \ {j} : path[k] # path[j]
      BY <2>1 DEF PathInv, Owned, Jobs
    <2> QED
      BY <2>1 DEF PathAlive
  <1> QED
    BY <1>1, <1>2, <1>3, PTL DEF LoaderSpec

-----------------------------------------------------------------------------
(* Where a program stands says what it holds: its page directory, its path,  *)
(* and a segment in the kernel window while it fills one.                    *)
Settled(j) ==
    /\ step[j] \in {"path", "nopath"} => pde[j]
    /\ step[j] \in {"over", "noprocess"} => ~pde[j]
    /\ step[j] \in {"over", "nopath"} => path[j] = NoBlock
    /\ step[j] = "noprocess" => path[j] # NoBlock
    /\ win[j] => step[j] = "fill"

HoldsInv ==
    /\ DOMAIN step = Callers /\ DOMAIN path = Callers
    /\ pde \in [Callers -> BOOLEAN] /\ win \in [Callers -> BOOLEAN]
    /\ \A j \in Callers : Settled(j)

(* A step of program j alone keeps what holds of the others.                 *)
LEMMA OthersSettled ==
    ASSUME HoldsInv, NEW j \in Callers,
           DOMAIN step' = Callers, DOMAIN path' = Callers,
           pde' \in [Callers -> BOOLEAN], win' \in [Callers -> BOOLEAN],
           \A k \in Callers \ {j} : /\ step'[k] = step[k] /\ path'[k] = path[k]
                                    /\ pde'[k] = pde[k] /\ win'[k] = win[k],
           Settled(j)'
    PROVE  HoldsInv'
  BY DEF HoldsInv, Settled

LEMMA HoldsStep == PathInv /\ HoldsInv /\ [LoaderNext]_allVars => HoldsInv'
  <1> SUFFICES ASSUME PathInv, HoldsInv, [LoaderNext]_allVars PROVE HoldsInv'
    OBVIOUS
  <1> USE DEF HoldsInv
  <1>1. ASSUME UNCHANGED loaderVars
        PROVE  HoldsInv'
    BY <1>1 DEF loaderVars, Settled
  <1>2. ASSUME NEW j \in Callers, Malloc(j) \/ MallocGoesOn(j) \/ FreePath(j) \/ FreeDone(j)
        PROVE  HoldsInv'
    BY <1>1, <1>2 DEF Malloc, MallocGoesOn, FreePath, FreeDone
  <1>3. ASSUME NEW j \in Callers, MallocFails(j)
        PROVE  HoldsInv'
    <2>1. /\ ~raced /\ step[j] = "path" /\ step' = [step EXCEPT ![j] = "nopath"]
          /\ UNCHANGED <<path, pde, win>>
      BY <1>3 DEF MallocFails, Refuse, Step
    <2>2. path[j] = NoBlock
      BY <2>1 DEF PathInv, Owned, WithoutPath
    <2> QED
      BY <2>1, <2>2, OthersSettled DEF Settled
  <1>4. ASSUME NEW j \in Callers, MallocDone(j)
        PROVE  HoldsInv'
    <2>1. /\ ~raced /\ at[j] = "link" /\ UNCHANGED <<pde, win>>
          /\ path' = [path EXCEPT ![j] = mem[j]]
          /\ \E there \in {"kept", "create"} : step' = [step EXCEPT ![j] = there]
      BY <1>4 DEF MallocDone, Link, Step
    <2>2. step[j] \in {"boot", "path"}
      BY <2>1 DEF PathInv, Owned
    <2> QED
      BY <2>1, <2>2, OthersSettled DEF Settled
  <1>5. ASSUME NEW j \in Callers, FreeGoesOn(j)
        PROVE  HoldsInv'
    <2>1. /\ ~raced /\ at[j] = "unlink" /\ UNCHANGED <<step, pde, win>>
          /\ path' = [path EXCEPT ![j] = NoBlock]
      BY <1>5 DEF FreeGoesOn, Unlink
    <2>2. step[j] \in {"ready", "giveup"}
      BY <2>1 DEF PathInv, Owned
    <2> QED
      BY <2>1, <2>2, OthersSettled DEF Settled
  <1>6. ASSUME NEW j \in Callers, Exec(j) \/ Create(j) \/ CreateFails(j)
        PROVE  HoldsInv'
    <2>1. /\ ~raced /\ UNCHANGED <<path, win>>
          /\ \/ /\ step[j] = "over" /\ step' = [step EXCEPT ![j] = "path"]
                /\ pde' = [pde EXCEPT ![j] = TRUE]
             \/ step[j] = "create" /\ step' = [step EXCEPT ![j] = "open"] /\ UNCHANGED pde
             \/ /\ step[j] = "create" /\ step' = [step EXCEPT ![j] = "noprocess"]
                /\ pde' = [pde EXCEPT ![j] = FALSE]
      BY <1>6 DEF Exec, Create, CreateFails, At, Step
    <2>2. step[j] = "create" => path[j] # NoBlock
      BY <2>1 DEF PathInv, Owned, Reading
    <2> QED
      BY <2>1, <2>2, OthersSettled DEF Settled
  <1>7. ASSUME NEW j \in Callers,
               \/ ReadHeader(j) \/ NotElf(j) \/ ReadFails(j) \/ NextSegment(j) \/ MapFails(j)
               \/ Loaded(j) \/ EnterUser(j)
        PROVE  HoldsInv'
    <2>1. /\ step[j] \in {"open", "segs", "map", "ready"} /\ UNCHANGED <<path, pde, win>>
          /\ \/ \E there \in {"segs", "giveup", "map", "ready", "user"} :
                    step' = [step EXCEPT ![j] = there]
             \/ UNCHANGED step
      BY <1>7 DEF ReadHeader, NotElf, ReadFails, NextSegment, MapFails, Loaded, EnterUser, GiveUp, At, Step
    <2> QED
      BY <2>1, OthersSettled DEF Settled
  <1>8. ASSUME NEW j \in Callers, MapSegment(j) \/ FillSegment(j) \/ FillFails(j)
        PROVE  HoldsInv'
    <2>1. /\ UNCHANGED <<path, pde>>
          /\ \/ step' = [step EXCEPT ![j] = "fill"] /\ win' = [win EXCEPT ![j] = TRUE]
             \/ \E there \in {"segs", "giveup"} :
                    step' = [step EXCEPT ![j] = there] /\ win' = [win EXCEPT ![j] = FALSE]
      BY <1>8 DEF MapSegment, FillSegment, FillFails, GiveUp, Step
    <2> QED
      BY <2>1, OthersSettled DEF Settled
  <1>9. ASSUME NEW j \in Callers, Exit(j)
        PROVE  HoldsInv'
    <2>1. /\ ~raced /\ (step[j] = "user" \/ (step[j] = "giveup" /\ path[j] = NoBlock))
          /\ UNCHANGED <<path, win>> /\ pde' = [pde EXCEPT ![j] = FALSE]
          /\ step' = [step EXCEPT ![j] = "over"]
      BY <1>9 DEF Exit, At, Step
    <2>2. path[j] = NoBlock
      BY <2>1 DEF PathInv, Owned, WithoutPath
    <2> QED
      BY <2>1, <2>2, OthersSettled DEF Settled
  <1> QED
    BY <1>1, <1>2, <1>3, <1>4, <1>5, <1>6, <1>7, <1>8, <1>9 DEF LoaderNext, allVars

(* exec and exec_exit (exec.c:21-117): whatever fails, a program that is     *)
(* over keeps only what those two places leave behind, and the heap holds    *)
(* the paths and nothing else.                                               *)
THEOREM NothingStaysBehind == LoaderSpec => []NothingKept
  <1>1. LoaderInit => HInv /\ PathInv /\ HoldsInv
    <2>1. LoaderInit => HInv
      BY HeapStart DEF LoaderInit
    <2>2. LoaderInit => PathInv
      BY DEF LoaderInit, HeapInit, PathInv, Owned, Live, Reading, WithoutPath
    <2>3. LoaderInit => HoldsInv
      BY DEF LoaderInit, HoldsInv, Settled
    <2> QED
      BY <2>1, <2>2, <2>3
  <1>2. HInv /\ PathInv /\ HoldsInv /\ [LoaderNext]_allVars => (HInv /\ PathInv /\ HoldsInv)'
    BY HeapStep, LoaderStep, PathStep, HoldsStep
  <1>3. PathInv /\ HoldsInv => NothingKept
    <2>1. ASSUME HoldsInv, NEW j \in Jobs, step[j] \in {"over", "nopath", "noprocess"}
          PROVE  /\ pde[j] = (step[j] = "nopath")
                 /\ (path[j] # NoBlock) = (step[j] = "noprocess")
                 /\ ~win[j]
      <3>1. Settled(j) /\ pde[j] \in BOOLEAN
        BY <2>1 DEF HoldsInv, Jobs
      <3> QED
        BY <2>1, <3>1 DEF Settled
    <2> QED
      BY <2>1 DEF NothingKept, PathInv, Owned
  <1> QED
    BY <1>1, <1>2, <1>3, PTL DEF LoaderSpec

-----------------------------------------------------------------------------
(* What load_program has done of a file whose headers it has all read in     *)
(* full: the segments to load among the first n, and at the one it maps and  *)
(* fills, the next.                                                          *)
Before == {"boot", "kept", "over", "path", "nopath", "create", "noprocess", "open", "giveup"}
During == {"segs", "map", "fill", "ready", "user"}

LoadsOf(p, m) == {i \in 1..m : p.segs[i] = "load"}

Loading(j) ==
    /\ step[j] \in Before => n[j] = 0 /\ loaded[j] = {}
    /\ step[j] \in During => n[j] <= Len(seen[j].segs)
    /\ step[j] \in {"map", "fill"} => n[j] < Len(seen[j].segs)
    /\ step[j] \in {"ready", "user"} => n[j] = Len(seen[j].segs)
    /\ step[j] \in During /\ ~short[j] =>
        /\ seen[j] = file[j] /\ file[j].elf
        /\ loaded[j] = LoadsOf(file[j], n[j])
        /\ step[j] \in {"map", "fill"} => file[j].segs[n[j] + 1] = "load"

LoadTypeOK ==
    /\ step \in [Callers -> Before \cup During]
    /\ file \in [Callers -> Programs \cup {NoFile}] /\ seen \in [Callers -> Programs \cup {NoFile}]
    /\ n \in [Callers -> Nat] /\ loaded \in [Callers -> SUBSET Nat] /\ short \in [Callers -> BOOLEAN]

LoadInv == LoadTypeOK /\ \A j \in Callers : Loading(j)

LEMMA HeadersTyped ==
    ASSUME NEW p \in Programs \cup {NoFile}
    PROVE  p.segs \in Seq({"load", "other"}) /\ Len(p.segs) \in Nat
  <1>1. CASE p \in Programs
    <2>1. p.segs \in Seq({"load", "other"})
      BY <1>1, LoaderAssumption
    <2> QED
      BY <2>1
  <1>2. CASE p = NoFile
    <2>1. p.segs = << >>
      BY <1>2 DEF NoFile
    <2> QED
      BY <2>1
  <1> QED
    BY <1>1, <1>2

(* The next header, once it is dealt with, counts if it is one to load.      *)
LEMMA OneMoreHeader ==
    ASSUME NEW p, NEW m \in Nat
    PROVE  /\ p.segs[m + 1] = "load" => LoadsOf(p, m + 1) = LoadsOf(p, m) \cup {m + 1}
           /\ p.segs[m + 1] # "load" => LoadsOf(p, m + 1) = LoadsOf(p, m)
  <1>1. 1..(m + 1) = (1..m) \cup {m + 1}
    OBVIOUS
  <1> QED
    BY <1>1 DEF LoadsOf

(* A step of program j alone, as far as its file goes.                       *)
LEMMA OthersLoading ==
    ASSUME LoadInv, NEW j \in Callers, LoadTypeOK',
           \A k \in Callers \ {j} :
               /\ step'[k] = step[k] /\ file'[k] = file[k] /\ seen'[k] = seen[k]
               /\ n'[k] = n[k] /\ loaded'[k] = loaded[k] /\ short'[k] = short[k],
           Loading(j)'
    PROVE  LoadInv'
  BY DEF LoadInv, Loading

LEMMA LoadStep == PathInv /\ LoadInv /\ [LoaderNext]_allVars => LoadInv'
  <1> SUFFICES ASSUME PathInv, LoadInv, [LoaderNext]_allVars PROVE LoadInv'
    OBVIOUS
  <1> USE DEF LoadInv
  <1>1. ASSUME UNCHANGED <<step, progVars>>
        PROVE  LoadInv'
    BY <1>1 DEF progVars, LoadTypeOK, Loading
  <1>2. ASSUME NEW j \in Callers,
               Malloc(j) \/ MallocGoesOn(j) \/ FreePath(j) \/ FreeGoesOn(j) \/ FreeDone(j)
        PROVE  LoadInv'
    BY <1>1, <1>2 DEF Malloc, MallocGoesOn, FreePath, FreeGoesOn, FreeDone, loaderVars
  <1>3. ASSUME NEW j \in Callers, NEW there \in Before,
               step[j] \in Before, step' = [step EXCEPT ![j] = there], UNCHANGED progVars
        PROVE  LoadInv'
    BY <1>3, OthersLoading DEF progVars, LoadTypeOK, Loading, Before, During
  <1>4. ASSUME NEW j \in Callers,
               MallocFails(j) \/ MallocDone(j) \/ Exec(j) \/ Create(j) \/ CreateFails(j)
        PROVE  LoadInv'
    <2>1. \/ step[j] \in {"path", "over", "create"}
          \/ ~raced /\ at[j] = "link"
      BY <1>4 DEF MallocFails, MallocDone, Link, Exec, Create, CreateFails, At
    <2>2. step[j] \in Before
      BY <2>1 DEF PathInv, Owned, Before
    <2>3. \E there \in Before : step' = [step EXCEPT ![j] = there] /\ UNCHANGED progVars
      BY <1>4 DEF MallocFails, MallocDone, Exec, Create, CreateFails, Step, Before
    <2> QED
      BY <1>3, <2>2, <2>3
  <1>5. ASSUME NEW j \in Callers, NEW there \in Before,
               Step(j, there), ForgetFile(j)
        PROVE  LoadInv'
    BY <1>5, OthersLoading DEF Step, ForgetFile, LoadTypeOK, Loading, Before, During
  <1>6. ASSUME NEW j \in Callers, NotElf(j) \/ ReadFails(j) \/ MapFails(j) \/ FillFails(j) \/ Exit(j)
        PROVE  LoadInv'
    BY <1>5, <1>6 DEF NotElf, ReadFails, MapFails, FillFails, Exit, GiveUp, Before
  <1>7. ASSUME NEW j \in Callers, ReadHeader(j)
        PROVE  LoadInv'
    <2>1. PICK f, g \in Programs :
              /\ step[j] = "open" /\ step' = [step EXCEPT ![j] = "segs"] /\ UNCHANGED <<n, loaded>>
              /\ file' = [file EXCEPT ![j] = f] /\ seen' = [seen EXCEPT ![j] = g]
              /\ short' = [short EXCEPT ![j] = g # f] /\ g.elf
      BY <1>7 DEF ReadHeader, At, Step
    <2>2. LoadTypeOK'
      BY <2>1 DEF LoadTypeOK, During
    <2>3. n[j] = 0 /\ loaded[j] = {} /\ Len(g.segs) \in Nat
      BY <2>1, HeadersTyped DEF Loading, Before
    <2>4. LoadsOf(f, 0) = {}
      BY DEF LoadsOf
    <2>5. /\ step'[j] = "segs" /\ file'[j] = f /\ seen'[j] = g /\ n'[j] = 0 /\ loaded'[j] = {}
          /\ short'[j] = (g # f)
      BY <2>1, <2>3 DEF LoadTypeOK
    <2>6. Loading(j)'
      <3>1. 0 <= Len(g.segs)
        BY <2>3
      <3>2. ~short'[j] => /\ seen'[j] = file'[j] /\ file'[j].elf
                          /\ loaded'[j] = LoadsOf(file'[j], n'[j])
        BY <2>1, <2>4, <2>5
      <3> QED
        BY <2>5, <3>1, <3>2 DEF Loading, Before, During
    <2> QED
      BY <2>1, <2>2, <2>6, OthersLoading DEF LoadTypeOK
  <1>8. ASSUME NEW j \in Callers, NextSegment(j)
        PROVE  LoadInv'
    <2>1. PICK type \in {"load", "other"} :
              /\ step[j] = "segs" /\ n[j] < Len(seen[j].segs) /\ UNCHANGED <<file, seen, loaded>>
              /\ short' = [short EXCEPT ![j] = @ \/ type # seen[j].segs[n[j] + 1]]
              /\ IF type = "load" THEN step' = [step EXCEPT ![j] = "map"] /\ UNCHANGED n
                                  ELSE n' = [n EXCEPT ![j] = @ + 1] /\ UNCHANGED step
      BY <1>8 DEF NextSegment, At, Step
    <2>2. n[j] \in Nat /\ Len(seen[j].segs) \in Nat
      BY HeadersTyped DEF LoadTypeOK
    <2>3. short' \in [Callers -> BOOLEAN]
      BY <2>1 DEF LoadTypeOK
    <2>4. ~short'[j] => ~short[j] /\ type = seen[j].segs[n[j] + 1]
      BY <2>1 DEF LoadTypeOK
    <2>5. \A k \in Callers \ {j} : short'[k] = short[k]
      BY <2>1 DEF LoadTypeOK
    <2>6. CASE type = "load"
      <3>1. /\ step' = [step EXCEPT ![j] = "map"] /\ UNCHANGED <<n, file, seen, loaded>>
        BY <2>1, <2>6
      <3>2. LoadTypeOK' /\ step'[j] = "map"
        BY <2>3, <3>1 DEF LoadTypeOK, During
      <3>3. Loading(j)'
        BY <2>1, <2>2, <2>4, <2>6, <3>1, <3>2 DEF Loading, Before, During
      <3> QED
        BY <2>5, <3>1, <3>2, <3>3, OthersLoading DEF LoadTypeOK
    <2>7. CASE type = "other"
      <3>1. n' = [n EXCEPT ![j] = n[j] + 1] /\ UNCHANGED <<step, file, seen, loaded>>
        BY <2>1, <2>7
      <3>2. LoadTypeOK' /\ n'[j] = n[j] + 1
        BY <2>2, <2>3, <3>1 DEF LoadTypeOK
      <3>3. seen[j].segs[n[j] + 1] = "other" => LoadsOf(seen[j], n[j] + 1) = LoadsOf(seen[j], n[j])
        BY <2>2, OneMoreHeader
      <3>4. Loading(j)'
        BY <2>1, <2>2, <2>4, <2>7, <3>1, <3>2, <3>3 DEF Loading, Before, During
      <3> QED
        BY <2>5, <3>1, <3>2, <3>4, OthersLoading DEF LoadTypeOK
    <2> QED
      BY <2>6, <2>7
  <1>9. ASSUME NEW j \in Callers, MapSegment(j) \/ Loaded(j) \/ EnterUser(j)
        PROVE  LoadInv'
    <2>1. /\ UNCHANGED progVars
          /\ \/ step[j] = "map" /\ step' = [step EXCEPT ![j] = "fill"]
             \/ step[j] = "segs" /\ n[j] = Len(seen[j].segs) /\ step' = [step EXCEPT ![j] = "ready"]
             \/ step[j] = "ready" /\ step' = [step EXCEPT ![j] = "user"]
      BY <1>9 DEF MapSegment, Loaded, EnterUser, At, Step
    <2> QED
      BY <2>1, OthersLoading DEF Loading, LoadTypeOK, progVars, Before, During
  <1>10. ASSUME NEW j \in Callers, FillSegment(j)
         PROVE  LoadInv'
    <2>1. /\ step[j] = "fill" /\ step' = [step EXCEPT ![j] = "segs"] /\ UNCHANGED <<file, seen, short>>
          /\ loaded' = [loaded EXCEPT ![j] = loaded[j] \cup {n[j] + 1}]
          /\ n' = [n EXCEPT ![j] = n[j] + 1]
      BY <1>10 DEF FillSegment, At, Step
    <2>2. n[j] \in Nat /\ Len(seen[j].segs) \in Nat /\ loaded[j] \in SUBSET Nat
      BY HeadersTyped DEF LoadTypeOK
    <2>3. LoadTypeOK'
      BY <2>1, <2>2 DEF LoadTypeOK, During
    <2>4. file[j].segs[n[j] + 1] = "load" => LoadsOf(file[j], n[j] + 1) = LoadsOf(file[j], n[j]) \cup {n[j] + 1}
      BY <2>2, OneMoreHeader
    <2>5. step'[j] = "segs" /\ n'[j] = n[j] + 1 /\ loaded'[j] = loaded[j] \cup {n[j] + 1}
      BY <2>1 DEF LoadTypeOK
    <2>6. Loading(j)'
      <3>1. n[j] + 1 <= Len(seen[j].segs)
        BY <2>1, <2>2 DEF Loading
      <3>2. ~short'[j] => /\ seen'[j] = file'[j] /\ file'[j].elf
                          /\ loaded'[j] = LoadsOf(file'[j], n'[j])
        BY <2>1, <2>4, <2>5 DEF Loading, During
      <3>3. seen'[j] = seen[j]
        BY <2>1
      <3> QED
        BY <2>5, <3>1, <3>2, <3>3 DEF Loading, Before, During
    <2> QED
      BY <2>1, <2>3, <2>6, OthersLoading DEF LoadTypeOK
  <1> QED
    BY <1>1, <1>2, <1>4, <1>6, <1>7, <1>8, <1>9, <1>10 DEF LoaderNext, allVars, loaderVars

(* load_program (elf.c:39-78): a program that runs is an executable all of   *)
(* whose segments were loaded, however its reads and mappings fail, as long  *)
(* as no read of a header came back short.                                   *)
THEOREM ProgramsRunWhole == LoaderSpec => []RunsWhole
  <1>1. LoaderInit => HInv /\ PathInv /\ LoadInv
    <2>1. LoaderInit => HInv
      BY HeapStart DEF LoaderInit
    <2>2. LoaderInit => PathInv
      BY DEF LoaderInit, HeapInit, PathInv, Owned, Live, Reading, WithoutPath
    <2>3. LoaderInit => LoadInv
      BY DEF LoaderInit, LoadInv, LoadTypeOK, Loading, Before, During
    <2> QED
      BY <2>1, <2>2, <2>3
  <1>2. HInv /\ PathInv /\ LoadInv /\ [LoaderNext]_allVars => (HInv /\ PathInv /\ LoadInv)'
    BY HeapStep, LoaderStep, PathStep, LoadStep
  <1>3. LoadInv => RunsWhole
    <2>1. ASSUME LoadInv, NEW j \in Jobs, step[j] = "user", ~short[j]
          PROVE  file[j].elf /\ loaded[j] = {i \in DOMAIN file[j].segs : file[j].segs[i] = "load"}
      <3>1. /\ seen[j] = file[j] /\ file[j].elf /\ n[j] = Len(file[j].segs)
            /\ loaded[j] = LoadsOf(file[j], n[j])
        BY <2>1 DEF LoadInv, Loading, During, Jobs
      <3>2. DOMAIN file[j].segs = 1..n[j]
        BY <2>1, <3>1, HeadersTyped DEF LoadInv, LoadTypeOK, Jobs
      <3> QED
        BY <3>1, <3>2 DEF LoadsOf
    <2> QED
      BY <2>1 DEF RunsWhole
  <1> QED
    BY <1>1, <1>2, <1>3, PTL DEF LoaderSpec
=============================================================================
