---------------------------- MODULE PageAllocator ----------------------------
(***************************************************************************)
(* What the rest of the kernel relies on when it asks for physical pages:  *)
(* a page is either free or held by whoever it was granted to, never both, *)
(* and none is ever lost.  PhysMem (kernel/mm/pmm.c) implements it.        *)
(***************************************************************************)
CONSTANT Pages      \* the pages that may be granted

VARIABLES free,     \* pages nobody holds
          held      \* pages granted and not yet returned

pageVars == <<free, held>>

PagesInit == free = Pages /\ held = {}

(* Some free pages go to a caller. *)
Grant == /\ free' \subseteq free
         /\ held' = held \cup (free \ free')

(* A caller returns some of the pages it holds. *)
Return == /\ held' \subseteq held
          /\ free' = free \cup (held \ held')

PagesNext == Grant \/ Return

PagesSpec == PagesInit /\ [][PagesNext]_pageVars
=============================================================================
