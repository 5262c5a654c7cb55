------------------------------ MODULE MCLoader ------------------------------
(***************************************************************************)
(* Loader for TLC: pages of five bytes, a header one of them, paths that   *)
(* fill a page with another or not, and one that needs two pages; the jobs *)
(* are interchangeable.                                                    *)
(***************************************************************************)
EXTENDS Loader, TLC

MCLengths == {[num |-> 1, end |-> 2], [num |-> 1, end |-> 3], [num |-> 2, end |-> 2]}
MCPrograms == {[elf |-> FALSE, segs |-> <<>>],
               [elf |-> TRUE, segs |-> <<"other", "load">>]}
Starts == Permutations(Jobs)
=============================================================================
