------------------------------ MODULE MCFatDir ------------------------------
(***************************************************************************)
(* FatDir for TLC: a FAT16 volume of small clusters that ends with its     *)
(* drive, whose root holds every quirk, and a FAT32 volume of larger       *)
(* clusters with a root of two clusters, the last behind what Word counts. *)
(***************************************************************************)
EXTENDS FatDir, TLC

Label == Std({}, "none", 9)
One(name, std) == <<Lfn(TRUE, 1, name, std.sum), std>>
Two(first, last, std) == <<Lfn(TRUE, 2, last, std.sum), Lfn(FALSE, 1, first, std.sum), std>>

File == Std({"archive"}, "f", 1)
Other == Std({"archive"}, "g", 2)
Old == Std({}, "h", 3)
Sub == Std({"dir"}, "d", 4)

Small ==
    [clusterSectors |-> 1, dataSector |-> 3, sectors |-> 7,
     fat32 |-> FALSE, perCluster |-> 4,
     root |-> <<Label, Deleted, Lfn(TRUE, 3, "c", 1), Lfn(FALSE, 2, "b", 1),
                Lfn(TRUE, 3, "c", 1), Lfn(FALSE, 2, "b", 1), Lfn(FALSE, 1, "a", 1), File,
                Lfn(TRUE, 1, "o", 3), Other>> \o One("s", Sub) \o <<Lfn(TRUE, 2, "b", 2)>>,
     dirs |-> ("d" :> (One("x", Other) \o <<Deleted>> \o Two("a", "b", File))),
     paths |-> {<<<<"a", "b", "c">>>>, <<<<>>, <<"s">>, <<"a", "b">>>>, <<<<"s">>>>,
                <<<<"o">>>>, <<<<"a", "b">>>>, <<<<"s">>, <<"x">>, <<"x">>>>, <<>>}]

Large ==
    [clusterSectors |-> 2, dataSector |-> 3, sectors |-> 12,
     fat32 |-> TRUE, perCluster |-> 4,
     root |-> One("s", Sub) \o One("h", Old) \o <<Deleted>> \o Two("a", "b", File),
     dirs |-> ("d" :> (One("x", Old) \o One("y", Other))),
     paths |-> {<<<<"a", "b">>>>, <<<<"s">>, <<"y">>>>, <<<<"s">>>>, <<<<"h">>>>, <<>>}]

MCVolumes == {Small, Large}
Symmetry == Permutations(Callers)
=============================================================================
