-------------------------------- MODULE Disks --------------------------------
(***************************************************************************)
(* Finding the disks at boot: disk_create and disk_mmap of kernel/dev/     *)
(* disk.c make a disk of every drive and partition, mbr_part and gpt_part  *)
(* (kernel/dev/part) read the tables, fat_init looks for a file system,    *)
(* and exec_init takes the first disk with a program init.                 *)
(*                                                                         *)
(* mbr_part calls itself for an extended partition: the calls under way    *)
(* are a stack.  A drive's contents are what its sectors mean: a partition *)
(* table, a GPT header, a FAT header.                                      *)
(***************************************************************************)
EXTENDS Integers, Sequences, FiniteSets

CONSTANTS Machines,     \* the sequences of drives a machine can have
          Word,         \* sector numbers (_u64_t) count modulo Word
          PerSector,    \* GPT entries in a sector
          Rooms,        \* how many blocks the heap may have room for
          MaxErrors     \* bound: reads a drive answers with an error

(* What the fields of the tables can hold: _u64_t in a GPT, the _u32_t of an  *)
(* MBR and the 48 bits of IDENTIFY far below it.                             *)
MbrRow == [type : {"empty", "data", "ext", "gpt"}, first : 0 .. Word - 1, num : 0 .. Word - 1]
GptSpan == [first : 0 .. Word - 1, last : 0 .. Word - 1]
Fields(L) ==
    /\ L.present \in BOOLEAN /\ L.has28 \in BOOLEAN /\ L.has48 \in BOOLEAN
    /\ {L.lba28, L.lba48} \subseteq Nat /\ 2 * L.lba28 <= Word /\ 2 * L.lba48 <= Word
    /\ DOMAIN L.mbr \subseteq Nat /\ DOMAIN L.gpt \subseteq Nat
    /\ \A s \in DOMAIN L.mbr : /\ L.mbr[s] \in Seq(MbrRow)
                               /\ \A i \in DOMAIN L.mbr[s] : L.mbr[s][i].first + L.mbr[s][i].num < Word
    /\ \A s \in DOMAIN L.gpt : L.gpt[s].at \in 0 .. Word - 1 /\ L.gpt[s].parts \in Seq(GptSpan)

ASSUME DisksAssumption ==
    /\ Word \in Nat \ {0} /\ PerSector \in Nat \ {0}
    /\ Rooms \subseteq Nat /\ MaxErrors \in Nat
    /\ \A m \in Machines : m \in Seq({m[k] : k \in DOMAIN m}) /\ \A k \in DOMAIN m : Fields(m[k])

VARIABLES
    drives,     \* the machine: what each drive is and holds
    tried,      \* how many drives init_status is done with
    disks,      \* the list from header to pos; a disk's id is its place in it
    stack,      \* calls of mbr_part, gpt_part and disk_fs_init not returned yet
    room,       \* how many more kmallocs succeed
    errors,     \* how many more reads fail
    boot,       \* where in the list exec_init stopped, 0 before it ran
    failed,     \* ghost: a read or a kmalloc failed
    overrun     \* ghost: disk_read was told to fill more than its buffer

vars == <<drives, tried, disks, stack, room, errors, boot, failed, overrun>>

Init ==
    /\ drives \in Machines
    /\ room \in Rooms
    /\ tried = 0 /\ disks = <<>> /\ stack = <<>>
    /\ errors = MaxErrors /\ boot = 0 /\ failed = FALSE /\ overrun = FALSE

Top == stack[Len(stack)]
Below == SubSeq(stack, 1, Len(stack) - 1)
Busy(here) == stack # <<>> /\ ~overrun /\ Top.at = here
Call(at, d) == [at |-> at, disk |-> d, table |-> <<>>, i |-> 1]
Advanced == Append(Below, [Top EXCEPT !.i = @ + 1])

(* The words of IDENTIFY: the later of two counts of sectors, 0 without LBA  *)
(* and without a drive.                                                      *)
Sectors(L) ==
    IF ~L.present THEN 0
    ELSE IF L.has48 THEN L.lba48
    ELSE IF L.has28 THEN L.lba28 ELSE 0

Contents(d) == drives[disks[d].drive]

-----------------------------------------------------------------------------
(* disk_read and ata_read of less than a sector, sector r of disk d, from    *)
(* its first byte on or further inside.  Behind the end of the disk the      *)
(* count wraps; in the last sector of the drive and behind it nothing is     *)
(* read and the answer is 0, which nobody tests.                             *)
Answer(d, r, inside) ==
    LET size == disks[d].count IN
    CASE (disks[d].start + r) % Word >= Sectors(Contents(d)) - 1 -> "nothing"
      [] r < size -> "data"
      [] r = size /\ ~inside -> "nothing"
      [] OTHER -> "overrun"

(* What the caller finds in its buffer: the meaning of the sector, what an   *)
(* earlier read left there, or it is told of an error.                       *)
ReadError ==
    /\ errors > 0
    /\ errors' = errors - 1 /\ failed' = TRUE
ReadOk == UNCHANGED <<errors, failed>>
Meaning(d, r, inside, what, absent) ==
    LET s == (disks[d].start + r) % Word
        here == IF s \in DOMAIN what THEN what[s] ELSE absent
    IN  IF Answer(d, r, inside) = "data" THEN {here}
        ELSE {what[t] : t \in DOMAIN what} \cup {absent}

(* Too many bytes for the buffer: the rest of the run is undefined.          *)
Overrun(r, inside) ==
    /\ Answer(Top.disk, r, inside) = "overrun"
    /\ overrun' = TRUE
    /\ UNCHANGED <<drives, tried, disks, stack, room, errors, boot, failed>>

-----------------------------------------------------------------------------
New(drive, start, count, kind, parent, part) ==
    [drive |-> drive, start |-> start, count |-> count, kind |-> kind,
     parent |-> parent, partId |-> part, parts |-> 0, fs |-> "none"]

(* init_status: the next drive has no sectors that count ...                 *)
NoDrive ==
    /\ stack = <<>> /\ tried < Len(drives)
    /\ Sectors(drives[tried + 1]) = 0
    /\ tried' = tried + 1
    /\ UNCHANGED <<drives, disks, stack, room, errors, boot, failed, overrun>>

(* ... or disk_create makes a disk of it; its partitions first, then its     *)
(* file system.                                                              *)
DiskCreate ==
    /\ stack = <<>> /\ tried < Len(drives)
    /\ Sectors(drives[tried + 1]) # 0
    /\ tried' = tried + 1
    /\ IF room = 0
       THEN failed' = TRUE /\ UNCHANGED <<disks, stack, room>>
       ELSE LET d == Len(disks) + 1 IN
            /\ disks' = Append(disks, New(tried + 1, 0, Sectors(drives[tried + 1]), "drive", 0, 0))
            /\ stack' = <<Call("fs", d), Call("mbr", d)>>
            /\ room' = room - 1
            /\ UNCHANGED failed
    /\ UNCHANGED <<drives, errors, boot, overrun>>

FitsLoose(p, first, num) == first <= disks[p].count       \* mutation: the end is not tested

(* disk_mmap accepts a part whose end, which wraps, is inside the disk.      *)
Fits(p, first, num) == (first + num) % Word <= disks[p].count

PlaceOnDrive(p, first) == first              \* mutation: the parent's start is left out

(* Where on the drive a part of disk p begins.                               *)
Place(p, first) == (disks[p].start + first) % Word

(* disk_mmap for the entry the top call is at: refused, without memory, or   *)
(* a new disk, whose file system is looked for at once; behind that waits    *)
(* the scan of an extended partition.                                        *)
DiskMmap(first, num, kind) ==
    LET p == Top.disk
        d == Len(disks) + 1
    IN
    IF ~Fits(p, first, num)
    THEN /\ stack' = Advanced
         /\ UNCHANGED <<disks, room, failed>>
    ELSE IF room = 0
    THEN /\ stack' = Advanced /\ failed' = TRUE
         /\ UNCHANGED <<disks, room>>
    ELSE /\ disks' = Append([disks EXCEPT ![p].parts = @ + 1],
                            New(disks[p].drive, Place(p, first), num, kind, p, disks[p].parts))
         /\ stack' = Advanced \o (IF kind = "ext" THEN <<Call("mbr", d)>> ELSE <<>>)
                              \o <<Call("fs", d)>>
         /\ room' = room - 1
         /\ UNCHANGED failed

-----------------------------------------------------------------------------
(* mbr_part: the table, or none (a disk without sectors stopped in fat_init  *)
(* already) ...                                                              *)
ReadMbr ==
    /\ Busy("mbr")
    /\ \/ ReadError /\ stack' = Below
       \/ /\ ReadOk
          /\ \E table \in Meaning(Top.disk, 0, TRUE, Contents(Top.disk).mbr, <<>>) :
                stack' = Append(Below, [Top EXCEPT !.at = "entries", !.table = table])
    /\ UNCHANGED <<drives, tried, disks, room, boot, overrun>>

Entry == Top.table[Top.i]
AtEntry(type) == Busy("entries") /\ Top.i <= Len(Top.table) /\ Entry.type = type

(* ... an entry of it ...                                                    *)
MbrPart ==
    /\ AtEntry("data")
    /\ DiskMmap(Entry.first, Entry.num, "data")
    /\ UNCHANGED <<drives, tried, errors, boot, overrun>>

MbrExtended ==
    /\ AtEntry("ext")
    /\ DiskMmap(Entry.first, Entry.num, "ext")
    /\ UNCHANGED <<drives, tried, errors, boot, overrun>>

MbrGpt ==
    /\ AtEntry("gpt")
    /\ stack' = Append(Advanced, Call("gpt", Top.disk))
    /\ UNCHANGED <<drives, tried, disks, room, errors, boot, failed, overrun>>

MbrEmpty ==
    /\ AtEntry("empty")
    /\ stack' = Advanced
    /\ UNCHANGED <<drives, tried, disks, room, errors, boot, failed, overrun>>

(* ... and the return, of gpt_part as well.                                  *)
TableDone ==
    /\ Busy("entries") \/ Busy("parts")
    /\ Top.i > Len(Top.table)
    /\ stack' = Below
    /\ UNCHANGED <<drives, tried, disks, room, errors, boot, failed, overrun>>

(* gpt_part: the header in sector 1 ...                                      *)
NoGpt == [at |-> 0, parts |-> <<>>]
ReadGpt ==
    /\ Busy("gpt")
    /\ \/ ReadError /\ stack' = Below
       \/ /\ ReadOk
          /\ \E g \in Meaning(Top.disk, 1, FALSE, Contents(Top.disk).gpt, NoGpt) :
                stack' = Append(Below, [at |-> "parts", disk |-> Top.disk, i |-> 1,
                                        table |-> g.parts, lba |-> g.at])
    /\ UNCHANGED <<drives, tried, disks, room, boot, overrun>>

EntrySector == (Top.lba + (Top.i - 1) \div PerSector) % Word
EntryInside == (Top.i - 1) % PerSector # 0
AtPart == Busy("parts") /\ Top.i <= Len(Top.table)

GptCountExclusive(e) == (e.last - e.first) % Word         \* mutation: the last sector is left out
GptCount(e) == (e.last - e.first + 1) % Word

(* ... and each entry, its end inclusive; where nothing was read, the entry  *)
(* before is met again.                                                      *)
GptPart ==
    /\ AtPart
    /\ Answer(Top.disk, EntrySector, EntryInside) # "overrun"
    /\ LET read == Answer(Top.disk, EntrySector, EntryInside) = "data" IN
       \E k \in IF read THEN {Top.i} ELSE 1 .. Len(Top.table) :
          LET e == Top.table[k] IN
          IF e.first = 0
          THEN stack' = Advanced /\ UNCHANGED <<disks, room, failed>>
          ELSE DiskMmap(e.first, GptCount(e), "data")
    /\ UNCHANGED <<drives, tried, errors, boot, overrun>>

GptError ==
    /\ AtPart
    /\ Answer(Top.disk, EntrySector, EntryInside) # "overrun"
    /\ ReadError /\ stack' = Advanced
    /\ UNCHANGED <<drives, tried, disks, room, boot, overrun>>

GptEntryOverrun == AtPart /\ Overrun(EntrySector, EntryInside)

-----------------------------------------------------------------------------
(* disk_fs_init, fat_init: a header that says FAT and memory for it.  After  *)
(* an error fat_init goes on with a header it never read.                    *)
FsInit ==
    /\ Busy("fs")
    /\ Answer(Top.disk, 0, TRUE) # "overrun"
    /\ stack' = Below
    /\ \E found \in {"fat", "junk", "raw"} :
        /\ \/ found = "junk" /\ ReadError
           \/ found \in {"junk", "raw"} /\ Answer(Top.disk, 0, TRUE) = "nothing" /\ ReadOk
           \/ /\ Answer(Top.disk, 0, TRUE) = "data"
              /\ found = IF disks[Top.disk].start \in Contents(Top.disk).fat THEN "fat" ELSE "raw"
              /\ IF found = "fat" /\ room = 0 THEN failed' = TRUE /\ UNCHANGED errors ELSE ReadOk
        /\ disks' = [disks EXCEPT ![Top.disk].fs = IF room = 0 THEN "raw" ELSE found]
        /\ room' = IF found = "raw" \/ room = 0 THEN room ELSE room - 1
    /\ UNCHANGED <<drives, tried, boot, overrun>>

FsOverrun == Busy("fs") /\ Overrun(0, TRUE)

(* exec_init: the first disk from which init can be read, or the end of the  *)
(* list.  On a file system without a header of its own anything may be found.*)
ExecInit ==
    /\ tried = Len(drives) /\ stack = <<>> /\ boot = 0 /\ ~overrun
    /\ \E lucky \in SUBSET {d \in DOMAIN disks : disks[d].fs = "junk"} :
        LET has == lucky \cup {d \in DOMAIN disks :
                                  disks[d].fs = "fat" /\ disks[d].start \in Contents(d).init}
        IN  boot' = CHOOSE d \in has \cup {Len(disks) + 1} : \A other \in has : d <= other
    /\ UNCHANGED <<drives, tried, disks, stack, room, errors, failed, overrun>>

Next ==
    \/ NoDrive \/ DiskCreate \/ ReadMbr \/ MbrPart \/ MbrExtended \/ MbrGpt \/ MbrEmpty \/ TableDone
    \/ ReadGpt \/ GptPart \/ GptError \/ GptEntryOverrun
    \/ FsInit \/ FsOverrun \/ ExecInit

Spec == Init /\ [][Next]_vars

-----------------------------------------------------------------------------
Of(table, type) == {table[i] : i \in {k \in DOMAIN table : table[k].type = type}}
Tables(L) == {L.mbr[s] : s \in DOMAIN L.mbr}

(* A GPT partition that ends before it begins: its length wraps, and its     *)
(* place in the disk it is a part of is behind that.                         *)
Backward(d) ==
    ((disks[d].start - disks[disks[d].parent].start) % Word) + disks[d].count >= Word

(* An extended partition that begins at its own table.                       *)
Loops(L) == \E t \in Tables(L) : \E e \in Of(t, "ext") : e.first = 0

(* Whatever the tables say and whichever read or kmalloc fails, a partition  *)
(* lies inside the disk it is a part of and the parts of a disk are counted  *)
(* and numbered; so no table is scanned while it is being scanned, unless an *)
(* extended partition begins at its own table.                               *)
PartsInside ==
    /\ \A d \in DOMAIN disks : disks[d].kind # "drive" /\ ~Backward(d) =>
        LET p == disks[d].parent IN
        /\ disks[p].drive = disks[d].drive
        /\ disks[p].start <= disks[d].start
        /\ disks[d].start + disks[d].count <= disks[p].start + disks[p].count
    /\ \A p \in DOMAIN disks :
        LET parts == {d \in DOMAIN disks : disks[d].parent = p} IN
        /\ Cardinality(parts) = disks[p].parts
        /\ {disks[d].partId : d \in parts} = 0 .. disks[p].parts - 1
    /\ \A i, j \in {k \in DOMAIN stack : stack[k].at \in {"mbr", "entries"}} :
        i # j => \/ disks[stack[i].disk].start # disks[stack[j].disk].start
                 \/ Loops(Contents(stack[i].disk))

(* Tables that describe a partition without sectors, GPT entries behind the  *)
(* end of the drive, or a GPT where a table of an extended partition is read.*)
Unsound(L) ==
    \/ \E t \in Tables(L) : \E e \in Of(t, "data") \cup Of(t, "ext") : e.num = 0
    \/ /\ DOMAIN L.gpt # {}
       /\ Loops(L) \/ \E s \in DOMAIN L.mbr \ {0} : Of(L.mbr[s], "gpt") # {}
    \/ \E s \in DOMAIN L.gpt :
        LET g == L.gpt[s] IN
        \/ g.at + ((Len(g.parts) - 1) \div PerSector) >= Sectors(L)
        \/ \E i \in DOMAIN g.parts : g.parts[i].first = g.parts[i].last + 1

(* disk_read shortens what goes beyond the end of the disk: it never makes a *)
(* read longer than its buffer, except on disks without sectors and behind   *)
(* the end of a disk, where the subtraction wraps.                           *)
BuffersKept == overrun => \E k \in DOMAIN drives : Unsound(drives[k])

(* The tables of an extended partition that begins at s: the first entry of  *)
(* each is relative to the table, the link to the next one to s.             *)
Chain(L, s) ==
    LET link[n \in 0 .. Sectors(L)] ==
            IF n = 0 THEN s
            ELSE LET t == link[n - 1] IN
                 IF t \in DOMAIN L.mbr /\ Of(L.mbr[t], "ext") # {}
                 THEN s + (CHOOSE e \in Of(L.mbr[t], "ext") : TRUE).first
                 ELSE t
    IN  {link[n] : n \in DOMAIN link} \cap DOMAIN L.mbr

(* The partitions a drive has, by the conventions of its tables.             *)
Extended(L) == {e.first : e \in Of(L.mbr[0], "ext")}
Described(L) ==
    IF 0 \notin DOMAIN L.mbr THEN {}
    ELSE {<<e.first, e.num>> : e \in Of(L.mbr[0], "data")}
         \cup UNION {{<<t + e.first, e.num>> : e \in Of(L.mbr[t], "data")} :
                     t \in UNION {Chain(L, s) : s \in Extended(L)}}
         \cup (IF Of(L.mbr[0], "gpt") = {} \/ 1 \notin DOMAIN L.gpt THEN {}
               ELSE {<<e.first, e.last - e.first + 1>> : e \in Of(
                        [i \in DOMAIN L.gpt[1].parts |->
                            [type |-> IF L.gpt[1].parts[i].first = 0 THEN "empty" ELSE "data",
                             first |-> L.gpt[1].parts[i].first, last |-> L.gpt[1].parts[i].last]],
                        "data")})

(* The num sectors from s on hold its table's partition and the next table,  *)
(* and what is said of that table's sectors holds its partition.             *)
Holds(L, s, num) ==
    s \in DOMAIN L.mbr =>
        /\ \A e \in Of(L.mbr[s], "data") \cup Of(L.mbr[s], "ext") : e.first + e.num <= num
        /\ \A e \in Of(L.mbr[s], "ext") : s + e.first \in DOMAIN L.mbr =>
              \A x \in Of(L.mbr[s + e.first], "data") : x.first + x.num <= e.num

(* Tables nobody doubts: partitions lie side by side before the last sector, *)
(* each in the extended partition that holds it, and one entry names a GPT.  *)
WellFormed(L) ==
    /\ ~Unsound(L) /\ ~Loops(L)
    /\ \A x \in Described(L) :
        /\ x[1] < Sectors(L) - 1 /\ x[2] > 0 /\ x[1] + x[2] <= Sectors(L)
        /\ \A y \in Described(L) : x = y \/ x[1] + x[2] <= y[1] \/ y[1] + y[2] <= x[1]
    /\ \A t \in Tables(L) : Cardinality(Of(t, "ext")) <= 1
    /\ 0 \in DOMAIN L.mbr => \A x \in Of(L.mbr[0], "ext") : Holds(L, x.first, x.num)
    /\ 0 \in DOMAIN L.mbr => Cardinality({i \in DOMAIN L.mbr[0] : L.mbr[0][i].type = "gpt"}) <= 1
    /\ \A s \in DOMAIN L.gpt : L.gpt[s].at + (Len(L.gpt[s].parts) \div PerSector) < Sectors(L) - 1

(* More than two logical partitions: the code takes the links of the second  *)
(* table and of those behind it as relative to that table.                   *)
LongChain(L) == 0 \in DOMAIN L.mbr /\ \E s \in Extended(L) : Cardinality(Chain(L, s)) > 2

Found(k) == {d \in DOMAIN disks : disks[d].drive = k /\ disks[d].kind = "data"}

(* With nothing failed, every partition of every well-formed drive, and      *)
(* nothing else, is a disk, once, with the file system it holds, and init is *)
(* started if one of them has it; unless a chain has more than two links.    *)
AllFound ==
    tried = Len(drives) /\ stack = <<>> /\ ~failed /\ ~overrun =>
        \A k \in DOMAIN drives : LET L == drives[k] IN
        Sectors(L) # 0 /\ WellFormed(L) /\ ~LongChain(L) =>
            /\ {<<disks[d].start, disks[d].count>> : d \in Found(k)} = Described(L)
            /\ Cardinality(Found(k)) = Cardinality(Described(L))
            /\ \A d \in Found(k) : disks[d].fs = IF disks[d].start \in L.fat THEN "fat" ELSE "raw"
            /\ (\E d \in Found(k) : disks[d].start \in L.init) => boot <= Len(disks)
=============================================================================
