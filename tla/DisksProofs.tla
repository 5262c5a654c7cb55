----------------------------- MODULE DisksProofs -----------------------------
(***************************************************************************)
(* Proofs about Disks for every machine, every number of sectors and every *)
(* fault: partitions lie inside what they are parts of and are numbered, no *)
(* table is scanned inside its own scan, and only tables that are not       *)
(* sound make disk_read write beyond a buffer.                              *)
(***************************************************************************)
EXTENDS Disks, SequenceTheorems, FiniteSetTheorems, TLAPS

(* What the list and the stack hold.  The operators below say it of a machine *)
(* dr, a list ds and a stack st, so that a step's two states read alike.     *)
Disk == [drive : Nat, start : 0 .. Word - 1, count : 0 .. Word - 1,
         kind : {"drive", "data", "ext"}, parent : Nat, partId : Nat, parts : Nat,
         fs : {"none", "fat", "junk", "raw"}]
MbrFrame == [at : {"fs", "mbr", "entries", "gpt"}, disk : Nat, table : Seq(MbrRow), i : Nat \ {0}]
GptFrame == [at : {"parts"}, disk : Nat, table : Seq(GptSpan), i : Nat \ {0}, lba : 0 .. Word - 1]
Frame == MbrFrame \cup GptFrame

Inside(b, p) == p.start <= b.start /\ b.start + b.count <= p.start + p.count
Wraps(b, p) == ((b.start - p.start) % Word) + b.count >= Word

(* One disk b of the list, on drive L, a part of disk p.                     *)
DriveOK(b, L) == b.start = 0 /\ b.count = Sectors(L) /\ b.parent = 0
PartOK(b, p, L) ==
    /\ p.drive = b.drive /\ p.kind # "data"
    /\ b.kind = "ext" => Inside(b, p) /\ (Loops(L) \/ p.start < b.start)
    /\ b.kind = "data" => Wraps(b, p) \/ Inside(b, p)
DiskOK(dr, ds, d) ==
    LET b == ds[d]
        L == dr[b.drive]
    IN  /\ b.drive \in DOMAIN dr
        /\ b.kind = "drive" => DriveOK(b, L)
        /\ b.kind # "drive" => b.parent \in DOMAIN ds /\ PartOK(b, ds[b.parent], L)
        /\ b.kind # "data" => b.start + b.count <= Sectors(L)
        /\ Unsound(L) \/ b.count > 0

PartsOf(ds, p) == {d \in DOMAIN ds : ds[d].parent = p}
Numbered(ds, p) ==
    /\ IsFiniteSet(PartsOf(ds, p)) /\ Cardinality(PartsOf(ds, p)) = ds[p].parts
    /\ {ds[d].partId : d \in PartsOf(ds, p)} = 0 .. ds[p].parts - 1

ListOK(dr, ds) ==
    /\ ds \in Seq(Disk)
    /\ \A d \in DOMAIN ds : DiskOK(dr, ds, d)
    /\ \A p \in DOMAIN ds : Numbered(ds, p)

(* A GPT is read at the beginning of a drive, or from a disk in whose sectors *)
(* nothing is read at all.                                                   *)
Edge(b, L) == b.kind = "drive" \/ b.start >= Sectors(L) - 1 \/ DOMAIN L.gpt = {}
ReadsGpt(f) == f.at \in {"gpt", "parts"} \/ (f.at = "entries" /\ Of(f.table, "gpt") # {})

(* One call on disk b of drive L.                                            *)
CallOK(f, b, L) ==
    /\ f.at # "fs" => b.kind # "data"
    /\ f.at = "entries" => f.table = <<>> \/ f.table \in Tables(L)
    /\ f.at = "parts" => f.table = <<>> \/ \E s \in DOMAIN L.gpt : f.lba = L.gpt[s].at /\ f.table = L.gpt[s].parts
    /\ ReadsGpt(f) => Unsound(L) \/ Edge(b, L)
FrameOK(dr, ds, f) == f.disk \in DOMAIN ds /\ CallOK(f, ds[f.disk], dr[ds[f.disk].drive])

(* Of two calls on a stack, f below g: they are about one drive, and what is *)
(* scanned above begins behind what is scanned below.                        *)
Scanning(f) == f.at \in {"mbr", "entries"}
Before(dr, ds, f, g) ==
    /\ ds[f.disk].drive = ds[g.disk].drive
    /\ Scanning(f) /\ Scanning(g) =>
        ds[f.disk].start < ds[g.disk].start \/ Loops(dr[ds[f.disk].drive])

StackOK(dr, ds, st) ==
    /\ st \in Seq(Frame)
    /\ \A k \in DOMAIN st : FrameOK(dr, ds, st[k])
    /\ \A i, j \in DOMAIN st : i < j => Before(dr, ds, st[i], st[j])

Inv ==
    /\ drives \in Machines /\ tried \in 0 .. Len(drives)
    /\ room \in Nat /\ errors \in Nat
    /\ failed \in BOOLEAN /\ overrun \in BOOLEAN
    /\ ListOK(drives, disks)
    /\ StackOK(drives, disks, stack)
    /\ BuffersKept

-----------------------------------------------------------------------------
(* Sector numbers that pass the modulus once, or fall below 0 once.          *)
LEMMA ModOnce ==
    ASSUME NEW W \in Nat \ {0}, NEW x \in Int
    PROVE  /\ 0 <= x /\ x < W => x % W = x
           /\ W <= x /\ x < 2 * W => x % W = x - W
           /\ (-W) <= x /\ x < 0 => x % W = x + W
           /\ x % W \in 0 .. W - 1
<1>1. x = W * (x \div W) + (x % W) /\ x % W \in 0 .. W - 1 /\ x \div W \in Int
    BY Z3
<1> DEFINE q == x \div W
           r == x % W
<1>2. q \in Int /\ r \in 0 .. W - 1 /\ x = W * q + r
    BY <1>1
<1> HIDE DEF q, r
<1>3. \A k \in Int : k >= 1 => W * k >= W
    BY Z3
<1>4. \A k \in Int : k >= 2 => W * k >= 2 * W
    BY Z3
<1>5. \A k \in Int : k <= -1 => W * k <= -W
    BY Z3
<1>6. \A k \in Int : k <= -2 => W * k <= -(2 * W)
    BY Z3
<1>7. (q <= -2 \/ q = -1 \/ q = 0 \/ q = 1 \/ q >= 2)
    BY <1>2
<1>8. W * 0 = 0 /\ W * 1 = W /\ W * (-1) = -W
    BY Z3
<1>9. /\ 0 <= x /\ x < W => r = x
      /\ W <= x /\ x < 2 * W => r = x - W
      /\ (-W) <= x /\ x < 0 => r = x + W
    BY <1>2, <1>4, <1>6, <1>7, <1>8
<1> QED
    BY <1>1, <1>9 DEF r

(* A quotient grows with what is divided.                                    *)
LEMMA DivMonotonic ==
    ASSUME NEW P \in Nat \ {0}, NEW x \in Nat, NEW y \in Nat, x <= y
    PROVE  x \div P \in Nat /\ y \div P \in Nat /\ x \div P <= y \div P
<1> DEFINE q == x \div P
           r == x % P
           u == y \div P
           v == y % P
<1>1. q \in Nat /\ r \in 0 .. P - 1 /\ x = P * q + r
    BY Z3
<1>2. u \in Nat /\ v \in 0 .. P - 1 /\ y = P * u + v
    BY Z3
<1> HIDE DEF q, r, u, v
<1>3. SUFFICES ASSUME q > u PROVE FALSE
    BY <1>1, <1>2 DEF q, u
<1>4. P * q >= P * (u + 1) /\ P * (u + 1) = P * u + P
    BY <1>1, <1>2, <1>3, Z3
<1> QED
    BY <1>1, <1>2, <1>4

-----------------------------------------------------------------------------
(* The stack: a call returns, another takes its place, another is made.      *)
LEMMA BelowOK ==
    ASSUME NEW dr, NEW ds, NEW st, StackOK(dr, ds, st), st # <<>>
    PROVE  LET b == SubSeq(st, 1, Len(st) - 1) IN
           /\ StackOK(dr, ds, b) /\ Len(b) = Len(st) - 1 /\ Len(st) \in DOMAIN st
           /\ \A k \in DOMAIN b : b[k] = st[k] /\ Before(dr, ds, b[k], st[Len(st)])
<1> DEFINE b == SubSeq(st, 1, Len(st) - 1)
<1>1. st \in Seq(Frame) /\ Len(st) \in Nat \ {0} /\ DOMAIN st = 1 .. Len(st)
    BY EmptySeq, LenProperties DEF StackOK
<1>2. \A k \in 1 .. Len(st) - 1 : st[k] \in Frame
    BY <1>1, ElementOfSeq
<1>3. b \in Seq(Frame) /\ Len(b) = Len(st) - 1 /\ \A k \in 1 .. Len(st) - 1 : b[k] = st[k]
    BY <1>1, <1>2, SubSeqProperties
<1>4. DOMAIN b = 1 .. Len(st) - 1
    BY <1>3, LenProperties
<1> HIDE DEF b
<1>5. \A k \in DOMAIN b : b[k] = st[k] /\ FrameOK(dr, ds, b[k]) /\ Before(dr, ds, b[k], st[Len(st)])
    BY <1>1, <1>3, <1>4 DEF StackOK
<1>6. \A i, j \in DOMAIN b : i < j => Before(dr, ds, b[i], b[j])
    BY <1>1, <1>3, <1>4 DEF StackOK
<1>7. StackOK(dr, ds, b)
    BY <1>3, <1>5, <1>6 DEF StackOK
<1> QED
    BY <1>1, <1>3, <1>5, <1>7 DEF b

LEMMA PushOK ==
    ASSUME NEW dr, NEW ds, NEW st, StackOK(dr, ds, st), NEW f \in Frame, FrameOK(dr, ds, f),
           \A k \in DOMAIN st : Before(dr, ds, st[k], f)
    PROVE  /\ StackOK(dr, ds, Append(st, f)) /\ Append(st, f) # <<>>
           /\ Append(st, f)[Len(Append(st, f))] = f
           /\ \A k \in DOMAIN Append(st, f) : k # Len(Append(st, f)) => k \in DOMAIN st /\ Append(st, f)[k] = st[k]
<1> DEFINE t == Append(st, f)
<1>1. st \in Seq(Frame) /\ Len(st) \in Nat /\ DOMAIN st = 1 .. Len(st)
    BY LenProperties DEF StackOK
<1>2. t \in Seq(Frame) /\ Len(t) = Len(st) + 1 /\ t[Len(st) + 1] = f /\ \A k \in 1 .. Len(st) : t[k] = st[k]
    BY <1>1, AppendProperties
<1>3. DOMAIN t = 1 .. Len(st) + 1
    BY <1>2, LenProperties
<1> HIDE DEF t
<1>4. \A k \in DOMAIN t : FrameOK(dr, ds, t[k])
    BY <1>1, <1>2, <1>3 DEF StackOK
<1>5. ASSUME NEW i \in DOMAIN t, NEW j \in DOMAIN t, i < j PROVE Before(dr, ds, t[i], t[j])
  <2>1. i \in DOMAIN st /\ t[i] = st[i]
    BY <1>1, <1>2, <1>3, <1>5
  <2>2. CASE j = Len(st) + 1
    BY <1>2, <2>1, <2>2
  <2>3. CASE j # Len(st) + 1
    <3>1. j \in DOMAIN st /\ t[j] = st[j]
      BY <1>1, <1>2, <1>3, <2>3
    <3> QED
      BY <1>5, <2>1, <3>1 DEF StackOK
  <2> QED
    BY <2>2, <2>3
<1>6. StackOK(dr, ds, t)
    BY <1>2, <1>4, <1>5 DEF StackOK
<1>7. t # <<>>
    BY <1>2, EmptySeq, <1>1
<1> QED
    BY <1>1, <1>2, <1>3, <1>6, <1>7 DEF t

(* The call on top is at another place on the same disk, or further.         *)
LEMMA ReplaceOK ==
    ASSUME NEW dr, NEW ds, NEW st, StackOK(dr, ds, st), st # <<>>, NEW f \in Frame,
           FrameOK(dr, ds, f), f.disk = st[Len(st)].disk, Scanning(f) => Scanning(st[Len(st)])
    PROVE  LET t == Append(SubSeq(st, 1, Len(st) - 1), f) IN
           /\ StackOK(dr, ds, t) /\ t # <<>> /\ t[Len(t)] = f
           /\ \A k \in DOMAIN t : k # Len(t) => Before(dr, ds, t[k], st[Len(st)])
<1> DEFINE b == SubSeq(st, 1, Len(st) - 1)
<1>1. StackOK(dr, ds, b) /\ \A k \in DOMAIN b : Before(dr, ds, b[k], st[Len(st)])
    BY BelowOK
<1> HIDE DEF b
<1>2. \A k \in DOMAIN b : Before(dr, ds, b[k], f)
    BY <1>1 DEF Before
<1>3. StackOK(dr, ds, Append(b, f)) /\ Append(b, f) # <<>> /\ Append(b, f)[Len(Append(b, f))] = f
      /\ \A k \in DOMAIN Append(b, f) : k # Len(Append(b, f)) => k \in DOMAIN b /\ Append(b, f)[k] = b[k]
    BY <1>1, <1>2, PushOK
<1> QED
    BY <1>1, <1>3 DEF b

-----------------------------------------------------------------------------
(* Disks stay what and where they are when the list grows.                   *)
Same(b, c) ==
    /\ c.drive = b.drive /\ c.start = b.start /\ c.count = b.count
    /\ c.kind = b.kind /\ c.parent = b.parent /\ c.partId = b.partId
Grows(ds, new) == DOMAIN ds \subseteq DOMAIN new /\ \A d \in DOMAIN ds : Same(ds[d], new[d])

LEMMA GrowStack ==
    ASSUME NEW dr, NEW ds, NEW new, NEW st, Grows(ds, new), StackOK(dr, ds, st)
    PROVE  StackOK(dr, new, st)
<1>1. ASSUME NEW f, FrameOK(dr, ds, f) PROVE f.disk \in DOMAIN ds /\ Same(ds[f.disk], new[f.disk])
    BY <1>1 DEF FrameOK, Grows
<1>2. ASSUME NEW f, FrameOK(dr, ds, f) PROVE FrameOK(dr, new, f)
  <2> DEFINE b == ds[f.disk]
             c == new[f.disk]
  <2>1. c.drive = b.drive /\ c.kind = b.kind /\ c.start = b.start
    BY <1>1, <1>2 DEF Same
  <2>2. CallOK(f, b, dr[b.drive])
    BY <1>2 DEF FrameOK
  <2>3. CallOK(f, c, dr[c.drive])
    <3> HIDE DEF b, c
    <3> QED
      BY <2>1, <2>2 DEF CallOK, Edge
  <2> QED
    BY <1>1, <1>2, <2>3 DEF FrameOK, Grows
<1>3. ASSUME NEW f, FrameOK(dr, ds, f), NEW g, FrameOK(dr, ds, g), Before(dr, ds, f, g)
      PROVE  Before(dr, new, f, g)
    BY <1>1, <1>3 DEF Before, Same
<1> QED
    BY <1>2, <1>3 DEF StackOK

LEMMA GrowDisk ==
    ASSUME NEW dr, NEW ds, NEW new, Grows(ds, new), NEW d \in DOMAIN ds, DiskOK(dr, ds, d)
    PROVE  DiskOK(dr, new, d)
<1> DEFINE b == ds[d]
           c == new[d]
           p == ds[b.parent]
           q == new[b.parent]
           L == dr[b.drive]
<1>1. /\ c.drive = b.drive /\ c.start = b.start /\ c.count = b.count
      /\ c.kind = b.kind /\ c.parent = b.parent
    BY DEF Grows, Same
<1>2. b.kind # "drive" => /\ b.parent \in DOMAIN ds /\ b.parent \in DOMAIN new
                          /\ q.drive = p.drive /\ q.start = p.start /\ q.count = p.count /\ q.kind = p.kind
    BY DEF Grows, Same, DiskOK
<1>3. /\ b.drive \in DOMAIN dr
      /\ b.kind = "drive" => DriveOK(b, L)
      /\ b.kind # "drive" => PartOK(b, p, L)
      /\ b.kind # "data" => b.start + b.count <= Sectors(L)
      /\ Unsound(L) \/ b.count > 0
    BY DEF DiskOK
<1> HIDE DEF L
<1>4. b.kind = "drive" => DriveOK(c, L)
    BY <1>1, <1>3 DEF DriveOK
<1>5. b.kind # "drive" => PartOK(c, q, L)
  <2> HIDE DEF b, c, p, q
  <2> QED
    BY <1>1, <1>2, <1>3 DEF PartOK, Inside, Wraps
<1> QED
    BY <1>1, <1>2, <1>3, <1>4, <1>5 DEF DiskOK, L

(* Only how many parts it has and its file system change about a disk.       *)
LEMMA GrowList ==
    ASSUME NEW dr, NEW ds, NEW new, Grows(ds, new), ListOK(dr, ds),
           new \in Seq(Disk), \A d \in DOMAIN new \ DOMAIN ds : DiskOK(dr, new, d),
           \A p \in DOMAIN new : Numbered(new, p)
    PROVE  ListOK(dr, new)
<1>1. \A d \in DOMAIN new : DiskOK(dr, new, d)
    BY GrowDisk DEF ListOK
<1> QED
    BY <1>1 DEF ListOK

(* Every disk is a part of an earlier one or of none.                        *)
LEMMA Parents ==
    ASSUME NEW dr, NEW ds, ListOK(dr, ds)
    PROVE  \A d \in DOMAIN ds : ds[d].parent \in DOMAIN ds \/ ds[d].parent = 0
    BY DEF ListOK, DiskOK, DriveOK

LEMMA ListTypes ==
    ASSUME NEW dr, NEW ds, ListOK(dr, ds)
    PROVE  /\ Len(ds) \in Nat /\ DOMAIN ds = 1 .. Len(ds)
           /\ \A d \in DOMAIN ds : ds[d] \in Disk
    BY LenProperties, ElementOfSeq DEF ListOK

LEMMA FsSet ==
    ASSUME NEW dr, NEW ds, ListOK(dr, ds), NEW d \in DOMAIN ds,
           NEW what \in {"none", "fat", "junk", "raw"}
    PROVE  ListOK(dr, [ds EXCEPT ![d].fs = what]) /\ Grows(ds, [ds EXCEPT ![d].fs = what])
<1> DEFINE new == [ds EXCEPT ![d].fs = what]
<1>1. Len(ds) \in Nat /\ DOMAIN ds = 1 .. Len(ds) /\ \A e \in DOMAIN ds : ds[e] \in Disk
    BY ListTypes
<1>2. ds \in Seq(Disk)
    BY DEF ListOK
<1>3. new = [ds EXCEPT ![d] = [ds[d] EXCEPT !.fs = what]] /\ [ds[d] EXCEPT !.fs = what] \in Disk
    BY <1>1 DEF Disk
<1>4. new \in Seq(Disk)
    BY <1>1, <1>2, <1>3, ExceptSeq
<1>5. DOMAIN new = DOMAIN ds /\ \A e \in DOMAIN ds : Same(ds[e], new[e]) /\ new[e].parts = ds[e].parts
    BY <1>1 DEF Same, Disk
<1> HIDE DEF new
<1>6. Grows(ds, new)
    BY <1>5 DEF Grows
<1>7. ASSUME NEW p \in DOMAIN new PROVE Numbered(new, p)
  <2>1. PartsOf(new, p) = PartsOf(ds, p) /\ \A e \in PartsOf(ds, p) : new[e].partId = ds[e].partId
    BY <1>5 DEF PartsOf, Same
  <2>2. Numbered(ds, p) /\ new[p].parts = ds[p].parts
    BY <1>5 DEF ListOK
  <2> QED
    BY <2>1, <2>2 DEF Numbered
<1> QED
    BY <1>4, <1>5, <1>6, <1>7, GrowList DEF new

(* A drive joins the list ...                                                *)
LEMMA DriveAdded ==
    ASSUME NEW dr, NEW ds, ListOK(dr, ds), NEW k \in DOMAIN dr, k \in Nat,
           Sectors(dr[k]) \in 1 .. Word - 1
    PROVE  LET new == Append(ds, New(k, 0, Sectors(dr[k]), "drive", 0, 0)) IN
           ListOK(dr, new) /\ Grows(ds, new) /\ DOMAIN new = DOMAIN ds \cup {Len(ds) + 1}
           /\ new[Len(ds) + 1] = New(k, 0, Sectors(dr[k]), "drive", 0, 0)
<1> DEFINE b == New(k, 0, Sectors(dr[k]), "drive", 0, 0)
           new == Append(ds, b)
           e == Len(ds) + 1
<1>1. /\ ds \in Seq(Disk) /\ Len(ds) \in Nat /\ DOMAIN ds = 1 .. Len(ds)
      /\ \A d \in DOMAIN ds : ds[d] \in Disk
    BY ListTypes DEF ListOK
<1>2. b \in Disk /\ b.drive = k /\ b.start = 0 /\ b.count = Sectors(dr[k]) /\ b.kind = "drive"
      /\ b.parent = 0 /\ b.parts = 0
  <2>1. Sectors(dr[k]) \in Nat /\ {0, Sectors(dr[k])} \subseteq 0 .. Word - 1
    BY DisksAssumption
  <2> HIDE DEF b
  <2> QED
    BY <2>1 DEF New, Disk, b
<1> HIDE DEF b
<1>3. new \in Seq(Disk) /\ Len(new) = Len(ds) + 1 /\ new[e] = b /\ \A d \in 1 .. Len(ds) : new[d] = ds[d]
    BY <1>1, <1>2, AppendProperties
<1>4. DOMAIN new = DOMAIN ds \cup {e} /\ e \notin DOMAIN ds /\ e # 0 /\ 0 \notin DOMAIN ds
    BY <1>1, <1>3, LenProperties
<1> HIDE DEF new, e
<1>5. Grows(ds, new)
    BY <1>1, <1>3, <1>4 DEF Grows, Same
<1>6. DiskOK(dr, new, e)
    BY <1>2, <1>3 DEF DiskOK, DriveOK
<1>7. ASSUME NEW p \in DOMAIN ds PROVE Numbered(new, p)
  <2>1. PartsOf(new, p) = PartsOf(ds, p) /\ \A d \in PartsOf(ds, p) : new[d] = ds[d]
    BY <1>1, <1>2, <1>3, <1>4 DEF PartsOf
  <2>2. Numbered(ds, p) /\ new[p] = ds[p]
    BY <1>1, <1>3 DEF ListOK
  <2> QED
    BY <2>1, <2>2 DEF Numbered
<1>8. Numbered(new, e)
  <2>1. \A d \in DOMAIN ds : ds[d].parent # e
    BY <1>4, Parents
  <2>2. PartsOf(new, e) = {}
    BY <1>1, <1>2, <1>3, <1>4, <2>1 DEF PartsOf
  <2>3. 0 .. new[e].parts - 1 = {}
    BY <1>2, <1>3
  <2> QED
    BY <1>2, <1>3, <2>2, <2>3, FS_EmptySet DEF Numbered
<1> QED
    BY <1>2, <1>3, <1>4, <1>5, <1>6, <1>7, <1>8, GrowList DEF new, e, b

(* ... and a partition of one that is there, which counts it.                *)
LEMMA PartAdded ==
    ASSUME NEW dr, NEW ds, ListOK(dr, ds), NEW p \in DOMAIN ds,
           NEW start \in 0 .. Word - 1, NEW count \in 0 .. Word - 1, NEW kind \in {"data", "ext"},
           PartOK(New(ds[p].drive, start, count, kind, p, ds[p].parts), ds[p], dr[ds[p].drive]),
           Unsound(dr[ds[p].drive]) \/ count > 0, Word \in Nat, Sectors(dr[ds[p].drive]) \in Nat
    PROVE  LET b == New(ds[p].drive, start, count, kind, p, ds[p].parts)
               new == Append([ds EXCEPT ![p].parts = @ + 1], b)
           IN  ListOK(dr, new) /\ Grows(ds, new) /\ DOMAIN new = DOMAIN ds \cup {Len(ds) + 1}
               /\ new[Len(ds) + 1] = b
<1> DEFINE b == New(ds[p].drive, start, count, kind, p, ds[p].parts)
           counted == [ds EXCEPT ![p].parts = @ + 1]
           new == Append(counted, b)
           e == Len(ds) + 1
           n == ds[p].parts
           L == dr[ds[p].drive]
<1>1. /\ ds \in Seq(Disk) /\ Len(ds) \in Nat /\ DOMAIN ds = 1 .. Len(ds)
      /\ \A d \in DOMAIN ds : ds[d] \in Disk
    BY ListTypes DEF ListOK
<1>2. b \in Disk /\ b.drive = ds[p].drive /\ b.start = start /\ b.count = count /\ b.kind = kind
      /\ b.parent = p /\ b.partId = n /\ b.parts = 0 /\ n \in Nat
  <2>1. ds[p] \in Disk /\ p \in Nat
    BY <1>1
  <2>2. ds[p].drive \in Nat /\ ds[p].parts \in Nat
    BY <2>1 DEF Disk
  <2>3. b = [drive |-> ds[p].drive, start |-> start, count |-> count, kind |-> kind,
             parent |-> p, partId |-> n, parts |-> 0, fs |-> "none"]
    BY DEF New
  <2> QED
    BY <2>1, <2>2, <2>3 DEF Disk
<1>3. PartOK(b, ds[p], L) /\ (Unsound(L) \/ b.count > 0)
    BY <1>2
<1> HIDE DEF b
<1>4. counted = [ds EXCEPT ![p] = [ds[p] EXCEPT !.parts = n + 1]] /\ [ds[p] EXCEPT !.parts = n + 1] \in Disk
  <2>1. ds[p] \in Disk /\ n + 1 \in Nat
    BY <1>1, <1>2
  <2>2. [ds[p] EXCEPT !.parts = n + 1] \in Disk
    BY <2>1 DEF Disk
  <2> QED
    BY <2>2
<1>5. counted \in Seq(Disk) /\ Len(counted) = Len(ds) /\ DOMAIN counted = DOMAIN ds
      /\ \A d \in DOMAIN ds : Same(ds[d], counted[d]) /\ counted[d].parts = IF d = p THEN n + 1 ELSE ds[d].parts
  <2>1. counted \in Seq(Disk) /\ Len(counted) = Len(ds)
    BY <1>1, <1>4, ExceptSeq
  <2>2. \A d \in DOMAIN ds : Same(ds[d], counted[d]) /\ counted[d].parts = IF d = p THEN n + 1 ELSE ds[d].parts
    BY <1>1 DEF Same, Disk
  <2> QED
    BY <2>1, <2>2
<1> HIDE DEF counted
<1>6. new \in Seq(Disk) /\ Len(new) = Len(ds) + 1 /\ new[e] = b /\ \A d \in 1 .. Len(ds) : new[d] = counted[d]
  <2>1. /\ Append(counted, b) \in Seq(Disk) /\ Len(Append(counted, b)) = Len(counted) + 1
        /\ \A d \in 1 .. Len(counted) : Append(counted, b)[d] = counted[d]
        /\ Append(counted, b)[Len(counted) + 1] = b
    BY <1>2, <1>5, AppendProperties
  <2> QED
    BY <1>5, <2>1
<1>7. DOMAIN new = DOMAIN ds \cup {e} /\ e \notin DOMAIN ds /\ p # e
    BY <1>1, <1>6, LenProperties
<1> HIDE DEF new, e
<1>8. /\ \A d \in DOMAIN ds : Same(ds[d], new[d])
      /\ \A d \in DOMAIN ds : new[d].parts = IF d = p THEN n + 1 ELSE ds[d].parts
    BY <1>1, <1>5, <1>6
<1>9. Grows(ds, new)
    BY <1>7, <1>8 DEF Grows
<1>10. DiskOK(dr, new, e)
  <2>1. PartOK(b, new[p], L)
    <3>1. Same(ds[p], new[p])
      BY <1>8
    <3> QED
      BY <1>3, <3>1 DEF PartOK, Inside, Wraps, Same
  <2>2. ds[p].drive \in DOMAIN dr
    BY DEF ListOK, DiskOK
  <2>3. b.kind # "data" => b.start + b.count <= Sectors(L)
    <3>1. SUFFICES ASSUME b.kind = "ext" PROVE b.start + b.count <= Sectors(L)
      BY <1>2
    <3>2. ds[p].start + ds[p].count <= Sectors(L) /\ Inside(b, ds[p])
      BY <1>3, <3>1 DEF ListOK, DiskOK, PartOK
    <3>3. ds[p] \in Disk
      BY <1>1
    <3>4. ds[p].start \in Int /\ ds[p].count \in Int /\ b.start \in Int /\ b.count \in Int
      BY <1>2, <3>3, DisksAssumption DEF Disk
    <3> HIDE DEF L
    <3> QED
      BY <3>2, <3>4 DEF Inside, L
  <2>4. b.kind # "drive" /\ p \in DOMAIN new
    BY <1>2, <1>7
  <2> QED
    BY <1>2, <1>3, <1>6, <2>1, <2>2, <2>3, <2>4 DEF DiskOK
<1>11. Numbered(new, p)
  <2>1. PartsOf(new, p) = PartsOf(ds, p) \cup {e} /\ e \notin PartsOf(ds, p)
    BY <1>2, <1>6, <1>7, <1>8 DEF PartsOf, Same
  <2>2. IsFiniteSet(PartsOf(ds, p)) /\ Cardinality(PartsOf(ds, p)) = n
        /\ {ds[d].partId : d \in PartsOf(ds, p)} = 0 .. n - 1
    BY DEF ListOK, Numbered
  <2>3. IsFiniteSet(PartsOf(new, p)) /\ Cardinality(PartsOf(new, p)) = n + 1
    BY <2>1, <2>2, FS_AddElement
  <2>4. \A d \in PartsOf(ds, p) : new[d].partId = ds[d].partId
    BY <1>8 DEF PartsOf, Same
  <2>5. {new[d].partId : d \in PartsOf(new, p)} = {ds[d].partId : d \in PartsOf(ds, p)} \cup {n}
    BY <1>2, <1>6, <2>1, <2>4
  <2>6. (0 .. n - 1) \cup {n} = 0 .. new[p].parts - 1 /\ new[p].parts = n + 1
    BY <1>2, <1>8
  <2> QED
    BY <2>2, <2>3, <2>5, <2>6 DEF Numbered
<1>12. ASSUME NEW q \in DOMAIN ds, q # p PROVE Numbered(new, q)
  <2>1. PartsOf(new, q) = PartsOf(ds, q) /\ \A d \in PartsOf(ds, q) : new[d].partId = ds[d].partId
    BY <1>2, <1>6, <1>7, <1>8, <1>12 DEF PartsOf, Same
  <2>2. Numbered(ds, q) /\ new[q].parts = ds[q].parts
    BY <1>8, <1>12 DEF ListOK
  <2> QED
    BY <2>1, <2>2 DEF Numbered
<1>13. Numbered(new, e)
  <2>1. \A d \in DOMAIN ds : ds[d].parent # e
    <3>1. e # 0
      BY <1>1 DEF e
    <3> QED
      BY <1>7, <3>1, Parents
  <2>2. PartsOf(new, e) = {}
    BY <1>2, <1>6, <1>7, <1>8, <2>1 DEF PartsOf, Same
  <2>3. 0 .. new[e].parts - 1 = {}
    BY <1>2, <1>6
  <2> QED
    BY <1>2, <1>6, <2>2, <2>3, FS_EmptySet DEF Numbered
<1> QED
    BY <1>6, <1>7, <1>9, <1>10, <1>11, <1>12, <1>13, GrowList DEF new, e, b, counted

-----------------------------------------------------------------------------
(* The test of disk_mmap keeps a part inside unless its own end wraps.       *)
LEMMA PartPlaced ==
    ASSUME NEW sp \in 0 .. Word - 1, NEW cp \in 0 .. Word - 1, NEW S \in Nat, sp + cp <= S, 2 * S <= Word,
           NEW first \in 0 .. Word - 1, NEW num \in 0 .. Word - 1, (first + num) % Word <= cp
    PROVE  LET pl == (sp + first) % Word IN
           /\ pl \in 0 .. Word - 1
           /\ ((pl - sp) % Word) + num >= Word \/ (sp <= pl /\ pl + num <= sp + cp)
           /\ first + num < Word => pl = sp + first /\ pl + num <= sp + cp
<1> DEFINE pl == (sp + first) % Word
           rel == (pl - sp) % Word
           end == (first + num) % Word
<1>1. Word \in Nat \ {0}
    BY DisksAssumption
<1>2. /\ pl \in 0 .. Word - 1
      /\ sp + first < Word => pl = sp + first
      /\ sp + first >= Word => pl = sp + first - Word
  <2> DEFINE x == sp + first
  <2>1. x \in Int /\ 0 <= x /\ x < 2 * Word
    BY <1>1
  <2> HIDE DEF x
  <2>2. /\ x % Word \in 0 .. Word - 1
        /\ x < Word => x % Word = x
        /\ x >= Word => x % Word = x - Word
    BY <1>1, <2>1, ModOnce
  <2> QED
    BY <1>1, <2>1, <2>2 DEF x
<1>3. first + num < Word => end = first + num
  <2> DEFINE x == first + num
  <2>1. x \in Int /\ 0 <= x
    BY <1>1
  <2> HIDE DEF x
  <2>2. x < Word => x % Word = x
    BY <1>1, <2>1, ModOnce
  <2> QED
    BY <2>2 DEF x
<1>4. pl - sp \in Int /\ ((pl - sp = first) \/ (pl - sp = first - Word))
    BY <1>1, <1>2
<1>5. rel = first
  <2>1. CASE pl - sp = first
    BY <1>1, <1>4, <2>1, ModOnce
  <2>2. CASE pl - sp = first - Word
    <3>1. (-Word) <= pl - sp /\ pl - sp < 0
      BY <1>1, <2>2
    <3>2. rel = (pl - sp) + Word
      BY <1>1, <1>4, <3>1, ModOnce
    <3> QED
      BY <1>1, <2>2, <3>2
  <2> QED
    BY <1>4, <2>1, <2>2
<1>6. end <= cp
    OBVIOUS
<1> HIDE DEF pl, rel, end
<1>7. CASE first + num < Word
  <2>1. first + num <= cp /\ sp + first < Word
    BY <1>1, <1>3, <1>6, <1>7
  <2>2. pl = sp + first /\ sp <= pl /\ pl + num <= sp + cp
    BY <1>1, <1>2, <2>1
  <2> QED
    BY <1>2, <2>2 DEF pl
<1>8. CASE first + num >= Word
  <2>1. rel + num >= Word /\ ~(first + num < Word)
    BY <1>1, <1>5, <1>8
  <2> QED
    BY <1>2, <2>1 DEF pl, rel
<1> QED
    BY <1>1, <1>7, <1>8

(* What the tables of a drive can hold.                                      *)
LEMMA DriveTypes ==
    ASSUME NEW m \in Machines
    PROVE  /\ Len(m) \in Nat /\ DOMAIN m = 1 .. Len(m)
           /\ \A k \in DOMAIN m : Fields(m[k]) /\ Sectors(m[k]) \in 0 .. Word - 1 /\ 2 * Sectors(m[k]) <= Word
<1>1. m \in Seq({m[k] : k \in DOMAIN m}) /\ \A k \in DOMAIN m : Fields(m[k])
    BY DisksAssumption
<1>2. ASSUME NEW k \in DOMAIN m PROVE Sectors(m[k]) \in 0 .. Word - 1 /\ 2 * Sectors(m[k]) <= Word
  <2>1. Word \in Nat \ {0} /\ m[k].lba28 \in Nat /\ m[k].lba48 \in Nat
        /\ 2 * m[k].lba28 <= Word /\ 2 * m[k].lba48 <= Word
    BY <1>1, DisksAssumption DEF Fields
  <2> QED
    BY <2>1 DEF Sectors
<1> QED
    BY <1>1, <1>2, LenProperties

LEMMA TableTypes ==
    ASSUME NEW L, Fields(L)
    PROVE  /\ \A t \in Tables(L) : t \in Seq(MbrRow) /\ \A i \in DOMAIN t : t[i].first + t[i].num < Word
           /\ \A s \in DOMAIN L.gpt : L.gpt[s].at \in 0 .. Word - 1 /\ L.gpt[s].parts \in Seq(GptSpan)
    BY DEF Fields, Tables

-----------------------------------------------------------------------------
(* The call on top goes on to its next entry.                                *)
LEMMA AdvancedOK ==
    ASSUME NEW dr, NEW ds, NEW st, StackOK(dr, ds, st), st # <<>>
    PROVE  LET f == st[Len(st)]
               t == Append(SubSeq(st, 1, Len(st) - 1), [f EXCEPT !.i = @ + 1])
           IN  /\ StackOK(dr, ds, t) /\ t # <<>>
               /\ \A k \in DOMAIN t : Before(dr, ds, t[k], f) \/ (t[k].disk = f.disk /\ t[k].at = f.at)
<1> DEFINE f == st[Len(st)]
           g == [f EXCEPT !.i = @ + 1]
           t == Append(SubSeq(st, 1, Len(st) - 1), g)
<1>1. Len(st) \in DOMAIN st /\ f \in Frame /\ FrameOK(dr, ds, f)
  <2>1. st \in Seq(Frame) /\ Len(st) \in 1 .. Len(st) /\ DOMAIN st = 1 .. Len(st)
    BY EmptySeq, LenProperties DEF StackOK
  <2> QED
    BY <2>1, ElementOfSeq DEF StackOK
<1>2. g \in Frame /\ g.disk = f.disk /\ g.at = f.at /\ g.table = f.table /\ (f.at = "parts" => g.lba = f.lba)
  <2>1. CASE f \in MbrFrame
    BY <2>1 DEF MbrFrame, Frame
  <2>2. CASE f \in GptFrame
    BY <2>2 DEF GptFrame, Frame
  <2> QED
    BY <1>1, <2>1, <2>2 DEF Frame
<1> HIDE DEF g
<1>3. FrameOK(dr, ds, g) /\ (Scanning(g) => Scanning(f))
    BY <1>1, <1>2 DEF FrameOK, CallOK, ReadsGpt, Scanning
<1>4. /\ StackOK(dr, ds, t) /\ t # <<>> /\ t[Len(t)] = g
      /\ \A k \in DOMAIN t : k # Len(t) => Before(dr, ds, t[k], f)
    BY <1>2, <1>3, ReplaceOK
<1> HIDE DEF t
<1>5. \A k \in DOMAIN t : Before(dr, ds, t[k], f) \/ (t[k].disk = f.disk /\ t[k].at = f.at)
    BY <1>2, <1>4
<1> QED
    BY <1>4, <1>5 DEF t, g

(* disk_mmap keeps the list and the stack, whichever table the part is from. *)
LEMMA DiskMmapKeeps ==
    ASSUME Inv, stack # <<>>, disks[Top.disk].kind # "data",
           NEW first \in 0 .. Word - 1, NEW num \in 0 .. Word - 1, NEW kind \in {"data", "ext"},
           Unsound(Contents(Top.disk)) \/ num > 0,
           kind = "ext" => /\ first + num < Word /\ Scanning(Top)
                           /\ first # 0 \/ Loops(Contents(Top.disk)),
           DiskMmap(first, num, kind)
    PROVE  /\ ListOK(drives, disks') /\ StackOK(drives, disks', stack')
           /\ room' \in Nat /\ failed' \in BOOLEAN
<1> DEFINE p == Top.disk
           P == disks[p]
           L == Contents(p)
           d == Len(disks) + 1
           pl == Place(p, first)
           b == New(P.drive, pl, num, kind, p, P.parts)
           new == Append([disks EXCEPT ![p].parts = @ + 1], b)
           t == Advanced
           f1 == Call("mbr", d)
           f2 == Call("fs", d)
<1>1. /\ ListOK(drives, disks) /\ StackOK(drives, disks, stack) /\ drives \in Machines
      /\ room \in Nat /\ failed \in BOOLEAN
    BY DEF Inv
<1>2. /\ StackOK(drives, disks, t) /\ t # <<>>
      /\ \A k \in DOMAIN t : Before(drives, disks, t[k], Top) \/ (t[k].disk = p /\ t[k].at = Top.at)
    BY <1>1, AdvancedOK DEF Advanced, Below, Top
<1>3. CASE ~Fits(p, first, num) \/ room = 0
    BY <1>1, <1>2, <1>3 DEF DiskMmap
<1>4. CASE Fits(p, first, num) /\ room # 0
  <2>1. /\ disks' = new /\ room' = room - 1 /\ failed' = failed
        /\ stack' = t \o (IF kind = "ext" THEN <<f1>> ELSE <<>>) \o <<f2>>
      BY <1>4 DEF DiskMmap
  <2>2. p \in DOMAIN disks /\ Len(disks) \in Nat /\ DOMAIN disks = 1 .. Len(disks) /\ P \in Disk
    <3>1. Len(stack) \in DOMAIN stack
      BY <1>1, BelowOK
    <3>2. p \in DOMAIN disks
      BY <1>1, <3>1 DEF StackOK, FrameOK, Top
    <3> QED
      BY <1>1, <3>2, ListTypes
  <2>3. P.drive \in DOMAIN drives /\ P.start + P.count <= Sectors(L)
      BY <1>1, <2>2 DEF ListOK, DiskOK, Contents
  <2>4. Sectors(L) \in Nat /\ 2 * Sectors(L) <= Word /\ Word \in Nat
      BY <1>1, <2>3, DriveTypes, DisksAssumption DEF Contents
  <2>5. P.start \in 0 .. Word - 1 /\ P.count \in 0 .. Word - 1
      BY <2>2 DEF Disk
  <2>6. /\ pl \in 0 .. Word - 1
        /\ ((pl - P.start) % Word) + num >= Word \/ (P.start <= pl /\ pl + num <= P.start + P.count)
        /\ first + num < Word => pl = P.start + first /\ pl + num <= P.start + P.count
    <3>1. (first + num) % Word <= P.count
      BY <1>4 DEF Fits
    <3> HIDE DEF P, L
    <3>2. LET x == (P.start + first) % Word IN
          /\ x \in 0 .. Word - 1
          /\ ((x - P.start) % Word) + num >= Word \/ (P.start <= x /\ x + num <= P.start + P.count)
          /\ first + num < Word => x = P.start + first /\ x + num <= P.start + P.count
      BY <2>3, <2>4, <2>5, <3>1, PartPlaced
    <3> QED
      BY <3>2 DEF Place, P
  <2>7. PartOK(b, P, L)
    <3>1. b.drive = P.drive /\ b.start = pl /\ b.count = num /\ b.kind = kind
      BY DEF New
    <3>2. kind = "ext" => pl = P.start + first /\ pl + num <= P.start + P.count
                          /\ (first # 0 \/ Loops(L))
      BY <2>6
    <3> HIDE DEF b, pl, P, L
    <3>3. kind = "ext" => P.start <= pl /\ (P.start < pl \/ Loops(L))
      BY <2>4, <2>5, <3>2
    <3>4. P.kind # "data"
      BY DEF P
    <3> QED
      BY <2>6, <3>1, <3>2, <3>3, <3>4 DEF PartOK, Inside, Wraps
  <2>8. ListOK(drives, new) /\ Grows(disks, new) /\ DOMAIN new = DOMAIN disks \cup {d} /\ new[d] = b
    <3>1. L = drives[P.drive] /\ (Unsound(L) \/ num > 0)
      BY DEF Contents
    <3> HIDE DEF pl, L, p
    <3>2. PartOK(New(P.drive, pl, num, kind, p, P.parts), P, drives[P.drive])
      BY <2>7, <3>1
    <3>3. p \in DOMAIN disks /\ pl \in 0 .. Word - 1 /\ Word \in Nat /\ Sectors(drives[P.drive]) \in Nat
          /\ (Unsound(drives[P.drive]) \/ num > 0)
      BY <2>2, <2>4, <2>6, <3>1
    <3> QED
      BY <1>1, <3>2, <3>3, PartAdded
  <2>9. b.drive = P.drive /\ b.start = pl /\ b.kind = kind
      BY DEF New
  <2> HIDE DEF new, b, L, P, pl
  <2>17. room' \in Nat
      BY <1>1, <1>4, <2>1
  <2>18. failed' \in BOOLEAN /\ ListOK(drives, disks')
      BY <1>1, <2>1, <2>8
  <2>10. StackOK(drives, new, t)
      BY <1>2, <2>8, GrowStack
  <2>11. t \in Seq(Frame) /\ \A k \in DOMAIN t : FrameOK(drives, disks, t[k])
      BY <1>2 DEF StackOK
  <2>12. f1 \in Frame /\ f2 \in Frame /\ f1.disk = d /\ f2.disk = d /\ f1.at = "mbr" /\ f2.at = "fs" /\ d \in Nat
    <3>1. d \in Nat /\ <<>> \in Seq(MbrRow) /\ 1 \in Nat \ {0}
      BY <2>2, EmptySeq
    <3>2. f1 \in MbrFrame /\ f2 \in MbrFrame
      BY <3>1 DEF Call, MbrFrame
    <3> QED
      BY <3>1, <3>2 DEF Call, Frame
  <2>13. ASSUME NEW k \in DOMAIN t
         PROVE  /\ new[t[k].disk].drive = new[d].drive
                /\ kind = "ext" /\ Scanning(t[k]) => new[t[k].disk].start < new[d].start \/ Loops(L)
    <3>1. t[k].disk \in DOMAIN disks /\ Same(disks[t[k].disk], new[t[k].disk])
      BY <2>8, <2>11 DEF FrameOK, Grows
    <3>2. disks[t[k].disk].drive = P.drive
      BY <1>2 DEF Before, P
    <3>3. ASSUME kind = "ext", Scanning(t[k]), ~Loops(L) PROVE new[t[k].disk].start < new[d].start
      <4>1. Scanning(Top) /\ P.start < pl
        <5>1. pl = P.start + first /\ first # 0
          BY <2>6, <3>3 DEF L
        <5> QED
          BY <2>5, <3>3, <5>1
      <4>2. disks[t[k].disk].start < P.start \/ disks[t[k].disk].start = P.start
        <5>1. L = drives[P.drive]
          BY DEF L, P, Contents
        <5>2. Before(drives, disks, t[k], Top) => disks[t[k].disk].start < P.start
          BY <3>2, <3>3, <4>1, <5>1 DEF Before, P
        <5> QED
          BY <1>2, <5>2 DEF P
      <4>3. disks[t[k].disk] \in Disk
        BY <1>1, <3>1, ListTypes
      <4>4. disks[t[k].disk].start \in Nat
        BY <4>3 DEF Disk
      <4>5. disks[t[k].disk].start < pl
        BY <2>4, <2>5, <2>6, <4>1, <4>2, <4>4
      <4> QED
        BY <2>8, <2>9, <3>1, <4>5 DEF Same
    <3> QED
      BY <2>8, <2>9, <3>1, <3>2, <3>3 DEF Same
  <2>14. FrameOK(drives, new, f2) /\ \A k \in DOMAIN t : Before(drives, new, t[k], f2)
      BY <2>8, <2>12, <2>13 DEF FrameOK, CallOK, ReadsGpt, Before, Scanning
  <2>15. CASE kind = "data"
    <3>1. stack' = Append(t, f2)
      <4>1. t \o <<>> = t /\ Append(t, f2) = t \o <<f2>>
        BY <2>11, <2>12, ConcatEmptySeq, AppendIsConcat
      <4> HIDE DEF t, f1, f2
      <4> QED
        BY <2>1, <2>15, <4>1
    <3> QED
      <4>1. StackOK(drives, new, Append(t, f2))
        BY <2>10, <2>12, <2>14, PushOK
      <4> HIDE DEF t, f1, f2
      <4> QED
        BY <2>1, <2>17, <2>18, <3>1, <4>1
  <2>16. CASE kind = "ext"
    <3> DEFINE u == Append(t, f1)
    <3>1. FrameOK(drives, new, f1)
      BY <2>8, <2>9, <2>12, <2>16 DEF FrameOK, CallOK, ReadsGpt
    <3>2. \A k \in DOMAIN t : Before(drives, new, t[k], f1)
      <4>1. \A k \in DOMAIN t : drives[new[t[k].disk].drive] = L
        <5>1. new[d].drive = P.drive
          BY <2>8, <2>9
        <5> QED
          BY <2>13, <5>1 DEF L, P, Contents
      <4> QED
        BY <2>12, <2>13, <2>16, <4>1 DEF Before
    <3>3. /\ StackOK(drives, new, u) /\ u[Len(u)] = f1
          /\ \A k \in DOMAIN u : k # Len(u) => k \in DOMAIN t /\ u[k] = t[k]
      BY <2>10, <2>12, <3>1, <3>2, PushOK
    <3>4. u = t \o <<f1>> /\ u \in Seq(Frame)
      BY <2>11, <2>12, <3>3, AppendIsConcat DEF StackOK
    <3> HIDE DEF u
    <3>5. \A k \in DOMAIN u : Before(drives, new, u[k], f2)
      BY <2>12, <2>14, <3>3 DEF Before, Scanning
    <3>6. StackOK(drives, new, Append(u, f2))
      BY <2>12, <2>14, <3>3, <3>5, PushOK
    <3>7. stack' = Append(u, f2)
      <4>1. Append(u, f2) = u \o <<f2>>
        BY <2>12, <3>4, AppendIsConcat
      <4> HIDE DEF t, f1, f2
      <4> QED
        BY <2>1, <2>16, <3>4, <4>1
    <3> QED
      BY <2>1, <2>17, <2>18, <3>6, <3>7
  <2> QED
    BY <2>15, <2>16
<1> QED
    BY <1>3, <1>4

-----------------------------------------------------------------------------
(* What the invariant says of the call on top and of its disk.               *)
LEMMA TopFacts ==
    ASSUME Inv, stack # <<>>
    PROVE  LET b == disks[Top.disk]
               L == Contents(Top.disk)
           IN  /\ Top \in Frame /\ FrameOK(drives, disks, Top) /\ CallOK(Top, b, L)
               /\ Top.disk \in DOMAIN disks /\ b \in Disk /\ DiskOK(drives, disks, Top.disk)
               /\ L = drives[b.drive] /\ b.drive \in DOMAIN drives /\ Fields(L)
               /\ Sectors(L) \in 0 .. Word - 1 /\ 2 * Sectors(L) <= Word
               /\ Top.i \in Nat \ {0} /\ Top.disk \in Nat
<1>1. StackOK(drives, disks, stack) /\ ListOK(drives, disks) /\ drives \in Machines
    BY DEF Inv
<1>2. stack \in Seq(Frame) /\ Len(stack) \in DOMAIN stack /\ Len(stack) \in 1 .. Len(stack)
  <2>1. stack \in Seq(Frame) /\ Len(stack) \in DOMAIN stack
    BY <1>1, BelowOK DEF StackOK
  <2> QED
    BY <2>1, LenProperties
<1>3. Top \in Frame /\ FrameOK(drives, disks, Top)
    BY <1>1, <1>2, ElementOfSeq DEF StackOK, Top
<1>4. Top.disk \in DOMAIN disks /\ CallOK(Top, disks[Top.disk], Contents(Top.disk))
    BY <1>3 DEF FrameOK, Contents
<1>5. disks[Top.disk] \in Disk /\ DiskOK(drives, disks, Top.disk)
    BY <1>1, <1>4, ListTypes DEF ListOK
<1>6. disks[Top.disk].drive \in DOMAIN drives
    BY <1>5 DEF DiskOK
<1>7. Top.i \in Nat \ {0} /\ Top.disk \in Nat
    BY <1>3 DEF Frame, MbrFrame, GptFrame
<1> QED
    BY <1>1, <1>3, <1>4, <1>5, <1>6, <1>7, DriveTypes DEF Contents

LEMMA Kept ==
    ASSUME Inv, drives' = drives, overrun' = overrun, tried' \in 0 .. Len(drives),
           room' \in Nat, errors' \in Nat, failed' \in BOOLEAN,
           ListOK(drives, disks'), StackOK(drives, disks', stack')
    PROVE  Inv'
    BY DEF Inv, BuffersKept

LEMMA InitInv == Init => Inv
<1> SUFFICES ASSUME Init PROVE Inv
    OBVIOUS
<1>1. drives \in Machines /\ tried = 0 /\ disks = <<>> /\ stack = <<>> /\ room \in Nat /\ errors \in Nat
      /\ failed = FALSE /\ overrun = FALSE
    BY DisksAssumption DEF Init
<1>2. ListOK(drives, disks)
  <2>1. disks \in Seq(Disk) /\ DOMAIN disks = {}
    BY <1>1, EmptySeq
  <2> QED
    BY <2>1 DEF ListOK
<1>3. StackOK(drives, disks, stack)
  <2>1. stack \in Seq(Frame) /\ DOMAIN stack = {}
    BY <1>1, EmptySeq
  <2> QED
    BY <2>1 DEF StackOK
<1>4. tried \in 0 .. Len(drives)
    BY <1>1, DriveTypes
<1> QED
    BY <1>1, <1>2, <1>3, <1>4 DEF Inv, BuffersKept

LEMMA NoDriveKeeps == Inv /\ NoDrive => Inv'
<1> SUFFICES ASSUME Inv, NoDrive PROVE Inv'
    OBVIOUS
<1>1. drives \in Machines /\ tried \in 0 .. Len(drives)
    BY DEF Inv
<1>2. tried' \in 0 .. Len(drives)
    BY <1>1, DriveTypes DEF NoDrive
<1> QED
    BY <1>2, Kept DEF NoDrive, Inv

LEMMA DiskCreateKeeps == Inv /\ DiskCreate => Inv'
<1> SUFFICES ASSUME Inv, DiskCreate PROVE Inv'
    OBVIOUS
<1> DEFINE k == tried + 1
           d == Len(disks) + 1
           b == New(k, 0, Sectors(drives[k]), "drive", 0, 0)
           f == Call("fs", d)
           g == Call("mbr", d)
<1>1. /\ drives \in Machines /\ tried \in 0 .. Len(drives) /\ ListOK(drives, disks)
      /\ StackOK(drives, disks, stack) /\ room \in Nat /\ errors \in Nat /\ failed \in BOOLEAN
    BY DEF Inv
<1>2. k \in DOMAIN drives /\ k \in Nat /\ Len(drives) \in Nat /\ tried' \in 0 .. Len(drives)
    BY <1>1, DriveTypes DEF DiskCreate
<1>3. Sectors(drives[k]) \in 1 .. Word - 1
    BY <1>1, <1>2, DriveTypes, DisksAssumption DEF DiskCreate
<1>4. CASE room = 0
    BY <1>1, <1>2, <1>4, Kept DEF DiskCreate
<1>5. CASE room # 0
  <2> DEFINE new == Append(disks, b)
  <2>1. ListOK(drives, new) /\ DOMAIN new = DOMAIN disks \cup {d} /\ new[d] = b
    BY <1>1, <1>2, <1>3, DriveAdded
  <2>2. disks' = new /\ stack' = <<f, g>> /\ UNCHANGED <<drives, errors, failed, overrun>>
    BY <1>5 DEF DiskCreate
  <2>3. room' \in Nat
    BY <1>1, <1>5 DEF DiskCreate
  <2>4. b.kind = "drive"
    BY DEF New
  <2> HIDE DEF new, b
  <2>5. f \in Frame /\ g \in Frame /\ f.disk = d /\ g.disk = d /\ f.at = "fs" /\ g.at = "mbr"
    <3>1. d \in Nat /\ <<>> \in Seq(MbrRow) /\ 1 \in Nat \ {0}
      BY <1>1, ListTypes, EmptySeq
    <3>2. f \in MbrFrame /\ g \in MbrFrame
      BY <3>1 DEF Call, MbrFrame
    <3> QED
      BY <3>1, <3>2 DEF Call, Frame
  <2> HIDE DEF f, g
  <2>6. FrameOK(drives, new, f) /\ FrameOK(drives, new, g) /\ Before(drives, new, f, g)
    BY <2>1, <2>4, <2>5 DEF FrameOK, CallOK, ReadsGpt, Before, Scanning
  <2>7. StackOK(drives, new, <<f, g>>)
    <3>1. <<f, g>> \in Seq(Frame) /\ DOMAIN <<f, g>> = {1, 2} /\ <<f, g>>[1] = f /\ <<f, g>>[2] = g
      BY <2>5
    <3>2. \A i, j \in {1, 2} : i < j => i = 1 /\ j = 2
      OBVIOUS
    <3> QED
      BY <2>6, <3>1, <3>2 DEF StackOK
  <2> QED
    BY <1>1, <1>2, <2>1, <2>2, <2>3, <2>7, Kept
<1> QED
    BY <1>4, <1>5

-----------------------------------------------------------------------------
(* A table that names a GPT is the drive's first, or in sectors that are not  *)
(* read, or nothing is sound.                                                *)
LEMMA GptOnlyAtEdge ==
    ASSUME Inv, stack # <<>>, Top.at = "mbr",
           NEW table \in Meaning(Top.disk, 0, TRUE, Contents(Top.disk).mbr, <<>>), Of(table, "gpt") # {},
           ~Unsound(Contents(Top.disk))
    PROVE  Edge(disks[Top.disk], Contents(Top.disk))
<1> DEFINE b == disks[Top.disk]
           L == Contents(Top.disk)
           answer == Answer(Top.disk, 0, TRUE)
<1>1. /\ b \in Disk /\ CallOK(Top, b, L) /\ DiskOK(drives, disks, Top.disk)
      /\ L = drives[b.drive] /\ Sectors(L) \in 0 .. Word - 1
    BY TopFacts
<1>2. b.kind # "data" /\ b.start \in Nat /\ b.count \in Nat /\ b.start < Word /\ b.count > 0
  <2>1. b.count > 0
    BY <1>1 DEF DiskOK
  <2> QED
    BY <1>1, <2>1, DisksAssumption DEF CallOK, Disk
<1>3. (b.start + 0) % Word = b.start
  <2> HIDE DEF b
  <2>1. b.start + 0 = b.start /\ b.start \in Int /\ 0 <= b.start
    BY <1>2
  <2> QED
    BY <1>2, <2>1, ModOnce, DisksAssumption
<1>4. CASE answer = "nothing"
  <2>1. 0 < b.count
    BY <1>2
  <2>2. (b.start + 0) % Word >= Sectors(L) - 1
    BY <1>4, <2>1 DEF Answer
  <2> QED
    BY <1>3, <2>2 DEF Edge
<1>5. CASE answer = "data"
  <2>1. table # <<>>
    BY DEF Of
  <2>2. b.start \in DOMAIN L.mbr /\ table = L.mbr[b.start]
    <3> HIDE DEF b, L
    <3> QED
      BY <1>3, <1>5, <2>1 DEF Meaning, b, L
  <2>3. DOMAIN L.gpt = {} \/ (~Loops(L) /\ b.start = 0)
    <3> HIDE DEF b, L
    <3> QED
      BY <2>2 DEF Unsound, L
  <2>4. ASSUME b.kind = "ext", ~Loops(L), b.start = 0 PROVE FALSE
    <3> DEFINE q == disks[b.parent]
    <3>1. b.parent \in DOMAIN disks /\ PartOK(b, q, L)
      BY <1>1, <2>4 DEF DiskOK
    <3>2. q \in Disk
      BY <3>1, ListTypes DEF Inv
    <3>3. q.start < b.start /\ q.start \in Nat
      BY <2>4, <3>1, <3>2 DEF PartOK, Disk
    <3> QED
      BY <1>2, <2>4, <3>3
  <2>5. b.kind \in {"drive", "ext"}
    BY <1>1, <1>2 DEF Disk
  <2> HIDE DEF b, L
  <2> QED
    BY <2>3, <2>4, <2>5 DEF Edge, b, L
<1>6. answer # "overrun"
  <2>1. 0 < b.count
    BY <1>2
  <2> QED
    BY <2>1 DEF Answer
<1> QED
  <2>1. answer \in {"nothing", "data", "overrun"}
    BY DEF Answer
  <2> QED
    BY <1>4, <1>5, <1>6, <2>1

LEMMA ReadMbrKeeps == Inv /\ ReadMbr => Inv'
<1> SUFFICES ASSUME Inv, ReadMbr PROVE Inv'
    OBVIOUS
<1> DEFINE b == disks[Top.disk]
           L == Contents(Top.disk)
<1>1. stack # <<>> /\ Top.at = "mbr" /\ UNCHANGED <<drives, tried, disks, room, overrun>>
    BY DEF ReadMbr, Busy
<1>2. /\ Top \in Frame /\ FrameOK(drives, disks, Top) /\ CallOK(Top, b, L)
      /\ Top.disk \in DOMAIN disks /\ L = drives[b.drive] /\ Fields(L)
    BY <1>1, TopFacts
<1>3. /\ tried \in 0 .. Len(drives) /\ room \in Nat /\ errors \in Nat /\ failed \in BOOLEAN
      /\ ListOK(drives, disks) /\ StackOK(drives, disks, stack)
    BY DEF Inv
<1>4. CASE ReadError /\ stack' = Below
  <2>1. StackOK(drives, disks, stack')
    BY <1>1, <1>3, <1>4, BelowOK DEF Below
  <2>2. errors' \in Nat
    BY <1>3, <1>4 DEF ReadError
  <2> QED
    BY <1>1, <1>3, <1>4, <2>1, <2>2, Kept DEF ReadError
<1>5. ASSUME ReadOk, NEW table \in Meaning(Top.disk, 0, TRUE, L.mbr, <<>>),
             stack' = Append(Below, [Top EXCEPT !.at = "entries", !.table = table])
      PROVE  Inv'
  <2> DEFINE f == [Top EXCEPT !.at = "entries", !.table = table]
  <2>1. Top \in MbrFrame
    BY <1>1, <1>2 DEF Frame, GptFrame
  <2>2. table = <<>> \/ table \in Tables(L)
    BY DEF Meaning, Tables
  <2>3. table \in Seq(MbrRow)
    BY <1>2, <2>2, TableTypes, EmptySeq
  <2>4. f \in Frame /\ f.at = "entries" /\ f.table = table /\ f.disk = Top.disk
    <3>1. f \in MbrFrame
      BY <2>1, <2>3 DEF MbrFrame
    <3> QED
      BY <2>1, <3>1 DEF Frame, MbrFrame
  <2>5. ReadsGpt(f) => Unsound(L) \/ Edge(b, L)
    BY <1>1, <2>4, GptOnlyAtEdge DEF ReadsGpt
  <2> HIDE DEF f
  <2>6. FrameOK(drives, disks, f)
    <3>1. CallOK(f, b, L)
      BY <1>1, <1>2, <2>2, <2>4, <2>5 DEF CallOK
    <3> QED
      BY <1>2, <2>4, <3>1 DEF FrameOK
  <2>7. StackOK(drives, disks, Append(SubSeq(stack, 1, Len(stack) - 1), f))
    <3>1. f.disk = stack[Len(stack)].disk /\ Scanning(stack[Len(stack)])
      BY <1>1, <2>4 DEF Top, Scanning
    <3> QED
      BY <1>1, <1>3, <2>4, <2>6, <3>1, ReplaceOK
  <2>8. stack' = Append(SubSeq(stack, 1, Len(stack) - 1), f)
    BY <1>5 DEF Below, f
  <2> QED
    BY <1>1, <1>3, <1>5, <2>7, <2>8, Kept DEF ReadOk
<1> QED
    BY <1>4, <1>5 DEF ReadMbr

-----------------------------------------------------------------------------
(* Steps that only go on to the next entry, or return.                       *)
LEMMA AdvancedKeeps ==
    ASSUME Inv, stack # <<>>, stack' = Advanced, UNCHANGED <<drives, tried, disks, room, overrun>>,
           errors' \in Nat, failed' \in BOOLEAN
    PROVE  Inv'
<1>1. /\ tried \in 0 .. Len(drives) /\ room \in Nat /\ errors \in Nat /\ failed \in BOOLEAN
      /\ ListOK(drives, disks) /\ StackOK(drives, disks, stack)
    BY DEF Inv
<1>2. StackOK(drives, disks, stack')
    BY <1>1, AdvancedOK DEF Advanced, Below, Top
<1> QED
    BY <1>1, <1>2, Kept

LEMMA MbrEmptyKeeps == Inv /\ MbrEmpty => Inv'
    BY AdvancedKeeps DEF MbrEmpty, AtEntry, Busy, Inv

LEMMA GptErrorKeeps == Inv /\ GptError => Inv'
<1> SUFFICES ASSUME Inv, GptError PROVE Inv'
    OBVIOUS
<1>1. errors' \in Nat
    BY DEF Inv, GptError, ReadError
<1> QED
    BY <1>1, AdvancedKeeps DEF GptError, AtPart, Busy, ReadError

LEMMA TableDoneKeeps == Inv /\ TableDone => Inv'
<1> SUFFICES ASSUME Inv, TableDone PROVE Inv'
    OBVIOUS
<1>1. StackOK(drives, disks, stack')
    BY BelowOK DEF Inv, TableDone, Busy, Below
<1> QED
    BY <1>1, Kept DEF TableDone, Inv

LEMMA MbrGptKeeps == Inv /\ MbrGpt => Inv'
<1> SUFFICES ASSUME Inv, MbrGpt PROVE Inv'
    OBVIOUS
<1> DEFINE f == Call("gpt", Top.disk)
           t == Advanced
<1>1. /\ stack # <<>> /\ Top.at = "entries" /\ Top.i <= Len(Top.table) /\ Entry.type = "gpt"
      /\ UNCHANGED <<drives, tried, disks, room, errors, failed, overrun>> /\ stack' = Append(t, f)
    BY DEF MbrGpt, AtEntry, Busy
<1>2. /\ FrameOK(drives, disks, Top) /\ CallOK(Top, disks[Top.disk], Contents(Top.disk))
      /\ Top \in Frame /\ Top.i \in Nat \ {0} /\ Top.disk \in Nat /\ Top.disk \in DOMAIN disks
    BY <1>1, TopFacts
<1>3. /\ StackOK(drives, disks, t)
      /\ \A k \in DOMAIN t : Before(drives, disks, t[k], Top) \/ (t[k].disk = Top.disk /\ t[k].at = Top.at)
    BY <1>1, AdvancedOK DEF Advanced, Below, Top, Inv
<1>4. f \in Frame /\ f.disk = Top.disk /\ f.at = "gpt"
  <2>1. <<>> \in Seq(MbrRow) /\ 1 \in Nat \ {0}
    BY EmptySeq
  <2>2. f \in MbrFrame
    BY <1>2, <2>1 DEF Call, MbrFrame
  <2> QED
    BY <2>2 DEF Call, Frame
<1>5. Of(Top.table, "gpt") # {}
  <2>1. Top \in MbrFrame
    BY <1>1, <1>2 DEF Frame, GptFrame
  <2>2. Top.table \in Seq(MbrRow)
    BY <2>1 DEF MbrFrame
  <2>3. Top.i \in DOMAIN Top.table
    BY <1>1, <1>2, <2>2, LenProperties
  <2> QED
    BY <1>1, <2>3 DEF Of, Entry
<1> HIDE DEF f, t
<1>6. FrameOK(drives, disks, f)
  <2>1. CallOK(f, disks[Top.disk], Contents(Top.disk))
    BY <1>1, <1>2, <1>4, <1>5 DEF CallOK, ReadsGpt
  <2> QED
    BY <1>2, <1>4, <2>1 DEF FrameOK, Contents
<1>7. \A k \in DOMAIN t : Before(drives, disks, t[k], f)
    BY <1>3, <1>4 DEF Before, Scanning
<1>8. StackOK(drives, disks, stack')
    BY <1>1, <1>3, <1>4, <1>6, <1>7, PushOK
<1> QED
    BY <1>1, <1>8, Kept DEF Inv

-----------------------------------------------------------------------------
(* An entry of an MBR that describes a partition.                            *)
LEMMA EntryFacts ==
    ASSUME Inv, NEW type \in {"data", "ext"}, AtEntry(type)
    PROVE  LET L == Contents(Top.disk) IN
           /\ stack # <<>> /\ Scanning(Top) /\ disks[Top.disk].kind # "data"
           /\ Entry.first \in 0 .. Word - 1 /\ Entry.num \in 0 .. Word - 1
           /\ Entry.first + Entry.num < Word
           /\ Unsound(L) \/ Entry.num > 0
           /\ type = "ext" => Entry.first # 0 \/ Loops(L)
<1> DEFINE L == Contents(Top.disk)
           t == Top.table
<1>1. stack # <<>> /\ Top.at = "entries" /\ Top.i <= Len(t) /\ Entry.type = type
    BY DEF AtEntry, Busy
<1>2. Top \in Frame /\ CallOK(Top, disks[Top.disk], L) /\ Top.i \in Nat \ {0} /\ Fields(L)
    BY <1>1, TopFacts
<1>3. t \in Seq(MbrRow) /\ disks[Top.disk].kind # "data" /\ (t = <<>> \/ t \in Tables(L))
    BY <1>1, <1>2 DEF Frame, MbrFrame, GptFrame, CallOK
<1>4. Top.i \in 1 .. Len(t) /\ Top.i \in DOMAIN t
    BY <1>1, <1>2, <1>3, LenProperties
<1>5. t \in Tables(L)
    BY <1>3, <1>4, EmptySeq
<1>6. Entry \in MbrRow /\ Entry.first + Entry.num < Word
  <2>1. t[Top.i] \in MbrRow
    BY <1>3, <1>4, ElementOfSeq
  <2> HIDE DEF L
  <2>2. t[Top.i].first + t[Top.i].num < Word
    BY <1>2, <1>4, <1>5, TableTypes
  <2> QED
    BY <2>1, <2>2 DEF Entry
<1>7. Entry \in Of(t, type)
    BY <1>1, <1>4 DEF Of, Entry
<1> HIDE DEF L, t
<1>8. Entry.num = 0 => Unsound(L)
    BY <1>5, <1>7 DEF Unsound
<1>9. type = "ext" /\ Entry.first = 0 => Loops(L)
    BY <1>5, <1>7 DEF Loops
<1>10. Entry.first \in 0 .. Word - 1 /\ Entry.num \in 0 .. Word - 1
    BY <1>6 DEF MbrRow
<1>11. Unsound(L) \/ Entry.num > 0
    BY <1>8, <1>10
<1> QED
    BY <1>1, <1>3, <1>6, <1>9, <1>10, <1>11 DEF L, Scanning

LEMMA MbrPartKeeps == Inv /\ MbrPart => Inv'
<1> SUFFICES ASSUME Inv, MbrPart PROVE Inv'
    OBVIOUS
<1>1. AtEntry("data") /\ DiskMmap(Entry.first, Entry.num, "data")
      /\ UNCHANGED <<drives, tried, errors, boot, overrun>>
    BY DEF MbrPart
<1>2. ListOK(drives, disks') /\ StackOK(drives, disks', stack') /\ room' \in Nat /\ failed' \in BOOLEAN
    BY <1>1, EntryFacts, DiskMmapKeeps
<1> QED
    BY <1>1, <1>2, Kept DEF Inv

LEMMA MbrExtendedKeeps == Inv /\ MbrExtended => Inv'
<1> SUFFICES ASSUME Inv, MbrExtended PROVE Inv'
    OBVIOUS
<1>1. AtEntry("ext") /\ DiskMmap(Entry.first, Entry.num, "ext")
      /\ UNCHANGED <<drives, tried, errors, boot, overrun>>
    BY DEF MbrExtended
<1>2. ListOK(drives, disks') /\ StackOK(drives, disks', stack') /\ room' \in Nat /\ failed' \in BOOLEAN
    BY <1>1, EntryFacts, DiskMmapKeeps
<1> QED
    BY <1>1, <1>2, Kept DEF Inv

LEMMA ReadGptKeeps == Inv /\ ReadGpt => Inv'
<1> SUFFICES ASSUME Inv, ReadGpt PROVE Inv'
    OBVIOUS
<1> DEFINE b == disks[Top.disk]
           L == Contents(Top.disk)
<1>1. stack # <<>> /\ Top.at = "gpt" /\ UNCHANGED <<drives, tried, disks, room, overrun>>
    BY DEF ReadGpt, Busy
<1>2. /\ FrameOK(drives, disks, Top) /\ CallOK(Top, b, L) /\ Top.disk \in Nat
      /\ Top.disk \in DOMAIN disks /\ L = drives[b.drive] /\ Fields(L)
    BY <1>1, TopFacts
<1>3. /\ tried \in 0 .. Len(drives) /\ room \in Nat /\ errors \in Nat /\ failed \in BOOLEAN
      /\ ListOK(drives, disks) /\ StackOK(drives, disks, stack)
    BY DEF Inv
<1>4. CASE ReadError /\ stack' = Below
  <2>1. StackOK(drives, disks, stack')
    BY <1>1, <1>3, <1>4, BelowOK DEF Below
  <2>2. errors' \in Nat
    BY <1>3, <1>4 DEF ReadError
  <2> QED
    BY <1>1, <1>3, <1>4, <2>1, <2>2, Kept DEF ReadError
<1>5. ASSUME ReadOk, NEW g \in Meaning(Top.disk, 1, FALSE, L.gpt, NoGpt),
             stack' = Append(Below, [at |-> "parts", disk |-> Top.disk, i |-> 1,
                                     table |-> g.parts, lba |-> g.at])
      PROVE  Inv'
  <2> DEFINE f == [at |-> "parts", disk |-> Top.disk, i |-> 1, table |-> g.parts, lba |-> g.at]
  <2>1. (g.parts = <<>> /\ g.at = 0) \/ \E s \in DOMAIN L.gpt : g = L.gpt[s]
    <3>1. g = NoGpt \/ \E s \in DOMAIN L.gpt : g = L.gpt[s]
      BY DEF Meaning
    <3> QED
      BY <3>1 DEF NoGpt
  <2>2. g.parts \in Seq(GptSpan) /\ g.at \in 0 .. Word - 1
    <3>1. <<>> \in Seq(GptSpan) /\ 0 \in 0 .. Word - 1
      BY EmptySeq, DisksAssumption
    <3> HIDE DEF L
    <3> QED
      BY <1>2, <2>1, <3>1, TableTypes
  <2>3. f \in Frame
    <3>1. 1 \in Nat \ {0}
      OBVIOUS
    <3> QED
      BY <1>2, <2>2, <3>1 DEF Frame, GptFrame
  <2>4. f.at = "parts" /\ f.disk = Top.disk /\ f.table = g.parts /\ f.lba = g.at
    OBVIOUS
  <2> HIDE DEF f
  <2>5. FrameOK(drives, disks, f)
    <3> HIDE DEF b, L
    <3>1. f.table = <<>> \/ \E s \in DOMAIN L.gpt : f.lba = L.gpt[s].at /\ f.table = L.gpt[s].parts
      BY <2>1, <2>4
    <3>2. CallOK(f, b, L)
      BY <1>1, <1>2, <2>4, <3>1 DEF CallOK, ReadsGpt
    <3> QED
      BY <1>2, <2>4, <3>2 DEF FrameOK, b, L
  <2>6. StackOK(drives, disks, Append(SubSeq(stack, 1, Len(stack) - 1), f))
    <3>1. f.disk = stack[Len(stack)].disk /\ ~Scanning(f)
      BY <2>4 DEF Top, Scanning
    <3> QED
      BY <1>1, <1>3, <2>3, <2>5, <3>1, ReplaceOK
  <2>7. stack' = Append(SubSeq(stack, 1, Len(stack) - 1), f)
    BY <1>5 DEF Below, f
  <2> QED
    BY <1>1, <1>3, <1>5, <2>6, <2>7, Kept DEF ReadOk
<1> QED
    BY <1>4, <1>5 DEF ReadGpt

-----------------------------------------------------------------------------
(* The table gpt_part is in.                                                 *)
LEMMA PartFacts ==
    ASSUME Inv, AtPart
    PROVE  LET L == Contents(Top.disk) IN
           /\ stack # <<>> /\ disks[Top.disk].kind # "data"
           /\ Top.table \in Seq(GptSpan) /\ Top.i \in 1 .. Len(Top.table) /\ Top.lba \in 0 .. Word - 1
           /\ \E s \in DOMAIN L.gpt : Top.lba = L.gpt[s].at /\ Top.table = L.gpt[s].parts
           /\ Unsound(L) \/ Edge(disks[Top.disk], L)
<1> DEFINE L == Contents(Top.disk)
<1>1. stack # <<>> /\ Top.at = "parts" /\ Top.i <= Len(Top.table)
    BY DEF AtPart, Busy
<1>2. Top \in Frame /\ CallOK(Top, disks[Top.disk], L) /\ Top.i \in Nat \ {0}
    BY <1>1, TopFacts
<1>3. Top.table \in Seq(GptSpan) /\ Top.lba \in 0 .. Word - 1
    BY <1>1, <1>2 DEF Frame, MbrFrame, GptFrame
<1>4. Top.i \in 1 .. Len(Top.table)
    BY <1>1, <1>2, <1>3, LenProperties
<1>5. Top.table # <<>>
    BY <1>4, EmptySeq
<1> QED
    BY <1>1, <1>2, <1>3, <1>4, <1>5 DEF CallOK, ReadsGpt

(* A GPT entry of a sound table has sectors.                                 *)
LEMMA GptCountPositive ==
    ASSUME NEW L, NEW s \in DOMAIN L.gpt, NEW i \in DOMAIN L.gpt[s].parts,
           L.gpt[s].parts[i] \in GptSpan, L.gpt[s].parts[i].first # 0
    PROVE  LET e == L.gpt[s].parts[i] IN
           GptCount(e) \in 0 .. Word - 1 /\ (Unsound(L) \/ GptCount(e) > 0)
<1> DEFINE e == L.gpt[s].parts[i]
           x == e.last - e.first + 1
<1>1. e.first \in 1 .. Word - 1 /\ e.last \in 0 .. Word - 1 /\ Word \in Nat \ {0}
    BY DisksAssumption DEF GptSpan
<1>2. x = 0 => Unsound(L)
  <2>1. x = 0 => e.first = e.last + 1
    BY <1>1
  <2> QED
    BY <2>1 DEF Unsound
<1>3. x \in Int /\ (-Word) <= x /\ x < Word
    BY <1>1
<1>4. GptCount(e) = x % Word
    BY DEF GptCount
<1> HIDE DEF x, e
<1>5. x % Word \in 0 .. Word - 1 /\ (x # 0 => x % Word > 0)
  <2>1. CASE x >= 0
    <3>1. x % Word = x /\ x % Word \in 0 .. Word - 1
      BY <1>1, <1>3, <2>1, ModOnce
    <3> QED
      BY <1>3, <2>1, <3>1
  <2>2. CASE x < 0
    <3>1. x % Word = x + Word /\ x % Word \in 0 .. Word - 1
      BY <1>1, <1>3, <2>2, ModOnce
    <3>2. x % Word > 0 \/ x = -Word
      BY <1>1, <1>3, <3>1
    <3>3. x # -Word
      BY <1>1 DEF x
    <3> QED
      BY <3>1, <3>2, <3>3
  <2> QED
    BY <1>3, <2>1, <2>2
<1> QED
    BY <1>2, <1>4, <1>5 DEF e

LEMMA GptPartKeeps == Inv /\ GptPart => Inv'
<1> SUFFICES ASSUME Inv, GptPart PROVE Inv'
    OBVIOUS
<1> DEFINE t == Top.table
           L == Contents(Top.disk)
<1>1. AtPart /\ UNCHANGED <<drives, tried, errors, boot, overrun>>
    BY DEF GptPart
<1>2. /\ stack # <<>> /\ disks[Top.disk].kind # "data" /\ t \in Seq(GptSpan) /\ Top.i \in 1 .. Len(t)
      /\ \E s \in DOMAIN L.gpt : Top.lba = L.gpt[s].at /\ t = L.gpt[s].parts
    BY <1>1, PartFacts
<1>3. PICK k \in 1 .. Len(t) :
        IF t[k].first = 0
        THEN stack' = Advanced /\ UNCHANGED <<disks, room, failed>>
        ELSE DiskMmap(t[k].first, GptCount(t[k]), "data")
    BY <1>2 DEF GptPart
<1>4. CASE t[k].first = 0
    BY <1>1, <1>2, <1>3, <1>4, AdvancedKeeps DEF Inv
<1>5. CASE t[k].first # 0
  <2>1. PICK s \in DOMAIN L.gpt : t = L.gpt[s].parts
    BY <1>2
  <2>2. k \in DOMAIN t /\ t[k] \in GptSpan
    BY <1>2, LenProperties, ElementOfSeq
  <2>3. GptCount(t[k]) \in 0 .. Word - 1 /\ (Unsound(L) \/ GptCount(t[k]) > 0)
    <3> HIDE DEF t, L
    <3> QED
      BY <1>5, <2>1, <2>2, GptCountPositive
  <2>4. t[k].first \in 0 .. Word - 1 /\ "data" \in {"data", "ext"} /\ "data" # "ext"
    BY <2>2 DEF GptSpan
  <2>5. DiskMmap(t[k].first, GptCount(t[k]), "data")
    BY <1>3, <1>5
  <2>6. ListOK(drives, disks') /\ StackOK(drives, disks', stack') /\ room' \in Nat /\ failed' \in BOOLEAN
    <3> HIDE DEF t
    <3> QED
      BY <1>2, <2>3, <2>4, <2>5, DiskMmapKeeps
  <2> QED
    BY <1>1, <2>6, Kept DEF Inv
<1> QED
    BY <1>4, <1>5

LEMMA FsInitKeeps == Inv /\ FsInit => Inv'
<1> SUFFICES ASSUME Inv, FsInit PROVE Inv'
    OBVIOUS
<1>1. /\ stack # <<>> /\ stack' = Below /\ UNCHANGED <<drives, tried, boot, overrun>>
      /\ \E found \in {"fat", "junk", "raw"} :
            /\ disks' = [disks EXCEPT ![Top.disk].fs = IF room = 0 THEN "raw" ELSE found]
            /\ room' = IF found = "raw" \/ room = 0 THEN room ELSE room - 1
    BY DEF FsInit, Busy
<1>2. /\ tried \in 0 .. Len(drives) /\ room \in Nat /\ errors \in Nat /\ failed \in BOOLEAN
      /\ ListOK(drives, disks) /\ StackOK(drives, disks, stack)
    BY DEF Inv
<1>3. (ReadError \/ ReadOk \/ (failed' = TRUE /\ UNCHANGED errors))
    BY DEF FsInit
<1>4. errors' \in Nat /\ failed' \in BOOLEAN
  <2>1. errors' \in Nat
    BY <1>2, <1>3 DEF ReadError, ReadOk
  <2>2. failed' \in BOOLEAN
    BY <1>2, <1>3, Zenon DEF ReadError, ReadOk
  <2> QED
    BY <2>1, <2>2
<1>5. room' \in Nat
    BY <1>1, <1>2
<1>6. Top.disk \in DOMAIN disks
    BY <1>1, TopFacts
<1>7. PICK what \in {"none", "fat", "junk", "raw"} : disks' = [disks EXCEPT ![Top.disk].fs = what]
    BY <1>1
<1>8. ListOK(drives, disks') /\ Grows(disks, disks')
    BY <1>2, <1>6, <1>7, FsSet
<1>9. StackOK(drives, disks', stack')
  <2>1. StackOK(drives, disks, Below)
    BY <1>1, <1>2, BelowOK DEF Below
  <2> QED
    BY <1>1, <1>8, <2>1, GrowStack
<1> QED
    BY <1>1, <1>2, <1>4, <1>5, <1>8, <1>9, Kept

(* A read longer than its buffer: only on a disk without sectors ...         *)
LEMMA FsOverrunUnsound == Inv /\ FsOverrun => Unsound(Contents(Top.disk))
<1> SUFFICES ASSUME Inv, FsOverrun, ~Unsound(Contents(Top.disk)) PROVE FALSE
    OBVIOUS
<1>1. stack # <<>> /\ Answer(Top.disk, 0, TRUE) = "overrun"
    BY DEF FsOverrun, Busy, Overrun
<1>2. disks[Top.disk].count > 0
    BY <1>1, TopFacts DEF DiskOK
<1>3. 0 < disks[Top.disk].count
    BY <1>1, <1>2, TopFacts DEF Disk
<1> QED
    BY <1>1, <1>3 DEF Answer

(* ... or in a GPT whose entries lie where the disk has no sectors.          *)
LEMMA GptOverrunUnsound == Inv /\ GptEntryOverrun => Unsound(Contents(Top.disk))
<1> SUFFICES ASSUME Inv, GptEntryOverrun, ~Unsound(Contents(Top.disk)) PROVE FALSE
    OBVIOUS
<1> DEFINE b == disks[Top.disk]
           L == Contents(Top.disk)
           q == (Top.i - 1) \div PerSector
           x == Top.lba + q
           r == EntrySector
<1>1. AtPart /\ Answer(Top.disk, r, EntryInside) = "overrun"
    BY DEF GptEntryOverrun, Overrun
<1>2. /\ stack # <<>> /\ b.kind # "data" /\ Top.table \in Seq(GptSpan) /\ Top.i \in 1 .. Len(Top.table)
      /\ Top.lba \in 0 .. Word - 1 /\ Edge(b, L)
    BY <1>1, PartFacts
<1>3. PICK s \in DOMAIN L.gpt : Top.lba = L.gpt[s].at /\ Top.table = L.gpt[s].parts
    BY <1>1, PartFacts
<1>4. /\ b \in Disk /\ DiskOK(drives, disks, Top.disk) /\ L = drives[b.drive]
      /\ Sectors(L) \in 0 .. Word - 1 /\ 2 * Sectors(L) <= Word
    BY <1>2, TopFacts
<1>5. /\ b.start \in Nat /\ b.count \in Nat /\ b.count > 0 /\ b.start + b.count <= Sectors(L)
      /\ (b.kind = "drive" => b.start = 0 /\ b.count = Sectors(L))
    BY <1>2, <1>4 DEF Disk, DiskOK, DriveOK
<1>6. Len(Top.table) \in Nat \ {0} /\ PerSector \in Nat \ {0} /\ Word \in Nat \ {0}
    BY <1>2, LenProperties, DisksAssumption
<1> DEFINE n == Len(Top.table) - 1
           z == n \div PerSector
<1>7. q \in Nat /\ z \in Nat /\ q <= z
  <2>1. Top.i - 1 \in Nat /\ n \in Nat /\ Top.i - 1 <= n
    BY <1>2, <1>6
  <2> HIDE DEF n
  <2> QED
    BY <1>6, <2>1, DivMonotonic
<1>8. Top.lba + z < Sectors(L)
  <2>1. ~(Top.lba + z >= Sectors(L))
    BY <1>3 DEF Unsound
  <2> HIDE DEF z, L
  <2> QED
    BY <1>2, <1>4, <1>7, <2>1
<1>9. r = x /\ r \in Nat /\ r < Sectors(L)
  <2>1. r = x % Word
    BY DEF EntrySector
  <2> HIDE DEF q, r, b, L, z
  <2>2. x \in Int /\ 0 <= x /\ x < Word /\ x < Sectors(L)
    BY <1>2, <1>4, <1>6, <1>7, <1>8
  <2> HIDE DEF x
  <2>3. x % Word = x
    BY <1>6, <2>2, ModOnce
  <2>4. x \in Nat
    BY <2>2
  <2> QED
    BY <2>1, <2>2, <2>3, <2>4
<1>10. r \in Nat /\ r < Sectors(L)
    BY <1>9
<1> HIDE DEF q, x, r
<1>11. ~(r < b.count) /\ (b.start + r) % Word < Sectors(L) - 1
  <2>1. ~(r < b.count) /\ ~((b.start + r) % Word >= Sectors(L) - 1)
    BY <1>1 DEF Answer
  <2>2. b.start + r \in Int /\ Word \in Nat \ {0}
    BY <1>5, <1>6, <1>10
  <2>3. (b.start + r) % Word \in Int
    BY <2>2, ModOnce
  <2> QED
    BY <1>4, <2>1, <2>3
<1>12. CASE b.kind = "drive"
    BY <1>5, <1>10, <1>11, <1>12
<1>13. CASE b.start >= Sectors(L) - 1
  <2>1. b.start + r \in Int /\ 0 <= b.start + r /\ b.start + r < Word /\ b.start + r >= Sectors(L) - 1
    <3> HIDE DEF b, L
    <3> QED
      BY <1>4, <1>5, <1>6, <1>10, <1>13
  <2> DEFINE y == b.start + r
  <2>2. y \in Int /\ 0 <= y /\ y < Word /\ y >= Sectors(L) - 1
    BY <2>1
  <2>3. y % Word < Sectors(L) - 1
    BY <1>11
  <2> HIDE DEF y, b, L
  <2>4. y % Word = y
    BY <1>6, <2>2, ModOnce
  <2> QED
    BY <1>4, <2>2, <2>3, <2>4
<1>14. CASE DOMAIN L.gpt = {}
    BY <1>3, <1>14
<1> QED
    BY <1>2, <1>12, <1>13, <1>14 DEF Edge

LEMMA OverrunKeeps == Inv /\ (FsOverrun \/ GptEntryOverrun) => Inv'
<1> SUFFICES ASSUME Inv, FsOverrun \/ GptEntryOverrun PROVE Inv'
    OBVIOUS
<1>1. Unsound(Contents(Top.disk))
    BY FsOverrunUnsound, GptOverrunUnsound
<1>2. /\ UNCHANGED <<drives, tried, disks, stack, room, errors, failed>> /\ overrun' = TRUE
      /\ stack # <<>>
    BY DEF FsOverrun, GptEntryOverrun, Overrun, AtPart, Busy
<1>3. \E k \in DOMAIN drives : Unsound(drives[k])
    BY <1>1, <1>2, TopFacts
<1> QED
    BY <1>2, <1>3 DEF Inv, BuffersKept

LEMMA ExecInitKeeps == Inv /\ ExecInit => Inv'
    BY Kept DEF ExecInit, Inv

LEMMA NextInv == Inv /\ [Next]_vars => Inv'
<1> SUFFICES ASSUME Inv, [Next]_vars PROVE Inv'
    OBVIOUS
<1>1. CASE UNCHANGED vars
    BY <1>1 DEF vars, Inv, BuffersKept
<1>2. CASE Next
    BY <1>2, NoDriveKeeps, DiskCreateKeeps, ReadMbrKeeps, MbrPartKeeps, MbrExtendedKeeps, MbrGptKeeps,
       MbrEmptyKeeps, TableDoneKeeps, ReadGptKeeps, GptPartKeeps, GptErrorKeeps, OverrunKeeps,
       FsInitKeeps, ExecInitKeeps DEF Next
<1> QED
    BY <1>1, <1>2

(* Whatever the drives hold and whichever read or kmalloc fails, the list of *)
(* disks, the counts of their parts and the calls of mbr_part, gpt_part and  *)
(* disk_fs_init under way agree with the tables.                             *)
THEOREM InvHolds == Spec => []Inv
    BY InitInv, NextInv, PTL DEF Spec

(* disk_mmap makes every partition inside the disk it is a part of, unless   *)
(* the partition's own end wraps, and numbers it by its parent's count;      *)
(* mbr_part never scans a table inside the scan of the same table, unless an *)
(* extended partition begins at its own table: for every set of drives.      *)
THEOREM PartsStayInside == Spec => []PartsInside
<1>1. Inv => PartsInside
  <2> SUFFICES ASSUME Inv PROVE PartsInside
      OBVIOUS
  <2>1. ListOK(drives, disks) /\ StackOK(drives, disks, stack)
      BY DEF Inv
  <2>2. ASSUME NEW d \in DOMAIN disks, disks[d].kind # "drive", ~Backward(d)
        PROVE  LET p == disks[d].parent IN
               /\ disks[p].drive = disks[d].drive
               /\ disks[p].start <= disks[d].start
               /\ disks[d].start + disks[d].count <= disks[p].start + disks[p].count
    <3> DEFINE b == disks[d]
               p == disks[b.parent]
    <3>1. b.parent \in DOMAIN disks /\ PartOK(b, p, drives[b.drive])
      BY <2>1, <2>2 DEF ListOK, DiskOK
    <3>2. b.kind \in {"data", "ext"}
      BY <2>1, <2>2, ListTypes DEF Disk
    <3>3. ~Wraps(b, p)
      BY <2>2 DEF Backward, Wraps
    <3>4. Inside(b, p) /\ p.drive = b.drive
      BY <3>1, <3>2, <3>3 DEF PartOK
    <3> QED
      BY <3>4 DEF Inside
  <2>3. ASSUME NEW p \in DOMAIN disks
        PROVE  LET parts == {d \in DOMAIN disks : disks[d].parent = p} IN
               /\ Cardinality(parts) = disks[p].parts
               /\ {disks[d].partId : d \in parts} = 0 .. disks[p].parts - 1
    BY <2>1 DEF ListOK, Numbered, PartsOf
  <2>4. ASSUME NEW i \in {k \in DOMAIN stack : stack[k].at \in {"mbr", "entries"}},
               NEW j \in {k \in DOMAIN stack : stack[k].at \in {"mbr", "entries"}}, i # j
        PROVE  \/ disks[stack[i].disk].start # disks[stack[j].disk].start
               \/ Loops(Contents(stack[i].disk))
    <3>1. DOMAIN stack = 1 .. Len(stack) /\ Len(stack) \in Nat
      BY <2>1, LenProperties DEF StackOK
    <3>2. ASSUME NEW f, NEW g, Scanning(f), Scanning(g), f.disk \in DOMAIN disks, Before(drives, disks, f, g)
          PROVE  \/ disks[f.disk].start # disks[g.disk].start
                 \/ Loops(Contents(f.disk)) /\ Contents(f.disk) = Contents(g.disk)
      <4>1. disks[f.disk].start \in Nat
        BY <2>1, <3>2, ListTypes DEF Disk
      <4> QED
        BY <3>2, <4>1 DEF Before, Contents
    <3>3. \A k \in DOMAIN stack : stack[k].disk \in DOMAIN disks
      BY <2>1 DEF StackOK, FrameOK
    <3>4. Scanning(stack[i]) /\ Scanning(stack[j])
      BY DEF Scanning
    <3>5. CASE i < j
      <4>1. Before(drives, disks, stack[i], stack[j])
        BY <2>1, <3>5 DEF StackOK
      <4> QED
        BY <3>2, <3>3, <3>4, <4>1
    <3>6. CASE j < i
      <4>1. Before(drives, disks, stack[j], stack[i])
        BY <2>1, <3>6 DEF StackOK
      <4> QED
        BY <3>2, <3>3, <3>4, <4>1
    <3> QED
      BY <2>4, <3>1, <3>5, <3>6
  <2> QED
      BY <2>2, <2>3, <2>4 DEF PartsInside
<1> QED
    BY <1>1, InvHolds, PTL

(* disk_read never writes more than its caller's buffer holds, for every set *)
(* of drives whose tables are sound.                                         *)
THEOREM BuffersAreKept == Spec => []BuffersKept
<1>1. Inv => BuffersKept
    BY DEF Inv
<1> QED
    BY <1>1, InvHolds, PTL
=============================================================================
