---------------------------- MODULE FatDirProofs ----------------------------
(***************************************************************************)
(* Proofs about FatDir, and about FileRead inside it: for every volume,    *)
(* file and request read_cluster puts the file's bytes where they belong   *)
(* and answers how many; and for every volume, path and number of          *)
(* processes fat_read finds the file its path names and fat_readdir lists  *)
(* the names of a tidy directory.                                          *)
(***************************************************************************)
EXTENDS FatDir, SequenceTheorems, FiniteSetTheorems, NaturalsInduction, TLAPS

-----------------------------------------------------------------------------
(* Quotients and remainders of a number given by both.                       *)
LEMMA DivMod ==
    ASSUME NEW P \in Nat \ {0}, NEW b \in Nat, NEW x \in 0 .. P - 1
    PROVE  /\ b * P + x \in Nat
           /\ (b * P + x) \div P = b /\ (b * P + x) % P = x
<1> DEFINE y == b * P + x
           q == y \div P
           r == y % P
<1>1. b * P \in Nat /\ b * P = P * b
    BY Z3
<1>2. y \in Nat
    BY <1>1
<1> HIDE DEF y
<1>3. q \in Nat /\ r \in 0 .. P - 1 /\ y = P * q + r
    BY <1>2, Z3
<1> HIDE DEF q, r
<1>4. y = P * b + x
    BY <1>1 DEF y
<1>5. q < b => FALSE
  <2> SUFFICES ASSUME q < b PROVE FALSE
    OBVIOUS
  <2>1. P * b >= P * (q + 1) /\ P * (q + 1) = P * q + P
    BY <1>3, Z3
  <2> QED
    BY <1>1, <1>3, <1>4, <2>1
<1>6. q > b => FALSE
  <2> SUFFICES ASSUME q > b PROVE FALSE
    OBVIOUS
  <2>1. P * q >= P * (b + 1) /\ P * (b + 1) = P * b + P /\ P * q \in Nat
    BY <1>3, Z3
  <2> QED
    BY <1>1, <1>3, <1>4, <2>1
<1>7. q = b
    BY <1>3, <1>5, <1>6
<1>8. r = x
    BY <1>1, <1>3, <1>4, <1>7
<1> QED
    BY <1>2, <1>7, <1>8 DEF q, r, y

LEMMA DivProperties ==
    ASSUME NEW P \in Nat \ {0}, NEW y \in Nat
    PROVE  /\ y \div P \in Nat /\ y % P \in 0 .. P - 1
           /\ y = (y \div P) * P + (y % P)
  BY Z3

LEMMA ModSmall ==
    ASSUME NEW P \in Nat \ {0}, NEW x \in 0 .. P - 1
    PROVE  x % P = x
<1>1. 0 * P + x = x /\ 0 \in Nat
    BY Z3
<1> QED
    BY <1>1, DivMod

(* A product grows by a factor for each one more.                            *)
LEMMA Times ==
    ASSUME NEW P \in Nat \ {0}, NEW b \in Nat
    PROVE  /\ b * P \in Nat /\ (b + 1) * P = b * P + P /\ (b + 1 - 1) * P = b * P
           /\ \A c \in Nat : b <= c => b * P <= c * P
           /\ \A c \in Nat : b < c => b * P + P <= c * P
<1>1. b * P \in Nat /\ (b + 1) * P = b * P + P /\ (b + 1 - 1) * P = b * P
    BY Z3
<1>2. \A c \in Nat : b <= c => b * P <= c * P
    BY Z3
<1>3. ASSUME NEW c \in Nat, b < c PROVE b * P + P <= c * P
  <2>1. b + 1 <= c
    BY <1>3
  <2>2. (b + 1) * P <= c * P
    BY <2>1, Z3
  <2> QED
    BY <1>1, <2>2
<1> QED
    BY <1>1, <1>2, <1>3

-----------------------------------------------------------------------------
(* What ata_read copies: never more than it is asked for ...                 *)
LEMMA AtaCountBound ==
    ASSUME volume \in Volumes, NEW want \in Int, NEW at \in Nat
    PROVE  AtaCount(want, at) \in Int /\ (AtaCount(want, at) = 0 \/ AtaCount(want, at) <= want)
<1> DEFINE first == at \div SectorSize
           behind == (at + want + SectorSize - 1) \div SectorSize
           last == IF behind >= volume.sectors THEN volume.sectors - 1 ELSE behind
           start == at % SectorSize
           got == (last - first) * SectorSize - start
<1>1. SectorSize \in Nat \ {0} /\ volume.sectors \in Nat
    BY FileReadAssumption
<1>2. first \in Int /\ start \in Int
    BY <1>1, DivProperties
<1>3. behind \in Int
  <2> DEFINE y == at + want + SectorSize - 1
  <2>1. y \in Int
    BY <1>1
  <2> HIDE DEF y
  <2>2. y \div SectorSize \in Int
    BY <1>1, <2>1, Z3
  <2> QED
    BY <2>2 DEF y
<1>4. AtaCount(want, at) = IF first >= volume.sectors \/ last = first THEN 0 ELSE LeastOf(want, got)
    BY DEF AtaCount
<1> HIDE DEF first, behind, start
<1>5. last \in Int
    BY <1>1, <1>3
<1> HIDE DEF last
<1>6. got \in Int
    BY <1>1, <1>2, <1>5, Z3
<1> HIDE DEF got
<1>7. LeastOf(want, got) \in Int /\ LeastOf(want, got) <= want
    BY <1>6 DEF LeastOf
<1> QED
    BY <1>4, <1>7

LEMMA DiskCountBound ==
    ASSUME volume \in Volumes, NEW want \in Nat, NEW at \in Nat
    PROVE  DiskCount(want, at) \in Int /\ DiskCount(want, at) <= want
<1> DEFINE cut == IF want + at > DiskSize THEN DiskSize - at ELSE want
<1>1. DiskSize \in Nat
  <2>1. volume.sectors \in Nat /\ SectorSize \in Nat
    BY FileReadAssumption
  <2> QED
    BY <2>1, Z3 DEF DiskSize
<1>2. cut \in Int /\ cut <= want
    BY <1>1
<1>3. DiskCount(want, at) = AtaCount(cut, at)
    BY DEF DiskCount
<1> HIDE DEF cut
<1>4. AtaCount(cut, at) \in Int /\ (AtaCount(cut, at) = 0 \/ AtaCount(cut, at) <= cut)
    BY <1>2, AtaCountBound
<1> QED
    BY <1>2, <1>3, <1>4

(* ... and all of it before the last sector of the drive.                    *)
LEMMA DiskCountAll ==
    ASSUME volume \in Volumes, NEW want \in Nat \ {0}, NEW at \in Nat,
           at + want <= (volume.sectors - 1) * SectorSize
    PROVE  DiskCount(want, at) = want
<1> DEFINE S == volume.sectors
           W == SectorSize
           first == at \div W
           start == at % W
           y == at + want + W - 1
           behind == y \div W
           over == y % W
           last == IF behind >= S THEN S - 1 ELSE behind
<1>1. W \in Nat \ {0} /\ S \in Nat
    BY FileReadAssumption
<1>2. at + want <= (S - 1) * W /\ want \in Nat /\ want >= 1 /\ at \in Nat
    OBVIOUS
<1>3. AtaCount(want, at) = IF first >= S \/ last = first THEN 0
                           ELSE LeastOf(want, (last - first) * W - start)
    BY DEF AtaCount
<1>4. DiskCount(want, at) = AtaCount(IF want + at > S * W THEN S * W - at ELSE want, at)
    BY DEF DiskCount, DiskSize
<1> HIDE DEF S, W
<1>5. S - 1 \in Nat /\ (S - 1) * W + W = S * W /\ (S - 1) * W \in Nat
  <2>1. S >= 1
    <3>1. S = 0 => (S - 1) * W = -W
      BY <1>1, Z3
    <3> QED
      BY <1>1, <1>2, <3>1
  <2>2. S - 1 \in Nat
    BY <1>1, <2>1
  <2>3. (S - 1 + 1) * W = (S - 1) * W + W /\ (S - 1) * W \in Nat
    BY <1>1, <2>2, Times
  <2>4. S - 1 + 1 = S
    BY <1>1
  <2> QED
    BY <2>2, <2>3, <2>4
<1>6. first \in Nat /\ start \in 0 .. W - 1 /\ at = first * W + start
    BY <1>1, <1>2, DivProperties
<1>7. y \in Nat
    BY <1>1, <1>2
<1>8. behind \in Nat /\ over \in 0 .. W - 1 /\ y = behind * W + over
  <2> HIDE DEF y
  <2> QED
    BY <1>1, <1>7, DivProperties
<1>9. y = at + want + W - 1
    OBVIOUS
<1> HIDE DEF first, start, y, behind, over
<1>10. first * W \in Nat /\ behind * W \in Nat
    BY <1>1, <1>6, <1>8, Times
<1>11. behind < S
  <2>1. S <= behind => S * W <= behind * W
    BY <1>1, <1>8, Times
  <2>2. y < S * W
    BY <1>1, <1>2, <1>5, <1>9
  <2> QED
    BY <1>1, <1>5, <1>8, <1>10, <2>1, <2>2
<1>12. first < behind
  <2>1. behind <= first => behind * W <= first * W
    BY <1>1, <1>6, <1>8, Times
  <2> QED
    BY <1>1, <1>2, <1>6, <1>8, <1>9, <1>10, <2>1
<1>13. last = behind
    BY <1>1, <1>8, <1>11
<1> HIDE DEF last
<1>14. (behind - first) * W = behind * W - first * W
    BY <1>1, <1>6, <1>8, Z3
<1> DEFINE room == (behind - first) * W - start
<1>15. room \in Int /\ room >= want
    BY <1>1, <1>2, <1>6, <1>8, <1>9, <1>10, <1>14
<1> HIDE DEF room
<1>16. LeastOf(want, room) = want
    BY <1>2, <1>15 DEF LeastOf
<1>17. AtaCount(want, at) = want
    BY <1>1, <1>3, <1>6, <1>8, <1>11, <1>12, <1>13, <1>16 DEF room
<1>18. ~(want + at > S * W)
    BY <1>1, <1>2, <1>5
<1> QED
    BY <1>4, <1>17, <1>18

-----------------------------------------------------------------------------
(* read_cluster is at the i-th cluster of the file, or behind it: the place  *)
(* in the file and the place in the buffer agree, and nothing is missing     *)
(* before it.                                                                *)
Begin(i) == IF pc = "cluster" THEN (i - 1) * ClusterSize ELSE i * ClusterSize
InStep(i) ==
    /\ offset \in Nat /\ bufOffset \in Nat /\ (offset = 0 \/ bufOffset = 0)
    /\ asked.offset + bufOffset = Begin(i) + offset
    /\ count = Wanted - bufOffset /\ count > 0
    /\ TooFar \/ TouchesEnd \/ (n = bufOffset /\ DOMAIN buf = 0 .. bufOffset - 1)
Reading == \E i \in DOMAIN chain : cluster = chain[i] /\ (Straddles \/ InStep(i))

FileOpen == chain \in Chains /\ size \in Sizes(chain)
Request == asked.count \in 1 .. size /\ asked.offset \in 0 .. size
FileInv ==
    /\ volume \in Volumes
    /\ (chain = <<>> /\ size = 0) \/ FileOpen
    /\ pc \in {"idle", "cluster", "next", "done"}
    /\ pc = "idle" => n = 0 /\ bufOffset = 0 /\ DOMAIN buf = {}
    /\ pc # "idle" => FileOpen /\ Request
    /\ pc \in {"cluster", "next"} => asked.offset < size /\ Reading
    /\ BytesInPlace /\ AnswerExact

LEMMA VolumeTypes ==
    ASSUME volume \in Volumes
    PROVE  /\ ClusterSize \in Nat \ {0} /\ DataStart \in Nat /\ SectorSize \in Nat \ {0} /\ Word \in Nat \ {0}
           /\ volume.sectors \in Nat
           /\ \A c \in Clusters : c \in Nat \ {0, 1}
<1>1. /\ volume.clusterSectors \in Nat \ {0} /\ volume.dataSector \in Nat /\ SectorSize \in Nat \ {0}
      /\ Word \in Nat \ {0} /\ volume.sectors \in Nat /\ \A c \in Clusters : c \in Nat \ {0, 1}
    BY FileReadAssumption
<1>2. \A a \in Nat \ {0}, b \in Nat \ {0} : a * b \in Nat \ {0}
    BY Z3
<1>3. \A a \in Nat, b \in Nat \ {0} : a * b \in Nat
    BY Z3
<1> QED
    BY <1>1, <1>2, <1>3 DEF ClusterSize, DataStart

LEMMA FileTypes ==
    ASSUME volume \in Volumes, FileOpen
    PROVE  /\ Len(chain) \in Nat \ {0} /\ DOMAIN chain = 1 .. Len(chain)
           /\ \A i \in DOMAIN chain : chain[i] \in Clusters /\ chain[i] \in Nat \ {0, 1}
           /\ \A i, j \in DOMAIN chain : chain[i] = chain[j] => i = j
           /\ size \in Nat \ {0} /\ size <= Len(chain) * ClusterSize
<1>1. Cardinality(Clusters) \in Nat
    BY FileReadAssumption, FS_CardinalityType
<1>2. PICK k \in 1 .. Cardinality(Clusters) :
        chain \in {s \in [1 .. k -> Clusters] : \A i, j \in 1 .. k : s[i] = s[j] => i = j}
    BY DEF FileOpen, Chains
<1>3. k \in Nat \ {0} /\ chain \in [1 .. k -> Clusters] /\ \A i, j \in 1 .. k : chain[i] = chain[j] => i = j
    BY <1>1, <1>2
<1>4. Len(chain) = k /\ DOMAIN chain = 1 .. k
    BY <1>3
<1>5. \A i \in DOMAIN chain : chain[i] \in Clusters /\ chain[i] \in Nat \ {0, 1}
    BY <1>3, <1>4, VolumeTypes
<1>6. size \in (k - 1) * ClusterSize + 1 .. k * ClusterSize
    BY <1>4 DEF FileOpen, Sizes
<1>7. (k - 1) * ClusterSize \in Nat /\ k * ClusterSize \in Nat
  <2>1. k - 1 \in Nat /\ k \in Nat
    BY <1>3
  <2> QED
    BY <2>1, VolumeTypes, Times
<1>8. size \in Nat \ {0} /\ size <= k * ClusterSize
    BY <1>6, <1>7
<1> QED
    BY <1>3, <1>4, <1>5, <1>8

LEMMA WantedTypes ==
    ASSUME volume \in Volumes, FileOpen, Request
    PROVE  /\ asked.count \in Nat \ {0} /\ asked.offset \in Nat
           /\ asked.offset < size => /\ Wanted \in Nat \ {0} /\ Wanted <= asked.count
                                     /\ asked.offset + Wanted <= size
<1>1. size \in Nat
    BY FileTypes
<1> QED
    BY <1>1 DEF Request, Wanted, LeastOf

(* While the file and the request stay, so does what is said of them.        *)
LEMMA SameRequest ==
    ASSUME UNCHANGED <<file, asked>>
    PROVE  /\ (FileOpen' <=> FileOpen) /\ (Request' <=> Request)
           /\ (Straddles' <=> Straddles) /\ (TooFar' <=> TooFar) /\ (TouchesEnd' <=> TouchesEnd)
           /\ Wanted' = Wanted /\ ClusterSize' = ClusterSize
           /\ \A k : ByteOf(k)' = ByteOf(k)
<1>1. UNCHANGED <<volume, chain, size, asked>>
    BY DEF file
<1>2. ClusterSize' = ClusterSize /\ DataStart' = DataStart /\ Wanted' = Wanted
    BY <1>1 DEF ClusterSize, DataStart, Wanted
<1>3. \A k : ByteOf(k)' = ByteOf(k)
    BY <1>1, <1>2 DEF ByteOf
<1>4. FileOpen' <=> FileOpen
    BY <1>1, <1>2 DEF FileOpen, Sizes, Chains
<1>5. Request' <=> Request
    BY <1>1 DEF Request
<1>6. (Straddles' <=> Straddles) /\ (TooFar' <=> TooFar)
    BY <1>1, <1>2 DEF Straddles, TooFar
<1>7. TouchesEnd' <=> TouchesEnd
    BY <1>1, <1>2, <1>3 DEF TouchesEnd
<1> QED
    BY <1>2, <1>3, <1>4, <1>5, <1>6, <1>7

(* A place in the i-th cluster of the file, and where the drive has it.      *)
LEMMA ByteInCluster ==
    ASSUME volume \in Volumes, FileOpen, ~TooFar, NEW i \in DOMAIN chain, NEW x \in 0 .. ClusterSize - 1
    PROVE  /\ ClusterAddress(chain[i]) \in Nat
           /\ ByteOf((i - 1) * ClusterSize + x) = ClusterAddress(chain[i]) + x
<1> DEFINE c == chain[i]
           P == ClusterSize
           k == (i - 1) * P + x
           far == (c - 2) * P
<1>1. P \in Nat \ {0} /\ DataStart \in Nat /\ Word \in Nat \ {0}
    BY VolumeTypes
<1>2. i \in Nat \ {0} /\ i - 1 \in Nat /\ c \in Nat \ {0, 1} /\ c - 2 \in Nat
    BY FileTypes
<1>3. k \div P = i - 1 /\ k % P = x
  <2> HIDE DEF P
  <2> QED
    BY <1>1, <1>2, DivMod DEF P
<1>4. far \in Nat
    BY <1>1, <1>2, Times
<1>5. far < Word
  <2>1. ~(far >= Word)
    BY DEF TooFar
  <2> HIDE DEF far
  <2> QED
    BY <1>1, <1>4, <2>1
<1>6. far % Word = far
  <2> HIDE DEF far
  <2> QED
    BY <1>1, <1>4, <1>5, ModSmall
<1>7. ByteOf(k) = DataStart + (chain[(k \div P) + 1] - 2) * P + (k % P)
    BY DEF ByteOf
<1>8. (i - 1) + 1 = i
    BY <1>2
<1>9. ByteOf(k) = DataStart + far + x
  <2> HIDE DEF k, P
  <2> QED
    BY <1>3, <1>7, <1>8
<1>10. ClusterAddress(c) = DataStart + far
    BY <1>6 DEF ClusterAddress
<1> HIDE DEF far
<1> QED
    BY <1>1, <1>4, <1>9, <1>10

(* One read of a cluster: what arrives are the file's next bytes, and all of *)
(* those asked for arrive unless the last sector of the drive is touched.    *)
LEMMA Piece ==
    ASSUME FileInv, pc = "cluster", offset < ClusterSize, ~Straddles, ~TooFar,
           NEW i \in DOMAIN chain, cluster = chain[i], InStep(i),
           NEW want \in Nat \ {0}, offset + want <= ClusterSize, want <= count
    PROVE  LET at == ClusterAddress(cluster) + offset
               got == DiskCount(want, at)
           IN  /\ got \in Int /\ got <= want /\ bufOffset \in Nat
               /\ \A k \in bufOffset .. bufOffset + got - 1 :
                    k < asked.count /\ at + (k - bufOffset) = ByteOf(asked.offset + k)
               /\ ~TouchesEnd => got = want
<1> DEFINE A == ClusterAddress(cluster)
           at == A + offset
           got == DiskCount(want, at)
           P == ClusterSize
           b == (i - 1) * P
<1>1. volume \in Volumes /\ FileOpen /\ Request /\ asked.offset < size
    BY DEF FileInv
<1>2. /\ asked.count \in Nat \ {0} /\ asked.offset \in Nat /\ size \in Nat
      /\ Wanted \in Nat \ {0} /\ Wanted <= asked.count
    BY <1>1, WantedTypes, FileTypes
<1>3. /\ P \in Nat \ {0} /\ SectorSize \in Nat \ {0} /\ volume.sectors \in Nat
    BY <1>1, VolumeTypes
<1>4. i - 1 \in Nat /\ b \in Nat
    BY <1>1, <1>3, FileTypes, Times
<1>5. offset \in Nat /\ bufOffset \in Nat /\ asked.offset + bufOffset = b + offset
      /\ count = Wanted - bufOffset
    BY DEF InStep, Begin
<1>6. A \in Nat /\ \A x \in 0 .. P - 1 : ByteOf(b + x) = A + x
  <2>1. 0 \in 0 .. P - 1
    BY <1>3
  <2> QED
    BY <1>1, <2>1, ByteInCluster
<1> HIDE DEF A, P, b
<1>7. at \in Nat
    BY <1>5, <1>6
<1> HIDE DEF at
<1>8. got \in Int /\ got <= want
    BY <1>1, <1>7, DiskCountBound
<1>9. ASSUME NEW k \in Int, bufOffset <= k, k < bufOffset + want
      PROVE  /\ k < asked.count /\ at + (k - bufOffset) = ByteOf(asked.offset + k)
             /\ asked.offset + k \in asked.offset .. asked.offset + Wanted - 1
  <2> DEFINE x == offset + (k - bufOffset)
  <2>1. x \in 0 .. P - 1
    BY <1>3, <1>5, <1>9 DEF P
  <2>2. b + x = asked.offset + k
    BY <1>2, <1>4, <1>5, <1>9
  <2>3. A + x = at + (k - bufOffset)
    BY <1>5, <1>6, <1>9 DEF at
  <2>4. k < bufOffset + count
    BY <1>2, <1>5, <1>9
  <2>5. k < Wanted
    BY <1>2, <1>5, <1>9, <2>4
  <2> HIDE DEF x
  <2>6. ByteOf(b + x) = A + x
    BY <1>6, <2>1
  <2> QED
    BY <1>2, <1>5, <1>9, <2>2, <2>3, <2>5, <2>6
<1> HIDE DEF got
<1>10. \A k \in bufOffset .. bufOffset + got - 1 :
            k < asked.count /\ at + (k - bufOffset) = ByteOf(asked.offset + k)
  <2> SUFFICES ASSUME NEW k \in bufOffset .. bufOffset + got - 1
               PROVE  k < asked.count /\ at + (k - bufOffset) = ByteOf(asked.offset + k)
    OBVIOUS
  <2>1. k \in Int /\ bufOffset <= k /\ k < bufOffset + want
    BY <1>5, <1>8
  <2> QED
    BY <1>9, <2>1
<1>11. ASSUME ~TouchesEnd PROVE got = want
  <2> DEFINE k == bufOffset + want - 1
             e == (volume.sectors - 1) * SectorSize
  <2>1. k \in Int /\ bufOffset <= k /\ k < bufOffset + want /\ k - bufOffset = want - 1
    BY <1>5
  <2>2. at + (k - bufOffset) = ByteOf(asked.offset + k)
        /\ asked.offset + k \in asked.offset .. asked.offset + Wanted - 1
    BY <1>9, <2>1
  <2>3. ~(ByteOf(asked.offset + k) >= e)
    BY <1>11, <2>2 DEF TouchesEnd
  <2>4. e \in Int
    BY <1>3, Z3
  <2> HIDE DEF e, k
  <2>5. at + want <= e
    BY <1>7, <2>1, <2>2, <2>3, <2>4
  <2> QED
    BY <1>1, <1>7, <2>5, DiskCountAll DEF e, got
<1> QED
    BY <1>5, <1>8, <1>10, <1>11 DEF got, at, A

-----------------------------------------------------------------------------
(* Both reads of read_cluster: bytes arrive where Piece says.                *)
LEMMA PieceCopied ==
    ASSUME FileInv, pc = "cluster", offset < ClusterSize, UNCHANGED <<file, asked>>,
           NEW i \in DOMAIN chain, cluster = chain[i], ~Straddles => InStep(i),
           NEW want, ~Straddles => want \in Nat \ {0} /\ offset + want <= ClusterSize /\ want <= count,
           LET at == ClusterAddress(cluster) + offset
               got == DiskCount(want, at)
           IN n' = n + got /\ buf' = Copy(bufOffset, got, at)
    PROVE  /\ BytesInPlace'
           /\ Straddles \/ TooFar \/ TouchesEnd
                \/ (n' = bufOffset + want /\ DOMAIN buf' = 0 .. bufOffset + want - 1)
<1> DEFINE at == ClusterAddress(cluster) + offset
           got == DiskCount(want, at)
<1>1. n' = n + got /\ buf' = Copy(bufOffset, got, at)
    OBVIOUS
<1>2. CASE Straddles \/ TooFar
    BY <1>2, SameRequest DEF BytesInPlace
<1>3. CASE ~Straddles /\ ~TooFar
  <2>1. /\ got \in Int /\ got <= want /\ bufOffset \in Nat
        /\ \A k \in bufOffset .. bufOffset + got - 1 :
                k < asked.count /\ at + (k - bufOffset) = ByteOf(asked.offset + k)
        /\ ~TouchesEnd => got = want
    BY <1>3, Piece
  <2> HIDE DEF at, got
  <2>2. /\ DOMAIN buf' = DOMAIN buf \cup (bufOffset .. bufOffset + got - 1)
        /\ \A k \in bufOffset .. bufOffset + got - 1 : buf'[k] = at + (k - bufOffset)
        /\ \A k \in DOMAIN buf : k \in bufOffset .. bufOffset + got - 1 \/ buf'[k] = buf[k]
    <3> DEFINE r == bufOffset .. bufOffset + got - 1
    <3>1. buf' = [k \in DOMAIN buf \cup r |-> IF k \in r THEN at + (k - bufOffset) ELSE buf[k]]
      BY <1>1 DEF Copy
    <3> HIDE DEF r
    <3>2. /\ DOMAIN buf' = DOMAIN buf \cup r
          /\ \A k \in r : buf'[k] = at + (k - bufOffset)
          /\ \A k \in DOMAIN buf : k \in r \/ buf'[k] = buf[k]
      BY <3>1
    <3> QED
      BY <3>2 DEF r
  <2>3. \A k \in DOMAIN buf : k < asked.count /\ buf[k] = ByteOf(asked.offset + k)
    BY <1>3 DEF FileInv, BytesInPlace
  <2>4. \A k \in DOMAIN buf' : k < asked.count /\ buf'[k] = ByteOf(asked.offset + k)
    BY <2>1, <2>2, <2>3
  <2>5. asked' = asked /\ \A k : ByteOf(k)' = ByteOf(k)
    BY SameRequest
  <2>6. BytesInPlace'
    BY <2>4, <2>5 DEF BytesInPlace
  <2>7. ASSUME ~TouchesEnd PROVE n' = bufOffset + want /\ DOMAIN buf' = 0 .. bufOffset + want - 1
    <3>1. n = bufOffset /\ DOMAIN buf = 0 .. bufOffset - 1
      BY <1>3, <2>7 DEF InStep
    <3>2. (0 .. bufOffset - 1) \cup (bufOffset .. bufOffset + want - 1) = 0 .. bufOffset + want - 1
      BY <1>3, <2>1
    <3> QED
      BY <1>1, <2>1, <2>2, <2>7, <3>1, <3>2
  <2> QED
    BY <2>6, <2>7
<1> QED
    BY <1>2, <1>3

-----------------------------------------------------------------------------
LEMMA FileStep ==
    ASSUME FileInv, pc \in {"cluster", "next"}, UNCHANGED <<file, asked>>,
           pc' \in {"cluster", "next", "done"}, pc' # "done" => Reading',
           BytesInPlace', pc' = "done" => AnswerExact'
    PROVE  FileInv'
<1>1. volume' = volume
    BY DEF file
<1>2. AnswerExact'
    BY DEF AnswerExact
<1>3. (FileOpen' <=> FileOpen) /\ (Request' <=> Request) /\ size' = size /\ asked' = asked
    BY SameRequest DEF file
<1>4. FileOpen /\ Request /\ asked.offset < size /\ volume \in Volumes
    BY DEF FileInv
<1> QED
    BY <1>1, <1>2, <1>3, <1>4 DEF FileInv

LEMMA BytesKept ==
    ASSUME FileInv, UNCHANGED <<file, asked, buf>>
    PROVE  BytesInPlace'
    BY SameRequest DEF FileInv, BytesInPlace

LEMMA SkipClusterKeeps == FileInv /\ SkipCluster => FileInv'
<1> SUFFICES ASSUME FileInv, SkipCluster PROVE FileInv'
    OBVIOUS
<1>1. /\ pc = "cluster" /\ offset >= ClusterSize /\ offset' = offset - ClusterSize /\ pc' = "next"
      /\ UNCHANGED <<file, asked, cluster, count, bufOffset, n, buf>>
    BY DEF SkipCluster
<1>2. volume \in Volumes /\ FileOpen /\ Request /\ asked.offset < size /\ Reading
    BY <1>1 DEF FileInv
<1>3. PICK i \in DOMAIN chain : cluster = chain[i] /\ (Straddles \/ InStep(i))
    BY <1>2 DEF Reading
<1>4. ASSUME ~Straddles PROVE InStep(i)'
  <2>1. ClusterSize \in Nat \ {0} /\ i - 1 \in Nat /\ i \in Nat
    BY <1>2, VolumeTypes, FileTypes
  <2>2. (i - 1) * ClusterSize \in Nat /\ i * ClusterSize = (i - 1) * ClusterSize + ClusterSize
    <3>1. (i - 1) + 1 = i
      BY <2>1
    <3> QED
      BY <2>1, <3>1, Times
  <2>3. InStep(i)
    BY <1>3, <1>4
  <2>4. offset \in Nat /\ bufOffset \in Nat /\ asked.offset + bufOffset = (i - 1) * ClusterSize + offset
        /\ (offset = 0 \/ bufOffset = 0)
    BY <1>1, <2>3 DEF InStep, Begin
  <2>5. offset' \in Nat /\ bufOffset = 0
    BY <1>1, <2>1, <2>4
  <2> DEFINE y == i * ClusterSize
             z == (i - 1) * ClusterSize
             s == asked.offset
  <2>6. s + bufOffset = y + offset'
    <3>1. y = z + ClusterSize /\ s + bufOffset = z + offset /\ z \in Nat /\ offset' = offset - ClusterSize
      BY <1>1, <2>2, <2>4
    <3> HIDE DEF y, z, s
    <3> QED
      BY <2>1, <2>4, <3>1
  <2>7. /\ (TooFar' <=> TooFar) /\ (TouchesEnd' <=> TouchesEnd) /\ Wanted' = Wanted
        /\ ClusterSize' = ClusterSize
    BY <1>1, SameRequest
  <2>8. Begin(i)' = y /\ asked' = asked /\ bufOffset' = bufOffset /\ count' = count /\ n' = n /\ buf' = buf
    BY <1>1, <2>7 DEF Begin
  <2> HIDE DEF y
  <2> QED
    BY <2>3, <2>5, <2>6, <2>7, <2>8 DEF InStep
<1>5. Reading'
    BY <1>1, <1>3, <1>4, SameRequest DEF Reading, file
<1>6. BytesInPlace'
    BY <1>1, BytesKept
<1> QED
    BY <1>1, <1>5, <1>6, FileStep

LEMMA ReadOverKeeps == FileInv /\ ReadOver => FileInv'
<1> SUFFICES ASSUME FileInv, ReadOver PROVE FileInv'
    OBVIOUS
<1> DEFINE P == ClusterSize
           want == P - offset
<1>1. /\ pc = "cluster" /\ offset < P /\ offset + count > P
      /\ LET at == ClusterAddress(cluster) + offset
             got == DiskCount(want, at)
         IN n' = n + got /\ buf' = Copy(bufOffset, got, at)
      /\ count' = count - want /\ offset' = 0 /\ bufOffset' = bufOffset + P /\ pc' = "next"
      /\ UNCHANGED <<file, asked, cluster>>
    BY DEF ReadOver
<1>2. volume \in Volumes /\ FileOpen /\ Request /\ asked.offset < size /\ Reading
    BY <1>1 DEF FileInv
<1>3. PICK i \in DOMAIN chain : cluster = chain[i] /\ (Straddles \/ InStep(i))
    BY <1>2 DEF Reading
<1>4. P \in Nat \ {0} /\ i - 1 \in Nat /\ i \in Nat
    BY <1>2, VolumeTypes, FileTypes
<1>5. Wanted \in Nat \ {0} /\ asked.offset \in Nat
    BY <1>2, WantedTypes
<1> DEFINE z == (i - 1) * P
           y == i * P
           s == asked.offset
<1>6. z \in Nat /\ y = z + P
  <2>1. (i - 1) + 1 = i
    BY <1>4
  <2> QED
    BY <1>4, <2>1, Times
<1>7. ASSUME ~Straddles
      PROVE  /\ InStep(i) /\ offset \in Nat /\ bufOffset \in Nat /\ s + bufOffset = z + offset
             /\ count = Wanted - bufOffset /\ count \in Nat \ {0} /\ (offset = 0 \/ bufOffset = 0)
  <2>1. InStep(i)
    BY <1>3, <1>7
  <2>2. offset \in Nat /\ bufOffset \in Nat /\ s + bufOffset = z + offset
        /\ count = Wanted - bufOffset /\ count > 0 /\ (offset = 0 \/ bufOffset = 0)
    BY <1>1, <2>1 DEF InStep, Begin
  <2> HIDE DEF s, z
  <2> QED
    BY <1>5, <2>1, <2>2
<1>8. ASSUME ~Straddles PROVE offset = 0
  <2> SUFFICES ASSUME offset # 0 PROVE FALSE
    OBVIOUS
  <2>1. bufOffset = 0 /\ s = z + offset /\ count = Wanted
    <3> HIDE DEF s, z
    <3> QED
      BY <1>5, <1>6, <1>7, <1>8 DEF s
  <2>2. offset \in 0 .. P - 1
    BY <1>1, <1>4, <1>7, <1>8
  <2>3. s % P = offset
    <3> HIDE DEF P
    <3> QED
      BY <1>4, <2>1, <2>2, DivMod, SMTT(30)
  <2>4. (s % P) # 0 /\ (s % P) + Wanted > P
    <3> HIDE DEF P, s
    <3> QED
      BY <1>1, <2>1, <2>3
  <2> QED
    BY <1>8, <2>4 DEF Straddles
<1>9. ~Straddles => want \in Nat \ {0} /\ offset + want <= P /\ want <= count
    BY <1>1, <1>4, <1>7, <1>8
<1>10. /\ BytesInPlace'
       /\ Straddles \/ TooFar \/ TouchesEnd
            \/ (n' = bufOffset + want /\ DOMAIN buf' = 0 .. bufOffset + want - 1)
  <2> HIDE DEF want
  <2> QED
    BY <1>1, <1>3, <1>9, PieceCopied
<1>11. ASSUME ~Straddles PROVE InStep(i)'
  <2>1. /\ (TooFar' <=> TooFar) /\ (TouchesEnd' <=> TouchesEnd) /\ Wanted' = Wanted
        /\ ClusterSize' = P
    BY <1>1, SameRequest
  <2>2. Begin(i)' = y /\ asked' = asked
    BY <1>1, <2>1 DEF Begin
  <2>3. offset = 0 /\ want = P
    BY <1>4, <1>8, <1>11
  <2>4. TooFar \/ TouchesEnd \/ (n' = bufOffset' /\ DOMAIN buf' = 0 .. bufOffset' - 1)
    <3>1. bufOffset' = bufOffset + want
      BY <1>1, <2>3
    <3> HIDE DEF P, want
    <3> QED
      BY <1>7, <1>9, <1>10, <1>11, <3>1
  <2>5. offset' \in Nat /\ bufOffset' \in Nat /\ offset' = 0
    BY <1>1, <1>4, <1>7, <1>11
  <2> HIDE DEF P, want, y, z, s
  <2>6. s + bufOffset' = y + offset'
    BY <1>1, <1>4, <1>5, <1>6, <1>7, <1>11, <2>3 DEF s
  <2>7. count' = Wanted - bufOffset' /\ count' > 0
    BY <1>1, <1>4, <1>5, <1>7, <1>11, <2>3
  <2> QED
    BY <2>1, <2>2, <2>4, <2>5, <2>6, <2>7 DEF InStep, s
<1>12. Reading'
    BY <1>1, <1>3, <1>11, SameRequest DEF Reading, file
<1> QED
    BY <1>1, <1>10, <1>12, FileStep

LEMMA ReadLastKeeps == FileInv /\ ReadLast => FileInv'
<1> SUFFICES ASSUME FileInv, ReadLast PROVE FileInv'
    OBVIOUS
<1>1. /\ pc = "cluster" /\ offset < ClusterSize /\ offset + count <= ClusterSize
      /\ LET at == ClusterAddress(cluster) + offset
             got == DiskCount(count, at)
         IN n' = n + got /\ buf' = Copy(bufOffset, got, at)
      /\ pc' = "done" /\ UNCHANGED <<file, asked, bufOffset>>
    BY DEF ReadLast
<1>2. volume \in Volumes /\ FileOpen /\ Request /\ asked.offset < size /\ Reading
    BY <1>1 DEF FileInv
<1>3. PICK i \in DOMAIN chain : cluster = chain[i] /\ (Straddles \/ InStep(i))
    BY <1>2 DEF Reading
<1>4. Wanted \in Nat \ {0} /\ asked.offset \in Nat /\ size \in Nat
    BY <1>2, WantedTypes, FileTypes
<1>5. ~Straddles => /\ count \in Nat \ {0} /\ bufOffset \in Nat /\ bufOffset + count = Wanted
                    /\ offset + count <= ClusterSize /\ count <= count
  <2>1. ~Straddles => bufOffset \in Nat /\ count = Wanted - bufOffset /\ count > 0
    BY <1>3 DEF InStep
  <2> QED
    BY <1>1, <1>4, <2>1
<1>6. /\ BytesInPlace'
      /\ Straddles \/ TooFar \/ TouchesEnd
            \/ (n' = bufOffset + count /\ DOMAIN buf' = 0 .. bufOffset + count - 1)
    BY <1>1, <1>3, <1>5, PieceCopied
<1>7. Straddles \/ TooFar \/ TouchesEnd \/ (n' = Wanted /\ DOMAIN buf' = 0 .. n' - 1)
  <2>1. ASSUME ~Straddles, n' = bufOffset + count /\ DOMAIN buf' = 0 .. bufOffset + count - 1
        PROVE  n' = Wanted /\ DOMAIN buf' = 0 .. n' - 1
    BY <1>5, <2>1
  <2> QED
    BY <1>6, <2>1
<1>8. AnswerExact'
  <2>1. /\ (Straddles' <=> Straddles) /\ (TooFar' <=> TooFar) /\ (TouchesEnd' <=> TouchesEnd)
        /\ Wanted' = Wanted /\ asked' = asked /\ size' = size
    BY <1>1, SameRequest DEF file
  <2>2. ~(asked.offset >= size)
    BY <1>2, <1>4
  <2> QED
    BY <1>7, <2>1, <2>2 DEF AnswerExact
<1> QED
    BY <1>1, <1>6, <1>8, FileStep

LEMMA FileReadErrorKeeps == FileInv /\ ReadError => FileInv'
<1> SUFFICES ASSUME FileInv, ReadError PROVE FileInv'
    OBVIOUS
<1>1. pc = "cluster" /\ n' = -1 /\ pc' = "done" /\ UNCHANGED <<file, asked, buf>>
    BY DEF ReadError
<1>2. AnswerExact'
    BY <1>1 DEF AnswerExact
<1> QED
    BY <1>1, <1>2, BytesKept, FileStep

LEMMA NextErrorKeeps == FileInv /\ NextError => FileInv'
<1> SUFFICES ASSUME FileInv, NextError PROVE FileInv'
    OBVIOUS
<1>1. pc = "next" /\ tableErr' = TRUE /\ pc' = "done" /\ UNCHANGED <<file, asked, buf>>
    BY DEF NextError
<1>2. AnswerExact'
    BY <1>1 DEF AnswerExact
<1> QED
    BY <1>1, <1>2, BytesKept, FileStep

(* The table ends behind the file: what is asked for is read by then.        *)
LEMMA NextClusterKeeps == FileInv /\ NextCluster => FileInv'
<1> SUFFICES ASSUME FileInv, NextCluster PROVE FileInv'
    OBVIOUS
<1>1. /\ pc = "next" /\ cluster' = NextOf(cluster) /\ pc' = IF cluster' = 0 THEN "done" ELSE "cluster"
      /\ UNCHANGED <<file, asked, count, offset, bufOffset, n, buf>>
    BY DEF NextCluster
<1>2. volume \in Volumes /\ FileOpen /\ Request /\ asked.offset < size /\ Reading
    BY <1>1 DEF FileInv
<1>3. PICK i \in DOMAIN chain : cluster = chain[i] /\ (Straddles \/ InStep(i))
    BY <1>2 DEF Reading
<1>4. /\ Len(chain) \in Nat \ {0} /\ DOMAIN chain = 1 .. Len(chain) /\ i \in 1 .. Len(chain)
      /\ \A j \in DOMAIN chain : chain[j] # 0
      /\ \A j, k \in DOMAIN chain : chain[j] = chain[k] => j = k
      /\ size \in Nat \ {0} /\ size <= Len(chain) * ClusterSize
    BY <1>2, FileTypes
<1>5. cluster' = IF i = Len(chain) THEN 0 ELSE chain[i + 1]
  <2> DEFINE m == CHOOSE k \in DOMAIN chain : chain[k] = cluster
  <2>1. m = i
    BY <1>3, <1>4
  <2>2. NextOf(cluster) = IF m = Len(chain) THEN 0 ELSE chain[m + 1]
    BY DEF NextOf
  <2> HIDE DEF m
  <2> QED
    BY <1>1, <2>1, <2>2
<1>6. BytesInPlace'
    BY <1>1, BytesKept
<1>7. CASE i = Len(chain)
  <2>1. Straddles
    <3> SUFFICES ASSUME ~Straddles PROVE FALSE
      OBVIOUS
    <3>1. /\ offset \in Nat /\ bufOffset \in Nat /\ asked.offset + bufOffset = i * ClusterSize + offset
          /\ count = Wanted - bufOffset /\ count > 0
      BY <1>1, <1>3 DEF InStep, Begin
    <3>2. asked.offset \in Nat /\ Wanted \in Nat /\ asked.offset + Wanted <= size
      BY <1>2, WantedTypes
    <3> DEFINE y == i * ClusterSize
               s == asked.offset
    <3>3. s \in Nat /\ s + bufOffset = y + offset /\ s + Wanted <= size /\ size <= y
      BY <1>4, <1>7, <3>1, <3>2
    <3>4. y \in Nat
      <4>1. ClusterSize \in Nat \ {0} /\ i \in Nat
        BY <1>2, <1>4, VolumeTypes
      <4> QED
        BY <4>1, Times
    <3> HIDE DEF y, s
    <3> QED
      BY <1>4, <3>1, <3>2, <3>3, <3>4
  <2>2. AnswerExact'
    BY <1>1, <2>1, SameRequest DEF AnswerExact
  <2>3. pc' = "done"
    BY <1>1, <1>5, <1>7
  <2> QED
    BY <1>1, <1>6, <2>2, <2>3, FileStep
<1>8. CASE i # Len(chain)
  <2>1. PICK j \in DOMAIN chain : j = i + 1
    BY <1>4, <1>8
  <2>2. cluster' = chain[j] /\ pc' = "cluster"
    BY <1>1, <1>4, <1>5, <1>8, <2>1
  <2>3. ASSUME ~Straddles PROVE InStep(j)'
    <3>1. /\ (TooFar' <=> TooFar) /\ (TouchesEnd' <=> TouchesEnd) /\ Wanted' = Wanted
          /\ ClusterSize' = ClusterSize
      BY <1>1, SameRequest
    <3>2. j - 1 = i
      BY <1>4, <2>1
    <3>3. Begin(j)' = Begin(i)
      BY <1>1, <2>2, <3>1, <3>2 DEF Begin
    <3>4. InStep(i)
      BY <1>3, <2>3
    <3> QED
      BY <1>1, <3>1, <3>3, <3>4 DEF InStep
  <2>4. Reading'
    BY <1>1, <2>2, <2>3, SameRequest DEF Reading, file
  <2> QED
    BY <1>1, <1>6, <2>2, <2>4, FileStep
<1> QED
    BY <1>7, <1>8

LEMMA ReadFileKeeps == FileInv /\ ReadFile => FileInv'
<1> SUFFICES ASSUME FileInv, ReadFile PROVE FileInv'
    OBVIOUS
<1>1. PICK c \in 1 .. size, o \in 0 .. size :
        /\ asked' = [count |-> c, offset |-> o]
        /\ count' = IF o + c > size THEN size - o ELSE c
        /\ offset' = o
        /\ pc' = IF o >= size THEN "done" ELSE "cluster"
    BY DEF ReadFile
<1>2. pc = "idle" /\ cluster' = chain[1] /\ UNCHANGED <<volume, chain, size, bufOffset, n, buf, tableErr>>
    BY DEF ReadFile, file
<1>3. volume \in Volumes /\ n = 0 /\ bufOffset = 0 /\ DOMAIN buf = {}
    BY <1>2 DEF FileInv
<1>4. FileOpen
    BY <1>1 DEF FileInv
<1>5. /\ size \in Nat \ {0} /\ 1 \in DOMAIN chain /\ ClusterSize \in Nat \ {0}
      /\ c \in Nat \ {0} /\ o \in Nat /\ o <= size /\ c <= size
  <2>1. size \in Nat \ {0} /\ 1 \in DOMAIN chain /\ ClusterSize \in Nat \ {0}
    BY <1>3, <1>4, FileTypes, VolumeTypes
  <2> QED
    BY <2>1
<1>6. ClusterSize' = ClusterSize
    BY <1>2 DEF ClusterSize
<1>7. FileOpen' /\ Request' /\ asked'.count = c /\ asked'.offset = o
    BY <1>1, <1>2, <1>4, <1>6 DEF FileOpen, Sizes, Chains, Request
<1>8. Wanted' = IF c < size - o THEN c ELSE size - o
    BY <1>2, <1>7 DEF Wanted, LeastOf
<1>9. Wanted' = count'
    BY <1>1, <1>5, <1>8
<1>10. BytesInPlace'
    BY <1>2, <1>3 DEF BytesInPlace
<1>11. AnswerExact'
  <2>1. pc' = "done" => n' = 0 /\ asked'.offset >= size' /\ DOMAIN buf' = 0 .. n' - 1
    BY <1>1, <1>2, <1>3, <1>7
  <2> QED
    BY <2>1 DEF AnswerExact
<1>12. ASSUME pc' = "cluster" PROVE asked'.offset < size' /\ Reading'
  <2>1. o < size
    BY <1>1, <1>5, <1>12
  <2>2. count' > 0
    BY <1>1, <1>5, <2>1
  <2>3. Begin(1)' = 0
    <3>1. (1 - 1) * ClusterSize = 0
      BY <1>5, Z3
    <3> QED
      BY <1>6, <1>12, <3>1 DEF Begin
  <2>4. InStep(1)'
    <3>1. o + 0 = 0 + o /\ count' = Wanted' - 0 /\ 0 .. 0 - 1 = {}
      BY <1>1, <1>5, <1>9, <2>1
    <3> QED
      BY <1>1, <1>2, <1>3, <1>5, <1>7, <2>2, <2>3, <3>1 DEF InStep
  <2> QED
    BY <1>2, <1>5, <1>7, <2>1, <2>4 DEF Reading
<1> QED
    BY <1>1, <1>2, <1>3, <1>7, <1>10, <1>11, <1>12 DEF FileInv

LEMMA OpenKeeps == FileInv /\ Open => FileInv'
<1> SUFFICES ASSUME FileInv, Open PROVE FileInv'
    OBVIOUS
<1>1. chain = <<>> /\ chain' \in Chains /\ size' \in Sizes(chain')
      /\ UNCHANGED <<volume, asked, pc, bufOffset, n, buf>>
    BY DEF Open, locals
<1>2. volume \in Volumes
    BY DEF FileInv
<1>3. pc = "idle"
  <2> SUFFICES ASSUME pc # "idle" PROVE FALSE
    OBVIOUS
  <2>1. FileOpen
    BY DEF FileInv
  <2> QED
    BY <1>1, <1>2, <2>1, FileTypes
<1>4. n = 0 /\ bufOffset = 0 /\ DOMAIN buf = {}
    BY <1>3 DEF FileInv
<1>5. FileOpen'
    BY <1>1 DEF FileOpen, Chains, Sizes, ClusterSize
<1> QED
    BY <1>1, <1>2, <1>3, <1>4, <1>5 DEF FileInv, BytesInPlace, AnswerExact

LEMMA FileUnchanged == FileInv /\ UNCHANGED vars => FileInv'
<1> SUFFICES ASSUME FileInv, UNCHANGED vars PROVE FileInv'
    OBVIOUS
<1>1. UNCHANGED <<file, asked>> /\ UNCHANGED <<volume, chain, size, asked, pc, cluster, count, offset, bufOffset, n, buf, tableErr>>
    BY DEF vars, file, locals
<1>2. /\ (FileOpen' <=> FileOpen) /\ (Request' <=> Request)
      /\ (Straddles' <=> Straddles) /\ (TooFar' <=> TooFar) /\ (TouchesEnd' <=> TouchesEnd)
      /\ Wanted' = Wanted /\ ClusterSize' = ClusterSize
    BY <1>1, SameRequest
<1>3. BytesInPlace'
    BY <1>1, BytesKept
<1>4. AnswerExact'
    BY <1>1, <1>2 DEF AnswerExact, FileInv
<1>5. \A i \in DOMAIN chain : InStep(i)' <=> InStep(i)
  <2> SUFFICES ASSUME NEW i \in DOMAIN chain PROVE InStep(i)' <=> InStep(i)
    OBVIOUS
  <2>1. Begin(i)' = Begin(i)
    BY <1>1, <1>2 DEF Begin
  <2> QED
    BY <1>1, <1>2, <2>1 DEF InStep
<1>6. Reading' <=> Reading
    BY <1>1, <1>2, <1>5 DEF Reading
<1> QED
    BY <1>1, <1>2, <1>3, <1>4, <1>6 DEF FileInv

(* Walking a path leaves the reading alone but for opening what it found.    *)
LEMMA WalkLeavesFile ==
    ASSUME NEW p \in Callers, Walk(p)
    PROVE  UNCHANGED vars \/ (Open /\ UNCHANGED volume)
    BY DEF Walk, Keep, Call, SkipEmpty, EnterDir, NotDir, ReadNamed, ListNamed, CountClusters, BadRead,
           ScanEntry, RestEntry, RestBroken, StdEntry, NotFound, ListEntry, ListRest, ListStd, NoMore,
           ReadFound, Open

LEMMA FileInit == FatInit => FileInv
<1> SUFFICES ASSUME FatInit PROVE FileInv
    OBVIOUS
<1>1. /\ volume \in Volumes /\ chain = <<>> /\ size = 0 /\ pc = "idle" /\ n = 0 /\ bufOffset = 0
      /\ DOMAIN buf = {}
    BY DEF FatInit, Init
<1> QED
    BY <1>1 DEF FileInv, BytesInPlace, AnswerExact

LEMMA FileNext == FileInv /\ [FatNext]_fatVars => FileInv'
<1> SUFFICES ASSUME FileInv, [FatNext]_fatVars PROVE FileInv'
    OBVIOUS
<1>1. CASE UNCHANGED fatVars
    BY <1>1, FileUnchanged DEF fatVars
<1>2. ASSUME NEW p \in Callers, Walk(p) PROVE FileInv'
    BY <1>2, WalkLeavesFile, FileUnchanged, OpenKeeps
<1>3. CASE Next
    BY <1>3, ReadFileKeeps, SkipClusterKeeps, ReadOverKeeps, ReadLastKeeps, FileReadErrorKeeps,
       NextClusterKeeps, NextErrorKeeps DEF Next
<1> QED
    BY <1>1, <1>2, <1>3 DEF FatNext

THEOREM FileInvHolds == FatSpec => []FileInv
    BY FileInit, FileNext, PTL DEF FatSpec

(* read_cluster writes to each place of the caller's buffer the byte of the  *)
(* file that belongs there and nothing else: for every volume, every order   *)
(* of a file's clusters and every request that does not start inside a       *)
(* cluster and end behind it, whichever reads fail.                          *)
THEOREM BytesAreInPlace == FatSpec => []BytesInPlace
<1>1. FileInv => BytesInPlace
    BY DEF FileInv
<1> QED
    BY <1>1, FileInvHolds, PTL

(* ... and its answer counts them all, if the table could be read and the    *)
(* drive's last sector was not needed.                                       *)
THEOREM AnswerIsExact == FatSpec => []AnswerExact
<1>1. FileInv => AnswerExact
    BY DEF FileInv
<1> QED
    BY <1>1, FileInvHolds, PTL

-----------------------------------------------------------------------------
(* The walks.  What the definitions of FatDir say of the volume, of a volume *)
(* v: neither it nor the records of the calls change while one is looked at. *)
EntriesIn(v, e) == IF e.kind = "root" THEN v.root ELSE v.dirs[e.id]
Hits(dir, name) == {k \in Runs(dir) : Sums(dir, k) /\ NameAt(dir, k) = name}
FindIn(v, e, name) ==
    IF "dir" \notin e.attr \/ Hits(EntriesIn(v, e), name) = {} THEN Deleted
    ELSE StdAt(EntriesIn(v, e), CHOOSE k \in Hits(EntriesIn(v, e), name) :
                                    \A j \in Hits(EntriesIn(v, e), name) : k <= j)
Leads(v, path, m, t) == t = [k \in 0 .. m |->
    IF k = 0 THEN RootEntry
    ELSE IF path[k] = <<>> THEN t[k - 1] ELSE FindIn(v, t[k - 1], path[k])]
Way(v, path) == CHOOSE t : Leads(v, path, Len(path), t)
NamedIn(v, path) == Way(v, path)[Len(path)]
OrphanIn(v, path) == \E dir \in {v.root} \cup {v.dirs[d] : d \in DOMAIN v.dirs} :
    \E k \in Runs(dir) : ~Sums(dir, k) /\ \E i \in DOMAIN path : NameAt(dir, k) = path[i]

(* The entries a call may stand at.                                          *)
Scanning == {"scan", "rest", "std"}
Listing == {"list", "listrest", "liststd"}
Standing(v) == {RootEntry, Deleted} \cup
    {e \in DirEntry : e.kind = "std" /\ ("dir" \in e.attr => e.id \in DOMAIN v.dirs)}
Shape(v, c) ==
    /\ c \in [at : {"out", "path", "count", "done"} \cup Scanning \cup Listing,
              op : {"read", "list"}, asked : Seq(Seq(STRING)), place : Nat, rest : Seq(Seq(STRING)),
              cur : Standing(v), entries : Nat, pos : Nat, i : Int, len : Nat, skip : Nat,
              name : {c.name}, answer : {c.answer}, failed : BOOLEAN]
    /\ c.at \in {"count"} \cup Scanning \cup Listing => "dir" \in c.cur.attr
    /\ c.at \in Scanning => c.rest # <<>>
    /\ c.i <= c.len

(* It stands where the names behind it lead, and has the others before it.   *)
OnWay(v, c) == \E j \in 0 .. Len(c.asked) :
    c.rest = SubSeq(c.asked, j + 1, Len(c.asked)) /\ c.cur = Way(v, c.asked)[j]
Sized(v, rc, c) ==
    (IF InRoot(c) THEN rc ELSE c.entries) = Len(EntriesIn(v, c.cur))

(* No entry it has passed begins the name it looks for; those that were read *)
(* ahead match its last pieces.                                              *)
Searched(dir, c) ==
    /\ \A k \in Runs(dir) : NameAt(dir, k) = Head(c.rest) => c.pos < k
    /\ c.at # "scan" =>
        /\ c.len = Len(Head(c.rest)) /\ c.i \in 0 .. c.len - 1 /\ (c.at = "std" <=> c.i = 0)
        /\ \A m \in c.i + 1 .. c.len :
            /\ c.pos + c.len - m + 1 \in DOMAIN dir
            /\ Matches(dir[c.pos + c.len - m + 1], Head(c.rest), m)

(* It is between two long names or at the first entry of one; those it has   *)
(* passed are counted, and the pieces copied are the name's.                 *)
Listed(dir, c) ==
    /\ \A k \in Runs(dir) : c.pos < k \/ k + dir[k].order <= c.pos
    /\ Cardinality({k \in Runs(dir) : k <= c.pos}) + c.skip = c.place
    /\ c.at # "list" =>
        /\ c.skip = 0 /\ c.pos + 1 \in Runs(dir) /\ c.len = dir[c.pos + 1].order
        /\ c.i \in 0 .. c.len - 1 /\ (c.at = "liststd" <=> c.i = 0)
        /\ c.name = [m \in c.i + 1 .. c.len |-> dir[c.pos + c.len - m + 1].piece]

Found(e) == IF "archive" \in e.attr THEN Answered(<<e.id>>, "data") ELSE NoName
ListedAt(dir, root, place, answer) ==
    IF place >= Cardinality(Runs(dir)) THEN answer = NoName
    ELSE \E k \in Runs(dir) :
            /\ Cardinality({j \in Runs(dir) : j < k}) = place
            /\ answer = Answered(NameAt(dir, k), TypeOf(StdAt(dir, k), root))
Result(v, c) ==
    LET e == NamedIn(v, c.asked) IN
    IF c.op = "read" THEN c.answer = Found(e)
    ELSE Tidy(EntriesIn(v, e), InRoot([cur |-> e])) =>
            ListedAt(EntriesIn(v, e), InRoot([cur |-> e]), c.place, c.answer)

Walks(v, rc, c) ==
    /\ c.at # "done" => OnWay(v, c)
    /\ c.at = "count" =>
        /\ c.pos = 0
        /\ IF c.rest = <<>> THEN c.op = "list" /\ c.skip = c.place ELSE Head(c.rest) # <<>>
    /\ c.at \in Scanning =>
        /\ Sized(v, rc, c) /\ c.rest # <<>> /\ Head(c.rest) # <<>>
        /\ Searched(EntriesIn(v, c.cur), c)
    /\ c.at \in Listing =>
        /\ Sized(v, rc, c) /\ c.rest = <<>> /\ c.op = "list"
        /\ Tidy(EntriesIn(v, c.cur), InRoot(c)) => Listed(EntriesIn(v, c.cur), c)
    /\ c.at = "done" => Result(v, c)

Excused(v, c) ==
    \/ c.at = "out" \/ c.failed \/ OrphanIn(v, c.asked)
    \/ c.op = "list" /\ "dir" \notin NamedIn(v, c.asked).attr
CallOK(v, rc, c) == Shape(v, c) /\ (Excused(v, c) \/ Walks(v, rc, c))

TreeInv ==
    /\ volume \in Volumes
    /\ DOMAIN call = Callers /\ \A p \in Callers : CallOK(volume, rootCount, call[p])
    /\ ~volume.fat32 => rootCount = Len(volume.root)

-----------------------------------------------------------------------------
Less == {ss \in Nat \X Nat : ss[1] < ss[2]}

(* Induction over the naturals, from the well-foundedness of their order.    *)
LEMMA Inductive ==
    ASSUME NEW S, 0 \in S, \A k \in Nat : k \in S => k + 1 \in S
    PROVE  Nat \subseteq S
<1> DEFINE T == Nat \ S
<1>1. IsWellFoundedOn(Less, Nat)
    BY NatLessThanWellFounded DEF OpToRel, Less
<1>2. ASSUME T # {} PROVE FALSE
  <2>1. PICK k \in T : \A m \in T : <<m, k>> \notin Less
    BY <1>1, <1>2, WFMin, T \subseteq Nat
  <2>2. k # 0 /\ k - 1 \in Nat /\ <<k - 1, k>> \in Less
    BY <2>1 DEF Less
  <2>3. k - 1 \in S
    BY <2>1, <2>2
  <2> QED
    BY <2>1, <2>2, <2>3
<1> QED
    BY <1>2

(* Every path leads somewhere, name after name.                              *)
LEMMA LeadsSome == ASSUME NEW v, NEW path, NEW N \in Nat PROVE \E t : Leads(v, path, N, t)
<1> DEFINE T == {k \in Nat : \E t : Leads(v, path, k, t)}
           Step(k, e) == IF path[k] = <<>> THEN e ELSE FindIn(v, e, path[k])
<1>1. 0 \in T
  <2> DEFINE t == [k \in 0 .. 0 |-> RootEntry]
  <2>1. Leads(v, path, 0, t)
    BY DEF Leads
  <2> QED
    BY <2>1
<1>2. ASSUME NEW m \in Nat, m \in T PROVE m + 1 \in T
  <2>1. PICK t : Leads(v, path, m, t)
    BY <1>2
  <2> DEFINE h == [k \in 0 .. m + 1 |-> IF k = m + 1 THEN Step(m + 1, t[m]) ELSE t[k]]
  <2>2. \A k \in 0 .. m + 1 : h[k] = IF k = 0 THEN RootEntry ELSE Step(k, h[k - 1])
    <3>1. \A k \in 0 .. m : t[k] = IF k = 0 THEN RootEntry ELSE Step(k, t[k - 1])
      BY <2>1 DEF Leads
    <3>2. h[m + 1] = Step(m + 1, t[m]) /\ \A k \in 0 .. m : h[k] = t[k]
      OBVIOUS
    <3> HIDE DEF h, Step
    <3>3. ASSUME NEW k \in 0 .. m PROVE h[k] = IF k = 0 THEN RootEntry ELSE Step(k, h[k - 1])
      <4>1. k = 0 \/ k - 1 \in 0 .. m
        OBVIOUS
      <4> QED
        BY <3>1, <3>2, <4>1
    <3>4. h[m + 1] = Step(m + 1, h[m]) /\ m \in 0 .. m /\ (m + 1) - 1 = m
      BY <3>2
    <3> TAKE k \in 0 .. m + 1
    <3>5. k = m + 1 \/ k \in 0 .. m
      OBVIOUS
    <3> QED
      BY <3>3, <3>4, <3>5
  <2>3. h = [k \in 0 .. m + 1 |-> IF k = 0 THEN RootEntry ELSE Step(k, h[k - 1])]
    BY <2>2
  <2>4. Leads(v, path, m + 1, h)
    BY <2>3 DEF Leads
  <2> HIDE DEF h
  <2> QED
    BY <2>4
<1> HIDE DEF T
<1>3. N \in T
    BY <1>1, <1>2, Inductive
<1> QED
    BY <1>3 DEF T

LEMMA WayStep ==
    ASSUME NEW v, NEW path \in Seq(Seq(STRING))
    PROVE  /\ Way(v, path)[0] = RootEntry
           /\ \A k \in 1 .. Len(path) : Way(v, path)[k] =
                IF path[k] = <<>> THEN Way(v, path)[k - 1]
                ELSE FindIn(v, Way(v, path)[k - 1], path[k])
<1> DEFINE t == Way(v, path)
<1>1. Len(path) \in Nat
    OBVIOUS
<1>2. Leads(v, path, Len(path), t)
    BY <1>1, LeadsSome DEF Way
<1>3. t = [k \in 0 .. Len(path) |->
            IF k = 0 THEN RootEntry
            ELSE IF path[k] = <<>> THEN t[k - 1] ELSE FindIn(v, t[k - 1], path[k])]
    BY <1>2 DEF Leads
<1> HIDE DEF t
<1>4. \A k \in 0 .. Len(path) : t[k] =
            IF k = 0 THEN RootEntry
            ELSE IF path[k] = <<>> THEN t[k - 1] ELSE FindIn(v, t[k - 1], path[k])
    BY <1>3
<1>5. 0 \in 0 .. Len(path) /\ \A k \in 1 .. Len(path) : k \in 0 .. Len(path) /\ k # 0
    BY <1>1
<1>6. t[0] = RootEntry /\ \A k \in 1 .. Len(path) : t[k] =
            IF path[k] = <<>> THEN t[k - 1] ELSE FindIn(v, t[k - 1], path[k])
    BY <1>4, <1>5
<1> QED
    BY <1>6 DEF t

LEMMA NamedIs == ASSUME NEW path PROVE Named(path) = NamedIn(volume, path)
    BY DEF Named, NamedIn, Way, Leads, Find, FindIn, DirOf, EntriesIn, Hits

LEMMA OrphanIs == ASSUME NEW path PROVE Orphan(path) <=> OrphanIn(volume, path)
    BY DEF Orphan, OrphanIn, Dirs

(* Behind what is no directory a path names nothing.                         *)
LEMMA DeletedStays ==
    ASSUME NEW v, NEW path \in Seq(Seq(STRING)), NEW j \in 0 .. Len(path),
           Way(v, path)[j] = Deleted
    PROVE  NamedIn(v, path) = Deleted
<1> DEFINE t == Way(v, path)
           S == {k \in Nat : j + k <= Len(path) => t[j + k] = Deleted}
<1>1. 0 \in S
    OBVIOUS
<1>2. ASSUME NEW k \in Nat, k \in S PROVE k + 1 \in S
  <2> SUFFICES ASSUME j + (k + 1) <= Len(path) PROVE t[j + (k + 1)] = Deleted
    OBVIOUS
  <2>1. j + (k + 1) \in 1 .. Len(path) /\ (j + (k + 1)) - 1 = j + k /\ j + k <= Len(path)
    OBVIOUS
  <2>2. t[j + k] = Deleted
    BY <1>2, <2>1
  <2>3. FindIn(v, Deleted, path[j + (k + 1)]) = Deleted
    BY DEF FindIn, Deleted, Entry
  <2> QED
    BY <2>1, <2>2, <2>3, WayStep
<1> HIDE DEF S
<1>3. Len(path) - j \in S
  <2>1. Nat \subseteq S
    BY <1>1, <1>2, Inductive
  <2> QED
    BY <2>1
<1>4. j + (Len(path) - j) = Len(path)
    OBVIOUS
<1> QED
    BY <1>3, <1>4 DEF S, NamedIn

LEMMA NotFoundNamed ==
    ASSUME NEW v, NEW path \in Seq(Seq(STRING)), NEW j \in 0 .. Len(path) - 1, path[j + 1] # <<>>,
           \/ "dir" \notin Way(v, path)[j].attr
           \/ Hits(EntriesIn(v, Way(v, path)[j]), path[j + 1]) = {}
    PROVE  NamedIn(v, path) = Deleted
<1>1. j + 1 \in 1 .. Len(path) /\ (j + 1) - 1 = j /\ j + 1 \in 0 .. Len(path)
    OBVIOUS
<1>2. Way(v, path)[j + 1] = FindIn(v, Way(v, path)[j], path[j + 1])
    BY <1>1, WayStep
<1>3. Way(v, path)[j + 1] = Deleted
    BY <1>2 DEF FindIn
<1> QED
    BY <1>1, <1>3, DeletedStays

-----------------------------------------------------------------------------
LEMMA EntryTypes ==
    ASSUME NEW dir \in Seq(DirEntry), NEW k \in DOMAIN dir
    PROVE  /\ dir[k] \in DirEntry /\ dir[k].order \in Nat /\ dir[k].last \in BOOLEAN
           /\ k \in Nat \ {0} /\ Len(dir) \in Nat /\ DOMAIN dir = 1 .. Len(dir)
<1>1. dir[k] \in DirEntry
    OBVIOUS
<1> QED
    BY <1>1 DEF DirEntry

LEMMA RunParts ==
    ASSUME NEW dir, NEW k, RunAt(dir, k), NEW o, o = dir[k].order, NEW j \in k + 1 .. (k + o) - 1
    PROVE  dir[j].kind = "lfn" /\ ~dir[j].last /\ dir[j].order = (k + o) - j
    BY DEF RunAt

(* A long name in a directory, and where its pieces and its entry are.       *)
LEMMA RunShape ==
    ASSUME NEW dir \in Seq(DirEntry), NEW k \in Runs(dir)
    PROVE  /\ k \in DOMAIN dir /\ k \in Nat \ {0}
           /\ dir[k].order \in Nat \ {0} /\ k + dir[k].order \in DOMAIN dir
           /\ dir[k + dir[k].order].kind = "std"
           /\ \A m \in 1 .. dir[k].order :
                /\ k + dir[k].order - m \in DOMAIN dir
                /\ dir[k + dir[k].order - m].kind = "lfn"
                /\ dir[k + dir[k].order - m].last = (m = dir[k].order)
                /\ dir[k + dir[k].order - m].order = m
<1> DEFINE o == dir[k].order
<1>1. k \in DOMAIN dir /\ RunAt(dir, k) /\ DOMAIN dir = 1 .. Len(dir) /\ Len(dir) \in Nat
    BY DEF Runs
<1>2. /\ dir[k].kind = "lfn" /\ dir[k].last = TRUE /\ k + o <= Len(dir) /\ dir[k + o].kind = "std"
      /\ \A j \in k + 1 .. (k + o) - 1 :
            dir[j].kind = "lfn" /\ dir[j].last = FALSE /\ dir[j].order = (k + o) - j
  <2>1. dir[k].order \in Nat
    BY <1>1, EntryTypes
  <2>2. \A j \in k + 1 .. (k + o) - 1 : j \in DOMAIN dir
    BY <1>1, <2>1 DEF RunAt
  <2>3. \A j \in DOMAIN dir : dir[j].last \in BOOLEAN
    BY EntryTypes
  <2>4. dir[k].last = TRUE
    BY <1>1, <2>3 DEF RunAt
  <2>5. dir[k].kind = "lfn" /\ k + o <= Len(dir) /\ dir[k + o].kind = "std"
    BY <1>1 DEF RunAt
  <2> HIDE DEF o
  <2>6. ASSUME NEW j \in k + 1 .. (k + o) - 1
        PROVE  dir[j].kind = "lfn" /\ dir[j].last = FALSE /\ dir[j].order = (k + o) - j
    <3>0. RunAt(dir, k) /\ o = dir[k].order
      BY <1>1 DEF o
    <3>1. dir[j].kind = "lfn" /\ ~dir[j].last /\ dir[j].order = (k + o) - j
      BY <3>0, RunParts
    <3>2. dir[j].last \in BOOLEAN
      BY <2>2, <2>3
    <3> QED
      BY <3>1, <3>2
  <2> QED
    BY <2>4, <2>5, <2>6
<1>3. o \in Nat
    BY <1>1, EntryTypes
<1> HIDE DEF o
<1>4. o # 0
    BY <1>1, <1>2
<1>5. k + o \in DOMAIN dir /\ k \in Nat \ {0}
    BY <1>1, <1>2, <1>3
<1>6. ASSUME NEW m \in 1 .. o
      PROVE  /\ k + o - m \in DOMAIN dir /\ dir[k + o - m].kind = "lfn"
             /\ dir[k + o - m].last = (m = o) /\ dir[k + o - m].order = m
  <2>1. CASE m = o
    <3>1. k + o - m = k
      BY <1>3, <1>5, <2>1
    <3> QED
      BY <1>1, <1>2, <2>1, <3>1 DEF o
  <2>2. CASE m # o
    <3> DEFINE j == k + o - m
    <3>1. j \in k + 1 .. (k + o) - 1 /\ (k + o) - j = m
      BY <1>3, <1>5, <2>2
    <3>2. j \in DOMAIN dir
      BY <1>1, <1>2, <1>3, <1>5, <3>1
    <3> HIDE DEF j
    <3>3. dir[j].kind = "lfn" /\ dir[j].last = FALSE /\ dir[j].order = (k + o) - j
      BY <1>2, <3>1
    <3>4. dir[j].order = m
      BY <3>1, <3>3
    <3> QED
      BY <2>2, <3>2, <3>3, <3>4 DEF j
  <2> QED
    BY <2>1, <2>2
<1> QED
    BY <1>1, <1>2, <1>3, <1>4, <1>5, <1>6 DEF o

LEMMA RunOfName ==
    ASSUME NEW dir \in Seq(DirEntry), NEW k \in Runs(dir), NEW name \in Seq(STRING),
           NameAt(dir, k) = name
    PROVE  /\ dir[k].order = Len(name) /\ dir[k + Len(name)].kind = "std"
           /\ \A m \in 1 .. Len(name) : Matches(dir[k + Len(name) - m], name, m)
<1> DEFINE o == dir[k].order
<1>1. o \in Nat \ {0}
    BY RunShape
<1>2. name = [j \in 1 .. o |-> dir[k + o - j].piece]
    BY DEF NameAt
<1>3. Len(name) = o
    BY <1>1, <1>2, DOMAIN name = 1 .. Len(name)
<1>4. \A m \in 1 .. o : name[m] = dir[k + o - m].piece
    BY <1>2
<1>5. \A m \in 1 .. o : Matches(dir[k + o - m], name, m)
    BY <1>3, <1>4, RunShape DEF Matches
<1> QED
    BY <1>3, <1>5, RunShape

LEMMA MatchesRun ==
    ASSUME NEW dir \in Seq(DirEntry), NEW k \in Nat \ {0}, NEW name \in Seq(STRING), name # <<>>,
           k + Len(name) \in DOMAIN dir, dir[k + Len(name)].kind = "std",
           \A m \in 1 .. Len(name) : Matches(dir[k + Len(name) - m], name, m)
    PROVE  /\ k \in Runs(dir) /\ NameAt(dir, k) = name /\ dir[k].order = Len(name)
           /\ StdAt(dir, k) = dir[k + Len(name)]
<1> DEFINE o == Len(name)
<1>1. o \in Nat \ {0} /\ DOMAIN dir = 1 .. Len(dir) /\ Len(dir) \in Nat
    OBVIOUS
<1>2. k + o - o = k /\ o \in 1 .. o /\ k \in DOMAIN dir /\ k + o <= Len(dir)
    BY <1>1
<1>3. dir[k].kind = "lfn" /\ dir[k].last /\ dir[k].order = o
    BY <1>2 DEF Matches
<1>4. ASSUME NEW j \in k + 1 .. k + o - 1
      PROVE  dir[j].kind = "lfn" /\ ~dir[j].last /\ dir[j].order = k + o - j
  <2>0. k + o - j \in 1 .. o
    BY <1>1
  <2>1. PICK m \in 1 .. o : m = k + o - j
    BY <2>0
  <2>2. j = k + o - m /\ m # o
    BY <1>1, <2>1
  <2>3. Matches(dir[j], name, m)
    BY <2>2
  <2> QED
    BY <2>1, <2>2, <2>3 DEF Matches
<1>5. k \in Runs(dir)
    BY <1>2, <1>3, <1>4 DEF Runs, RunAt
<1>6. \A m \in 1 .. o : dir[k + o - m].piece = name[m]
    BY DEF Matches
<1>7. NameAt(dir, k) = name
  <2>1. NameAt(dir, k) = [j \in 1 .. o |-> dir[k + o - j].piece]
    BY <1>3 DEF NameAt
  <2>2. name = [j \in 1 .. o |-> name[j]]
    OBVIOUS
  <2> QED
    BY <1>6, <2>1, <2>2
<1> QED
    BY <1>3, <1>5, <1>7 DEF StdAt

(* Where a long name is no other begins.                                     *)
LEMMA RunsApart ==
    ASSUME NEW dir \in Seq(DirEntry), NEW k \in Runs(dir), NEW r \in Runs(dir), k < r
    PROVE  k + dir[k].order < r
<1> DEFINE o == dir[k].order
<1> SUFFICES ASSUME r <= k + o PROVE FALSE
    BY RunShape
<1>1. dir[r].kind = "lfn" /\ dir[r].last = TRUE
  <2>1. r \in DOMAIN dir /\ RunAt(dir, r)
    BY DEF Runs
  <2>2. dir[r].last \in BOOLEAN
    BY <2>1, EntryTypes
  <2> QED
    BY <2>1, <2>2 DEF RunAt
<1>2. k \in Nat /\ r \in Nat /\ o \in Nat
    BY RunShape
<1>3. CASE r = k + o
    BY <1>1, <1>3, RunShape
<1>4. CASE r # k + o
  <2>0. k + o - r \in 1 .. o
    <3> HIDE DEF o
    <3>1. k + o - r >= 1 /\ k + o - r <= o /\ k + o - r \in Int
      BY <1>2, <1>4
    <3> QED
      BY <1>2, <3>1
  <2>1. PICK m \in 1 .. o : m = k + o - r
    BY <2>0
  <2>2. r = k + o - m /\ m # o
    BY <1>2, <2>1
  <2>3. dir[r].last = (m = o)
    <3>1. dir[k + o - m].last = (m = o)
      BY RunShape
    <3> QED
      BY <2>2, <3>1
  <2> QED
    BY <1>1, <2>2, <2>3
<1> QED
    BY <1>3, <1>4

-----------------------------------------------------------------------------
(* The directories of a volume, and their entries as places of a walk.       *)
LEMMA DirTypes ==
    ASSUME NEW v \in Volumes, NEW e \in Standing(v), "dir" \in e.attr
    PROVE  /\ EntriesIn(v, e) \in Seq(DirEntry)
           /\ EntriesIn(v, e) \in {v.root} \cup {v.dirs[d] : d \in DOMAIN v.dirs}
           /\ \A k \in DOMAIN EntriesIn(v, e) :
                EntriesIn(v, e)[k].kind = "std" => EntriesIn(v, e)[k] \in Standing(v)
<1> DEFINE dir == EntriesIn(v, e)
<1>1. dir \in Directory(v) /\ dir \in {v.root} \cup {v.dirs[d] : d \in DOMAIN v.dirs}
  <2>1. CASE e.kind = "root"
    BY <2>1, FatDirAssumption DEF EntriesIn
  <2>2. CASE e.kind # "root"
    <3>1. e # RootEntry /\ e # Deleted
      BY <2>2 DEF RootEntry, Deleted, Entry
    <3>2. e.id \in DOMAIN v.dirs
      BY <3>1 DEF Standing
    <3> QED
      BY <2>2, <3>2, FatDirAssumption DEF EntriesIn
  <2> QED
    BY <2>1, <2>2
<1> HIDE DEF dir
<1>2. dir \in Seq(DirEntry) /\ \A k \in DOMAIN dir : "dir" \in dir[k].attr => dir[k].id \in DOMAIN v.dirs
    BY <1>1 DEF Directory
<1>3. \A k \in DOMAIN dir : dir[k] \in DirEntry
    BY <1>2
<1>4. \A k \in DOMAIN dir : dir[k].kind = "std" => dir[k] \in Standing(v)
    BY <1>2, <1>3 DEF Standing
<1> QED
    BY <1>1, <1>2, <1>4 DEF dir

LEMMA Ending ==
    ASSUME NEW path \in Seq(Seq(STRING)), NEW k \in 1 .. Len(path) + 1
    PROVE  /\ SubSeq(path, k, Len(path)) \in Seq(Seq(STRING))
           /\ Len(SubSeq(path, k, Len(path))) = (Len(path) - k) + 1
           /\ \A i \in 1 .. (Len(path) - k) + 1 : SubSeq(path, k, Len(path))[i] = path[(k + i) - 1]
<1>1. k \in Int /\ Len(path) \in Int /\ \A i \in k .. Len(path) : path[i] \in Seq(STRING)
    OBVIOUS
<1>2. SubSeq(path, k, Len(path)) \in Seq(Seq(STRING))
    BY <1>1, SubSeqProperties
<1>3. Len(SubSeq(path, k, Len(path))) = IF k <= Len(path) THEN (Len(path) - k) + 1 ELSE 0
    BY <1>1, SubSeqProperties
<1>4. \A i \in 1 .. (Len(path) - k) + 1 : SubSeq(path, k, Len(path))[i] = path[(k + i) - 1]
  <2>1. \A i \in 1 .. (Len(path) - k) + 1 : SubSeq(path, k, Len(path))[i] = path[k + (i - 1)]
    BY <1>1, SubSeqProperties
  <2> QED
    BY <2>1
<1> QED
    BY <1>2, <1>3, <1>4

LEMMA Onward ==
    ASSUME NEW path \in Seq(Seq(STRING)), NEW j \in 0 .. Len(path), NEW rest,
           rest = SubSeq(path, j + 1, Len(path)), rest # <<>>
    PROVE  /\ j \in 0 .. Len(path) - 1 /\ j + 1 \in 0 .. Len(path) /\ j + 1 \in 1 .. Len(path)
           /\ Head(rest) = path[j + 1] /\ Head(rest) \in Seq(STRING)
           /\ Tail(rest) = SubSeq(path, (j + 1) + 1, Len(path)) /\ Tail(rest) \in Seq(Seq(STRING))
<1> DEFINE s == SubSeq(path, (j + 1) + 1, Len(path))
           L == Len(path) - j
<1>1. j + 1 \in 1 .. Len(path) + 1 /\ L \in Nat
    OBVIOUS
<1>2. /\ rest \in Seq(Seq(STRING)) /\ Len(rest) = L
      /\ \A i \in 1 .. L : rest[i] = path[j + i]
  <2>1. Len(rest) = (Len(path) - (j + 1)) + 1 /\ rest \in Seq(Seq(STRING))
        /\ \A i \in 1 .. (Len(path) - (j + 1)) + 1 : rest[i] = path[((j + 1) + i) - 1]
    BY <1>1, Ending
  <2>2. (Len(path) - (j + 1)) + 1 = L /\ \A i \in 1 .. L : ((j + 1) + i) - 1 = j + i
    OBVIOUS
  <2> QED
    BY <2>1, <2>2
<1>3. j < Len(path) /\ L \in Nat \ {0}
    BY <1>2
<1>4. (j + 1) + 1 \in 1 .. Len(path) + 1
    BY <1>3
<1>5. s \in Seq(Seq(STRING)) /\ Len(s) = L - 1 /\ \A i \in 1 .. L - 1 : s[i] = path[j + (i + 1)]
  <2>1. s \in Seq(Seq(STRING)) /\ Len(s) = (Len(path) - ((j + 1) + 1)) + 1
        /\ \A i \in 1 .. (Len(path) - ((j + 1) + 1)) + 1 : s[i] = path[(((j + 1) + 1) + i) - 1]
    BY <1>4, Ending
  <2>2. (Len(path) - ((j + 1) + 1)) + 1 = L - 1
        /\ \A i \in 1 .. L - 1 : (((j + 1) + 1) + i) - 1 = j + (i + 1)
    OBVIOUS
  <2> HIDE DEF s
  <2> QED
    BY <2>1, <2>2
<1>6. Tail(rest) \in Seq(Seq(STRING)) /\ Len(Tail(rest)) = L - 1
      /\ \A i \in 1 .. L - 1 : Tail(rest)[i] = rest[i + 1]
    BY <1>2, HeadTailProperties, SMTT(30)
<1> HIDE DEF s, L
<1>7. \A i \in 1 .. L - 1 : Tail(rest)[i] = s[i]
  <2> TAKE i \in 1 .. L - 1
  <2>1. i + 1 \in 1 .. L
    BY <1>3
  <2> QED
    BY <1>2, <1>5, <1>6, <2>1
<1>8. Tail(rest) = s
    BY <1>5, <1>6, <1>7, SeqEqual
<1>9. Head(rest) = path[j + 1] /\ path[j + 1] \in Seq(STRING)
    BY <1>2, <1>3
<1> QED
    BY <1>3, <1>6, <1>8, <1>9, SMTT(30) DEF s

LEMMA Arrived ==
    ASSUME NEW path \in Seq(Seq(STRING)), NEW j \in 0 .. Len(path), SubSeq(path, j + 1, Len(path)) = <<>>
    PROVE  j = Len(path)
<1>1. j + 1 \in 1 .. Len(path) + 1
    OBVIOUS
<1>2. Len(SubSeq(path, j + 1, Len(path))) = (Len(path) - (j + 1)) + 1
    BY <1>1, Ending
<1>3. (Len(path) - (j + 1)) + 1 = 0
    BY <1>2
<1> QED
    BY <1>3

(* A call on its way that passes a name, that misses it, that has no more.   *)
LEMMA NextName ==
    ASSUME NEW v, NEW c, c.asked \in Seq(Seq(STRING)), OnWay(v, c), c.rest # <<>>
    PROVE  \E j \in 0 .. Len(c.asked) - 1 :
            /\ c.cur = Way(v, c.asked)[j] /\ Head(c.rest) = c.asked[j + 1]
            /\ Head(c.rest) \in Seq(STRING) /\ Tail(c.rest) \in Seq(Seq(STRING))
            /\ j + 1 \in 0 .. Len(c.asked)
            /\ Tail(c.rest) = SubSeq(c.asked, (j + 1) + 1, Len(c.asked))
            /\ Way(v, c.asked)[j + 1] =
                    IF Head(c.rest) = <<>> THEN c.cur ELSE FindIn(v, c.cur, Head(c.rest))
<1> DEFINE path == c.asked
           rest == c.rest
<1>1. PICK j \in 0 .. Len(path) : rest = SubSeq(path, j + 1, Len(path)) /\ c.cur = Way(v, path)[j]
    BY DEF OnWay
<1>2. path \in Seq(Seq(STRING)) /\ rest # <<>>
    OBVIOUS
<1> HIDE DEF path, rest
<1>3. /\ j \in 0 .. Len(path) - 1 /\ j + 1 \in 0 .. Len(path) /\ j + 1 \in 1 .. Len(path)
      /\ Head(rest) = path[j + 1] /\ Head(rest) \in Seq(STRING)
      /\ Tail(rest) = SubSeq(path, (j + 1) + 1, Len(path)) /\ Tail(rest) \in Seq(Seq(STRING))
    BY <1>1, <1>2, Onward
<1>4. (j + 1) - 1 = j
    BY <1>1
<1>5. Way(v, path)[j + 1] = IF path[j + 1] = <<>> THEN Way(v, path)[(j + 1) - 1]
                            ELSE FindIn(v, Way(v, path)[(j + 1) - 1], path[j + 1])
    BY <1>2, <1>3, WayStep
<1>6. Way(v, path)[j + 1] = IF Head(rest) = <<>> THEN c.cur ELSE FindIn(v, c.cur, Head(rest))
    BY <1>1, <1>3, <1>4, <1>5
<1> QED
    BY <1>1, <1>3, <1>6 DEF path, rest

LEMMA MovedOn ==
    ASSUME NEW v, NEW c, NEW d, c.asked \in Seq(Seq(STRING)), OnWay(v, c), c.rest # <<>>,
           d.asked = c.asked, d.rest = Tail(c.rest),
           d.cur = IF Head(c.rest) = <<>> THEN c.cur ELSE FindIn(v, c.cur, Head(c.rest))
    PROVE  OnWay(v, d)
<1>1. PICK j \in 0 .. Len(c.asked) - 1 :
        /\ j + 1 \in 0 .. Len(c.asked) /\ Tail(c.rest) = SubSeq(c.asked, (j + 1) + 1, Len(c.asked))
        /\ Way(v, c.asked)[j + 1] =
                IF Head(c.rest) = <<>> THEN c.cur ELSE FindIn(v, c.cur, Head(c.rest))
    BY NextName
<1> QED
    BY <1>1 DEF OnWay

LEMMA MissedName ==
    ASSUME NEW v, NEW c, c.asked \in Seq(Seq(STRING)), OnWay(v, c), c.rest # <<>>,
           Head(c.rest) # <<>>,
           "dir" \notin c.cur.attr \/ Hits(EntriesIn(v, c.cur), Head(c.rest)) = {}
    PROVE  NamedIn(v, c.asked) = Deleted
<1>1. PICK j \in 0 .. Len(c.asked) - 1 :
        c.cur = Way(v, c.asked)[j] /\ Head(c.rest) = c.asked[j + 1]
    BY NextName
<1> QED
    BY <1>1, NotFoundNamed

LEMMA AtEnd ==
    ASSUME NEW v, NEW c, c.asked \in Seq(Seq(STRING)), OnWay(v, c), c.rest = <<>>
    PROVE  c.cur = NamedIn(v, c.asked)
<1>1. PICK j \in 0 .. Len(c.asked) :
        c.rest = SubSeq(c.asked, j + 1, Len(c.asked)) /\ c.cur = Way(v, c.asked)[j]
    BY DEF OnWay
<1>2. j = Len(c.asked)
    BY <1>1, Arrived
<1> QED
    BY <1>1, <1>2 DEF NamedIn

LEMMA ExcusedKept ==
    ASSUME NEW v, NEW c, NEW d, d.asked = c.asked, d.op = c.op, c.failed => d.failed, c.at # "out",
           Excused(v, c)
    PROVE  Excused(v, d)
    BY DEF Excused

(* A step of one call leaves the others alone.                               *)
LEMMA OneCall ==
    ASSUME TreeInv, NEW p \in Callers, NEW d, call' = [call EXCEPT ![p] = d],
           UNCHANGED <<volume, rootCount>>, CallOK(volume, rootCount, d)
    PROVE  TreeInv'
<1>1. DOMAIN call' = Callers /\ call'[p] = d /\ \A q \in Callers \ {p} : call'[q] = call[q]
    BY DEF TreeInv
<1>2. \A q \in Callers : CallOK(volume', rootCount', call'[q])
    BY <1>1 DEF TreeInv
<1> QED
    BY <1>1, <1>2 DEF TreeInv

-----------------------------------------------------------------------------
LEMMA Types ==
    ASSUME TreeInv, NEW p \in Callers
    PROVE  /\ volume \in Volumes /\ Shape(volume, call[p])
           /\ Excused(volume, call[p]) \/ Walks(volume, rootCount, call[p])
           /\ call[p].asked \in Seq(Seq(STRING)) /\ call[p].rest \in Seq(Seq(STRING))
           /\ call[p].cur \in Standing(volume) /\ call[p].op \in {"read", "list"}
           /\ call[p].pos \in Nat /\ call[p].i \in Int /\ call[p].len \in Nat /\ call[p].skip \in Nat
           /\ call[p].place \in Nat /\ Len(call[p].asked) \in Nat
    BY DEF TreeInv, CallOK, Shape

(* A path is walked from the root ...                                        *)
LEMMA CallKeeps == ASSUME TreeInv, NEW p \in Callers, Call(p) PROVE TreeInv'
<1>1. PICK path \in volume.paths, op \in {"read", "list"}, k \in Offsets :
        call' = [call EXCEPT ![p] = [Outside EXCEPT
                        !.at = "path", !.op = op, !.asked = path, !.place = k, !.rest = path]]
    BY DEF Call
<1> DEFINE d == [Outside EXCEPT !.at = "path", !.op = op, !.asked = path, !.place = k, !.rest = path]
<1>2. path \in Seq(Seq(STRING)) /\ k \in Nat /\ volume \in Volumes
    BY <1>1, FatDirAssumption DEF TreeInv
<1>3. Shape(volume, d)
  <2>1. Shape(volume, Outside)
    BY DEF Standing, Shape, Outside, Scanning, Listing
  <2>2. Outside.failed = FALSE /\ DOMAIN Outside = DOMAIN d
    BY DEF Outside
  <2> QED
    BY <1>1, <1>2, <2>1 DEF Shape, Scanning, Listing
<1>4. OnWay(volume, d)
  <2>1. SubSeq(path, 0 + 1, Len(path)) = path
    <3>1. 1 \in 1 .. Len(path) + 1 /\ Len(path) \in Nat
      BY <1>2
    <3>2. /\ SubSeq(path, 1, Len(path)) \in Seq(Seq(STRING))
          /\ Len(SubSeq(path, 1, Len(path))) = (Len(path) - 1) + 1
          /\ \A i \in 1 .. (Len(path) - 1) + 1 : SubSeq(path, 1, Len(path))[i] = path[(1 + i) - 1]
      BY <1>2, <3>1, Ending
    <3>3. (Len(path) - 1) + 1 = Len(path) /\ \A i \in 1 .. Len(path) : (1 + i) - 1 = i
      BY <3>1
    <3>4. SubSeq(path, 1, Len(path)) = path
      BY <1>2, <3>2, <3>3, SeqEqual
    <3> QED
      BY <3>4
  <2>2. Way(volume, path)[0] = RootEntry /\ 0 \in 0 .. Len(path)
    BY <1>2, WayStep
  <2>3. d.asked = path /\ d.rest = path /\ d.cur = RootEntry
    BY DEF Outside
  <2> QED
    BY <2>1, <2>2, <2>3 DEF OnWay
<1>5. d.at = "path"
    BY DEF Outside
<1>6. Walks(volume, rootCount, d)
    BY <1>4, <1>5 DEF Walks, Scanning, Listing
<1>7. UNCHANGED <<volume, rootCount>>
    BY DEF Call, Keep, vars, file
<1> QED
    BY <1>1, <1>3, <1>6, <1>7, OneCall DEF CallOK

LEMMA SkipEmptyKeeps == ASSUME TreeInv, NEW p \in Callers, SkipEmpty(p) PROVE TreeInv'
<1> DEFINE c == call[p]
           d == [c EXCEPT !.rest = Tail(@)]
<1>1. /\ c.at = "path" /\ c.rest # <<>> /\ Head(c.rest) = <<>> /\ call' = [call EXCEPT ![p] = d]
      /\ UNCHANGED <<volume, rootCount>>
    BY DEF SkipEmpty, Keep, vars, file, At, Want
<1>2. Tail(c.rest) \in Seq(Seq(STRING))
    BY <1>1, Types, HeadTailProperties
<1>3. /\ Shape(volume, d) /\ d.at = "path" /\ d.rest = Tail(c.rest) /\ d.asked = c.asked
      /\ d.op = c.op /\ d.failed = c.failed /\ d.cur = c.cur
    BY <1>1, <1>2, Types DEF Shape, Scanning, Listing
<1> HIDE DEF d
<1>4. ASSUME OnWay(volume, c) PROVE OnWay(volume, d)
  <2>1. c.asked \in Seq(Seq(STRING))
    BY Types
  <2> HIDE DEF c
  <2> QED
    BY <1>1, <1>3, <1>4, <2>1, MovedOn
<1>5. Excused(volume, d) \/ Walks(volume, rootCount, d)
  <2>1. CASE Excused(volume, c)
    BY <1>1, <1>3, <2>1, ExcusedKept
  <2>2. CASE Walks(volume, rootCount, c)
    BY <1>1, <1>3, <1>4, <2>2 DEF Walks, Scanning, Listing
  <2> QED
    BY <2>1, <2>2, Types
<1> QED
    BY <1>1, <1>3, <1>5, OneCall DEF CallOK

LEMMA SameWay ==
    ASSUME NEW v, NEW c, NEW d, d.asked = c.asked, d.rest = c.rest, d.cur = c.cur
    PROVE  OnWay(v, c) <=> OnWay(v, d)
    BY DEF OnWay

LEMMA MissedResult ==
    ASSUME NEW v, NEW rc, NEW d, d.op \in {"read", "list"}, NamedIn(v, d.asked) = Deleted,
           d.at = "done" /\ d.answer = NoName
    PROVE  Excused(v, d) \/ Walks(v, rc, d)
<1>1. Deleted.attr = {}
    BY DEF Deleted, Entry
<1>2. Found(Deleted) = NoName
    BY <1>1 DEF Found
<1> QED
    BY <1>1, <1>2 DEF Excused, Walks, Result, Scanning, Listing

(* ... a directory is entered ...                                            *)
LEMMA EnterDirKeeps == ASSUME TreeInv, NEW p \in Callers, EnterDir(p) PROVE TreeInv'
<1> DEFINE c == call[p]
           d == [c EXCEPT !.at = "count", !.pos = 0]
<1>1. /\ c.at = "path" /\ c.rest # <<>> /\ Head(c.rest) # <<>> /\ "dir" \in c.cur.attr
      /\ call' = [call EXCEPT ![p] = d] /\ UNCHANGED <<volume, rootCount>>
    BY DEF EnterDir, Keep, vars, file, At, Want
<1>2. /\ Shape(volume, d) /\ d.at = "count" /\ d.rest = c.rest /\ d.asked = c.asked
      /\ d.op = c.op /\ d.failed = c.failed /\ d.cur = c.cur /\ d.pos = 0
    BY <1>1, Types DEF Shape, Scanning, Listing
<1>3. Excused(volume, c) \/ Walks(volume, rootCount, c)
    BY Types
<1> HIDE DEF d, c
<1>4. Excused(volume, d) \/ Walks(volume, rootCount, d)
  <2>1. CASE Excused(volume, c)
    BY <1>1, <1>2, <2>1, ExcusedKept
  <2>2. CASE Walks(volume, rootCount, c)
    <3>1. OnWay(volume, d)
      BY <1>1, <1>2, <2>2, SameWay DEF Walks
    <3> QED
      BY <1>1, <1>2, <3>1 DEF Walks, Scanning, Listing
  <2> QED
    BY <1>3, <2>1, <2>2
<1> QED
    BY <1>1, <1>2, <1>4, OneCall DEF CallOK

(* ... and what is none is not.                                              *)
LEMMA NotDirKeeps == ASSUME TreeInv, NEW p \in Callers, NotDir(p) PROVE TreeInv'
<1> DEFINE c == call[p]
<1>1. /\ c.at = "path" /\ c.rest # <<>> /\ Head(c.rest) # <<>> /\ "dir" \notin c.cur.attr
      /\ UNCHANGED <<volume, rootCount>>
    BY DEF NotDir, Keep, vars, file, At, Want
<1>2. Excused(volume, c) \/ Walks(volume, rootCount, c)
    BY Types
<1>3. c.asked \in Seq(Seq(STRING)) /\ c.op \in {"read", "list"}
    BY Types
<1>4. Excused(volume, c) \/ NamedIn(volume, c.asked) = Deleted
  <2> HIDE DEF c
  <2> QED
    BY <1>1, <1>2, <1>3, MissedName DEF Walks
<1>5. CASE End(p, NoName)
  <2> DEFINE d == [c EXCEPT !.at = "done", !.answer = NoName]
  <2>1. call' = [call EXCEPT ![p] = d]
    BY <1>5 DEF End, TreeInv
  <2>2. /\ Shape(volume, d) /\ d.at = "done" /\ d.answer = NoName /\ d.asked = c.asked
        /\ d.op = c.op /\ d.failed = c.failed
    <3>1. Shape(volume, c)
      BY Types
    <3> HIDE DEF c
    <3> QED
      BY <1>1, <3>1 DEF Shape, Scanning, Listing
  <2> HIDE DEF d, c
  <2>3. Excused(volume, d) \/ Walks(volume, rootCount, d)
    BY <1>1, <1>3, <1>4, <2>2, ExcusedKept, MissedResult
  <2> QED
    BY <1>1, <2>1, <2>2, <2>3, OneCall DEF CallOK
<1>6. CASE c.op = "list" /\ call' = [call EXCEPT ![p].rest = <<>>, ![p].cur = RootEntry]
  <2> DEFINE d == [c EXCEPT !.rest = <<>>, !.cur = RootEntry]
  <2>1. call' = [call EXCEPT ![p] = d]
    BY <1>6 DEF TreeInv
  <2>2. RootEntry \in Standing(volume) /\ <<>> \in Seq(Seq(STRING))
    BY DEF Standing
  <2>3. /\ Shape(volume, d) /\ d.asked = c.asked /\ d.op = c.op /\ d.failed = c.failed
    <3>1. Shape(volume, c)
      BY Types
    <3> HIDE DEF c
    <3> QED
      BY <1>1, <2>2, <3>1 DEF Shape, Scanning, Listing
  <2>4. Deleted.attr = {}
    BY DEF Deleted, Entry
  <2> HIDE DEF d, c
  <2>5. Excused(volume, d)
    BY <1>1, <1>4, <1>6, <2>3, <2>4 DEF Excused
  <2> QED
    BY <1>1, <2>1, <2>3, <2>5, OneCall DEF CallOK
<1> QED
    BY <1>5, <1>6 DEF NotDir

(* The path is walked.                                                       *)
LEMMA ReadNamedKeeps == ASSUME TreeInv, NEW p \in Callers, ReadNamed(p) PROVE TreeInv'
<1> DEFINE c == call[p]
           d == [c EXCEPT !.at = "done", !.answer = Found(c.cur)]
<1>1. /\ c.at = "path" /\ c.rest = <<>> /\ c.op = "read"
      /\ call' = [call EXCEPT ![p] = d] /\ UNCHANGED <<volume, rootCount>>
    BY DEF ReadNamed, Keep, vars, file, At, End, Found, TreeInv
<1>2. /\ Shape(volume, d) /\ d.at = "done" /\ d.asked = c.asked /\ d.answer = Found(c.cur)
      /\ d.op = c.op /\ d.failed = c.failed
    BY <1>1, Types DEF Shape, Scanning, Listing
<1>3. Excused(volume, c) \/ Walks(volume, rootCount, c)
    BY Types
<1>4. c.asked \in Seq(Seq(STRING))
    BY Types
<1> HIDE DEF d, c
<1>5. Excused(volume, d) \/ Walks(volume, rootCount, d)
  <2>1. CASE Excused(volume, c)
    BY <1>1, <1>2, <2>1, ExcusedKept
  <2>2. CASE Walks(volume, rootCount, c)
    <3>1. c.cur = NamedIn(volume, c.asked)
      BY <1>1, <1>4, <2>2, AtEnd DEF Walks
    <3> QED
      BY <1>1, <1>2, <3>1 DEF Walks, Result, Scanning, Listing
  <2> QED
    BY <1>3, <2>1, <2>2
<1> QED
    BY <1>1, <1>2, <1>5, OneCall DEF CallOK

LEMMA ListNamedKeeps == ASSUME TreeInv, NEW p \in Callers, ListNamed(p) PROVE TreeInv'
<1> DEFINE c == call[p]
<1>1. /\ c.at = "path" /\ c.rest = <<>> /\ c.op = "list" /\ UNCHANGED <<volume, rootCount>>
    BY DEF ListNamed, Keep, vars, file, At
<1>2. Excused(volume, c) \/ Walks(volume, rootCount, c)
    BY Types
<1>3. c.asked \in Seq(Seq(STRING))
    BY Types
<1>4. CASE "dir" \in c.cur.attr
  <2> DEFINE d == [c EXCEPT !.at = "count", !.pos = 0, !.skip = c.place]
  <2>1. call' = [call EXCEPT ![p] = d]
    BY <1>4 DEF ListNamed, TreeInv
  <2>2. /\ Shape(volume, d) /\ d.at = "count" /\ d.rest = c.rest /\ d.asked = c.asked
        /\ d.op = c.op /\ d.failed = c.failed /\ d.cur = c.cur /\ d.pos = 0 /\ d.skip = d.place
    BY <1>1, <1>4, Types DEF Shape, Scanning, Listing
  <2> HIDE DEF d, c
  <2>3. Excused(volume, d) \/ Walks(volume, rootCount, d)
    <3>1. CASE Excused(volume, c)
      BY <1>1, <2>2, <3>1, ExcusedKept
    <3>2. CASE Walks(volume, rootCount, c)
      <4>1. OnWay(volume, d)
        BY <1>1, <2>2, <3>2, SameWay DEF Walks
      <4> QED
        BY <1>1, <2>2, <4>1 DEF Walks, Scanning, Listing
    <3> QED
      BY <1>2, <3>1, <3>2
  <2> QED
    BY <1>1, <2>1, <2>2, <2>3, OneCall DEF CallOK
<1>5. CASE "dir" \notin c.cur.attr
  <2> DEFINE d == [c EXCEPT !.at = "done", !.answer = NoName]
  <2>1. call' = [call EXCEPT ![p] = d]
    BY <1>5 DEF ListNamed, End, TreeInv
  <2>2. /\ Shape(volume, d) /\ d.at = "done" /\ d.answer = NoName /\ d.asked = c.asked
        /\ d.op = c.op /\ d.failed = c.failed
    BY <1>1, Types DEF Shape, Scanning, Listing
  <2> HIDE DEF d, c
  <2>3. Excused(volume, d)
    <3>1. CASE Excused(volume, c)
      BY <1>1, <2>2, <3>1, ExcusedKept
    <3>2. CASE Walks(volume, rootCount, c)
      <4>1. c.cur = NamedIn(volume, c.asked)
        BY <1>1, <1>3, <3>2, AtEnd DEF Walks
      <4> QED
        BY <1>1, <1>5, <2>2, <4>1 DEF Excused
    <3> QED
      BY <1>2, <3>1, <3>2
  <2> QED
    BY <1>1, <2>1, <2>2, <2>3, OneCall DEF CallOK
<1> QED
    BY <1>4, <1>5

-----------------------------------------------------------------------------
LEMMA EntriesAre == ASSUME NEW c PROVE EntriesOf(c) = EntriesIn(volume, c.cur)
    BY DEF EntriesOf, EntriesIn, InRoot

(* A directory counted rightly is walked from its first entry on.            *)
LEMMA CountedCall ==
    ASSUME NEW v \in Volumes, NEW rc, NEW c, NEW d, NEW k \in Nat, Shape(v, c), c.at = "count",
           d = [c EXCEPT !.at = IF c.rest = <<>> THEN "list" ELSE "scan", !.entries = k],
           k = Len(EntriesIn(v, c.cur)), InRoot(c) => rc = k, Walks(v, rc, c)
    PROVE  Walks(v, rc, d)
<1> DEFINE dir == EntriesIn(v, c.cur)
<1>1. /\ d.at = (IF c.rest = <<>> THEN "list" ELSE "scan") /\ d.rest = c.rest /\ d.asked = c.asked
      /\ d.cur = c.cur /\ d.op = c.op /\ d.pos = c.pos /\ d.skip = c.skip /\ d.place = c.place
      /\ d.entries = k
    BY DEF Shape
<1>2. /\ c.pos = 0 /\ OnWay(v, c)
      /\ IF c.rest = <<>> THEN c.op = "list" /\ c.skip = c.place ELSE Head(c.rest) # <<>>
    BY DEF Walks
<1>3. c.cur \in Standing(v) /\ "dir" \in c.cur.attr /\ c.place \in Nat
    BY DEF Shape
<1>4. dir \in Seq(DirEntry)
    BY <1>3, DirTypes
<1> HIDE DEF dir
<1>5. \A r \in Runs(dir) : 0 < r
    BY <1>4, RunShape
<1>6. {r \in Runs(dir) : r <= 0} = {}
    BY <1>4, <1>5, RunShape
<1>7. OnWay(v, d)
    BY <1>1, <1>2, SameWay
<1>8. Sized(v, rc, d)
    BY <1>1 DEF Sized, InRoot
<1>9. d.at = "scan" => Searched(dir, d)
    BY <1>1, <1>2, <1>5 DEF Searched
<1>10. EntriesIn(v, d.cur) = dir
    BY <1>1 DEF dir
<1>11. d.at = "list" => d.rest = <<>> /\ d.op = "list"
    BY <1>1, <1>2
<1>12. d.at = "list" => Listed(dir, d)
  <2> SUFFICES ASSUME d.at = "list" PROVE Listed(dir, d)
    OBVIOUS
  <2>1. Cardinality({r \in Runs(dir) : r <= 0}) = 0
    BY <1>6, FS_EmptySet
  <2>2. d.pos = 0 /\ d.skip = d.place /\ d.place \in Nat
    BY <1>1, <1>2, <1>3, <1>11
  <2>3. Cardinality({r \in Runs(dir) : r <= d.pos}) = 0
    BY <2>1, <2>2
  <2> QED
    BY <1>5, <2>2, <2>3 DEF Listed
<1>13. d.at = "scan" => d.rest # <<>> /\ Head(d.rest) # <<>>
    BY <1>1, <1>2
<1>14. d.at \in {"list", "scan"}
    BY <1>1
<1> QED
    BY <1>7, <1>8, <1>9, <1>10, <1>11, <1>12, <1>13, <1>14 DEF Walks, Scanning, Listing

LEMMA CountClustersKeeps == ASSUME TreeInv, NEW p \in Callers, CountClusters(p) PROVE TreeInv'
<1> DEFINE c == call[p]
           dir == EntriesIn(volume, c.cur)
<1>1. c.at = "count" /\ UNCHANGED volume /\ volume \in Volumes
    BY DEF CountClusters, vars, file, At, TreeInv
<1>2. dir \in Seq(DirEntry)
    BY <1>1, Types, DirTypes DEF Shape
<1>3. PICK k \in Nat, fails \in BOOLEAN :
        /\ Counted(p, k, fails) /\ (~fails => k = Len(dir))
        /\ fails => volume.fat32 \/ ~InRoot(c)
  <2>1. EntriesOf(c) = dir
    BY EntriesAre
  <2>2. Len(dir) \in Nat
    BY <1>2
  <2>3. CASE Counted(p, Len(EntriesOf(call[p])), FALSE)
    BY <2>1, <2>2, <2>3
  <2>4. CASE /\ volume.fat32 \/ ~InRoot(call[p])
             /\ \E k \in {j \in 1 .. Len(EntriesOf(call[p])) : j % volume.perCluster = 0} : Counted(p, k, TRUE)
    <3>1. PICK k \in 1 .. Len(dir) : Counted(p, k, TRUE)
      BY <2>1, <2>4
    <3>2. k \in Nat /\ TRUE \in BOOLEAN
      BY <2>2
    <3>3. volume.fat32 \/ ~InRoot(c)
      BY <2>4
    <3> QED
      BY <3>1, <3>2, <3>3, Zenon
  <2> QED
    BY <2>3, <2>4 DEF CountClusters
<1> DEFINE e(q) == IF q = p
                   THEN [c EXCEPT !.at = IF c.rest = <<>> THEN "list" ELSE "scan",
                                  !.entries = k, !.failed = @ \/ fails]
                   ELSE [call[q] EXCEPT !.failed = @ \/ (fails /\ InRoot(c) /\ InRoot(call[q]))]
<1>4. call' = [q \in Callers |-> e(q)] /\ rootCount' = IF InRoot(c) THEN k ELSE rootCount
    BY <1>3 DEF Counted
<1>5. InRoot(c) => dir = volume.root
    BY DEF InRoot, EntriesIn
<1>6. CallOK(volume, rootCount', e(p))
  <2>1. /\ Shape(volume, e(p)) /\ e(p).asked = c.asked /\ e(p).op = c.op
        /\ e(p).failed = (c.failed \/ fails)
    <3>1. c.failed \in BOOLEAN
      BY Types DEF Shape
    <3> DEFINE f == c.failed \/ fails
    <3>2. f \in BOOLEAN
      BY <3>1
    <3>3. e(p) = [c EXCEPT !.at = IF c.rest = <<>> THEN "list" ELSE "scan",
                           !.entries = k, !.failed = f]
      OBVIOUS
    <3> HIDE DEF f, e
    <3>4. Shape(volume, e(p)) /\ e(p).asked = c.asked /\ e(p).op = c.op /\ e(p).failed = f
      BY <1>1, <3>2, <3>3, Types DEF Shape, Scanning, Listing
    <3> QED
      BY <3>4 DEF f
  <2>2. CASE fails
    BY <2>1, <2>2 DEF CallOK, Excused
  <2>3. CASE ~fails /\ Excused(volume, c)
    BY <1>1, <2>1, <2>3, ExcusedKept DEF CallOK
  <2>4. CASE ~fails /\ Walks(volume, rootCount, c)
    <3> DEFINE d == [c EXCEPT !.at = IF c.rest = <<>> THEN "list" ELSE "scan", !.entries = k]
    <3>1. e(p) = d
      <4>1. c.failed \in BOOLEAN
        BY Types DEF Shape
      <4>2. (c.failed \/ fails) = c.failed
        BY <2>4, <4>1
      <4> QED
        BY <4>2, Types DEF Shape
    <3>2. Shape(volume, c) /\ c.at = "count"
      BY <1>1, Types
    <3>3. Walks(volume, rootCount', c)
      BY <1>1, <2>4 DEF Walks, Scanning, Listing
    <3>4. k = Len(EntriesIn(volume, c.cur)) /\ (InRoot(c) => rootCount' = k)
      BY <1>3, <1>4, <2>4
    <3> HIDE DEF c, e
    <3>5. Walks(volume, rootCount', d)
      BY <1>1, <3>2, <3>3, <3>4, CountedCall
    <3> QED
      BY <2>1, <3>1, <3>5 DEF CallOK
  <2> QED
    BY <2>2, <2>3, <2>4, Types
<1>7. ASSUME NEW q \in Callers \ {p} PROVE CallOK(volume, rootCount', e(q))
  <2> DEFINE r == call[q]
             hit == fails /\ InRoot(c) /\ InRoot(r)
  <2>1. /\ Shape(volume, e(q)) /\ e(q).asked = r.asked /\ e(q).op = r.op
        /\ e(q).failed = (r.failed \/ hit) /\ e(q).at = r.at
    <3>1. r.failed \in BOOLEAN
      BY Types DEF Shape
    <3> DEFINE f == r.failed \/ hit
    <3>2. f \in BOOLEAN
      BY <3>1
    <3>3. e(q) = [r EXCEPT !.failed = f]
      OBVIOUS
    <3>5. Shape(volume, r)
      BY Types
    <3> HIDE DEF f, e, hit, r
    <3>4. /\ Shape(volume, e(q)) /\ e(q).asked = r.asked /\ e(q).op = r.op /\ e(q).failed = f
          /\ e(q).at = r.at
      BY <3>2, <3>3, <3>5 DEF Shape, Scanning, Listing
    <3> QED
      BY <3>4 DEF f
  <2>2. CASE hit
    BY <2>1, <2>2 DEF CallOK, Excused
  <2>3. CASE ~hit
    <3>1. e(q) = r
      <4>1. r.failed \in BOOLEAN
        BY Types DEF Shape
      <4>2. (r.failed \/ hit) = r.failed
        BY <2>3, <4>1
      <4> QED
        BY <4>2, Types DEF Shape
    <3>2. CallOK(volume, rootCount, r)
      BY DEF TreeInv
    <3>3. Sized(volume, rootCount, r) => Sized(volume, rootCount', r)
      <4>1. InRoot(r) => EntriesIn(volume, r.cur) = volume.root
        BY DEF InRoot, EntriesIn
      <4>2. InRoot(r) /\ InRoot(c) => rootCount' = Len(volume.root)
        BY <1>3, <1>4, <1>5, <2>3
      <4> QED
        BY <1>4, <4>1, <4>2 DEF Sized
    <3> HIDE DEF r, e
    <3>4. CallOK(volume, rootCount', r)
      BY <3>2, <3>3 DEF CallOK, Walks
    <3> QED
      BY <3>1, <3>4
  <2> QED
    BY <2>2, <2>3
<1>8. ~volume.fat32 => rootCount' = Len(volume.root)
    BY <1>3, <1>4, <1>5 DEF TreeInv
<1>9. DOMAIN call' = Callers /\ \A q \in Callers : CallOK(volume', rootCount', call'[q])
  <2> HIDE DEF e
  <2> QED
    BY <1>1, <1>4, <1>6, <1>7
<1> QED
    BY <1>1, <1>8, <1>9 DEF TreeInv

-----------------------------------------------------------------------------
(* The search of a directory: entries that are passed begin no name wanted.  *)
LEMMA ScanOn ==
    ASSUME NEW dir \in Seq(DirEntry), NEW c, NEW d, Searched(dir, c), c.at = "scan", c.pos \in Nat,
           Head(c.rest) \in Seq(STRING), Head(c.rest) # <<>>,
           ~Matches(dir[c.pos + 1], Head(c.rest), Len(Head(c.rest))),
           d.at = "scan" /\ d.rest = c.rest /\ d.pos = c.pos + 1
    PROVE  Searched(dir, d)
<1> DEFINE name == Head(c.rest)
           o == Len(name)
<1>1. ASSUME NEW k \in Runs(dir), NameAt(dir, k) = name PROVE c.pos + 1 < k
  <2>1. c.pos < k /\ k \in Nat
    BY <1>1, RunShape DEF Searched
  <2>2. o \in Nat \ {0}
    OBVIOUS
  <2>3. \A m \in 1 .. o : Matches(dir[k + o - m], name, m)
    BY <1>1, RunOfName
  <2>4. Matches(dir[k], name, o)
    <3>1. o \in 1 .. o /\ k + o - o = k
      BY <2>1, <2>2
    <3> HIDE DEF o, name
    <3>2. Matches(dir[k + o - o], name, o)
      BY <2>3, <3>1
    <3> QED
      BY <3>1, <3>2
  <2>5. k # c.pos + 1
    BY <2>4
  <2> QED
    BY <2>1, <2>5
<1> QED
    BY <1>1 DEF Searched

LEMMA ScanHit ==
    ASSUME NEW dir \in Seq(DirEntry), NEW c, NEW d, Searched(dir, c), c.pos \in Nat, c.pos < Len(dir),
           Head(c.rest) \in Seq(STRING), Head(c.rest) # <<>>,
           Matches(dir[c.pos + 1], Head(c.rest), Len(Head(c.rest))),
           d.at = IF Len(Head(c.rest)) = 1 THEN "std" ELSE "rest",
           d.rest = c.rest /\ d.pos = c.pos,
           d.len = Len(Head(c.rest)) /\ d.i = Len(Head(c.rest)) - 1
    PROVE  Searched(dir, d)
<1> DEFINE name == Head(c.rest)
           o == Len(name)
<1>1. o \in Nat \ {0}
    OBVIOUS
<1>2. \A k \in Runs(dir) : NameAt(dir, k) = Head(d.rest) => d.pos < k
    BY DEF Searched
<1>3. Head(d.rest) = name /\ d.len = o /\ d.i = o - 1 /\ d.pos = c.pos /\ c.pos + 1 \in DOMAIN dir
    OBVIOUS
<1>4. Matches(dir[c.pos + 1], name, o)
    OBVIOUS
<1>5. d.at = IF o = 1 THEN "std" ELSE "rest"
    OBVIOUS
<1> HIDE DEF name, o
<1>6. d.i \in 0 .. d.len - 1 /\ (d.at = "std" <=> d.i = 0) /\ d.len = Len(Head(d.rest))
    BY <1>1, <1>3, <1>5 DEF o
<1>7. ASSUME NEW m \in d.i + 1 .. d.len
      PROVE  d.pos + d.len - m + 1 \in DOMAIN dir /\ Matches(dir[d.pos + d.len - m + 1], Head(d.rest), m)
  <2>1. m = o /\ d.pos + d.len - m + 1 = c.pos + 1
    BY <1>1, <1>3
  <2> QED
    BY <1>3, <1>4, <2>1
<1> QED
    BY <1>2, <1>6, <1>7 DEF Searched

LEMMA RestOn ==
    ASSUME NEW dir \in Seq(DirEntry), NEW c, NEW d, Searched(dir, c), c.at = "rest", c.pos \in Nat,
           c.len \in Nat, c.pos + c.len - c.i < Len(dir),
           Matches(dir[c.pos + c.len - c.i + 1], Head(c.rest), c.i),
           d.at = IF c.i = 1 THEN "std" ELSE "rest",
           d.rest = c.rest /\ d.pos = c.pos /\ d.len = c.len /\ d.i = c.i - 1
    PROVE  Searched(dir, d)
<1>1. c.i \in 1 .. c.len - 1 /\ c.len = Len(Head(c.rest))
    BY DEF Searched
<1>2. d.i \in 0 .. d.len - 1 /\ (d.at = "std" <=> d.i = 0) /\ d.len = Len(Head(d.rest))
    BY <1>1
<1>3. ASSUME NEW m \in d.i + 1 .. d.len
      PROVE  d.pos + d.len - m + 1 \in DOMAIN dir /\ Matches(dir[d.pos + d.len - m + 1], Head(d.rest), m)
  <2>0. d.pos = c.pos /\ d.len = c.len
    OBVIOUS
  <2>1. CASE m = c.i
    <3>1. d.pos + d.len - m + 1 = c.pos + c.len - c.i + 1
      BY <2>0, <2>1
    <3>2. c.pos + c.len - c.i + 1 \in DOMAIN dir
      BY <1>1
    <3> QED
      BY <2>1, <3>1, <3>2
  <2>2. CASE m # c.i
    <3>1. m \in c.i + 1 .. c.len
      BY <1>1, <2>2
    <3> QED
      BY <3>1 DEF Searched
  <2> QED
    BY <2>1, <2>2
<1>4. \A k \in Runs(dir) : NameAt(dir, k) = Head(d.rest) => d.pos < k
    BY DEF Searched
<1> QED
    BY <1>2, <1>3, <1>4 DEF Searched

LEMMA RestOff ==
    ASSUME NEW dir \in Seq(DirEntry), NEW c, NEW d, Searched(dir, c), c.at = "rest", c.pos \in Nat,
           c.len \in Nat, Head(c.rest) \in Seq(STRING),
           ~Matches(dir[c.pos + c.len - c.i + 1], Head(c.rest), c.i),
           d.at = "scan" /\ d.rest = c.rest /\ d.pos = c.pos + c.len - c.i
    PROVE  Searched(dir, d)
<1> DEFINE name == Head(c.rest)
<1>1. c.i \in 1 .. c.len - 1 /\ c.len = Len(name)
    BY DEF Searched
<1>2. ASSUME NEW k \in Runs(dir), NameAt(dir, k) = name, k <= c.pos + c.len - c.i PROVE FALSE
  <2>1. c.pos < k /\ k \in Nat
    BY <1>2, RunShape DEF Searched
  <2>2. CASE k = c.pos + 1
    <3>1. \A m \in 1 .. Len(name) : Matches(dir[k + Len(name) - m], name, m)
      BY <1>2, RunOfName
    <3>2. c.i \in 1 .. Len(name) /\ k + Len(name) - c.i = c.pos + c.len - c.i + 1
      <4>1. c.len \in Int /\ c.i \in Int /\ c.pos \in Int
        BY <1>1
      <4> QED
        BY <1>1, <2>2, <4>1, SMTT(30)
    <3> QED
      BY <3>1, <3>2
  <2>3. CASE k # c.pos + 1
    <3> DEFINE m == c.pos + c.len - k + 1
    <3>1. c.len \in Int /\ c.i \in Int /\ c.pos \in Int
      BY <1>1
    <3>2. m \in c.i + 1 .. c.len /\ k = c.pos + c.len - m + 1 /\ m # Len(name)
      <4>1. k \in Int /\ k > c.pos + 1 /\ k <= c.pos + c.len - c.i
        BY <1>2, <2>1, <2>3, <3>1
      <4>2. c.pos + (c.len - k) + 1 \in c.i + 1 .. c.len - 1
        <5> DEFINE P == c.pos
                   L == c.len
                   I == c.i
        <5>1. P \in Int /\ L \in Int /\ I \in Int /\ k > P + 1 /\ k <= P + (L - I) /\ k \in Int
          BY <3>1, <4>1
        <5> HIDE DEF P, L, I
        <5>2. P + (L - k) + 1 <= L - 1 /\ P + (L - k) + 1 >= I + 1
          BY <5>1
        <5>3. P + (L - k) + 1 \in I + 1 .. L - 1
          BY <5>1, <5>2
        <5> QED
          BY <5>3 DEF P, L, I
      <4>3. m \in c.i + 1 .. c.len /\ m # c.len
        BY <3>1, <4>2
      <4>4. k = c.pos + c.len - m + 1
        BY <3>1, <4>1
      <4> QED
        BY <1>1, <4>3, <4>4
    <3> HIDE DEF m
    <3>3. Matches(dir[k], name, m)
      BY <3>2 DEF Searched
    <3>4. dir[k].last = (m = Len(name))
      BY <3>3 DEF Matches
    <3>5. dir[k].last
      BY DEF Runs, RunAt
    <3> QED
      BY <3>2, <3>4, <3>5
  <2> QED
    BY <2>2, <2>3
<1>3. \A k \in Runs(dir) : k \in Nat
    BY RunShape
<1>4. c.pos + c.len - c.i \in Int
    BY <1>1
<1> QED
    BY <1>2, <1>3, <1>4 DEF Searched

LEMMA StdOff ==
    ASSUME NEW dir \in Seq(DirEntry), NEW c, NEW d, Searched(dir, c), c.at = "std", c.pos \in Nat,
           c.len \in Nat, Head(c.rest) \in Seq(STRING), dir[c.pos + c.len + 1].kind # "std",
           d.at = "scan" /\ d.rest = c.rest /\ d.pos = c.pos + 1
    PROVE  Searched(dir, d)
<1>1. c.len = Len(Head(c.rest))
    BY DEF Searched
<1>2. ASSUME NEW k \in Runs(dir), NameAt(dir, k) = Head(c.rest) PROVE c.pos + 1 < k
  <2>1. c.pos < k /\ k \in Nat
    BY <1>2, RunShape DEF Searched
  <2>2. dir[k + Len(Head(c.rest))].kind = "std"
    BY <1>2, RunOfName
  <2>3. k = c.pos + 1 => k + Len(Head(c.rest)) = c.pos + c.len + 1
    BY <1>1
  <2> QED
    BY <2>1, <2>2, <2>3
<1> QED
    BY <1>2 DEF Searched

(* The entry found is the first the name wanted stands before.               *)
LEMMA StdOn ==
    ASSUME NEW v \in Volumes, NEW c, c.cur \in Standing(v), "dir" \in c.cur.attr,
           Searched(EntriesIn(v, c.cur), c), c.at = "std", c.pos \in Nat, c.len \in Nat,
           c.pos + c.len < Len(EntriesIn(v, c.cur)),
           EntriesIn(v, c.cur)[c.pos + c.len + 1].kind = "std",
           c.asked \in Seq(Seq(STRING)), OnWay(v, c), c.rest # <<>>, Head(c.rest) # <<>>,
           ~OrphanIn(v, c.asked)
    PROVE  FindIn(v, c.cur, Head(c.rest)) = EntriesIn(v, c.cur)[c.pos + c.len + 1]
<1> DEFINE dir == EntriesIn(v, c.cur)
           name == Head(c.rest)
           k == c.pos + 1
           hits == Hits(dir, name)
<1>1. dir \in Seq(DirEntry) /\ dir \in {v.root} \cup {v.dirs[e] : e \in DOMAIN v.dirs}
    BY DirTypes
<1>2. PICK j \in 0 .. Len(c.asked) - 1 : name = c.asked[j + 1] /\ name \in Seq(STRING)
    BY NextName
<1>3. j + 1 \in DOMAIN c.asked
    BY <1>2
<1>4. c.len = Len(name) /\ \A m \in 1 .. c.len : Matches(dir[c.pos + c.len - m + 1], name, m)
    BY DEF Searched
<1>5. \A r \in Runs(dir) : NameAt(dir, r) = name => c.pos < r
    BY DEF Searched
<1>6. name # <<>> /\ c.pos + c.len < Len(dir) /\ dir[c.pos + c.len + 1].kind = "std"
    OBVIOUS
<1>7. ~OrphanIn(v, c.asked)
    OBVIOUS
<1>8. FindIn(v, c.cur, name) =
        IF "dir" \notin c.cur.attr \/ hits = {} THEN Deleted
        ELSE StdAt(dir, CHOOSE r \in hits : \A s \in hits : r <= s)
    BY DEF FindIn
<1>0. c.pos \in Int /\ c.len \in Int /\ c.pos >= 0 /\ c.len >= 0
    OBVIOUS
<1> HIDE DEF dir, name
<1>9. k \in Nat \ {0} /\ k + Len(name) = c.pos + c.len + 1 /\ k + Len(name) \in DOMAIN dir
  <2> DEFINE P == c.pos
             L == c.len
  <2>1. P + L + 1 \in 1 .. Len(dir) /\ DOMAIN dir = 1 .. Len(dir)
    BY <1>0, <1>1, <1>6
  <2>2. k = P + 1 /\ Len(name) = L /\ P \in Int /\ L \in Int /\ P >= 0
    BY <1>0, <1>4
  <2> HIDE DEF k, P, L
  <2>3. k \in Nat \ {0} /\ k + Len(name) = P + L + 1
    BY <2>2
  <2>4. k + Len(name) \in DOMAIN dir
    BY <2>1, <2>3
  <2> QED
    BY <2>3, <2>4 DEF P, L
<1>10. \A m \in 1 .. Len(name) : Matches(dir[k + Len(name) - m], name, m)
  <2> TAKE m \in 1 .. Len(name)
  <2>1. k + Len(name) - m = c.pos + c.len - m + 1
    BY <1>0, <1>4
  <2> QED
    BY <1>4, <2>1
<1>11. k \in Runs(dir) /\ NameAt(dir, k) = name /\ StdAt(dir, k) = dir[k + Len(name)]
  <2> HIDE DEF k
  <2> QED
    BY <1>1, <1>2, <1>6, <1>9, <1>10, MatchesRun
<1>12. Sums(dir, k)
    BY <1>1, <1>2, <1>3, <1>7, <1>11 DEF OrphanIn
<1>13. k \in hits /\ \A r \in hits : r \in Nat /\ k <= r
    BY <1>1, <1>5, <1>11, <1>12, RunShape DEF Hits
<1> HIDE DEF hits, k
<1>14. (CHOOSE r \in hits : \A s \in hits : r <= s) = k
  <2>1. \A r \in hits : (\A s \in hits : r <= s) <=> r = k
    BY <1>9, <1>13
  <2> QED
    BY <1>13, <2>1
<1> QED
    BY <1>8, <1>9, <1>11, <1>13, <1>14 DEF dir, name

-----------------------------------------------------------------------------
(* What a call that searches or lists a directory reads there.               *)
LEMMA Reads ==
    ASSUME TreeInv, NEW p \in Callers, call[p].at \in Scanning \cup Listing
    PROVE  /\ EntriesIn(volume, call[p].cur) \in Seq(DirEntry)
           /\ \A k : Fetched(p, k) = EntriesIn(volume, call[p].cur)[k + 1]
           /\ \A k : Readable(p, k) <=> k < Len(EntriesIn(volume, call[p].cur))
           /\ Walks(volume, rootCount, call[p]) =>
                DirCount(p) = Len(EntriesIn(volume, call[p].cur))
<1>1. call[p].cur \in Standing(volume) /\ "dir" \in call[p].cur.attr /\ volume \in Volumes
    BY Types DEF Shape
<1>2. EntriesIn(volume, call[p].cur) \in Seq(DirEntry)
    BY <1>1, DirTypes
<1>3. EntriesOf(call[p]) = EntriesIn(volume, call[p].cur)
    BY EntriesAre
<1>4. Walks(volume, rootCount, call[p]) => Sized(volume, rootCount, call[p])
    BY DEF Walks, Scanning, Listing
<1> QED
    BY <1>2, <1>3, <1>4 DEF Fetched, Readable, DirCount, Sized

(* A call that searches goes on if what it has found so far still holds.     *)
LEMMA GoOn ==
    ASSUME TreeInv, NEW p \in Callers, NEW d, call[p].at \in Scanning,
           call' = [call EXCEPT ![p] = d], UNCHANGED <<volume, rootCount>>, Shape(volume, d),
           d.at \in Scanning, d.asked = call[p].asked, d.rest = call[p].rest, d.cur = call[p].cur,
           d.op = call[p].op, d.failed = call[p].failed, d.entries = call[p].entries,
           Walks(volume, rootCount, call[p]) => Searched(EntriesIn(volume, d.cur), d)
    PROVE  TreeInv'
<1> DEFINE c == call[p]
<1>1. Excused(volume, c) \/ Walks(volume, rootCount, c)
    BY Types
<1>2. CASE Excused(volume, c)
  <2>1. Excused(volume, d)
    BY <1>2, ExcusedKept DEF Scanning
  <2> QED
    BY <2>1, OneCall DEF CallOK
<1>3. CASE Walks(volume, rootCount, c)
  <2>1. /\ OnWay(volume, c) /\ Sized(volume, rootCount, c) /\ c.rest # <<>> /\ Head(c.rest) # <<>>
    BY <1>3 DEF Walks, Scanning
  <2>2. OnWay(volume, d)
    BY <2>1, SameWay
  <2>3. Sized(volume, rootCount, d)
    BY <2>1 DEF Sized, InRoot
  <2>4. Walks(volume, rootCount, d)
    BY <1>3, <2>1, <2>2, <2>3 DEF Walks, Scanning, Listing
  <2> QED
    BY <2>4, OneCall DEF CallOK
<1> QED
    BY <1>1, <1>2, <1>3

LEMMA SearchFacts ==
    ASSUME TreeInv, NEW p \in Callers, call[p].at \in Scanning, Walks(volume, rootCount, call[p])
    PROVE  /\ Head(call[p].rest) \in Seq(STRING) /\ Head(call[p].rest) # <<>> /\ call[p].rest # <<>>
           /\ Searched(EntriesIn(volume, call[p].cur), call[p]) /\ OnWay(volume, call[p])
<1>1. /\ OnWay(volume, call[p]) /\ call[p].rest # <<>> /\ Head(call[p].rest) # <<>>
      /\ Searched(EntriesIn(volume, call[p].cur), call[p])
    BY DEF Walks, Scanning
<1>2. call[p].asked \in Seq(Seq(STRING))
    BY Types
<1> QED
    BY <1>1, <1>2, NextName

LEMMA BadReadKeeps == ASSUME TreeInv, NEW p \in Callers, BadRead(p) PROVE TreeInv'
<1> DEFINE c == call[p]
           d == [c EXCEPT !.at = "done", !.failed = TRUE]
<1>1. call' = [call EXCEPT ![p] = d] /\ UNCHANGED <<volume, rootCount>>
    BY DEF BadRead, vars, file, TreeInv
<1>2. Shape(volume, d) /\ d.failed = TRUE
    BY Types DEF Shape, Scanning, Listing
<1> HIDE DEF d
<1> QED
    BY <1>1, <1>2, OneCall DEF CallOK, Excused

LEMMA NotFoundKeeps == ASSUME TreeInv, NEW p \in Callers, NotFound(p) PROVE TreeInv'
<1> DEFINE c == call[p]
           d == [c EXCEPT !.at = "done", !.answer = NoName]
           dir == EntriesIn(volume, c.cur)
<1>1. c.at = "scan" /\ c.pos >= DirCount(p) /\ UNCHANGED <<volume, rootCount>>
    BY DEF NotFound, Keep, vars, file, At
<1>2. call' = [call EXCEPT ![p] = d]
    BY DEF NotFound, End, TreeInv
<1>3. /\ Shape(volume, d) /\ d.at = "done" /\ d.answer = NoName /\ d.asked = c.asked
      /\ d.op = c.op /\ d.failed = c.failed
    BY <1>1, Types DEF Shape, Scanning, Listing
<1>4. Excused(volume, c) \/ Walks(volume, rootCount, c)
    BY Types
<1>5. ASSUME Walks(volume, rootCount, c) PROVE NamedIn(volume, c.asked) = Deleted
  <2>1. c.pos >= Len(dir) /\ dir \in Seq(DirEntry)
    BY <1>1, <1>5, Reads DEF Scanning
  <2>2. /\ Head(c.rest) # <<>> /\ c.rest # <<>> /\ Searched(dir, c) /\ OnWay(volume, c)
    BY <1>1, <1>5, SearchFacts DEF Scanning
  <2>3. c.pos \in Nat /\ c.asked \in Seq(Seq(STRING))
    BY Types
  <2> HIDE DEF c
  <2>4. \A k \in Runs(dir) : NameAt(dir, k) # Head(c.rest)
    <3>1. \A k \in Runs(dir) : k \in 1 .. Len(dir) /\ Len(dir) \in Nat
      BY <2>1, RunShape
    <3>2. \A k \in Runs(dir) : NameAt(dir, k) = Head(c.rest) => c.pos < k
      BY <2>2 DEF Searched
    <3> QED
      BY <2>1, <2>3, <3>1, <3>2
  <2>5. Hits(dir, Head(c.rest)) = {}
    BY <2>4 DEF Hits
  <2> QED
    BY <2>2, <2>3, <2>5, MissedName
<1>6. c.op \in {"read", "list"}
    BY Types
<1> HIDE DEF d, c
<1>7. Excused(volume, d) \/ Walks(volume, rootCount, d)
    BY <1>1, <1>3, <1>4, <1>5, <1>6, ExcusedKept, MissedResult
<1> QED
    BY <1>1, <1>2, <1>3, <1>7, OneCall DEF CallOK

LEMMA ScanEntryKeeps == ASSUME TreeInv, NEW p \in Callers, ScanEntry(p) PROVE TreeInv'
<1> DEFINE c == call[p]
           dir == EntriesIn(volume, c.cur)
           name == Head(c.rest)
<1>1. c.at = "scan" /\ UNCHANGED <<volume, rootCount>> /\ Readable(p, c.pos)
    BY DEF ScanEntry, Keep, vars, file, At
<1>2. c.pos < Len(dir) /\ dir \in Seq(DirEntry) /\ Fetched(p, c.pos) = dir[c.pos + 1] /\ c.pos \in Nat
    BY <1>1, Reads, Types DEF Scanning
<1>0. Shape(volume, c) /\ c.at \in Scanning
    BY <1>1, Types DEF Scanning
<1>3. CASE Matches(dir[c.pos + 1], name, Len(name))
  <2> DEFINE d == [c EXCEPT !.len = Len(name), !.i = Len(name) - 1,
                            !.at = IF Len(name) = 1 THEN "std" ELSE "rest"]
  <2>1. call' = [call EXCEPT ![p] = d]
    BY <1>2, <1>3 DEF ScanEntry, Want, TreeInv
  <2>2. Len(name) \in Nat
    <3>1. c.rest # <<>> /\ c.rest \in Seq(Seq(STRING))
      BY <1>1, Types DEF Shape, Scanning
    <3>2. name \in Seq(STRING)
      BY <3>1, HeadTailProperties
    <3> QED
      BY <3>2
  <2>3. /\ Shape(volume, d) /\ d.asked = c.asked /\ d.rest = c.rest /\ d.cur = c.cur
        /\ d.op = c.op /\ d.failed = c.failed /\ d.pos = c.pos /\ d.len = Len(name) /\ d.entries = c.entries
        /\ d.i = Len(name) - 1 /\ d.at = IF Len(name) = 1 THEN "std" ELSE "rest"
    <3> DEFINE k == Len(name)
               i == k - 1
               at == IF k = 1 THEN "std" ELSE "rest"
    <3>1. d = [c EXCEPT !.len = k, !.i = i, !.at = at]
      OBVIOUS
    <3>2. k \in Nat /\ i \in Int /\ i <= k /\ at \in {"std", "rest"}
      BY <2>2, SMTT(30)
    <3> HIDE DEF c, dir, name, k, i, at, d
    <3>3. /\ Shape(volume, d) /\ d.asked = c.asked /\ d.rest = c.rest /\ d.cur = c.cur
          /\ d.op = c.op /\ d.failed = c.failed /\ d.pos = c.pos /\ d.len = k /\ d.entries = c.entries
          /\ d.i = i /\ d.at = at
      BY <1>0, <1>1, <3>1, <3>2 DEF Shape, Scanning, Listing
    <3> QED
      BY <3>3 DEF k, i, at
  <2> HIDE DEF d
  <2>4. ASSUME Walks(volume, rootCount, c) PROVE Searched(dir, d)
    <3>1. name \in Seq(STRING) /\ name # <<>> /\ Searched(dir, c)
      BY <1>1, <2>4, SearchFacts DEF Scanning
    <3> HIDE DEF c, dir
    <3> QED
      BY <1>2, <1>3, <2>3, <3>1, ScanHit
  <2>5. d.at \in Scanning /\ EntriesIn(volume, d.cur) = dir
    BY <2>3 DEF Scanning
  <2>6. Walks(volume, rootCount, c) => Searched(EntriesIn(volume, d.cur), d)
    BY <2>4, <2>5
  <2> QED
    BY <1>0, <1>1, <2>1, <2>3, <2>5, <2>6, GoOn
<1>4. CASE ~Matches(dir[c.pos + 1], name, Len(name))
  <2> DEFINE d == [c EXCEPT !.pos = @ + 1]
  <2>1. call' = [call EXCEPT ![p] = d]
    BY <1>2, <1>4 DEF ScanEntry, Want
  <2>2. /\ Shape(volume, d) /\ d.asked = c.asked /\ d.rest = c.rest /\ d.cur = c.cur
        /\ d.op = c.op /\ d.failed = c.failed /\ d.pos = c.pos + 1 /\ d.at = "scan" /\ d.entries = c.entries
    <3> HIDE DEF c, dir, name
    <3>1. c.pos + 1 \in Nat
      BY <1>2
    <3> DEFINE k == c.pos + 1
    <3>2. d = [c EXCEPT !.pos = k] /\ k \in Nat
      BY <3>1
    <3> HIDE DEF k, d
    <3>3. /\ Shape(volume, d) /\ d.asked = c.asked /\ d.rest = c.rest /\ d.cur = c.cur
          /\ d.op = c.op /\ d.failed = c.failed /\ d.pos = k /\ d.at = "scan" /\ d.entries = c.entries
      BY <1>0, <1>1, <3>2 DEF Shape, Scanning, Listing
    <3> QED
      BY <3>3 DEF k
  <2> HIDE DEF d
  <2>3. ASSUME Walks(volume, rootCount, c) PROVE Searched(dir, d)
    <3>1. name \in Seq(STRING) /\ name # <<>> /\ Searched(dir, c)
      BY <1>1, <2>3, SearchFacts DEF Scanning
    <3> HIDE DEF c, dir
    <3> QED
      BY <1>1, <1>2, <1>4, <2>2, <3>1, ScanOn
  <2>4. d.at \in Scanning /\ EntriesIn(volume, d.cur) = dir
    BY <2>2 DEF Scanning
  <2>5. Walks(volume, rootCount, c) => Searched(EntriesIn(volume, d.cur), d)
    BY <2>3, <2>4
  <2> QED
    BY <1>0, <1>1, <2>1, <2>2, <2>4, <2>5, GoOn
<1> QED
    BY <1>3, <1>4

LEMMA NextReads ==
    ASSUME NEW p
    PROVE  /\ call[p].at \in {"rest", "listrest"} => NextRead(p) = call[p].pos + call[p].len - call[p].i
           /\ call[p].at \in {"std", "liststd"} => NextRead(p) = call[p].pos + call[p].len
    BY DEF NextRead

LEMMA RestEntryKeeps == ASSUME TreeInv, NEW p \in Callers, RestEntry(p) PROVE TreeInv'
<1> DEFINE c == call[p]
           dir == EntriesIn(volume, c.cur)
           i == c.i - 1
           at == IF c.i = 1 THEN "std" ELSE "rest"
           k == c.pos + c.len - c.i
           d == [c EXCEPT !.i = i, !.at = at]
<1>1. c.at = "rest" /\ UNCHANGED <<volume, rootCount>> /\ Readable(p, NextRead(p))
      /\ Matches(Fetched(p, NextRead(p)), Head(c.rest), c.i)
    BY DEF RestEntry, RestMatches, Keep, vars, file, At, Want
<1>2. call' = [call EXCEPT ![p] = d]
    BY DEF RestEntry, TreeInv
<1>3. NextRead(p) = k
    BY <1>1, NextReads
<1>4. k < Len(dir) /\ dir \in Seq(DirEntry) /\ Matches(dir[k + 1], Head(c.rest), c.i)
    BY <1>1, <1>3, Reads DEF Scanning
<1>5. Shape(volume, c) /\ c.at \in Scanning /\ c.pos \in Nat /\ c.len \in Nat /\ c.i \in Int
    BY <1>1, Types DEF Scanning
<1>6. i \in Int /\ i <= c.len /\ at \in {"std", "rest"}
    BY <1>5 DEF Shape
<1>7. /\ Shape(volume, d) /\ d.asked = c.asked /\ d.rest = c.rest /\ d.cur = c.cur
      /\ d.op = c.op /\ d.failed = c.failed /\ d.pos = c.pos /\ d.len = c.len /\ d.entries = c.entries
      /\ d.i = i /\ d.at = at
  <2> HIDE DEF c, i, at
  <2> QED
    BY <1>1, <1>5, <1>6 DEF Shape, Scanning, Listing
<1> HIDE DEF d
<1>8. ASSUME Walks(volume, rootCount, c) PROVE Searched(dir, d)
  <2>1. Searched(dir, c)
    BY <1>5, <1>8, SearchFacts
  <2> HIDE DEF c, dir
  <2> QED
    BY <1>1, <1>4, <1>5, <1>7, <2>1, RestOn
<1>9. d.at \in Scanning /\ EntriesIn(volume, d.cur) = dir
    BY <1>6, <1>7 DEF Scanning
<1>10. Walks(volume, rootCount, c) => Searched(EntriesIn(volume, d.cur), d)
    BY <1>8, <1>9
<1> QED
    BY <1>1, <1>2, <1>5, <1>7, <1>9, <1>10, GoOn

LEMMA RestBrokenKeeps == ASSUME TreeInv, NEW p \in Callers, RestBroken(p) PROVE TreeInv'
<1> DEFINE c == call[p]
           dir == EntriesIn(volume, c.cur)
           k == c.pos + c.len - c.i
           d == [c EXCEPT !.pos = k, !.at = "scan"]
<1>1. c.at = "rest" /\ UNCHANGED <<volume, rootCount>> /\ Readable(p, NextRead(p))
      /\ ~Matches(Fetched(p, NextRead(p)), Head(c.rest), c.i)
    BY DEF RestBroken, RestDiffers, RestMatches, Keep, vars, file, At, Want
<1>2. NextRead(p) = k
    BY <1>1, NextReads
<1>3. call' = [call EXCEPT ![p] = d]
    BY <1>2 DEF RestBroken, TreeInv
<1>4. dir \in Seq(DirEntry) /\ ~Matches(dir[k + 1], Head(c.rest), c.i)
    BY <1>1, <1>2, Reads DEF Scanning
<1>5. Shape(volume, c) /\ c.at \in Scanning /\ c.pos \in Nat /\ c.len \in Nat /\ c.i \in Int
    BY <1>1, Types DEF Scanning
<1>6. k \in Nat
  <2>1. c.i <= c.len
    BY <1>5 DEF Shape
  <2> DEFINE P == c.pos
             I == c.i
             L == c.len
  <2>2. P \in Nat /\ L \in Nat /\ I \in Int /\ I <= L
    BY <1>5, <2>1
  <2> HIDE DEF P, I, L
  <2>3. P + L - I \in Nat
    BY <2>2
  <2> QED
    BY <2>3 DEF P, I, L
<1>7. /\ Shape(volume, d) /\ d.asked = c.asked /\ d.rest = c.rest /\ d.cur = c.cur
      /\ d.op = c.op /\ d.failed = c.failed /\ d.pos = k /\ d.entries = c.entries /\ d.at = "scan"
  <2> HIDE DEF c, k
  <2> QED
    BY <1>1, <1>5, <1>6 DEF Shape, Scanning, Listing
<1> HIDE DEF d
<1>8. ASSUME Walks(volume, rootCount, c) PROVE Searched(dir, d)
  <2>1. Searched(dir, c) /\ Head(c.rest) \in Seq(STRING)
    BY <1>5, <1>8, SearchFacts
  <2> HIDE DEF c, dir
  <2> QED
    BY <1>1, <1>4, <1>5, <1>7, <2>1, RestOff
<1>9. d.at \in Scanning /\ EntriesIn(volume, d.cur) = dir
    BY <1>6, <1>7 DEF Scanning
<1>10. Walks(volume, rootCount, c) => Searched(EntriesIn(volume, d.cur), d)
    BY <1>8, <1>9
<1> QED
    BY <1>1, <1>3, <1>5, <1>7, <1>9, <1>10, GoOn

LEMMA StdEntryKeeps == ASSUME TreeInv, NEW p \in Callers, StdEntry(p) PROVE TreeInv'
<1> DEFINE c == call[p]
           dir == EntriesIn(volume, c.cur)
           e == dir[c.pos + c.len + 1]
<1>1. c.at = "std" /\ UNCHANGED <<volume, rootCount>> /\ Readable(p, NextRead(p))
    BY DEF StdEntry, Keep, vars, file, At
<1>2. NextRead(p) = c.pos + c.len
    BY <1>1, NextReads
<1>3. dir \in Seq(DirEntry) /\ c.pos + c.len < Len(dir) /\ Fetched(p, NextRead(p)) = e
    BY <1>1, <1>2, Reads DEF Scanning
<1>4. Shape(volume, c) /\ c.at \in Scanning /\ c.pos \in Nat /\ c.len \in Nat
    BY <1>1, Types DEF Scanning
<1>5. /\ c.rest # <<>> /\ c.rest \in Seq(Seq(STRING)) /\ c.cur \in Standing(volume)
      /\ "dir" \in c.cur.attr /\ volume \in Volumes /\ c.asked \in Seq(Seq(STRING))
    BY <1>4, Types DEF Shape
<1>6. Excused(volume, c) \/ Walks(volume, rootCount, c)
    BY Types
<1>7. CASE e.kind = "std"
  <2> DEFINE d == [c EXCEPT !.cur = e, !.rest = Tail(@), !.at = "path"]
  <2>1. call' = [call EXCEPT ![p] = d]
    BY <1>3, <1>7 DEF StdEntry
  <2>2. e \in Standing(volume)
    <3>1. c.pos + c.len + 1 \in DOMAIN dir
      BY <1>3, <1>4
    <3> QED
      BY <1>5, <1>7, <3>1, DirTypes
  <2>3. Tail(c.rest) \in Seq(Seq(STRING))
    BY <1>5, HeadTailProperties
  <2>4. /\ Shape(volume, d) /\ d.asked = c.asked /\ d.rest = Tail(c.rest) /\ d.cur = e
        /\ d.op = c.op /\ d.failed = c.failed /\ d.at = "path"
    <3> HIDE DEF c, e
    <3> QED
      BY <1>4, <2>2, <2>3 DEF Shape, Scanning, Listing
  <2> HIDE DEF d
  <2>5. CASE Excused(volume, c)
    <3>1. Excused(volume, d)
      BY <1>1, <2>4, <2>5, ExcusedKept
    <3> QED
      BY <1>1, <2>1, <2>4, <3>1, OneCall DEF CallOK
  <2>6. CASE Walks(volume, rootCount, c) /\ ~Excused(volume, c)
    <3>1. Searched(dir, c) /\ OnWay(volume, c) /\ Head(c.rest) # <<>>
      BY <1>4, <2>6, SearchFacts
    <3>2. ~OrphanIn(volume, c.asked)
      BY <2>6 DEF Excused
    <3>3. FindIn(volume, c.cur, Head(c.rest)) = e
      <4> HIDE DEF c
      <4> QED
        BY <1>1, <1>3, <1>4, <1>5, <1>7, <3>1, <3>2, StdOn
    <3> HIDE DEF c, e
    <3>4. OnWay(volume, d)
      BY <1>5, <2>4, <3>1, <3>3, MovedOn
    <3>5. Walks(volume, rootCount, d)
      BY <2>4, <3>4 DEF Walks, Scanning, Listing
    <3> QED
      BY <1>1, <2>1, <2>4, <3>5, OneCall DEF CallOK
  <2> QED
    BY <1>6, <2>5, <2>6
<1>8. CASE e.kind # "std"
  <2> DEFINE k == c.pos + 1
             d == [c EXCEPT !.pos = k, !.at = "scan"]
  <2>1. call' = [call EXCEPT ![p] = d]
    BY <1>3, <1>8 DEF StdEntry
  <2>2. k \in Nat
    BY <1>4
  <2>3. /\ Shape(volume, d) /\ d.asked = c.asked /\ d.rest = c.rest /\ d.cur = c.cur
        /\ d.op = c.op /\ d.failed = c.failed /\ d.pos = k /\ d.entries = c.entries /\ d.at = "scan"
    <3> HIDE DEF c, k
    <3> QED
      BY <1>4, <2>2 DEF Shape, Scanning, Listing
  <2> HIDE DEF d
  <2>4. ASSUME Walks(volume, rootCount, c) PROVE Searched(dir, d)
    <3>1. Searched(dir, c) /\ Head(c.rest) \in Seq(STRING)
      BY <1>4, <2>4, SearchFacts
    <3> HIDE DEF c, dir
    <3> QED
      BY <1>1, <1>3, <1>4, <1>8, <2>3, <3>1, StdOff
  <2>5. d.at \in Scanning /\ EntriesIn(volume, d.cur) = dir
    BY <2>3 DEF Scanning
  <2>6. Walks(volume, rootCount, c) => Searched(EntriesIn(volume, d.cur), d)
    BY <2>4, <2>5
  <2> QED
    BY <1>1, <1>4, <2>1, <2>3, <2>5, <2>6, GoOn
<1> QED
    BY <1>7, <1>8

-----------------------------------------------------------------------------
(* Listing a tidy directory: an entry that ends a long name begins one.      *)
LEMMA TidyRun ==
    ASSUME NEW dir \in Seq(DirEntry), NEW root, Tidy(dir, root), NEW k \in DOMAIN dir,
           dir[k].kind = "lfn", dir[k].last
    PROVE  k \in Runs(dir)
<1>1. PICK r \in Runs(dir) : k \in r .. r + dir[r].order - 1
    BY DEF Tidy
<1> DEFINE o == dir[r].order
           m == r + o - k
<1>2. r \in Nat /\ o \in Nat \ {0} /\ k \in Nat
    BY RunShape, EntryTypes
<1>3. m \in 1 .. o /\ r + o - m = k /\ (m = o => k = r)
  <2>1. k >= r /\ k <= r + o - 1
    BY <1>1, <1>2
  <2> HIDE DEF o
  <2>2. m >= 1 /\ m <= o /\ m \in Int
    BY <1>2, <2>1
  <2>3. r + o - m = k
    BY <1>2
  <2>4. m = o => k = r
    BY <1>2
  <2> QED
    BY <1>2, <2>2, <2>3, <2>4
<1>4. dir[k].last = (m = o)
  <2>1. \A j \in 1 .. o : dir[r + o - j].last = (j = o)
    BY RunShape
  <2> HIDE DEF m, o
  <2> QED
    BY <1>3, <2>1
<1>5. m = o
    BY <1>4
<1> QED
    BY <1>1, <1>3, <1>5

LEMMA RunsFinite ==
    ASSUME NEW dir \in Seq(DirEntry)
    PROVE  IsFiniteSet(Runs(dir)) /\ Cardinality(Runs(dir)) \in Nat /\ \A k \in Runs(dir) : k \in Int
<1>1. Runs(dir) \subseteq 1 .. Len(dir) /\ Len(dir) \in Int
    BY DEF Runs
<1>2. IsFiniteSet(1 .. Len(dir))
    BY <1>1, FS_Interval
<1> QED
    BY <1>1, <1>2, FS_Subset, FS_CardinalityType

LEMMA ListOn ==
    ASSUME NEW dir \in Seq(DirEntry), NEW c, NEW d, Listed(dir, c), c.pos \in Nat,
           c.pos + 1 \notin Runs(dir),
           d.at = "list" /\ d.pos = c.pos + 1 /\ d.skip = c.skip /\ d.place = c.place
    PROVE  Listed(dir, d)
<1>1. \A k \in Runs(dir) : k \in Int /\ dir[k].order \in Int
    BY RunShape
<1>2. \A k \in Runs(dir) : d.pos < k \/ k + dir[k].order <= d.pos
  <2> TAKE k \in Runs(dir)
  <2>1. c.pos < k \/ k + dir[k].order <= c.pos
    BY DEF Listed
  <2>2. k # c.pos + 1
    OBVIOUS
  <2> QED
    BY <1>1, <2>1, <2>2
<1>3. {k \in Runs(dir) : k <= d.pos} = {k \in Runs(dir) : k <= c.pos}
  <2>1. \A k \in Runs(dir) : k <= d.pos <=> k <= c.pos
    BY <1>1
  <2> QED
    BY <2>1
<1>4. Cardinality({k \in Runs(dir) : k <= c.pos}) + c.skip = c.place
    BY DEF Listed
<1> QED
    BY <1>2, <1>3, <1>4 DEF Listed

LEMMA ListSkip ==
    ASSUME NEW dir \in Seq(DirEntry), NEW c, NEW d, Listed(dir, c), c.pos \in Nat,
           c.pos + 1 \in Runs(dir), c.skip \in Nat, c.skip > 0,
           d.at = "list" /\ d.pos = c.pos + dir[c.pos + 1].order + 1,
           d.skip = c.skip - 1 /\ d.place = c.place
    PROVE  Listed(dir, d)
<1> DEFINE b == c.pos + 1
           o == dir[b].order
           behind == {k \in Runs(dir) : k <= c.pos}
<1>1. \A k \in Runs(dir) : k \in Int /\ dir[k].order \in Int /\ dir[k].order > 0
    BY RunShape
<1>2. b \in Runs(dir) /\ o \in Int /\ o > 0 /\ d.pos = b + o /\ b \in Int /\ c.pos = b - 1 /\ b > 0
    BY <1>1, SMTT(30)
<1>3. \A k \in Runs(dir) : b < k => b + o < k
    BY <1>2, RunsApart
<1>4. \A k \in Runs(dir) : c.pos < k \/ k + dir[k].order <= c.pos
    BY DEF Listed
<1>5. Cardinality(behind) + c.skip = c.place
    BY DEF Listed
<1> HIDE DEF b, o
<1>6. \A k \in Runs(dir) : d.pos < k \/ k + dir[k].order <= d.pos
  <2> TAKE k \in Runs(dir)
  <2> DEFINE w == dir[k].order
             P == d.pos
  <2>0. /\ k \in Int /\ w \in Int /\ (b - 1 < k \/ k + w <= b - 1) /\ (b < k => b + o < k)
        /\ P = b + o
    BY <1>1, <1>2, <1>3, <1>4
  <2>1. k = b => w = o
    BY DEF o
  <2> HIDE DEF w, P
  <2>2. P < k \/ k + w <= P
    BY <1>2, <2>0, <2>1
  <2> QED
    BY <2>2 DEF w, P
<1>7. {k \in Runs(dir) : k <= d.pos} = behind \cup {b} /\ b \notin behind
  <2>1. ASSUME NEW k \in Runs(dir) PROVE k <= d.pos <=> k <= c.pos \/ k = b
    <3> DEFINE P == d.pos
               Q == c.pos
    <3>1. k \in Int /\ (b < k => b + o < k) /\ P = b + o /\ Q = b - 1
      BY <1>1, <1>2, <1>3
    <3> HIDE DEF P, Q
    <3>2. k <= P <=> k <= Q \/ k = b
      BY <1>2, <3>1
    <3> QED
      BY <3>2 DEF P, Q
  <2>2. ~(b <= c.pos)
    BY <1>2
  <2> QED
    BY <1>2, <2>1, <2>2
<1>8. IsFiniteSet(behind) /\ Cardinality(behind) \in Nat
    BY RunsFinite, FS_Subset, FS_CardinalityType
<1> HIDE DEF behind
<1>9. Cardinality(behind \cup {b}) = Cardinality(behind) + 1
    BY <1>7, <1>8, FS_AddElement
<1>10. Cardinality({k \in Runs(dir) : k <= d.pos}) + d.skip = d.place
  <2> DEFINE N == Cardinality(behind)
             W == {k \in Runs(dir) : k <= d.pos}
  <2>0. W = behind \cup {b}
    BY <1>7
  <2> HIDE DEF W
  <2>1. Cardinality(W) = N + 1 /\ N \in Int
    BY <2>0, <1>8, <1>9
  <2>2. c.skip \in Int /\ d.skip = c.skip - 1 /\ d.place = c.place /\ N + c.skip = c.place
    BY <1>5
  <2> HIDE DEF N
  <2>3. (N + 1) + d.skip = d.place
    BY <2>1, <2>2
  <2> QED
    BY <2>1, <2>3 DEF W
<1> QED
    BY <1>6, <1>10 DEF Listed

LEMMA ListBegin ==
    ASSUME NEW dir \in Seq(DirEntry), NEW c, NEW d, Listed(dir, c), c.pos \in Nat,
           c.pos + 1 \in Runs(dir), c.skip = 0,
           d.at = IF dir[c.pos + 1].order = 1 THEN "liststd" ELSE "listrest",
           d.pos = c.pos /\ d.skip = c.skip /\ d.place = c.place,
           d.len = dir[c.pos + 1].order /\ d.i = dir[c.pos + 1].order - 1,
           d.name = [m \in {dir[c.pos + 1].order} |-> dir[c.pos + 1].piece]
    PROVE  Listed(dir, d)
<1> DEFINE o == dir[c.pos + 1].order
<1>1. o \in Nat \ {0}
    BY RunShape
<1>2. /\ \A k \in Runs(dir) : d.pos < k \/ k + dir[k].order <= d.pos
      /\ Cardinality({k \in Runs(dir) : k <= d.pos}) + d.skip = d.place
    BY DEF Listed
<1>3. /\ d.skip = 0 /\ d.pos + 1 \in Runs(dir) /\ d.len = dir[d.pos + 1].order
      /\ d.len = o /\ d.i = o - 1 /\ d.at = (IF o = 1 THEN "liststd" ELSE "listrest")
      /\ d.name = [m \in {o} |-> dir[d.pos + 1].piece] /\ d.pos \in Int
    OBVIOUS
<1> HIDE DEF o
<1>4. d.i \in 0 .. d.len - 1 /\ (d.at = "liststd" <=> d.i = 0)
    BY <1>1, <1>3
<1>5. d.i + 1 .. d.len = {o} /\ d.pos + d.len - o + 1 = d.pos + 1
    BY <1>1, <1>3
<1>6. d.name = [m \in d.i + 1 .. d.len |-> dir[d.pos + d.len - m + 1].piece]
  <2>1. [m \in d.i + 1 .. d.len |-> dir[d.pos + d.len - m + 1].piece]
        = [m \in {o} |-> dir[d.pos + d.len - m + 1].piece]
    BY <1>5
  <2>2. \A m \in {o} : dir[d.pos + d.len - m + 1].piece = dir[d.pos + 1].piece
    BY <1>5
  <2> QED
    BY <1>3, <2>1, <2>2
<1> QED
    BY <1>2, <1>3, <1>4, <1>6 DEF Listed

(* In it the pieces follow each other and the entry follows them.            *)
LEMMA ListedPiece ==
    ASSUME NEW dir \in Seq(DirEntry), NEW c, Listed(dir, c), c.pos \in Nat, c.at # "list",
           c.len \in Nat
    PROVE  /\ c.pos + c.len + 1 \in DOMAIN dir /\ dir[c.pos + c.len + 1].kind = "std"
           /\ StdAt(dir, c.pos + 1) = dir[c.pos + c.len + 1]
           /\ c.i > 0 =>
                /\ dir[c.pos + c.len - c.i + 1].kind = "lfn"
                /\ dir[c.pos + c.len - c.i + 1].last = FALSE
                /\ dir[c.pos + c.len - c.i + 1].order = c.i
<1> DEFINE b == c.pos + 1
           o == dir[b].order
<1>1. b \in Runs(dir) /\ c.len = o /\ c.i \in 0 .. c.len - 1
    BY DEF Listed
<1>2. c.pos \in Int /\ c.len \in Int /\ c.i \in Int
    BY <1>1
<1>3. /\ o \in Nat \ {0} /\ b + o \in DOMAIN dir /\ dir[b + o].kind = "std"
      /\ \A m \in 1 .. o : /\ dir[b + o - m].kind = "lfn" /\ dir[b + o - m].last = (m = o)
                           /\ dir[b + o - m].order = m
  <2> HIDE DEF b
  <2> QED
    BY <1>1, RunShape
<1>4. StdAt(dir, b) = dir[b + o]
    BY DEF StdAt
<1>5. b = c.pos + 1
    OBVIOUS
<1> HIDE DEF o, b
<1>6. b + o = c.pos + c.len + 1 /\ b + o - c.i = c.pos + c.len - c.i + 1
  <2> DEFINE P == c.pos
             L == c.len
             I == c.i
  <2>1. b = P + 1 /\ o = L /\ P \in Int /\ L \in Int /\ I \in Int
    BY <1>1, <1>2, <1>5
  <2> HIDE DEF P, L, I
  <2>2. b + o = P + L + 1 /\ b + o - I = P + L - I + 1
    BY <2>1
  <2> QED
    BY <2>2 DEF P, L, I
<1>7. c.i > 0 => c.i \in 1 .. o /\ c.i # o
    BY <1>1, <1>2
<1>8. c.i > 0 => /\ dir[b + o - c.i].kind = "lfn" /\ dir[b + o - c.i].last = FALSE
                 /\ dir[b + o - c.i].order = c.i
    BY <1>3, <1>7
<1>9. /\ c.pos + c.len + 1 \in DOMAIN dir /\ dir[c.pos + c.len + 1].kind = "std"
      /\ StdAt(dir, b) = dir[c.pos + c.len + 1]
    BY <1>3, <1>4, <1>6
<1>10. c.i > 0 =>
                /\ dir[c.pos + c.len - c.i + 1].kind = "lfn"
                /\ dir[c.pos + c.len - c.i + 1].last = FALSE
                /\ dir[c.pos + c.len - c.i + 1].order = c.i
    BY <1>6, <1>8
<1> QED
    BY <1>5, <1>9, <1>10

LEMMA ListMore ==
    ASSUME NEW dir \in Seq(DirEntry), NEW c, NEW d, Listed(dir, c), c.pos \in Nat,
           c.len \in Nat, c.at = "listrest",
           d.at = IF c.i = 1 THEN "liststd" ELSE "listrest",
           d.pos = c.pos /\ d.skip = c.skip /\ d.place = c.place /\ d.len = c.len /\ d.i = c.i - 1,
           d.name = [k \in {c.i} \cup DOMAIN c.name |->
                        IF k = c.i THEN dir[c.pos + c.len - c.i + 1].piece ELSE c.name[k]]
    PROVE  Listed(dir, d)
<1>1. /\ c.skip = 0 /\ c.pos + 1 \in Runs(dir) /\ c.len = dir[c.pos + 1].order
      /\ c.i \in 1 .. c.len - 1
      /\ c.name = [m \in c.i + 1 .. c.len |-> dir[c.pos + c.len - m + 1].piece]
    BY DEF Listed
<1>2. /\ \A k \in Runs(dir) : d.pos < k \/ k + dir[k].order <= d.pos
      /\ Cardinality({k \in Runs(dir) : k <= d.pos}) + d.skip = d.place
    BY DEF Listed
<1> DEFINE i == c.i
           l == c.len
           at == d.at
<1>0. /\ i \in Int /\ l \in Int /\ i >= 1 /\ i <= l - 1 /\ d.i = i - 1 /\ d.len = l
      /\ at = (IF i = 1 THEN "liststd" ELSE "listrest")
    BY <1>1
<1>3. d.i \in 0 .. d.len - 1 /\ (d.at = "liststd" <=> d.i = 0)
  <2> HIDE DEF i, l, at
  <2>1. i - 1 \in 0 .. l - 1 /\ (at = "liststd" <=> i - 1 = 0)
    BY <1>0
  <2> QED
    BY <1>0, <2>1 DEF at
<1>4. d.name = [m \in d.i + 1 .. d.len |-> dir[d.pos + d.len - m + 1].piece]
  <2>1. {c.i} \cup DOMAIN c.name = d.i + 1 .. d.len
    <3>2. d.i = i - 1 /\ d.len = l /\ DOMAIN c.name = i + 1 .. l
      BY <1>0, <1>1
    <3> HIDE DEF i, l
    <3>3. {i} \cup (i + 1 .. l) = (i - 1) + 1 .. l
      <4>1. ASSUME NEW x PROVE x \in {i} \cup (i + 1 .. l) <=> x \in (i - 1) + 1 .. l
        BY <1>0
      <4> QED
        BY <4>1
    <3>4. {i} \cup DOMAIN c.name = d.i + 1 .. d.len
      BY <3>2, <3>3
    <3> QED
      BY <3>4 DEF i
  <2>2. \A m \in d.i + 1 .. d.len :
            (IF m = c.i THEN dir[c.pos + c.len - c.i + 1].piece ELSE c.name[m])
            = dir[d.pos + d.len - m + 1].piece
    <3> TAKE m \in d.i + 1 .. d.len
    <3>1. d.pos = c.pos /\ d.len = c.len
      OBVIOUS
    <3>4. m = i \/ m \in i + 1 .. l
      <4>1. m \in (i - 1) + 1 .. l
        BY <1>0
      <4> HIDE DEF i, l
      <4> QED
        BY <1>0, <4>1
    <3>2. CASE m = c.i
      BY <3>1, <3>2
    <3>3. CASE m # c.i
      <4>1. m \in c.i + 1 .. c.len
        BY <3>3, <3>4
      <4>2. c.name[m] = dir[c.pos + c.len - m + 1].piece
        BY <1>1, <4>1
      <4> QED
        BY <3>1, <3>3, <4>2
    <3> QED
      BY <3>2, <3>3
  <2> QED
    BY <2>1, <2>2
<1> QED
    BY <1>1, <1>2, <1>3, <1>4 DEF Listed

(* What a listing answers.                                                   *)
LEMMA ListDone ==
    ASSUME NEW dir \in Seq(DirEntry), NEW c, NEW root, NEW answer, Listed(dir, c), c.pos \in Nat,
           c.len \in Nat, c.at = "liststd",
           answer = Answered([k \in 1 .. c.len |-> IF k \in DOMAIN c.name THEN c.name[k] ELSE "stale"],
                             TypeOf(dir[c.pos + c.len + 1], root))
    PROVE  ListedAt(dir, root, c.place, answer)
<1> DEFINE b == c.pos + 1
           behind == {k \in Runs(dir) : k <= c.pos}
           before == {k \in Runs(dir) : k < b}
<1>1. /\ c.skip = 0 /\ b \in Runs(dir) /\ c.len = dir[b].order /\ c.i = 0
      /\ c.name = [m \in c.i + 1 .. c.len |-> dir[c.pos + c.len - m + 1].piece]
      /\ Cardinality(behind) + c.skip = c.place
    BY DEF Listed
<1>2. StdAt(dir, b) = dir[c.pos + c.len + 1]
    BY ListedPiece
<1>3. [k \in 1 .. c.len |-> IF k \in DOMAIN c.name THEN c.name[k] ELSE "stale"] = NameAt(dir, b)
  <2>1. c.i + 1 .. c.len = 1 .. c.len
    BY <1>1
  <2>2. DOMAIN c.name = 1 .. c.len
    BY <1>1, <2>1
  <2>3. \A k \in 1 .. c.len : c.name[k] = dir[b + dir[b].order - k].piece
    <3> TAKE k \in 1 .. c.len
    <3>1. c.name[k] = dir[c.pos + c.len - k + 1].piece
      BY <1>1, <2>1
    <3>2. c.pos + c.len - k + 1 = b + c.len - k
      OBVIOUS
    <3>3. b + c.len - k = b + dir[b].order - k
      BY <1>1
    <3> QED
      BY <3>1, <3>2, <3>3
  <2>4. NameAt(dir, b) = [k \in 1 .. c.len |-> dir[b + dir[b].order - k].piece]
    BY <1>1 DEF NameAt
  <2> HIDE DEF b
  <2> QED
    BY <2>2, <2>3, <2>4
<1>4. before = behind
  <2>1. \A k \in Runs(dir) : k < b <=> k <= c.pos
    BY RunsFinite
  <2> QED
    BY <2>1
<1>5. IsFiniteSet(behind) /\ Cardinality(behind) \in Nat /\ IsFiniteSet(Runs(dir))
      /\ Cardinality(Runs(dir)) \in Nat
    BY RunsFinite, FS_Subset, FS_CardinalityType
<1>6. b \notin behind /\ behind \cup {b} \subseteq Runs(dir)
  <2>1. ~(b <= c.pos)
    OBVIOUS
  <2>2. behind \subseteq Runs(dir) /\ \A k \in behind : k <= c.pos
    OBVIOUS
  <2> HIDE DEF b, behind
  <2> QED
    BY <1>1, <2>1, <2>2
<1> HIDE DEF b, before, behind
<1>7. Cardinality(behind) + 1 <= Cardinality(Runs(dir))
  <2>1. Cardinality(behind \cup {b}) = Cardinality(behind) + 1
    BY <1>5, <1>6, FS_AddElement
  <2>2. Cardinality(behind \cup {b}) <= Cardinality(Runs(dir))
    BY <1>5, <1>6, FS_Subset
  <2> QED
    BY <2>1, <2>2
<1>8. c.place = Cardinality(behind)
    BY <1>1, <1>5
<1>9. ~(c.place >= Cardinality(Runs(dir)))
    BY <1>5, <1>7, <1>8
<1>10. answer = Answered(NameAt(dir, b), TypeOf(StdAt(dir, b), root))
    BY <1>2, <1>3
<1>11. Cardinality({k \in Runs(dir) : k < b}) = c.place
    BY <1>4, <1>8 DEF before
<1> QED
    BY <1>1, <1>9, <1>10, <1>11 DEF ListedAt

LEMMA ListEnd ==
    ASSUME NEW dir \in Seq(DirEntry), NEW c, NEW root, Listed(dir, c), c.pos \in Nat,
           c.pos >= Len(dir), c.skip \in Nat
    PROVE  ListedAt(dir, root, c.place, NoName)
<1> DEFINE behind == {k \in Runs(dir) : k <= c.pos}
<1>1. behind = Runs(dir)
  <2>1. \A k \in Runs(dir) : k \in 1 .. Len(dir) /\ Len(dir) \in Int
    BY DEF Runs
  <2>2. \A k \in Runs(dir) : k <= c.pos
    BY <2>1
  <2> QED
    BY <2>2
<1>2. Cardinality(behind) + c.skip = c.place
    BY DEF Listed
<1> HIDE DEF behind
<1>3. Cardinality(Runs(dir)) \in Nat
    BY RunsFinite
<1>4. c.place >= Cardinality(Runs(dir))
    BY <1>1, <1>2, <1>3
<1> QED
    BY <1>4 DEF ListedAt

(* A call that lists goes on.                                                *)
LEMMA ListGoesOn ==
    ASSUME TreeInv, NEW p \in Callers, NEW d, call[p].at \in Listing,
           call' = [call EXCEPT ![p] = d], UNCHANGED <<volume, rootCount>>, Shape(volume, d),
           d.at \in Listing, d.asked = call[p].asked, d.rest = call[p].rest, d.cur = call[p].cur,
           d.op = call[p].op, d.failed = call[p].failed, d.entries = call[p].entries,
           Listed(EntriesIn(volume, d.cur), call[p]) /\ Tidy(EntriesIn(volume, d.cur), InRoot(d))
                => Listed(EntriesIn(volume, d.cur), d)
    PROVE  TreeInv'
<1> DEFINE c == call[p]
<1>1. Excused(volume, c) \/ Walks(volume, rootCount, c)
    BY Types
<1>2. CASE Excused(volume, c)
  <2>1. Excused(volume, d)
    BY <1>2, ExcusedKept DEF Listing
  <2> QED
    BY <2>1, OneCall DEF CallOK
<1>3. CASE Walks(volume, rootCount, c)
  <2>1. /\ OnWay(volume, c) /\ Sized(volume, rootCount, c) /\ c.rest = <<>> /\ c.op = "list"
        /\ Tidy(EntriesIn(volume, c.cur), InRoot(c)) => Listed(EntriesIn(volume, c.cur), c)
    BY <1>3 DEF Walks, Listing
  <2>2. OnWay(volume, d)
    BY <2>1, SameWay
  <2>3. Sized(volume, rootCount, d) /\ InRoot(d) = InRoot(c)
    BY <2>1 DEF Sized, InRoot
  <2>4. Tidy(EntriesIn(volume, d.cur), InRoot(d)) => Listed(EntriesIn(volume, d.cur), d)
    BY <2>1, <2>3
  <2>5. Walks(volume, rootCount, d)
    BY <2>1, <2>2, <2>3, <2>4 DEF Walks, Scanning, Listing
  <2> QED
    BY <2>5, OneCall DEF CallOK
<1> HIDE DEF c
<1> QED
    BY <1>1, <1>2, <1>3

(* ... or answers.                                                           *)
LEMMA ListAnswers ==
    ASSUME TreeInv, NEW p \in Callers, NEW answer, call[p].at \in Listing,
           call' = [call EXCEPT ![p] = [call[p] EXCEPT !.at = "done", !.answer = answer]],
           UNCHANGED <<volume, rootCount>>,
           Walks(volume, rootCount, call[p]) /\ Listed(EntriesIn(volume, call[p].cur), call[p])
            /\ Tidy(EntriesIn(volume, call[p].cur), InRoot(call[p]))
                => ListedAt(EntriesIn(volume, call[p].cur), InRoot(call[p]), call[p].place, answer)
    PROVE  TreeInv'
<1> DEFINE c == call[p]
           d == [c EXCEPT !.at = "done", !.answer = answer]
<1>1. Excused(volume, c) \/ Walks(volume, rootCount, c)
    BY Types
<1>2. Shape(volume, c)
    BY Types
<1>3. /\ Shape(volume, d) /\ d.asked = c.asked /\ d.op = c.op /\ d.failed = c.failed /\ d.place = c.place
      /\ d.at = "done" /\ d.answer = answer
  <2> HIDE DEF c
  <2> QED
    BY <1>2 DEF Shape, Scanning, Listing
<1> HIDE DEF d
<1>4. CASE Excused(volume, c)
  <2>1. Excused(volume, d)
    BY <1>3, <1>4, ExcusedKept DEF Listing
  <2> QED
    BY <1>3, <2>1, OneCall DEF CallOK, d
<1>5. CASE Walks(volume, rootCount, c)
  <2>1. /\ OnWay(volume, c) /\ c.rest = <<>> /\ c.op = "list"
        /\ Tidy(EntriesIn(volume, c.cur), InRoot(c)) => Listed(EntriesIn(volume, c.cur), c)
    BY <1>5 DEF Walks, Listing
  <2>2. c.asked \in Seq(Seq(STRING))
    BY Types
  <2>3. Tidy(EntriesIn(volume, c.cur), InRoot(c)) =>
            ListedAt(EntriesIn(volume, c.cur), InRoot(c), c.place, answer)
    BY <1>5, <2>1
  <2> HIDE DEF c
  <2>4. c.cur = NamedIn(volume, c.asked)
    BY <2>1, <2>2, AtEnd
  <2>5. InRoot([cur |-> c.cur]) = InRoot(c)
    BY DEF InRoot
  <2>6. Result(volume, d)
    BY <1>3, <2>1, <2>3, <2>4, <2>5 DEF Result
  <2>7. Walks(volume, rootCount, d)
    BY <1>3, <2>6 DEF Walks, Scanning, Listing
  <2> QED
    BY <1>3, <2>7, OneCall DEF CallOK, d, c
<1> QED
    BY <1>1, <1>4, <1>5

LEMMA NoMoreKeeps == ASSUME TreeInv, NEW p \in Callers, NoMore(p) PROVE TreeInv'
<1> DEFINE c == call[p]
           dir == EntriesIn(volume, c.cur)
<1>1. c.at = "list" /\ c.pos >= DirCount(p) /\ UNCHANGED <<volume, rootCount>>
    BY DEF NoMore, Keep, vars, file, At
<1>2. call' = [call EXCEPT ![p] = [c EXCEPT !.at = "done", !.answer = NoName]]
    BY DEF NoMore, End, TreeInv
<1>3. c.at \in Listing /\ dir \in Seq(DirEntry) /\ c.pos \in Nat /\ c.skip \in Nat
    BY <1>1, Reads, Types DEF Listing
<1>4. ASSUME Walks(volume, rootCount, c), Listed(dir, c)
      PROVE  ListedAt(dir, InRoot(c), c.place, NoName)
  <2>1. c.pos >= Len(dir)
    BY <1>1, <1>3, <1>4, Reads
  <2> HIDE DEF c, dir
  <2> QED
    BY <1>3, <1>4, <2>1, ListEnd
<1> QED
    BY <1>1, <1>2, <1>3, <1>4, ListAnswers

LEMMA ListEntryKeeps == ASSUME TreeInv, NEW p \in Callers, ListEntry(p) PROVE TreeInv'
<1> DEFINE c == call[p]
           dir == EntriesIn(volume, c.cur)
           e == dir[c.pos + 1]
           to(at, pos, i, len, skip, name) ==
               [c EXCEPT !.at = at, !.pos = pos, !.i = i, !.len = len, !.skip = skip, !.name = name]
<1>1. c.at = "list" /\ UNCHANGED <<volume, rootCount>> /\ Readable(p, c.pos)
    BY DEF ListEntry, Keep, vars, file, At
<1>2. /\ c.at \in Listing /\ dir \in Seq(DirEntry) /\ c.pos \in Nat /\ c.skip \in Nat /\ c.i \in Int
      /\ c.len \in Nat /\ Shape(volume, c) /\ Fetched(p, c.pos) = e /\ c.pos < Len(dir)
    BY <1>1, Reads, Types DEF Listing
<1>3. c.pos + 1 \in DOMAIN dir /\ e.order \in Nat /\ e.last \in BOOLEAN
  <2>1. c.pos + 1 \in DOMAIN dir
    BY <1>2
  <2> QED
    BY <1>2, <2>1, EntryTypes
<1>4. c.i <= c.len
    BY <1>2 DEF Shape
<1>5. call' = [call EXCEPT ![p] =
            IF e.kind # "lfn" \/ ~e.last THEN [c EXCEPT !.pos = @ + 1]
            ELSE IF c.skip > 0
            THEN [c EXCEPT !.pos = @ + e.order + 1, !.skip = @ - 1]
            ELSE [c EXCEPT !.len = e.order, !.i = e.order - 1,
                           !.name = [k \in {e.order} |-> e.piece],
                           !.at = IF e.order = 1 THEN "liststd" ELSE "listrest"]]
    BY <1>2 DEF ListEntry
<1>6. CASE e.kind # "lfn" \/ ~e.last
  <2> DEFINE d == to("list", c.pos + 1, c.i, c.len, c.skip, c.name)
  <2>1. call' = [call EXCEPT ![p] = d]
    <3>1. [c EXCEPT !.pos = c.pos + 1] = d
      BY <1>1, <1>2 DEF Shape
    <3> HIDE DEF d, c, e
    <3> QED
      BY <1>5, <1>6, <3>1
  <2>2. c.pos + 1 \in Nat /\ "list" \in Listing
    BY <1>2 DEF Listing
  <2>3. /\ Shape(volume, d) /\ d.asked = c.asked /\ d.rest = c.rest /\ d.cur = c.cur /\ d.op = c.op
        /\ d.failed = c.failed /\ d.entries = c.entries /\ d.place = c.place /\ d.at = "list"
        /\ d.pos = c.pos + 1 /\ d.skip = c.skip
    <3> HIDE DEF d, c
    <3> QED
      BY <1>2, <1>4, <2>2 DEF d, Shape, Scanning, Listing
  <2> HIDE DEF d
  <2>4. Listed(dir, c) => Listed(dir, d)
    <3>1. c.pos + 1 \notin Runs(dir)
      BY <1>6 DEF Runs, RunAt
    <3> HIDE DEF c, dir
    <3> QED
      BY <1>2, <2>3, <3>1, ListOn
  <2>5. d.at \in Listing /\ dir = EntriesIn(volume, d.cur)
    BY <2>2, <2>3
  <2> QED
    BY <1>1, <1>2, <2>1, <2>3, <2>4, <2>5, ListGoesOn
<1>7. ASSUME e.kind = "lfn", e.last, NEW root, Tidy(dir, root) PROVE c.pos + 1 \in Runs(dir)
    BY <1>2, <1>3, <1>7, TidyRun
<1>8. CASE ~(e.kind # "lfn" \/ ~e.last) /\ c.skip > 0
  <2> DEFINE d == to("list", c.pos + e.order + 1, c.i, c.len, c.skip - 1, c.name)
  <2>1. call' = [call EXCEPT ![p] = d]
    <3>1. [c EXCEPT !.pos = c.pos + e.order + 1, !.skip = c.skip - 1] = d
      BY <1>1, <1>2 DEF Shape
    <3> HIDE DEF d, c, e
    <3> QED
      BY <1>5, <1>8, <3>1
  <2>2. c.pos + e.order + 1 \in Nat /\ c.skip - 1 \in Nat /\ "list" \in Listing
    <3>1. c.pos + e.order + 1 \in Nat
      BY <1>2, <1>3
    <3>2. c.skip - 1 \in Nat
      BY <1>2, <1>8
    <3> QED
      BY <3>1, <3>2 DEF Listing
  <2>3. /\ Shape(volume, d) /\ d.asked = c.asked /\ d.rest = c.rest /\ d.cur = c.cur /\ d.op = c.op
        /\ d.failed = c.failed /\ d.entries = c.entries /\ d.place = c.place /\ d.at = "list"
        /\ d.pos = c.pos + e.order + 1 /\ d.skip = c.skip - 1
    <3> DEFINE P == c.pos + e.order + 1
               S == c.skip - 1
    <3>1. d = to("list", P, c.i, c.len, S, c.name) /\ P \in Nat /\ S \in Nat
      BY <2>2
    <3> HIDE DEF d, c, e, P, S
    <3>2. /\ Shape(volume, d) /\ d.asked = c.asked /\ d.rest = c.rest /\ d.cur = c.cur /\ d.op = c.op
          /\ d.failed = c.failed /\ d.entries = c.entries /\ d.place = c.place /\ d.at = "list"
          /\ d.pos = P /\ d.skip = S
      BY <1>2, <1>4, <2>2, <3>1 DEF Shape, Scanning, Listing
    <3> QED
      BY <3>2 DEF P, S
  <2> HIDE DEF d
  <2>4. ASSUME Listed(dir, c), Tidy(dir, InRoot(d)) PROVE Listed(dir, d)
    <3>1. c.pos + 1 \in Runs(dir)
      BY <1>7, <1>8, <2>4
    <3> HIDE DEF c, dir
    <3> QED
      BY <1>2, <1>8, <2>3, <2>4, <3>1, ListSkip
  <2>5. d.at \in Listing /\ dir = EntriesIn(volume, d.cur)
    BY <2>2, <2>3
  <2>6. Listed(EntriesIn(volume, d.cur), c) /\ Tidy(EntriesIn(volume, d.cur), InRoot(d))
            => Listed(EntriesIn(volume, d.cur), d)
    BY <2>4, <2>5
  <2> QED
    BY <1>1, <1>2, <2>1, <2>3, <2>5, <2>6, ListGoesOn
<1>9. CASE ~(e.kind # "lfn" \/ ~e.last) /\ ~(c.skip > 0)
  <2> DEFINE at == IF e.order = 1 THEN "liststd" ELSE "listrest"
             name == [k \in {e.order} |-> e.piece]
             i == e.order - 1
             d == to(at, c.pos, i, e.order, c.skip, name)
  <2>1. call' = [call EXCEPT ![p] = d]
    <3>1. [c EXCEPT !.len = e.order, !.i = i, !.name = name, !.at = at] = d
      BY <1>1, <1>2 DEF Shape
    <3> HIDE DEF d, c, e
    <3> QED
      BY <1>5, <1>9, <3>1
  <2>2. at \in Listing /\ i \in Int /\ i <= e.order
    <3>1. at \in Listing
      BY DEF Listing
    <3>2. i \in Int /\ i <= e.order
      BY <1>3
    <3> QED
      BY <3>1, <3>2
  <2> DEFINE o == e.order
  <2>3. /\ Shape(volume, d) /\ d.asked = c.asked /\ d.rest = c.rest /\ d.cur = c.cur /\ d.op = c.op
        /\ d.failed = c.failed /\ d.entries = c.entries /\ d.place = c.place /\ d.at = at
        /\ d.pos = c.pos /\ d.i = i /\ d.len = o /\ d.skip = c.skip /\ d.name = name
    <3>1. d = to(at, c.pos, i, o, c.skip, name) /\ o \in Nat /\ i <= o
      BY <1>3, <2>2
    <3> HIDE DEF d, c, at, name, i, o
    <3> QED
      BY <1>2, <2>2, <3>1 DEF Shape, Scanning, Listing
  <2> HIDE DEF d
  <2>4. ASSUME Listed(dir, c), Tidy(dir, InRoot(d)) PROVE Listed(dir, d)
    <3>1. c.pos + 1 \in Runs(dir)
      BY <1>7, <1>9, <2>4
    <3>2. c.skip = 0
      BY <1>2, <1>9
    <3>3. /\ d.at = (IF dir[c.pos + 1].order = 1 THEN "liststd" ELSE "listrest")
          /\ d.len = dir[c.pos + 1].order /\ d.i = dir[c.pos + 1].order - 1
          /\ d.name = [m \in {dir[c.pos + 1].order} |-> dir[c.pos + 1].piece]
      BY <2>3
    <3> HIDE DEF c, dir
    <3> QED
      BY <1>2, <2>3, <2>4, <3>1, <3>2, <3>3, ListBegin
  <2>5. d.at \in Listing /\ dir = EntriesIn(volume, d.cur)
    BY <2>2, <2>3
  <2>6. Listed(EntriesIn(volume, d.cur), c) /\ Tidy(EntriesIn(volume, d.cur), InRoot(d))
            => Listed(EntriesIn(volume, d.cur), d)
    BY <2>4, <2>5
  <2> QED
    BY <1>1, <1>2, <2>1, <2>3, <2>5, <2>6, ListGoesOn
<1> QED
    BY <1>6, <1>8, <1>9

LEMMA ListRestKeeps == ASSUME TreeInv, NEW p \in Callers, ListRest(p) PROVE TreeInv'
<1> DEFINE c == call[p]
           dir == EntriesIn(volume, c.cur)
           w == c.pos + c.len - c.i
           e == dir[w + 1]
<1>1. c.at = "listrest" /\ UNCHANGED <<volume, rootCount>> /\ Readable(p, NextRead(p))
    BY DEF ListRest, Keep, vars, file, At
<1>2. NextRead(p) = w
    BY <1>1, NextReads
<1>3. /\ c.at \in Listing /\ dir \in Seq(DirEntry) /\ c.pos \in Nat /\ c.i \in Int /\ c.len \in Nat
      /\ Shape(volume, c) /\ Fetched(p, NextRead(p)) = e
    BY <1>1, <1>2, Reads, Types DEF Listing
<1>4. c.i <= c.len
    BY <1>3 DEF Shape
<1>5. call' = [call EXCEPT ![p] =
            IF e.kind = "lfn" /\ ~e.last
            THEN [c EXCEPT !.name = [k \in {e.order} \cup DOMAIN c.name |->
                                        IF k = e.order THEN e.piece ELSE c.name[k]],
                           !.i = @ - 1, !.at = IF c.i = 1 THEN "liststd" ELSE "listrest"]
            ELSE [c EXCEPT !.pos = @ + 1, !.at = "list"]]
    BY <1>3 DEF ListRest
<1>6. Listed(dir, c) => e.kind = "lfn" /\ ~e.last /\ e.order = c.i
  <2> SUFFICES ASSUME Listed(dir, c) PROVE e.kind = "lfn" /\ ~e.last /\ e.order = c.i
    OBVIOUS
  <2>1. c.i > 0
    BY <1>1 DEF Listed
  <2> HIDE DEF c, dir
  <2> QED
    BY <1>1, <1>3, <2>1, ListedPiece
<1>7. CASE e.kind = "lfn" /\ ~e.last
  <2> DEFINE at == IF c.i = 1 THEN "liststd" ELSE "listrest"
             i == c.i - 1
             name == [k \in {e.order} \cup DOMAIN c.name |-> IF k = e.order THEN e.piece ELSE c.name[k]]
             d == [c EXCEPT !.name = name, !.i = i, !.at = at]
  <2>1. call' = [call EXCEPT ![p] = d]
    BY <1>5, <1>7
  <2>2. at \in {"liststd", "listrest"} /\ at \in Listing
    BY DEF Listing
  <2>3. i \in Int /\ i <= c.len
    BY <1>3, <1>4
  <2>4. /\ Shape(volume, d) /\ d.asked = c.asked /\ d.rest = c.rest /\ d.cur = c.cur /\ d.op = c.op
        /\ d.failed = c.failed /\ d.entries = c.entries /\ d.place = c.place /\ d.at = at
        /\ d.pos = c.pos /\ d.i = i /\ d.len = c.len /\ d.skip = c.skip /\ d.name = name
    <3> HIDE DEF c, at, i, name
    <3> QED
      BY <1>3, <2>2, <2>3 DEF Shape, Scanning, Listing
  <2> HIDE DEF d
  <2>5. Listed(dir, c) => Listed(dir, d)
    <3>1. e = dir[c.pos + c.len - c.i + 1]
      OBVIOUS
    <3>2. ASSUME Listed(dir, c)
          PROVE  name = [k \in {c.i} \cup DOMAIN c.name |->
                    IF k = c.i THEN dir[c.pos + c.len - c.i + 1].piece ELSE c.name[k]]
      <4>1. e.order = c.i
        BY <1>6, <3>2
      <4> HIDE DEF c, dir, e
      <4> QED
        BY <3>1, <4>1
    <3>3. d.i = c.i - 1 /\ d.at = (IF c.i = 1 THEN "liststd" ELSE "listrest") /\ d.name = name
      BY <2>4
    <3> HIDE DEF c, dir, name, e
    <3> QED
      BY <1>1, <1>3, <2>4, <3>2, <3>3, ListMore
  <2>6. d.at \in Listing /\ dir = EntriesIn(volume, d.cur)
    BY <2>2, <2>4
  <2> QED
    BY <1>1, <1>3, <2>1, <2>4, <2>5, <2>6, ListGoesOn
<1>8. CASE ~(e.kind = "lfn" /\ ~e.last)
  <2> DEFINE k == c.pos + 1
             d == [c EXCEPT !.pos = k, !.at = "list"]
  <2>1. call' = [call EXCEPT ![p] = d]
    BY <1>5, <1>8
  <2>2. k \in Nat /\ "list" \in Listing
    BY <1>3 DEF Listing
  <2>3. /\ Shape(volume, d) /\ d.asked = c.asked /\ d.rest = c.rest /\ d.cur = c.cur /\ d.op = c.op
        /\ d.failed = c.failed /\ d.entries = c.entries /\ d.at = "list"
    <3> HIDE DEF c, k
    <3> QED
      BY <1>3, <2>2 DEF Shape, Scanning, Listing
  <2> HIDE DEF d
  <2>4. ~Listed(dir, c)
    BY <1>6, <1>8
  <2>5. d.at \in Listing /\ dir = EntriesIn(volume, d.cur)
    BY <2>2, <2>3
  <2> QED
    BY <1>1, <1>3, <2>1, <2>3, <2>4, <2>5, ListGoesOn
<1> QED
    BY <1>7, <1>8

LEMMA ListStdKeeps == ASSUME TreeInv, NEW p \in Callers, ListStd(p) PROVE TreeInv'
<1> DEFINE c == call[p]
           dir == EntriesIn(volume, c.cur)
           e == dir[c.pos + c.len + 1]
           type == TypeOf(e, InRoot(c))
           answer == Answered([k \in 1 .. c.len |->
                                IF k \in DOMAIN c.name THEN c.name[k] ELSE "stale"], type)
<1>1. c.at = "liststd" /\ UNCHANGED <<volume, rootCount>> /\ Readable(p, NextRead(p))
    BY DEF ListStd, Keep, vars, file, At
<1>2. NextRead(p) = c.pos + c.len
    BY <1>1, NextReads
<1>3. /\ c.at \in Listing /\ dir \in Seq(DirEntry) /\ c.pos \in Nat /\ c.len \in Nat
      /\ Shape(volume, c) /\ Fetched(p, NextRead(p)) = e
    BY <1>1, <1>2, Reads, Types DEF Listing
<1>4. call' = [call EXCEPT ![p] =
            IF type # "none" THEN [c EXCEPT !.answer = answer, !.at = "done"]
            ELSE [c EXCEPT !.pos = @ + 1, !.at = "list"]]
    BY <1>3 DEF ListStd
<1>5. CASE type # "none"
  <2>1. call' = [call EXCEPT ![p] = [c EXCEPT !.at = "done", !.answer = answer]]
    <3>1. [c EXCEPT !.at = "done", !.answer = answer] = [c EXCEPT !.answer = answer, !.at = "done"]
      <4> HIDE DEF c, answer
      <4> QED
        BY <1>3 DEF Shape
    <3> HIDE DEF c, answer, type
    <3> QED
      BY <1>4, <1>5, <3>1
  <2>2. ASSUME Listed(dir, c) PROVE ListedAt(dir, InRoot(c), c.place, answer)
    <3> DEFINE root == InRoot(c)
    <3>1. answer = Answered([k \in 1 .. c.len |-> IF k \in DOMAIN c.name THEN c.name[k] ELSE "stale"],
                            TypeOf(dir[c.pos + c.len + 1], root))
      OBVIOUS
    <3> HIDE DEF c, dir, root, answer
    <3>2. ListedAt(dir, root, c.place, answer)
      BY <1>1, <1>3, <2>2, <3>1, ListDone
    <3> QED
      BY <3>2 DEF root
  <2> QED
    BY <1>1, <1>3, <2>1, <2>2, ListAnswers
<1>6. CASE type = "none"
  <2> DEFINE k == c.pos + 1
             d == [c EXCEPT !.pos = k, !.at = "list"]
  <2>1. call' = [call EXCEPT ![p] = d]
    BY <1>4, <1>6
  <2>2. k \in Nat /\ "list" \in Listing
    BY <1>3 DEF Listing
  <2>3. /\ Shape(volume, d) /\ d.asked = c.asked /\ d.rest = c.rest /\ d.cur = c.cur /\ d.op = c.op
        /\ d.failed = c.failed /\ d.entries = c.entries /\ d.at = "list"
    <3> HIDE DEF c, k
    <3> QED
      BY <1>3, <2>2 DEF Shape, Scanning, Listing
  <2> HIDE DEF d
  <2>4. ASSUME Listed(dir, c), Tidy(dir, InRoot(d)) PROVE FALSE
    <3>1. c.pos + 1 \in Runs(dir)
      BY <1>1, <2>4 DEF Listed
    <3>2. TypeOf(StdAt(dir, c.pos + 1), InRoot(d)) # "none"
      BY <2>4, <3>1 DEF Tidy
    <3>3. StdAt(dir, c.pos + 1) = e
      <4> HIDE DEF c, dir
      <4> QED
        BY <1>1, <1>3, <2>4, ListedPiece
    <3>4. InRoot(d) = InRoot(c)
      BY <2>3 DEF InRoot
    <3> QED
      BY <1>6, <3>2, <3>3, <3>4
  <2>5. d.at \in Listing /\ dir = EntriesIn(volume, d.cur)
    BY <2>2, <2>3
  <2>6. Listed(EntriesIn(volume, d.cur), c) /\ Tidy(EntriesIn(volume, d.cur), InRoot(d))
            => Listed(EntriesIn(volume, d.cur), d)
    BY <2>4, <2>5
  <2> QED
    BY <1>1, <1>3, <2>1, <2>3, <2>5, <2>6, ListGoesOn
<1> QED
    BY <1>5, <1>6

(* A file that was found is read: nobody walks.                              *)
LEMMA ReadFoundKeeps == ASSUME TreeInv, NEW p \in Callers, ReadFound(p) PROVE TreeInv'
<1>1. call' = [q \in Callers |-> Outside] /\ UNCHANGED <<volume, rootCount>>
    BY DEF ReadFound, Open, file
<1>2. Shape(volume, Outside) /\ Excused(volume, Outside)
    BY DEF Standing, Shape, Outside, Scanning, Listing, Excused
<1> QED
    BY <1>1, <1>2 DEF TreeInv, CallOK

LEMMA TreeInit == FatInit => TreeInv
<1> SUFFICES ASSUME FatInit PROVE TreeInv
    OBVIOUS
<1>1. Shape(volume, Outside) /\ Excused(volume, Outside)
    BY DEF Standing, Shape, Outside, Scanning, Listing, Excused
<1>2. /\ volume \in Volumes /\ call = [p \in Callers |-> Outside]
      /\ rootCount = IF volume.fat32 THEN 0 ELSE Len(volume.root)
    BY DEF FatInit, Init
<1> QED
    BY <1>1, <1>2 DEF TreeInv, CallOK

LEMMA TreeStep == TreeInv /\ [FatNext]_fatVars => TreeInv'
<1> SUFFICES ASSUME TreeInv, [FatNext]_fatVars PROVE TreeInv'
    OBVIOUS
<1>1. ASSUME UNCHANGED <<volume, rootCount, call>> PROVE TreeInv'
    BY <1>1 DEF TreeInv
<1>2. ASSUME NEW p \in Callers, Walk(p) PROVE TreeInv'
  <2>1. CASE Call(p)
    BY <2>1, CallKeeps
  <2>2. CASE SkipEmpty(p)
    BY <2>2, SkipEmptyKeeps
  <2>3. CASE EnterDir(p)
    BY <2>3, EnterDirKeeps
  <2>4. CASE NotDir(p)
    BY <2>4, NotDirKeeps
  <2>5. CASE ReadNamed(p)
    BY <2>5, ReadNamedKeeps
  <2>6. CASE ListNamed(p)
    BY <2>6, ListNamedKeeps
  <2>7. CASE CountClusters(p)
    BY <2>7, CountClustersKeeps
  <2>8. CASE BadRead(p)
    BY <2>8, BadReadKeeps
  <2>9. CASE ScanEntry(p)
    BY <2>9, ScanEntryKeeps
  <2>10. CASE RestEntry(p)
    BY <2>10, RestEntryKeeps
  <2>11. CASE RestBroken(p)
    BY <2>11, RestBrokenKeeps
  <2>12. CASE StdEntry(p)
    BY <2>12, StdEntryKeeps
  <2>13. CASE NotFound(p)
    BY <2>13, NotFoundKeeps
  <2>14. CASE ListEntry(p)
    BY <2>14, ListEntryKeeps
  <2>15. CASE ListRest(p)
    BY <2>15, ListRestKeeps
  <2>16. CASE ListStd(p)
    BY <2>16, ListStdKeeps
  <2>17. CASE NoMore(p)
    BY <2>17, NoMoreKeeps
  <2>18. CASE ReadFound(p)
    BY <2>18, ReadFoundKeeps
  <2> QED
    BY <1>2, <2>1, <2>2, <2>3, <2>4, <2>5, <2>6, <2>7, <2>8, <2>9, <2>10, <2>11, <2>12, <2>13,
       <2>14, <2>15, <2>16, <2>17, <2>18 DEF Walk
<1>3. ASSUME Next /\ UNCHANGED tree PROVE TreeInv'
  <2>1. UNCHANGED file
    BY <1>3 DEF Next, ReadFile, SkipCluster, ReadOver, ReadLast, ReadError, NextCluster, NextError
  <2> QED
    BY <1>1, <1>3, <2>1 DEF file, tree
<1>4. ASSUME UNCHANGED fatVars PROVE TreeInv'
    BY <1>1, <1>4 DEF fatVars, vars, file, tree
<1> QED
    BY <1>2, <1>3, <1>4 DEF FatNext

(* Every call stands where the names it has passed lead, and has passed no   *)
(* entry of a directory that it should have taken; unless a read failed, its *)
(* path meets a long name that belongs to no entry, or it lists what is no   *)
(* directory.                                                                *)
THEOREM TreeInvHolds == FatSpec => []TreeInv
    BY TreeInit, TreeStep, PTL DEF FatSpec

LEMMA Finished ==
    ASSUME TreeInv, NEW p \in Callers, call[p].at = "done", ~call[p].failed, ~Orphan(call[p].asked),
           call[p].op = "list" => "dir" \in Named(call[p].asked).attr
    PROVE  Result(volume, call[p])
<1> DEFINE c == call[p]
<1>1. Excused(volume, c) \/ Walks(volume, rootCount, c)
    BY Types
<1>2. ~OrphanIn(volume, c.asked) /\ (c.op = "list" => "dir" \in NamedIn(volume, c.asked).attr)
    BY OrphanIs, NamedIs
<1>3. ~Excused(volume, c)
    BY <1>2 DEF Excused
<1> QED
    BY <1>1, <1>3 DEF Walks

(* fat_read reads the file its path names by the rules of the format, and    *)
(* answers -1 for what is none: in every volume, whatever its directories    *)
(* hold and whichever other calls walk through them.                         *)
THEOREM PathIsFound == FatSpec => []PathFound
<1>1. TreeInv => PathFound
  <2> SUFFICES ASSUME TreeInv, NEW p \in Callers, call[p].at = "done", call[p].op = "read",
                      ~call[p].failed, ~Orphan(call[p].asked)
               PROVE  call[p].answer = Found(Named(call[p].asked))
    BY DEF PathFound, Found
  <2>1. Result(volume, call[p])
    BY Finished
  <2> QED
    BY <2>1, NamedIs DEF Result
<1> QED
    BY <1>1, TreeInvHolds, PTL

(* fat_readdir answers the long names of a tidy directory in their order,    *)
(* each once with its type, and then none: in every volume, whichever other  *)
(* calls walk through it and count the clusters of its root.                 *)
THEOREM ListingIsExact == FatSpec => []ListingExact
<1>1. TreeInv => ListingExact
  <2> SUFFICES ASSUME TreeInv, NEW p \in Callers, call[p].at = "done", call[p].op = "list",
                      ~call[p].failed, ~Orphan(call[p].asked),
                      "dir" \in Named(call[p].asked).attr,
                      Tidy(DirOf(Named(call[p].asked)), Named(call[p].asked).kind = "root")
               PROVE  ListedAt(DirOf(Named(call[p].asked)), Named(call[p].asked).kind = "root",
                               call[p].place, call[p].answer)
    BY DEF ListingExact, ListedAt
  <2> DEFINE e == Named(call[p].asked)
  <2>1. Result(volume, call[p])
    BY Finished
  <2>2. e = NamedIn(volume, call[p].asked)
    BY NamedIs
  <2>3. DirOf(e) = EntriesIn(volume, e) /\ (InRoot([cur |-> e]) = (e.kind = "root"))
    BY DEF DirOf, EntriesIn, InRoot
  <2> HIDE DEF e
  <2>4. Tidy(EntriesIn(volume, e), InRoot([cur |-> e])) =>
            ListedAt(EntriesIn(volume, e), InRoot([cur |-> e]), call[p].place, call[p].answer)
    BY <2>1, <2>2 DEF Result
  <2> QED
    BY <2>3, <2>4 DEF e
<1> QED
    BY <1>1, TreeInvHolds, PTL
=============================================================================
