------------------------------ MODULE FileRead ------------------------------
(***************************************************************************)
(* Reading a file: read_file and read_cluster of kernel/fs/fat.c walk the  *)
(* clusters of a file, disk_read of kernel/dev/disk.c bounds each piece by *)
(* the disk, ata_read of driver/ata.c turns it into sectors and copies the *)
(* bytes asked for.  A byte of the drive is its address; the buffer says   *)
(* which byte of the drive each place got.                                 *)
(***************************************************************************)
EXTENDS Integers, Sequences, FiniteSets

CONSTANTS SectorSize,       \* ATA_SECTOR_SIZE
          Volumes,          \* the FAT volumes, each a whole drive
          Clusters,         \* cluster numbers files can have
          Word              \* _size_t counts modulo Word

ASSUME FileReadAssumption ==
    /\ SectorSize \in Nat \ {0} /\ Word \in Nat \ {0} /\ IsFiniteSet(Clusters)
    /\ \A v \in Volumes :
        /\ v.clusterSectors \in Nat \ {0} /\ v.dataSector \in Nat /\ v.sectors \in Nat
        /\ \A c \in Clusters :
            c \in Nat \ {0, 1} /\ v.dataSector + (c - 1) * v.clusterSectors <= v.sectors

LeastOf(a, b) == IF a < b THEN a ELSE b

VARIABLES volume,       \* cluster_sectors, the first data sector and ata_sectors[n]
          chain,        \* the clusters of the file, in order
          size,         \* file_size
          asked,        \* the request: count and offset
          pc,
          cluster,      \* locals of read_cluster ...
          count,
          offset,
          bufOffset,
          n,            \* ... and its answer
          buf,          \* what has been written where: [index |-> address]
          tableErr      \* ghost: a read of the file allocation table failed

file == <<volume, chain, size>>
ClusterSize == volume.clusterSectors * SectorSize
DataStart == volume.dataSector * SectorSize
locals == <<cluster, count, offset, bufOffset, n>>
vars == <<file, asked, pc, locals, buf, tableErr>>

Chains == UNION {{s \in [1 .. k -> Clusters] : \A i, j \in 1 .. k : s[i] = s[j] => i = j}
                 : k \in 1 .. Cardinality(Clusters)}
Sizes(s) == (Len(s) - 1) * ClusterSize + 1 .. Len(s) * ClusterSize

Init ==
    /\ volume \in Volumes
    /\ chain = <<>> /\ size = 0
    /\ asked = [count |-> 0, offset |-> 0]
    /\ pc = "idle"
    /\ cluster = 0 /\ count = 0 /\ offset = 0 /\ bufOffset = 0 /\ n = 0
    /\ buf = [k \in {} |-> 0]
    /\ tableErr = FALSE

(* The entry of a file is found; it may have any clusters in any order.      *)
Open ==
    /\ chain = <<>>
    /\ chain' \in Chains
    /\ size' \in Sizes(chain')
    /\ UNCHANGED <<volume, asked, pc, locals, buf, tableErr>>

-----------------------------------------------------------------------------
(* ata_read answers how many bytes it copies.  A read that ends in the last  *)
(* sector of the drive is cut before it.                                     *)
AtaCount(want, at) ==
    LET first == at \div SectorSize
        behind == (at + want + SectorSize - 1) \div SectorSize
        last == IF behind >= volume.sectors THEN volume.sectors - 1 ELSE behind
        start == at % SectorSize
    IN IF first >= volume.sectors \/ last = first THEN 0
       ELSE LeastOf(want, (last - first) * SectorSize - start)

DiskSize == volume.sectors * SectorSize
DiskCount(want, at) == AtaCount(IF want + at > DiskSize THEN DiskSize - at ELSE want, at)

(* The product is of _size_t and wraps; start_cluster is 64 bits wide.       *)
ClusterAddress(c) == DataStart + (((c - 2) * ClusterSize) % Word)

(* What ata_read_data leaves in the buffer after got bytes from address at.  *)
Copy(place, got, at) ==
    [k \in DOMAIN buf \cup place .. place + got - 1 |->
        IF k \in place .. place + got - 1 THEN at + (k - place) ELSE buf[k]]

-----------------------------------------------------------------------------
ReadFileUncut ==                            \* mutation: count is not cut at the file's end
    /\ pc = "idle"
    /\ \E c \in 1 .. size, o \in 0 .. size :
        /\ asked' = [count |-> c, offset |-> o]
        /\ count' = c
        /\ offset' = o
        /\ pc' = IF o >= size THEN "done" ELSE "cluster"
    /\ cluster' = chain[1]
    /\ UNCHANGED <<file, bufOffset, n, buf, tableErr>>

(* read_file: nothing behind the end of the file.                            *)
ReadFile ==
    /\ pc = "idle"
    /\ \E c \in 1 .. size, o \in 0 .. size :
        /\ asked' = [count |-> c, offset |-> o]
        /\ count' = IF o + c > size THEN size - o ELSE c
        /\ offset' = o
        /\ pc' = IF o >= size THEN "done" ELSE "cluster"
    /\ cluster' = chain[1]
    /\ UNCHANGED <<file, bufOffset, n, buf, tableErr>>

(* One cluster of read_cluster's loop.  It lies before the data ...          *)
SkipCluster ==
    /\ pc = "cluster" /\ offset >= ClusterSize
    /\ offset' = offset - ClusterSize
    /\ pc' = "next"
    /\ UNCHANGED <<file, asked, cluster, count, bufOffset, n, buf, tableErr>>

ReadOverStays ==                            \* mutation: buf_offect does not advance
    /\ pc = "cluster" /\ offset < ClusterSize /\ offset + count > ClusterSize
    /\ LET at == ClusterAddress(cluster) + offset
           got == DiskCount(ClusterSize - offset, at)
       IN n' = n + got /\ buf' = Copy(bufOffset, got, at)
    /\ count' = count - (ClusterSize - offset)
    /\ offset' = 0
    /\ pc' = "next"
    /\ UNCHANGED <<file, asked, cluster, bufOffset, tableErr>>

(* ... or the data go on behind it: offect is 0 again when buf_offect is     *)
(* advanced by cluster_size - offect ...                                     *)
ReadOver ==
    /\ pc = "cluster" /\ offset < ClusterSize /\ offset + count > ClusterSize
    /\ LET at == ClusterAddress(cluster) + offset
           got == DiskCount(ClusterSize - offset, at)
       IN n' = n + got /\ buf' = Copy(bufOffset, got, at)
    /\ count' = count - (ClusterSize - offset)
    /\ offset' = 0
    /\ bufOffset' = bufOffset + ClusterSize
    /\ pc' = "next"
    /\ UNCHANGED <<file, asked, cluster, tableErr>>

(* ... or end in it.                                                         *)
ReadLast ==
    /\ pc = "cluster" /\ offset < ClusterSize /\ offset + count <= ClusterSize
    /\ LET at == ClusterAddress(cluster) + offset
           got == DiskCount(count, at)
       IN n' = n + got /\ buf' = Copy(bufOffset, got, at)
    /\ pc' = "done"
    /\ UNCHANGED <<file, asked, cluster, count, offset, bufOffset, tableErr>>

(* The drive reports an error for the data.                                  *)
ReadError ==
    /\ pc = "cluster" /\ offset < ClusterSize
    /\ n' = -1
    /\ pc' = "done"
    /\ UNCHANGED <<file, asked, cluster, count, offset, bufOffset, buf, tableErr>>

(* next_cluster: the entry of the table, 0 behind the last cluster.          *)
NextOf(c) ==
    LET i == CHOOSE k \in DOMAIN chain : chain[k] = c
    IN IF i = Len(chain) THEN 0 ELSE chain[i + 1]

NextCluster ==
    /\ pc = "next"
    /\ cluster' = NextOf(cluster)
    /\ pc' = IF cluster' = 0 THEN "done" ELSE "cluster"
    /\ UNCHANGED <<file, asked, count, offset, bufOffset, n, buf, tableErr>>

(* next_cluster ignores disk_read's answer; the entry stays 0, the file ends *)
NextError ==
    /\ pc = "next"
    /\ cluster' = 0
    /\ pc' = "done"
    /\ tableErr' = TRUE
    /\ UNCHANGED <<file, asked, count, offset, bufOffset, n, buf>>

Next ==
    \/ ReadFile \/ SkipCluster \/ ReadOver \/ ReadLast \/ ReadError
    \/ NextCluster \/ NextError

-----------------------------------------------------------------------------
(* The byte of the drive that is byte k of the file.                         *)
ByteOf(k) ==
    DataStart + (chain[(k \div ClusterSize) + 1] - 2) * ClusterSize + (k % ClusterSize)
Wanted == LeastOf(asked.count, size - asked.offset)

(* The request starts inside a cluster and goes on behind it: the program    *)
(* misplaces what follows.                                                   *)
Straddles ==
    /\ asked.offset % ClusterSize # 0
    /\ (asked.offset % ClusterSize) + Wanted > ClusterSize

(* A cluster of the file is further from cluster 2 than _size_t counts.      *)
TooFar == \E i \in DOMAIN chain : (chain[i] - 2) * ClusterSize >= Word

(* The file's bytes asked for touch the last sector of the drive.            *)
TouchesEnd == \E k \in asked.offset .. asked.offset + Wanted - 1 :
    ByteOf(k) >= (volume.sectors - 1) * SectorSize

(* At every moment each byte in the buffer is the byte of the file that      *)
(* belongs there, and lies in the buffer the caller gave: partial reads,     *)
(* errors and the missing last sector leave gaps, never wrong bytes.         *)
BytesInPlace ==
    ~Straddles /\ ~TooFar => \A k \in DOMAIN buf :
        k < asked.count /\ buf[k] = ByteOf(asked.offset + k)

(* The answer is the number of bytes the file has of those asked for, all of *)
(* them in the buffer, or -1; it is less only if the table could not be read *)
(* or the drive's last sector was needed.                                    *)
AnswerExact ==
    pc = "done" /\ n # -1 /\ ~Straddles /\ ~TooFar /\ ~tableErr /\ ~TouchesEnd =>
        /\ n = IF asked.offset >= size THEN 0 ELSE Wanted
        /\ DOMAIN buf = 0 .. n - 1
=============================================================================
