----------------------------- MODULE FatGeometry -----------------------------
(***************************************************************************)
(* `ComputeGeometry` (internal/image/fat32.go): cluster size and length of *)
(* the FATs for a partition of so many sectors.                            *)
(***************************************************************************)
EXTENDS Integers

RsvdSecCnt == 32
NumFATs == 2
EntriesPerSector == 128
MinFAT32Clusters == 65525
MaxClusters == 4194304
SecPerClus == {1, 2, 4, 8, 16, 32, 64}

\* Sectors of one FAT when a cluster has s sectors.
FATSize(total, s) ==
    LET perSector == (256 * s + NumFATs) \div 2
    IN  (total - RsvdSecCnt + perSector - 1) \div perSector

ClustersOf(total, s) == (total - RsvdSecCnt - NumFATs * FATSize(total, s)) \div s

\* The smallest cluster that leaves no more clusters than a FAT should hold, if
\* there are then enough of them; the search stops where there are too few.
Chosen(total) ==
    {s \in SecPerClus :
        /\ ClustersOf(total, s) >= MinFAT32Clusters
        /\ ClustersOf(total, s) <= MaxClusters
        /\ \A r \in SecPerClus : r < s => ClustersOf(total, r) > MaxClusters}

\* Whether a partition can be laid out at all.
HasGeometry(total) == total >= 1024 /\ Chosen(total) # {}

\* A layout of so many sectors in which the FATs hold every cluster's entry and
\* the two reserved ones, and the clusters end within the partition.
Fits(total, s) ==
    /\ RsvdSecCnt + NumFATs * FATSize(total, s) + s * ClustersOf(total, s) <= total
    /\ ClustersOf(total, s) + 2 <= EntriesPerSector * FATSize(total, s)
=============================================================================
