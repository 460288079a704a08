------------------------------ MODULE ImageBuild ------------------------------
(***************************************************************************)
(* `Builder.Build` (internal/image/builder.go with mbr.go, grub.go and     *)
(* grub_efi.go): a loader image written step by step into a file that may  *)
(* hold an earlier image, on volumes of FatVolume, with a donor's boot area*)
(* or GRUB of its own. An image that was built is kept under another name as *)
(* well and may be the donor of a later build.                             *)
(*                                                                         *)
(* Sizes are in MiB; partition 1 starts at one (FirstPartitionLBA).        *)
(***************************************************************************)
EXTENDS FatVolume, FatGeometry

CONSTANTS
    Jobs,     \* [total, p1, p2, p4, pack, efi, donor, files]: what may be asked for
    Foreign,  \* loaders made by another program: name -> [start, readable, files]
    EfiFiles, \* what writeEFIToFAT puts on partition 1
    Stub,     \* what writeSynoBootLoaderStub puts there
    Generated,\* the paths a donor's copy of is never taken
    MaxBuilds,
    None

ASSUME JobsAssumption ==
    \A j \in Jobs : /\ {j.total, j.p1, j.p2, j.p4, j.pack} \subseteq Nat
                    /\ j.donor \in {None, "kept", "path"} \cup DOMAIN Foreign
                    /\ DOMAIN j.files = 1 .. 3

VARIABLES
    job,    \* what the running build was asked for, or None
    stage,  \* the step it is at
    at,     \* the partition being filled
    todo,   \* files still to be added to it
    vol,    \* its volume in memory
    donated,\* files taken from the donor
    path,   \* what is at the path of the image: None or an image
    kept,   \* a copy of a whole image, or None
    builds

vars == <<job, stage, at, todo, vol, donated, path, kept, builds>>

NoImage == [boot |-> None, table |-> <<>>, pack |-> 0, disks |-> <<>>, whole |-> FALSE]

Folded(p) == [i \in DOMAIN p |-> Fold[p[i]]]

(***************************************************************************)
(* The layout.                                                             *)
(***************************************************************************)

\* The partitions in order; the fourth when a pack is carried.
Parts(j) ==
    LET p3 == 1 + j.p1 + j.p2
        rest == j.total - p3
    IN  <<[start |-> 1, len |-> j.p1], [start |-> 1 + j.p1, len |-> j.p2],
          [start |-> p3, len |-> rest - j.p4]>>
        \o IF j.p4 > 0 THEN <<[start |-> j.total - j.p4, len |-> j.p4]>> ELSE <<>>

MinPartitionMB == 48
MinImageMB == MinPartitionMB * 3 + 16

\* What is refused before anything is created.
Refused(j) ==
    \/ j.total < MinImageMB \/ j.p1 < MinPartitionMB \/ j.p2 < MinPartitionMB
    \/ 1 + j.p1 + j.p2 >= j.total
    \/ j.p4 >= j.total - (1 + j.p1 + j.p2)
    \/ \E i \in 1 .. 3 : ~HasGeometry(2048 * Parts(j)[i].len)

Init ==
    /\ job = None /\ stage = "idle" /\ at = 1 /\ todo = <<>> /\ vol = FormatFAT32
    /\ donated = <<>> /\ path = None /\ kept = None /\ builds = 0

(***************************************************************************)
(* One build.                                                              *)
(***************************************************************************)

\* Refused, or the path opened and emptied whatever it held.
Start(j) ==
    /\ stage = "idle" /\ builds < MaxBuilds
    /\ ~Refused(j)
    /\ job' = j /\ stage' = "boot" /\ path' = NoImage /\ donated' = <<>>
    /\ builds' = builds + 1
    /\ UNCHANGED <<at, todo, vol, kept>>

\* Mutant: the file is closed and left.
FailKeeping ==
    /\ job' = None /\ stage' = "idle" /\ at' = 1 /\ todo' = <<>> /\ vol' = FormatFAT32
    /\ donated' = <<>> /\ UNCHANGED <<path, kept, builds>>

\* Every error after that closes the file and removes it.
Fail ==
    /\ job' = None /\ stage' = "idle" /\ at' = 1 /\ todo' = <<>> /\ vol' = FormatFAT32
    /\ donated' = <<>> /\ path' = None /\ UNCHANGED <<kept, builds>>

\* Any write or read may fail.
IOError == stage # "idle" /\ stage # "close" /\ Fail

\* Where the donor's first partition starts and what can be read from it. The
\* path itself was emptied a moment ago.
DonorDisk(d) ==
    CASE d \in DOMAIN Foreign -> Foreign[d]
      [] d = "kept" /\ kept # None ->
            [start |-> kept.table[1].start, readable |-> TRUE, files |-> WalkAll(kept.disks[1])]
      [] OTHER -> [start |-> 0, readable |-> FALSE, files |-> <<>>]

\* The donor's files that the build does not write itself.
DonorP1Files(d, own) ==
    LET skip == {Folded(p) : p \in Generated \cup {own[i].path : i \in DOMAIN own}}
    IN  SelectSeq(DonorDisk(d).files, LAMBDA f : Folded(f.path) \notin skip)

OwnBootArea ==
    /\ stage = "boot" /\ job.donor = None
    /\ stage' = "table" /\ path' = [path EXCEPT !.boot = "own"]
    /\ UNCHANGED <<job, at, todo, vol, donated, kept, builds>>

\* An unreadable partition 1 of the donor is a warning only.
DonorBootArea ==
    /\ stage = "boot" /\ job.donor # None /\ DonorDisk(job.donor).start = 1
    /\ stage' = "table" /\ path' = [path EXCEPT !.boot = job.donor]
    /\ donated' = IF DonorDisk(job.donor).readable
                  THEN DonorP1Files(job.donor, job.files[1]) ELSE <<>>
    /\ UNCHANGED <<job, at, todo, vol, kept, builds>>

\* No donor, no partition table on it, or a first partition behind ours.
DonorRefused ==
    /\ stage = "boot" /\ job.donor # None /\ DonorDisk(job.donor).start # 1
    /\ Fail

WriteMBR ==
    /\ stage = "table"
    /\ stage' = "pack" /\ path' = [path EXCEPT !.table = Parts(job)]
    /\ UNCHANGED <<job, at, todo, vol, donated, kept, builds>>

\* Mutant: the pack is written without looking at the room for it.
WriteP4Blindly ==
    /\ stage = "pack"
    /\ stage' = "format" /\ path' = [path EXCEPT !.pack = job.pack]
    /\ UNCHANGED <<job, at, todo, vol, donated, kept, builds>>

\* The driver pack, unless it is larger than partition 4.
WriteP4 ==
    /\ stage = "pack"
    /\ IF job.pack > job.p4 THEN Fail
       ELSE /\ stage' = "format" /\ path' = [path EXCEPT !.pack = job.pack]
            /\ UNCHANGED <<job, at, todo, vol, donated, kept, builds>>

\* What goes on a partition, in the order it is added.
FilesOf(j, gifts, i) ==
    IF i > 1 THEN j.files[i]
    ELSE gifts \o j.files[1] \o (IF j.efi THEN EfiFiles ELSE <<>>) \o Stub

Format ==
    /\ stage = "format" /\ at <= 3
    /\ stage' = "files" /\ vol' = FormatFAT32 /\ todo' = FilesOf(job, donated, at)
    /\ UNCHANGED <<job, at, donated, path, kept, builds>>

\* One file; a source may have got shorter since its size was taken.
WriteFile ==
    /\ stage = "files" /\ todo # <<>>
    /\ \E there \in {Len(Head(todo).data), Len(Head(todo).data) - 1} \cap Nat :
          LET r == AddFile(vol, Head(todo).path, Head(todo).data, there)
          IN  IF r.ok THEN /\ vol' = r.vol /\ todo' = Tail(todo)
                           /\ UNCHANGED <<job, stage, at, donated, path, kept, builds>>
              ELSE Fail

CloseVolume ==
    /\ stage = "files" /\ todo = <<>>
    /\ LET c == Close(vol)
       IN  IF c.ok THEN /\ path' = [path EXCEPT !.disks = Append(@, c.disk)]
                        /\ at' = at + 1 /\ stage' = "format" /\ vol' = FormatFAT32
                        /\ UNCHANGED <<job, todo, donated, kept, builds>>
           ELSE Fail

Sync ==
    /\ stage = "format" /\ at = 4
    /\ stage' = "close" /\ path' = [path EXCEPT !.whole = TRUE]
    /\ UNCHANGED <<job, at, todo, vol, donated, kept, builds>>

\* The file closed. An error here is returned, and the image stays.
CloseImage ==
    /\ stage = "close"
    /\ job' = None /\ stage' = "idle" /\ at' = 1 /\ donated' = <<>>
    /\ kept' \in {kept, path}
    /\ UNCHANGED <<todo, vol, path, builds>>

Next ==
    \/ \E j \in Jobs : Start(j)
    \/ IOError \/ OwnBootArea \/ DonorBootArea \/ DonorRefused \/ WriteMBR \/ WriteP4
    \/ Format \/ WriteFile \/ CloseVolume \/ Sync \/ CloseImage
    \/ stage = "idle" /\ builds = MaxBuilds /\ UNCHANGED vars

Spec == Init /\ [][Next]_vars

(***************************************************************************)
(* Properties.                                                             *)
(***************************************************************************)

\* What was asked for partition i by path: the caller's own files, what Build
\* adds, and the donor's files whose path, whatever its case, none of those has.
Asked(i) ==
    LET own == Range(FilesOf(job, <<>>, i))
        taken == {Folded(f.path) : f \in own} \cup {Folded(p) : p \in Generated}
    IN  own \cup IF i > 1 \/ job.donor = None \/ ~DonorDisk(job.donor).readable THEN {}
             ELSE {f \in Range(DonorDisk(job.donor).files) : Folded(f.path) \notin taken}

\* A file by its name and the directories it is in, whose case is the first one's.
Found(f) == [f EXCEPT !.path = Append(Folded(Front(@)), Last(@))]

\* When a build succeeds, reading its volumes back gives every file that was
\* asked for, whole and under its own name, the donor's modules among them, and
\* nothing else (the reason for makeShortName's and AddFile's care about names).
ReadsBack ==
    stage = "close" =>
        \A i \in 1 .. 3 :
            LET got == WalkAll(path.disks[i])
            IN  /\ {Found(f) : f \in Range(got)} = {Found(f) : f \in Asked(i)}
                /\ Len(got) = Cardinality(Asked(i))

\* The first clusters of everything that has clusters on a volume.
Heads(disk) ==
    LET dirs[k \in 0 .. 4] ==
            IF k = 0 THEN {disk.root}
            ELSE dirs[k - 1] \cup
                 {e.cluster : e \in UNION {{x \in Range(ReadDir(disk, d)) : x.isDir} : d \in dirs[k - 1]}}
        files == UNION {{x \in Range(ReadDir(disk, d)) : ~x.isDir /\ x.size > 0} : d \in dirs[4]}
    IN  [dirs |-> dirs[4], all |-> dirs[4] \cup {e.cluster : e \in files}]

\* In a volume that was closed no two files or directories share a cluster, all
\* the others are free, FSInfo's count of them is right, and no two entries of a
\* directory have the same 8.3 name.
VolumesSound ==
    stage = "format" /\ at > 1 =>
        LET disk == Last(path.disks)
            heads == Heads(disk)
            of(c) == Range(Chain(disk.fats[1], c))
        IN  /\ \A c, d \in heads.all : c # d => of(c) \cap of(d) = {}
            /\ disk.free = Cardinality({c \in Clusters : disk.fats[1][c] = Free})
            /\ disk.free = Cardinality(Clusters \ UNION {of(c) : c \in heads.all})
            /\ disk.fats[1] = disk.fats[2]
            /\ \A d \in heads.dirs :
                  LET es == SelectSeq(ReadChain(disk, d), LAMBDA e : e.t = "entry")
                  IN  \A m, n \in DOMAIN es : m # n => es[m].short # es[n].short

\* Between builds there is no image at the path or a whole one whose partitions
\* lie in it one after another and hold what was put on them; "on any failure
\* the partial image is removed rather than left behind looking usable".
WholeOrNone ==
    stage = "idle" /\ path # None =>
        /\ path.whole /\ Len(path.disks) = 3
        /\ \A i, k \in DOMAIN path.table :
              i < k => path.table[i].start + path.table[i].len <= path.table[k].start
        /\ path.pack > 0 => Len(path.table) = 4 /\ path.pack <= path.table[4].len
=============================================================================
