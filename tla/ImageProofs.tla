----------------------------- MODULE ImageProofs -----------------------------
(***************************************************************************)
(* The three ways to an image: the builder of the library and the layout of*)
(* its volumes, the commands of the command line tool, and `bootstrap`.    *)
(***************************************************************************)
EXTENDS ImageBuild, CliBuild, BootstrapBuild, TLAPS

(***************************************************************************)
(* The layout `ComputeGeometry` picks, for a partition of any length.      *)
(***************************************************************************)

\* What a division leaves.
LEMMA Division ==
  ASSUME NEW a \in Int, NEW b \in Int, b > 0
  PROVE  a \div b \in Int /\ b * (a \div b) <= a /\ a < b * (a \div b) + b
OBVIOUS

\* A FAT has an entry for every sector's share, to the last.
LEMMA FATLongEnough ==
  ASSUME NEW total \in Nat, total >= 1024, NEW s \in SecPerClus
  PROVE  FATSize(total, s) \in Int /\ (128 * s + 1) * FATSize(total, s) >= total - RsvdSecCnt
<1> DEFINE per == (256 * s + NumFATs) \div 2
<1> DEFINE a == total - RsvdSecCnt + per - 1
<1>1. s \in Nat /\ s > 0
  BY DEF SecPerClus
<1>2. per = 128 * s + 1 /\ per \in Int /\ per > 0 /\ a \in Int
  BY <1>1 DEF NumFATs, RsvdSecCnt
<1>3. a \div per \in Int /\ a < per * (a \div per) + per
  <2> HIDE DEF a, per
  <2> QED
    BY <1>2, Division
<1>4. FATSize(total, s) = a \div per
  BY DEF FATSize
<1>5. a - per = total - RsvdSecCnt - 1
  BY <1>2 DEF RsvdSecCnt
<1> DEFINE f == FATSize(total, s)
<1>6. f \in Int /\ a < per * f + per
  BY <1>3, <1>4
<1>7. per * f \in Int /\ per * f = (128 * s + 1) * f
  BY <1>1, <1>2, <1>6
<1>8. total - RsvdSecCnt - 1 < per * f
  <2> HIDE DEF f, per, a
  <2>1. per * f \in Int /\ a \in Int /\ per \in Int
    BY <1>2, <1>7
  <2> QED
    BY <1>5, <1>6, <2>1 DEF RsvdSecCnt
<1> QED
  BY <1>6, <1>7, <1>8 DEF RsvdSecCnt

\* fat32.go, ComputeGeometry: whatever the partition's length, the layout that is
\* picked ends within it, and each FAT has an entry for every cluster and for
\* the two that are reserved.
THEOREM GeometryFits ==
  ASSUME NEW total \in Nat, total >= 1024, NEW s \in Chosen(total)
  PROVE  Fits(total, s)
<1> DEFINE f == FATSize(total, s)
           d == total - RsvdSecCnt - NumFATs * f
           c == ClustersOf(total, s)
<1>1. s \in {1, 2, 4, 8, 16, 32, 64} /\ c >= 65525
  BY DEF Chosen, SecPerClus, MinFAT32Clusters
<1>2. f \in Int /\ (128 * s + 1) * f >= total - 32
  BY <1>1, FATLongEnough DEF SecPerClus, RsvdSecCnt
<1>3. d \in Int /\ d = total - 32 - 2 * f
  BY <1>2 DEF RsvdSecCnt, NumFATs
<1>4. c = d \div s
  BY DEF ClustersOf
<1>5. c \in Int /\ s * c <= d
  <2> HIDE DEF d
  <2> QED
    BY <1>1, <1>3, <1>4, Division
<1>6. s * c + 2 * f <= (128 * s + 1) * f
  <2> HIDE DEF f, c
  <2>1. s * c \in Int /\ (128 * s + 1) * f \in Int
    BY <1>1, <1>2, <1>5
  <2> QED
    BY <1>2, <1>3, <1>5, <2>1
<1>7. c + 2 <= 128 * f
  <2> HIDE DEF f, c, d
  <2>1. CASE s = 1
    BY <1>1, <1>2, <1>5, <1>6, <2>1
  <2>2. CASE s = 2
    BY <1>1, <1>2, <1>5, <1>6, <2>2
  <2>3. CASE s = 4
    BY <1>1, <1>2, <1>5, <1>6, <2>3
  <2>4. CASE s = 8
    BY <1>1, <1>2, <1>5, <1>6, <2>4
  <2>5. CASE s = 16
    BY <1>1, <1>2, <1>5, <1>6, <2>5
  <2>6. CASE s = 32
    BY <1>1, <1>2, <1>5, <1>6, <2>6
  <2>7. CASE s = 64
    BY <1>1, <1>2, <1>5, <1>6, <2>7
  <2> QED
    BY <1>1, <2>1, <2>2, <2>3, <2>4, <2>5, <2>6, <2>7
<1>8. RsvdSecCnt + NumFATs * f + s * c <= total
  <2>1. s * c \in Int
    BY <1>1, <1>5
  <2> HIDE DEF f, c
  <2> QED
    BY <1>2, <1>3, <1>5, <2>1 DEF RsvdSecCnt, NumFATs
<1> QED
  BY <1>7, <1>8 DEF Fits, EntriesPerSector

(***************************************************************************)
(* The image at the path: partitions that lie in it one after another, and *)
(* between builds a whole image or none.                                   *)
(***************************************************************************)

\* No partition reaches into the next, nor past the end of the image.
InOrder(table, total) ==
    /\ \A i, k \in DOMAIN table : i < k => table[i].start + table[i].len <= table[k].start
    /\ \A i \in DOMAIN table : table[i].start >= 1 /\ table[i].start + table[i].len <= total

LEMMA ThreeAndOne ==
  ASSUME NEW a, NEW b, NEW c, NEW d
  PROVE  <<a, b, c>> \o <<d>> = <<a, b, c, d>>
<1> DEFINE S == {a, b, c, d}
           s == <<a, b, c>> \o <<d>>
           t == <<a, b, c, d>>
<1>1. <<a, b, c>> \in Seq(S) /\ <<d>> \in Seq(S) /\ t \in Seq(S)
  OBVIOUS
<1>2. Len(<<a, b, c>>) = 3 /\ Len(<<d>>) = 1 /\ Len(t) = 4
  OBVIOUS
<1>3. s \in Seq(S) /\ Len(s) = 4 /\ s[1] = a /\ s[2] = b /\ s[3] = c /\ s[4] = d
  BY <1>1, <1>2
<1>4. \A i \in 1 .. 4 : s[i] = t[i]
  BY <1>3
<1>5. s = [i \in 1 .. 4 |-> s[i]] /\ t = [i \in 1 .. 4 |-> t[i]]
  BY <1>1, <1>2, <1>3
<1> QED
  BY <1>4, <1>5

\* builder.go, layout: the partitions of a job that is not refused lie in its
\* image in order, behind the boot sector, and the fourth has the length asked.
LEMMA PartsInOrder ==
  ASSUME NEW j \in Jobs, ~Refused(j)
  PROVE  /\ InOrder(Parts(j), j.total)
         /\ j.p4 > 0 => Len(Parts(j)) = 4 /\ Parts(j)[4].len = j.p4
<1>1. j.total \in Nat /\ j.p1 \in Nat /\ j.p2 \in Nat /\ j.p4 \in Nat /\ j.pack \in Nat
  BY JobsAssumption
<1>2. /\ 1 + j.p1 + j.p2 < j.total /\ j.p4 < j.total - (1 + j.p1 + j.p2)
  BY <1>1 DEF Refused
<1> DEFINE p3 == 1 + j.p1 + j.p2
           a == [start |-> 1, len |-> j.p1]
           b == [start |-> 1 + j.p1, len |-> j.p2]
           c == [start |-> p3, len |-> j.total - p3 - j.p4]
           d == [start |-> j.total - j.p4, len |-> j.p4]
<1>3. CASE j.p4 > 0
  <2>1. Parts(j) = <<a, b, c, d>>
    <3>1. Parts(j) = <<a, b, c>> \o <<d>>
      BY <1>3 DEF Parts
    <3> HIDE DEF a, b, c, d
    <3>2. <<a, b, c>> \o <<d>> = <<a, b, c, d>>
      BY ThreeAndOne
    <3> QED
      BY <3>1, <3>2
  <2> QED
    BY <1>1, <1>2, <1>3, <2>1 DEF InOrder
<1>4. CASE j.p4 = 0
  <2>1. Parts(j) = <<a, b, c>>
    BY <1>1, <1>4 DEF Parts
  <2> QED
    BY <1>1, <1>2, <1>4, <2>1 DEF InOrder
<1> QED
  BY <1>1, <1>3, <1>4

\* A file that is being written, with n volumes on it.
Image5(p, n) ==
    /\ p = [boot |-> p.boot, table |-> p.table, pack |-> p.pack, disks |-> p.disks, whole |-> p.whole]
    /\ \E S : p.disks \in Seq(S)
    /\ Len(p.disks) = n

Sound(p) ==
    /\ \A i, k \in DOMAIN p.table : i < k => p.table[i].start + p.table[i].len <= p.table[k].start
    /\ p.pack > 0 => Len(p.table) = 4 /\ p.pack <= p.table[4].len

\* What is at the path while a build is at its steps.
WInv ==
    /\ at \in 1 .. 4
    /\ stage \in {"idle", "boot", "table", "pack", "format", "files", "close"}
    /\ stage = "idle" => WholeOrNone /\ at = 1
    /\ stage # "idle" =>
          /\ job \in Jobs /\ ~Refused(job) /\ Image5(path, at - 1)
          /\ stage \in {"boot", "table", "pack"} => at = 1 /\ path.pack = 0
          /\ stage \in {"pack", "format", "files", "close"} => path.table = Parts(job)
          /\ stage \in {"format", "files", "close"} => Sound(path)
          /\ stage = "files" => at <= 3
          /\ stage = "close" => at = 4 /\ path.whole = TRUE

LEMMA FailW == ASSUME Fail PROVE WInv'
BY DEF Fail, WInv, WholeOrNone

LEMMA StartW == ASSUME WInv, NEW j \in Jobs, Start(j) PROVE WInv'
<1>1. NoImage.disks \in Seq({}) /\ Len(NoImage.disks) = 0
  BY DEF NoImage
<1>2. Image5(NoImage, 0)
  BY <1>1 DEF Image5, NoImage
<1> QED
  BY <1>2 DEF Start, WInv, NoImage

LEMMA BootAreaW == ASSUME WInv, OwnBootArea \/ DonorBootArea PROVE WInv'
<1>1. /\ stage = "boot" /\ stage' = "table" /\ job' = job /\ at' = at
      /\ \E x : path' = [path EXCEPT !.boot = x]
  BY DEF OwnBootArea, DonorBootArea
<1>2. Image5(path, 0) /\ at = 1 /\ path.pack = 0
  BY <1>1 DEF WInv
<1>3. Image5(path', 0) /\ path'.pack = 0
  BY <1>1, <1>2 DEF Image5
<1> QED
  BY <1>1, <1>2, <1>3 DEF WInv

LEMMA TableW == ASSUME WInv, WriteMBR PROVE WInv'
<1>1. /\ stage = "table" /\ stage' = "pack" /\ job' = job /\ at' = at
      /\ path' = [path EXCEPT !.table = Parts(job)]
  BY DEF WriteMBR
<1>2. Image5(path, 0) /\ at = 1 /\ path.pack = 0
  BY <1>1 DEF WInv
<1>3. Image5(path', 0) /\ path'.pack = 0 /\ path'.table = Parts(job)
  BY <1>1, <1>2 DEF Image5
<1> QED
  BY <1>1, <1>2, <1>3 DEF WInv

LEMMA PackW == ASSUME WInv, WriteP4 PROVE WInv'
<1>1. CASE job.pack > job.p4 /\ Fail
  BY <1>1, FailW
<1>2. CASE /\ ~(job.pack > job.p4) /\ stage = "pack" /\ stage' = "format" /\ job' = job /\ at' = at
           /\ path' = [path EXCEPT !.pack = job.pack]
  <2>1. Image5(path, 0) /\ at = 1 /\ path.table = Parts(job) /\ job \in Jobs /\ ~Refused(job)
    BY <1>2 DEF WInv
  <2>2. Image5(path', 0) /\ path'.table = Parts(job) /\ path'.pack = job.pack
    BY <1>2, <2>1 DEF Image5
  <2>3. job.pack \in Nat /\ job.p4 \in Nat
    BY <2>1, JobsAssumption
  <2>4. Sound(path')
    BY <1>2, <2>1, <2>2, <2>3, PartsInOrder DEF Sound, InOrder
  <2> QED
    BY <1>2, <2>1, <2>2, <2>4 DEF WInv
<1> QED
  BY <1>1, <1>2 DEF WriteP4

LEMMA FilesW == ASSUME WInv, Format \/ WriteFile PROVE WInv'
<1>1. CASE Format
  BY <1>1 DEF Format, WInv
<1>2. CASE WriteFile
  <2>1. stage = "files"
    BY <1>2 DEF WriteFile
  <2>2. UNCHANGED <<job, stage, at, path>> \/ Fail
    BY <1>2 DEF WriteFile
  <2> QED
    BY <2>1, <2>2, FailW DEF WInv
<1> QED
  BY <1>1, <1>2

LEMMA VolumeW == ASSUME WInv, CloseVolume PROVE WInv'
<1> DEFINE c == Close(vol)
<1>1. CASE Fail
  BY <1>1, FailW
<1>2. CASE /\ stage = "files" /\ path' = [path EXCEPT !.disks = Append(@, c.disk)]
           /\ at' = at + 1 /\ stage' = "format" /\ job' = job
  <2> HIDE DEF c
  <2>1. Image5(path, at - 1) /\ at \in 1 .. 3 /\ Sound(path) /\ path.table = Parts(job)
        /\ job \in Jobs /\ ~Refused(job)
    BY <1>2 DEF WInv
  <2>2. PICK S : path.disks \in Seq(S)
    BY <2>1 DEF Image5
  <2>3. path.disks \in Seq(S \cup {c.disk})
    BY <2>2
  <2>4. Append(path.disks, c.disk) \in Seq(S \cup {c.disk}) /\ Len(Append(path.disks, c.disk)) = at
    BY <2>1, <2>3 DEF Image5
  <2>5. path'.disks = Append(path.disks, c.disk) /\ path'.table = path.table /\ path'.pack = path.pack
        /\ path' = [boot |-> path.boot, table |-> path.table, pack |-> path.pack,
                    disks |-> Append(path.disks, c.disk), whole |-> path.whole]
    BY <1>2, <2>1 DEF Image5
  <2>6. Image5(path', at' - 1)
    <3>1. at' - 1 = at
      BY <1>2, <2>1
    <3> DEFINE ds == Append(path.disks, c.disk)
    <3>2. \E T : ds \in Seq(T)
      BY <2>4
    <3> HIDE DEF ds
    <3>3. path'.disks = ds /\ Len(ds) = at
      BY <2>4, <2>5 DEF ds
    <3>4. path' = [boot |-> path'.boot, table |-> path'.table, pack |-> path'.pack,
                   disks |-> path'.disks, whole |-> path'.whole]
      BY <2>5
    <3> QED
      BY <3>1, <3>2, <3>3, <3>4 DEF Image5
  <2> QED
    BY <1>2, <2>1, <2>5, <2>6 DEF WInv, Sound
<1> QED
  BY <1>1, <1>2 DEF CloseVolume

LEMMA SyncW == ASSUME WInv, Sync PROVE WInv'
<1>1. /\ stage = "format" /\ at = 4 /\ stage' = "close" /\ path' = [path EXCEPT !.whole = TRUE]
      /\ job' = job /\ at' = at
  BY DEF Sync
<1>2. Image5(path, at - 1) /\ Sound(path) /\ path.table = Parts(job) /\ job \in Jobs /\ ~Refused(job)
  BY <1>1 DEF WInv
<1>3. path' = [boot |-> path.boot, table |-> path.table, pack |-> path.pack, disks |-> path.disks, whole |-> TRUE]
  BY <1>1, <1>2 DEF Image5
<1>4. Image5(path', at - 1) /\ path'.table = path.table /\ path'.pack = path.pack /\ path'.whole = TRUE
  BY <1>2, <1>3 DEF Image5
<1> QED
  BY <1>1, <1>2, <1>4 DEF WInv, Sound

LEMMA CloseW == ASSUME WInv, CloseImage PROVE WInv'
<1>1. stage = "close" /\ stage' = "idle" /\ at' = 1 /\ path' = path
  BY DEF CloseImage
<1>2. path.whole = TRUE /\ Sound(path) /\ Image5(path, 3)
  BY <1>1 DEF WInv
<1> QED
  BY <1>1, <1>2 DEF WInv, WholeOrNone, Sound, Image5

\* Builder.Build: after a build that failed anywhere nothing is at the path, and
\* what is there after one that did not has all its volumes, in partitions that
\* lie in it one after another, for any jobs that are asked for.
THEOREM WholeOrNoneCorrect == Spec => []WholeOrNone
<1>1. Init => WInv
  BY DEF Init, WInv, WholeOrNone
<1>2. WInv /\ [Next]_vars => WInv'
  <2> SUFFICES ASSUME WInv, [Next]_vars PROVE WInv'
    OBVIOUS
  <2>1. CASE UNCHANGED vars
    BY <2>1 DEF vars, WInv, WholeOrNone, Sound, Image5
  <2>2. CASE IOError \/ DonorRefused
    BY <2>2, FailW DEF IOError, DonorRefused
  <2> QED
    BY <2>1, <2>2, StartW, BootAreaW, TableW, PackW, FilesW, VolumeW, SyncW, CloseW DEF Next
<1>3. WInv => WholeOrNone
  BY DEF WInv, WholeOrNone
<1> QED
  BY <1>1, <1>2, <1>3, PTL DEF Spec

(***************************************************************************)
(* The command line's builds: every variable keeps its type.               *)
(***************************************************************************)

Serials == [model : CliModels \cup {"typed"}, n : Nat]
Stages == {"empty", "fetched", "extracted", "patched"}
Or(S) == S \cup {Nothing}

StateFiles == [hash : Or(Configs), stage : Stages, serial : Or(Serials)]
Unpacked == [zImage : Or(Releases), rd : Or(Releases), version : Or(Releases)]
PatchedRds == [of : Or(Releases), for : Or(Configs)]
PatchedFiles == [z : Or(Releases), rd : Or(PatchedRds)]

CliTypeOK ==
    /\ yaml \in Or(Configs)
    /\ state \in StateFiles
    /\ cached \in [Names2 -> Or(Releases)]
    /\ dsm \in Unpacked
    /\ patched \in PatchedFiles
    /\ ids \in Nat /\ commands \in Nat
    /\ told \in Or(Serials)
    /\ done \in 0 .. 3

LEMMA CliTypeInit == CliInit => CliTypeOK
BY DEF CliInit, CliTypeOK, Or, StateFiles, Stages, Unpacked, PatchedFiles

LEMMA ResolvedType ==
  ASSUME CliTypeOK, yaml # Nothing, NEW b \in BOOLEAN
  PROVE  Resolved(b) \in Serials
<1>1. yaml.model \in CliModels
  BY ConfigsAssumption DEF CliTypeOK, Or
<1>2. Typed \in Serials /\ [model |-> yaml.model, n |-> ids + 1] \in Serials
  BY <1>1 DEF Typed, Serials, CliTypeOK
<1>3. KeptSerial # Nothing => KeptSerial \in Serials
  BY DEF KeptSerial, CliTypeOK, StateFiles, Or
<1> QED
  BY <1>2, <1>3 DEF Resolved

\* What a command saves.
LEMMA StateSaved ==
  ASSUME yaml \in Configs, NEW s \in Stages, NEW i \in Or(Serials)
  PROVE  SavedState(s, i) \in StateFiles
BY DEF SavedState, StateFiles, Or

LEMMA CliTypeStep == ASSUME CliTypeOK, [CliNext]_cliVars PROVE CliTypeOK'
<1>1. CASE UNCHANGED cliVars
  BY <1>1 DEF cliVars, CliTypeOK
<1>2. ASSUME NEW c \in Configs, WriteConfig(c) PROVE CliTypeOK'
  BY <1>2 DEF WriteConfig, Command, CliTypeOK, Or
<1>3. ASSUME NEW b \in BOOLEAN, Identity(b) PROVE CliTypeOK'
  <2>1. Resolved(b) \in Serials /\ yaml \in Configs /\ yaml' = yaml
    BY <1>3, ResolvedType DEF Identity, Loaded, CliTypeOK, Or
  <2>2. SavedState(state.stage, Resolved(b)) \in StateFiles
    BY <2>1, StateSaved DEF CliTypeOK, Or, StateFiles
  <2>3. state' \in StateFiles /\ told' \in Or(Serials) /\ ids' \in Nat /\ commands' \in Nat
    BY <1>3, <2>1, <2>2 DEF Identity, Loaded, Command, CliTypeOK, Or
  <2> QED
    BY <1>3, <2>3 DEF Identity, CliTypeOK
<1>4. ASSUME NEW b \in BOOLEAN, Patch(b) PROVE CliTypeOK'
  <2>1. yaml \in Configs /\ commands' \in Nat
    BY <1>4 DEF Patch, Loaded, Command, CliTypeOK, Or
  <2>2. state' \in StateFiles
    BY <1>4, <2>1, StateSaved DEF Patch, CliTypeOK, Or, Stages, StateFiles
  <2>3. [of |-> dsm.rd, for |-> yaml] \in PatchedRds
    BY <1>4, <2>1 DEF Patch, CliTypeOK, Unpacked, PatchedRds, Or
  <2>4. patched' \in PatchedFiles
    BY <1>4, <2>3 DEF Patch, CliTypeOK, Unpacked, PatchedFiles, Or
  <2> QED
    BY <1>4, <2>1, <2>2, <2>4 DEF Patch, CliTypeOK
<1>5. ASSUME NEW b \in BOOLEAN, Image(b) PROVE CliTypeOK'
  <2>1. ids' \in {ids, ids + 1} /\ commands' = commands + 1
    BY <1>5 DEF Image, Loaded, Command
  <2>2. UNCHANGED <<yaml, state, cached, dsm, patched, told, done>>
    BY <1>5 DEF Image
  <2> QED
    BY <2>1, <2>2 DEF CliTypeOK
<1>6. ASSUME NEW r \in Releases, NEW checked \in BOOLEAN, FetchPat(r, checked) PROVE CliTypeOK'
  <2>1. yaml \in Configs /\ commands' \in Nat
    BY <1>6 DEF FetchPat, Loaded, Command, CliTypeOK, Or
  <2>2. state' \in StateFiles
    BY <1>6, <2>1, StateSaved DEF FetchPat, CliTypeOK, Or, Stages, StateFiles
  <2>3. PatCachePath \in Names2
    BY <2>1 DEF PatCachePath, Names2
  <2>4. cached' \in [Names2 -> Or(Releases)]
    BY <1>6, <2>3 DEF FetchPat, CliTypeOK, Or
  <2> QED
    BY <1>6, <2>1, <2>2, <2>4 DEF FetchPat, CliTypeOK
<1>7. ASSUME NEW r \in Releases, NEW checked \in BOOLEAN, FetchFails(r, checked) PROVE CliTypeOK'
  <2>1. commands' \in Nat
    BY <1>7 DEF FetchFails, Loaded, Command, CliTypeOK
  <2>2. cached' \in [Names2 -> Or(Releases)]
    BY <1>7 DEF FetchFails, CliTypeOK, Or
  <2> QED
    BY <1>7, <2>1, <2>2 DEF FetchFails, CliTypeOK
<1>8. CASE Extract \/ ExtractFails
  <2>1. yaml \in Configs /\ commands' \in Nat
    BY <1>8 DEF Extract, ExtractFails, Loaded, Command, CliTypeOK, Or
  <2>2. PatCachePath \in Names2
    BY <2>1 DEF PatCachePath, Names2
  <2>3. cached[PatCachePath] \in Or(Releases)
    BY <2>2 DEF CliTypeOK
  <2>4. CASE Extract
    <3>1. state' \in StateFiles
      BY <2>4, <2>1, StateSaved DEF Extract, CliTypeOK, Or, Stages, StateFiles
    <3>2. dsm' \in Unpacked
      BY <2>4, <2>3 DEF Extract, Unpacked
    <3> QED
      BY <2>4, <2>1, <3>1, <3>2 DEF Extract, CliTypeOK
  <2>5. CASE ExtractFails
    <3>1. PICK written \in SUBSET {"zImage", "rd", "version"} :
             dsm' = [f \in DOMAIN dsm |-> IF f \in written THEN cached[PatCachePath] ELSE dsm[f]]
      BY <2>5 DEF ExtractFails
    <3>2. dsm' \in Unpacked
      BY <2>3, <3>1 DEF CliTypeOK, Unpacked
    <3> QED
      BY <2>5, <2>1, <3>2 DEF ExtractFails, CliTypeOK
  <2> QED
    BY <1>8, <2>4, <2>5
<1>9. CASE PatchKilled
  <2>1. yaml \in Configs /\ commands' \in Nat
    BY <1>9 DEF PatchKilled, Loaded, Command, CliTypeOK, Or
  <2>2. [of |-> dsm.rd, for |-> yaml] \in PatchedRds
    BY <1>9, <2>1 DEF PatchKilled, CliTypeOK, Unpacked, PatchedRds, Or
  <2>3. patched' \in PatchedFiles
    BY <1>9, <2>2 DEF PatchKilled, CliTypeOK, PatchedFiles, Or
  <2> QED
    BY <1>9, <2>1, <2>3 DEF PatchKilled, CliTypeOK
<1> QED
  BY <1>1, <1>2, <1>3, <1>4, <1>5, <1>6, <1>7, <1>8, <1>9 DEF CliNext

\* Every state of the command line tool's builds is of its types (runBuild).
THEOREM CliTypeCorrect == CliSpec => []CliTypeOK
<1>1. CliInit => CliTypeOK
  BY CliTypeInit
<1>2. CliTypeOK /\ [CliNext]_cliVars => CliTypeOK'
  BY CliTypeStep
<1> QED
  BY <1>1, <1>2, PTL DEF CliSpec

(***************************************************************************)
(* What was shown of a loader.yaml is what state.json pins, under that     *)
(* loader.yaml's hash; a typed serial is in loader.yaml itself.            *)
(***************************************************************************)

ToldIsPinned ==
    told # Nothing => /\ yaml # Nothing
                      /\ IF yaml.typed THEN told = Typed
                         ELSE state.hash = yaml /\ state.serial = told
PinnedHasHash == state.serial # Nothing => state.hash # Nothing
SInv == ToldIsPinned /\ PinnedHasHash /\ SameMachine

LEMMA SerialInit == CliInit => SInv
BY DEF CliInit, SInv, ToldIsPinned, PinnedHasHash, SameMachine

LEMMA SerialStep == ASSUME CliTypeOK, SInv, [CliNext]_cliVars PROVE SInv'
<1> USE DEF SInv, ToldIsPinned, PinnedHasHash, SameMachine
<1>1. CASE UNCHANGED cliVars
  BY <1>1 DEF cliVars
<1>2. ASSUME NEW c \in Configs, WriteConfig(c) PROVE SInv'
  BY <1>2 DEF WriteConfig
<1>3. ASSUME NEW b \in BOOLEAN, Identity(b) PROVE SInv'
  <2> DEFINE serial == Resolved(b)
  <2>1. yaml \in Configs /\ yaml' = yaml /\ yaml # Nothing /\ loader' = loader /\ told' = serial
    BY <1>3 DEF Identity, Loaded, CliTypeOK, Or
  <2>2. loader # Nothing /\ loader.told # Nothing => loader.serial = loader.told
    OBVIOUS
  <2>4. state' = IF Fresh(serial) THEN [hash |-> yaml, stage |-> state.stage, serial |-> serial]
                 ELSE state
    BY <1>3 DEF Identity, SavedState
  <2>5. PinnedHasHash'
    BY <2>1, <2>4, ConfigsAssumption
  <2>6. CASE yaml.typed
    BY <2>1, <2>2, <2>5, <2>6 DEF Resolved
  <2>7. CASE ~yaml.typed /\ ~b /\ KeptSerial # Nothing
    <3>1. serial = state.serial /\ state.hash = yaml
      BY <2>1, <2>7 DEF Resolved, KeptSerial, Stale
    <3> QED
      BY <2>1, <2>2, <2>4, <2>5, <3>1, <2>7
  <2>8. CASE ~yaml.typed /\ (b \/ KeptSerial = Nothing)
    <3>1. serial = [model |-> yaml.model, n |-> ids + 1]
      BY <2>8 DEF Resolved
    <3>2. Fresh(serial)
      BY <2>1, <3>1, ConfigsAssumption DEF Fresh
    <3> QED
      BY <2>1, <2>2, <2>4, <2>5, <3>2, <2>8
  <2> QED
    BY <2>6, <2>7, <2>8
<1>4. ASSUME NEW b \in BOOLEAN, Image(b) PROVE SInv'
  <2>1. UNCHANGED <<yaml, state, told>> /\ yaml # Nothing
    BY <1>4 DEF Image, Loaded
  <2>2. loader'.serial = Resolved(FALSE) /\ loader'.told = told
    BY <1>4 DEF Image
  <2>3. told # Nothing => Resolved(FALSE) = told
    BY <2>1 DEF Resolved, KeptSerial, Stale
  <2> QED
    BY <2>1, <2>2, <2>3
<1>5. CASE \/ \E b \in BOOLEAN : Patch(b)
           \/ \E r \in Releases, checked \in BOOLEAN : yaml # Nothing /\ FetchPat(r, checked)
           \/ Extract
  <2>1. UNCHANGED <<yaml, loader, told>> /\ yaml \in Configs /\ yaml # Nothing
    BY <1>5 DEF Patch, FetchPat, Extract, Loaded, CliTypeOK, Or
  <2>3. state'.hash = yaml /\ state'.serial = state.serial
    BY <1>5 DEF Patch, FetchPat, Extract, SavedState
  <2> QED
    BY <2>1, <2>3, ConfigsAssumption
<1>6. CASE \/ \E r \in Releases, checked \in BOOLEAN : FetchFails(r, checked)
           \/ ExtractFails \/ PatchKilled
  BY <1>6 DEF FetchFails, ExtractFails, PatchKilled
<1> QED
  BY <1>1, <1>2, <1>3, <1>4, <1>5, <1>6 DEF CliNext

\* The identity that was shown for a loader.yaml is the one every image of it
\* carries (runIdentity, runBuild).
THEOREM SameMachineCorrect == CliSpec => []SameMachine
<1>1. CliInit => SInv
  BY SerialInit
<1>2. CliTypeOK /\ SInv /\ [CliNext]_cliVars => SInv'
  BY SerialStep
<1>3. SInv => SameMachine
  BY DEF SInv
<1> QED
  BY <1>1, <1>2, <1>3, CliTypeCorrect, PTL DEF CliSpec

(***************************************************************************)
(* How far fetch, extract and patch have come since loader.yaml was        *)
(* written, and what is in work/dsm by then.                               *)
(***************************************************************************)

\* All of dsm is one release, of the version asked for.
OneRelease == /\ yaml # Nothing /\ dsm.zImage \in Releases
              /\ dsm.rd = dsm.zImage /\ dsm.version = dsm.zImage
              /\ VersionIn[dsm.zImage] = yaml.version
PatchedNow == patched.z = dsm.zImage /\ patched.rd = [of |-> dsm.rd, for |-> yaml]
RInv == /\ done >= 2 => OneRelease
        /\ done = 3 => PatchedNow
        /\ ImageOfOneRelease

LEMMA ReleaseInit == CliInit => RInv
BY DEF CliInit, RInv, ImageOfOneRelease

LEMMA ReleaseStep == ASSUME CliTypeOK, RInv, [CliNext]_cliVars PROVE RInv'
<1> USE DEF RInv
<1>0. done \in 0 .. 3
  BY DEF CliTypeOK
<1>1. CASE UNCHANGED cliVars
  BY <1>1 DEF cliVars, OneRelease, PatchedNow, ImageOfOneRelease
<1>2. ASSUME NEW c \in Configs, WriteConfig(c) PROVE RInv'
  BY <1>2 DEF WriteConfig, ImageOfOneRelease
<1>3. ASSUME NEW b \in BOOLEAN, Identity(b) PROVE RInv'
  BY <1>3 DEF Identity, OneRelease, PatchedNow, ImageOfOneRelease
<1>4. ASSUME NEW b \in BOOLEAN, Patch(b) PROVE RInv'
  <2>1. UNCHANGED <<yaml, dsm, loader>> /\ (done' >= 2 => done >= 2)
    BY <1>0, <1>4 DEF Patch
  <2>2. done' = 3 => b /\ done >= 2
    BY <1>0, <1>4 DEF Patch
  <2>3. done' = 3 => PatchedNow'
    BY <1>4, <2>1, <2>2, ConfigsAssumption DEF Patch, PatchedNow, OneRelease
  <2> QED
    BY <2>1, <2>3 DEF OneRelease, ImageOfOneRelease
<1>5. CASE PatchKilled
  BY <1>0, <1>5 DEF PatchKilled, OneRelease, ImageOfOneRelease
<1>6. ASSUME NEW r \in Releases, NEW checked \in BOOLEAN, FetchPat(r, checked) \/ FetchFails(r, checked)
      PROVE RInv'
  <2>1. done' \in {0, 1} /\ loader' = loader
    BY <1>6 DEF FetchPat, FetchFails
  <2> QED
    BY <2>1 DEF ImageOfOneRelease
<1>7. CASE Extract
  <2>1. loader' = loader /\ yaml' = yaml /\ done' \in {0, 2} /\ yaml # Nothing /\ yaml \in Configs
    BY <1>7 DEF Extract, Loaded, CliTypeOK, Or
  <2>2. cached[PatCachePath] \in Releases
    BY <1>7, <2>1 DEF Extract, Unlocked, CliTypeOK, Or, PatCachePath, Names2
  <2>3. OneRelease'
    BY <1>7, <2>1, <2>2 DEF Extract, OneRelease
  <2> QED
    BY <2>1, <2>3 DEF ImageOfOneRelease
<1>8. CASE ExtractFails
  <2>1. done' \in {0, 1} /\ loader' = loader
    BY <1>8 DEF ExtractFails
  <2> QED
    BY <2>1 DEF ImageOfOneRelease
<1>9. ASSUME NEW b \in BOOLEAN, Image(b) PROVE RInv'
  <2>1. UNCHANGED <<yaml, dsm, patched, done>>
    BY <1>9 DEF Image
  <2>2. /\ loader'.done = done /\ loader'.passthrough = b /\ loader'.for = yaml
        /\ loader'.z = Pick(b).z /\ loader'.rd = Pick(b).rd /\ loader'.originals = dsm
    BY <1>9 DEF Image
  <2>3. ASSUME done = 3, ~b
        PROVE  /\ Pick(b).z = [of |-> dsm.zImage, patched |-> TRUE]
               /\ Pick(b).rd = [of |-> dsm.rd, for |-> yaml]
    <3>1. OneRelease /\ PatchedNow /\ dsm.zImage # Nothing
      BY <2>3, ConfigsAssumption DEF OneRelease
    <3>2. patched.rd # Nothing
      <4>1. dsm.rd \in Releases /\ yaml \in Configs
        BY <3>1 DEF OneRelease, CliTypeOK, Or
      <4>2. patched.rd \in [of : Releases, for : Configs]
        BY <3>1, <4>1 DEF PatchedNow
      <4> QED
        BY <4>2, ConfigsAssumption
    <3> QED
      BY <2>3, <3>1, <3>2 DEF Pick, PatchedNow
  <2>4. dsm = [zImage |-> dsm.zImage, rd |-> dsm.rd, version |-> dsm.version]
    BY DEF CliTypeOK, Unpacked
  <2>5. ImageOfOneRelease'
    BY <2>2, <2>3, <2>4 DEF ImageOfOneRelease, OneRelease
  <2> QED
    BY <2>1, <2>5 DEF OneRelease, PatchedNow
<1> QED
  BY <1>1, <1>2, <1>3, <1>4, <1>5, <1>6, <1>7, <1>8, <1>9 DEF CliNext

\* An image built after fetch, extract and patch has the kernel and the ramdisk of
\* one archive, of the release and with the settings asked for (runBuild).
THEOREM ImageOfOneReleaseCorrect == CliSpec => []ImageOfOneRelease
<1>1. CliInit => RInv
  BY ReleaseInit
<1>2. CliTypeOK /\ RInv /\ [CliNext]_cliVars => RInv'
  BY ReleaseStep
<1>3. RInv => ImageOfOneRelease
  BY DEF RInv
<1> QED
  BY <1>1, <1>2, <1>3, CliTypeCorrect, PTL DEF CliSpec

(***************************************************************************)
(* `bootstrap`: a binary newer than a source has that source in it, so one *)
(* that is kept misses nothing.                                            *)
(***************************************************************************)

Steps == {"init?", "helper", "boot?", "builder", "parts"}
Texts == [HelperParts -> Nat] \cup [BuilderParts -> Nat] \cup [{} -> Nat]
Commands == [step : Steps, go : BOOLEAN, began : [Parts3 -> Nat], saw : Texts]
Files == {Whole, TornFile, Missing}

BootTypeOK ==
    /\ clock \in Nat /\ source \in [Parts3 -> [text : Nat, time : Nat]]
    /\ helper \in Helpers \cup {Missing}
    /\ builder \in Builders \cup {Missing}
    /\ running \in Commands \cup {Missing}
    /\ keeps \in [Cacheable -> Files]
    /\ taken \in Seq(Files)
    /\ raced \in BOOLEAN /\ edits \in Nat /\ runs \in Nat

\* Whose texts the step compiles.
Compiling(step) == IF step = "helper" THEN HelperParts ELSE BuilderParts

\* No time is ahead of the clock.
TimesPast ==
    /\ \A p \in Parts3 : source[p].time <= clock
    /\ helper # Missing => helper.time <= clock
    /\ builder # Missing => builder.time <= clock

\* A newer binary has what it is made from in it.
NewerHasIt ==
    /\ helper # Missing /\ ~raced =>
         \A p \in HelperParts : source[p].time < helper.time => helper.of[p] = source[p].text
    /\ builder # Missing /\ ~raced =>
         \A p \in BuilderParts : source[p].time < builder.time => builder.of[p] = source[p].text
    /\ builder # Missing /\ helper # Missing =>
         (helper.time < builder.time => builder.helper = helper)

\* Where the running command is, and what it has made sure of by then.
MadeSure ==
    running # Missing =>
        /\ \A p \in Parts3 : running.began[p] <= source[p].text
        /\ running.step \in {"helper", "builder"} =>
              /\ running.saw \in [Compiling(running.step) -> Nat]
              /\ \A p \in Compiling(running.step) :
                    running.began[p] <= running.saw[p] /\ (~raced => running.saw[p] = source[p].text)
        /\ running.step \in {"boot?", "builder", "parts"} =>
              /\ helper # Missing
              /\ running.go /\ ~raced => \A p \in HelperParts : helper.of[p] >= running.began[p]
        /\ running.step = "parts" =>
              /\ builder # Missing
              /\ running.go /\ ~raced =>
                    /\ builder.helper = helper
                    /\ \A p \in BuilderParts : builder.of[p] >= running.began[p]

BInv == BootTypeOK /\ TimesPast /\ NewerHasIt /\ MadeSure /\ BurnsTheFix

LEMMA PartsOf == HelperParts \subseteq Parts3 /\ BuilderParts \subseteq Parts3
BY DEF HelperParts, BuilderParts, Parts3

LEMMA BootInit == BootstrapInit => BInv
<1> SUFFICES ASSUME BootstrapInit PROVE BInv
  OBVIOUS
<1> DEFINE h == [of |-> [p \in HelperParts |-> 0], time |-> 1]
           b == [of |-> [p \in BuilderParts |-> 0], helper |-> helper, time |-> 1]
<1>1. h \in Helpers
  BY DEF Helpers
<1>2. helper \in Helpers \cup {Missing} /\ (helper # Missing => helper = h)
  BY <1>1 DEF BootstrapInit
<1>3. b \in Builders
  BY <1>2 DEF Builders
<1>4. builder \in Builders \cup {Missing} /\ (builder # Missing => builder = b)
  BY <1>3 DEF BootstrapInit
<1>5. /\ clock = 1 /\ source = [p \in Parts3 |-> [text |-> 0, time |-> 1]]
      /\ running = Missing /\ keeps = [f \in Cacheable |-> Missing] /\ taken = <<>>
      /\ burned = Missing /\ raced = FALSE /\ edits = 0 /\ runs = 0
  BY DEF BootstrapInit
<1>6. BootTypeOK
  <2>1. source \in [Parts3 -> [text : Nat, time : Nat]]
    BY <1>5
  <2>2. keeps \in [Cacheable -> Files] /\ taken \in Seq(Files)
    BY <1>5 DEF Files
  <2> QED
    BY <1>2, <1>4, <1>5, <2>1, <2>2 DEF BootTypeOK
<1>7. TimesPast /\ NewerHasIt
  BY <1>2, <1>4, <1>5, PartsOf DEF TimesPast, NewerHasIt
<1> QED
  BY <1>5, <1>6, <1>7 DEF BInv, MadeSure, BurnsTheFix

LEMMA EditBoot == ASSUME BInv, NEW p \in Parts3, Edit(p) PROVE BInv'
<1>1. /\ clock' \in Nat /\ clock' >= clock
      /\ UNCHANGED <<helper, builder, running, keeps, taken, burned, runs>>
      /\ edits' \in Nat /\ raced' \in BOOLEAN
      /\ ~raced' => ~raced
      /\ ~raced' => ~(running # Missing /\ running.step \in {"helper", "builder"}
                       /\ p \in DOMAIN running.saw)
  <2>1. clock \in Nat /\ edits \in Nat /\ raced \in BOOLEAN
    BY DEF BInv, BootTypeOK
  <2>2. clock' \in Nat /\ clock' >= clock /\ edits' \in Nat
    BY <2>1 DEF Edit, Tick
  <2> DEFINE now == running # Missing /\ running.step \in {"helper", "builder"}
                   /\ p \in DOMAIN running.saw
  <2>3. now \in BOOLEAN /\ raced' = (raced \/ now)
    BY DEF Edit
  <2>4. UNCHANGED <<helper, builder, running, keeps, taken, burned, runs>>
    BY DEF Edit
  <2>5. raced' \in BOOLEAN /\ (~raced' => ~raced) /\ (~raced' => ~now)
    <3> HIDE DEF now
    <3> QED
      BY <2>1, <2>3
  <2> QED
    BY <2>2, <2>4, <2>5
<1>2. /\ source' \in [Parts3 -> [text : Nat, time : Nat]]
      /\ source'[p].text = source[p].text + 1 /\ source'[p].time = clock'
      /\ \A q \in Parts3 \ {p} : source'[q] = source[q]
      /\ \A q \in Parts3 : source[q].text \in Nat /\ source[q].time \in Nat
  BY <1>1 DEF Edit, BInv, BootTypeOK
<1>3. BootTypeOK'
  BY <1>1, <1>2 DEF BInv, BootTypeOK
<1>4. (helper # Missing => helper.time \in Nat) /\ (builder # Missing => builder.time \in Nat)
  BY DEF BInv, BootTypeOK, Helpers, Builders
<1>a. clock \in Nat /\ TimesPast /\ NewerHasIt
  BY DEF BInv, BootTypeOK
<1>5. TimesPast'
  <2>1. \A q \in Parts3 : source'[q].time <= clock'
    BY <1>1, <1>2, <1>a DEF TimesPast
  <2> QED
    BY <1>1, <1>4, <1>a, <2>1 DEF TimesPast
<1>6. NewerHasIt'
  <2>1. ASSUME helper # Missing, ~raced', NEW q \in HelperParts, source'[q].time < helper.time
        PROVE  helper.of[q] = source'[q].text
    <3>1. q # p /\ q \in Parts3
      BY <1>1, <1>2, <1>4, <1>a, <2>1, PartsOf DEF TimesPast
    <3> QED
      BY <1>1, <1>2, <1>a, <2>1, <3>1 DEF NewerHasIt
  <2>2. ASSUME builder # Missing, ~raced', NEW q \in BuilderParts, source'[q].time < builder.time
        PROVE  builder.of[q] = source'[q].text
    <3>1. q # p /\ q \in Parts3
      BY <1>1, <1>2, <1>4, <1>a, <2>2, PartsOf DEF TimesPast
    <3> QED
      BY <1>1, <1>2, <1>a, <2>2, <3>1 DEF NewerHasIt
  <2> QED
    BY <1>1, <1>a, <2>1, <2>2 DEF NewerHasIt
<1>7. MadeSure'
  <2> SUFFICES ASSUME running # Missing PROVE MadeSure'
    BY <1>1 DEF MadeSure
  <2>1. \A q \in Parts3 : running.began[q] \in Nat
    BY DEF BInv, BootTypeOK, Commands
  <2>2. \A q \in Parts3 : running.began[q] <= source'[q].text
    BY <1>2, <2>1 DEF BInv, MadeSure
  <2>3. ASSUME running.step \in {"helper", "builder"}, NEW q \in Compiling(running.step), ~raced'
        PROVE  running.saw[q] = source'[q].text
    <3>1. q # p /\ q \in Parts3
      BY <1>1, <2>3, PartsOf DEF BInv, MadeSure, Compiling
    <3> QED
      BY <1>1, <1>2, <2>3, <3>1 DEF BInv, MadeSure
  <2> QED
    BY <1>1, <2>2, <2>3 DEF BInv, MadeSure
<1>8. BurnsTheFix'
  BY <1>1 DEF BInv, BurnsTheFix
<1> QED
  BY <1>3, <1>5, <1>6, <1>7, <1>8 DEF BInv

LEMMA RunBoot == ASSUME BInv, NEW go \in BOOLEAN, Bootstrap(go) PROVE BInv'
<1> DEFINE r == [step |-> "init?", go |-> go, saw |-> [p \in {} |-> 0],
                 began |-> [p \in Parts3 |-> source[p].text]]
<1>1. /\ UNCHANGED <<clock, source, helper, builder, keeps, burned, raced, edits>>
      /\ running' = r /\ taken' = <<>> /\ runs' \in Nat
  BY DEF Bootstrap, BInv, BootTypeOK
<1>2. r \in Commands
  BY DEF BInv, BootTypeOK, Commands, Steps, Texts
<1>3. BootTypeOK'
  BY <1>1, <1>2 DEF BInv, BootTypeOK
<1>4. TimesPast' /\ NewerHasIt' /\ BurnsTheFix'
  BY <1>1 DEF BInv, TimesPast, NewerHasIt, BurnsTheFix
<1>5. MadeSure'
  <2>1. \A p \in Parts3 : r.began[p] <= source[p].text
    BY DEF BInv, BootTypeOK
  <2> QED
    BY <1>1, <2>1 DEF MadeSure
<1> QED
  BY <1>3, <1>4, <1>5 DEF BInv

\* The newest of a binary's sources is newer than none of them.
LEMMA NewestIsNewest ==
  ASSUME BootTypeOK, NEW parts \in {HelperParts, BuilderParts}
  PROVE  Newest(parts) \in Nat /\ \A p \in parts : source[p].time <= Newest(parts)
<1> DEFINE times == {source[p].time : p \in parts}
<1>1. PICK a \in Parts3, b \in Parts3 : parts = {a, b}
  BY DEF HelperParts, BuilderParts, Parts3
<1>2. times = {source[a].time, source[b].time} /\ times \subseteq Nat
  BY <1>1 DEF BootTypeOK
<1>3. \E t \in times : \A u \in times : u <= t
  <2>1. CASE source[a].time <= source[b].time
    BY <1>2, <2>1
  <2>2. CASE source[b].time <= source[a].time
    BY <1>2, <2>2
  <2> QED
    BY <1>2, <2>1, <2>2
<1>4. Newest(parts) \in times /\ \A u \in times : u <= Newest(parts)
  BY <1>3 DEF Newest
<1> QED
  BY <1>2, <1>4

\* What a step does that only looks at a binary.
LEMMA Looked ==
  ASSUME BInv, running # Missing, NEW step \in Steps, NEW saw \in Texts, running' = AtStep(step, saw),
         UNCHANGED <<clock, source, helper, builder, keeps, taken, burned, raced, edits, runs>>
  PROVE  /\ BootTypeOK' /\ TimesPast' /\ NewerHasIt' /\ BurnsTheFix'
         /\ running'.step = step /\ running'.go = running.go /\ running'.began = running.began
         /\ running'.saw = saw
<1>1. running' \in Commands
  BY DEF AtStep, BInv, BootTypeOK, Commands
<1>2. BootTypeOK'
  BY <1>1 DEF BInv, BootTypeOK
<1> QED
  BY <1>2 DEF BInv, TimesPast, NewerHasIt, BurnsTheFix, AtStep

LEMMA InitCheckBoot == ASSUME BInv, RebuildInitBinaryIfStale PROVE BInv'
<1>1. /\ running # Missing /\ running.step = "init?"
      /\ UNCHANGED <<clock, source, helper, builder, keeps, taken, burned, raced, edits, runs>>
  BY DEF RebuildInitBinaryIfStale, Check
<1>2. /\ running.saw \in Texts /\ running.go \in BOOLEAN
      /\ \A p \in Parts3 : running.began[p] \in Nat /\ source[p].text \in Nat /\ source[p].time \in Nat
                           /\ running.began[p] <= source[p].text
  BY <1>1 DEF BInv, BootTypeOK, Commands, MadeSure
<1>3. CASE /\ Old(helper, Newest(HelperParts)) /\ running.go
           /\ running' = AtStep("helper", [p \in HelperParts |-> source[p].text])
  <2> DEFINE saw == [p \in HelperParts |-> source[p].text]
  <2>1. saw \in [HelperParts -> Nat] /\ saw \in Texts
    BY <1>2, PartsOf DEF Texts
  <2>3. /\ running'.step = "helper" /\ running'.go = running.go
        /\ running'.began = running.began /\ running'.saw = saw
    BY <1>3 DEF AtStep
  <2>4. \A p \in HelperParts : running.began[p] <= saw[p] /\ saw[p] = source[p].text
    BY <1>2, PartsOf
  <2>5. Compiling("helper") = HelperParts
    BY DEF Compiling
  <2>2. MadeSure'
    <3> HIDE DEF saw
    <3> QED
      BY <1>1, <1>2, <2>1, <2>3, <2>4, <2>5 DEF MadeSure
  <2> QED
    BY <1>1, <1>3, <2>1, <2>2, Looked DEF BInv, Steps
<1>4. CASE /\ ~(Old(helper, Newest(HelperParts)) /\ running.go) /\ helper # Missing
           /\ running' = AtStep("boot?", running.saw)
  <2>1. ASSUME running.go, ~raced, NEW p \in HelperParts PROVE helper.of[p] >= running.began[p]
    <3>1. helper.time \in Nat /\ helper.of[p] \in Nat
      BY <1>4, <2>1 DEF BInv, BootTypeOK, Helpers
    <3>2. source[p].time < helper.time
      BY <1>2, <1>4, <2>1, <3>1, NewestIsNewest, PartsOf DEF Old, BInv
    <3> QED
      BY <1>2, <1>4, <2>1, <3>1, <3>2, PartsOf DEF BInv, NewerHasIt
  <2>2. MadeSure'
    BY <1>1, <1>2, <1>4, <2>1, Looked DEF MadeSure, Steps
  <2> QED
    BY <1>1, <1>2, <1>4, <2>2, Looked DEF BInv, Steps
<1> QED
  BY <1>3, <1>4 DEF RebuildInitBinaryIfStale, Check

LEMMA BootCheckBoot == ASSUME BInv, RebuildBootBinaryIfStale PROVE BInv'
<1> DEFINE than == Later(Newest(BuilderParts), IF helper = Missing THEN 0 ELSE helper.time)
<1>1. /\ running # Missing /\ running.step = "boot?"
      /\ UNCHANGED <<clock, source, helper, builder, keeps, taken, burned, raced, edits, runs>>
  BY DEF RebuildBootBinaryIfStale, Check
<1>2. /\ running.saw \in Texts /\ running.go \in BOOLEAN
      /\ \A p \in Parts3 : running.began[p] \in Nat /\ source[p].text \in Nat /\ source[p].time \in Nat
                           /\ running.began[p] <= source[p].text
      /\ helper # Missing /\ helper.time \in Nat
      /\ running.go /\ ~raced => \A p \in HelperParts : helper.of[p] >= running.began[p]
  BY <1>1 DEF BInv, BootTypeOK, Commands, MadeSure, Helpers
<1>3. CASE /\ Old(builder, than) /\ running.go
           /\ running' = AtStep("builder", [p \in BuilderParts |-> source[p].text])
  <2> DEFINE saw == [p \in BuilderParts |-> source[p].text]
  <2>1. saw \in [BuilderParts -> Nat] /\ saw \in Texts
    BY <1>2, PartsOf DEF Texts
  <2>3. /\ running'.step = "builder" /\ running'.go = running.go
        /\ running'.began = running.began /\ running'.saw = saw
    BY <1>3 DEF AtStep
  <2>4. \A p \in BuilderParts : running.began[p] <= saw[p] /\ saw[p] = source[p].text
    BY <1>2, PartsOf
  <2>5. Compiling("builder") = BuilderParts
    BY DEF Compiling
  <2>2. MadeSure'
    <3> HIDE DEF saw
    <3> QED
      BY <1>1, <1>2, <2>1, <2>3, <2>4, <2>5 DEF MadeSure
  <2> QED
    BY <1>1, <1>3, <2>1, <2>2, Looked DEF BInv, Steps
<1>4. CASE /\ ~(Old(builder, than) /\ running.go) /\ builder # Missing
           /\ running' = AtStep("parts", running.saw)
  <2>1. ASSUME running.go, ~raced
        PROVE  builder.helper = helper /\ \A p \in BuilderParts : builder.of[p] >= running.began[p]
    <3>1. builder.time \in Nat /\ \A p \in BuilderParts : builder.of[p] \in Nat
      BY <1>4 DEF BInv, BootTypeOK, Builders
    <3>2. Newest(BuilderParts) < builder.time /\ helper.time < builder.time
          /\ Newest(BuilderParts) \in Nat
      BY <1>2, <1>4, <2>1, <3>1, NewestIsNewest DEF Old, Later, BInv
    <3>3. \A p \in BuilderParts : source[p].time < builder.time
      BY <1>2, <3>1, <3>2, NewestIsNewest, PartsOf DEF BInv
    <3> QED
      BY <1>2, <1>4, <2>1, <3>1, <3>2, <3>3, PartsOf DEF BInv, NewerHasIt
  <2>2. MadeSure'
    BY <1>1, <1>2, <1>4, <2>1, Looked DEF MadeSure, Steps
  <2> QED
    BY <1>1, <1>2, <1>4, <2>2, Looked DEF BInv, Steps
<1> QED
  BY <1>3, <1>4 DEF RebuildBootBinaryIfStale, Check

LEMMA HelperBuiltBoot == ASSUME BInv, HelperBuilt PROVE BInv'
<1>1. /\ running # Missing /\ running.step = "helper" /\ clock' \in Nat /\ clock' >= clock
      /\ UNCHANGED <<source, builder, keeps, taken, burned, raced, edits, runs>>
      /\ helper' = [of |-> running.saw, time |-> clock'] /\ running' = AtStep("boot?", running.saw)
      /\ clock \in Nat
  BY DEF HelperBuilt, Tick, BInv, BootTypeOK
<1>2. /\ running.saw \in [HelperParts -> Nat] /\ running.saw \in Texts /\ running.go \in BOOLEAN
      /\ \A p \in HelperParts : running.began[p] <= running.saw[p]
                                /\ (~raced => running.saw[p] = source[p].text)
      /\ \A p \in Parts3 : running.began[p] \in Nat /\ source[p].text \in Nat /\ source[p].time \in Nat
                           /\ running.began[p] <= source[p].text
  BY <1>1 DEF BInv, BootTypeOK, Commands, MadeSure, Compiling
<1>3. helper' \in Helpers /\ helper' # Missing
  BY <1>1, <1>2, BootstrapAssumption DEF Helpers
<1>4. running' \in Commands
  BY <1>1, <1>2 DEF AtStep, Commands, BInv, BootTypeOK, Steps
<1>5. BootTypeOK'
  BY <1>1, <1>3, <1>4 DEF BInv, BootTypeOK
<1>6. builder # Missing => builder.time \in Nat
  BY DEF BInv, BootTypeOK, Builders
<1>7. TimesPast'
  BY <1>1, <1>2, <1>6 DEF BInv, TimesPast
<1>8. NewerHasIt'
  BY <1>1, <1>2, <1>6 DEF BInv, TimesPast, NewerHasIt
<1>9. MadeSure'
  BY <1>1, <1>2, <1>3, PartsOf DEF MadeSure, AtStep
<1> QED
  BY <1>1, <1>5, <1>7, <1>8, <1>9 DEF BInv, BurnsTheFix

LEMMA BuilderBuiltBoot == ASSUME BInv, BuilderBuilt PROVE BInv'
<1>1. /\ running # Missing /\ running.step = "builder" /\ clock' \in Nat /\ clock' >= clock
      /\ UNCHANGED <<source, helper, keeps, taken, burned, raced, edits, runs>>
      /\ builder' = [of |-> running.saw, helper |-> helper, time |-> clock']
      /\ running' = AtStep("parts", running.saw)
      /\ clock \in Nat
  BY DEF BuilderBuilt, Tick, BInv, BootTypeOK
<1>2. /\ running.saw \in [BuilderParts -> Nat] /\ running.saw \in Texts /\ running.go \in BOOLEAN
      /\ \A p \in BuilderParts : running.began[p] <= running.saw[p]
                                 /\ (~raced => running.saw[p] = source[p].text)
      /\ \A p \in Parts3 : running.began[p] \in Nat /\ source[p].text \in Nat /\ source[p].time \in Nat
                           /\ running.began[p] <= source[p].text
      /\ helper # Missing /\ helper.time \in Nat
      /\ running.go /\ ~raced => \A p \in HelperParts : helper.of[p] >= running.began[p]
  BY <1>1 DEF BInv, BootTypeOK, Commands, MadeSure, Compiling, Helpers
<1>3. builder' \in Builders /\ builder' # Missing
  <2>1. helper \in Helpers \cup {Missing}
    BY DEF BInv, BootTypeOK
  <2>2. builder' \in Builders
    BY <1>1, <1>2, <2>1 DEF Builders
  <2> QED
    BY <2>2, BootstrapAssumption
<1>4. running' \in Commands
  BY <1>1, <1>2 DEF AtStep, Commands, BInv, BootTypeOK, Steps
<1>5. BootTypeOK'
  BY <1>1, <1>3, <1>4 DEF BInv, BootTypeOK
<1>7. TimesPast'
  BY <1>1, <1>2 DEF BInv, TimesPast
<1>8. NewerHasIt'
  BY <1>1, <1>2 DEF BInv, TimesPast, NewerHasIt
<1>9. MadeSure'
  BY <1>1, <1>2, <1>3, PartsOf DEF MadeSure, AtStep
<1> QED
  BY <1>1, <1>5, <1>7, <1>8, <1>9 DEF BInv, BurnsTheFix

\* The other parts are taken while the binaries stay.
LEMMA PartsBoot ==
  ASSUME BInv, FetchKernel \/ \E f \in Cacheable : FetchNew(f) \/ FetchKept(f)
  PROVE  BInv'
<1>1. UNCHANGED <<clock, source, helper, builder, running, burned, raced, edits, runs>>
  BY DEF FetchKernel, FetchNew, FetchKept
<1>2. keeps' \in [Cacheable -> Files] /\ taken' \in Seq(Files)
  <2>0. keeps \in [Cacheable -> Files] /\ taken \in Seq(Files) /\ Whole \in Files
    BY DEF BInv, BootTypeOK, Files
  <2>1. CASE FetchKernel
    BY <2>0, <2>1 DEF FetchKernel
  <2>2. ASSUME NEW f \in Cacheable, FetchNew(f) PROVE keeps' \in [Cacheable -> Files] /\ taken' \in Seq(Files)
    <3>1. PICK k \in {Whole, TornFile, keeps[f]} : keeps' = [keeps EXCEPT ![f] = k]
      BY <2>2 DEF FetchNew
    <3>2. k \in Files
      BY <2>0 DEF Files
    <3> QED
      BY <2>0, <2>2, <3>1, <3>2 DEF FetchNew
  <2>3. ASSUME NEW f \in Cacheable, FetchKept(f) PROVE keeps' \in [Cacheable -> Files] /\ taken' \in Seq(Files)
    BY <2>0, <2>3 DEF FetchKept
  <2> QED
    BY <2>1, <2>2, <2>3
<1>3. BootTypeOK'
  BY <1>1, <1>2 DEF BInv, BootTypeOK
<1> QED
  BY <1>1, <1>3 DEF BInv, TimesPast, NewerHasIt, MadeSure, BurnsTheFix

LEMMA EndBoot == ASSUME BInv, Stop \/ Burn PROVE BInv'
<1>1. /\ UNCHANGED <<clock, source, helper, builder, keeps, raced, edits, runs>>
      /\ running' = Missing /\ taken' = <<>>
  BY DEF Stop, Burn
<1>2. BootTypeOK'
  BY <1>1 DEF BInv, BootTypeOK
<1>3. TimesPast' /\ NewerHasIt' /\ MadeSure'
  BY <1>1 DEF BInv, TimesPast, NewerHasIt, MadeSure
<1>4. BurnsTheFix'
  <2>1. CASE Stop
    BY <1>1, <2>1 DEF Stop, BInv, BurnsTheFix
  <2>2. CASE Burn
    <3>1. /\ running # Missing /\ running.step = "parts"
          /\ burned'.boot = builder /\ burned'.go = running.go /\ burned'.began = running.began
      BY <2>2 DEF Burn
    <3> QED
      BY <1>1, <3>1 DEF BInv, MadeSure, BurnsTheFix
  <2> QED
    BY <2>1, <2>2
<1> QED
  BY <1>2, <1>3, <1>4 DEF BInv

\* bootstrap: the image has every edit in it that was made before the command
\* began, for any number of edits and runs and any parts of the image.
THEOREM BurnsTheFixCorrect == BootstrapSpec => []BurnsTheFix
<1>1. BootstrapInit => BInv
  BY BootInit
<1>2. BInv /\ [BootstrapNext]_bootVars => BInv'
  <2> SUFFICES ASSUME BInv, [BootstrapNext]_bootVars PROVE BInv'
    OBVIOUS
  <2>1. CASE UNCHANGED bootVars
    BY <2>1 DEF bootVars, BInv, BootTypeOK, TimesPast, NewerHasIt, MadeSure, BurnsTheFix
  <2> QED
    BY <2>1, EditBoot, RunBoot, InitCheckBoot, BootCheckBoot, HelperBuiltBoot, BuilderBuiltBoot,
       PartsBoot, EndBoot DEF BootstrapNext
<1>3. BInv => BurnsTheFix
  BY DEF BInv
<1> QED
  BY <1>1, <1>2, <1>3, PTL DEF BootstrapSpec
=============================================================================
