--------------------------- MODULE KeptFilesProofs ---------------------------
(***************************************************************************)
(* Theorems about files that outlive a run: the NVMe library, a .pat and   *)
(* its .part, the cached driver pack and the backups of DSM's identity,    *)
(* for any constants.                                                      *)
(***************************************************************************)
EXTENDS NvmeLibrary, PatDownload, PackDownload, IdentityBackup, ListProofs

(* The NVMe library.                                                       *)

Readable == Libraries \cup {Torn}

\* The strengthening: until the first copy the library is DSM's own; the copy
\* is made of it and never changed; a boot ends with what that fits to.
Untouched == orig = None /\ "power" \notin met => lib = Pristine
CopyWhole == met = {} => orig \in {None, Pristine}
Copied == stage = "write" => orig # None
FittedUp == stage = "up" /\ met = {} => lib = Fitted(Pristine)
IInv == TypeOK /\ Untouched /\ CopyWhole /\ Copied /\ FittedUp

\* What putting one address for another does to a library.
LEMMA ReplacedIs ==
  ASSUME NEW l \in Libraries, NEW from, NEW to \in Ports
  PROVE  /\ Replaced(l, from, to) \in Libraries
         /\ \A i \in 1..2 : Replaced(l, from, to)[i] = IF l[i] = from THEN to ELSE l[i]
<1>1. Len(l) = 2
  BY DEF Libraries
<1>2. l # Torn
  BY NvmeAssumption DEF Libraries
<1>3. Replaced(l, from, to) = [i \in 1..2 |-> IF l[i] = from THEN to ELSE l[i]]
  BY <1>1, <1>2 DEF Replaced, ReplaceAll
<1> QED
  BY <1>3 DEF Libraries

LEMMA SlotTyped ==
  ASSUME TypeOK, NEW l \in Readable, NEW i \in 1..2
  PROVE  Slot(l, i) \in Readable
<1>1. CASE i > Len(nvme) \/ nvme[i] \in Wide
  BY <1>1 DEF Slot
<1>2. CASE ~(i > Len(nvme) \/ nvme[i] \in Wide)
  <2>1. nvme[i] \in Ports
    BY <1>2 DEF TypeOK
  <2>2. CASE l = Torn
    BY <1>2, <2>2 DEF Slot, Replaced, Readable
  <2>3. CASE l \in Libraries
    BY <1>2, <2>1, <2>3, ReplacedIs DEF Slot, Readable
  <2> QED
    BY <2>2, <2>3 DEF Readable
<1> QED
  BY <1>1, <1>2

LEMMA FittedTyped ==
  ASSUME TypeOK, NEW l \in Readable
  PROVE  Fitted(l) \in Readable
BY SlotTyped DEF Fitted

\* DSM's own library has the board's two ports, in their places.
LEMMA PristineIs ==
  /\ Pristine \in Libraries /\ Pristine # None /\ Pristine # Torn
  /\ Pristine[1] = BoardPorts[1] /\ Pristine[2] = BoardPorts[2] /\ BoardPorts[1] # BoardPorts[2]
  /\ Lists(Pristine) = {TRUE}
<1>1. /\ Pristine \in Libraries /\ Pristine # None /\ Pristine # Torn
      /\ Pristine[1] = BoardPorts[1] /\ Pristine[2] = BoardPorts[2] /\ BoardPorts[1] # BoardPorts[2]
  BY NvmeAssumption DEF Pristine, Libraries
<1>2. Lists(Pristine) = {TRUE}
  BY <1>1 DEF Lists
<1> QED
  BY <1>1, <1>2

\* Without controllers nothing is fitted.
LEMMA NothingFitted == ASSUME nvme = <<>> PROVE Fitted(Pristine) = Pristine
BY DEF Fitted, Slot

LEMMA StepIInv == ASSUME IInv, [Next]_vars PROVE IInv'
<1> USE DEF IInv
<1>1. CASE Boot
  <2>1. nvme' \in Seq(Ports \cup Wide) /\ Len(nvme') <= MaxNvme
    BY <1>1, NvmeAssumption DEF Boot
  <2> QED
    BY <1>1, <2>1 DEF Boot, TypeOK, Untouched, CopyWhole, Copied, FittedUp, files
<1>2. CASE FitStops
  <2>1. UNCHANGED <<nvme, files, met>> /\ stage' = "up" /\ orig = None
    BY <1>2 DEF FitStops
  <2>2. met = {} => lib = Pristine /\ nvme = <<>>
    BY <1>2, PristineIs DEF FitStops, Untouched
  <2>3. FittedUp'
    BY <2>1, <2>2, NothingFitted DEF FittedUp, Fitted, Slot, files
  <2> QED
    BY <2>1, <2>3 DEF TypeOK, Untouched, CopyWhole, Copied, files
<1>3. CASE FitKeeps
  <2>1. UNCHANGED <<nvme, lib, libDisk, origDisk>> /\ orig = None /\ lib # None
    BY <1>3, NvmeAssumption DEF FitKeeps, TypeOK, Libraries
  <2>2. CASE orig' = lib /\ stage' = "write" /\ UNCHANGED met
    BY <2>1, <2>2 DEF TypeOK, Untouched, CopyWhole, Copied, FittedUp
  <2>3. CASE orig' \in {None, Torn} /\ stage' = "up" /\ met' = met \cup {"full"}
    BY <2>1, <2>3 DEF TypeOK, Untouched, CopyWhole, Copied, FittedUp
  <2> QED
    BY <1>3, <2>2, <2>3 DEF FitKeeps
<1>4. CASE FitFinds
  BY <1>4 DEF FitFinds, TypeOK, Untouched, CopyWhole, Copied, FittedUp, files
<1>5. CASE FitWrites
  <2>1. UNCHANGED <<nvme, libDisk, orig, origDisk>> /\ stage' = "up" /\ orig # None /\ orig \in Readable
    BY <1>5 DEF FitWrites, Copied, TypeOK, Readable
  <2>2. CASE lib' = Fitted(orig) /\ UNCHANGED met
    <3>1. lib' \in Readable
      BY <2>1, <2>2, FittedTyped
    <3>2. met = {} => lib' = Fitted(Pristine)
      BY <2>1, <2>2 DEF CopyWhole
    <3>3. FittedUp'
      BY <2>1, <2>2, <3>2 DEF FittedUp, Fitted, Slot
    <3> QED
      BY <2>1, <2>2, <3>1, <3>3 DEF TypeOK, Untouched, CopyWhole, Copied, Readable
  <2>3. CASE lib' = Torn /\ met' = met \cup {"full"}
    BY <2>1, <2>3 DEF TypeOK, Untouched, CopyWhole, Copied, FittedUp
  <2> QED
    BY <1>5, <2>2, <2>3 DEF FitWrites
<1>6. CASE Shutdown
  BY <1>6 DEF Shutdown, TypeOK, Untouched, CopyWhole, Copied, FittedUp
<1>7. CASE Reset
  <2>1. lib' \in Readable /\ orig' \in Readable \cup {None} /\ libDisk' = lib' /\ origDisk' = orig'
    BY <1>7 DEF Reset, Remains, TypeOK, Readable
  <2>2. \/ lib' = lib /\ orig' = orig /\ met' = met
        \/ met' = met \cup {"power"}
    BY <1>7 DEF Reset
  <2> QED
    BY <1>7, <2>1, <2>2 DEF Reset, TypeOK, Untouched, CopyWhole, Copied, FittedUp, Readable
<1>8. CASE UNCHANGED vars
  BY <1>8 DEF vars, files, TypeOK, Untouched, CopyWhole, Copied, FittedUp, Fitted, Slot
<1> QED
  BY <1>1, <1>2, <1>3, <1>4, <1>5, <1>6, <1>7, <1>8 DEF Next

LEMMA AlwaysIInv == Spec => []IInv
<1>1. Init => IInv
  BY PristineIs, NvmeAssumption DEF Init, IInv, TypeOK, Untouched, CopyWhole, Copied, FittedUp
<1> QED
  BY <1>1, StepIInv, PTL DEF Spec

\* Every variable keeps its type: what fitNVMeLibrary writes is a library or
\* one cut short.
THEOREM TypeCorrect == Spec => []TypeOK
<1>1. IInv => TypeOK
  BY DEF IInv
<1> QED
  BY <1>1, AlwaysIInv, PTL

\* fitNVMeLibrary changes no library before its copy is kept.
THEOREM CopyFirstCorrect == Spec => []CopyFirst
<1>1. IInv => CopyFirst
  BY DEF IInv, Untouched, CopyFirst
<1> QED
  BY <1>1, AlwaysIInv, PTL

\* A machine without NVMe gets the library back, whatever it had before.
THEOREM PutBackCorrect == Spec => []PutBack
<1>1. IInv => PutBack
  BY NothingFitted DEF IInv, FittedUp, PutBack
<1> QED
  BY <1>1, AlwaysIInv, PTL

\* The two addresses follow the first two controllers, when the first is not
\* on the board's second port.
THEOREM SlotsFollowCorrect == Spec => []SlotsFollowApart
<1>1. ASSUME IInv, stage = "up", met = {}, Len(nvme) < 2 \/ nvme[1] # BoardPorts[2]
      PROVE  Follows(1) /\ Follows(2)
  <2> DEFINE one == Slot(Pristine, 1)
             two == Slot(one, 2)
  <2>1. lib = two /\ Len(nvme) \in Nat /\ \A i \in 1..2 : i <= Len(nvme) => nvme[i] \in Ports \cup Wide
    BY <1>1 DEF IInv, FittedUp, Fitted, TypeOK
  <2>2. one \in Libraries /\ one[2] = BoardPorts[2]
    <3>1. CASE 1 > Len(nvme) \/ nvme[1] \in Wide
      BY <3>1, PristineIs DEF Slot
    <3>2. CASE ~(1 > Len(nvme) \/ nvme[1] \in Wide)
      <4>1. nvme[1] \in Ports /\ one = Replaced(Pristine, BoardPorts[1], nvme[1])
        BY <2>1, <3>2 DEF Slot
      <4> QED
        BY <4>1, PristineIs, ReplacedIs
    <3> QED
      BY <3>1, <3>2
  <2>3. one[1] = IF 1 > Len(nvme) \/ nvme[1] \in Wide THEN BoardPorts[1] ELSE nvme[1]
    <3>1. CASE 1 > Len(nvme) \/ nvme[1] \in Wide
      BY <3>1, PristineIs DEF Slot
    <3>2. CASE ~(1 > Len(nvme) \/ nvme[1] \in Wide)
      <4>1. nvme[1] \in Ports /\ one = Replaced(Pristine, BoardPorts[1], nvme[1])
        BY <2>1, <3>2 DEF Slot
      <4> QED
        BY <3>2, <4>1, PristineIs, ReplacedIs
    <3> QED
      BY <3>1, <3>2
  <2>4. CASE 2 > Len(nvme) \/ nvme[2] \in Wide
    <3>1. two = one
      BY <2>4 DEF Slot
    <3> QED
      BY <2>1, <2>3, <2>4, <3>1 DEF Follows
  <2>5. CASE ~(2 > Len(nvme) \/ nvme[2] \in Wide)
    <3>1. nvme[2] \in Ports /\ two = Replaced(one, BoardPorts[2], nvme[2])
      BY <2>1, <2>5 DEF Slot
    <3>2. one[1] # BoardPorts[2]
      BY <1>1, <2>1, <2>3, <2>5, PristineIs
    <3>3. two[1] = one[1] /\ two[2] = nvme[2]
      BY <2>2, <3>1, <3>2, ReplacedIs
    <3> QED
      BY <2>1, <2>3, <3>3 DEF Follows
  <2> QED
    BY <2>4, <2>5
<1> QED
  BY <1>1, AlwaysIInv, PTL DEF SlotsFollowApart

\* DSM's own library is kept before it is changed, and comes back.
THEOREM LibraryPutBackCorrect == Spec => []LibraryPutBack
  BY PutBackCorrect, CopyFirstCorrect, PTL DEF LibraryPutBack
-----------------------------------------------------------------------------
(* The .pat.                                                               *)

IsCall(f) == f = [url |-> f.url, want |-> f.want, at |-> f.at, left |-> f.left, length |-> f.length]

\* What is about to be put in place has the sum that is wanted; and what was.
DownloadInv ==
  /\ fetch # NoFile => IsCall(fetch)
  /\ fetch # NoFile /\ fetch.at = "finalise" => Matches(part, fetch.want)
  /\ FetchedIsWanted

LEMMA DownloadStep == ASSUME DownloadInv, [DownloadNext]_downloadVars PROVE DownloadInv'
<1> USE DEF DownloadInv, FetchedIsWanted, Matches, IsCall
<1>1. ASSUME NEW u \in Urls, NEW want \in Wants(u), FetchFound(u, want) PROVE DownloadInv'
  BY <1>1 DEF FetchFound
<1>2. ASSUME NEW u \in Urls, NEW want \in Wants(u), Request(u, want) PROVE DownloadInv'
  BY <1>2 DEF Request
<1>3. ASSUME NEW ranged \in BOOLEAN, NEW announced \in BOOLEAN, Answer(ranged, announced) PROVE DownloadInv'
  <2> DEFINE left == Sent(ranged)
             length == Length(announced)
  <2>1. fetch # NoFile /\ UNCHANGED <<dest, fetched>> /\ fetch' = [fetch EXCEPT !.at = "body", !.left = left, !.length = length]
    BY <1>3 DEF Answer
  <2> HIDE DEF left, length
  <2>2. fetch' = [url |-> fetch.url, want |-> fetch.want, at |-> "body", left |-> left, length |-> length]
    BY <2>1
  <2> QED
    BY <2>1, <2>2
<1>4. CASE Receive
  <2> DEFINE left == Tail(fetch.left)
  <2>1. fetch # NoFile /\ fetch.at = "body" /\ UNCHANGED <<dest, fetched>> /\ fetch' = [fetch EXCEPT !.left = left]
    BY <1>4 DEF Receive
  <2> HIDE DEF left
  <2>2. fetch' = [url |-> fetch.url, want |-> fetch.want, at |-> "body", left |-> left, length |-> fetch.length]
    BY <2>1
  <2> QED
    BY <2>1, <2>2
<1>5. CASE BodyEnds
  <2>1. /\ fetch # NoFile /\ UNCHANGED dest
        /\ \/ Ends(FALSE)
           \/ fetch' = [fetch EXCEPT !.at = "finalise"] /\ UNCHANGED <<part, fetched>> /\ Matches(part, fetch.want)
    BY <1>5 DEF BodyEnds
  <2>2. CASE Ends(FALSE)
    BY <2>1, <2>2 DEF Ends
  <2>3. CASE fetch' = [fetch EXCEPT !.at = "finalise"] /\ UNCHANGED <<part, fetched>> /\ Matches(part, fetch.want)
    <3>1. fetch' = [url |-> fetch.url, want |-> fetch.want, at |-> "finalise", left |-> fetch.left, length |-> fetch.length]
      BY <2>1, <2>3 DEF IsCall
    <3> QED
      BY <2>1, <2>3, <3>1
  <2> QED
    BY <2>1, <2>2, <2>3
<1>6. CASE Finalise
  BY <1>6 DEF Finalise, Ends
<1>7. CASE FetchCut
  BY <1>7 DEF FetchCut, Ends
<1>8. CASE UNCHANGED downloadVars
  BY <1>8 DEF downloadVars
<1> QED
  BY <1>1, <1>2, <1>3, <1>4, <1>5, <1>6, <1>7, <1>8 DEF DownloadNext

\* fetch.go: a fetch with a sum that succeeds leaves exactly that file, whatever
\* .part earlier ones left, wherever they were cut off.
THEOREM FetchedIsWantedCorrect == DownloadSpec => []FetchedIsWanted
<1>1. DownloadInit => DownloadInv
  BY DEF DownloadInit, DownloadInv, FetchedIsWanted
<1>2. DownloadInv /\ [DownloadNext]_downloadVars => DownloadInv'
  BY DownloadStep
<1>3. DownloadInv => FetchedIsWanted
  BY DEF DownloadInv
<1> QED
  BY <1>1, <1>2, <1>3, PTL DEF DownloadSpec
-----------------------------------------------------------------------------
(* The driver pack.                                                        *)

\* A call that has the sums has them of the release it asks for, and so the
\* drivers, once it has these.
PullOfRelease ==
  /\ pull = [step |-> pull.step, tag |-> pull.tag, sums |-> pull.sums, pack |-> pull.pack, refused |-> pull.refused]
  /\ pull.sums # 0 => pull.tag = pull.sums
  /\ pull.sums # 0 /\ pull.step = "firmware" => pull.pack = pull.sums
PackInv == latest \in Nat \ {0} /\ PullOfRelease /\ OfOneRelease

\* With the sums at hand a call gets the asset of their release, for its tag.
LEMMA GotOfRelease ==
  ASSUME PullOfRelease, pull.sums # 0, NEW asset, NEW r \in Results(asset)
  PROVE  r.got = pull.sums /\ r.tag = pull.tag
<1>1. CASE GoodCopy(asset) # {}
  <2>1. PICK k \in GoodCopy(asset) : r = [got |-> Unpacked(k), tag |-> pull.tag, cache |-> cache]
    BY <1>1 DEF Results
  <2>2. k.whole /\ k.tag = pull.tag
    BY DEF GoodCopy
  <2> QED
    BY <2>1, <2>2 DEF Unpacked, PullOfRelease
<1>2. CASE GoodCopy(asset) = {}
  <2>1. \E c : r = [got |-> pull.sums, tag |-> pull.tag, cache |-> c]
    BY <1>2 DEF Results
  <2> QED
    BY <2>1
<1> QED
  BY <1>1, <1>2

LEMMA PackStep == ASSUME PackInv, [PackNext]_packVars PROVE PackInv'
<1> USE DEF PackInv
<1>1. CASE Publish
  BY <1>1 DEF Publish, PullOfRelease, OfOneRelease
<1>2. CASE Load
  <2>1. PICK tag \in {0, latest}, sums \in {0, latest} :
          /\ tag = 0 => sums = 0
          /\ pull' = [Idle EXCEPT !.step = "pack", !.tag = tag, !.sums = sums]
    BY <1>2 DEF Load
  <2>2. pull' = [step |-> "pack", tag |-> tag, sums |-> sums, pack |-> 0, refused |-> FALSE]
    BY <2>1 DEF Idle
  <2>3. pull'.step = "pack" /\ pull'.tag = tag /\ pull'.sums = sums /\ pull'.pack = 0 /\ pull'.refused = FALSE
    BY <2>2
  <2>4. sums # 0 => tag = sums
    BY <2>1
  <2>5. pull' = [step |-> pull'.step, tag |-> pull'.tag, sums |-> pull'.sums, pack |-> pull'.pack, refused |-> pull'.refused]
    BY <2>2
  <2>6. PullOfRelease'
    BY <2>3, <2>4, <2>5, Zenon DEF PullOfRelease
  <2> QED
    BY <1>2, <2>6 DEF Load, OfOneRelease
<1>3. CASE FetchPack
  <2>1. PICK r \in Results("pack") :
          IF r.got # 0
          THEN pull' = [pull EXCEPT !.step = "firmware", !.tag = r.tag, !.pack = r.got] /\ UNCHANGED pulled
          ELSE pull' = Idle /\ Returns(FALSE, r.tag, 0, 0, pull.sums, pull.refused)
    BY <1>3 DEF FetchPack
  <2>2. pull.sums # 0 => r.got = pull.sums /\ r.tag = pull.tag
    BY <2>1, GotOfRelease
  <2>3. CASE r.got # 0
    <3>1. pull' = [step |-> "firmware", tag |-> r.tag, sums |-> pull.sums, pack |-> r.got, refused |-> pull.refused]
      BY <2>1, <2>3 DEF PullOfRelease
    <3>2. UNCHANGED <<latest, pulled>>
      BY <1>3, <2>1, <2>3 DEF FetchPack
    <3> QED
      BY <2>2, <3>1, <3>2 DEF PullOfRelease, OfOneRelease
  <2>4. CASE r.got = 0
    <3>1. pull.sums = 0
      BY <2>2, <2>4
    <3> QED
      BY <1>3, <2>1, <2>4, <3>1 DEF FetchPack, Returns, Idle, PullOfRelease, OfOneRelease
  <2> QED
    BY <2>3, <2>4
<1>4. CASE FetchFirmware
  <2>1. PICK r \in Results("firmware") :
          pull' = Idle /\ Returns(TRUE, pull.tag, pull.pack, r.got, pull.sums, pull.refused)
    BY <1>4 DEF FetchFirmware
  <2>2. pull.sums # 0 => r.got = pull.sums /\ pull.pack = pull.sums
    BY <1>4, <2>1, GotOfRelease DEF FetchFirmware, PullOfRelease
  <2> QED
    BY <1>4, <2>1, <2>2 DEF FetchFirmware, Returns, Idle, PullOfRelease, OfOneRelease
<1>5. CASE DownloadFails
  BY <1>5 DEF DownloadFails, Returns, Idle, PullOfRelease, OfOneRelease
<1>6. CASE PullKilled
  BY <1>6 DEF PullKilled, Nothing4, Idle, PullOfRelease, OfOneRelease
<1>7. ASSUME NEW pack \in 1 .. latest, NEW firmware \in 0 .. latest, NEW sums \in 0 .. latest,
             FromFiles(pack, firmware, sums)
      PROVE  PackInv'
  BY <1>7 DEF FromFiles, Returns, PullOfRelease, OfOneRelease
<1>8. CASE UNCHANGED packVars
  BY <1>8 DEF packVars, PullOfRelease, OfOneRelease
<1> QED
  BY <1>1, <1>2, <1>3, <1>4, <1>5, <1>6, <1>7, <1>8 DEF PackNext

\* modules.go: whenever the release's sums are at hand, drivers and firmware are
\* of one release, and a call no download of which failed returns both, whatever
\* is in the cache and whatever releases come out meanwhile.
THEOREM OfOneReleaseCorrect == PackSpec => []OfOneRelease
<1>1. PackInit => PackInv
  BY DEF PackInit, Idle, Nothing4, PackInv, PullOfRelease, OfOneRelease
<1>2. PackInv /\ [PackNext]_packVars => PackInv'
  BY PackStep
<1>3. PackInv => OfOneRelease
  BY DEF PackInv
<1> QED
  BY <1>1, <1>2, <1>3, PTL DEF PackSpec
-----------------------------------------------------------------------------
(* The backup of DSM's identity.                                           *)

Manifest(d) == copies[d].manifest

\* The boot under way has written its three files.
Through == booting # NoBackup /\ booting.left = <<>>

IdentityTypes ==
  /\ present \subseteq DataDisks
  /\ copies \in [DataDisks -> [{"identity", "synoinfo", "manifest"} -> Stamps \cup {NoBackup}]]
  /\ own \in Loaders \cup {NoBackup}
  /\ booting \in Boots \cup {NoBackup}
  /\ now \in 0 .. MaxDSMBoots
  /\ page \in Pages \cup {NoBackup}
  /\ page # NoBackup => booting = NoBackup /\ loaders < MaxLoaders
  /\ loaders \in 0 .. MaxLoaders
  /\ lastBoot \in LastBoots \cup {NoBackup}

\* A manifest's time tells the boot it is of, and no boot before this one has
\* this one's time.
TimesInv ==
  /\ \A d \in DataDisks : Manifest(d) # NoBackup => Manifest(d).time <= now
  /\ \A d, e \in DataDisks :
       Manifest(d) # NoBackup /\ Manifest(e) # NoBackup /\ Manifest(d).time = Manifest(e).time
         => Manifest(d) = Manifest(e)
  /\ booting # NoBackup => booting.time = now
  /\ booting # NoBackup /\ booting.left # <<>> =>
       \A d \in DataDisks : Manifest(d) # NoBackup => Manifest(d).time < now
  /\ Through => \A d \in present : Manifest(d) = ThisBoot

\* The manifest is the last file: the newest one anywhere is of the last boot
\* that got through, and is on every disk of that boot.
LastInv ==
  lastBoot # NoBackup /\ ~Through =>
    \E t \in 1 .. MaxDSMBoots :
      /\ \A d \in lastBoot.disks :
           Manifest(d) = [model |-> lastBoot.model, serial |-> lastBoot.serial, time |-> t]
      /\ \A d \in DataDisks : Manifest(d) # NoBackup => Manifest(d).time <= t

Sorted(s, F) == s \in [1 .. Cardinality(F) -> F] /\ Range(s) = F /\ NewestFirst(s)

\* A wizard in which only the model was chosen has taken the backup's serial
\* the first time the step was shown, and not let go of it.
PageInv ==
  page # NoBackup =>
    /\ Sorted(page.backups, Found)
    /\ page.at = "identity" => page.chosen
    /\ page.model = NoBackup => ~page.chosen
    /\ page.plain /\ ~page.chosen => page.serial = NoBackup
    /\ page.plain /\ page.chosen =>
         \A b \in BackupFor(page) : page.fromBackup /\ page.serial = b.serial

IdentityInv == IdentityTypes /\ TimesInv /\ LastInv /\ PageInv

LEMMA BackupFilesAre == Range(BackupFiles) = {"identity", "synoinfo", "manifest"}
<1>1. DOMAIN BackupFiles = 1 .. 3
  BY DEF BackupFiles
<1>2. BackupFiles[1] = "identity" /\ BackupFiles[2] = "synoinfo" /\ BackupFiles[3] = "manifest"
  BY DEF BackupFiles
<1> QED
  BY <1>1, <1>2 DEF Range

\* Stamps of different boots can be put in order.
LEMMA SortedExists ==
  ASSUME NEW F, IsFiniteSet(F), F \subseteq Stamps,
         \A a, b \in F : a.time = b.time => a = b
  PROVE  \E s : Sorted(s, F)
<1> DEFINE S == {n \in Nat : \A G \in SUBSET F : Cardinality(G) = n => \E s : Sorted(s, G)}
<1>1. 0 \in S
  <2>1. ASSUME NEW G \in SUBSET F, Cardinality(G) = 0 PROVE \E s : Sorted(s, G)
    <3>1. G = {}
      BY <2>1, FS_Subset, FS_EmptySet
    <3>2. Sorted(<<>>, {})
      BY FS_EmptySet DEF Sorted, Range, NewestFirst
    <3> QED
      BY <3>1, <3>2
  <2> QED
    BY <2>1
<1>2. ASSUME NEW n \in Nat, n \in S PROVE n + 1 \in S
  <2>1. ASSUME NEW G \in SUBSET F, Cardinality(G) = n + 1 PROVE \E s : Sorted(s, G)
    <3>1. IsFiniteSet(G) /\ G # {}
      BY <2>1, FS_Subset, FS_EmptySet
    <3>2. PICK m \in G : \A b \in G : m.time <= b.time
      <4> DEFINE T == {b.time : b \in G}
      <4>1. T \subseteq Nat /\ T # {}
        BY <3>1, IdentityAssumption DEF Stamps
      <4>2. PICK x \in T : \A y \in T : x <= y
        <5> HIDE DEF T
        <5> QED
          BY <4>1, LeastElement
      <4> QED
        BY <4>2
    <3> DEFINE H == G \ {m}
    <3>3. Cardinality(H) = n /\ H \in SUBSET F
      <4>1. Cardinality(H) = Cardinality(G) - 1
        BY <3>1, FS_RemoveElement
      <4> QED
        BY <2>1, <4>1
    <3>4. PICK s : Sorted(s, H)
      BY <1>2, <3>3
    <3> DEFINE r == [i \in 1 .. n + 1 |-> IF i = n + 1 THEN m ELSE s[i]]
    <3>5. s \in [1 .. n -> H] /\ Range(s) = H /\ NewestFirst(s)
      BY <3>3, <3>4 DEF Sorted
    <3>6. r \in [1 .. n + 1 -> G]
      BY <3>5
    <3>7. Range(r) = G
      <4>1. ASSUME NEW g \in G PROVE \E i \in 1 .. n + 1 : r[i] = g
        <5>1. CASE g = m
          BY <5>1
        <5>2. CASE g # m
          <6>1. PICK i \in 1 .. n : s[i] = g
            BY <5>2, <3>5 DEF Range
          <6> QED
            BY <6>1
        <5> QED
          BY <5>1, <5>2
      <4> QED
        BY <4>1, <3>6 DEF Range
    <3>8. NewestFirst(r)
      <4>1. ASSUME NEW i \in 1 .. n + 1, NEW j \in 1 .. n + 1, i < j PROVE r[i].time > r[j].time
        <5>1. CASE j = n + 1
          <6>1. r[i] \in H /\ r[j] = m
            BY <4>1, <5>1, <3>5
          <6>2. m.time \in Nat /\ r[i].time \in Nat /\ m.time <= r[i].time /\ m.time # r[i].time
            BY <6>1, <3>2, <3>3, IdentityAssumption DEF Stamps
          <6> QED
            BY <6>1, <6>2
        <5>2. CASE j # n + 1
          <6>1. i \in DOMAIN s /\ j \in DOMAIN s /\ r[i] = s[i] /\ r[j] = s[j]
            BY <4>1, <5>2, <3>5
          <6> QED
            BY <4>1, <6>1, <3>5 DEF NewestFirst
        <5> QED
          BY <5>1, <5>2
      <4> QED
        BY <4>1 DEF NewestFirst
    <3> HIDE DEF r
    <3> QED
      BY <2>1, <3>6, <3>7, <3>8 DEF Sorted
  <2> QED
    BY <2>1
<1>3. Nat \subseteq S
  <2> HIDE DEF S
  <2> QED
    BY <1>1, <1>2, Induction
<1>4. Cardinality(F) \in Nat
  BY FS_CardinalityType
<1> QED
  BY <1>3, <1>4

\* findDSMBackups gives what the disks have, newest first.
LEMMA FoundSorted ==
  ASSUME IdentityTypes, TimesInv
  PROVE  Sorted(FindDSMBackups(Found), Found) /\ FindDSMBackups(Found) \in Seq(Stamps)
<1>1. Found \subseteq Stamps
  BY DEF IdentityTypes, Found
<1>2. IsFiniteSet(Found)
  <2>1. IsFiniteSet(present)
    BY IdentityAssumption, FS_Subset DEF IdentityTypes
  <2> DEFINE T == {Manifest(d) : d \in present}
             f == [d \in present |-> Manifest(d)]
  <2>2. f \in Surjection(present, T)
    BY DEF Surjection
  <2>3. IsFiniteSet(T)
    <3> HIDE DEF T, f
    <3> QED
      BY <2>1, <2>2, FS_Surjection
  <2> QED
    BY <2>3, FS_Subset DEF Found, Manifest
<1>3. \A a, b \in Found : a.time = b.time => a = b
  BY DEF TimesInv, Manifest, Found, IdentityTypes
<1>4. \E s : Sorted(s, Found)
  BY <1>1, <1>2, <1>3, SortedExists
<1>5. Sorted(FindDSMBackups(Found), Found)
  BY <1>4 DEF Sorted, FindDSMBackups
<1>6. FindDSMBackups(Found) \in [1 .. Cardinality(Found) -> Stamps] /\ Cardinality(Found) \in Nat
  BY <1>1, <1>2, <1>5, FS_CardinalityType DEF Sorted
<1> QED
  BY <1>5, <1>6

\* What a boot has left to write, after each file.
LEMMA LeftOf ==
  ASSUME NEW left \in {BackupFiles, <<"synoinfo", "manifest">>, <<"manifest">>, <<>>}, left # <<>>
  PROVE  /\ Tail(left) \in {BackupFiles, <<"synoinfo", "manifest">>, <<"manifest">>, <<>>}
         /\ Head(left) \in {"identity", "synoinfo", "manifest"}
         /\ Tail(left) = <<>> <=> Head(left) = "manifest"
<1>1. CASE left = BackupFiles
  <2>1. left = <<"identity", "synoinfo", "manifest">>
    BY <1>1 DEF BackupFiles
  <2>2. Head(left) = "identity" /\ Tail(left) = <<"synoinfo", "manifest">>
    BY <2>1
  <2> QED
    BY <2>2
<1>2. CASE left = <<"synoinfo", "manifest">>
  <2>1. Head(left) = "synoinfo" /\ Tail(left) = <<"manifest">>
    BY <1>2
  <2> QED
    BY <2>1
<1>3. CASE left = <<"manifest">>
  BY <1>3
<1> QED
  BY <1>1, <1>2, <1>3

\* The wizard's operators keep a page a page.
LEMMA NewSerialTyped ==
  ASSUME NEW p \in Pages, loaders \in 0 .. MaxLoaders, loaders < MaxLoaders
  PROVE  NewSerial(p) \in KnownSerials \cup {NoBackup}
BY IdentityAssumption DEF NewSerial, Pages, KnownSerials

LEMMA BackupForTyped ==
  ASSUME NEW p \in Pages
  PROVE  /\ BackupFor(p) \subseteq Stamps
         /\ \A a, b \in BackupFor(p) : a = b
<1>1. p.backups \in Seq(Stamps)
  BY DEF Pages
<1>2. \A i \in DOMAIN p.backups : p.backups[i] \in Stamps /\ i \in Nat
  BY <1>1
<1>3. ASSUME NEW a \in BackupFor(p), NEW b \in BackupFor(p) PROVE a = b
  <2>1. PICK i \in DOMAIN p.backups :
          /\ a = p.backups[i] /\ p.backups[i].model = p.model
          /\ \A k \in 1 .. i - 1 : p.backups[k].model # p.model
    BY DEF BackupFor
  <2>2. PICK j \in DOMAIN p.backups :
          /\ b = p.backups[j] /\ p.backups[j].model = p.model
          /\ \A k \in 1 .. j - 1 : p.backups[k].model # p.model
    BY DEF BackupFor
  <2>3. i \in 1 .. Len(p.backups) /\ j \in 1 .. Len(p.backups) /\ Len(p.backups) \in Nat
    BY <1>1
  <2>4. i = j
    BY <2>1, <2>2, <2>3
  <2> QED
    BY <2>1, <2>2, <2>4
<1> QED
  BY <1>2, <1>3 DEF BackupFor

LEMMA UseBackupTyped ==
  ASSUME NEW p \in Pages, BackupFor(p) # {}
  PROVE  UseBackup(p) \in Pages
<1>1. (CHOOSE b \in BackupFor(p) : TRUE) \in Stamps
  BY BackupForTyped
<1> QED
  BY <1>1 DEF UseBackup, Pages, Stamps

LEMMA ShownTyped ==
  ASSUME NEW p \in Pages, loaders \in 0 .. MaxLoaders, loaders < MaxLoaders
  PROVE  Shown(p) \in Pages
<1> DEFINE q == [p EXCEPT !.at = "identity", !.manual = @ \/ p.model \notin RuleModels]
           d == Default(q)
           r == [d EXCEPT !.fromBackup = @ /\ BackupFor(d) # {}]
<1>1. q \in Pages
  BY DEF Pages
<1>2. d \in Pages
  <2> DEFINE first == [q EXCEPT !.chosen = TRUE]
  <2>1. first \in Pages
    BY <1>1 DEF Pages
  <2>2. BackupFor(q) = BackupFor(first)
    BY <1>1 DEF BackupFor, Pages
  <2> HIDE DEF q, first
  <2>3. d = first \/ (BackupFor(first) # {} /\ d = UseBackup(first))
    BY <2>2 DEF Default, first
  <2> QED
    BY <2>1, <2>3, UseBackupTyped
<1> HIDE DEF q, d
<1>3. r \in Pages
  BY <1>2 DEF Pages
<1> HIDE DEF r
<1>4. [r EXCEPT !.serial = IF ~r.manual /\ ~r.fromBackup /\ @ = NoBackup THEN NewSerial(r) ELSE @] \in Pages
  <2>1. r.serial \in KnownSerials \cup {NoBackup} /\ NewSerial(r) \in KnownSerials \cup {NoBackup}
    BY <1>3, NewSerialTyped DEF Pages
  <2> QED
    BY <1>3, <2>1 DEF Pages
<1> QED
  BY <1>4 DEF Shown, q, d, r

\* What is shown is the same page on the identity step.
LEMMA ShownKeeps ==
  ASSUME NEW p \in Pages, loaders \in 0 .. MaxLoaders, loaders < MaxLoaders
  PROVE  /\ Shown(p).at = "identity" /\ Shown(p).chosen /\ Shown(p).model = p.model
         /\ Shown(p).backups = p.backups /\ Shown(p).plain = p.plain
         /\ BackupFor(Shown(p)) = BackupFor(p)
<1> DEFINE q == [p EXCEPT !.at = "identity", !.manual = @ \/ p.model \notin RuleModels]
           d == Default(q)
           r == [d EXCEPT !.fromBackup = @ /\ BackupFor(d) # {}]
           Same(x) == /\ x \in Pages /\ x.at = "identity" /\ x.model = p.model
                      /\ x.backups = p.backups /\ x.plain = p.plain
<1>1. Same(q)
  BY DEF Pages
<1>2. Same(d) /\ d.chosen
  <2> DEFINE first == [q EXCEPT !.chosen = TRUE]
  <2>1. Same(first) /\ first.chosen
    BY <1>1, ZenonT(40) DEF Pages
  <2>2. BackupFor(q) = BackupFor(first)
    BY <1>1, <2>1 DEF BackupFor
  <2> HIDE DEF q, first
  <2>3. CASE d = first
    BY <2>1, <2>3
  <2>4. CASE BackupFor(first) # {} /\ d = UseBackup(first)
    <3>1. d \in Pages
      BY <2>1, <2>4, UseBackupTyped
    <3> QED
      BY <2>1, <2>4, <3>1 DEF UseBackup, Pages
  <2>5. d = first \/ (BackupFor(first) # {} /\ d = UseBackup(first))
    BY <2>2 DEF Default, first
  <2> QED
    BY <2>3, <2>4, <2>5
<1> HIDE DEF q, d
<1>3. Same(r) /\ r.chosen
  BY <1>2 DEF Pages
<1> HIDE DEF r
<1>4. Same(Shown(p)) /\ Shown(p).chosen
  <2>1. Shown(p) = [r EXCEPT !.serial = IF ~r.manual /\ ~r.fromBackup /\ @ = NoBackup THEN NewSerial(r) ELSE @]
    BY DEF Shown, q, d, r
  <2>2. Shown(p) \in Pages
    BY ShownTyped
  <2> QED
    BY <1>3, <2>1, <2>2 DEF Pages
<1> QED
  BY <1>4 DEF BackupFor

\* A backup's serial is taken the first time, and kept.
LEMMA ShownBackup ==
  ASSUME NEW p \in Pages, NEW b \in BackupFor(p),
         ~p.chosen => p.serial = NoBackup,
         p.chosen => p.fromBackup /\ p.serial = b.serial
  PROVE  Shown(p).fromBackup /\ Shown(p).serial = b.serial
<1> DEFINE q == [p EXCEPT !.at = "identity", !.manual = @ \/ p.model \notin RuleModels]
           first == [q EXCEPT !.chosen = TRUE]
           d == Default(q)
           r == [d EXCEPT !.fromBackup = @ /\ BackupFor(d) # {}]
<1>1. /\ q \in Pages /\ q.model = p.model /\ q.backups = p.backups /\ q.chosen = p.chosen
      /\ q.serial = p.serial /\ q.fromBackup = p.fromBackup
  BY DEF Pages
<1> HIDE DEF q
<1>2. /\ first \in Pages /\ first.model = p.model /\ first.backups = p.backups
      /\ first.serial = p.serial /\ first.fromBackup = p.fromBackup
  BY <1>1 DEF Pages
<1> HIDE DEF first
<1>3. BackupFor(q) = BackupFor(p) /\ BackupFor(first) = BackupFor(p)
  BY <1>1, <1>2 DEF BackupFor
<1>4. d = IF ~p.chosen THEN UseBackup(first) ELSE first
  BY <1>1, <1>3 DEF Default, first
<1>5. d \in Pages /\ d.fromBackup /\ d.serial = b.serial /\ d.model = p.model /\ d.backups = p.backups
  <2>1. CASE p.chosen
    BY <1>2, <1>4, <2>1
  <2>2. CASE ~p.chosen
    <3>1. (CHOOSE x \in BackupFor(first) : TRUE) = b
      BY <1>3, BackupForTyped
    <3>2. UseBackup(first) \in Pages
      BY <1>2, <1>3, UseBackupTyped
    <3> QED
      BY <1>2, <1>4, <2>2, <3>1, <3>2 DEF UseBackup, Pages
  <2> QED
    BY <2>1, <2>2
<1> HIDE DEF d
<1>6. BackupFor(d) = BackupFor(p)
  BY <1>5 DEF BackupFor
<1>7. r \in Pages /\ r.fromBackup /\ r.serial = b.serial
  BY <1>5, <1>6 DEF Pages
<1> HIDE DEF r
<1>8. Shown(p) = [r EXCEPT !.serial = IF ~r.manual /\ ~r.fromBackup /\ @ = NoBackup THEN NewSerial(r) ELSE @]
  BY DEF Shown, q, d, r
<1> QED
  BY <1>7, <1>8 DEF Pages

\* The steps of the wizard that leave it open.
PageEdited ==
  \/ \E m \in BackupModels : PickModel(m)
  \/ ShowIdentity \/ BackToModel
  \/ \E how \in 0 .. 2 : ChooseSerial(how)
  \/ \E s \in TypedSerials : TypeSerial(s)

LEMMA PageTyped ==
  ASSUME IdentityTypes, PageEdited
  PROVE  page' \in Pages /\ page' # NoBackup /\ page \in Pages
<1> SUFFICES page' \in Pages /\ page \in Pages
  BY IdentityAssumption
<1>1. page \in Pages /\ loaders \in 0 .. MaxLoaders /\ loaders < MaxLoaders
  BY DEF IdentityTypes, PageEdited, PickModel, ShowIdentity, BackToModel, ChooseSerial, TypeSerial
<1>2. ASSUME NEW m \in BackupModels, PickModel(m) PROVE page' \in Pages
  BY <1>1, <1>2 DEF PickModel, Pages
<1>3. CASE ShowIdentity
  BY <1>1, <1>3, ShownTyped DEF ShowIdentity
<1>4. CASE BackToModel
  BY <1>1, <1>4 DEF BackToModel, Pages
<1>5. ASSUME NEW how \in 0 .. 2, ChooseSerial(how) PROVE page' \in Pages
  <2> DEFINE p == [page EXCEPT !.manual = how = 1, !.fromBackup = FALSE, !.plain = FALSE]
  <2>1. p \in Pages
    BY <1>1 DEF Pages
  <2>2. BackupFor(p) = BackupFor(page)
    BY <1>1 DEF BackupFor, Pages
  <2> HIDE DEF p
  <2>3. [p EXCEPT !.serial = NewSerial(p)] \in Pages
    <3>1. NewSerial(p) \in KnownSerials \cup {NoBackup}
      BY <1>1, <2>1, NewSerialTyped
    <3> QED
      BY <2>1, <3>1 DEF Pages
  <2>4. BackupFor(p) # {} => UseBackup(p) \in Pages
    BY <2>1, UseBackupTyped
  <2> QED
    BY <1>1, <1>5, <2>1, <2>2, <2>3, <2>4, ShownTyped DEF ChooseSerial, p
<1>6. ASSUME NEW s \in TypedSerials, TypeSerial(s) PROVE page' \in Pages
  BY <1>1, <1>6 DEF TypeSerial, Pages, KnownSerials
<1> QED
  BY <1>1, <1>2, <1>3, <1>4, <1>5, <1>6 DEF PageEdited

LEMMA IdentityTypesStep ==
  ASSUME IdentityTypes, TimesInv, PageInv, IdentityNext
  PROVE  IdentityTypes'
<1> USE DEF IdentityTypes
<1>1. ASSUME NEW d \in DataDisks, MoveDisk(d) PROVE IdentityTypes'
  BY <1>1 DEF MoveDisk
<1>2. CASE BootDSM
  <2>1. now' \in 1 .. MaxDSMBoots
    BY <1>2, IdentityAssumption DEF BootDSM
  <2>2. booting' \in Boots
    BY <1>2, <2>1 DEF BootDSM, Boots, Loaders
  <2> QED
    BY <1>2, <2>1, <2>2 DEF BootDSM
<1>3. CASE WriteAtomic
  <2>1. booting \in Boots /\ booting.left # <<>>
    BY <1>3 DEF WriteAtomic
  <2>2. booting' \in Boots
    BY <1>3, <2>1, LeftOf DEF WriteAtomic, Boots
  <2>3. Head(booting.left) \in {"identity", "synoinfo", "manifest"}
    BY <2>1, LeftOf DEF Boots
  <2>4. ThisBoot \in Stamps
    BY <2>1 DEF ThisBoot, Boots, Stamps
  <2>5. copies' \in [DataDisks -> [{"identity", "synoinfo", "manifest"} -> Stamps \cup {NoBackup}]]
    BY <1>3, <2>3, <2>4 DEF WriteAtomic, Written
  <2> QED
    BY <1>3, <2>2, <2>5 DEF WriteAtomic
<1>4. CASE BackupDone
  <2>1. lastBoot' \in LastBoots
    BY <1>4 DEF BackupDone, Boots, LastBoots
  <2> QED
    BY <1>4, <2>1 DEF BackupDone
<1>5. CASE BackupCut
  BY <1>5 DEF BackupCut
<1>6. CASE NewLoader
  BY <1>6 DEF NewLoader
<1>7. CASE OpenWizard
  <2>1. page' \in Pages
    BY <1>7, FoundSorted DEF OpenWizard, Pages, Loaders
  <2> QED
    BY <1>7, <2>1 DEF OpenWizard
<1>8. CASE PageEdited
  BY <1>8, PageTyped
     DEF PageEdited, PickModel, ShowIdentity, BackToModel, ChooseSerial, TypeSerial
<1>9. CASE Install
  <2>1. page.model \in BackupModels
    BY <1>9 DEF Install, Pages, PageInv
  <2>2. own' \in Loaders /\ loaders' \in 0 .. MaxLoaders
    BY <1>9, <2>1, IdentityAssumption DEF Install, Pages, Loaders, KnownSerials
  <2> QED
    BY <1>9, <2>2 DEF Install
<1> QED
  BY <1>1, <1>2, <1>3, <1>4, <1>5, <1>6, <1>7, <1>8, <1>9 DEF IdentityNext, PageEdited

\* Only a boot's last write changes a manifest.
LEMMA WriteManifest ==
  ASSUME IdentityTypes, WriteAtomic
  PROVE  /\ booting \in Boots /\ booting' \in Boots /\ UNCHANGED <<now, present, page, lastBoot>>
         /\ booting' = [booting EXCEPT !.left = Tail(@)] /\ booting.left # <<>>
         /\ Through' <=> Head(booting.left) = "manifest"
         /\ ThisBoot' = ThisBoot /\ booting'.time = booting.time
         /\ \A d \in DataDisks : Manifest(d)' =
              IF Through' /\ d \in present THEN ThisBoot ELSE Manifest(d)
<1> USE DEF IdentityTypes
<1>1. booting \in Boots /\ booting.left # <<>> /\ booting' = [booting EXCEPT !.left = Tail(@)]
  BY DEF WriteAtomic
<1>2. /\ Tail(booting.left) \in {BackupFiles, <<"synoinfo", "manifest">>, <<"manifest">>, <<>>}
      /\ Head(booting.left) \in {"identity", "synoinfo", "manifest"}
      /\ Tail(booting.left) = <<>> <=> Head(booting.left) = "manifest"
  BY <1>1, LeftOf DEF Boots
<1>3. booting' \in Boots /\ booting'.left = Tail(booting.left)
      /\ ThisBoot' = ThisBoot /\ booting'.time = booting.time
  BY <1>1, <1>2 DEF Boots, ThisBoot
<1>4. Through' <=> Head(booting.left) = "manifest"
  BY <1>2, <1>3, IdentityAssumption DEF Through
<1>5. copies' = Written(Head(booting.left))
  BY DEF WriteAtomic
<1>6. ASSUME NEW d \in DataDisks
      PROVE  Manifest(d)' = IF Through' /\ d \in present THEN ThisBoot ELSE Manifest(d)
  <2>1. copies'[d] = IF d \in present THEN [copies[d] EXCEPT ![Head(booting.left)] = ThisBoot] ELSE copies[d]
    BY <1>5 DEF Written
  <2> QED
    BY <1>2, <1>4, <2>1 DEF Manifest
<1> QED
  BY <1>1, <1>3, <1>4, <1>6 DEF WriteAtomic

LEMMA TimesStep ==
  ASSUME IdentityTypes, IdentityTypes', TimesInv, LastInv, IdentityNext
  PROVE  TimesInv' /\ LastInv'
<1>1. CASE BootDSM
  <2>1. /\ now \in 0 .. MaxDSMBoots /\ now' = now + 1 /\ UNCHANGED <<copies, lastBoot, present>>
        /\ booting = NoBackup /\ booting'.time = now' /\ booting'.left = BackupFiles
    BY <1>1 DEF BootDSM, IdentityTypes
  <2>2. ~Through /\ ~Through'
    BY <2>1 DEF Through, BackupFiles
  <2>3. \A d \in DataDisks : Manifest(d)' = Manifest(d)
    BY <2>1 DEF Manifest
  <2>4. \A d \in DataDisks : Manifest(d) # NoBackup => Manifest(d).time \in Nat
    BY IdentityAssumption DEF Manifest, IdentityTypes, Stamps
  <2>5. \A d \in DataDisks : Manifest(d) # NoBackup => Manifest(d).time < now'
    BY <2>1, <2>4 DEF TimesInv
  <2>6. lastBoot # NoBackup => lastBoot.disks \subseteq DataDisks
    BY DEF IdentityTypes, LastBoots
  <2>7. TimesInv'
    BY <2>1, <2>2, <2>3, <2>4, <2>5 DEF TimesInv
  <2>8. LastInv'
    BY <2>1, <2>2, <2>3, <2>6 DEF LastInv
  <2> QED
    BY <2>7, <2>8
<1>2. CASE WriteAtomic
  <2>1. booting.time = now /\ now \in Nat /\ NoBackup \notin Boots
    BY <1>2, WriteManifest, IdentityAssumption DEF TimesInv, IdentityTypes
  <2>2. ~Through /\ booting # NoBackup /\ booting' # NoBackup
    BY <1>2, <2>1, WriteManifest DEF Through
  <2>3. ThisBoot \in Stamps /\ ThisBoot.time = now
    BY <1>2, <2>1, WriteManifest DEF ThisBoot, Boots, Stamps
  <2>4. \A d \in DataDisks : Manifest(d) # NoBackup => Manifest(d).time \in Nat /\ Manifest(d).time < now
    BY <1>2, <2>2, WriteManifest, IdentityAssumption DEF TimesInv, Manifest, IdentityTypes, Stamps
  <2>5. CASE Through'
    <3>1. \A d \in DataDisks : Manifest(d)' = IF d \in present THEN ThisBoot ELSE Manifest(d)
      BY <1>2, <2>5, WriteManifest
    <3>2. UNCHANGED <<now, present, lastBoot, ThisBoot>> /\ booting'.time = now /\ booting'.left = <<>>
      BY <1>2, <2>1, <2>5, WriteManifest DEF Through
    <3>3. present \subseteq DataDisks
      BY DEF IdentityTypes
    <3> QED
      BY <2>1, <2>2, <2>3, <2>4, <2>5, <3>1, <3>2, <3>3 DEF TimesInv, LastInv
  <2>6. CASE ~Through'
    <3>1. \A d \in DataDisks : Manifest(d)' = Manifest(d)
      BY <1>2, <2>6, WriteManifest
    <3>2. UNCHANGED <<now, present, lastBoot>> /\ booting'.time = now
      BY <1>2, <2>1, WriteManifest
    <3>3. lastBoot # NoBackup => lastBoot.disks \subseteq DataDisks
      BY DEF IdentityTypes, LastBoots
    <3> QED
      BY <2>2, <2>4, <2>6, <3>1, <3>2, <3>3 DEF TimesInv, LastInv
  <2> QED
    BY <2>5, <2>6
<1>3. CASE BackupDone
  <2>1. /\ booting \in Boots /\ Through /\ booting' = NoBackup /\ ~Through'
        /\ UNCHANGED <<copies, now, present>>
        /\ lastBoot' = [model |-> booting.model, serial |-> booting.serial, disks |-> present]
    BY <1>3 DEF BackupDone, Through, IdentityTypes
  <2>2. booting.time = now /\ booting.time \in 1 .. MaxDSMBoots
    BY <2>1 DEF TimesInv, Through, Boots
  <2>3. \A d \in DataDisks : Manifest(d)' = Manifest(d)
    BY <2>1 DEF Manifest
  <2>4. TimesInv'
    BY <2>1, <2>3 DEF TimesInv
  <2>5. /\ \A d \in present : Manifest(d) = ThisBoot
        /\ \A d \in DataDisks : Manifest(d) # NoBackup => Manifest(d).time <= booting.time
    BY <2>1, <2>2 DEF TimesInv
  <2>6. /\ \A d \in lastBoot'.disks :
             Manifest(d)' = [model |-> lastBoot'.model, serial |-> lastBoot'.serial, time |-> booting.time]
        /\ \A d \in DataDisks : Manifest(d)' # NoBackup => Manifest(d)'.time <= booting.time
    BY <2>1, <2>3, <2>5 DEF ThisBoot, IdentityTypes
  <2> QED
    BY <2>2, <2>4, <2>6 DEF LastInv
<1>4. CASE BackupCut
  <2>1. /\ booting \in Boots /\ ~Through /\ booting' = NoBackup /\ ~Through'
        /\ UNCHANGED <<copies, now, present, lastBoot>>
    BY <1>4 DEF BackupCut, Through, IdentityTypes
  <2>2. \A d \in DataDisks : Manifest(d)' = Manifest(d)
    BY <2>1 DEF Manifest
  <2>3. lastBoot # NoBackup => lastBoot.disks \subseteq DataDisks
    BY DEF IdentityTypes, LastBoots
  <2> QED
    BY <2>1, <2>2, <2>3 DEF TimesInv, LastInv
<1>5. CASE UNCHANGED <<copies, now, booting, lastBoot>>
  <2>1. \A d \in DataDisks : Manifest(d)' = Manifest(d)
    BY <1>5 DEF Manifest
  <2>2. (Through' <=> Through) /\ (Through => UNCHANGED present)
    <3>1. Through' <=> Through
      BY <1>5 DEF Through
    <3>2. ASSUME NEW d \in DataDisks, MoveDisk(d) PROVE ~Through
      BY <3>2 DEF MoveDisk, Through
    <3>3. (\A d \in DataDisks : ~MoveDisk(d)) => UNCHANGED present
      BY DEF IdentityNext, BootDSM, WriteAtomic, BackupDone, BackupCut, NewLoader, OpenWizard,
         PickModel, ShowIdentity, BackToModel, Install, ChooseSerial, TypeSerial
    <3> QED
      BY <3>1, <3>2, <3>3
  <2>3. lastBoot # NoBackup => lastBoot.disks \subseteq DataDisks
    BY DEF IdentityTypes, LastBoots
  <2>4. ThisBoot' = ThisBoot
    BY <1>5 DEF ThisBoot
  <2>5. present \subseteq DataDisks
    BY DEF IdentityTypes
  <2>6. TimesInv'
    BY <1>5, <2>1, <2>2, <2>4, <2>5 DEF TimesInv
  <2>7. LastInv'
    BY <1>5, <2>1, <2>2, <2>3 DEF LastInv
  <2> QED
    BY <2>6, <2>7
<1>6. BootDSM \/ WriteAtomic \/ BackupDone \/ BackupCut \/ UNCHANGED <<copies, now, booting, lastBoot>>
  BY DEF IdentityNext, MoveDisk, NewLoader, OpenWizard,
     PickModel, ShowIdentity, BackToModel, Install, ChooseSerial, TypeSerial
<1> QED
  BY <1>1, <1>2, <1>3, <1>4, <1>5, <1>6

LEMMA PageStep ==
  ASSUME IdentityTypes, IdentityTypes', TimesInv, PageInv, IdentityNext
  PROVE  PageInv'
<1> USE DEF IdentityTypes
<1>1. CASE page' = NoBackup
  BY <1>1 DEF PageInv
<1>2. CASE OpenWizard
  <2>1. UNCHANGED <<copies, present>> /\ Found' = Found
    BY <1>2 DEF OpenWizard, Found
  <2>2. Sorted(page'.backups, Found)
    BY <1>2, FoundSorted DEF OpenWizard
  <2>3. page'.at = "model" /\ ~page'.chosen /\ (page'.plain => page'.serial = NoBackup)
    BY <1>2 DEF OpenWizard
  <2> QED
    BY <2>1, <2>2, <2>3 DEF PageInv, Sorted
<1>3. ASSUME NEW m \in BackupModels, PickModel(m) PROVE PageInv'
  <2>1. /\ page \in Pages /\ page' = [page EXCEPT !.model = m, !.serial = NoBackup, !.plain = @ /\ page.model = NoBackup]
        /\ Found' = Found /\ page # NoBackup /\ page.at = "model"
    BY <1>3 DEF PickModel, Found
  <2>2. /\ page'.backups = page.backups /\ page'.at = "model" /\ page'.model # NoBackup
        /\ page'.serial = NoBackup /\ (page'.plain => ~page.chosen) /\ page'.chosen = page.chosen
    BY <2>1, IdentityAssumption DEF Pages, PageInv
  <2> QED
    BY <2>1, <2>2 DEF PageInv, Sorted
<1>4. CASE ShowIdentity
  <2>1. /\ page \in Pages /\ page # NoBackup /\ page' = Shown(page) /\ Found' = Found /\ page.model # NoBackup
        /\ page' \in Pages
    BY <1>4, ShownTyped DEF ShowIdentity, Found
  <2>2. /\ page'.at = "identity" /\ page'.chosen /\ page'.model = page.model
        /\ page'.backups = page.backups /\ page'.plain = page.plain
        /\ BackupFor(page') = BackupFor(page)
    BY <2>1, ShownKeeps
  <2>3. ASSUME page.plain, NEW b \in BackupFor(page) PROVE page'.fromBackup /\ page'.serial = b.serial
    BY <2>1, <2>3, ShownBackup DEF PageInv
  <2> QED
    BY <2>1, <2>2, <2>3 DEF PageInv, Sorted
<1>5. CASE BackToModel
  <2>1. /\ page \in Pages /\ page # NoBackup /\ page' = [page EXCEPT !.at = "model"] /\ Found' = Found
    BY <1>5 DEF BackToModel, Found
  <2>2. /\ page'.backups = page.backups /\ page'.at = "model" /\ page'.model = page.model
        /\ page'.serial = page.serial /\ page'.plain = page.plain /\ page'.chosen = page.chosen
        /\ page'.fromBackup = page.fromBackup
    BY <2>1 DEF Pages
  <2>3. BackupFor(page') = BackupFor(page)
    BY <2>2 DEF BackupFor
  <2> QED
    BY <2>1, <2>2, <2>3 DEF PageInv, Sorted
<1>6. ASSUME NEW how \in 0 .. 2, ChooseSerial(how) PROVE PageInv'
  <2> DEFINE p == [page EXCEPT !.manual = how = 1, !.fromBackup = FALSE, !.plain = FALSE]
             q == CASE how = 0 -> [p EXCEPT !.serial = NewSerial(p)]
                    [] how = 1 -> p
                    [] how = 2 -> UseBackup(p)
  <2>1. page \in Pages /\ page # NoBackup /\ page' = Shown(q) /\ Found' = Found /\ page.at = "identity"
        /\ loaders < MaxLoaders
    BY <1>6 DEF ChooseSerial, Found
  <2>2. p \in Pages /\ ~p.plain /\ p.backups = page.backups /\ p.model = page.model
    BY <2>1 DEF Pages
  <2>3. BackupFor(p) = BackupFor(page) /\ (how = 2 => BackupFor(page) # {})
    <3>1. how = 2 => BackupFor(page) # {}
      BY <1>6 DEF ChooseSerial
    <3> HIDE DEF p
    <3>2. BackupFor(p) = BackupFor(page)
      BY <2>2 DEF BackupFor
    <3> QED
      BY <3>1, <3>2
  <2>4. q \in Pages /\ ~q.plain /\ q.backups = page.backups /\ q.model = page.model
    <3> HIDE DEF p
    <3>1. CASE how = 0
      <4>1. NewSerial(p) \in KnownSerials \cup {NoBackup}
        BY <2>1, <2>2, NewSerialTyped
      <4> QED
        BY <2>2, <3>1, <4>1 DEF Pages
    <3>2. CASE how = 1
      BY <2>2, <3>2
    <3>3. CASE how = 2
      <4>1. UseBackup(p) \in Pages
        BY <2>2, <2>3, <3>3, UseBackupTyped
      <4>2. /\ ~UseBackup(p).plain /\ UseBackup(p).backups = page.backups
            /\ UseBackup(p).model = page.model
        BY <2>2 DEF UseBackup, Pages
      <4>3. q = UseBackup(p)
        BY <3>3
      <4> QED
        BY <4>1, <4>2, <4>3
    <3> QED
      BY <3>1, <3>2, <3>3
  <2> HIDE DEF p, q
  <2>5. page.model # NoBackup
    BY <2>1 DEF PageInv
  <2>6. /\ page'.at = "identity" /\ page'.chosen /\ page'.model = page.model
        /\ page'.backups = page.backups /\ ~page'.plain
    BY <2>1, <2>4, ShownKeeps
  <2> QED
    BY <2>1, <2>5, <2>6 DEF PageInv, Sorted
<1>7. ASSUME NEW s \in TypedSerials, TypeSerial(s) PROVE PageInv'
  <2>1. /\ page \in Pages /\ page # NoBackup /\ page' = [page EXCEPT !.serial = s, !.plain = FALSE] /\ Found' = Found
    BY <1>7 DEF TypeSerial, Found
  <2>2. /\ page'.backups = page.backups /\ page'.at = page.at /\ page'.model = page.model
        /\ ~page'.plain /\ page'.chosen = page.chosen
    BY <2>1 DEF Pages
  <2> QED
    BY <2>1, <2>2 DEF PageInv, Sorted
<1>8. CASE UNCHANGED page /\ page # NoBackup
  <2>1. UNCHANGED <<copies, present>>
    BY <1>8, IdentityAssumption DEF IdentityNext, MoveDisk, BootDSM, WriteAtomic, BackupDone, BackupCut, NewLoader,
       OpenWizard, PickModel, ShowIdentity, BackToModel, Install, ChooseSerial, TypeSerial
  <2>2. Found' = Found /\ BackupFor(page') = BackupFor(page)
    BY <1>8, <2>1 DEF Found, BackupFor
  <2> QED
    BY <1>8, <2>2 DEF PageInv, Sorted
<1>9. \/ page' = NoBackup \/ OpenWizard \/ ShowIdentity \/ BackToModel \/ UNCHANGED page
      \/ \E m \in BackupModels : PickModel(m)
      \/ \E how \in 0 .. 2 : ChooseSerial(how)
      \/ \E s \in TypedSerials : TypeSerial(s)
  BY DEF IdentityNext, MoveDisk, BootDSM, WriteAtomic, BackupDone, BackupCut, NewLoader, Install
<1> QED
  BY <1>1, <1>2, <1>3, <1>4, <1>5, <1>6, <1>7, <1>8, <1>9

\* The backup the wizard takes is the last boot's: no disk has a newer one.
LEMMA NewestIsLast ==
  ASSUME IdentityInv, page # NoBackup, lastBoot # NoBackup,
         lastBoot.model = page.model, lastBoot.disks \cap present # {}
  PROVE  \E b \in BackupFor(page) : b.serial = lastBoot.serial
<1> USE DEF IdentityInv
<1>1. booting = NoBackup /\ page \in Pages /\ lastBoot \in LastBoots
  BY DEF IdentityTypes
<1>2. PICK t \in 1 .. MaxDSMBoots :
        /\ \A d \in lastBoot.disks :
             Manifest(d) = [model |-> lastBoot.model, serial |-> lastBoot.serial, time |-> t]
        /\ \A d \in DataDisks : Manifest(d) # NoBackup => Manifest(d).time <= t
  BY <1>1 DEF LastInv, Through
<1> DEFINE last == [model |-> lastBoot.model, serial |-> lastBoot.serial, time |-> t]
<1>3. last \in Found
  <2>1. last \in Stamps
    BY <1>1 DEF LastBoots, Stamps
  <2> QED
    BY <1>2, <2>1, IdentityAssumption DEF Found, Manifest
<1>4. \A b \in Found : b.time <= t /\ b.time \in Nat
  BY <1>2 DEF IdentityTypes, Found, Manifest, Stamps
<1>5. Sorted(page.backups, Found)
  BY DEF PageInv
<1>6. DOMAIN page.backups = 1 .. Cardinality(Found) /\ \A i \in DOMAIN page.backups : page.backups[i] \in Found
  BY <1>5 DEF Sorted
<1>7. PICK i \in DOMAIN page.backups : page.backups[i] = last
  BY <1>3, <1>5 DEF Sorted, Range
<1>8. i = 1
  <2> SUFFICES ASSUME i # 1 PROVE FALSE
    OBVIOUS
  <2>1. 1 \in DOMAIN page.backups /\ i \in Nat /\ 1 < i
    <3>1. page.backups \in Seq(Stamps)
      BY <1>1 DEF Pages
    <3> QED
      BY <3>1
  <2>2. page.backups[1].time > page.backups[i].time
    BY <1>5, <2>1 DEF Sorted, NewestFirst
  <2> QED
    BY <1>4, <1>6, <1>7, <2>1, <2>2
<1>9. last \in BackupFor(page)
  BY <1>7, <1>8 DEF BackupFor
<1> QED
  BY <1>9

\* A new loader on which only the model was chosen boots DSM with the serial it
\* last ran with, for any disks, models and serials, however disks came and
\* went and boots were cut off: backupToDSM writes the manifest last, and
\* findDSMBackups puts the newest first.
THEOREM SerialIsKeptCorrect == IdentitySpec => SerialIsKept
<1> DEFINE SerialStays == page # NoBackup /\ page' = NoBackup /\ page.plain =>
         (lastBoot # NoBackup /\ lastBoot.model = page.model /\ lastBoot.disks \cap present # {}
            => own'.serial = lastBoot.serial)
<1>1. IdentityInit => IdentityInv
  BY IdentityAssumption, BackupFilesAre
     DEF IdentityInit, IdentityInv, IdentityTypes, TimesInv, LastInv, PageInv, Manifest, Through
<1>2. IdentityInv /\ IdentityNext => IdentityInv'
  BY IdentityTypesStep, TimesStep, PageStep DEF IdentityInv
<1>3. IdentityInv /\ UNCHANGED identityVars => IdentityInv'
  BY DEF identityVars, IdentityInv, IdentityTypes, TimesInv, LastInv, PageInv, Manifest, Through,
     ThisBoot, Found, BackupFor, Sorted
<1>4. IdentityInv /\ IdentityNext => SerialStays
  <2> SUFFICES ASSUME IdentityInv, IdentityNext, page # NoBackup, page' = NoBackup, page.plain,
                      lastBoot # NoBackup, lastBoot.model = page.model, lastBoot.disks \cap present # {}
               PROVE  own'.serial = lastBoot.serial
    OBVIOUS
  <2>1. Install
    <3>1. ~PageEdited
      BY PageTyped DEF IdentityInv
    <3>2. OpenWizard => page = NoBackup
      BY DEF OpenWizard
    <3> QED
      BY <3>1, <3>2 DEF IdentityNext, PageEdited, MoveDisk, BootDSM, WriteAtomic, BackupDone, BackupCut, NewLoader
  <2>2. page.chosen /\ own'.serial = IF page.serial = NoBackup THEN loaders + 1 ELSE page.serial
    BY <2>1 DEF Install, IdentityInv, PageInv
  <2>3. PICK b \in BackupFor(page) : b.serial = lastBoot.serial
    BY NewestIsLast
  <2>4. page.serial = lastBoot.serial
    BY <2>2, <2>3 DEF IdentityInv, PageInv
  <2>5. lastBoot.serial # NoBackup
    BY IdentityAssumption DEF IdentityInv, IdentityTypes, LastBoots
  <2> QED
    BY <2>2, <2>4, <2>5
<1> QED
  <2>1. IdentityInv /\ [IdentityNext]_identityVars => [SerialStays]_identityVars
    BY <1>4
  <2> QED
    BY <1>1, <1>2, <1>3, <2>1, PTL DEF IdentitySpec, SerialIsKept
=============================================================================
