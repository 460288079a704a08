---------------------------- MODULE PackDownload ----------------------------
(***************************************************************************)
(* FetchModulePackFrom and ModulePackFromFiles (internal/image/modules.go):*)
(* the driver pack and its firmware from the latest release, or from what  *)
(* earlier runs kept when that is out of reach, while releases keep coming *)
(* out; or both from a disk.                                               *)
(*                                                                         *)
(* An asset is known by the release it is of, and so is a release's        *)
(* SHA256SUMS; 0 stands for one that is not had.                           *)
(***************************************************************************)
EXTENDS Integers, SequencesExt

CONSTANTS
    MaxReleases, \* releases that come out
    MaxKept,     \* copies the cache gets
    LocalTag     \* what Tag says of files from a disk

ASSUME ReleasesAssumption == MaxReleases \in Nat \ {0} /\ MaxKept \in Nat /\ LocalTag \notin Nat

VARIABLES
    latest, \* the release that is out
    cache,  \* copies [asset, tag, whole], one of each asset and tag, newest last
    pull,   \* the running call: [step, tag, sums, pack, refused]
    pulled  \* history: what the last call returned, and what it had met

packVars == <<latest, cache, pull, pulled>>

Idle == [step |-> "idle", tag |-> 0, sums |-> 0, pack |-> 0, refused |-> FALSE]
Nothing4 == [ok |-> FALSE, tag |-> 0, pack |-> 0, firmware |-> 0, sums |-> 0, refused |-> TRUE]

PackInit == latest = 1 /\ cache = <<>> /\ pull = Idle /\ pulled = Nothing4

Publish == /\ latest < MaxReleases /\ latest' = latest + 1 /\ UNCHANGED <<cache, pull, pulled>>

\* release.load: the listing, then the sums of the release it names.
Load ==
    /\ pull.step = "idle"
    /\ \E tag, sums \in {0, latest} :
          /\ tag = 0 => sums = 0
          /\ pull' = [Idle EXCEPT !.step = "pack", !.tag = tag, !.sums = sums]
    /\ UNCHANGED <<latest, cache, pulled>>

\* The copy written last, whatever release it is of, as a set of at most one.
NewestCached(asset) ==
    LET of == SelectSeq(cache, LAMBDA k : k.asset = asset)
    IN  IF of = <<>> THEN {} ELSE {Last(of)}

\* Mutant: a copy of this release is not compared with its sum.
GoodCopyUnchecked(asset) == {k \in Range(cache) : k.asset = asset /\ k.tag = pull.tag}

\* A copy of this release that has the sum it should have.
GoodCopy(asset) == {k \in Range(cache) : k.asset = asset /\ k.tag = pull.tag /\ k.whole}

\* The cache after a copy was written, perhaps not to its end.
Kept(asset, whole) ==
    Append(SelectSeq(cache, LAMBDA k : k.asset # asset \/ k.tag # pull.tag),
           [asset |-> asset, tag |-> pull.tag, whole |-> whole])

\* A copy as it unpacks: one that is cut short does not.
Unpacked(k) == IF k.whole THEN k.tag ELSE 0

\* What release.fetch may come to: the asset, the tag and the cache then. A
\* download is compared with the sum; that keeping it fails is not looked at.
Results(asset) ==
    IF pull.sums = 0
    THEN IF NewestCached(asset) = {} THEN {[got |-> 0, tag |-> pull.tag, cache |-> cache]}
         ELSE {[got |-> Unpacked(k), cache |-> cache,
                tag |-> IF pull.tag = 0 THEN k.tag ELSE pull.tag] : k \in NewestCached(asset)}
    ELSE IF GoodCopy(asset) # {}
         THEN {[got |-> Unpacked(k), tag |-> pull.tag, cache |-> cache] : k \in GoodCopy(asset)}
    ELSE {[got |-> pull.sums, tag |-> pull.tag, cache |-> c] :
             c \in {cache} \cup IF Len(cache) < MaxKept THEN {Kept(asset, TRUE), Kept(asset, FALSE)} ELSE {}}

Returns(ok, tag, pack, firmware, sums, refused) ==
    pulled' = [ok |-> ok, tag |-> tag, pack |-> pack, firmware |-> firmware, sums |-> sums, refused |-> refused]

FetchPack ==
    /\ pull.step = "pack"
    /\ \E r \in Results("pack") :
          /\ cache' = r.cache
          /\ IF r.got # 0
             THEN /\ pull' = [pull EXCEPT !.step = "firmware", !.tag = r.tag, !.pack = r.got]
                  /\ UNCHANGED pulled
             ELSE /\ pull' = Idle /\ Returns(FALSE, r.tag, 0, 0, pull.sums, pull.refused)
    /\ UNCHANGED latest

\* The pack goes without firmware that cannot be had.
FetchFirmware ==
    /\ pull.step = "firmware"
    /\ \E r \in Results("firmware") :
          /\ cache' = r.cache
          /\ pull' = Idle /\ Returns(TRUE, pull.tag, pull.pack, r.got, pull.sums, pull.refused)
    /\ UNCHANGED latest

\* A download that is needed fails or has another sum.
DownloadFails ==
    /\ pull.sums # 0
    /\ \/ /\ pull.step = "pack" /\ GoodCopy("pack") = {}
          /\ Returns(FALSE, pull.tag, 0, 0, pull.sums, TRUE)
       \/ /\ pull.step = "firmware" /\ GoodCopy("firmware") = {}
          /\ Returns(TRUE, pull.tag, pull.pack, 0, pull.sums, TRUE)
    /\ pull' = Idle /\ UNCHANGED <<latest, cache>>

\* The program ends in the middle, perhaps of keeping a copy.
PullKilled ==
    /\ pull.step \in {"pack", "firmware"}
    /\ cache' \in {r.cache : r \in Results(pull.step)}
    /\ pull' = Idle /\ pulled' = Nothing4 /\ UNCHANGED latest

\* Mutant: only the drivers are compared with the sums on the disk.
FromFilesHalf(pack, firmware, sums) ==
    /\ pull.step = "idle"
    /\ IF sums \notin {0, pack} THEN Returns(FALSE, LocalTag, 0, 0, sums, TRUE)
       ELSE Returns(TRUE, LocalTag, pack, firmware, sums, TRUE)
    /\ UNCHANGED <<latest, cache, pull>>

\* ModulePackFromFiles: both files compared with the sums when those are there.
FromFiles(pack, firmware, sums) ==
    /\ pull.step = "idle"
    /\ IF sums \notin {0, pack} THEN Returns(FALSE, LocalTag, 0, 0, sums, TRUE)
       ELSE Returns(TRUE, LocalTag, pack, IF sums \in {0, firmware} THEN firmware ELSE 0, sums, TRUE)
    /\ UNCHANGED <<latest, cache, pull>>

PackNext ==
    \/ Publish \/ Load \/ FetchPack \/ FetchFirmware \/ DownloadFails \/ PullKilled
    \/ \E pack \in 1 .. latest, firmware, sums \in 0 .. latest : FromFiles(pack, firmware, sums)

PackSpec == PackInit /\ [][PackNext]_packVars

(***************************************************************************)
(* Property.                                                               *)
(***************************************************************************)

\* Whenever the release's sums are at hand, drivers and firmware are of one
\* release, and a call no download of which failed returns both, although
\* earlier ones may have left cut copies under the same names and another
\* release may have come out since the listing was read.
OfOneRelease ==
    pulled.sums # 0 =>
        /\ pulled.ok => pulled.pack = pulled.sums /\ pulled.firmware \in {0, pulled.sums}
        /\ ~pulled.refused => pulled.ok /\ pulled.firmware = pulled.sums
=============================================================================
