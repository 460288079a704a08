------------------------- MODULE InstallFlowProofs -------------------------
(***************************************************************************)
(* Proofs about InstallFlow, for any set of models, serials and kernels,   *)
(* any way of mounting partition 1 and any number of builds.               *)
(***************************************************************************)
EXTENDS InstallFlow, TLAPS

(* Type correctness.  grub.cfg receives the settings as they are, and      *)
(* loader.img the files as they are, so that the types of the two need the *)
(* identity to be pinned and the ramdisk to be patched by then.            *)
Pinned ==
  /\ stage \in BuildStages => Valid(cfg)
  /\ stage \in BuildStages \ {"pin"} => cfg.serial # Unset
  /\ stage = "image" => work.initrd # None

TypeInv == TypeOK /\ Pinned

LEMMA StartValues ==
  /\ Default \in Configs /\ Bootstrap \in GrubFiles
  /\ NoWork \in WorkFiles /\ NotReady \in Plans /\ 0 \in 0..MaxBuilds
<1>1. Default \in Configs /\ Bootstrap \in GrubFiles
  BY DEF Default, Configs, GrubFiles
<1>2. NoWork \in WorkFiles
  BY DEF NoWork, WorkFiles, Files
<1>3. NotReady \in Plans
  BY <1>1 DEF NotReady, Plans
<1>4. 0 \in 0..MaxBuilds
  BY ConstantsAssumption
<1> QED
  BY <1>1, <1>2, <1>3, <1>4

LEMMA InitTypeInv == Init => TypeInv
<1> SUFFICES ASSUME Init PROVE TypeInv
  OBVIOUS
<1>1. p4 \in Packs \cup {None, Torn}
  BY DEF Init, Packs
<1>2. stage \in Stages /\ stage \notin BuildStages
  BY DEF Init, Stages, BuildStages
<1> QED
  BY <1>1, <1>2, StartValues DEF Init, TypeInv, TypeOK, Pinned

LEMMA MachineTypeInv == TypeInv /\ Machine => TypeInv'
<1> SUFFICES ASSUME TypeInv, Machine PROVE TypeInv'
  OBVIOUS
<1> USE DEF TypeInv, TypeOK, Pinned, Valid, Stages, BuildStages, Goto
<1>1. CASE StartLoader
  BY <1>1, StartValues, ConstantsAssumption DEF StartLoader, diskVars, tempVars
<1>2. CASE BootDsmEntry
  BY <1>2 DEF BootDsmEntry, diskVars, tuiVars, tempVars, Systems, Payloads
<1>3. CASE LeaveDsm
  BY <1>3 DEF LeaveDsm, diskVars, tuiVars, tempVars
<1>4. CASE PowerLoss
  BY <1>4, StartValues DEF PowerLoss, ForgetSession
<1> QED
  BY <1>1, <1>2, <1>3, <1>4 DEF Machine

\* A save, whether it works or not, leaves settings or an unparsable file.
LEMMA SaveTyped ==
  ASSUME yaml \in Configs \cup {None}, yamlDisk \in Configs \cup {None},
         NEW c \in Configs, SaveSucceeds(c) \/ SaveFails
  PROVE  yaml' \in Configs \cup {None} /\ yamlDisk' \in Configs \cup {None}
BY DEF SaveSucceeds, SaveFails

LEMMA MenuTypeInv == TypeInv /\ Menu => TypeInv'
<1> SUFFICES ASSUME TypeInv, Menu PROVE TypeInv'
  OBVIOUS
<1> USE DEF TypeInv, TypeOK, Pinned, Valid, Stages, BuildStages, Goto
<1>1. ASSUME NEW m \in Models, EditModel(m) PROVE TypeInv'
  BY <1>1 DEF EditModel, Configs, diskVars, tempVars
<1>2. ASSUME NEW s \in Serials \cup {Unset}, EditIdentity(s) PROVE TypeInv'
  BY <1>2 DEF EditIdentity, Configs, diskVars, tempVars
<1>3. CASE AutoSave
  <2>1. yaml' \in Configs \cup {None} /\ yamlDisk' \in Configs \cup {None}
    BY <1>3, SaveTyped DEF AutoSave
  <2>2. dirty' \in BOOLEAN
    BY <1>3 DEF AutoSave
  <2> QED
    BY <1>3, <2>1, <2>2 DEF AutoSave
<1>4. CASE KexecIntoDsm
  BY <1>4, StartValues DEF KexecIntoDsm, Systems, WorkFiles, Plans, ForgetSession
<1>5. CASE Reboot
  BY <1>5, StartValues DEF Reboot, ForgetSession
<1> QED
  BY <1>1, <1>2, <1>3, <1>4, <1>5 DEF Menu

LEMMA BuildTypeInv == TypeInv /\ Build => TypeInv'
<1> SUFFICES ASSUME TypeInv, Build PROVE TypeInv'
  OBVIOUS
<1> USE DEF TypeInv, TypeOK, Pinned, Valid, Stages, BuildStages, Goto, KeepDisk, KeepTui,
            diskVars, tempVars
<1>1. CASE StartBuild
  <2>1. yaml' \in Configs \cup {None} /\ yamlDisk' \in Configs \cup {None}
    BY <1>1, SaveTyped DEF StartBuild
  <2>2. dirty' \in BOOLEAN
    BY <1>1 DEF StartBuild
  <2>3. builds' \in 0..MaxBuilds
    <3>1. builds \in 0..MaxBuilds /\ builds < MaxBuilds /\ builds' = builds + 1
      BY <1>1 DEF StartBuild
    <3> QED
      BY <3>1, ConstantsAssumption
  <2>4. stage' \in {"pin", "return"} /\ (stage' = "pin" => Valid(cfg))
    BY <1>1 DEF StartBuild
  <2> QED
    BY <1>1, <2>1, <2>2, <2>3, <2>4 DEF StartBuild
<1>2. CASE PinIdentity
  <2>1. cfg.model \in Models /\ (cfg.serial # Unset => cfg.serial \in ValidSerial[cfg.model])
    BY <1>2 DEF PinIdentity, Configs
  <2>2. \/ cfg' = cfg /\ stage' = "return"
        \/ \E s \in ValidSerial[cfg.model] : cfg' = [cfg EXCEPT !.serial = s]
    BY <1>2, <2>1 DEF PinIdentity, Identities
  <2>3. /\ cfg' \in Configs
        /\ stage' # "return" => Valid(cfg') /\ cfg'.serial # Unset
    <3>1. CASE cfg' = cfg /\ stage' = "return"
      BY <3>1
    <3>2. ASSUME NEW s \in ValidSerial[cfg.model], cfg' = [cfg EXCEPT !.serial = s]
          PROVE  cfg' \in Configs /\ Valid(cfg') /\ cfg'.serial # Unset
      BY <2>1, <3>2, ConstantsAssumption DEF Configs
    <3> QED
      BY <2>2, <3>1, <3>2
  <2>4. yaml' \in Configs \cup {None} /\ yamlDisk' \in Configs \cup {None}
    BY <1>2, <2>3, SaveTyped DEF PinIdentity
  <2>5. dirty' \in BOOLEAN /\ stage' \in {"fetch", "return"}
    BY <1>2 DEF PinIdentity
  <2> QED
    BY <1>2, <2>3, <2>4, <2>5 DEF PinIdentity
<1>3. CASE Fetch
  BY <1>3 DEF Fetch, WorkFiles
<1>4. CASE ExtractOK
  <2>1. PICK z, r \in {"new", "old"} :
          LET w == [work EXCEPT !.zImage = IF z = "new" THEN work.pat ELSE @,
                                !.rd     = IF r = "new" THEN work.pat ELSE @]
          IN  work' = w \/ work' = Pruned(w)
    BY <1>4 DEF ExtractOK
  <2>2. work' \in WorkFiles
    <3>1. work.pat \in Files
      BY DEF WorkFiles, Files
    <3> QED
      BY <2>1, <3>1 DEF Pruned, WorkFiles, Files
  <2>3. stage' \in {"drivers", "return"}
    BY <1>4 DEF ExtractOK
  <2> QED
    BY <1>4, <2>2, <2>3 DEF ExtractOK
<1>5. CASE ExtractFails
  <2>1. work' \in WorkFiles
    BY <1>5 DEF ExtractFails, WorkFiles, Files
  <2> QED
    BY <1>5, <2>1 DEF ExtractFails
<1>6. CASE FetchDriverPack
  <2>1. KernelOf[cfg.model] \in Kernels
    BY <1>6 DEF FetchDriverPack, Kernels, Configs
  <2>2. pack' \in Packs \cup {None} /\ packFromDisk' \in BOOLEAN
    <3>1. [kernel |-> KernelOf[cfg.model], originals |-> None] \in Packs
      BY <2>1 DEF Packs
    <3> QED
      BY <1>6, <3>1 DEF FetchDriverPack
  <2> QED
    BY <1>6, <2>2 DEF FetchDriverPack
<1>7. CASE MergePatOriginals
  <2>1. pack' \in Packs \cup {None} /\ packFromDisk' \in BOOLEAN
    BY <1>7 DEF MergePatOriginals, Packs
  <2> QED
    BY <1>7, <2>1 DEF MergePatOriginals
<1>8. CASE Patch
  <2>1. cfg.model \in Models
    BY <1>8 DEF Patch, Configs
  <2>2. work' \in WorkFiles
    <3>1. CASE UNCHANGED work
      BY <3>1
    <3>2. CASE ~UNCHANGED work
      <4>1. work.rd \in Models
        BY <1>8, <3>2 DEF Patch
      <4>2. [pat |-> work.rd, settings |-> cfg.model] \in Ramdisks
        BY <2>1, <4>1 DEF Ramdisks
      <4>3. PICK z \in {work.zDsm, work.zImage} :
              work' = [work EXCEPT !.zDsm = z,
                                   !.initrd = [pat |-> work.rd, settings |-> cfg.model]]
        BY <1>8, <3>2 DEF Patch
      <4>4. z \in Files
        BY DEF WorkFiles
      <4> QED
        BY <4>2, <4>3, <4>4 DEF WorkFiles
    <3> QED
      BY <3>1, <3>2
  <2>3. stage' \in {"return", "image"}
    BY <1>8 DEF Patch
  <2>4. stage' = "image" => work'.initrd # None
    <3>1. [pat |-> work.rd, settings |-> cfg.model] # None
          \/ ~(work.rd \in Models)
      BY <2>1, ConstantsAssumption DEF Ramdisks
    <3>2. work.initrd' # None \/ stage' = "return"
      BY <1>8, <3>1 DEF Patch, WorkFiles
    <3> QED
      BY <3>2
  <2>5. UNCHANGED <<yaml, yamlDisk, grub, backup, p3, p4, mount, cfg, dirty, built,
                    packFromDisk, plan, pack, image, report, running, builds>>
    BY <1>8 DEF Patch
  <2>6. Valid(cfg) /\ cfg.serial # Unset
    BY <1>8 DEF Patch
  <2> QED
    BY <2>2, <2>3, <2>4, <2>5, <2>6
<1>9. CASE BuildImage
  <2>1. image' \in Payloads \cup {None}
    <3>1. work.zDsm \in Files /\ work.zImage \in Files /\ work.initrd \in Ramdisks \cup {None}
      BY DEF WorkFiles
    <3> QED
      BY <1>9, <3>1 DEF BuildImage, KernelFile, Files, Payloads
  <2>2. stage' \in {"return", "flash3"}
    BY <1>9 DEF BuildImage
  <2> QED
    BY <1>9, <2>1, <2>2 DEF BuildImage
<1>10. CASE FlashP3
  BY <1>10 DEF FlashP3
<1>11. CASE FlashP3Ends
  BY <1>11 DEF FlashP3Ends
<1>12. CASE FlashP4
  BY <1>12 DEF FlashP4
<1>13. CASE FlashP4Ends
  BY <1>13 DEF FlashP4Ends
<1> USE DEF KeepAllButGrub
<1>14. CASE AskDefault
  BY <1>14 DEF AskDefault
<1>15. CASE BackupGrub
  BY <1>15 DEF BackupGrub
<1>16. CASE RewriteGrub
  BY <1>16 DEF RewriteGrub, GrubFiles, DsmEntries, Configs, Valid
<1>17. CASE RestoreGrub
  BY <1>17 DEF RestoreGrub
<1>18. CASE Finish
  BY <1>18 DEF Finish, KernelFile, Plans
<1> QED
  BY <1>1, <1>2, <1>3, <1>4, <1>5, <1>6, <1>7, <1>8, <1>9, <1>10, <1>11, <1>12,
     <1>13, <1>14, <1>15, <1>16, <1>17, <1>18 DEF Build

\* Every variable keeps its type, whatever fails and whenever the power goes.
THEOREM TypeCorrect == Spec => []TypeOK
<1>1. TypeInv /\ UNCHANGED vars => TypeInv'
  BY DEF TypeInv, TypeOK, Pinned, Valid, vars, diskVars, tuiVars, tempVars
<1>2. TypeInv /\ [Next]_vars => TypeInv'
  BY <1>1, MachineTypeInv, MenuTypeInv, BuildTypeInv DEF Next
<1>3. Spec => []TypeInv
  BY InitTypeInv, <1>2, PTL DEF Spec
<1>4. TypeInv => TypeOK
  BY DEF TypeInv
<1> QED
  BY <1>3, <1>4, PTL
-----------------------------------------------------------------------------
(* The payload.  Partition 3 is only ever written from loader.img, which   *)
(* is put together from files that came out of one .pat; the chain has to  *)
(* be followed from the extraction to the end of the build, because a      *)
(* failed step leaves the files of the step before it lying around.        *)
Coherent(p) ==
  /\ p \in Payloads /\ p.kernel = p.ramdisk.pat
  /\ KernelOf[p.ramdisk.pat] = KernelOf[p.ramdisk.settings]

OfThisBuild(p) ==
  Coherent(p) /\ p.ramdisk.pat = work.rd /\ p.ramdisk.settings = cfg.model

Unpacked ==
  /\ stage = "extract" => work.pat # None
  /\ stage \in {"drivers", "merge", "patch", "image"} =>
       /\ work.rd \in Models /\ work.zImage = work.rd /\ work.zDsm \in {None, work.rd}
       /\ KernelOf[work.rd] = KernelOf[cfg.model]

Patched ==
  stage = "image" => work.initrd = [pat |-> work.rd, settings |-> cfg.model]

Assembled == stage \in {"flash3", "flashing3"} => OfThisBuild(image)

Flashed ==
  /\ p3 \in Payloads => Coherent(p3)
  /\ stage = "flashing3" => p3 = Torn
  /\ stage \in {"flash4", "flashing4", "menu.cfg", "backup", "rewrite", "restore", "finish"}
       => OfThisBuild(p3)

PayloadInv == Unpacked /\ Patched /\ Assembled /\ Flashed

\* The driver pack the build carries along is for its kernel; one that did not
\* come off partition 4 has no originals but this .pat's.
PackInv ==
  /\ stage \in {"merge", "patch", "image", "flash3", "flashing3", "flash4", "flashing4"}
     /\ pack # None =>
       /\ pack.kernel = KernelOf[cfg.model]
       /\ packFromDisk \/ pack.originals \in {None, work.rd}
  /\ stage = "flashing4" => ~packFromDisk /\ pack # None

\* Outside the build nothing touches partition 3 or 4.
LEMMA OtherPayloadInv ==
  ASSUME PayloadInv, PackInv, Machine \/ Menu
  PROVE  PayloadInv' /\ PackInv'
<1>1. UNCHANGED p3 /\ stage' \in {"off", "menu", "return", "dsm"}
  BY DEF Machine, Menu, StartLoader, BootDsmEntry, LeaveDsm, PowerLoss, EditModel,
     EditIdentity, AutoSave, KexecIntoDsm, Reboot, Goto, diskVars
<1> QED
  BY <1>1 DEF PayloadInv, PackInv, Unpacked, Patched, Assembled, Flashed, Coherent

LEMMA BuildPayloadInv ==
  ASSUME TypeInv, PayloadInv, PackInv, Build
  PROVE  PayloadInv' /\ PackInv'
<1> USE DEF PayloadInv, PackInv, Unpacked, Patched, Assembled, Flashed, Goto, KeepDisk,
            KeepTui, KeepAllButGrub, diskVars, tempVars
<1>0. stage \in BuildStages => cfg.model \in Models
  BY DEF TypeInv, TypeOK, Pinned, Valid, Configs
<1>1. CASE StartBuild \/ PinIdentity \/ Fetch \/ ExtractFails
  <2>1. UNCHANGED p3 /\ stage' \in {"pin", "fetch", "extract", "return"}
    BY <1>1 DEF StartBuild, PinIdentity, Fetch, ExtractFails
  <2>2. stage' = "extract" => \E x \in Models : work' = [work EXCEPT !.pat = x]
    BY <1>1 DEF StartBuild, PinIdentity, Fetch, ExtractFails
  <2>3. stage' = "extract" => work'.pat # None
    BY <2>2, ConstantsAssumption DEF TypeInv, TypeOK, WorkFiles
  <2> QED
    BY <2>1, <2>3 DEF Coherent
<1>2. CASE ExtractOK
  <2>1. UNCHANGED <<p3, cfg>> /\ stage' \in {"drivers", "return"}
    BY <1>2 DEF ExtractOK
  <2>2. stage' = "drivers" =>
          /\ work' = Pruned([work EXCEPT !.zImage = work.pat, !.rd = work.pat])
          /\ KernelFits([work EXCEPT !.zImage = work.pat, !.rd = work.pat])
          /\ work.pat # None
    BY <1>2 DEF ExtractOK, TypeInv, TypeOK, WorkFiles
  <2>3. stage' = "drivers" =>
          /\ work.pat \in Models /\ work'.rd = work.pat /\ work'.zImage = work.pat
          /\ work'.zDsm = None /\ KernelOf[work.pat] = KernelOf[cfg.model]
    BY <2>2 DEF Pruned, KernelFits, TypeInv, TypeOK, WorkFiles
  <2> QED
    BY <2>1, <2>3 DEF Coherent
<1>3. CASE FetchDriverPack
  <2>1. /\ stage = "drivers" /\ stage' = "merge" /\ UNCHANGED <<p3, cfg, work>>
    BY <1>3 DEF FetchDriverPack
  <2>2. pack' # None =>
          /\ pack'.kernel = KernelOf[cfg.model]
          /\ packFromDisk' \/ pack'.originals = None
    BY <1>3 DEF FetchDriverPack
  <2> QED
    BY <2>1, <2>2 DEF Coherent
<1>4. CASE MergePatOriginals
  <2>1. /\ stage = "merge" /\ stage' = "patch" /\ UNCHANGED <<p3, cfg, work>>
    BY <1>4 DEF MergePatOriginals
  <2>2. \/ UNCHANGED <<pack, packFromDisk>>
        \/ pack # None /\ pack' = [pack EXCEPT !.originals = work.rd]
    BY <1>4 DEF MergePatOriginals
  <2>3. pack' # None =>
          /\ pack'.kernel = KernelOf[cfg.model]
          /\ packFromDisk' \/ pack'.originals \in {None, work.rd}
    BY <2>1, <2>2 DEF TypeInv, TypeOK, Packs
  <2> QED
    BY <2>1, <2>3 DEF Coherent
<1>5. CASE Patch
  <2>1. /\ stage = "patch" /\ stage' \in {"return", "image"}
        /\ UNCHANGED <<p3, cfg, pack, packFromDisk>>
    BY <1>5 DEF Patch
  <2>2. stage' = "image" =>
          \E z \in {work.zDsm, work.zImage} :
            work' = [work EXCEPT !.zDsm = z,
                                 !.initrd = [pat |-> work.rd, settings |-> cfg.model]]
    BY <1>5 DEF Patch
  <2>3. stage' = "image" =>
          /\ work'.rd = work.rd /\ work'.zImage = work.zImage
          /\ work'.zDsm \in {work.zDsm, work.zImage}
          /\ work'.initrd = [pat |-> work.rd, settings |-> cfg.model]
    BY <2>2 DEF TypeInv, TypeOK, WorkFiles
  <2> QED
    BY <2>1, <2>3 DEF Coherent
<1>6. CASE BuildImage
  <2>1. /\ stage = "image" /\ stage' \in {"return", "flash3"}
        /\ UNCHANGED <<p3, cfg, work, pack, packFromDisk>>
    BY <1>6 DEF BuildImage
  <2>2. stage' = "flash3" => image' = [kernel |-> work.rd, ramdisk |-> work.initrd]
    BY <1>6, <2>1 DEF BuildImage, KernelFile
  <2>3. stage' = "flash3" => OfThisBuild(image)'
    BY <1>0, <2>1, <2>2 DEF OfThisBuild, Coherent, Payloads, Ramdisks, BuildStages
  <2> QED
    BY <2>1, <2>3 DEF Coherent
<1>7. CASE FlashP3
  <2>1. /\ stage = "flash3" /\ stage' \in {"return", "flashing3"}
        /\ UNCHANGED <<cfg, work, pack, packFromDisk, image>>
        /\ p3' = Torn \/ (stage' = "return" /\ UNCHANGED p3)
        /\ stage' = "flashing3" => p3' = Torn
    BY <1>7 DEF FlashP3
  <2>2. Torn \notin Payloads
    BY ConstantsAssumption
  <2> QED
    BY <2>1, <2>2 DEF OfThisBuild, Coherent
<1>8. CASE FlashP3Ends
  <2>1. /\ stage = "flashing3" /\ stage' \in {"return", "flash4"}
        /\ UNCHANGED <<cfg, work, pack, packFromDisk, image>>
        /\ \/ stage' = "return" /\ UNCHANGED p3
           \/ stage' = "flash4" /\ p3' = image
    BY <1>8 DEF FlashP3Ends
  <2> QED
    BY <2>1 DEF OfThisBuild, Coherent
<1>9. CASE FlashP4 \/ FlashP4Ends
  <2>1. /\ stage \in {"flash4", "flashing4"} /\ stage' \in {"flashing4", "menu.cfg"}
        /\ UNCHANGED <<p3, cfg, work, pack, packFromDisk>>
        /\ stage' = "flashing4" => stage = "flash4" /\ ~packFromDisk /\ pack # None
    BY <1>9 DEF FlashP4, FlashP4Ends
  <2> QED
    BY <2>1 DEF OfThisBuild, Coherent
<1>10. CASE AskDefault \/ BackupGrub \/ RewriteGrub \/ RestoreGrub \/ Finish
  <2>1. /\ stage \in {"menu.cfg", "backup", "rewrite", "restore", "finish"}
        /\ stage' \in {"backup", "rewrite", "restore", "finish", "return"}
        /\ UNCHANGED <<p3, cfg, work>>
    BY <1>10 DEF AskDefault, BackupGrub, RewriteGrub, RestoreGrub, Finish
  <2> QED
    BY <2>1 DEF OfThisBuild, Coherent
<1> QED
  BY <1>1, <1>2, <1>3, <1>4, <1>5, <1>6, <1>7, <1>8, <1>9, <1>10 DEF Build

LEMMA PayloadInvHolds == Spec => [](TypeInv /\ PayloadInv /\ PackInv)
<1> DEFINE Inv == TypeInv /\ PayloadInv /\ PackInv
<1>1. Init => Inv
  <2>1. Init => PayloadInv /\ PackInv
    BY ConstantsAssumption DEF Init, PayloadInv, PackInv, Unpacked, Patched, Assembled, Flashed
  <2> QED
    BY <2>1, InitTypeInv
<1>2. Inv /\ [Next]_vars => Inv'
  <2>1. Inv /\ UNCHANGED vars => Inv'
    BY DEF TypeInv, TypeOK, Pinned, Valid, PayloadInv, PackInv, Unpacked, Patched, Assembled,
       Flashed, OfThisBuild, Coherent, vars, diskVars, tuiVars, tempVars
  <2>2. Inv /\ (Machine \/ Menu) => Inv'
    BY MachineTypeInv, MenuTypeInv, OtherPayloadInv
  <2>3. Inv /\ Build => Inv'
    BY BuildTypeInv, BuildPayloadInv
  <2> QED
    BY <2>1, <2>2, <2>3 DEF Next
<1>3. Spec => []Inv
  BY <1>1, <1>2, PTL DEF Spec
<1> QED
  BY <1>3

\* Kernel and ramdisk on partition 3 come out of one .pat, of the platform the
\* settings ask for, whichever steps fail.
THEOREM PayloadCorrect == Spec => []PayloadOfOneBuild
<1>1. PayloadInv => PayloadOfOneBuild
  BY DEF PayloadInv, Flashed, Coherent, PayloadOfOneBuild
<1> QED
  BY <1>1, PayloadInvHolds, PTL

\* A driver pack written to partition 4 goes with the kernel on partition 3.
THEOREM PackCorrect == Spec => PackFollowsPayload
<1> DEFINE Inv == TypeInv /\ PayloadInv /\ PackInv
           Follows == p4' # p4 /\ p4' \in Packs =>
                        /\ p4'.kernel = KernelOf[p3.ramdisk.settings]
                        /\ p4'.originals \in {None, p3.ramdisk.pat}
<1>1. ASSUME Inv, Next, p4' # p4, p4' \in Packs PROVE Follows
  <2>1. FlashP4 \/ FlashP4Ends
    BY <1>1 DEF Next, Machine, Menu, Build, StartLoader, BootDsmEntry, LeaveDsm, PowerLoss,
       EditModel, EditIdentity, AutoSave, KexecIntoDsm, Reboot, StartBuild, PinIdentity, Fetch,
       ExtractOK, ExtractFails, FetchDriverPack, MergePatOriginals, Patch, BuildImage, FlashP3,
       FlashP3Ends, AskDefault, BackupGrub, RewriteGrub, RestoreGrub, Finish, KeepDisk,
       KeepAllButGrub, diskVars
  <2>2. Torn \notin Packs
    BY ConstantsAssumption
  <2>3. stage = "flashing4" /\ p4' = pack
    BY <1>1, <2>1, <2>2 DEF FlashP4, FlashP4Ends
  <2> QED
    BY <1>1, <2>3 DEF PayloadInv, Flashed, OfThisBuild, PackInv
<1>2. Inv /\ [Next]_vars => [Follows]_vars
  BY <1>1
<1>3. Spec => []Inv
  BY PayloadInvHolds
<1> QED
  BY <1>2, <1>3, PTL DEF Spec, PackFollowsPayload
-----------------------------------------------------------------------------
(* The boot menu.                                                          *)
BackupInv ==
  /\ backup \in {None, Bootstrap}
  /\ backup = None => grub = Bootstrap
  /\ stage = "rewrite" => backup # None

LEMMA BackupInvHolds == Spec => []BackupInv
<1>1. Init => BackupInv
  BY DEF Init, BackupInv
<1>2. ASSUME BackupInv, Next PROVE BackupInv'
  <2> USE DEF BackupInv, Goto
  <2>1. Bootstrap # None
    BY ConstantsAssumption, StartValues
  <2>2. CASE Machine \/ Menu
    <3>1. UNCHANGED <<grub, backup>> /\ stage' # "rewrite"
      BY <2>2 DEF Machine, Menu, StartLoader, BootDsmEntry, LeaveDsm, PowerLoss, EditModel,
         EditIdentity, AutoSave, KexecIntoDsm, Reboot, diskVars
    <3> QED
      BY <1>2, <3>1
  <2>3. CASE Build /\ ~(BackupGrub \/ RewriteGrub \/ RestoreGrub)
    <3>1. UNCHANGED <<grub, backup>> /\ stage' # "rewrite"
      BY <2>3 DEF Build, StartBuild, PinIdentity, Fetch, ExtractOK, ExtractFails,
         FetchDriverPack, MergePatOriginals, Patch, BuildImage, FlashP3, FlashP3Ends,
         FlashP4, FlashP4Ends, AskDefault, Finish, KeepDisk, diskVars
    <3> QED
      BY <1>2, <3>1
  <2>4. CASE BackupGrub
    BY <1>2, <2>1, <2>4 DEF BackupGrub, KeepAllButGrub
  <2>5. CASE RewriteGrub
    BY <1>2, <2>5 DEF RewriteGrub
  <2>6. CASE RestoreGrub
    BY <1>2, <2>6 DEF RestoreGrub
  <2> QED
    BY <1>2, <2>2, <2>3, <2>4, <2>5, <2>6 DEF Next
<1>3. BackupInv /\ UNCHANGED vars => BackupInv'
  BY DEF BackupInv, vars, diskVars
<1> QED
  BY <1>1, <1>2, <1>3, PTL DEF Spec

\* The backup of grub.cfg is the bootstrap menu: RewriteGrubConfig makes it once,
\* before the first rewrite, and later rewrites leave it alone.
THEOREM BackupCorrect == Spec => []BackupIsBootstrap
<1>1. BackupInv => BackupIsBootstrap
  BY DEF BackupInv, BackupIsBootstrap
<1> QED
  BY <1>1, BackupInvHolds, PTL
-----------------------------------------------------------------------------
(* Where a default boot ends up depends on grub.cfg and partition 3 alone, *)
(* and they are written by three actions.                                  *)
DiskInv == TypeInv /\ PayloadInv /\ BackupInv

LEMMA OnlyThreeWrite ==
  ASSUME Next
  PROVE  UNCHANGED <<grub, p3>> \/ FlashP3 \/ FlashP3Ends \/ RewriteGrub \/ RestoreGrub
BY DEF Next, Machine, Menu, Build, StartLoader, BootDsmEntry, LeaveDsm, PowerLoss,
   EditModel, EditIdentity, AutoSave, KexecIntoDsm, Reboot, StartBuild, PinIdentity, Fetch,
   ExtractOK, ExtractFails, FetchDriverPack, MergePatOriginals, Patch, BuildImage,
   FlashP4, FlashP4Ends, AskDefault, BackupGrub, Finish, KeepDisk, KeepTui, KeepAllButGrub,
   diskVars

LEMMA TargetValues ==
  ASSUME TypeInv
  PROVE  /\ grub = Bootstrap <=> Target = "loader"
         /\ grub # Bootstrap /\ Matches(grub) => Target = grub.model /\ Target \in Models
         /\ grub # Bootstrap /\ ~Matches(grub) => Target = "broken"
<1>1. grub # Bootstrap => grub.model \in Models
  BY DEF TypeInv, TypeOK, GrubFiles, DsmEntries
<1>2. "loader" \notin Models /\ "broken" \notin Models
  BY ConstantsAssumption
<1> QED
  BY <1>1, <1>2 DEF Target

\* The new menu is written for the payload that was flashed for it.
LEMMA RewriteMatches ==
  ASSUME DiskInv, RewriteGrub, grub' # grub
  PROVE  grub' = cfg /\ UNCHANGED p3 /\ cfg # Bootstrap /\ Matches(cfg)
<1>1. stage = "rewrite" /\ grub' = cfg /\ UNCHANGED p3
  BY DEF RewriteGrub, KeepAllButGrub
<1>2. cfg # Bootstrap
  BY <1>1 DEF DiskInv, TypeInv, Pinned, BuildStages, Valid, Bootstrap
<1>3. Matches(cfg)
  BY <1>1 DEF DiskInv, PayloadInv, Flashed, OfThisBuild, Coherent, Matches
<1> QED
  BY <1>1, <1>2, <1>3

LEMMA TargetStep ==
  ASSUME DiskInv, DiskInv', Next
  PROVE  [Abstract!Next]_Target /\ (Bootable /\ ~Bootable' => stage = "flash3")
<1> USE DEF Abstract!Next, Abstract!Commit, Abstract!Overwrite, Abstract!Rollback
<1>0. TypeInv /\ TypeInv'
  BY DEF DiskInv
<1>1. CASE UNCHANGED <<grub, p3>>
  BY <1>1 DEF Target, Bootable, Matches
<1>2. CASE FlashP3
  <2>1. stage = "flash3" /\ UNCHANGED grub /\ (UNCHANGED p3 \/ p3' = Torn)
    BY <1>2 DEF FlashP3
  <2>2. CASE UNCHANGED p3
    BY <2>1, <2>2, <1>1
  <2>3. CASE p3' = Torn
    <3>1. ~Matches(grub)'
      BY <2>3, ConstantsAssumption DEF Matches
    <3> QED
      BY <1>0, <2>1, <3>1, TargetValues DEF Target
  <2> QED
    BY <2>1, <2>2, <2>3
<1>3. CASE FlashP3Ends
  <2>1. p3 = Torn /\ UNCHANGED grub
    BY <1>3 DEF FlashP3Ends, DiskInv, PayloadInv, Flashed
  <2>2. ~Matches(grub)
    BY <2>1, ConstantsAssumption DEF Matches
  <2>3. Bootable => Bootable'
    BY <2>1, <2>2 DEF Bootable
  <2>4. grub # Bootstrap => grub.model \in Models
    BY <1>0 DEF TypeInv, TypeOK, GrubFiles, DsmEntries
  <2>5. [Abstract!Next]_Target
    BY <2>1, <2>2, <2>4 DEF Target
  <2> QED
    BY <2>3, <2>5
<1>4. CASE RewriteGrub
  <2>1. CASE UNCHANGED grub
    BY <1>1, <1>4, <2>1 DEF RewriteGrub, KeepAllButGrub
  <2>2. CASE grub' # grub
    <3>1. grub' = cfg /\ p3' = p3 /\ cfg # Bootstrap /\ Matches(cfg)
      BY <1>4, <2>2, RewriteMatches
    <3>2. Target' = cfg.model /\ Bootable'
      BY <3>1 DEF Target, Bootable, Matches
    <3>3. cfg.model \in Models
      BY <3>1 DEF Matches, DiskInv, TypeInv, TypeOK, Payloads, Ramdisks
    <3>4. Target \in {"loader", "broken", cfg.model}
      BY <3>1 DEF Target, Matches
    <3> QED
      BY <3>2, <3>3, <3>4
  <2> QED
    BY <2>1, <2>2
<1>5. CASE RestoreGrub
  <2>1. UNCHANGED p3 /\ (UNCHANGED grub \/ (backup # None /\ grub' = backup))
    BY <1>5 DEF RestoreGrub, KeepAllButGrub
  <2>2. CASE UNCHANGED grub
    BY <1>1, <2>1, <2>2
  <2>3. CASE backup # None /\ grub' = backup
    <3>1. grub' = Bootstrap
      BY <2>3 DEF DiskInv, BackupInv
    <3> QED
      BY <3>1 DEF Target, Bootable
  <2> QED
    BY <2>1, <2>2, <2>3
<1> QED
  BY <1>1, <1>2, <1>3, <1>4, <1>5, OnlyThreeWrite

LEMMA DiskInvHolds == Spec => []DiskInv
<1>1. Spec => [](TypeInv /\ PayloadInv /\ PackInv)
  BY PayloadInvHolds
<1>2. Spec => []BackupInv
  BY BackupInvHolds
<1> QED
  BY <1>1, <1>2, PTL DEF DiskInv

\* No crash, failed step, declined question or rollback turns a disk that boots
\* into one that does not; only overwriting partition 3 does.
THEOREM EndangersCorrect == Spec => OnlyFlashEndangers
<1>1. DiskInv /\ DiskInv' /\ [Next]_vars => [Bootable /\ ~Bootable' => stage = "flash3"]_vars
  BY TargetStep
<1>2. Spec => []DiskInv
  BY DiskInvHolds
<1> QED
  BY <1>1, <1>2, PTL DEF Spec, OnlyFlashEndangers

\* The install, step by step and with every failure, implements the promise of
\* module BootTarget: the switch from the loader to DSM is atomic.
THEOREM RefinesBootTarget == Spec => ImplementsBootTarget
<1>1. Init => Abstract!Init
  BY DEF Init, Abstract!Init, Target
<1>2. DiskInv /\ DiskInv' /\ [Next]_vars => [Abstract!Next]_Target
  <2>1. UNCHANGED vars => Target' = Target
    BY DEF vars, diskVars, Target, Matches
  <2> QED
    BY <2>1, TargetStep
<1>3. Spec => []DiskInv
  BY DiskInvHolds
<1> QED
  BY <1>1, <1>2, <1>3, PTL DEF Spec, Abstract!Spec, ImplementsBootTarget

\* Kernel, ramdisk and drivers that are flashed belong together.
THEOREM FlashedTogetherCorrect == Spec => FlashedTogether
  BY PayloadCorrect, PackCorrect, PTL DEF FlashedTogether
-----------------------------------------------------------------------------
(* What the user is told.                                                  *)

\* A build's report is made by its last steps and is gone before the next
\* build: no earlier build's answer is left standing while grub.cfg changes.
ReportInv ==
  /\ report # "none" => stage \in {"finish", "return"}
  /\ ReportIsTrue

LEMMA ReportInvStep ==
  ASSUME ReportInv, BackupInv, Next
  PROVE  ReportInv'
<1> USE DEF ReportInv, ReportIsTrue, Goto
<1>1. CASE Machine \/ Menu
  <2>1. stage' \in {"off", "menu", "return", "dsm"}
    BY <1>1 DEF Machine, Menu, StartLoader, BootDsmEntry, LeaveDsm, PowerLoss, EditModel,
       EditIdentity, AutoSave, KexecIntoDsm, Reboot
  <2>2. stage' # "return" => report' = "none"
    <3>1. CASE StartLoader \/ BootDsmEntry \/ LeaveDsm
      BY <3>1 DEF StartLoader, BootDsmEntry, LeaveDsm
    <3>2. CASE PowerLoss \/ AutoSave \/ KexecIntoDsm \/ Reboot
      BY <3>2 DEF PowerLoss, AutoSave, KexecIntoDsm, Reboot, ForgetSession
    <3>3. ASSUME NEW m \in Models, EditModel(m) PROVE stage' = "return"
      BY <3>3 DEF EditModel
    <3>4. ASSUME NEW x \in Serials \cup {Unset}, EditIdentity(x) PROVE stage' = "return"
      BY <3>4 DEF EditIdentity
    <3> QED
      BY <1>1, <3>1, <3>2, <3>3, <3>4 DEF Machine, Menu
  <2> QED
    BY <2>1, <2>2
<1>2. CASE Build /\ ~(AskDefault \/ BackupGrub \/ RewriteGrub \/ RestoreGrub \/ Finish)
  <2>1. /\ stage \notin {"finish", "return"} /\ report' = report
        /\ stage' # "finish"
    BY <1>2 DEF Build, StartBuild, PinIdentity, Fetch, ExtractOK, ExtractFails,
       FetchDriverPack, MergePatOriginals, Patch, BuildImage, FlashP3, FlashP3Ends,
       FlashP4, FlashP4Ends, tempVars
  <2> QED
    BY <2>1
<1>3. CASE AskDefault
  BY <1>3 DEF AskDefault, KeepAllButGrub
<1>4. CASE BackupGrub
  BY <1>4 DEF BackupGrub, KeepAllButGrub
<1>5. CASE RewriteGrub
  BY <1>5 DEF RewriteGrub, KeepAllButGrub
<1>6. CASE RestoreGrub
  BY <1>6 DEF RestoreGrub, KeepAllButGrub, BackupInv
<1>7. CASE Finish
  BY <1>7 DEF Finish
<1> QED
  BY <1>1, <1>2, <1>3, <1>4, <1>5, <1>6, <1>7 DEF Next

\* "updated" is said only when grub.cfg on the disk boots these settings, and
\* "restored" only when it is the menu the image was burned with, whichever of
\* RewriteGrubConfig's writes failed and whatever earlier builds said.
THEOREM ReportCorrect == Spec => []ReportIsTrue
<1>1. Init => ReportInv
  BY DEF Init, ReportInv, ReportIsTrue
<1>2. ReportInv /\ BackupInv /\ [Next]_vars => ReportInv'
  <2>1. ReportInv /\ UNCHANGED vars => ReportInv'
    BY DEF ReportInv, ReportIsTrue, vars, diskVars, tuiVars
  <2> QED
    BY <2>1, ReportInvStep
<1>3. ReportInv => ReportIsTrue
  BY DEF ReportInv
<1> QED
  BY <1>1, <1>2, <1>3, BackupInvHolds, PTL DEF Spec
=============================================================================
