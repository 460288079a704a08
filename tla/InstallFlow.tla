---------------------------- MODULE InstallFlow ----------------------------
(***************************************************************************)
(* vibeldr-boot, the loader's own boot environment: the text menu's        *)
(* session (cmd/vibeldr-boot/tui_linux.go, runTUI), its build pipeline     *)
(* (buildFlow) and the loader disk the pipeline writes, across step        *)
(* failures, power loss at any point and reboots through GRUB.             *)
(*                                                                         *)
(* Persistent: loader.yaml, grub.cfg and its bootstrap backup on           *)
(* partition 1, the DSM kernel and ramdisk on partition 3, the driver pack *)
(* on partition 4.  Volatile: everything in tuiState, the files under      *)
(* /work, what buildFlow keeps in locals.                                  *)
(***************************************************************************)
EXTENDS Naturals, FiniteSets

CONSTANTS
  Models,       \* models the user may pick
  Serials,      \* serial numbers
  ValidSerial,  \* model -> the serials catalog.ValidateSerial accepts for it
  KernelOf,     \* model -> release of the DSM kernel in its .pat
  None,         \* "nothing here"
  Torn,         \* a file or partition only partly written
  Mounts,       \* how mounting partition 1 may turn out: "rw", "ro", "none"
  MaxBuilds     \* bound: builds started in one loader session

Unset == "auto"
Configs == [model : Models \cup {None}, serial : Serials \cup {Unset}]
Default == [model |-> None, serial |-> Unset]
Kernels == {KernelOf[m] : m \in Models}

Bootstrap == [model |-> None, serial |-> Unset]
DsmEntries == [model : Models, serial : Serials]
GrubFiles == DsmEntries \cup {Bootstrap}

Ramdisks == [pat : Models, settings : Models]
Payloads == [kernel : Models \cup {Torn}, ramdisk : Ramdisks]
Packs == [kernel : Kernels, originals : Models \cup {None}]

ASSUME ConstantsAssumption ==
  /\ Models # {} /\ Serials # {} /\ Unset \notin Serials
  /\ ValidSerial \in [Models -> SUBSET Serials]
  /\ DOMAIN KernelOf = Models
  /\ None # Torn
  /\ {None, Torn} \cap (Models \cup Serials \cup Kernels) = {}
  /\ {None, Torn} \cap (Configs \cup GrubFiles \cup Ramdisks \cup Payloads \cup Packs) = {}
  /\ {"loader", "broken"} \cap Models = {}
  /\ Mounts \subseteq {"rw", "ro", "none"}
  /\ MaxBuilds \in Nat

\* config.Validate, as far as it tells settings apart here: a model with its
\* release, and a serial that fits the model.
Valid(c) ==
  /\ c.model # None
  /\ c.serial # Unset => c.serial \in ValidSerial[c.model]

BuildStages == {"pin", "fetch", "extract", "drivers", "merge", "patch", "image",
                "flash3", "flashing3", "flash4", "flashing4",
                "menu.cfg", "backup", "rewrite", "restore", "finish"}
Stages == BuildStages \cup {"off", "menu", "return", "dsm"}
-----------------------------------------------------------------------------
VARIABLES
  yaml,         \* loader.yaml as it reads now; None: absent or unparsable
  yamlDisk,     \* loader.yaml as it is on the medium
  grub,         \* grub.cfg: Bootstrap, or the dsm entry's command line
  backup,       \* grub.cfg.bootstrap.bak
  p3,           \* partition 3
  p4,           \* partition 4
  stage,        \* where the machine is
  mount,        \* how partition 1 is mounted at /loader
  cfg, dirty, built, packFromDisk, plan,  \* tuiState
  work,         \* the files under /work/dsm, and the .pat
  pack,         \* driverPack in buildFlow
  image,        \* loader.img's partition 3
  report,       \* what buildFlow last told the user about the boot menu
  running,      \* the DSM that is up
  builds        \* builds started this session (bounded by MaxBuilds)

diskVars == <<yaml, yamlDisk, grub, backup, p3, p4>>
tuiVars  == <<cfg, dirty, built, packFromDisk, plan>>
tempVars == <<work, pack, image>>
vars == <<diskVars, stage, mount, tuiVars, tempVars, report, running, builds>>

Files == Models \cup {None, Torn}
WorkFiles == [pat : Models \cup {None}, zImage : Files, rd : Files, zDsm : Files,
              initrd : Ramdisks \cup {None}]
Plans == [ready : BOOLEAN, kernel : {"zDsm", "zImage"}, cmdline : Configs]
Systems == [kernel : Models, ramdisk : Ramdisks, cmdline : GrubFiles \cup Configs]

NoWork == [pat |-> None, zImage |-> None, rd |-> None, zDsm |-> None, initrd |-> None]
NotReady == [ready |-> FALSE, kernel |-> "zDsm", cmdline |-> Default]

TypeOK ==
  /\ yaml \in Configs \cup {None}
  /\ yamlDisk \in Configs \cup {None}
  /\ grub \in GrubFiles
  /\ backup \in GrubFiles \cup {None}
  /\ p3 \in Payloads \cup {None, Torn}
  /\ p4 \in Packs \cup {None, Torn}
  /\ stage \in Stages
  /\ mount \in {"rw", "ro", "none"}
  /\ cfg \in Configs
  /\ dirty \in BOOLEAN /\ built \in BOOLEAN /\ packFromDisk \in BOOLEAN
  /\ plan \in Plans
  /\ work \in WorkFiles
  /\ pack \in Packs \cup {None}
  /\ image \in Payloads \cup {None}
  /\ report \in {"none", "declined", "updated", "restored", "failed"}
  /\ running \in Systems \cup {None}
  /\ builds \in 0..MaxBuilds

Init ==
  /\ yaml = None /\ yamlDisk = None
  /\ grub = Bootstrap /\ backup = None
  /\ p3 = None /\ p4 \in {None} \cup [kernel : Kernels, originals : {None}]
  /\ stage = "off" /\ mount = "none"
  /\ cfg = Default /\ dirty = FALSE /\ built = FALSE /\ packFromDisk = FALSE
  /\ plan = NotReady /\ work = NoWork /\ pack = None /\ image = None
  /\ report = "none" /\ running = None /\ builds = 0
-----------------------------------------------------------------------------
(* Helpers for the handlers.                                               *)

Goto(s) == stage' = s

\* saveConfig: os.WriteFile truncates first and is never synced, so a failed
\* write may leave an unparsable file, and a good one is only in the cache.  By
\* the time of a save the kernel may have written the version before it back.
SaveSucceeds(c) ==
  /\ mount = "rw"
  /\ yaml' = c
  /\ yamlDisk' \in {yamlDisk, yaml}
SaveFails ==
  /\ yaml' \in IF mount = "rw" THEN {yaml, None} ELSE {yaml}
  /\ yamlDisk' \in {yamlDisk, yaml}

ForgetSession ==
  /\ cfg' = Default /\ dirty' = FALSE /\ built' = FALSE /\ packFromDisk' = FALSE
  /\ plan' = NotReady /\ work' = NoWork /\ pack' = None /\ image' = None
  /\ report' = "none" /\ builds' = 0 /\ mount' = "none"
-----------------------------------------------------------------------------
(* Power, GRUB and DSM.                                                    *)

\* runTUI from the top: mount partition 1, load the settings or fall back to
\* the defaults.  GRUB gets here by the bootstrap entry or when the user picks
\* "reconfigure" in the rewritten menu.
StartLoader ==
  /\ stage = "off"
  /\ \E m \in Mounts :
       /\ mount' = m
       /\ cfg' = IF m # "none" /\ yaml # None /\ Valid(yaml) THEN yaml ELSE Default
  /\ Goto("menu")
  /\ UNCHANGED <<diskVars, dirty, built, packFromDisk, plan, tempVars, report, running, builds>>

\* GRUB's dsm entry: the kernel and ramdisk on partition 3, with the command
\* line written in grub.cfg.  A torn partition 3 does not load.
BootDsmEntry ==
  /\ stage = "off" /\ grub # Bootstrap /\ p3 \in Payloads /\ p3.kernel # Torn
  /\ running' = [kernel |-> p3.kernel, ramdisk |-> p3.ramdisk, cmdline |-> grub]
  /\ Goto("dsm")
  /\ UNCHANGED <<diskVars, mount, tuiVars, tempVars, report, builds>>

LeaveDsm ==
  /\ stage = "dsm"
  /\ running' = None /\ Goto("off")
  /\ UNCHANGED <<diskVars, mount, tuiVars, tempVars, report, builds>>

\* Power loss or a hard reset while the loader runs.
PowerLoss ==
  /\ stage \notin {"off", "dsm"}
  /\ yaml' \in IF yaml = yamlDisk THEN {yaml} ELSE {yaml, yamlDisk, None}
  /\ yamlDisk' = yaml'
  /\ ForgetSession /\ Goto("off")
  /\ UNCHANGED <<grub, backup, p3, p4, running>>
-----------------------------------------------------------------------------
(* The menu.                                                               *)

\* modelMenu: the identity is left as it is.
EditModel(m) ==
  /\ stage = "menu" /\ m # cfg.model
  /\ cfg' = [cfg EXCEPT !.model = m] /\ dirty' = TRUE
  /\ Goto("return")
  /\ UNCHANGED <<diskVars, mount, built, packFromDisk, plan, tempVars, report, running, builds>>

\* identityMenu: regenerate or type a serial the model accepts, or clear it.
EditIdentity(s) ==
  /\ stage = "menu" /\ cfg.model # None
  /\ s # cfg.serial /\ (s = Unset \/ s \in ValidSerial[cfg.model])
  /\ cfg' = [cfg EXCEPT !.serial = s] /\ dirty' = TRUE
  /\ Goto("return")
  /\ UNCHANGED <<diskVars, mount, built, packFromDisk, plan, tempVars, report, running, builds>>

\* The end of the menu loop's body: buildFlow's locals are gone, and unsaved
\* settings are saved, quietly.
AutoSave ==
  /\ stage = "return"
  /\ \/ ~dirty /\ UNCHANGED <<yaml, yamlDisk, dirty>>
     \/ dirty /\ SaveSucceeds(cfg) /\ dirty' = FALSE
     \/ dirty /\ SaveFails /\ UNCHANGED dirty
  /\ Goto("menu")
  /\ pack' = None /\ image' = None /\ report' = "none"
  /\ UNCHANGED <<grub, backup, p3, p4, mount, cfg, built, packFromDisk, plan,
                 work, running, builds>>

\* bootIntoDSM by kexec: the files the plan names, with the plan's command
\* line.  syncAll unmounts partition 1 on the way.
KexecIntoDsm ==
  /\ stage = "menu" /\ plan.ready
  /\ work[plan.kernel] \in Models /\ work.initrd # None
  /\ running' = [kernel |-> work[plan.kernel], ramdisk |-> work.initrd, cmdline |-> plan.cmdline]
  /\ yamlDisk' = yaml
  /\ ForgetSession /\ Goto("dsm")
  /\ UNCHANGED <<yaml, grub, backup, p3, p4>>

\* bootIntoDSM without kexec, or with kexec refused, and rebootNow: sync, reset.
Reboot ==
  /\ stage = "menu"
  /\ yamlDisk' = yaml
  /\ ForgetSession /\ Goto("off")
  /\ UNCHANGED <<yaml, grub, backup, p3, p4, running>>
-----------------------------------------------------------------------------
(* buildFlow, step by step.  Every failed step goes back to the menu with  *)
(* everything the steps before it did still in place.                      *)

KeepDisk == UNCHANGED diskVars
KeepTui  == UNCHANGED <<dirty, built, plan>>

\* Validate, then flush the settings before anything is fetched.
StartBuild ==
  /\ stage = "menu" /\ builds < MaxBuilds
  /\ builds' = builds + 1
  /\ IF Valid(cfg)
       THEN /\ \/ SaveSucceeds(cfg) /\ dirty' = FALSE
               \/ SaveFails /\ UNCHANGED dirty
            /\ Goto("pin")
       ELSE Goto("return") /\ UNCHANGED <<yaml, yamlDisk, dirty>>
  /\ UNCHANGED <<grub, backup, p3, p4, mount, cfg, built, packFromDisk, plan,
                 tempVars, report, running>>

\* resolveIdentityForBuild: the serial in the settings, or a generated one.
Identities == IF cfg.serial = Unset THEN ValidSerial[cfg.model] ELSE {cfg.serial}

\* resolveIdentityForBuild and the second save; then the command line, whose
\* own checks may still refuse the build.
PinIdentity ==
  /\ stage = "pin"
  /\ \/ /\ \E s \in Identities : cfg' = [cfg EXCEPT !.serial = s]
        /\ \/ SaveSucceeds(cfg') /\ dirty' = FALSE
           \/ SaveFails /\ UNCHANGED dirty
        /\ stage' \in {"fetch", "return"}
     \/ Goto("return") /\ UNCHANGED <<yaml, yamlDisk, cfg, dirty>>
  /\ UNCHANGED <<grub, backup, p3, p4, mount, built, packFromDisk, plan,
                 tempVars, report, running, builds>>

\* The .pat of some model x: the URL may be one the user typed.
Fetch ==
  /\ stage = "fetch"
  /\ \/ Goto("extract") /\ \E x \in Models : work' = [work EXCEPT !.pat = x]
     \/ Goto("return") /\ UNCHANGED work
  /\ KeepDisk /\ KeepTui
  /\ UNCHANGED <<mount, cfg, packFromDisk, pack, image, report, running, builds>>

\* Mutant: the patched kernel of an earlier build survives the pruning.
PrunedKeepsPatched(w) == [w EXCEPT !.pat = None, !.initrd = None]

\* What is left of /work/dsm after pruneExtracted: only what came out of a .pat.
Pruned(w) == [w EXCEPT !.pat = None, !.zDsm = None, !.initrd = None]

\* The kernel check lets an unreadable version through, so a torn one passes.
KernelFits(w) == w.zImage \in Models => KernelOf[w.zImage] = KernelOf[cfg.model]

\* A .pat that was unpacked whole.  The extractor's own report is believed: one
\* that exits 0 with nothing written would leave the files of a build before.
ExtractOK ==
  /\ stage = "extract"
  /\ LET w == [work EXCEPT !.zImage = work.pat, !.rd = work.pat] IN
       /\ work' = Pruned(w)
       /\ stage' = IF KernelFits(w) THEN "drivers" ELSE "return"
  /\ KeepDisk /\ KeepTui
  /\ UNCHANGED <<mount, cfg, packFromDisk, pack, image, report, running, builds>>

\* A failed extraction may have replaced, or cut short, either file.
ExtractFails ==
  /\ stage = "extract"
  /\ \E z \in {work.zImage, work.pat, Torn}, r \in {work.rd, work.pat, Torn} :
       work' = [work EXCEPT !.pat = None, !.zImage = z, !.rd = r]
  /\ Goto("return")
  /\ KeepDisk /\ KeepTui
  /\ UNCHANGED <<mount, cfg, packFromDisk, pack, image, report, running, builds>>

\* Mutant: whatever pack is on partition 4 will do.
FetchDriverPackAny ==
  /\ stage = "drivers"
  /\ IF p4 \in Packs
       THEN pack' = p4 /\ packFromDisk' = TRUE
       ELSE pack' = None /\ UNCHANGED packFromDisk
  /\ Goto("merge")
  /\ KeepDisk /\ KeepTui
  /\ UNCHANGED <<mount, cfg, work, image, report, running, builds>>

\* fetchDriverPack: partition 4 first, when its pack is for this kernel;
\* otherwise another disk or the network, or nothing.
FetchDriverPack ==
  /\ stage = "drivers"
  /\ LET want == KernelOf[cfg.model] IN
       IF p4 \in Packs /\ p4.kernel = want
         THEN pack' = p4 /\ packFromDisk' = TRUE
         ELSE /\ pack' \in {None, [kernel |-> want, originals |-> None]}
              /\ UNCHANGED packFromDisk
  /\ Goto("merge")
  /\ KeepDisk /\ KeepTui
  /\ UNCHANGED <<mount, cfg, work, image, report, running, builds>>

\* mergePatOriginals: the pack with the .pat's own modules in it, or the pack
\* as it was when they cannot be read.
MergePatOriginals ==
  /\ stage = "merge"
  /\ \/ UNCHANGED <<pack, packFromDisk>>
     \/ /\ pack # None /\ work.rd \in Models /\ pack.originals # work.rd
        /\ pack' = [pack EXCEPT !.originals = work.rd] /\ packFromDisk' = FALSE
  /\ Goto("patch")
  /\ KeepDisk /\ KeepTui
  /\ UNCHANGED <<mount, cfg, work, image, report, running, builds>>

\* ramdisk.Patch must succeed; patchZImageTUI may be skipped with a warning.
Patch ==
  /\ stage = "patch"
  /\ \/ Goto("return") /\ UNCHANGED work
     \/ /\ work.rd \in Models
        /\ \E z \in {work.zDsm} \cup ({work.zImage} \ {Torn}) :
             work' = [work EXCEPT !.zDsm = z,
                                  !.initrd = [pat |-> work.rd, settings |-> cfg.model]]
        /\ Goto("image")
  /\ KeepDisk /\ KeepTui
  /\ UNCHANGED <<mount, cfg, packFromDisk, pack, image, report, running, builds>>

KernelFile == IF work.zDsm # None THEN "zDsm" ELSE "zImage"

\* The patched kernel when there is one, the original otherwise.
BuildImage ==
  /\ stage = "image"
  /\ \/ Goto("return") /\ UNCHANGED image
     \/ /\ work[KernelFile] # None
        /\ image' = [kernel |-> work[KernelFile], ramdisk |-> work.initrd]
        /\ Goto("flash3")
  /\ KeepDisk /\ KeepTui
  /\ UNCHANGED <<mount, cfg, packFromDisk, work, pack, report, running, builds>>

\* writePartition refuses before it writes (open, size), then overwrites in
\* place: partition 3 is neither payload until the last chunk is synced.
FlashP3 ==
  /\ stage = "flash3"
  /\ \/ Goto("return") /\ UNCHANGED p3
     \/ Goto("flashing3") /\ p3' = Torn
  /\ KeepTui
  /\ UNCHANGED <<yaml, yamlDisk, grub, backup, p4, mount, cfg, packFromDisk, tempVars, report, running, builds>>

\* Mutant: a write that fails half-way does not stop the build.
FlashP3EndsAnyway ==
  /\ stage = "flashing3"
  /\ Goto("flash4") /\ p3' \in {Torn, image}
  /\ KeepTui
  /\ UNCHANGED <<yaml, yamlDisk, grub, backup, p4, mount, cfg, packFromDisk, tempVars, report, running, builds>>

\* The write stops half-way, or partition 3 is loader.img's.
FlashP3Ends ==
  /\ stage = "flashing3"
  /\ \/ Goto("return") /\ UNCHANGED p3
     \/ Goto("flash4") /\ p3' = image
  /\ KeepTui
  /\ UNCHANGED <<yaml, yamlDisk, grub, backup, p4, mount, cfg, packFromDisk, tempVars, report, running, builds>>

\* writeDriverPack: skipped for a pack that came off partition 4 and for no
\* pack; a failure is only reported.
FlashP4 ==
  /\ stage = "flash4"
  /\ \/ Goto("menu.cfg") /\ UNCHANGED p4
     \/ ~packFromDisk /\ pack # None /\ Goto("flashing4") /\ p4' = Torn
  /\ KeepTui
  /\ UNCHANGED <<yaml, yamlDisk, grub, backup, p3, mount, cfg, packFromDisk, tempVars, report, running, builds>>

FlashP4Ends ==
  /\ stage = "flashing4"
  /\ p4' \in {Torn, pack}
  /\ Goto("menu.cfg")
  /\ KeepTui
  /\ UNCHANGED <<yaml, yamlDisk, grub, backup, p3, mount, cfg, packFromDisk, tempVars, report, running, builds>>
-----------------------------------------------------------------------------
(* rewriteGrubForDSM.  Each file goes through writeAtomic (write aside,    *)
(* fsync, rename, fsync the directory), so each is one durable step.       *)

KeepAllButGrub ==
  /\ KeepTui
  /\ UNCHANGED <<yaml, yamlDisk, p3, p4, mount, cfg, packFromDisk, tempVars, running, builds>>

\* The user is asked.  os.Stat finds the mount point whether or not partition
\* 1 is mounted on it; without the mount everything below happens in RAM.
AskDefault ==
  /\ stage = "menu.cfg"
  /\ \/ report' = "declined" /\ Goto("finish")
     \/ /\ mount = "none"
        /\ report' \in {"updated", "restored", "failed"} /\ Goto("finish")
     \/ mount # "none" /\ UNCHANGED report /\ Goto("backup")
  /\ KeepAllButGrub /\ UNCHANGED <<grub, backup>>

\* Mutant: every rewrite backs up the menu it is about to replace.
BackupGrubAlways ==
  /\ stage = "backup"
  /\ \/ mount = "rw" /\ backup' = grub /\ Goto("rewrite")
     \/ UNCHANGED backup /\ Goto("restore")
  /\ KeepAllButGrub /\ UNCHANGED <<grub, report>>

\* The backup is made only when there is none.
BackupGrub ==
  /\ stage = "backup"
  /\ \/ backup # None /\ UNCHANGED backup /\ Goto("rewrite")
     \/ backup = None /\ mount = "rw" /\ backup' = grub /\ Goto("rewrite")
     \/ backup = None /\ UNCHANGED backup /\ Goto("restore")
  /\ KeepAllButGrub /\ UNCHANGED <<grub, report>>

\* The new grub.cfg, then the script it sources when that is missing.
RewriteGrub ==
  /\ stage = "rewrite"
  /\ \/ /\ mount = "rw" /\ grub' = cfg
        /\ \/ report' = "updated" /\ Goto("finish")
           \/ UNCHANGED report /\ Goto("restore")
     \/ UNCHANGED <<grub, report>> /\ Goto("restore")
  /\ KeepAllButGrub /\ UNCHANGED backup

\* Mutant: the rollback's own failure is not looked at.
RestoreGrubBlind ==
  /\ stage = "restore"
  /\ \/ backup # None /\ mount = "rw" /\ grub' = backup
     \/ UNCHANGED grub
  /\ report' = "restored" /\ Goto("finish")
  /\ KeepAllButGrub /\ UNCHANGED backup

\* RestoreGrubBackup
RestoreGrub ==
  /\ stage = "restore"
  /\ \/ backup # None /\ mount = "rw" /\ grub' = backup /\ report' = "restored"
     \/ UNCHANGED grub /\ report' = "failed"
  /\ Goto("finish")
  /\ KeepAllButGrub /\ UNCHANGED backup

\* The kexec plan, syscall.Sync, st.built.
Finish ==
  /\ stage = "finish"
  /\ plan' = [ready |-> TRUE, kernel |-> KernelFile, cmdline |-> cfg]
  /\ built' = TRUE
  /\ yamlDisk' = yaml
  /\ Goto("return")
  /\ UNCHANGED <<yaml, grub, backup, p3, p4, mount, cfg, dirty, packFromDisk, tempVars, report, running, builds>>
-----------------------------------------------------------------------------
Menu ==
  \/ \E m \in Models : EditModel(m)
  \/ \E s \in Serials \cup {Unset} : EditIdentity(s)
  \/ AutoSave
  \/ KexecIntoDsm
  \/ Reboot

Build ==
  \/ StartBuild \/ PinIdentity \/ Fetch \/ ExtractOK \/ ExtractFails
  \/ FetchDriverPack \/ MergePatOriginals \/ Patch \/ BuildImage
  \/ FlashP3 \/ FlashP3Ends \/ FlashP4 \/ FlashP4Ends
  \/ AskDefault \/ BackupGrub \/ RewriteGrub \/ RestoreGrub \/ Finish

Machine == StartLoader \/ BootDsmEntry \/ LeaveDsm \/ PowerLoss

Next == Machine \/ Menu \/ Build

Spec == Init /\ [][Next]_vars
-----------------------------------------------------------------------------
(* What the install has to get right.                                      *)

\* The backup kept as grub.cfg.bootstrap.bak is the menu the image was burned
\* with, never one a build wrote: RestoreGrubBackup's way back to the loader.
BackupIsBootstrap == backup \in {None, Bootstrap}

\* Kernel and ramdisk on partition 3 come out of the same .pat, whichever steps
\* of this and of earlier builds of the session failed, and never out of one
\* of another platform than the settings'.
PayloadOfOneBuild ==
  p3 \in Payloads =>
    /\ p3.kernel = p3.ramdisk.pat
    /\ p3.kernel # Torn => KernelOf[p3.kernel] = KernelOf[p3.ramdisk.settings]

\* What a default boot would find: the loader, or a payload on partition 3 that
\* belongs to the command line in grub.cfg.
Matches(g) ==
  /\ p3 \in Payloads
  /\ p3.ramdisk.settings = g.model /\ p3.kernel = p3.ramdisk.pat
Bootable == grub = Bootstrap \/ Matches(grub)

\* Only the start of overwriting partition 3 can turn a disk that boots into one
\* that does not: no crash, failed step, declined question or rollback can.
OnlyFlashEndangers == [][Bootable /\ ~Bootable' => stage = "flash3"]_vars

\* Where a default boot ends up, and the promise made about it: the install as
\* one atomic switch per model (module BootTarget).
Target ==
  CASE grub = Bootstrap -> "loader"
    [] grub # Bootstrap /\ Matches(grub) -> grub.model
    [] OTHER -> "broken"
Abstract == INSTANCE BootTarget WITH target <- Target

\* From "loader" the disk only ever goes to a DSM that boots, in one step.
ImplementsBootTarget == Abstract!Spec

\* A driver pack written to partition 4 is for the kernel that was flashed, with
\* no originals but those of the same .pat.
PackFollowsPayload ==
  [][p4' # p4 /\ p4' \in Packs =>
       /\ p4'.kernel = KernelOf[p3.ramdisk.settings]
       /\ p4'.originals \in {None, p3.ramdisk.pat}]_vars

\* What is flashed belongs together: kernel, ramdisk and drivers.
FlashedTogether == []PayloadOfOneBuild /\ PackFollowsPayload

\* What the boot-menu step tells the user is what grub.cfg on the disk holds.
ReportIsTrue ==
  stage = "finish" /\ mount # "none" =>
    /\ report = "updated"  => grub = cfg
    /\ report = "restored" => grub = Bootstrap

\* "the same content is not written back": the write of partition 4 is skipped
\* only when it already holds the pack this build ends up with.
SkipOnlySameContent == stage = "flash4" /\ packFromDisk => p4 = pack
=============================================================================
