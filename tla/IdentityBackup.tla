--------------------------- MODULE IdentityBackup ---------------------------
(***************************************************************************)
(* The copy of a boot's identity that vibeldr-init leaves in the installed *)
(* DSM (cmd/vibeldr-init/backup.go), and the serial step of a later loader's *)
(* wizard, which offers it (cmd/vibeldr-boot/dsmbackup_linux.go and        *)
(* wizard_linux.go).                                                       *)
(*                                                                         *)
(* DSM's system is on every disk that is there when it boots; a disk that is *)
(* not there keeps what it has. A loader is the model and serial it boots  *)
(* DSM with. The clock is right: a later boot has a later time.            *)
(***************************************************************************)
EXTENDS Integers, FiniteSets, SequencesExt

CONSTANTS
    DataDisks,
    BackupModels, \* models one can choose
    RuleModels,   \* those that the catalogue has a rule for serials of
    TypedSerials, \* numbers for serials that are typed in; the drawn ones are 1, 2, ...
    MaxLoaders,   \* loaders written at most
    MaxDSMBoots,  \* boots at most
    NoBackup

KnownSerials == TypedSerials \cup (1 .. MaxLoaders)
BackupFiles == <<"identity", "synoinfo", "manifest">>

\* Loaders, boots, what a boot writes of itself, and the wizard's page.
Loaders == [model : BackupModels, serial : KnownSerials]
Boots == [model : BackupModels, serial : KnownSerials, time : 1 .. MaxDSMBoots,
          left : {BackupFiles, <<"synoinfo", "manifest">>, <<"manifest">>, <<>>}]
Stamps == [model : BackupModels, serial : KnownSerials, time : 1 .. MaxDSMBoots]
LastBoots == [model : BackupModels, serial : KnownSerials, disks : SUBSET DataDisks]
Pages == [at : {"model", "identity"}, backups : Seq(Stamps),
          model : BackupModels \cup {NoBackup}, serial : KnownSerials \cup {NoBackup},
          manual : BOOLEAN, fromBackup : BOOLEAN, chosen : BOOLEAN, plain : BOOLEAN]

ASSUME IdentityAssumption ==
    /\ IsFiniteSet(DataDisks) /\ MaxLoaders \in Nat /\ MaxDSMBoots \in Nat
    /\ RuleModels \subseteq BackupModels /\ TypedSerials \cap (0 .. MaxLoaders) = {}
    /\ NoBackup \notin BackupModels /\ NoBackup \notin KnownSerials
    /\ NoBackup \notin Loaders /\ NoBackup \notin Boots /\ NoBackup \notin Stamps
    /\ NoBackup \notin LastBoots /\ NoBackup \notin Pages

VARIABLES
    present,  \* the disks in the machine
    copies,   \* copies[d]: [identity, synoinfo, manifest], each of one boot or NoBackup
    own,      \* the loader: [model, serial], or NoBackup
    booting,  \* the boot under way: [model, serial, time, left], or NoBackup
    now,      \* boots so far
    page,     \* the wizard: [at, backups, model, serial, manual, fromBackup, chosen, plain], or
              \* NoBackup; plain: nothing was touched but the model, once
    loaders,  \* loaders written so far; their number serves as a generated serial
    lastBoot  \* history: the last boot whose backup was finished, and its disks

identityVars == <<present, copies, own, booting, now, page, loaders, lastBoot>>

IdentityInit ==
    /\ present = DataDisks
    /\ copies = [d \in DataDisks |-> [f \in Range(BackupFiles) |-> NoBackup]]
    /\ own = NoBackup /\ booting = NoBackup /\ now = 0 /\ page = NoBackup
    /\ loaders = 0 /\ lastBoot = NoBackup

\* With the machine off a disk is taken out or put in.
MoveDisk(d) ==
    /\ booting = NoBackup /\ page = NoBackup
    /\ present' = (present \ {d}) \cup ({d} \ present)
    /\ UNCHANGED <<copies, own, booting, now, page, loaders, lastBoot>>

(***************************************************************************)
(* backupToDSM.                                                            *)
(***************************************************************************)

BootDSM ==
    /\ own # NoBackup /\ booting = NoBackup /\ page = NoBackup /\ present # {}
    /\ now < MaxDSMBoots /\ now' = now + 1
    /\ booting' = [model |-> own.model, serial |-> own.serial, time |-> now', left |-> BackupFiles]
    /\ UNCHANGED <<present, copies, own, page, loaders, lastBoot>>

ThisBoot == [model |-> booting.model, serial |-> booting.serial, time |-> booting.time]

Written(f) == [d \in DataDisks |-> IF d \in present THEN [copies[d] EXCEPT ![f] = ThisBoot] ELSE copies[d]]

\* The next file, by a rename: all of it or what was there.
WriteAtomic ==
    /\ booting # NoBackup /\ booting.left # <<>>
    /\ copies' = Written(Head(booting.left))
    /\ booting' = [booting EXCEPT !.left = Tail(@)]
    /\ UNCHANGED <<present, own, now, page, loaders, lastBoot>>

BackupDone ==
    /\ booting # NoBackup /\ booting.left = <<>>
    /\ lastBoot' = [model |-> booting.model, serial |-> booting.serial, disks |-> present]
    /\ booting' = NoBackup
    /\ UNCHANGED <<present, copies, own, now, page, loaders>>

\* A write fails, and the rest is not tried, or the power is cut.
BackupCut ==
    /\ booting # NoBackup /\ booting.left # <<>>
    /\ booting' = NoBackup
    /\ UNCHANGED <<present, copies, own, now, page, loaders, lastBoot>>

(***************************************************************************)
(* The wizard.                                                             *)
(***************************************************************************)

\* Mutant: the backups stay in the order of the disks.
FindUnsorted(found) == SetToSeq(found)

NewestFirst(s) == \A i, j \in DOMAIN s : i < j => s[i].time > s[j].time

\* findDSMBackups: the manifests of the disks that have one, newest first.
FindDSMBackups(found) ==
    CHOOSE s \in [1 .. Cardinality(found) -> found] : Range(s) = found /\ NewestFirst(s)

\* What the disks in the machine have.
Found == {copies[d].manifest : d \in present} \ {NoBackup}

\* Another stick, or the same one formatted.
NewLoader ==
    /\ own # NoBackup /\ booting = NoBackup /\ page = NoBackup
    /\ own' = NoBackup /\ UNCHANGED <<present, copies, booting, now, page, loaders, lastBoot>>

\* The wizard of a loader starts from its settings; on a new one these are empty.
OpenWizard ==
    /\ booting = NoBackup /\ page = NoBackup /\ loaders < MaxLoaders
    /\ page' = [at |-> "model", backups |-> FindDSMBackups(Found),
                model |-> IF own = NoBackup THEN NoBackup ELSE own.model,
                serial |-> IF own = NoBackup THEN NoBackup ELSE own.serial,
                manual |-> FALSE, fromBackup |-> FALSE, chosen |-> FALSE, plain |-> own = NoBackup]
    /\ UNCHANGED <<present, copies, own, booting, now, loaders, lastBoot>>

\* buildModel: a model picked from the list, perhaps the one it was.
PickModel(m) ==
    /\ page # NoBackup /\ page.at = "model"
    /\ page' = [page EXCEPT !.model = m, !.serial = NoBackup, !.plain = @ /\ page.model = NoBackup]
    /\ UNCHANGED <<present, copies, own, booting, now, loaders, lastBoot>>

\* The newest backup of the model, as a set of at most one.
BackupFor(p) ==
    LET Of(i) == p.backups[i].model = p.model
        first == {i \in DOMAIN p.backups : Of(i) /\ \A j \in 1 .. i - 1 : ~Of(j)}
    IN  {p.backups[i] : i \in first}

\* newSerial: none for a model without a rule.
NewSerial(p) == IF p.model \in RuleModels THEN loaders + 1 ELSE p.serial

UseBackup(p) ==
    [p EXCEPT !.fromBackup = TRUE, !.manual = FALSE,
              !.serial = (CHOOSE b \in BackupFor(p) : TRUE).serial]

\* Mutant: the backup is an offer only.
DefaultNever(p) == [p EXCEPT !.chosen = TRUE]

\* The first time the step is shown a backup's serial is taken, unless there is
\* a serial.
Default(p) ==
    LET first == [p EXCEPT !.chosen = TRUE]
    IN  IF ~p.chosen /\ p.serial = NoBackup /\ BackupFor(p) # {} THEN UseBackup(first) ELSE first

\* buildIdentity, each time it is shown.
Shown(p) ==
    LET d == Default([p EXCEPT !.at = "identity", !.manual = @ \/ p.model \notin RuleModels])
        r == [d EXCEPT !.fromBackup = @ /\ BackupFor(d) # {}]
    IN  [r EXCEPT !.serial = IF ~r.manual /\ ~r.fromBackup /\ @ = NoBackup THEN NewSerial(r) ELSE @]

ShowIdentity ==
    /\ page # NoBackup /\ page.at = "model" /\ page.model # NoBackup
    /\ page' = Shown(page)
    /\ UNCHANGED <<present, copies, own, booting, now, loaders, lastBoot>>

BackToModel ==
    /\ page # NoBackup /\ page.at = "identity"
    /\ page' = [page EXCEPT !.at = "model"]
    /\ UNCHANGED <<present, copies, own, booting, now, loaders, lastBoot>>

\* The choice: 0 drawn, 1 typed, 2 of the backup.
ChooseSerial(how) ==
    /\ page # NoBackup /\ page.at = "identity"
    /\ page.model \in RuleModels \/ BackupFor(page) # {}
    /\ how = 2 => BackupFor(page) # {}
    /\ LET p == [page EXCEPT !.manual = how = 1, !.fromBackup = FALSE, !.plain = FALSE]
       IN  page' = Shown(CASE how = 0 -> [p EXCEPT !.serial = NewSerial(p)]
                           [] how = 1 -> p
                           [] how = 2 -> UseBackup(p))
    /\ UNCHANGED <<present, copies, own, booting, now, loaders, lastBoot>>

TypeSerial(s) ==
    /\ page # NoBackup /\ page.at = "identity" /\ page.manual
    /\ page' = [page EXCEPT !.serial = s, !.plain = FALSE]
    /\ UNCHANGED <<present, copies, own, booting, now, loaders, lastBoot>>

\* Past the step and installed: an empty serial that was not to be typed is
\* drawn by the build.
Install ==
    /\ page # NoBackup /\ page.at = "identity"
    /\ page.manual => page.serial # NoBackup
    /\ own' = [model |-> page.model, serial |-> IF page.serial = NoBackup THEN loaders + 1 ELSE page.serial]
    /\ loaders' = loaders + 1 /\ page' = NoBackup
    /\ UNCHANGED <<present, copies, booting, now, lastBoot>>

IdentityNext ==
    \/ \E d \in DataDisks : MoveDisk(d)
    \/ BootDSM \/ WriteAtomic \/ BackupDone \/ BackupCut \/ NewLoader \/ OpenWizard
    \/ \E m \in BackupModels : PickModel(m)
    \/ ShowIdentity \/ BackToModel \/ Install
    \/ \E how \in 0 .. 2 : ChooseSerial(how)
    \/ \E s \in TypedSerials : TypeSerial(s)

IdentitySpec == IdentityInit /\ [][IdentityNext]_identityVars

(***************************************************************************)
(* Property.                                                               *)
(***************************************************************************)

\* "A DSM already installed on these disks keeps the serial it was installed
\* with": a new loader on which only the model was chosen, the one DSM last ran
\* as, gives DSM the serial of that boot, if any disk of that boot is there,
\* whatever backups older disks have and whatever boots were cut off before it.
SerialIsKept ==
    [][page # NoBackup /\ page' = NoBackup /\ page.plain =>
         (lastBoot # NoBackup /\ lastBoot.model = page.model /\ lastBoot.disks \cap present # {}
            => own'.serial = lastBoot.serial)]_identityVars
=============================================================================
