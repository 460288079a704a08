------------------------------- MODULE CliBuild -------------------------------
(***************************************************************************)
(* The build commands of the command line tool (cmd/vibeldr/main.go, with  *)
(* internal/state and internal/pat's extraction): what each run of a       *)
(* command reads of the files the runs before it left, and what it leaves. *)
(* A command is one action; a run that fails or is killed on the way is the*)
(* same action with less done.                                             *)
(*                                                                         *)
(* loader.yaml is a record of a model, a DSM version and whether the serial*)
(* is typed; its hash is the record. A release is what a .pat holds.       *)
(***************************************************************************)
EXTENDS Integers, FiniteSets

CONSTANTS
    CliModels,    \* models of the catalogue
    Configs,      \* [model, version, typed]: what loader.yaml may say
    ReleaseOf,    \* ReleaseOf[v]: the release at the catalogue's URL for v
    OtherReleases,\* the releases at URLs given by hand
    VersionIn,    \* VersionIn[r]: product version in r's VERSION file
    Locked,       \* releases whose .pat is encrypted
    MaxIds,       \* identities that are generated at most
    MaxCommands,  \* commands that are run at most
    Nothing

Releases == OtherReleases \cup {ReleaseOf[c.version] : c \in Configs}

\* "typed" stands for a serial of no model of the catalogue.
ASSUME ConfigsAssumption ==
    /\ \A c \in Configs : /\ c.model \in CliModels /\ c.typed \in BOOLEAN
                          /\ ReleaseOf[c.version] \in DOMAIN VersionIn
    /\ "typed" \notin CliModels
    /\ Nothing \notin Configs /\ Nothing \notin Releases
    /\ Nothing \notin [of : Releases, for : Configs]

VARIABLES
    yaml,     \* loader.yaml, or Nothing
    state,    \* state.json: [hash, stage, serial]
    cached,   \* .pat files by model and version: a release or Nothing
    dsm,      \* work/dsm: [zImage, rd, version], a release each or Nothing
    patched,  \* work/dsm: [z, rd], what `patch` left of which release and configuration
    loader,   \* the image written last, or Nothing
    ids,      \* identities generated so far
    commands, \* commands run so far
    told,     \* history: the identity shown for this loader.yaml since it was written
    done      \* history: 1 fetched, 2 extracted, 3 patched, each after the one before
              \* and with this loader.yaml

cliVars == <<yaml, state, cached, dsm, patched, loader, ids, commands, told, done>>

Names2 == {<<c.model, c.version>> : c \in Configs}

CliInit ==
    /\ yaml = Nothing
    /\ state = [hash |-> Nothing, stage |-> "empty", serial |-> Nothing]
    /\ cached = [n \in Names2 |-> Nothing]
    /\ dsm = [zImage |-> Nothing, rd |-> Nothing, version |-> Nothing]
    /\ patched = [z |-> Nothing, rd |-> Nothing]
    /\ loader = Nothing /\ ids = 0 /\ commands = 0 /\ told = Nothing /\ done = 0

Command == commands < MaxCommands /\ commands' = commands + 1
Loaded == Command /\ yaml # Nothing

\* The .pat this loader.yaml asks for.
PatCachePath == <<yaml.model, yaml.version>>

\* The state is of another loader.yaml.
Stale == state.hash # Nothing /\ state.hash # yaml

\* What a command that succeeds saves: under the hash of this loader.yaml.
SavedState(stage, serial) == [hash |-> yaml, stage |-> stage, serial |-> serial]

(***************************************************************************)
(* loader.yaml and the identity.                                           *)
(***************************************************************************)

\* `init`, or an edit by hand: the file says something else.
WriteConfig(c) ==
    /\ Command /\ yaml # c
    /\ yaml' = c /\ told' = Nothing /\ done' = 0
    /\ UNCHANGED <<state, cached, dsm, patched, loader, ids>>

Typed == [model |-> "typed", n |-> 0]

\* The serial in the state, when it is of this loader.yaml.
KeptSerial == IF Stale THEN Nothing ELSE state.serial

\* resolveIdentity: what the settings, the state and the generator give.
Resolved(regenerate) ==
    IF yaml.typed THEN Typed
    ELSE IF ~regenerate /\ KeptSerial # Nothing THEN KeptSerial
    ELSE [model |-> yaml.model, n |-> ids + 1]

Fresh(serial) == serial.model # "typed" /\ serial.n = ids + 1

\* Mutant: the pinned identity is saved without the hash of what it is for.
IdentityUnstamped(regenerate) ==
    /\ Loaded
    /\ LET serial == Resolved(regenerate)
       IN  /\ Fresh(serial) => ids < MaxIds
           /\ ids' = IF Fresh(serial) THEN ids + 1 ELSE ids
           /\ state' = IF Fresh(serial) THEN [state EXCEPT !.serial = serial] ELSE state
           /\ told' = serial
    /\ UNCHANGED <<yaml, cached, dsm, patched, loader, done>>

\* `identity`: a generated one is pinned, under the hash of this loader.yaml; the
\* stage stays.
Identity(regenerate) ==
    /\ Loaded
    /\ LET serial == Resolved(regenerate)
       IN  /\ Fresh(serial) => ids < MaxIds
           /\ ids' = IF Fresh(serial) THEN ids + 1 ELSE ids
           /\ state' = IF Fresh(serial) THEN SavedState(state.stage, serial) ELSE state
           /\ told' = serial
    /\ UNCHANGED <<yaml, cached, dsm, patched, loader, done>>

(***************************************************************************)
(* fetch, extract, patch.                                                  *)
(***************************************************************************)

\* `fetch`: a file in the cache is taken as it is unless a checksum is known and
\* is another; an encrypted one is an error after the state was saved.
FetchPat(release, checked) ==
    /\ Loaded
    /\ LET have == cached[PatCachePath]
           got == IF have # Nothing /\ (~checked \/ have = release) THEN have ELSE release
       IN  /\ cached' = [cached EXCEPT ![PatCachePath] = got]
           /\ done' = IF got \in Locked THEN 0 ELSE 1
    /\ state' = SavedState("fetched", state.serial)
    /\ UNCHANGED <<yaml, dsm, patched, loader, ids, told>>

\* One that fails leaves a cached file with a wrong checksum removed.
FetchFails(release, checked) ==
    /\ Loaded
    /\ LET have == cached[PatCachePath]
       IN  /\ have = Nothing \/ (checked /\ have # release)
           /\ cached' = [cached EXCEPT ![PatCachePath] = Nothing]
    /\ done' = 0
    /\ UNCHANGED <<yaml, state, dsm, patched, loader, ids, told>>

Unlocked == cached[PatCachePath] # Nothing /\ cached[PatCachePath] \notin Locked

\* Mutant: the product version of the archive is not compared.
ExtractUnchecked ==
    /\ Loaded /\ Unlocked
    /\ LET r == cached[PatCachePath]
       IN  dsm' = [zImage |-> r, rd |-> r, version |-> r]
    /\ state' = SavedState("extracted", state.serial)
    /\ done' = IF done >= 1 THEN 2 ELSE 0
    /\ UNCHANGED <<yaml, cached, patched, loader, ids, told>>

\* `extract`, when the archive's VERSION says what loader.yaml says.
Extract ==
    /\ Loaded /\ Unlocked
    /\ LET r == cached[PatCachePath]
       IN  /\ VersionIn[r] = yaml.version
           /\ dsm' = [zImage |-> r, rd |-> r, version |-> r]
    /\ state' = SavedState("extracted", state.serial)
    /\ done' = IF done >= 1 THEN 2 ELSE 0
    /\ UNCHANGED <<yaml, cached, patched, loader, ids, told>>

\* It fails on the way through the archive, or behind it for the version; what
\* was written by then stays.
ExtractFails ==
    /\ Loaded /\ Unlocked
    /\ LET r == cached[PatCachePath]
       IN  \E written \in SUBSET {"zImage", "rd", "version"} :
              /\ written = {"zImage", "rd", "version"} => VersionIn[r] # yaml.version
              /\ dsm' = [f \in DOMAIN dsm |-> IF f \in written THEN r ELSE dsm[f]]
    /\ done' = IF done >= 1 THEN 1 ELSE 0
    /\ UNCHANGED <<yaml, state, cached, patched, loader, ids, told>>

\* `patch`: the ramdisk there is, with this loader.yaml's settings, then the
\* kernel there is; that its patch fails is a warning and leaves the file of an
\* earlier run.
Patch(kernelFits) ==
    /\ Loaded /\ dsm.rd # Nothing
    /\ patched' = [z |-> IF kernelFits /\ dsm.zImage # Nothing THEN dsm.zImage ELSE patched.z,
                   rd |-> [of |-> dsm.rd, for |-> yaml]]
    /\ state' = SavedState("patched", state.serial)
    /\ done' = IF done >= 2 /\ kernelFits THEN 3 ELSE IF done >= 2 THEN 2 ELSE 0
    /\ UNCHANGED <<yaml, cached, dsm, loader, ids, told>>

\* Killed between the two files, before the state is saved.
PatchKilled ==
    /\ Loaded /\ dsm.rd # Nothing
    /\ patched' = [patched EXCEPT !.rd = [of |-> dsm.rd, for |-> yaml]]
    /\ done' = IF done >= 2 THEN 2 ELSE 0
    /\ UNCHANGED <<yaml, state, cached, dsm, loader, ids, told>>

(***************************************************************************)
(* image.                                                                  *)
(***************************************************************************)

\* Mutant: the ramdisk as it came is taken although the patched one is there.
PickOriginal(passthrough) ==
    [z |-> IF patched.z # Nothing THEN [of |-> patched.z, patched |-> TRUE]
           ELSE [of |-> dsm.zImage, patched |-> FALSE],
     rd |-> [of |-> dsm.rd, for |-> Nothing]]

\* Kernel and ramdisk for partition 3: the patched ones, the kernel as it came
\* when there is no patched one; passing through, both as they came.
Pick(passthrough) ==
    IF passthrough THEN [z |-> [of |-> dsm.zImage, patched |-> FALSE],
                         rd |-> [of |-> dsm.rd, for |-> Nothing]]
    ELSE [z |-> IF patched.z # Nothing THEN [of |-> patched.z, patched |-> TRUE]
                ELSE [of |-> dsm.zImage, patched |-> FALSE],
          rd |-> IF patched.rd # Nothing THEN patched.rd ELSE [of |-> Nothing, for |-> Nothing]]

\* `image`, with a generated identity when none is pinned; it is not saved.
Image(passthrough) ==
    /\ Loaded
    /\ LET serial == Resolved(FALSE)
           p == Pick(passthrough)
       IN  /\ Fresh(serial) => ids < MaxIds
           /\ p.z.of # Nothing /\ p.rd.of # Nothing
           /\ ids' = IF Fresh(serial) THEN ids + 1 ELSE ids
           /\ loader' = [z |-> p.z, rd |-> p.rd, originals |-> dsm, serial |-> serial,
                         for |-> yaml, passthrough |-> passthrough, done |-> done, told |-> told]
    /\ UNCHANGED <<yaml, state, cached, dsm, patched, told, done>>

CliNext ==
    \/ \E c \in Configs : WriteConfig(c)
    \/ \E b \in BOOLEAN : Identity(b) \/ Patch(b) \/ Image(b)
    \/ \E r \in Releases, checked \in BOOLEAN :
          /\ yaml # Nothing
          /\ r \in OtherReleases \cup {ReleaseOf[yaml.version]}
          /\ FetchPat(r, checked) \/ FetchFails(r, checked)
    \/ Extract \/ ExtractFails \/ PatchKilled
    \/ commands = MaxCommands /\ UNCHANGED cliVars

CliSpec == CliInit /\ [][CliNext]_cliVars

(***************************************************************************)
(* Properties.                                                             *)
(***************************************************************************)

\* The identity `identity` showed for a loader.yaml is the one every image of it
\* carries, whatever commands come in between: "an identity is generated once
\* and kept in the state file".
SameMachine ==
    loader # Nothing /\ loader.told # Nothing => loader.serial = loader.told

\* When fetch, extract and patch have succeeded in their order since loader.yaml
\* was written, the image's kernel and ramdisk are of one archive, of the version
\* asked for, and carry this loader.yaml's settings, whatever earlier runs for
\* other settings, failed or killed, left in the same directories.
ImageOfOneRelease ==
    loader # Nothing /\ loader.done = 3 /\ ~loader.passthrough =>
        /\ loader.z.patched /\ loader.z.of = loader.rd.of
        /\ VersionIn[loader.z.of] = loader.for.version
        /\ loader.rd.for = loader.for
        /\ loader.originals = [zImage |-> loader.z.of, rd |-> loader.z.of, version |-> loader.z.of]
=============================================================================
