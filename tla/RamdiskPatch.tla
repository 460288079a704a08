------------------------------ MODULE RamdiskPatch ------------------------------
(***************************************************************************)
(* DSM's ramdisk read, edited and written back (internal/ramdisk and       *)
(* internal/dsmconf): the helper and the settings go in, a hook goes above *)
(* one line of each boot script, a few of DSM's own files are edited, and  *)
(* the kernel unpacks the result.                                          *)
(*                                                                         *)
(* An archive is a sequence of cells: the cells of a header, of a name, of *)
(* padding, and the lines of a file, one cell each. A name is a path, a    *)
(* sequence of components. A line is [k, v]: its kind, and which hook it   *)
(* belongs to or which value it gives.                                     *)
(***************************************************************************)
EXTENDS Integers, SequencesExt

CONSTANTS
    Ramdisks,    \* DSM's ramdisks: what is in them, as entries
    Builds,      \* what builds put in: [helper, settings, release, modules]
    KeyOrder,    \* the keys of synoinfo.conf, sorted
    HeaderSize,  \* cells of a header
    Ifcfgs,      \* network settings the installer shall have
    MaxPatches   \* times a ramdisk is patched

ASSUME HeaderAssumption == HeaderSize \in Nat /\ HeaderSize % 4 = 2

NoRelease == "none"
Url == "helper"    \* InstallRSSURL

L(k, v) == [k |-> k, v |-> v]

Helper    == <<"vibeldr-init">>
Synoinfo  == <<"vibeldr-synoinfo">>
BuildID   == <<"vibeldr-build">>
Release   == <<"vibeldr-release">>
RSSList   == <<"vibeldr-rss.xml">>
Linuxrc   == <<"linuxrc.syno.impl">>
Rc        == <<"etc", "rc">>
InitPost  == <<"usr", "sbin", "init.post">>
Conf      == <<"etc", "synoinfo.conf">>
ConfDefaults == <<"etc.defaults", "synoinfo.conf">>
Version   == <<"etc", "VERSION">>
GetState  == <<"usr", "get_state.cgi">>
Busybox   == <<"usr", "busybox">>
Ifcfg(n)  == <<"etc", "network-scripts", n>>

\* The hooks: the script, and the line one goes above.
Hooks == <<[file |-> Linuxrc, id |-> "disks"], [file |-> Rc, id |-> "stage2"],
           [file |-> InitPost, id |-> "detach"], [file |-> InitPost, id |-> "pivot"]>>

HookLines(id) == <<L("marker", id), L("command", id)>>

VARIABLES
    stock,    \* the archive to patch, as cells
    build,    \* what this build puts in
    archive,  \* the archive in memory
    phase,    \* "read", "files", "hooks", "check", "written" or "refused"
    image,    \* the archive written, as cells
    report,   \* [hooks, log]: the line each hook is on, whether busybox was changed
    patches   \* patches made

ramdiskVars == <<stock, build, archive, phase, image, report, patches>>

(***************************************************************************)
(* cpio.go.                                                                *)
(***************************************************************************)

Align(n) == ((n + 3) \div 4) * 4
Zero == L("zero", "")
Pad(cells) == cells \o [i \in 1 .. Align(Len(cells)) - Len(cells) |-> Zero]

\* A component is one cell, the slashes and the end others.
NameSize(name) == 2 * Len(name)
Trailer == <<"TRAILER">>
TrailerEntry == [name |-> Trailer, kind |-> "none", ino |-> 0, nlink |-> 1, data |-> <<>>]

\* writeEntry.
EntryOn(cells, e) ==
    Pad(Pad(cells \o [i \in 1 .. HeaderSize |-> [h |-> [e EXCEPT !.data = Len(@)], i |-> i]]
                  \o [i \in 1 .. NameSize(e.name) |-> [n |-> e.name, i |-> i]]) \o e.data)

\* WriteCPIO: entries without a number of their own are counted up.
Numbered(entries) ==
    [i \in DOMAIN entries |->
        IF entries[i].ino # 0 THEN entries[i]
        ELSE [entries[i] EXCEPT !.ino = Len(SelectSeq(SubSeq(entries, 1, i), LAMBDA e : e.ino = 0))]]

Written(entries) == FoldLeft(EntryOn, <<>>, Append(Numbered(entries), TrailerEntry))

\* readCPIO: one record after the other up to the trailer; an archive without one
\* is no archive. The kernel reads the same way.
ReadNext(cells, r) ==
    LET head == cells[r.off + 1].h
        data == Align(r.off + HeaderSize + NameSize(head.name))
    IN  IF r.done \/ ~r.ok THEN r
        ELSE IF \/ r.off + HeaderSize > Len(cells)
                \/ "h" \notin DOMAIN cells[r.off + 1] \/ cells[r.off + 1].i # 1
                \/ data + head.data > Len(cells)
             THEN [r EXCEPT !.ok = FALSE]
        ELSE IF cells[r.off + HeaderSize + 1].n = Trailer THEN [r EXCEPT !.done = TRUE]
        ELSE [r EXCEPT !.off = Align(data + head.data),
                       !.entries = Append(@, [head EXCEPT !.name = cells[r.off + HeaderSize + 1].n,
                                                          !.data = SubSeq(cells, data + 1, data + head.data)])]

ReadCPIO(cells) ==
    LET r == FoldLeft(LAMBDA acc, i : ReadNext(cells, acc),
                      [off |-> 0, entries |-> <<>>, done |-> FALSE, ok |-> TRUE],
                      [i \in 1 .. Len(cells) \div HeaderSize |-> i])
    IN  [ok |-> r.ok /\ r.done, entries |-> r.entries]

NamesIn(a) == {a[i].name : i \in DOMAIN a}
\* The last entry of a name is the one found.
Place(a, name) == CHOOSE i \in DOMAIN a : a[i].name = name /\ \A k \in i + 1 .. Len(a) : a[k].name # name
Get(a, name) == a[Place(a, name)]
IsFile(a, name) == name \in NamesIn(a) /\ Get(a, name).kind = "file"
Replace(a, name, data) == [a EXCEPT ![Place(a, name)].data = data]

\* Mutant: no directories are added.
AddBare(a, name, data) ==
    Append(a, [name |-> name, kind |-> "file", ino |-> 0, nlink |-> 1, data |-> data])

\* AddFile, with the directories above it that are missing.
AddFile(a, name, data) ==
    LET above == SelectSeq([n \in 1 .. Len(name) - 1 |-> SubSeq(name, 1, n)], LAMBDA d : d \notin NamesIn(a))
    IN  a \o [i \in DOMAIN above |-> [name |-> above[i], kind |-> "dir", ino |-> 0, nlink |-> 2, data |-> <<>>]]
          \o <<[name |-> name, kind |-> "file", ino |-> 0, nlink |-> 1, data |-> data]>>

AddOrReplace(a, name, data) == IF name \in NamesIn(a) THEN Replace(a, name, data) ELSE AddFile(a, name, data)

\* It fails where there is something else of that name.
CanPut(a, name) == name \in NamesIn(a) => IsFile(a, name)

(***************************************************************************)
(* dsmconf.                                                                *)
(***************************************************************************)

\* Set: the first line of the key, or a new one at the end.
Set(lines, key, value) ==
    LET at == {i \in DOMAIN lines : lines[i].k = key}
    IN  IF at = {} THEN Append(lines, L(key, value))
        ELSE [lines EXCEPT ![CHOOSE i \in at : \A j \in at : i <= j] = L(key, value)]

Value(lines, key) ==
    LET at == {i \in DOMAIN lines : lines[i].k = key}
    IN  IF at = {} THEN "" ELSE lines[CHOOSE i \in at : \A j \in at : i <= j].v

LoaderPolicy == [key \in {"rss_server", "rss_server_ssl"} |-> "nowhere"]
InstalledOnly == DOMAIN LoaderPolicy

\* Settings: what every build carries, and over it what this one sets.
Settings(own) == [key \in DOMAIN LoaderPolicy \cup DOMAIN own |->
                     IF key \in DOMAIN own THEN own[key] ELSE LoaderPolicy[key]]

\* RenderList, read back by ParseList: sorted by key.
Rendered(kv) == [i \in DOMAIN SelectSeq(KeyOrder, LAMBDA k : k \in DOMAIN kv) |->
                    LET k == SelectSeq(KeyOrder, LAMBDA x : x \in DOMAIN kv)[i] IN L(k, kv[k])]

\* Mutant: the keys of the installed system go into the ramdisk too.
ForRamdiskAll(list) == list

ForRamdisk(list) == SelectSeq(list, LAMBDA e : e.k \notin InstalledOnly)

\* setSynoinfo, in both files a ramdisk may have.
SetSynoinfo(a, kv) ==
    LET In(b, name) == IF IsFile(b, name)
                       THEN Replace(b, name, FoldLeft(LAMBDA ls, e : Set(ls, e.k, e.v), Get(b, name).data, kv))
                       ELSE b
    IN  In(In(a, Conf), ConfDefaults)

\* InstallRSS: the one release, for this ramdisk's model and version.
ListFor(a, release) ==
    <<L("version", Value(Get(a, Version).data, "version")), L("unique", Value(Get(a, Conf).data, "unique")),
      L("link", release)>>

CanList(a) ==
    /\ IsFile(a, Version) /\ IsFile(a, Conf) /\ CanPut(a, RSSList)
    /\ Value(Get(a, Version).data, "version") # "" /\ Value(Get(a, Conf).data, "unique") # ""

AddInstallRSS(a, release) ==
    IF release = NoRelease \/ ~CanList(a) THEN a
    ELSE SetSynoinfo(AddOrReplace(a, RSSList, ListFor(a, release)), <<L("rss_server_ssl", Url)>>)

(***************************************************************************)
(* stock.go and console.go.                                                *)
(***************************************************************************)

\* The first place of a fixed line, replaced.
Swapped(lines, from, to) ==
    LET at == {i \in DOMAIN lines : lines[i] = from}
    IN  IF at = {} THEN lines ELSE [lines EXCEPT ![CHOOSE i \in at : \A j \in at : i <= j] = to]

SwappedIn(a, name, from, to) ==
    IF IsFile(a, name) THEN Replace(a, name, Swapped(Get(a, name).data, from, to)) ELSE a

Disks(v) == L("disabled ports", v)
Updater(v) == L("broadcom", v)
Console(v) == L("linuxrc to", v)

\* editStock.
EditStock(a, b) ==
    LET set == SetSynoinfo(a, ForRamdisk(Rendered(Settings(b.settings))))
        listed == AddInstallRSS(set, b.release)
        edited == SwappedIn(SwappedIn(listed, GetState, Disks("asked"), Disks("none")),
                            Linuxrc, Updater("run"), Updater("skip"))
    IN  FoldLeft(LAMBDA x, n : IF Ifcfg(n) \in NamesIn(x) THEN x ELSE AddFile(x, Ifcfg(n), <<L("dhcp", n)>>),
                 edited, Ifcfgs)

\* kernelMajor: off the first module that says.
KernelMajor(a) ==
    LET says == {i \in DOMAIN a : a[i].kind = "file" /\ \E j \in DOMAIN a[i].data : a[i].data[j].k = "vermagic"}
    IN  IF says = {} THEN "" ELSE Value(a[CHOOSE i \in says : \A j \in says : i <= j].data, "vermagic")

FreesConsole(a) ==
    /\ KernelMajor(a) = "5" /\ Busybox \in NamesIn(a)
    /\ \E i \in DOMAIN Get(a, Busybox).data : Get(a, Busybox).data[i] = Console("console")

FreeLinuxrcFromConsole(a) ==
    IF FreesConsole(a)
    THEN Replace(a, Busybox, [i \in DOMAIN Get(a, Busybox).data |->
                                 IF Get(a, Busybox).data[i] = Console("console") THEN Console("file")
                                 ELSE Get(a, Busybox).data[i]])
    ELSE a

(***************************************************************************)
(* patch.go.                                                               *)
(***************************************************************************)

\* Mutant: any hook's marker is taken for this one's.
WithoutHookPrefix(lines, id) ==
    LET gone == {i \in DOMAIN lines : lines[i].k = "marker"}
    IN  FoldLeft(LAMBDA out, i : IF i \in gone \/ i - 1 \in gone THEN out ELSE Append(out, lines[i]),
                 <<>>, [i \in DOMAIN lines |-> i])

\* withoutHook: without its marker and the command under it.
WithoutHook(lines, id) ==
    LET gone == {i \in DOMAIN lines : lines[i] = L("marker", id)}
    IN  FoldLeft(LAMBDA out, i : IF i \in gone \/ i - 1 \in gone THEN out ELSE Append(out, lines[i]),
                 <<>>, [i \in DOMAIN lines |-> i])

Anchors(lines, id) == {i \in DOMAIN lines : lines[i] = L("anchor", id)}
FirstOf(S) == CHOOSE i \in S : \A j \in S : i <= j

\* applyHook: above the first line that is its anchor.
Applied(lines, id) ==
    LET clean == WithoutHook(lines, id)
        at == FirstOf(Anchors(clean, id))
    IN  SubSeq(clean, 1, at - 1) \o HookLines(id) \o SubSeq(clean, at, Len(clean))

CanHook(a, h) == h.file \in NamesIn(a) /\ Anchors(WithoutHook(Get(a, h.file).data, h.id), h.id) # {}

\* The line each hook is on when all are in; 0 when it is not.
LineOf(a, h) ==
    LET at == {i \in DOMAIN Get(a, h.file).data : Get(a, h.file).data[i] = L("marker", h.id)}
    IN  IF at = {} THEN 0 ELSE FirstOf(at)

CountMarkers(a, file) == Len(SelectSeq(Get(a, file).data, LAMBDA l : l.k = "marker"))
Expected(file) == Len(SelectSeq(Hooks, LAMBDA h : h.file = file))

Fingerprint(b) == <<L("build", b)>>

Extras(b) ==
    <<[name |-> Synoinfo, data |-> Rendered(Settings(b.settings))]>>
    \o (IF b.release = NoRelease THEN <<>> ELSE <<[name |-> Release, data |-> <<L("link", b.release)>>]>>)
    \o [i \in DOMAIN b.modules |-> [name |-> b.modules[i], data |-> <<L("module", "ours")>>]]

RamdiskInit ==
    /\ \E r \in Ramdisks : stock = Written(r)
    /\ build \in Builds /\ archive = <<>> /\ phase = "read" /\ image = <<>>
    /\ report = [hooks |-> <<>>, log |-> FALSE] /\ patches = 1

Goes(to) == phase' = to /\ UNCHANGED <<stock, build, image, patches>>

Refuse == Goes("refused") /\ UNCHANGED <<archive, report>>

ReadRamdisk ==
    /\ phase = "read"
    /\ IF ReadCPIO(stock).ok
       THEN archive' = ReadCPIO(stock).entries /\ report' = [hooks |-> <<>>, log |-> FALSE] /\ Goes("files")
       ELSE Refuse

\* The helper, what the build carries, the edits and the fingerprint over both.
PutFiles ==
    /\ phase = "files"
    /\ LET first == <<[name |-> Helper, data |-> <<L("helper", build.helper)>>]>> \o Extras(build)
           filled == FoldLeft(LAMBDA a, f : AddOrReplace(a, f.name, f.data), archive, first)
       IN  IF \A i \in DOMAIN first : CanPut(archive, first[i].name)
           THEN /\ archive' = AddOrReplace(EditStock(filled, build), BuildID, Fingerprint(build))
                /\ Goes("hooks") /\ UNCHANGED report
           ELSE Refuse

ApplyHooks ==
    /\ phase = "hooks"
    /\ IF \A i \in DOMAIN Hooks : CanHook(archive, Hooks[i])
       THEN LET hooked == FoldLeft(LAMBDA a, h : Replace(a, h.file, Applied(Get(a, h.file).data, h.id)), archive, Hooks)
            IN  /\ archive' = FreeLinuxrcFromConsole(hooked)
                /\ report' = [hooks |-> [i \in DOMAIN Hooks |-> LineOf(hooked, Hooks[i])], log |-> FreesConsole(hooked)]
                /\ Goes("check")
       ELSE Refuse

\* As many markers as hooks, each of them found; then the archive is written.
CheckAndWrite ==
    /\ phase = "check"
    /\ IF \A i \in DOMAIN Hooks : CountMarkers(archive, Hooks[i].file) = Expected(Hooks[i].file) /\ report.hooks[i] # 0
       THEN /\ image' = Written(archive) /\ phase' = "written"
            /\ UNCHANGED <<stock, build, archive, report, patches>>
       ELSE Refuse

\* A build run again over what an earlier one wrote.
PatchAgain ==
    /\ phase = "written" /\ patches < MaxPatches
    /\ stock' = image /\ build' \in Builds /\ phase' = "read" /\ image' = <<>> /\ patches' = patches + 1
    /\ UNCHANGED <<archive, report>>

RamdiskNext ==
    \/ ReadRamdisk \/ PutFiles \/ ApplyHooks \/ CheckAndWrite \/ PatchAgain
    \/ phase \in {"written", "refused"} /\ UNCHANGED ramdiskVars

RamdiskSpec == RamdiskInit /\ [][RamdiskNext]_ramdiskVars

(***************************************************************************)
(* The kernel: entries in their order, a file whose directory is not there *)
(* left out, files of one number linked when they say so.                  *)
(***************************************************************************)

UnpackNext(fs, e, i) ==
    LET id == IF e.nlink >= 2 THEN <<"linked", e.ino>> ELSE <<"own", i>>
        there == Len(e.name) = 1 \/ SubSeq(e.name, 1, Len(e.name) - 1) \in DOMAIN fs.at
    IN  IF ~there THEN fs
        ELSE IF e.kind # "file"
             THEN [fs EXCEPT !.at = [p \in DOMAIN @ \cup {e.name} |-> IF p = e.name THEN <<e.kind, 0>> ELSE @[p]]]
        ELSE [at |-> [p \in DOMAIN fs.at \cup {e.name} |-> IF p = e.name THEN id ELSE fs.at[p]],
              data |-> [d \in DOMAIN fs.data \cup {id} |->
                           IF d # id \/ (id \in DOMAIN fs.data /\ e.data = <<>>) THEN fs.data[d] ELSE e.data]]

Unpacked(entries) ==
    FoldLeft(LAMBDA fs, i : UnpackNext(fs, entries[i], i), [at |-> <<>>, data |-> <<>>],
             [i \in DOMAIN entries |-> i])

ContentOf(fs, p) == IF fs.at[p] \in DOMAIN fs.data THEN fs.data[fs.at[p]] ELSE fs.at[p]

(***************************************************************************)
(* Properties.                                                             *)
(***************************************************************************)

Before == ReadCPIO(stock).entries
After == ReadCPIO(image).entries
Script(file) == ContentOf(Unpacked(After), file)
NoMarkers(lines) == WithoutHook(WithoutHook(lines, "detach"), "pivot")
Bare(lines) == WithoutHook(WithoutHook(NoMarkers(lines), "disks"), "stage2")

\* Whether the ramdisk has every script and every line, and no other hooks.
Hookable ==
    \A i \in DOMAIN Hooks :
        /\ CanHook(Before, Hooks[i])
        /\ \A j \in DOMAIN Get(Before, Hooks[i].file).data :
              LET l == Get(Before, Hooks[i].file).data[j]
              IN  l.k = "marker" => \E n \in DOMAIN Hooks : Hooks[n].id = l.v /\ Hooks[n].file = Hooks[i].file

\* Each hook runs once, right above the first line it waits for, in a script that
\* is DSM's otherwise, however often the ramdisk was patched before: two hooks in
\* one script do not move or delete each other, and the build log names the line.
\* A ramdisk laid out differently is refused, and no other.
HooksAtTheirLines ==
    /\ phase = "written" =>
         \A i \in DOMAIN Hooks :
            LET h == Hooks[i]
                s == Script(h.file)
            IN  /\ LineOf(After, h) = report.hooks[i]
                /\ {j \in DOMAIN s : s[j] = L("marker", h.id)} = {report.hooks[i]}
                /\ s[report.hooks[i] + 1] = L("command", h.id)
                /\ report.hooks[i] + 2 = FirstOf(Anchors(s, h.id))
                /\ Bare(s) = Swapped(Bare(Get(Before, h.file).data), Updater("run"),
                                     IF h.file = Linuxrc THEN Updater("skip") ELSE Updater("run"))
    /\ phase = "refused" => ~Hookable

Edited == {Conf, ConfDefaults, GetState, Busybox, RSSList} \cup {Hooks[i].file : i \in DOMAIN Hooks}

\* The kernel unpacks everything it did before, unchanged but for the files that
\* were edited, and everything that was put in, wherever its directory was
\* missing and whatever numbers and links DSM's own files have.
UnpackedWhole ==
    phase = "written" =>
        LET was == Unpacked(Before)
            fs == Unpacked(After)
            put == <<[name |-> Helper, data |-> <<L("helper", build.helper)>>]>> \o Extras(build)
                   \o <<[name |-> BuildID, data |-> Fingerprint(build)]>>
        IN  /\ DOMAIN was.at \subseteq DOMAIN fs.at
            /\ \A p \in DOMAIN was.at :
                  p \in Edited \/ p \in {put[i].name : i \in DOMAIN put} \/ ContentOf(fs, p) = ContentOf(was, p)
            /\ \A i \in DOMAIN put : put[i].name \in DOMAIN fs.at /\ ContentOf(fs, put[i].name) = put[i].data
            /\ \A i \in DOMAIN Ifcfgs : Ifcfg(Ifcfgs[i]) \in DOMAIN fs.at

\* The installer is offered the release of this build, for the model and version
\* the ramdisk says it is of once the settings are in; a build without one leaves
\* it asking where DSM's own ramdisk asks. It never asks where the settings send
\* the installed system.
ReleaseOffered ==
    phase = "written" =>
        LET fs == Unpacked(After)
            conf == ContentOf(fs, Conf)
            asks == Value(conf, "rss_server_ssl")
            list == ContentOf(fs, RSSList)
        IN  /\ asks # "nowhere" /\ Value(conf, "rss_server") # "nowhere"
            /\ IF build.release # NoRelease /\ CanList(After)
               THEN asks = Url /\ list = ListFor(After, build.release)
               ELSE patches = 1 => asks = Value(Get(Before, Conf).data, "rss_server_ssl")
=============================================================================
