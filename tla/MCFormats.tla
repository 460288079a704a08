----------------------------- MODULE MCFormats -----------------------------
(***************************************************************************)
(* The algorithms that turn one file into another: picking drivers from a  *)
(* pack, merging packs, the range coder and the LZMA stream over it, and the *)
(* patched ramdisk.  They share no state; a behaviour follows one of them. *)
(***************************************************************************)
EXTENDS MCKmodPack, PackMerge, RangeCoder, LzmaStream, RamdiskPatch

VARIABLE focus

(***************************************************************************)
(* Texts of three letters, and longer ones that repeat themselves; the     *)
(* last two take up the oldest of the four distances again.                *)
(***************************************************************************)
Blocks == {<<0, 1, 2, 3>>, <<0, 1, 3, 1>>, <<2, 0, 1>>, <<1, 1>>}
MCTexts == UNION {[1 .. n -> 0 .. 2] : n \in 0 .. 5} \cup {FlattenSeq(b) : b \in [1 .. 5 -> Blocks]}
           \cup {<<3, 2, 0, 3, 2, 0, 3, 0, 3, 2, 0, 2, 0, 3, 0, 3, 3, 2, 0, 2, 2, 0, 3, 2, 3, 2, 0>>,
                 <<0, 3, 2, 2, 1, 0, 3, 2, 2, 3, 2, 2, 1, 2, 2, 1, 0, 0, 0, 0, 0>>}
MCHash(t) == t[1] + t[2]
MCPower == [i \in 0 .. MaxShift |-> 2 ^ i]

(***************************************************************************)
(* DSM's ramdisks: of kernels 4 and 5, patched before or not, with lines   *)
(* in another order, files there or missing.                               *)
(***************************************************************************)
Own(name, data) == [name |-> name, kind |-> "file", ino |-> 7, nlink |-> 1, data |-> data]
Linked(name, data) == [name |-> name, kind |-> "file", ino |-> 1, nlink |-> 2, data |-> data]
Dir(name) == [name |-> name, kind |-> "dir", ino |-> 2, nlink |-> 2, data |-> <<>>]

Text == L("text", "")
Anchor(id) == L("anchor", id)

Linuxrcs == {<<Anchor("disks")>>, <<Text, Updater("run")>>,
             <<Updater("run"), L("marker", "older"), L("command", "older"), Anchor("disks")>>}
Posts == {<<Anchor("pivot"), Anchor("detach")>>}
Confs == {<<L("unique", "stock"), L("rss_server_ssl", "synology")>>, <<L("rss_server", "synology")>>}
Versions == {<<L("version", "7")>>, <<>>}

Ramdisk(linuxrc, post, conf, version, major, rest) ==
    <<Own(<<"init">>, <<Text>>), Dir(<<"etc">>), Own(Rc, <<Anchor("stage2"), Text>>), Own(Linuxrc, linuxrc),
      Dir(<<"usr">>), Linked(<<"usr", "ash">>, <<>>), Linked(<<"usr", "sh">>, <<Text>>), Own(Busybox, <<Console("console")>>),
      Own(GetState, <<Disks("asked"), Text>>), Own(<<"m.ko">>, <<L("vermagic", major)>>),
      Dir(<<"usr", "sbin">>), Own(InitPost, post), Own(Conf, conf), Own(Version, version)>> \o rest

PlainLinuxrc == <<Text, Updater("run"), Anchor("disks"), Text, Anchor("disks")>>
PlainPost == <<Text, Anchor("detach"), Text, Anchor("pivot")>>

Defaults == Own(ConfDefaults, <<L("unique", "stock")>>)
IfcfgOfEth0 == <<Dir(<<"etc", "network-scripts">>), Own(Ifcfg("eth0"), <<Text>>)>>

MCRamdisks ==
    {Ramdisk(l, p, <<L("unique", "stock")>>, <<L("version", "7")>>, "4", <<>>) : l \in Linuxrcs, p \in Posts}
    \cup {Ramdisk(PlainLinuxrc, PlainPost, c, v, "5", <<>>) : c \in Confs, v \in Versions}
    \cup {Ramdisk(PlainLinuxrc, PlainPost, c, <<L("version", "7")>>, "5", r) : c \in Confs,
             r \in {<<Dir(<<"etc.defaults">>), Defaults>>, IfcfgOfEth0}}
    \cup {SubSeq(Ramdisk(PlainLinuxrc, PlainPost, <<>>, <<>>, "5", <<>>), 1, 11)}

\* The build with the new helper is the one with modules.
MCBuilds ==
    {[helper |-> h, settings |-> s, release |-> r,
      modules |-> IF h = "new" THEN <<<<"lib", "modules", "a.ko">>>> ELSE <<>>] :
       h \in {"old", "new"}, s \in {<<>>, [unique |-> "ours"]}, r \in {NoRelease, "pat"}}

MCKeyOrder == <<"rss_server", "rss_server_ssl", "unique">>
MCIfcfgs == <<"eth0", "eth1">>

(***************************************************************************)
(* Packs of ours, and the originals of three modules or two of them.       *)
(***************************************************************************)
MCOurPacks == {[n \in S |-> "ours"] : S \in SUBSET Modules}
MCOriginals ==
  UNION {LET all == [deps : SUBSET Modules, hardware : BOOLEAN, wrong : BOOLEAN]
         IN  {f \in [names -> all] : \A n \in names : n \notin f[n].deps /\ (f[n].wrong => f[n].hardware)}
         : names \in {Modules, Modules \ {3}}}

(***************************************************************************)

MCInit ==
    /\ focus \in {"packs", "merge", "coder", "lzma", "ramdisk"}
    /\ CoderInit
    /\ LzmaInit /\ (focus # "lzma" => text = <<>>)
    /\ IF focus = "merge" THEN MergeInit
       ELSE /\ ours = <<>> /\ orig = <<>> /\ doing = "rest" /\ todo = {} /\ take = {}
            /\ merged = <<>> /\ before = <<>>
    /\ IF focus = "ramdisk" THEN RamdiskInit
       ELSE /\ stock = <<>> /\ build = <<>> /\ archive = <<>> /\ phase = "rest" /\ image = <<>>
            /\ report = <<>> /\ patches = 0
    /\ IF focus = "packs" THEN PacksInit ELSE input = [kind |-> "none"] /\ output = <<>>

MCNext ==
    \/ focus = "merge" /\ MergeNext /\ UNCHANGED <<focus, packsVars, coderVars, lzmaVars, ramdiskVars>>
    \/ focus = "packs" /\ PacksNext /\ UNCHANGED <<focus, mergeVars, coderVars, lzmaVars, ramdiskVars>>
    \/ focus = "coder" /\ CoderNext /\ UNCHANGED <<focus, packsVars, mergeVars, lzmaVars, ramdiskVars>>
    \/ focus = "lzma" /\ LzmaNext /\ UNCHANGED <<focus, packsVars, mergeVars, coderVars, ramdiskVars>>
    \/ focus = "ramdisk" /\ RamdiskNext /\ UNCHANGED <<focus, packsVars, mergeVars, coderVars, lzmaVars>>

MCSpec == MCInit /\ [][MCNext]_<<focus, packsVars, mergeVars, coderVars, lzmaVars, ramdiskVars>>
=============================================================================
