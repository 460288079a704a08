------------------------------ MODULE MCImages ------------------------------
(***************************************************************************)
(* The three ways to an image: the builder of the library, the commands of *)
(* cmd/vibeldr before it, and the image that carries vibeldr-boot.  They   *)
(* share no state; a behaviour follows one of them.                        *)
(***************************************************************************)
EXTENDS ImageBuild, CliBuild, BootstrapBuild

CONSTANTS m1, m2

VARIABLE focus

(***************************************************************************)
(* Names as the image command uses them: lower case needs a long name, and *)
(* the two ramdisks share their 8.3 form. A donor by another program that  *)
(* has GRUB's modules, a menu under another case, and one that starts late.*)
(***************************************************************************)
MCNames == {"boot", "grub", "Grub", "grub.cfg", "i386-pc", "normal.mod", "loader.yaml", "EFI", "BOOT",
            "BOOTX64.EFI", "grubx64.efi", "SynoBootLoader.conf", "SynoBootLoader.efi",
            "zImage-dsm", "zImage", "initrd-dsm", "initrd-vibeldr", "INITRD~1"}
MCFold == [n \in MCNames |-> CASE n = "BOOT" -> "boot" [] n = "Grub" -> "grub" [] OTHER -> n]
MCLossy == MCNames \ {"EFI", "BOOT", "BOOTX64.EFI", "INITRD~1"}
Stem(n) == CASE n \in {"initrd-dsm", "initrd-vibeldr"} -> "INITRD"
             [] n \in {"zImage-dsm", "zImage"} -> "ZIMAGE"
             [] OTHER -> n
MCShort == [n \in MCNames |-> <<Stem(n)>> \o [i \in 1 .. 4 |-> Stem(n) \o "~" \o ToString(i)]]
MCRecords == [n \in MCNames |->
                IF n \in {"SynoBootLoader.conf", "SynoBootLoader.efi", "initrd-vibeldr"} THEN 2 ELSE 1]

F(p, v, n) == [path |-> p, data |-> [i \in 1 .. n |-> [t |-> "unit", v |-> <<v, i>>]]]

MCEfiFiles == <<F(<<"EFI", "BOOT", "BOOTX64.EFI">>, "efi", 2), F(<<"EFI", "BOOT", "grubx64.efi">>, "efi", 2),
                F(<<"EFI", "BOOT", "grub.cfg">>, "stub", 1)>>
MCStub == <<F(<<"EFI", "BOOT", "SynoBootLoader.conf">>, "conf", 1),
            F(<<"EFI", "BOOT", "SynoBootLoader.efi">>, "empty", 0)>>
MCGenerated == {<<"boot", "grub", "grub.cfg">>}

Menu == F(<<"boot", "grub", "grub.cfg">>, "menu", 3)
Yaml == F(<<"loader.yaml">>, "yaml", 1)

MCForeign ==
    [other |-> [start |-> 1, readable |-> TRUE,
                files |-> <<F(<<"boot", "Grub", "grub.cfg">>, "theirs", 1),
                            F(<<"boot", "Grub", "i386-pc", "normal.mod">>, "mod", 3),
                            F(<<"boot", "Grub", "zImage">>, "theirs", 1)>>],
     ext4 |-> [start |-> 1, readable |-> FALSE, files |-> <<>>],
     late |-> [start |-> 2, readable |-> TRUE, files |-> <<>>]]

Plain == <<F(<<"zImage-dsm">>, "kernel", 4), F(<<"initrd-dsm">>, "rd", 5), F(<<"initrd-vibeldr">>, "boot", 2)>>
Payload == {Plain, <<F(<<"INITRD~1">>, "x", 1), F(<<"initrd-dsm">>, "rd", 60)>>,
            <<F(<<"initrd-dsm">>, "rd", 1), F(<<"initrd-vibeldr">>, "boot", 2), F(<<"INITRD~1">>, "x", 1)>>}
Originals == {<<>>, <<F(<<"zImage">>, "zImage", 2)>>}

Job(l, e, d, o, p) ==
    [total |-> l[1], p1 |-> l[2], p2 |-> l[3], p4 |-> l[4], pack |-> l[5], efi |-> e, donor |-> d,
     files |-> <<<<Menu, Yaml>>, o, p>>]
Layouts == {<<1024, 128, 128, 32, 17>>, <<160, 48, 48, 0, 0>>, <<1024, 128, 128, 16, 17>>,
            <<160, 48, 48, 32, 17>>, <<128, 48, 48, 0, 0>>, <<160, 20, 48, 0, 0>>, <<200, 128, 100, 0, 0>>}
First == <<1024, 128, 128, 32, 17>>
MCJobs ==
    {Job(First, FALSE, None, o, p) : o \in Originals, p \in Payload}
    \cup {Job(First, e, d, o, Plain) : e \in BOOLEAN, o \in Originals,
                                       d \in {"kept", "path", "other", "ext4", "late"}}
    \cup {Job(l, FALSE, None, <<>>, Plain) : l \in Layouts}

(***************************************************************************)
(* Two models and two versions, a serial typed in or not; a .pat of another*)
(* release given by hand, and one that is encrypted.                       *)
(***************************************************************************)
MCConfigs == {[model |-> m, version |-> "7.2", typed |-> FALSE] : m \in {m1, m2}}
             \cup {[model |-> m1, version |-> "7.3", typed |-> t] : t \in BOOLEAN}
MCReleaseOf == [v \in {"7.2", "7.3"} |-> v]
MCVersionIn == ("7.2" :> "7.2") @@ ("7.3" :> "7.3") @@ ("7.2-other" :> "7.2") @@ ("locked" :> "7.3")

MCPartOrder == <<"kernel", "scemd">>

(***************************************************************************)

MCInit == focus \in {"library", "command", "bootstrap"} /\ Init /\ CliInit
          /\ BootstrapInit /\ (focus # "bootstrap" => helper = Missing /\ builder = Missing)

MCNext ==
    \/ focus = "library" /\ Next /\ UNCHANGED <<focus, cliVars, bootVars>>
    \/ focus = "command" /\ CliNext /\ UNCHANGED <<focus, vars, bootVars>>
    \/ focus = "bootstrap" /\ BootstrapNext /\ UNCHANGED <<focus, vars, cliVars>>

MCSpec == MCInit /\ [][MCNext]_<<focus, vars, cliVars, bootVars>>
=============================================================================
