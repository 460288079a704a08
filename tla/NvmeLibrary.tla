---------------------------- MODULE NvmeLibrary ----------------------------
(***************************************************************************)
(* fitNVMeLibrary (cmd/vibeldr-init/nvmelib.go): on a DS918+ every boot    *)
(* rewrites the two board M.2 addresses in the installed system's          *)
(* libsynonvme to those of the machine's first two NVMe controllers,       *)
(* starting from an untouched copy it keeps the first time.                *)
(*                                                                         *)
(* The library is what its two slot addresses read.  Both files are        *)
(* written in place (os.WriteFile) and never synced.                       *)
(***************************************************************************)
EXTENDS Naturals, Sequences, SequencesExt

CONSTANTS
  BoardPorts,  \* boardM2Ports: the DS918+'s two root ports
  Ports,       \* root-bus addresses, the board's among them
  Wide,        \* addresses of another length, which are passed over
  MaxNvme,     \* bound: NVMe controllers in the machine
  None, Torn   \* no file; a file only partly written

ASSUME NvmeAssumption ==
  /\ BoardPorts \in [1..2 -> Ports] /\ BoardPorts[1] # BoardPorts[2]
  /\ Wide \cap Ports = {}
  /\ MaxNvme \in Nat
  /\ None # Torn /\ {None, Torn} \cap [1..2 -> Ports] = {}

Libraries == [1..2 -> Ports]
Pristine == BoardPorts

VARIABLES
  stage,          \* "off", "fit", "write", "up"
  nvme,           \* this boot's controllers; none on any other model
  lib, libDisk,   \* /usr/lib/libsynonvme.so.1, as read and on the medium
  orig, origDisk, \* the kept copy
  met             \* history: "full" once a write has failed, "power" once a reset
                  \* has lost one that was not synced

files == <<lib, libDisk, orig, origDisk>>
vars == <<stage, nvme, files, met>>

TypeOK ==
  /\ stage \in {"off", "fit", "write", "up"}
  /\ nvme \in Seq(Ports \cup Wide) /\ Len(nvme) <= MaxNvme
  /\ {lib, libDisk} \subseteq Libraries \cup {Torn}
  /\ {orig, origDisk} \subseteq Libraries \cup {None, Torn}
  /\ met \subseteq {"full", "power"}

Init ==
  /\ stage = "off" /\ nvme = <<>>
  /\ lib = Pristine /\ libDisk = Pristine /\ orig = None /\ origDisk = None
  /\ met = {}
-----------------------------------------------------------------------------
\* bytes.ReplaceAll; a partly written library stays one.
Replaced(l, from, to) == IF l = Torn THEN Torn ELSE ReplaceAll(l, from, to)

\* The i-th board address becomes the i-th controller's, unless the lengths
\* differ.
Slot(l, i) == IF i > Len(nvme) \/ nvme[i] \in Wide THEN l ELSE Replaced(l, BoardPorts[i], nvme[i])

\* Mutant: the last of the board's ports is left out.
FittedOneShort(l) == Slot(l, 1)

\* One board address after the other, each on the result of the one before.
Fitted(l) == Slot(Slot(l, 1), 2)

\* SSDs may have been added, moved or taken out, or the model changed, since.
Boot ==
  /\ stage = "off" /\ stage' = "fit"
  /\ \E n \in 0..MaxNvme : nvme' \in [1..n -> Ports \cup Wide]
  /\ UNCHANGED <<files, met>>

\* Whether the library lists the board's ports; where a torn one ends decides it.
Lists(l) == IF l = Torn THEN BOOLEAN ELSE {BoardPorts[1] \in {l[1], l[2]}}

\* No copy yet, and nothing to fit or no library that lists the board's ports.
FitStops ==
  /\ stage = "fit" /\ orig = None
  /\ nvme = <<>> \/ FALSE \in Lists(lib)
  /\ stage' = "up"
  /\ UNCHANGED <<nvme, files, met>>

\* Mutant: the library is changed although the copy could not be kept.
FitKeepsAnyway ==
  /\ stage = "fit" /\ orig = None /\ nvme # <<>>
  /\ TRUE \in Lists(lib)
  /\ \/ orig' = lib /\ stage' = "write" /\ UNCHANGED <<lib, met>>
     \/ orig' = None /\ lib' = Fitted(lib) /\ stage' = "up" /\ met' = met \cup {"full"}
  /\ UNCHANGED <<nvme, libDisk, origDisk>>

\* No copy yet: keep one.  If that fails the library is left alone.
FitKeeps ==
  /\ stage = "fit" /\ orig = None /\ nvme # <<>>
  /\ TRUE \in Lists(lib)
  /\ \/ orig' = lib /\ stage' = "write" /\ UNCHANGED met
     \/ orig' \in {None, Torn} /\ stage' = "up" /\ met' = met \cup {"full"}
  /\ UNCHANGED <<nvme, lib, libDisk, origDisk>>

\* Mutant: a boot with no controllers has nothing to do.
FitFindsWork ==
  /\ stage = "fit" /\ orig # None
  /\ stage' = IF nvme = <<>> THEN "up" ELSE "write"
  /\ UNCHANGED <<nvme, files, met>>

\* The copy is there and is taken as it is.
FitFinds ==
  /\ stage = "fit" /\ orig # None /\ stage' = "write"
  /\ UNCHANGED <<nvme, files, met>>

FitWrites ==
  /\ stage = "write" /\ stage' = "up"
  /\ \/ lib' = Fitted(orig) /\ UNCHANGED met
     \/ Fitted(orig) # lib /\ lib' = Torn /\ met' = met \cup {"full"}
  /\ UNCHANGED <<nvme, libDisk, orig, origDisk>>

Shutdown ==
  /\ stage = "up" /\ stage' = "off"
  /\ libDisk' = lib /\ origDisk' = orig
  /\ UNCHANGED <<nvme, lib, orig, met>>

\* What a power loss or a hard reset leaves of a file.
Remains(disk, cached) == IF disk # cached THEN {disk, cached, Torn} ELSE {cached}

Reset ==
  /\ stage # "off" /\ stage' = "off"
  /\ libDisk' \in Remains(libDisk, lib) /\ lib' = libDisk'
  /\ origDisk' \in Remains(origDisk, orig) /\ orig' = origDisk'
  /\ met' = IF lib' = lib /\ orig' = orig THEN met ELSE met \cup {"power"}
  /\ UNCHANGED nvme

Next == Boot \/ FitStops \/ FitKeeps \/ FitFinds \/ FitWrites \/ Shutdown \/ Reset

Spec == Init /\ [][Next]_vars
-----------------------------------------------------------------------------
\* nvmelib.go: a machine with no NVMe gets the library back as it was, as long
\* as every write was done and none was lost.
PutBack == stage = "up" /\ nvme = <<>> /\ met = {} => lib = Pristine

Follows(i) == i <= Len(nvme) /\ nvme[i] \notin Wide => lib[i] = nvme[i]

\* nvmelib.go: the two addresses become those of the first two controllers,
\* whichever SSDs the boots before had, on a machine whose first controller is
\* not where the board's second slot would be.
SlotsFollowApart ==
  stage = "up" /\ met = {} /\ (Len(nvme) < 2 \/ nvme[1] # BoardPorts[2]) =>
    Follows(1) /\ Follows(2)

\* The library is only changed with a copy to start again from, so a full
\* system partition on the first boot leaves it usable.
CopyFirst == orig = None /\ "power" \notin met => lib = Pristine

\* nvmelib.go: the library as DSM shipped it is never lost, and comes back.
LibraryPutBack == PutBack /\ CopyFirst
=============================================================================
