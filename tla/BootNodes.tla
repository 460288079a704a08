------------------------------ MODULE BootNodes ------------------------------
(***************************************************************************)
(* makeBootDevice (cmd/vibeldr-init/main.go) with internal/synoboot: the   *)
(* nodes /dev/synoboot and /dev/synoboot1, 2, 3, ... made for the loader's *)
(* disk while disks and their partitions are still being registered, once at *)
(* the start and once more before the installer, and the check of the disk *)
(* behind it.                                                              *)
(*                                                                         *)
(* The kernel's names for disks are 1, 2, ...; a disk gets the first that is *)
(* free, and its device number is that of the name.                        *)
(***************************************************************************)
EXTENDS Integers

CONSTANTS
    DiskNames, \* the names the kernel has
    LoaderDisk,
    Others,    \* other disks
    PartsOf,   \* PartsOf[d]: partitions on disk d
    MaxLeft,   \* times a disk leaves the machine
    Absent

ASSUME BootNodesAssumption ==
    /\ DiskNames \subseteq Nat /\ LoaderDisk \notin Others /\ Absent \notin Others \cup {LoaderDisk, {}}
    /\ \A n \in DiskNames, p \in 0 .. 4 : Absent # [name |-> n, part |-> p]
    /\ PartsOf \in [Others \cup {LoaderDisk} -> Nat] /\ PartsOf[LoaderDisk] \in 3 .. 4

RequiredPartitions == 1 .. 3

VARIABLES
    bus,      \* bus[n]: the disk under name n
    shown,    \* shown[n]: its partitions that are registered so far
    mark,     \* the loader's disk: "none", "mark" (the kernel's only) or "switch"
    nodes,    \* nodes[p]: what /dev/synoboot<p> is, [name, part], or Absent; 0 the disk
    create,   \* the running Create: [at, names, name, todo], or Absent
    call,     \* 1 or 2, which call it is; 3 when both are over
    problems, \* what Check found in the call that ended, or Absent
    left,     \* disks that left so far
    still     \* history: [call: none left since the call began, boot: none at all,
              \*           all: the call saw all of the partitions]

nodeVars == <<bus, shown, mark, nodes, create, call, problems, left, still>>

NodesInit ==
    /\ bus = [n \in DiskNames |-> Absent] /\ shown = [n \in DiskNames |-> 0]
    /\ mark \in {"none", "mark", "switch"}
    /\ nodes = [p \in 0 .. 4 |-> Absent] /\ create = Absent /\ call = 1 /\ problems = Absent
    /\ left = 0 /\ still = [call |-> TRUE, boot |-> TRUE, all |-> FALSE]

(***************************************************************************)
(* The kernel.                                                             *)
(***************************************************************************)

Appear(d) ==
    /\ \A n \in DiskNames : bus[n] # d
    /\ \E n \in DiskNames :
          /\ bus[n] = Absent /\ \A m \in DiskNames : m < n => bus[m] # Absent
          /\ bus' = [bus EXCEPT ![n] = d] /\ shown' = [shown EXCEPT ![n] = 0]
    /\ UNCHANGED <<mark, nodes, create, call, problems, left, still>>

Register(n) ==
    /\ bus[n] # Absent /\ shown[n] < PartsOf[bus[n]]
    /\ shown' = [shown EXCEPT ![n] = @ + 1]
    /\ UNCHANGED <<bus, mark, nodes, create, call, problems, left, still>>

Leave(n) ==
    /\ bus[n] # Absent /\ left < MaxLeft /\ left' = left + 1
    /\ bus' = [bus EXCEPT ![n] = Absent] /\ shown' = [shown EXCEPT ![n] = 0]
    /\ still' = [still EXCEPT !.call = FALSE, !.boot = FALSE]
    /\ UNCHANGED <<mark, nodes, create, call, problems>>

(***************************************************************************)
(* Create.                                                                 *)
(***************************************************************************)

IsFirst(n, numbers) == n \in numbers /\ \A m \in numbers : n <= m

\* The disks that are listed, to be looked at in the order of their names.
List ==
    /\ create = Absent /\ call \in 1 .. 2 /\ problems = Absent
    /\ create' = [at |-> "look", names |-> {n \in DiskNames : bus[n] # Absent}, name |-> 0, todo |-> {}]
    /\ still' = [still EXCEPT !.call = TRUE, !.all = FALSE]
    /\ UNCHANGED <<bus, shown, mark, nodes, call, problems, left>>

\* The label of one disk's first partition, read from the disk.
Look ==
    /\ create # Absent /\ create.at = "look"
    /\ \E n \in create.names :
          /\ IsFirst(n, create.names)
          /\ create' = IF bus[n] = LoaderDisk THEN [create EXCEPT !.at = "disk", !.name = n]
                       ELSE [create EXCEPT !.names = @ \ {n}]
    /\ UNCHANGED <<bus, shown, mark, nodes, call, problems, left, still>>

\* Mutant: a node that is there is left as it is.
MknodKept(p) ==
    nodes' = [nodes EXCEPT ![p] = IF @ = Absent THEN [name |-> create.name, part |-> p] ELSE @]

MknodBlock(p) == nodes' = [nodes EXCEPT ![p] = [name |-> create.name, part |-> p]]

MakeDisk ==
    /\ create # Absent /\ create.at = "disk" /\ bus[create.name] # Absent
    /\ MknodBlock(0) /\ create' = [create EXCEPT !.at = "parts"]
    /\ UNCHANGED <<bus, shown, mark, call, problems, left, still>>

\* The partitions that are registered by now; none is an error.
ListPartitions ==
    /\ create # Absent /\ create.at = "parts" /\ bus[create.name] # Absent /\ shown[create.name] > 0
    /\ create' = [create EXCEPT !.at = "nodes", !.todo = 1 .. shown[create.name]]
    /\ still' = [still EXCEPT !.all = shown[create.name] = PartsOf[bus[create.name]]]
    /\ UNCHANGED <<bus, shown, mark, nodes, call, problems, left>>

MakePartition ==
    /\ create # Absent /\ create.at = "nodes"
    /\ \E p \in create.todo :
          /\ IsFirst(p, create.todo)
          /\ MknodBlock(p) /\ create' = [create EXCEPT !.todo = @ \ {p}]
    /\ UNCHANGED <<bus, shown, mark, call, problems, left, still>>

\* Not found, gone, without partitions, or a node that cannot be made: tried
\* again, until the time is up.
CreateFails ==
    /\ create # Absent
    /\ \/ create.at = "look" /\ create.names = {}
       \/ create.at # "look"
    /\ create' = Absent
    /\ \/ UNCHANGED <<call, problems>>
       \/ call' = call + 1 /\ problems' = Absent
    /\ UNCHANGED <<bus, shown, mark, nodes, left, still>>

(***************************************************************************)
(* Check.                                                                  *)
(***************************************************************************)

IsLoader(p, node) == node # Absent /\ node.part = p /\ bus[node.name] = LoaderDisk /\ p <= shown[node.name]

\* The mark is cleared through the new node; the switch is not.
MarkAfter == IF mark = "mark" /\ IsLoader(0, nodes[0]) THEN "none" ELSE mark

ReadOnly == bus[create.name] = LoaderDisk /\ MarkAfter # "none"

\* Whether a node opens for writing: a disk is there, and it is writable.
Opens(p) ==
    /\ nodes[p] # Absent /\ bus[nodes[p].name] # Absent /\ nodes[p].part <= shown[nodes[p].name]
    /\ bus[nodes[p].name] = LoaderDisk => MarkAfter = "none"

\* Mutant: the nodes are not opened.
CheckBlind ==
    /\ create # Absent /\ create.at = "nodes" /\ create.todo = {}
    /\ problems' = IF ReadOnly THEN {"readonly"}
                   ELSE {<<"missing", p>> : p \in {q \in RequiredPartitions : q > shown[create.name]}}
    /\ mark' = MarkAfter /\ create' = Absent
    /\ UNCHANGED <<bus, shown, nodes, call, left, still>>

Check ==
    /\ create # Absent /\ create.at = "nodes" /\ create.todo = {}
    /\ problems' = IF ReadOnly THEN {"readonly"}
                   ELSE {<<"missing", p>> : p \in {q \in RequiredPartitions : q > shown[create.name]}}
                        \cup {<<"closed", p>> : p \in {q \in RequiredPartitions : q <= shown[create.name] /\ ~Opens(q)}}
    /\ mark' = MarkAfter /\ create' = Absent
    /\ UNCHANGED <<bus, shown, nodes, call, left, still>>

\* The stage goes on, to the second call; /dev may be mounted anew on the way.
GoOn ==
    /\ create = Absent /\ problems # Absent
    /\ call' = call + 1 /\ problems' = Absent
    /\ nodes' \in {nodes, [p \in 0 .. 4 |-> Absent]}
    /\ UNCHANGED <<bus, shown, mark, create, left, still>>

NodesNext ==
    \/ \E d \in Others \cup {LoaderDisk} : Appear(d)
    \/ \E n \in DiskNames : Register(n) \/ Leave(n)
    \/ List \/ Look \/ MakeDisk \/ ListPartitions \/ MakePartition \/ CreateFails \/ Check \/ GoOn
    \/ call = 3 /\ UNCHANGED nodeVars

NodesSpec == NodesInit /\ [][NodesNext]_nodeVars

(***************************************************************************)
(* Property.                                                               *)
(***************************************************************************)

\* A call that ended without a problem reported leaves the three nodes DSM's
\* updater needs on the loader's partitions, writable, although partitions were
\* still being registered when it listed them, disks had moved since the earlier
\* call left nodes behind, and the disk was marked read-only. For a disk that
\* moved between the calls this takes that all its partitions were listed.
NodesAreLoaders ==
    [][problems = Absent /\ problems' = {} /\ still.call /\ (still.boot \/ still.all) =>
         \A p \in 0 .. 3 : IsLoader(p, nodes[p]) /\ mark' = "none"]_nodeVars
=============================================================================
