------------------------------ MODULE FatVolume ------------------------------
(***************************************************************************)
(* The FAT32 volumes of a loader image: `FAT32`, which lays a volume out in*)
(* memory and writes its directories and tables when it is closed, and     *)
(* `FAT32Reader`, which reads one back (internal/image/fat32.go and        *)
(* fat32_read.go). Operators on a volume and on what closing it leaves on  *)
(* the disk; ImageBuild uses them.                                         *)
(*                                                                         *)
(* A path is a sequence of names and a file a sequence of units. What the  *)
(* code computes from the letters of a name is given: the class of names   *)
(* equal to it without regard to case, the 8.3 names it may get, whether it*)
(* needs a long name even if the first of them is not taken, how many      *)
(* records that takes.                                                     *)
(***************************************************************************)
EXTENDS Integers, SequencesExt

CONSTANTS
    Names,        \* names of files and directories
    Fold,         \* Fold[n]: n without regard to case
    Short,        \* Short[n]: the 8.3 form of n, then those with ~1, ~2, ...
    Lossy,        \* names their 8.3 form does not render
    Records,      \* Records[n]: long-name records n takes
    ClusterCount, \* clusters of a volume
    ClusterUnits, \* units of a file in a cluster
    PerCluster    \* directory entries in a cluster

ASSUME NamesAssumption ==
    /\ Fold \in [Names -> Names]
    /\ Lossy \subseteq Names
    /\ Records \in [Names -> Nat \ {0}]
    /\ \A n \in Names : n \notin Lossy => Short[n][1] = n

ASSUME SizesAssumption == {ClusterCount, ClusterUnits, PerCluster} \subseteq Nat \ {0}

Free == 0
EOC  == -1
RootCluster == 2
Clusters == RootCluster .. ClusterCount + RootCluster - 1

\* What a part of a cluster holds that nothing was written to.
Zero == [t |-> "zero"]

Ceil(a, b) == (a + b - 1) \div b

(***************************************************************************)
(* Writing.                                                                *)
(***************************************************************************)

FormatFAT32 ==
    [fat   |-> [c \in Clusters |-> IF c = RootCluster THEN EOC ELSE Free],
     next  |-> RootCluster + 1,
     nodes |-> <<[path |-> <<>>, isDir |-> TRUE, cluster |-> RootCluster, size |-> 0]>>,
     data  |-> [c \in Clusters |-> <<>>]]

ChildrenOf(vol, dir) == SelectSeq(vol.nodes, LAMBDA n : n.path # <<>> /\ Front(n.path) = dir)

\* The child of that name, whatever its case, as a set of at most one node.
ChildNamed(vol, dir, name) ==
    {n \in Range(ChildrenOf(vol, dir)) : Fold[Last(n.path)] = Fold[name]}

\* The first free cluster from `next` on; 0 when the volume is full.
FirstFree(vol) ==
    LET left == {c \in Clusters : c >= vol.next /\ vol.fat[c] = Free}
    IN  IF left = {} THEN 0 ELSE CHOOSE c \in left : \A d \in left : c <= d

\* Mutant: `next` is not moved on, and the cluster is only marked when linked.
AllocUnmarked(vol, prev) ==
    LET c == FirstFree(vol)
    IN  [ok |-> c # 0, c |-> c,
         vol |-> IF c = 0 THEN vol
                 ELSE [vol EXCEPT !.next = c,
                          !.fat = [x \in Clusters |-> IF x = prev THEN c ELSE @[x]]]]

\* The next cluster of a chain that ends in prev (0: a chain of its own).
Alloc(vol, prev) ==
    LET c == FirstFree(vol)
    IN  [ok |-> c # 0, c |-> c,
         vol |-> IF c = 0 THEN vol
                 ELSE [vol EXCEPT !.next = c + 1,
                          !.fat = [x \in Clusters |-> CASE x = c -> EOC
                                                        [] x = prev -> c
                                                        [] OTHER -> @[x]]]]

\* The directories on the way to a file, made as far as they are not there.
MkdirAll(vol, parts) ==
    FoldLeft(LAMBDA acc, part :
        LET found == ChildNamed(acc.vol, acc.at, part)
            node == CHOOSE n \in found : TRUE
            at == Append(acc.at, part)
        IN  IF ~acc.ok THEN acc
            ELSE IF found # {} THEN [acc EXCEPT !.ok = node.isDir, !.at = node.path]
            ELSE [acc EXCEPT !.at = at, !.vol.nodes =
                    Append(@, [path |-> at, isDir |-> TRUE, cluster |-> 0, size |-> 0])],
        [ok |-> TRUE, at |-> <<>>, vol |-> vol], parts)

\* Unit by unit what goes into cluster k of a file.
Chunk(content, k) ==
    [i \in 1 .. ClusterUnits |->
        IF (k - 1) * ClusterUnits + i > Len(content) THEN Zero
        ELSE content[(k - 1) * ClusterUnits + i]]

\* One file streamed into a new chain. The source may end before the size it
\* announced (`there` units come); what was claimed till then stays claimed.
AddData(vol, content, there) ==
    FoldLeft(LAMBDA acc, k :
        LET a == Alloc(acc.vol, acc.prev)
        IN  IF ~acc.ok THEN acc
            ELSE IF ~a.ok \/ there < Min({Len(content), k * ClusterUnits})
                 THEN [acc EXCEPT !.ok = FALSE]
            ELSE [ok |-> TRUE, first |-> IF acc.first = 0 THEN a.c ELSE acc.first,
                  prev |-> a.c, vol |-> [a.vol EXCEPT !.data[a.c] = Chunk(content, k)]],
        [ok |-> TRUE, first |-> 0, prev |-> 0, vol |-> vol],
        [k \in 1 .. Ceil(Len(content), ClusterUnits) |-> k])

\* Mutant: a name that is there already is not looked for.
AddFileTwice(vol, path, content, there) ==
    LET made == MkdirAll(vol, Front(path))
        put == AddData(made.vol, content, there)
    IN  IF ~made.ok THEN [ok |-> FALSE, vol |-> made.vol]
        ELSE [ok |-> put.ok, vol |-> [put.vol EXCEPT !.nodes =
                Append(@, [path |-> Append(made.at, Last(path)), isDir |-> FALSE,
                           cluster |-> put.first, size |-> Len(content)])]]

\* The result of one AddFile: whether it succeeded, and the volume then.
AddFile(vol, path, content, there) ==
    LET made == MkdirAll(vol, Front(path))
        taken == ChildNamed(made.vol, made.at, Last(path)) # {}
        put == AddData(made.vol, content, there)
    IN  IF ~made.ok \/ taken THEN [ok |-> FALSE, vol |-> made.vol]
        ELSE IF ~put.ok THEN [ok |-> FALSE, vol |-> put.vol]
        ELSE [ok |-> TRUE, vol |-> [put.vol EXCEPT !.nodes =
                Append(@, [path |-> Append(made.at, Last(path)), isDir |-> FALSE,
                           cluster |-> put.first, size |-> Len(content)])]]

\* Mutant: the ~n names are tried without looking at those given already.
ShortNamesBlind(nodes) ==
    [i \in DOMAIN nodes |->
        LET n == Last(nodes[i].path)
        IN  [short |-> IF n \in Lossy THEN Short[n][2] ELSE Short[n][1], long |-> n \in Lossy]]

\* The 8.3 names of a directory's children in their order, each with whether a
\* long name goes with it.
ShortNames(nodes) ==
    FoldLeft(LAMBDA acc, node :
        LET n == Last(node.path)
            used == {a.short : a \in Range(acc)}
            long == n \in Lossy \/ Short[n][1] \in used
            free == {i \in 2 .. Len(Short[n]) : Short[n][i] \notin used}
            i == IF long THEN CHOOSE j \in free : \A k \in free : j <= k ELSE 1
        IN  Append(acc, [short |-> Short[n][i], long |-> long]),
        <<>>, nodes)

\* The entries of a directory: its own two or the label, then for each child its
\* long-name records, the last first, and its short entry.
Entries(vol, dir, up) ==
    LET children == ChildrenOf(vol, dir)
        short == ShortNames(children)
        self == (CHOOSE n \in Range(vol.nodes) : n.path = dir).cluster
        Long(i) == IF ~short[i].long THEN <<>>
                   ELSE [k \in 1 .. Records[Last(children[i].path)] |->
                            [t |-> "lfn", name |-> Last(children[i].path),
                             seq |-> Records[Last(children[i].path)] + 1 - k]]
        One(i) == [t |-> "entry", short |-> short[i].short, isDir |-> children[i].isDir,
                   cluster |-> children[i].cluster, size |-> children[i].size]
    IN  (IF dir = <<>> THEN <<[t |-> "label"]>>
         ELSE <<[t |-> "dot", cluster |-> self],
                [t |-> "dot", cluster |-> IF up = RootCluster THEN 0 ELSE up]>>)
        \o FlattenSeq([i \in DOMAIN children |-> Append(Long(i), One(i))])

\* The directories below dir and dir itself, parents first.
DirsFrom(vol, dir) ==
    LET dirs == {n.path : n \in {m \in Range(vol.nodes) : m.isDir}}
        down[d \in dirs] ==
            LET sub == SelectSeq(ChildrenOf(vol, d), LAMBDA n : n.isDir)
            IN  <<d>> \o FlattenSeq([i \in DOMAIN sub |-> down[sub[i].path]])
    IN  down[dir]

EntryCount(vol, dir) == Len(Entries(vol, dir, 0))

\* One directory gets its clusters: the first unless it has one, then more.
AllocDir(acc, dir) ==
    LET at == CHOOSE i \in DOMAIN acc.vol.nodes : acc.vol.nodes[i].path = dir
        has == acc.vol.nodes[at].cluster
        head == IF has # 0 THEN [ok |-> TRUE, c |-> has, vol |-> acc.vol] ELSE Alloc(acc.vol, 0)
        named == [head.vol EXCEPT !.nodes[at].cluster = head.c]
        more == Ceil(EntryCount(acc.vol, dir), PerCluster) - 1
        Extend(a, k) == LET n == Alloc(a.vol, a.c)
                        IN  IF a.ok THEN n ELSE a
    IN  IF ~acc.ok \/ ~head.ok THEN [acc EXCEPT !.ok = FALSE]
        ELSE LET e == FoldLeft(Extend, [ok |-> TRUE, c |-> head.c, vol |-> named],
                               [k \in 1 .. more |-> k])
             IN  [ok |-> e.ok, vol |-> e.vol]

\* The clusters of a chain, in order; as many as a table has at most.
Chain(fat, first) ==
    FoldLeft(LAMBDA acc, k :
        IF acc # <<>> /\ fat[Last(acc)] \notin Clusters THEN acc
        ELSE Append(acc, IF acc = <<>> THEN first ELSE fat[Last(acc)]),
        <<>>, [k \in 1 .. ClusterCount |-> k])

\* A directory written into its chain, the rest of the last cluster zeroed.
WriteDir(data, vol, dir) ==
    LET node == CHOOSE n \in Range(vol.nodes) : n.path = dir
        up == IF dir = <<>> THEN 0
              ELSE (CHOOSE n \in Range(vol.nodes) : n.path = Front(dir)).cluster
        es == Entries(vol, dir, up)
        chain == Chain(vol.fat, node.cluster)
        Part(k) == [i \in 1 .. PerCluster |->
                       IF (k - 1) * PerCluster + i > Len(es) THEN Zero
                       ELSE es[(k - 1) * PerCluster + i]]
    IN  [c \in Clusters |-> IF \E k \in DOMAIN chain : chain[k] = c
                            THEN Part(CHOOSE k \in DOMAIN chain : chain[k] = c)
                            ELSE data[c]]

\* Directories that got fewer clusters than their entries take.
Unreserved(vol, dirs) ==
    {d \in Range(dirs) :
        PerCluster * Len(Chain(vol.fat, (CHOOSE n \in Range(vol.nodes) : n.path = d).cluster))
            < Len(Entries(vol, d, 0))}

\* Mutant: the root's first cluster is not counted as taken.
FreeCountOffByOne(vol) == ClusterCount - (vol.next - RootCluster - 1)

\* The count FSInfo gets: nothing is ever freed, so what lies before next is taken.
FreeCount(vol) == ClusterCount - (vol.next - RootCluster)

\* What closing a volume leaves on the disk.
Close(vol) ==
    LET dirs == DirsFrom(vol, <<>>)
        a == FoldLeft(AllocDir, [ok |-> TRUE, vol |-> vol], dirs)
        v == a.vol
    IN  IF ~a.ok \/ Unreserved(v, dirs) # {} THEN [ok |-> FALSE, vol |-> v]
        ELSE [ok |-> TRUE, vol |-> v,
              disk |-> [fats |-> <<v.fat, v.fat>>, root |-> RootCluster, free |-> FreeCount(v),
                        data |-> FoldLeft(LAMBDA d, dir : WriteDir(d, v, dir), v.data, dirs)]]

(***************************************************************************)
(* Reading.                                                                *)
(***************************************************************************)

ReadChain(disk, first) ==
    LET chain == Chain(disk.fats[1], first)
    IN  FlattenSeq([k \in DOMAIN chain |-> disk.data[chain[k]]])

\* The name the records in front of an entry make, in the order read.
LongName(lfn) ==
    IF [i \in DOMAIN lfn |-> lfn[i].seq] = [i \in 1 .. Records[lfn[1].name] |-> i]
    THEN lfn[1].name ELSE "garbled"

\* The entries up to the first that was never written, each with its long name
\* when records stand in front of it. The end of a full directory is its chain's.
ReadDir(disk, cluster) ==
    LET raw == ReadChain(disk, cluster)
        zeros == {i \in DOMAIN raw : raw[i] = Zero}
        till == IF zeros = {} THEN Len(raw) ELSE (CHOOSE i \in zeros : \A j \in zeros : i <= j) - 1
    IN  FoldLeft(LAMBDA acc, e :
            CASE e.t = "lfn" -> [acc EXCEPT !.lfn = <<e>> \o @]
              [] e.t = "entry" ->
                   [lfn |-> <<>>,
                    out |-> Append(acc.out,
                        [name |-> IF acc.lfn = <<>> THEN e.short ELSE LongName(acc.lfn),
                         isDir |-> e.isDir, cluster |-> e.cluster, size |-> e.size])]
              [] OTHER -> [acc EXCEPT !.lfn = <<>>],
            [lfn |-> <<>>, out |-> <<>>], SubSeq(raw, 1, till)).out

ReadFile(disk, e) ==
    IF e.size = 0 \/ e.cluster = 0 THEN <<>>
    ELSE SubSeq(ReadChain(disk, e.cluster), 1, e.size)

\* Every file of the volume with its path, depth first.
WalkAll(disk) ==
    LET under[c \in Clusters] ==
            LET es == ReadDir(disk, c)
                Of(e) == IF ~e.isDir THEN <<[path |-> <<e.name>>, data |-> ReadFile(disk, e)]>>
                         ELSE IF e.cluster = 0 THEN <<>>
                         ELSE LET sub == under[e.cluster]
                              IN  [i \in DOMAIN sub |-> [sub[i] EXCEPT !.path = <<e.name>> \o @]]
            IN  FlattenSeq([i \in DOMAIN es |-> Of(es[i])])
    IN  under[disk.root]
=============================================================================
